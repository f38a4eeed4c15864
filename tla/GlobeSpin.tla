----------------------------- MODULE GlobeSpin -----------------------------
(***************************************************************************)
(* The rotation of the idle globe (map/globeSpin.ts) against everything    *)
(* else that moves the camera of map/LiveMap.tsx: the user's hands, the    *)
(* two buttons and the introductory flight.  An animation of MapLibre ends *)
(* with a moveend event; a new one replaces the one before it.             *)
(*                                                                         *)
(* The code sees events, not hands: each finger or button that goes down   *)
(* or up is an event of its own, and some that go up are never reported.   *)
(***************************************************************************)
EXTENDS Naturals

CONSTANT MaxHeld  \* bound: fingers and buttons down at a time

ASSUME SpinAssumption == MaxHeld \in Nat

VARIABLES
  life,        \* "loading", "loaded", "gone" (unmounted)
  enabled, interacting, resumeTimer,   \* the variables of createGlobeSpin
  intro,       \* the timer of the first flight: "unset", "pending", "done"
  camera,      \* "still", "easing" (a nudge of the spin), "flying" (any other)
  zoom,        \* "far": the globe may spin; "near": past maxSpinZoom
  goal,        \* the zoom a flight leads to
  held,        \* how many mouse buttons and fingers are down
  dragging,    \* between a dragstart and its dragend
  report       \* history: the last thing the events said of the user's hands,
               \* "start" or "end" of an interaction; at first "none"

hands    == <<held, dragging, report>>
spinVars == <<life, enabled, interacting, resumeTimer, intro, camera, zoom, goal, hands>>

Zoom == {"far", "near"}

SpinInit ==
  /\ life = "loading" /\ intro = "unset"
  /\ enabled = FALSE /\ interacting = FALSE /\ resumeTimer = FALSE
  /\ camera = "still" /\ zoom = "far" /\ goal = "far"
  /\ held = 0 /\ dragging = FALSE /\ report = "none"

\* step(): the next nudge, if the spin is on; the argument is the zoom it reads.
Step(z, on, busy) ==
  camera' = IF on /\ ~busy /\ z = "far" THEN "easing" ELSE "still"

\* The spin is disturbed: after the callback the camera may still be moving.
StepOrGoOn(z, on, busy) ==
  camera' = IF on /\ ~busy /\ z = "far" THEN "easing" ELSE camera

\* onInteractStart and onInteractEnd.
InteractStart == interacting' = TRUE /\ resumeTimer' = FALSE /\ report' = "start"
InteractEnd   == UNCHANGED interacting /\ resumeTimer' = TRUE /\ report' = "end"

-----------------------------------------------------------------------------
\* map.on('load').
Loaded ==
  /\ life = "loading" /\ life' = "loaded"
  /\ enabled' = TRUE /\ StepOrGoOn(zoom, TRUE, interacting)
  /\ intro' = "pending"
  /\ UNCHANGED <<interacting, resumeTimer, zoom, goal, hands>>

Fly(to) == camera' = "flying" /\ goal' = to

\* The introductory flight.  Nothing cancels its timer.
IntroFires ==
  /\ intro = "pending" /\ intro' = "done"
  /\ IF life = "gone" THEN UNCHANGED <<camera, goal>> ELSE Fly("near")
  /\ UNCHANGED <<life, enabled, interacting, resumeTimer, zoom, hands>>

Button(to) ==
  /\ life = "loaded"
  /\ Fly(to)
  /\ UNCHANGED <<life, enabled, interacting, resumeTimer, intro, zoom, hands>>

\* The end of an animation; a flight that was cut short is anywhere.
MoveEnd ==
  /\ life # "gone" /\ camera # "still"
  /\ zoom' \in IF camera = "flying" THEN {zoom, goal} ELSE {zoom}
  /\ Step(zoom', enabled, interacting)
  /\ UNCHANGED <<life, enabled, interacting, resumeTimer, intro, goal, hands>>

\* mousedown, touchstart: also of a second finger.
Press ==
  /\ life # "gone" /\ held < MaxHeld
  /\ held' = held + 1 /\ InteractStart
  /\ UNCHANGED <<life, enabled, intro, camera, zoom, goal, dragging>>

\* mouseup, touchend: also of one of several fingers.
MutReleaseForgetsTimer ==
  /\ life # "gone" /\ held > 0
  /\ held' = held - 1 /\ report' = "end"
  /\ UNCHANGED <<life, enabled, interacting, resumeTimer, intro, camera, zoom, goal, dragging>>
Release ==
  /\ life # "gone" /\ held > 0
  /\ held' = held - 1 /\ InteractEnd
  /\ UNCHANGED <<life, enabled, intro, camera, zoom, goal, dragging>>

\* A button goes up outside of the canvas, or the system takes the touches
\* away (touchcancel): no handler is told.
ReleaseUnseen ==
  /\ held > 0
  /\ held' \in 0..(held - 1)
  /\ UNCHANGED <<life, enabled, interacting, resumeTimer, intro, camera, zoom, goal,
                 dragging, report>>

DragStart ==
  /\ life # "gone" /\ held > 0 /\ ~dragging
  /\ dragging' = TRUE /\ InteractStart
  /\ UNCHANGED <<life, enabled, intro, camera, zoom, goal, held>>

DragEnd ==
  /\ life # "gone" /\ dragging
  /\ dragging' = FALSE /\ InteractEnd
  /\ UNCHANGED <<life, enabled, intro, camera, zoom, goal, held>>

\* A turn of the wheel both starts and ends an interaction, whatever is held.
Wheel ==
  /\ life # "gone"
  /\ interacting' = TRUE /\ resumeTimer' = TRUE /\ report' = "end"
  /\ \E z \in Zoom : Fly(z)
  /\ UNCHANGED <<life, enabled, intro, zoom, held, dragging>>

ResumeFires ==
  /\ resumeTimer /\ resumeTimer' = FALSE
  /\ interacting' = FALSE
  /\ StepOrGoOn(zoom, enabled, FALSE)
  /\ UNCHANGED <<life, enabled, intro, zoom, goal, hands>>

\* The cleanup of the effect: destroy() and map.remove().
Unmounted ==
  /\ life # "gone" /\ life' = "gone"
  /\ enabled' = FALSE /\ resumeTimer' = FALSE /\ camera' = "still"
  /\ UNCHANGED <<interacting, intro, zoom, goal, hands>>

SpinNext ==
  \/ Loaded \/ IntroFires \/ MoveEnd \/ ResumeFires \/ Unmounted
  \/ Press \/ Release \/ ReleaseUnseen \/ DragStart \/ DragEnd \/ Wheel
  \/ \E to \in Zoom : Button(to)

SpinSpec == SpinInit /\ [][SpinNext]_spinVars

\* Animations end and timers fire; nothing is assumed of the user.
SpinFairness ==
  WF_spinVars(MoveEnd) /\ WF_spinVars(ResumeFires) /\ WF_spinVars(IntroFires)

-----------------------------------------------------------------------------
(***************************************************************************)
(* Properties.                                                             *)
(***************************************************************************)

\* A nudge of the spin begins: the camera begins to ease, or eases on.
NudgeBegins == camera' = "easing" /\ (camera # "easing" \/ MoveEnd)

\* Once the events have told of the start of an interaction, the spin begins
\* no nudge until they have told of an end: through animations that end,
\* buttons, the load and the timer of an earlier interaction.
YieldsToTheUser == [][report' = "start" => ~NudgeBegins]_spinVars

\* A pause has an end: once an end was reported, the timer that ends the pause
\* is pending, whatever was pressed, dragged or turned before.
PauseEnds == interacting /\ report # "start" /\ life # "gone" => resumeTimer

\* After the unmount the spin leaves nothing behind: no timer, no motion.
GoneIsQuiet == life = "gone" => ~resumeTimer /\ camera = "still"

\* The globe whose user's hands are off it, as far as the events tell, turns
\* when it is zoomed out.
LeftAloneItTurns ==
  (life = "loaded") ~> \/ camera = "easing"
                       \/ report = "start"
                       \/ zoom = "near"
                       \/ life = "gone"

\* "without fighting input" (globeSpin.ts): no nudge begins while anything is
\* down.  One of two fingers that goes up, or the wheel, breaks it.
NeverFightsInput == [][held' > 0 => ~NudgeBegins]_spinVars

\* It pauses while the user interacts, and no longer.  A button that goes up
\* outside of the canvas breaks it.
PausesOnlyWhileHeld == interacting /\ held = 0 /\ life # "gone" => resumeTimer

\* What the cleanup is for: no callback uses the map after map.remove().
NoFlightAfterRemoval == [][life = "gone" => ~IntroFires]_spinVars

\* The spin yields, pauses only for a while, and ends with the map.
SpinYields == [](PauseEnds /\ GoneIsQuiet) /\ YieldsToTheUser /\ LeftAloneItTurns
=============================================================================
