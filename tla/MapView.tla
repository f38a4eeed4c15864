------------------------------ MODULE MapView ------------------------------
(***************************************************************************)
(* The live map of the dashboard: the filters and the selection            *)
(* (map/MapView.tsx) and what the effects of map/LiveMap.tsx then do to    *)
(* the MapLibre map: markers, the trace, the camera.                       *)
(*                                                                         *)
(* Stream updates and clicks only change state and leave the view dirty;   *)
(* Commit is the render that follows, with all its effects.  Several       *)
(* changes may come before one Commit, and a click may hit a marker that   *)
(* the next Commit will remove.  Positions and appearance other than       *)
(* status and selection are abstracted.                                    *)
(***************************************************************************)
EXTENDS Naturals

CONSTANTS
  MapVehicle, Status, Zone,
  Enough,      \* samples that make a trace worth framing
  Nothing      \* null

ASSUME MapAssumption ==
  /\ Nothing \notin MapVehicle \cup Status \cup Zone
  /\ Nothing \notin [status : Status, zones : SUBSET Zone]
  /\ Nothing \notin [status : Status, selected : BOOLEAN]
  /\ Enough \in Nat

VARIABLES
  fleet,       \* the vehicles of the stream: Nothing, or status and zoneIds
  samples,     \* how many samples the window of a vehicle's trace has
  filter,      \* driverStatus and zoneId
  selected,    \* selectedVehicleId
  dirty,       \* state has changed since the last Commit
  map,         \* "loading", "ready", "failed" (no WebGL), "removed"
  markers,     \* entriesRef: Nothing, or the status and selection drawn
  drawn,       \* whose trace the trace source holds
  framed,      \* framedRef
  choice       \* history: fits of the camera since the selection last changed

mapVars == <<fleet, samples, filter, selected, dirty, map, markers, drawn, framed, choice>>

MapInit ==
  /\ fleet = [v \in MapVehicle |-> Nothing]
  /\ samples = [v \in MapVehicle |-> 0]
  /\ filter = [status |-> Nothing, zone |-> Nothing]
  /\ selected = Nothing
  /\ dirty = TRUE
  /\ map \in {"loading", "failed"}
  /\ markers = [v \in MapVehicle |-> Nothing]
  /\ drawn = Nothing /\ framed = Nothing
  /\ choice = 0

\* filterVehicles.
Shown ==
  {v \in MapVehicle :
     /\ fleet[v] # Nothing
     /\ filter.status \in {Nothing, fleet[v].status}
     /\ filter.zone \in {Nothing} \cup fleet[v].zones}

-----------------------------------------------------------------------------
\* The properties of MapView change: any change is allowed, more than
\* useFleetState makes, which never drops a vehicle.
StreamUpdate(v) ==
  /\ map # "removed"
  /\ \/ /\ fleet' \in {[fleet EXCEPT ![v] = Nothing]} \cup
             {[fleet EXCEPT ![v] = [status |-> s, zones |-> zs]] :
                s \in Status, zs \in SUBSET Zone}
        /\ UNCHANGED samples
     \/ /\ samples[v] < Enough /\ samples' = [samples EXCEPT ![v] = @ + 1]
        /\ UNCHANGED fleet
  /\ dirty' = TRUE
  /\ UNCHANGED <<filter, selected, map, markers, drawn, framed, choice>>

SetFilter(status, zone) ==
  /\ map # "removed"
  /\ filter' = [status |-> status, zone |-> zone]
  /\ dirty' = TRUE
  /\ UNCHANGED <<fleet, samples, selected, map, markers, drawn, framed, choice>>

\* A click on a marker that is on the map, still or already.
Click(v) ==
  /\ map = "ready" /\ markers[v] # Nothing
  /\ selected' = v /\ dirty' = TRUE
  /\ choice' = IF selected = v THEN choice ELSE 0
  /\ UNCHANGED <<fleet, samples, filter, map, markers, drawn, framed>>

Load ==
  /\ map = "loading"
  /\ map' = "ready" /\ dirty' = TRUE
  /\ UNCHANGED <<fleet, samples, filter, selected, markers, drawn, framed, choice>>

-----------------------------------------------------------------------------
\* The effect that reconciles the markers with the vehicles shown.
Reconcile ==
  markers' = [v \in MapVehicle |->
    IF v \in Shown THEN [status |-> fleet[v].status, selected |-> v = selected] ELSE Nothing]

\* The effect that draws the trace and frames it once per selection.
Fits == selected # Nothing /\ framed # selected /\ samples[selected] = Enough
DrawTrace ==
  /\ drawn' = selected
  /\ framed' = IF selected = Nothing THEN Nothing ELSE IF Fits THEN selected ELSE framed
  /\ choice' = IF Fits /\ choice < 2 THEN choice + 1 ELSE choice

\* The effect of MapView: the selection goes when its vehicle is filtered out,
\* which renders once more.
MutClearSelectionNever == selected' = selected /\ dirty' = FALSE
ClearSelection ==
  IF selected # Nothing /\ selected \notin Shown
  THEN selected' = Nothing /\ dirty' = TRUE
  ELSE selected' = selected /\ dirty' = FALSE

Commit ==
  /\ dirty /\ map # "removed"
  /\ IF map = "ready" THEN Reconcile /\ DrawTrace
     ELSE UNCHANGED <<markers, drawn, framed, choice>>
  /\ ClearSelection
  /\ UNCHANGED <<fleet, samples, filter, map>>

\* Unmounting removes the markers before the map.
Unmount ==
  /\ map # "removed" /\ map' = "removed" /\ dirty' = FALSE
  /\ markers' = [v \in MapVehicle |-> Nothing]
  /\ UNCHANGED <<fleet, samples, filter, selected, drawn, framed, choice>>

MapNext ==
  \/ \E v \in MapVehicle : StreamUpdate(v) \/ Click(v)
  \/ \E s \in Status \cup {Nothing}, z \in Zone \cup {Nothing} : SetFilter(s, z)
  \/ Load
  \/ Commit
  \/ Unmount

MapSpec == MapInit /\ [][MapNext]_mapVars

-----------------------------------------------------------------------------
(***************************************************************************)
(* Properties.                                                             *)
(***************************************************************************)

\* Types of the variables.
MapTypeOK ==
  /\ fleet \in [MapVehicle -> {Nothing} \cup [status : Status, zones : SUBSET Zone]]
  /\ samples \in [MapVehicle -> 0..Enough]
  /\ filter \in [status : Status \cup {Nothing}, zone : Zone \cup {Nothing}]
  /\ {selected, drawn, framed} \subseteq MapVehicle \cup {Nothing}
  /\ dirty \in BOOLEAN
  /\ map \in {"loading", "ready", "failed", "removed"}
  /\ markers \in [MapVehicle -> {Nothing} \cup [status : Status, selected : BOOLEAN]]
  /\ choice \in 0..2

\* Design, Property 15: once the effects have run, the map has a marker for
\* exactly the vehicles that match the filters, drawn with their status; the
\* one selected, and only it, has the halo and its trace.
MapShowsTheView ==
  ~dirty /\ map = "ready" =>
    /\ \A v \in MapVehicle :
         IF fleet[v] # Nothing /\ filter.status \in {Nothing, fleet[v].status}
              /\ (filter.zone = Nothing \/ filter.zone \in fleet[v].zones)
         THEN markers[v] = [status |-> fleet[v].status, selected |-> v = selected]
         ELSE markers[v] = Nothing
    /\ drawn = selected

\* What is selected can be seen: a click that raced with the filter does not
\* leave a selection without a marker.
SelectionIsVisible ==
  ~dirty /\ map = "ready" /\ selected # Nothing => markers[selected] # Nothing

\* The comment at the trace effect: the camera frames a selection once, never
\* again as its trace grows.
FramedOnce == choice <= 1

\* Leaving the view leaves no marker on the removed map.
RemovedIsEmpty == map = "removed" => \A v \in MapVehicle : markers[v] = Nothing

\* The map agrees with the state of the view, in every state.
MapSafe ==
  /\ MapTypeOK /\ RemovedIsEmpty /\ FramedOnce
  /\ MapShowsTheView /\ SelectionIsVisible
=============================================================================
