------------------------------ MODULE Widgets ------------------------------
(***************************************************************************)
(* The two components of the dashboard that leave something behind in the  *)
(* document: the toast stack with its timers (components/Toast.tsx) and    *)
(* the dialog with its keyboard listener (components/Modal.tsx).           *)
(***************************************************************************)
EXTENDS Ordering

CONSTANTS MaxToasts, MaxRenders  \* bounds on toasts pushed and parents rendered

ASSUME WidgetAssumption == MaxToasts \in Nat /\ MaxRenders \in Nat

VARIABLES
  toasts,      \* the ids in the stack, oldest first
  toastSeq,    \* the last id given
  expiring,    \* ids whose timer is pending
  sticky,      \* history: ids pushed with ttlMs = 0
  open,        \* the dialog is open
  listeners,   \* keydown listeners of the document: the onClose each calls
  onClose,     \* the onClose the parent last rendered with: a new one each time
  focus        \* "page", "dialog" (its frame), "field" (an input in it)

widgetVars == <<toasts, toastSeq, expiring, sticky, open, listeners, onClose, focus>>
toastVars  == <<toasts, toastSeq, expiring, sticky>>
modalVars  == <<open, listeners, onClose, focus>>

WidgetInit ==
  /\ toasts = <<>> /\ toastSeq = 0 /\ expiring = {} /\ sticky = {}
  /\ open = FALSE /\ listeners = {} /\ onClose = 0 /\ focus = "page"

-----------------------------------------------------------------------------
\* ttl: the toast has a lifetime and its timer is set.
Push(ttl) ==
  /\ toastSeq < MaxToasts /\ toastSeq' = toastSeq + 1
  /\ toasts' = Append(toasts, toastSeq')
  /\ IF ttl THEN expiring' = expiring \cup {toastSeq'} /\ UNCHANGED sticky
     ELSE sticky' = sticky \cup {toastSeq'} /\ UNCHANGED expiring
  /\ UNCHANGED modalVars

Without(id) == SelectAt(toasts, {i \in DOMAIN toasts : toasts[i] # id})

\* A click; the timer stays and fires for an id that is gone.
Dismiss(id) ==
  /\ \E i \in DOMAIN toasts : toasts[i] = id
  /\ toasts' = Without(id)
  /\ UNCHANGED <<toastSeq, expiring, sticky, modalVars>>

Expire(id) ==
  /\ id \in expiring /\ expiring' = expiring \ {id}
  /\ toasts' = Without(id)
  /\ UNCHANGED <<toastSeq, sticky, modalVars>>

-----------------------------------------------------------------------------
\* The effect on [open, onClose]: its cleanup removes the old listener, then it
\* adds the new one and moves the focus to the dialog.
MutModalEffectKeepsListener(isOpen, close) ==
  /\ listeners' = listeners \cup IF isOpen THEN {close} ELSE {}
  /\ focus' = IF isOpen THEN "dialog" ELSE "page"
ModalEffect(isOpen, close) ==
  /\ listeners' = IF isOpen THEN {close} ELSE {}
  /\ focus' = IF isOpen THEN "dialog" ELSE "page"

\* The parent renders: it opens or closes the dialog, and passes a new closure.
Render(isOpen) ==
  /\ onClose < MaxRenders
  /\ open' = isOpen /\ onClose' = onClose + 1
  /\ ModalEffect(isOpen, onClose')
  /\ UNCHANGED toastVars

FocusField ==
  /\ open /\ focus' = "field"
  /\ UNCHANGED <<toastVars, open, listeners, onClose>>

\* Escape calls every listener; the parent renders with open = FALSE.
Escape == listeners # {} /\ Render(FALSE)

WidgetNext ==
  \/ \E ttl \in BOOLEAN : Push(ttl)
  \/ \E id \in 1..MaxToasts : Dismiss(id) \/ Expire(id)
  \/ \E isOpen \in BOOLEAN : Render(isOpen)
  \/ FocusField
  \/ Escape

WidgetSpec == WidgetInit /\ [][WidgetNext]_widgetVars
-----------------------------------------------------------------------------
(***************************************************************************)
(* Properties.                                                             *)
(***************************************************************************)

\* React keys: no two toasts of the stack have the same id, however pushes,
\* clicks and timers interleave, and the stack stays in the order of the pushes.
ToastsInOrder ==
  \A i, j \in DOMAIN toasts : i < j => toasts[i] < toasts[j]

\* A toast with a lifetime that is still shown has its timer: none is left on
\* the screen for ever by another one's timer or click.
TransientHasTimer ==
  \A i \in DOMAIN toasts : toasts[i] \in expiring \cup sticky

\* A toast without a lifetime leaves only by a click on it.
StickyStays ==
  [][\A id \in sticky : (\E i \in DOMAIN toasts : toasts[i] = id)
       /\ (\A i \in DOMAIN toasts' : toasts'[i] # id) => Dismiss(id)]_widgetVars

\* However often the parent renders, one Escape closes once: an open dialog has
\* exactly one listener, the current one, and a closed dialog none.
OneListener == listeners = IF open THEN {onClose} ELSE {}

\* "Move focus into the dialog on open": only then.  Not so: a render with a new
\* closure takes the focus from the field the user types in.
FocusStays == [][focus = "field" /\ open /\ open' => focus' = "field"]_widgetVars

\* Toasts and dialogs leave behind what they should and nothing else.
WidgetsSafe == [](ToastsInOrder /\ TransientHasTimer /\ OneListener) /\ StickyStays
=============================================================================
