------------------------------- MODULE Toasts -------------------------------
(***************************************************************************)
(* The store of notifications in components/ui/toast/store.ts: a list of   *)
(* at most MaxToasts items kept outside React, and a map of the timers     *)
(* that will dismiss them.                                                 *)
(***************************************************************************)
EXTENDS Naturals, Sequences, SequencesExt

CONSTANTS
  MaxToasts,    \* MAX_TOASTS
  MaxAdds       \* bound of the model on the notifications ever added

ASSUME ToastsAssumption == MaxToasts \in Nat \ {0} /\ MaxAdds \in Nat

VARIABLES
  toasts,   \* the items, oldest first: [id, timed]
  timers,   \* the ids with a running timer
  made      \* how many ids were made: ids are 1..made

toastVars == <<toasts, timers, made>>

ToastsInit == toasts = <<>> /\ timers = {} /\ made = 0

Listed == {toasts[i].id : i \in DOMAIN toasts}

\* dismissToast: clears the timer first, then drops the item if it is listed.
\* No two items have the same id: the filter drops one.
DismissToast(id) ==
  /\ timers' = timers \ {id}
  /\ toasts' = IF id \in Listed
               THEN RemoveAt(toasts, CHOOSE i \in DOMAIN toasts : toasts[i].id = id)
               ELSE toasts
  /\ UNCHANGED made

\* A mutant: the item pushed out leaves its timer behind.
AddKeepsTimer(timed) ==
  /\ made < MaxAdds
  /\ made' = made + 1
  /\ LET next == Append(toasts, [id |-> made', timed |-> timed])
         over == IF Len(next) > MaxToasts THEN Len(next) - MaxToasts ELSE 0
     IN  /\ toasts' = SubSeq(next, over + 1, Len(next))
         /\ timers' = timers \cup (IF timed THEN {made'} ELSE {})

\* addToast: the oldest item beyond the limit goes with its timer; an item
\* with a positive duration gets a timer of its own.
AddToast(timed) ==
  /\ made < MaxAdds
  /\ made' = made + 1
  /\ LET next == Append(toasts, [id |-> made', timed |-> timed])
         over == IF Len(next) > MaxToasts THEN Len(next) - MaxToasts ELSE 0
     IN  /\ toasts' = SubSeq(next, over + 1, Len(next))
         /\ timers' = (timers \ {next[i].id : i \in 1..over})
                      \cup (IF timed THEN {made'} ELSE {})

\* setTimeout's callback, and the button of a card.
TimerFires == \E id \in timers : DismissToast(id)
ClickDismiss == \E id \in Listed : DismissToast(id)

\* The module is loaded anew with the document; its timers are gone.
Forget == toasts' = <<>> /\ timers' = {} /\ UNCHANGED made

---------------------------------------------------------------------------
(* However notifications are added, pushed out by a burst, clicked away or *)
(* timed out, the running timers are those of the items still listed that  *)
(* asked for one, and the list keeps the newest items in order: no timer   *)
(* outlives its item and no timed item stays for want of a timer.          *)
TimersMatchToasts ==
  /\ timers = {toasts[i].id : i \in {j \in DOMAIN toasts : toasts[j].timed}}
  /\ Len(toasts) <= MaxToasts
  /\ \A i, j \in DOMAIN toasts : i < j => toasts[i].id < toasts[j].id
=============================================================================
