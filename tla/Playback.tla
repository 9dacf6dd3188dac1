------------------------------ MODULE Playback ------------------------------
(***************************************************************************)
(* What use-playback.ts promises in its head comment: a cursor over        *)
(* `length` steps that is clamped at the ends, auto-advance that stops on  *)
(* its own at the last step, and a change of the length that resets it.    *)
(***************************************************************************)
EXTENDS Naturals

VARIABLES length, position, running

playbackVars == <<length, position, running>>

\* Where the cursor may be, and where the last step is.
Steps(n) == {i \in Nat : i = 0 \/ i < n}
Before(i, n) == i + 1 < n

Rests == running => Before(position, length)

Init ==
  /\ length \in Nat
  /\ position = 0
  /\ running = FALSE

\* The user moves the cursor, starts or stops, or another list of as many steps
\* takes the place of this one.
Command ==
  /\ UNCHANGED length
  /\ position' \in Steps(length)
  /\ running' \in BOOLEAN
  /\ Rests'

Load ==
  /\ length' \in Nat \ {length}
  /\ position' = 0
  /\ running' = FALSE

Advance ==
  /\ running
  /\ UNCHANGED length
  /\ position' = position + 1
  /\ running' = Before(position', length)

Next == Command \/ Load \/ Advance

Spec == Init /\ [][Next]_playbackVars

\* What plays goes on: weak fairness of Advance, whose guard is `running`.
FairSpec == Spec /\ ([]<>~running \/ []<><<Advance>>_playbackVars)
=============================================================================
