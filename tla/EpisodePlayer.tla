--------------------------- MODULE EpisodePlayer ---------------------------
(***************************************************************************)
(* The episode player of the run viewer: the transport of use-playback.ts, *)
(* the selector, keyboard and effects of episode-player.tsx, and the       *)
(* controls that drive it (transport-bar, timeline, step-strip).           *)
(*                                                                         *)
(* A step is one event handler or timer with all that it sets off: the     *)
(* commit of what it set, the effects of that commit, each of which sees   *)
(* the values the commit was rendered with, and the commit and effects of  *)
(* what those set in turn.  React is through with them before it hands the *)
(* next event to a handler.  The steps of an episode are data; the player  *)
(* reads how many there are.  Indices count from 0, as in the code.  The   *)
(* speed scales the delay of the timer and nothing else: a step of the     *)
(* model has no duration, and so the speed is left out.                    *)
(***************************************************************************)
EXTENDS Naturals, Sequences

CONSTANTS
  LengthLists,   \* the traces: for each, the number of steps per episode
  MaxEpisodes,   \* episodes offered in the selector
  MaxBars        \* bars of the step strip

ASSUME PlayerAssumption ==
  /\ LengthLists \subseteq Seq(Nat)
  /\ MaxEpisodes \in Nat \ {0}
  /\ MaxBars \in Nat \ {0}

VARIABLES
  lengths,      \* lengths[e + 1]: the steps of episode e
  episodeIdx,   \* the episode asked for
  index,        \* the cursor
  playing,      \* is auto-advance on?
  timers        \* the timers armed: for each, the lastIndex its callback clamps to

playerVars == <<lengths, episodeIdx, index, playing, timers>>

Lesser(a, b) == IF a < b THEN a ELSE b

Offered(ls) == Lesser(Len(ls), MaxEpisodes)

\* The episode shown: the one asked for, clamped to the list.
Shown(ls, e) == IF Offered(ls) = 0 THEN 0 ELSE Lesser(e, Offered(ls) - 1)

StepsOf(ls, e) == IF Offered(ls) = 0 THEN 0 ELSE ls[Shown(ls, e) + 1]
LastOf(n) == IF n = 0 THEN 0 ELSE n - 1

Length == StepsOf(lengths, episodeIdx)
LastIndex == LastOf(Length)
Clamp(i) == Lesser(i, LastIndex)

\* TracePanel mounts the player for a trace that has a step.
Mounted == \E e \in DOMAIN lengths : lengths[e] > 0

-----------------------------------------------------------------------------
(* The effects of a commit *)

\* What the transport holds, and what is committed for it: an episode `shown`,
\* its `length`, and the transport.
Transport == [index |-> index, playing |-> playing, timers |-> timers]

Commit(ls, e, t) ==
  [length |-> StepsOf(ls, e), shown |-> Shown(ls, e),
   index |-> t.index, playing |-> t.playing, timers |-> t.timers]

\* MUTANT: another length rewinds and does not stop.
ResetCursor(was, is, next) ==
  IF is.length # was.length THEN [next EXCEPT !.index = 0] ELSE next

\* An effect of the commit `is` that follows `was` adds to what is set: `next`.
\* Another length resets the transport.
ResetOnLength(was, is, next) ==
  IF is.length # was.length THEN [next EXCEPT !.index = 0, !.playing = FALSE] ELSE next

\* MUTANT: a tick does not arm the timer again.
AdvanceOnce(was, is, next) ==
  IF <<is.playing, LastOf(is.length)>> = <<was.playing, LastOf(was.length)>>
  THEN next
  ELSE IF is.playing /\ is.index >= LastOf(is.length)
       THEN [next EXCEPT !.playing = FALSE, !.timers = {}]
       ELSE [next EXCEPT !.timers = IF is.playing THEN {LastOf(is.length)} ELSE {}]

\* The timer is cleared and armed again with all the callback depends on; at the
\* last step playback stops instead.
AutoAdvance(was, is, next) ==
  IF <<is.playing, is.index, LastOf(is.length)>> = <<was.playing, was.index, LastOf(was.length)>>
  THEN next
  ELSE IF is.playing /\ is.index >= LastOf(is.length)
       THEN [next EXCEPT !.playing = FALSE, !.timers = {}]
       ELSE [next EXCEPT !.timers = IF is.playing THEN {LastOf(is.length)} ELSE {}]

\* MUTANT: the player leaves the reset to use-playback.ts.
RewindNever(was, is, next) == next

\* Another episode rewinds the transport; so does another `seek`, which the hook
\* makes for another lastIndex.
Rewind(was, is, next) ==
  IF is.shown # was.shown \/ LastOf(is.length) # LastOf(was.length)
  THEN [next EXCEPT !.index = 0]
  ELSE next

\* The effects of the hook, in their order, come before the player's own.
Effects(was, is) ==
  Rewind(was, is, AutoAdvance(was, is, ResetOnLength(was, is, is)))

\* A handler sets the trace, the episode and the transport.  What the effects of
\* its commit set is committed, and has effects; theirs has none left to change.
Settle(ls, e, t) ==
  LET given == Commit(ls, e, t)
      left == Effects(Commit(lengths, episodeIdx, Transport), given)
      rest == Effects(given, left) IN
  /\ lengths' = ls
  /\ episodeIdx' = e
  /\ index' = rest.index
  /\ playing' = rest.playing
  /\ timers' = rest.timers

PlayerInit ==
  /\ lengths \in LengthLists
  /\ episodeIdx = 0
  /\ index = 0
  /\ playing = FALSE
  /\ timers = {}

-----------------------------------------------------------------------------
\* next, prev and seek move the cursor and nothing else.
Move(i) ==
  /\ Mounted
  /\ Settle(lengths, episodeIdx, [Transport EXCEPT !.index = Clamp(i)])

Prev == Move(IF index = 0 THEN 0 ELSE index - 1)
StepNext == Move(index + 1)

\* Play, pause, or replay from the top; an episode of one step never plays.
Toggle ==
  /\ Mounted
  /\ LET replay == ~playing /\ Length > 1 /\ index >= LastIndex IN
     Settle(lengths, episodeIdx,
            [Transport EXCEPT !.index = IF replay THEN 0 ELSE index,
                              !.playing = ~playing /\ Length > 1])

Restart ==
  /\ Mounted
  /\ Settle(lengths, episodeIdx, [Transport EXCEPT !.index = 0, !.playing = FALSE])

\* The buttons of the transport bar are off for an episode of one step, and at
\* the end they would step past; the keys are not.
ClickRestart == Length > 1 /\ index > 0 /\ Restart
ClickPrev == Length > 1 /\ index > 0 /\ Prev
ClickNext == Length > 1 /\ index < LastIndex /\ StepNext
ClickToggle == Length > 1 /\ Toggle
PressKey == Prev \/ StepNext \/ Toggle

\* The native range input, 0 to LastIndex.
Scrub(i) == Length > 1 /\ i <= LastIndex /\ Move(i)

SelectEpisode(e) ==
  /\ Mounted
  /\ Offered(lengths) > 1 /\ e < Offered(lengths)
  /\ Settle(lengths, e, Transport)

\* A timer fires, and is gone; it clamps to the lastIndex it was armed with.
Tick ==
  /\ Mounted
  /\ \E last \in timers :
       Settle(lengths, episodeIdx,
              [Transport EXCEPT !.index = Lesser(index + 1, last), !.timers = @ \ {last}])

-----------------------------------------------------------------------------
(* The step strip: at most MaxBars bars, each standing for a bucket. *)

\* MUTANT: the bucket is rounded down.
BucketFloor(n) == IF n \div MaxBars = 0 THEN 1 ELSE n \div MaxBars

BucketSize(n) == IF n = 0 THEN 1 ELSE (n + MaxBars - 1) \div MaxBars
Bars(n) == {b \in 0 .. n : b * BucketSize(n) < n}
CurrentBar == index \div BucketSize(Length)

\* A click on a bar seeks to the first step of its bucket.
ClickBar(b) == b \in Bars(Length) /\ Move(b * BucketSize(Length))

-----------------------------------------------------------------------------
\* The trace query delivers another trace while the player is mounted: its
\* state stays.  Without a step in it, the player is unmounted.
TraceChanges(ls) ==
  /\ Mounted
  /\ \E e \in DOMAIN ls : ls[e] > 0
  /\ Settle(ls, episodeIdx, Transport)

\* The player is unmounted, by the panel or with its tab, which clears its timer,
\* and mounted again.
Remount(ls) ==
  /\ lengths' = ls
  /\ episodeIdx' = 0
  /\ index' = 0
  /\ playing' = FALSE
  /\ timers' = {}

User ==
  \/ ClickRestart \/ ClickPrev \/ ClickNext \/ ClickToggle \/ PressKey
  \/ \E i \in 0 .. LastIndex : Scrub(i)
  \/ \E b \in Bars(Length) : ClickBar(b)
  \/ \E e \in 0 .. MaxEpisodes - 1 : SelectEpisode(e)

PlayerNext ==
  \/ User
  \/ Tick
  \/ \E ls \in LengthLists : TraceChanges(ls) \/ Remount(ls)

PlayerSpec == PlayerInit /\ [][PlayerNext]_playerVars

\* A timer that is armed fires: weak fairness of Tick, whose guard is `timers`.
TimerFires == []<>(timers = {}) \/ []<><<Tick>>_playerVars

FairPlayerSpec == PlayerSpec /\ TimerFires

-----------------------------------------------------------------------------
PlayerTypeOK ==
  /\ lengths \in LengthLists
  /\ episodeIdx \in 0 .. MaxEpisodes - 1
  /\ index \in Nat
  /\ playing \in BOOLEAN
  /\ timers \subseteq Nat

\* The cursor never leaves the episode, whatever order episodes are switched,
\* traces replaced and timers fired in.  What plays has a step to advance to and
\* exactly one timer, armed for the length shown and no earlier one; what does
\* not play has none left.
PlaysWithinEpisode ==
  /\ index <= LastIndex
  /\ playing => index < LastIndex
  /\ timers = IF playing THEN {LastIndex} ELSE {}

\* The strip never outgrows its bars, the bar it lights holds the cursor, and
\* a click on it would seek to a step of the episode at or before the cursor.
StripHoldsCursor ==
  Length > 0 =>
    /\ CurrentBar \in Bars(Length)
    /\ \A b \in Bars(Length) : b < MaxBars
    /\ CurrentBar * BucketSize(Length) <= index
    /\ index < (CurrentBar + 1) * BucketSize(Length)

\* Whatever puts another episode or another number of steps before the user
\* leaves the cursor on its first step, and another number of steps leaves it
\* stopped with no timer armed, when all that the effects of the two files set is
\* committed and their effects are through.
SwitchRewinds ==
  [][/\ Shown(lengths', episodeIdx') # Shown(lengths, episodeIdx) => index' = 0
     /\ StepsOf(lengths', episodeIdx') # Length => index' = 0 /\ ~playing' /\ timers' = {}]_playerVars

PB == INSTANCE Playback WITH length <- Length, position <- index, running <- playing

\* The player keeps the promises of use-playback.ts: its keys, buttons, strip,
\* selector, timer and effects, in whatever order, are commands, a load or an
\* advance of a playback, and what plays goes on until it stops by itself.
ImplementsPlayback == PB!FairSpec
=============================================================================
