------------------------------ MODULE MobileApp ------------------------------
(***************************************************************************)
(* The mobile application, src/mobile/App.tsx: three tabs over the same    *)
(* API.  Its loads share one spinner and one error, none of them can be    *)
(* cancelled and none has a timeout, so the answer to an earlier load may  *)
(* arrive in a later tab or after the answer to a later load.              *)
(***************************************************************************)
EXTENDS Naturals, FiniteSets

CONSTANTS
  RunIds,       \* the runs a user may ask for
  NoRunId,      \* an empty or white run id; also: no run loaded
  MaxInFlight   \* bound of the model on equal requests in flight

ASSUME MobileAssumption ==
  NoRunId \notin RunIds /\ MaxInFlight \in Nat /\ RunIds \cap {"tasks", "leaderboard"} = {}

Lists    == {"tasks", "leaderboard"}
Requests == Lists \cup RunIds
AppTabs  == Lists \cup {"run"}

VARIABLES
  tab,
  loading,
  error,      \* whether there is an error to show
  lists,      \* tasks and leaderboard: "blank" ([] put by the code) or "answer"
  runId,      \* the text field
  runData,    \* the id of the run loaded, or NoRunId
  inFlight,   \* how many requests of each kind are unanswered
  asked,      \* history: the run of the last load of a run
  raced,      \* history: that load began before an earlier one had ended
  crossed     \* history: the last load of any kind began while another was in flight

vars == <<tab, loading, error, lists, runId, runData, inFlight, asked, raced, crossed>>

---------------------------------------------------------------------------
(* What is shown. *)

\* The card of the error, with its "Retry".
ErrorCard == error /\ ~loading

\* The list of a tab; an empty one says so when nothing seems to load.
TasksShown    == tab = "tasks" /\ ~error
RankingsShown == tab = "leaderboard" /\ ~error
ListShown(k)  == IF k = "tasks" THEN TasksShown ELSE RankingsShown

\* "No tasks available.", "No runs uploaded yet.": nothing was received, and
\* the spinner that all loads share is off.
EmptyText(k) == ListShown(k) /\ ~loading /\ lists[k] = "blank"

\* The card of the run that was loaded.
RunCard == tab = "run" /\ runData # NoRunId /\ ~error

---------------------------------------------------------------------------
\* What loadTasks, loadLeaderboard and loadRun do before they wait.
Start(r) ==
  /\ inFlight[r] < MaxInFlight
  /\ inFlight' = [inFlight EXCEPT ![r] = @ + 1]
  /\ loading' = TRUE
  /\ error' = FALSE
  /\ crossed' = (\E s \in Requests : inFlight[s] > 0)
  /\ IF r \in RunIds
     THEN asked' = r /\ raced' = (\E i \in RunIds : inFlight[i] > 0)
     ELSE UNCHANGED <<asked, raced>>

\* The effect of the first render loads the tasks.
Init == /\ tab = "tasks" /\ loading = TRUE /\ error = FALSE
        /\ lists = [k \in Lists |-> "blank"]
        /\ runId = NoRunId /\ runData = NoRunId
        /\ inFlight = [r \in Requests |-> IF r = "tasks" THEN 1 ELSE 0]
        /\ asked = NoRunId /\ raced = FALSE /\ crossed = FALSE

\* A tab of lists loads when it is entered; the run tab keeps what it had,
\* an error of another tab included.
SelectTab(k) ==
  /\ k # tab
  /\ tab' = k
  /\ IF k \in Lists THEN Start(k)
                    ELSE UNCHANGED <<inFlight, loading, error, asked, raced, crossed>>
  /\ UNCHANGED <<lists, runId, runData>>

TypeRunId == /\ tab = "run"
             /\ runId' \in (RunIds \cup {NoRunId}) \ {runId}
             /\ UNCHANGED <<tab, loading, error, lists, runData, inFlight, asked, raced,
                            crossed>>

\* loadRun returns early on an empty id.
LoadRun == /\ runId # NoRunId /\ Start(runId)
           /\ UNCHANGED <<tab, lists, runId, runData>>

PressLoad == tab = "run" /\ LoadRun

Retry == /\ ErrorCard
         /\ \/ tab = "run" /\ LoadRun
            \/ tab \in Lists /\ Start(tab) /\ UNCHANGED <<tab, lists, runId, runData>>

---------------------------------------------------------------------------
(* A request ends. *)

Stores(r, list, run) ==
  IF r \in Lists THEN lists' = [lists EXCEPT ![r] = list] /\ UNCHANGED runData
                 ELSE runData' = run /\ UNCHANGED lists

Lands(r) == /\ inFlight[r] > 0
            /\ inFlight' = [inFlight EXCEPT ![r] = @ - 1]
            /\ UNCHANGED <<tab, runId, asked, raced, crossed>>

\* A mutant: an answer takes the error of other loads away.
AnswerClears(r) == /\ Lands(r) /\ Stores(r, "answer", r)
                   /\ loading' = FALSE
                   /\ error' = FALSE

\* try: the parsed answer is kept; finally: the spinner stops.
Answer(r) == /\ Lands(r) /\ Stores(r, "answer", r)
             /\ loading' = FALSE
             /\ UNCHANGED error

\* A mutant: the spinner is stopped by an answer only.
FailSpins(r) == /\ Lands(r) /\ Stores(r, "blank", NoRunId)
                /\ error' = TRUE
                /\ UNCHANGED loading

\* A mutant: an error leaves the run that was loaded before.
FailKeepsRun(r) == /\ Lands(r) /\ Stores(r, "blank", runData)
                   /\ error' = TRUE
                   /\ loading' = FALSE

\* catch: no network, a status that is not ok, a body that is not JSON.
Fail(r) == /\ Lands(r) /\ Stores(r, "blank", NoRunId)
           /\ error' = TRUE
           /\ loading' = FALSE

Next == \/ \E k \in AppTabs : SelectTab(k)
        \/ TypeRunId \/ PressLoad \/ Retry
        \/ \E r \in Requests : Answer(r) \/ Fail(r)

Spec == Init /\ [][Next]_vars

---------------------------------------------------------------------------
\* The kinds of the state, for the proofs.
TypeOK ==
  /\ tab \in AppTabs /\ loading \in BOOLEAN /\ error \in BOOLEAN
  /\ lists \in [Lists -> {"blank", "answer"}]
  /\ runId \in RunIds \cup {NoRunId} /\ runData \in RunIds \cup {NoRunId}
  /\ inFlight \in [Requests -> Nat]
  /\ asked \in RunIds \cup {NoRunId} /\ raced \in BOOLEAN /\ crossed \in BOOLEAN

(* The one spinner that all loads share tells what it should: it turns only *)
(* while something is in flight, and, of loads that took turns, as long as  *)
(* one is.  Of loads that overlap, the first to end stops it for all.       *)
SpinnerTells ==
  /\ loading => \E r \in Requests : inFlight[r] > 0
  /\ (\E r \in Requests : inFlight[r] > 0) /\ ~crossed => loading

(* "No tasks available." where no tasks were received is never the lasting  *)
(* word on loads that have ended, in whatever order and whatever tab, nor   *)
(* shown while loads take turns.  The one way to it is a load of that list  *)
(* still on its way whose spinner the end of an overlapping load stopped;   *)
(* as no request has a timeout, it may then stay for ever.                  *)
EmptyIfOvertaken ==
  \A k \in Lists : EmptyText(k) => inFlight[k] > 0 /\ crossed

(* The run on the card is the one asked for last once the loads of runs     *)
(* have ended, whatever failed before it and whatever tab was opened since; *)
(* the loads of two runs that were in flight together may end the other way *)
(* round, and then it is not.                                               *)
RunShownWasAsked ==
  RunCard /\ (\A i \in RunIds : inFlight[i] = 0) /\ ~raced => runData = asked
=============================================================================
