---------------------------- MODULE Idempotency ----------------------------
(***************************************************************************)
(* A write endpoint serving requests that carry an Idempotency-Key, as     *)
(* transactions of a READ COMMITTED database that interleave at every      *)
(* statement: the lookup, the deletion of a stale record, the side effect, *)
(* the insertion of the record under the unique index, the commit, and the *)
(* refresh of the row between the commit and the answer.                   *)
(*                                                                         *)
(* Endpoint is "create" (main.create_run: the side effect is a row of the  *)
(* same transaction) or "upload" (main.upload_run_artifacts: the side      *)
(* effect is a write to the artifact store, which no rollback takes back;  *)
(* the row it updates is the subject of RunLifecycle).                     *)
(*                                                                         *)
(* A statement that meets an uncommitted change of another transaction     *)
(* waits for it: its action is not enabled until the other one ends.       *)
(***************************************************************************)
EXTENDS KeyedWrites, Sequences

CONSTANTS
  Endpoint,   \* "create" or "upload"
  Outlive,    \* may a record expire while a request with its key is in progress?
  Errors      \* may a statement or a process fail?

ASSUME EndpointAssumption ==
  Endpoint \in {"create", "upload"} /\ Outlive \in BOOLEAN /\ Errors \in BOOLEAN

VARIABLES
  pc,     \* pc[r]: where the handler of request r is
  seen    \* seen[r]: the stale record its transaction has found, then deleted

localVars == <<pc, seen>>
allVars == <<ask, window, records, effects, answer, pc, seen>>

PCs == {"new", "lookup", "drop", "check", "insert", "save", "record", "commit", "refresh",
        "done"}

InProgress(r) == pc[r] \notin {"new", "done"}
Keyed(r) == Key(r) # NoKey

\* The JSON of a body identifies it; the bodies of an upload are only joined,
\* each absent one leaving nothing.
Fingerprint(p) == IF Endpoint = "create" THEN p ELSE p.metrics \o p.trace \o p.config

SameRequest(r, s) == Fingerprint(ask[r].payload) = Fingerprint(ask[s].payload)

\* Uncommitted changes: the record of a key deleted or inserted, a run inserted.
HoldsKey(s, k) ==
  /\ Key(s) = k
  /\ \/ pc[s] = "commit"
     \/ pc[s] \in {"check", "insert", "save", "record"} /\ seen[s] # NoEntry
HoldsRun(s, id) == Endpoint = "create" /\ pc[s] \in {"record", "commit"} /\ RunOf(s) = id

KeyFree(r) == \A s \in Requests \ {r} : ~HoldsKey(s, Key(r))
RunFree(r) == \A s \in Requests \ {r} : ~HoldsRun(s, RunOf(r))

Goto(r, label) == pc' = [pc EXCEPT ![r] = label]

\* What follows the lookup.
Proceed(r) == Goto(r, IF Endpoint = "create" THEN "check" ELSE "save")

\* The handler ends; without a commit its session is rolled back.
Answer(r, status, of) ==
  /\ Tell(r, status, of)
  /\ Goto(r, "done")
  /\ seen' = [seen EXCEPT ![r] = NoEntry]

ConcreteInit ==
  /\ Init
  /\ pc = [r \in Requests |-> "new"]
  /\ seen = [r \in Requests |-> NoEntry]

-----------------------------------------------------------------------------
Arrive(r) ==
  /\ pc[r] = "new"
  /\ Goto(r, "lookup")
  /\ UNCHANGED <<ask, window, records, effects, answer, seen>>

\* find_idempotent_response: no key, or no record.
LookupFresh(r) ==
  /\ pc[r] = "lookup"
  /\ Keyed(r) => records[Key(r)] = NoEntry
  /\ Proceed(r)
  /\ UNCHANGED <<ask, window, records, effects, answer, seen>>

\* MUTANT: the fingerprint is not compared.
ReplayAnyBody(r) ==
  /\ pc[r] = "lookup"
  /\ Keyed(r) /\ Live(Key(r))
  /\ Answer(r, "ok", records[Key(r)].by)
  /\ UNCHANGED <<ask, window, records, effects>>

\* MUTANT: the answer names the key in place of the response recorded for it.
ReplayKey(r) ==
  /\ pc[r] = "lookup"
  /\ Keyed(r) /\ Live(Key(r))
  /\ SameRequest(r, records[Key(r)].by)
  /\ Answer(r, "ok", Key(r))
  /\ UNCHANGED <<ask, window, records, effects>>

LookupReplay(r) ==
  /\ pc[r] = "lookup"
  /\ Keyed(r) /\ Live(Key(r))
  /\ SameRequest(r, records[Key(r)].by)
  /\ Answer(r, "ok", records[Key(r)].by)
  /\ UNCHANGED <<ask, window, records, effects>>

LookupConflict(r) ==
  /\ pc[r] = "lookup"
  /\ Keyed(r) /\ Live(Key(r))
  /\ ~SameRequest(r, records[Key(r)].by)
  /\ Answer(r, "conflict", None)
  /\ UNCHANGED <<ask, window, records, effects>>

\* A stale record: about to be deleted by its primary key.
LookupStale(r) ==
  /\ pc[r] = "lookup"
  /\ Keyed(r) /\ records[Key(r)] # NoEntry /\ ~Live(Key(r))
  /\ seen' = [seen EXCEPT ![r] = records[Key(r)]]
  /\ Goto(r, "drop")
  /\ UNCHANGED <<ask, window, records, effects, answer>>

\* The DELETE, which matches no row if another transaction has deleted it.
DropStale(r) ==
  /\ pc[r] = "drop"
  /\ KeyFree(r)
  /\ seen' = [seen EXCEPT ![r] = IF records[Key(r)] = @ THEN @ ELSE NoEntry]
  /\ Proceed(r)
  /\ UNCHANGED <<ask, window, records, effects, answer>>

\* create_run: the id is looked up before the row is inserted.
CheckExists(r) ==
  /\ pc[r] = "check"
  /\ RunOf(r) \in Runs
  /\ Answer(r, "exists", None)
  /\ UNCHANGED <<ask, window, records, effects>>

CheckFree(r) ==
  /\ pc[r] = "check"
  /\ RunOf(r) \notin Runs
  /\ Goto(r, "insert")
  /\ UNCHANGED <<ask, window, records, effects, answer, seen>>

\* MUTANT: an id taken since the check is taken again.
InsertRunAgain(r) ==
  /\ pc[r] = "insert"
  /\ RunFree(r)
  /\ Goto(r, "record")
  /\ UNCHANGED <<ask, window, records, effects, answer, seen>>

InsertRun(r) ==
  /\ pc[r] = "insert"
  /\ RunFree(r)
  /\ RunOf(r) \notin Runs
  /\ Goto(r, "record")
  /\ UNCHANGED <<ask, window, records, effects, answer, seen>>

\* The primary key is violated: IntegrityError, 500.
InsertRunFails(r) ==
  /\ pc[r] = "insert"
  /\ RunFree(r)
  /\ RunOf(r) \in Runs
  /\ Answer(r, "error", None)
  /\ UNCHANGED <<ask, window, records, effects>>

\* upload_run_artifacts: the store is written before anything is inserted.
SaveArtifacts(r) ==
  /\ pc[r] = "save"
  /\ effects' = effects \cup {[by |-> r, window |-> WindowOf(r)]}
  /\ Goto(r, "record")
  /\ UNCHANGED <<ask, window, records, answer, seen>>

\* MUTANT: the scope of a record is not unique in the table.
InsertWithoutIndex(r) ==
  /\ pc[r] = "record"
  /\ Goto(r, "commit")
  /\ UNCHANGED <<ask, window, records, effects, answer, seen>>

\* save_idempotent_response, a no-op without a key.
InsertRecord(r) ==
  /\ pc[r] = "record"
  /\ Keyed(r) => KeyFree(r) /\ records[Key(r)] = seen[r]
  /\ Goto(r, "commit")
  /\ UNCHANGED <<ask, window, records, effects, answer, seen>>

\* MUTANT: the insertion is tried again, for ever.
InsertAgain(r) ==
  /\ pc[r] = "record"
  /\ Keyed(r) /\ KeyFree(r) /\ records[Key(r)] # seen[r]
  /\ Goto(r, "record")
  /\ UNCHANGED <<ask, window, records, effects, answer, seen>>

\* The unique index is violated: IntegrityError, 500, and the artifacts an
\* upload has written stay where they are.
InsertRecordFails(r) ==
  /\ pc[r] = "record"
  /\ Keyed(r) /\ KeyFree(r) /\ records[Key(r)] # seen[r]
  /\ Answer(r, "error", None)
  /\ UNCHANGED <<ask, window, records, effects>>

\* The transaction is over, and the handler is not.
Committed(r) == /\ Goto(r, "refresh")
                /\ seen' = [seen EXCEPT ![r] = NoEntry]

\* MUTANT: the side effect is committed without its record.
CommitWithoutRecord(r) ==
  /\ pc[r] = "commit"
  /\ effects' = IF Endpoint = "upload" THEN effects
                ELSE effects \cup {[by |-> r, window |-> WindowOf(r)]}
  /\ Committed(r)
  /\ UNCHANGED <<ask, window, records, answer>>

Commit(r) ==
  /\ pc[r] = "commit"
  /\ effects' = IF Endpoint = "upload" THEN effects
                ELSE effects \cup {[by |-> r, window |-> WindowOf(r)]}
  /\ records' = IF Key(r) = NoKey THEN records
                ELSE [records EXCEPT ![Key(r)] = [by |-> r, window |-> WindowOf(r)]]
  /\ Committed(r)
  /\ UNCHANGED <<ask, window, answer>>

\* session.refresh reads the row back, and the client has its answer.
Refresh(r) ==
  /\ pc[r] = "refresh"
  /\ Answer(r, "ok", r)
  /\ UNCHANGED <<ask, window, records, effects>>

\* A statement raises, the database breaks a deadlock, or the process dies.  If
\* it is the refresh that raises, the client is told 500 of a committed write.
Abort(r) ==
  /\ Errors
  /\ InProgress(r)
  /\ Answer(r, "error", None)
  /\ UNCHANGED <<ask, window, records, effects>>

\* The TTL elapses.  A transaction is shorter than the TTL: its own record is
\* not expired before it is committed.
RecordExpires(k) ==
  /\ Outlive \/ \A r \in Requests : Key(r) = k => ~InProgress(r)
  /\ Expire(k)
  /\ UNCHANGED localVars

-----------------------------------------------------------------------------
Handle(r) ==
  \/ LookupFresh(r)
  \/ LookupReplay(r)
  \/ LookupConflict(r)
  \/ LookupStale(r)
  \/ DropStale(r)
  \/ CheckExists(r)
  \/ CheckFree(r)
  \/ InsertRun(r)
  \/ InsertRunFails(r)
  \/ SaveArtifacts(r)
  \/ InsertRecord(r)
  \/ InsertRecordFails(r)
  \/ Commit(r)
  \/ Refresh(r)

ConcreteNext ==
  \/ \E r \in Requests : Arrive(r) \/ Handle(r) \/ Abort(r)
  \/ \E k \in Keys : RecordExpires(k)

ConcreteSpec == ConcreteInit /\ [][ConcreteNext]_allVars

\* A handler that can take its next step takes it.
FairSpec == ConcreteSpec /\ \A r \in Requests : WF_allVars(Handle(r))

-----------------------------------------------------------------------------
\* The type of the state.
TypeOK ==
  /\ ask \in [Requests -> Asks]
  /\ window \in [Keys -> Nat]
  /\ records \in [Keys -> Entries]
  /\ effects \subseteq [by: Requests, window: Nat]
  /\ answer \in [Requests -> Answers]
  /\ pc \in [Requests -> PCs]
  /\ seen \in [Requests -> Entries]

\* The handlers, statement by statement, do what KeyedWrites does in one step: a
\* run is there with its record, and a record with its run; only the one that
\* performed the write is told of it as its own, later and perhaps never; and
\* losers of a race are told "error", never a second run.
AtomicWrites == Spec

\* Whoever was acknowledged for a write of its own under a key has the key's record
\* as long as the window of that write lasts: its retry is answered with it, and
\* nobody else is acknowledged for another write in that window, although uploads
\* that overlap have all written their artifacts.
AckHoldsRecord ==
  \A r \in Requests : Keyed(r) /\ answer[r] = [status |-> "ok", of |-> r] =>
    \E e \in effects : /\ e.by = r
                       /\ e.window = window[Key(r)] => records[Key(r)] = e

\* No request waits for ever: the transactions lock the run and the key in an
\* order that no two of them can turn into a circle.
EveryRequestAnswered == \A r \in Requests : InProgress(r) ~> pc[r] = "done"
=============================================================================
