---------------------------- MODULE RunLifecycle ----------------------------
(***************************************************************************)
(* The life of ONE run of the API server: its row in the "runs" table, its *)
(* three artifacts in the store, the RQ job that evaluates it, and the     *)
(* three kinds of actor that write them concurrently:                      *)
(*                                                                         *)
(*   - a trigger request (main.trigger_demo_run, runner.enqueue_run);      *)
(*   - a worker executing the job (runner.run_benchmark_job);              *)
(*   - an upload request (main.upload_run_artifacts).                      *)
(*                                                                         *)
(* No operation touches the row of another run, so one run is the whole    *)
(* story.  Requests are numbered by the sets Triggers and Uploads, each    *)
(* element being one request; a client that retries is a second element.   *)
(* Requests may be served by different processes or replicas, so their     *)
(* steps interleave freely unless Overlap restricts the environment.       *)
(***************************************************************************)
EXTENDS Naturals, FiniteSets

CONSTANTS
  Triggers,   \* POST /runs/{id}/trigger requests
  Uploads,    \* POST /runs/{id}/upload requests
  Workers,    \* RQ worker processes
  Scores,     \* the success_rate values the metrics documents can carry
  PartsSets,  \* which artifacts an upload may carry
  Overlap,    \* which actors the environment lets overlap, see OverlapKinds
  Faults,     \* which faults the environment may produce, see FaultKinds
  None,       \* "no producer": the row still has its column defaults
  Truncated   \* "no producer": a write that raised left a truncated file

Names == {"metrics", "trace", "config"}

\* "triggers": two trigger requests may be in progress at once;
\* "writers": an upload may be in progress together with another upload or
\* with a worker's job.
OverlapKinds == {"triggers", "writers"}

\* "storage": an artifact write raises; "db": a commit raises;
\* "timeout": RQ's job timeout fires; "crash": a worker process dies;
\* "api": an API process dies.
FaultKinds == {"storage", "db", "timeout", "crash", "api"}

ASSUME ScoresAssumption == Scores \subseteq Nat /\ 0 \in Scores
ASSUME PartsAssumption == PartsSets \subseteq SUBSET Names
ASSUME EnvAssumption == Overlap \subseteq OverlapKinds /\ Faults \subseteq FaultKinds
ASSUME ProducersAssumption ==
  /\ Uploads \cap Workers = {}
  /\ None \notin Uploads \cup Workers
  /\ Truncated \notin Uploads \cup Workers \cup {None}

VARIABLES
  row,       \* the committed RunEntry row
  artifact,  \* artifact[n]: what the store holds under "<run_id>/<n>"
  pending,   \* how many times the job id is in the RQ list
  job,       \* the status field of the RQ job hash; "none" when there is no hash
  trig,      \* trig[t]: progress of a trigger request
  up,        \* up[u]: progress of an upload request
  wk         \* wk[w]: progress of a worker

vars == <<row, artifact, pending, job, trig, up, wk>>

Statuses == {"created", "queued", "running", "completed", "failed", "uploaded"}

\* A metrics document is told apart by who produced it and by the score it
\* reports; the trace and config produced with it carry the same tag.
Docs == [by: Uploads \cup Workers \cup {None}, score: Scores]
NoDoc == [by |-> None, score |-> 0]

\* What the store can hold under a key.
Torn == [by |-> Truncated, score |-> 0]
Contents == Docs \cup {Torn}

\* metrics_json is doc, success_rate (and mean_return with it) is score,
\* trace_path # "" is trace, config_path # "" is config.
Rows == [status: Statuses, doc: Docs, score: Scores, trace: BOOLEAN, config: BOOLEAN]

\* MUTANT: the guard forgets the job a worker is executing.
InFlightWithoutStarted == {"queued", "deferred", "scheduled"}

InFlightJob == {"queued", "started", "deferred", "scheduled"}
JobStatuses == {"none", "queued", "started", "finished", "failed"}

(***************************************************************************)
(* SQLAlchemy writes with an UPDATE only the columns whose value differs   *)
(* from the value loaded into the session; the others keep whatever is     *)
(* committed when the UPDATE runs.                                         *)
(***************************************************************************)
Net(current, seen, new) == IF new = seen THEN current ELSE new

Flush(current, seen, new) ==
  [status |-> Net(current.status, seen.status, new.status),
   doc    |-> Net(current.doc, seen.doc, new.doc),
   score  |-> Net(current.score, seen.score, new.score),
   trace  |-> Net(current.trace, seen.trace, new.trace),
   config |-> Net(current.config, seen.config, new.config)]

\* The order in which both writers save their artifacts.
IsNextPart(n, todo) ==
  /\ n \in todo
  /\ n = "trace" => "metrics" \notin todo
  /\ n = "config" => todo = {"config"}

-----------------------------------------------------------------------------
(* Who is active, and what the environment lets start. *)

TriggerBusy(t) == trig[t].pc \in {"loaded", "checked", "enqueued"}
UploadBusy(u) == up[u].pc \in {"reading", "saving"}
Executing(w) == wk[w].pc # "idle"

TriggerMayStart == "triggers" \in Overlap \/ \A t \in Triggers : ~TriggerBusy(t)
UploadMayStart ==
  "writers" \in Overlap \/ (/\ \A u \in Uploads : ~UploadBusy(u)
                            /\ \A w \in Workers : ~Executing(w))
JobMayStart == "writers" \in Overlap \/ \A u \in Uploads : ~UploadBusy(u)

CreatedRow ==
  [status |-> "created", doc |-> NoDoc, score |-> 0, trace |-> FALSE, config |-> FALSE]

\* Local state of an actor that holds nothing: a session that ended, or has
\* not begun, remembers no row.
TriggerAt(pc) == [pc |-> pc, seen |-> "created"]
UploadAt(pc) ==
  [pc |-> pc, seen |-> CreatedRow, doc |-> NoDoc, parts |-> {}, todo |-> {}]
WorkerAt(pc) == [pc |-> pc, seen |-> CreatedRow, doc |-> NoDoc, todo |-> {}]

\* create_run has just committed the row.
Init ==
  /\ row = CreatedRow
  /\ artifact = [n \in Names |-> NoDoc]
  /\ pending = 0
  /\ job = "none"
  /\ trig = [t \in Triggers |-> TriggerAt("new")]
  /\ up = [u \in Uploads |-> UploadAt("new")]
  /\ wk = [w \in Workers |-> WorkerAt("idle")]

-----------------------------------------------------------------------------
(* The trigger endpoint and enqueue_run. *)

TriggerLoad(t) ==
  /\ trig[t].pc = "new"
  /\ TriggerMayStart
  /\ trig' = [trig EXCEPT ![t] = [pc |-> "loaded", seen |-> row.status]]
  /\ UNCHANGED <<row, artifact, pending, job, up, wk>>

\* A job already in flight: 202 without enqueueing anything.
TriggerRefused(t) ==
  /\ trig[t].pc = "loaded"
  /\ job \in InFlightJob
  /\ trig' = [trig EXCEPT ![t] = TriggerAt("done")]
  /\ UNCHANGED <<row, artifact, pending, job, up, wk>>

TriggerChecked(t) ==
  /\ trig[t].pc = "loaded"
  /\ job \notin InFlightJob
  /\ trig' = [trig EXCEPT ![t].pc = "checked"]
  /\ UNCHANGED <<row, artifact, pending, job, up, wk>>

\* MUTANT: the hash is saved and the id is never pushed.
EnqueueWithoutPush(t) ==
  /\ trig[t].pc = "checked"
  /\ job' = "queued"
  /\ trig' = [trig EXCEPT ![t].pc = "enqueued"]
  /\ UNCHANGED <<row, artifact, pending, up, wk>>

\* q.enqueue with the deterministic id: the hash is overwritten and the id is
\* pushed again, whatever the list already holds.
TriggerEnqueue(t) ==
  /\ trig[t].pc = "checked"
  /\ pending' = pending + 1
  /\ job' = "queued"
  /\ trig' = [trig EXCEPT ![t].pc = "enqueued"]
  /\ UNCHANGED <<row, artifact, up, wk>>

\* MUTANT: a status that is not one of the state machine.
CommitWrongStatus(t) ==
  /\ trig[t].pc = "enqueued"
  /\ row' = [row EXCEPT !.status = "triggered"]
  /\ trig' = [trig EXCEPT ![t] = TriggerAt("done")]
  /\ UNCHANGED <<artifact, pending, job, up, wk>>

\* status = "queued" and commit, after the job became visible to the workers.
TriggerCommit(t) ==
  /\ trig[t].pc = "enqueued"
  /\ row' = [row EXCEPT !.status = Net(@, trig[t].seen, "queued")]
  /\ trig' = [trig EXCEPT ![t] = TriggerAt("done")]
  /\ UNCHANGED <<artifact, pending, job, up, wk>>

\* Redis or the database raises, or the API process dies.
TriggerAborts(t) ==
  /\ \/ Faults \cap {"api", "db"} # {} /\ trig[t].pc = "enqueued"
     \/ "api" \in Faults /\ trig[t].pc \in {"loaded", "checked"}
  /\ trig' = [trig EXCEPT ![t] = TriggerAt("done")]
  /\ UNCHANGED <<row, artifact, pending, job, up, wk>>

-----------------------------------------------------------------------------
(* The worker: RQ's dequeue, then run_benchmark_job. *)

Dequeue(w) ==
  /\ wk[w].pc = "idle"
  /\ pending > 0
  /\ JobMayStart
  /\ pending' = pending - 1
  /\ IF job = "none"  \* the hash has expired: the id is skipped
     THEN UNCHANGED <<job, wk>>
     ELSE /\ job' = "started"
          /\ wk' = [wk EXCEPT ![w] = WorkerAt("start")]
  /\ UNCHANGED <<row, artifact, trig, up>>

\* _set_status is a load and a commit in a session of its own; it is called
\* with "running", "completed" and "failed".
Loading == [start |-> "starting", finish |-> "finishing", fail |-> "failing"]

SetStatusLoad(w) ==
  /\ wk[w].pc \in DOMAIN Loading
  /\ wk' = [wk EXCEPT ![w] = [@ EXCEPT !.seen = row, !.pc = Loading[wk[w].pc]]]
  /\ UNCHANGED <<row, artifact, pending, job, trig, up>>

SetRunning(w) ==
  /\ wk[w].pc = "starting"
  /\ row' = [row EXCEPT !.status = Net(@, wk[w].seen.status, "running")]
  /\ wk' = [wk EXCEPT ![w] = WorkerAt("eval")]
  /\ UNCHANGED <<artifact, pending, job, trig, up>>

\* evaluate_and_write has produced the three files.
Evaluate(w) ==
  /\ wk[w].pc = "eval"
  /\ \E s \in Scores :
       wk' = [wk EXCEPT ![w] = [pc |-> "saving", seen |-> CreatedRow,
                                doc |-> [by |-> w, score |-> s], todo |-> Names]]
  /\ UNCHANGED <<row, artifact, pending, job, trig, up>>

JobSaves(w) ==
  /\ wk[w].pc = "saving"
  /\ \E n \in Names :
       /\ IsNextPart(n, wk[w].todo)
       /\ artifact' = [artifact EXCEPT ![n] = wk[w].doc]
       /\ wk' = [wk EXCEPT ![w] =
                    [@ EXCEPT !.todo = wk[w].todo \ {n},
                              !.pc = IF wk[w].todo = {n} THEN "finish" ELSE "saving"]]
  /\ UNCHANGED <<row, pending, job, trig, up>>

\* MUTANT: the config key is not recorded with the results.
CompletedWithoutConfig(w) ==
  /\ wk[w].pc = "finishing"
  /\ row' = Flush(row, wk[w].seen,
                  [status |-> "completed", doc |-> wk[w].doc, score |-> wk[w].doc.score,
                   trace |-> TRUE, config |-> wk[w].seen.config])
  /\ job' = "finished"
  /\ wk' = [wk EXCEPT ![w] = WorkerAt("idle")]
  /\ UNCHANGED <<artifact, pending, trig, up>>

\* The results and the status go to the row in one UPDATE.
SetCompleted(w) ==
  /\ wk[w].pc = "finishing"
  /\ row' = Flush(row, wk[w].seen,
                  [status |-> "completed", doc |-> wk[w].doc, score |-> wk[w].doc.score,
                   trace |-> TRUE, config |-> TRUE])
  /\ job' = "finished"
  /\ wk' = [wk EXCEPT ![w] = WorkerAt("idle")]
  /\ UNCHANGED <<artifact, pending, trig, up>>

\* MUTANT: the exception is re-raised before the run is marked failed.
RaisesUnrecorded(w) ==
  /\ wk[w].pc = "eval"
  /\ job' = "failed"
  /\ wk' = [wk EXCEPT ![w] = WorkerAt("idle")]
  /\ UNCHANGED <<row, artifact, pending, trig, up>>

\* Anything raised inside the try block: the evaluation itself, the final
\* load or commit, or RQ's timeout wherever the job is.
JobRaises(w) ==
  /\ \/ wk[w].pc = "eval"
     \/ "db" \in Faults /\ wk[w].pc \in {"finish", "finishing"}
     \/ "timeout" \in Faults /\ wk[w].pc \in {"saving", "finish", "finishing"}
  /\ wk' = [wk EXCEPT ![w] = WorkerAt("fail")]
  /\ UNCHANGED <<row, artifact, pending, job, trig, up>>

\* A write raises: it changed nothing or it left a truncated file.  What was
\* saved before it stays.
JobStorageFails(w) ==
  /\ "storage" \in Faults
  /\ wk[w].pc = "saving"
  /\ \E n \in Names :
       /\ IsNextPart(n, wk[w].todo)
       /\ artifact' \in {artifact, [artifact EXCEPT ![n] = Torn]}
  /\ wk' = [wk EXCEPT ![w] = WorkerAt("fail")]
  /\ UNCHANGED <<row, pending, job, trig, up>>

SetFailed(w) ==
  /\ wk[w].pc = "failing"
  /\ row' = [row EXCEPT !.status = Net(@, wk[w].seen.status, "failed")]
  /\ job' = "failed"
  /\ wk' = [wk EXCEPT ![w] = WorkerAt("idle")]
  /\ UNCHANGED <<artifact, pending, trig, up>>

\* A _set_status outside the try block, or the one in its handler, raises: RQ
\* records the failure and the row keeps the status it had.  (The timer of a job
\* fires once; that a job timed out in the try block may time out again here
\* adds nothing a database error does not do.)
SetStatusRaises(w) ==
  /\ Faults \cap {"db", "timeout"} # {}
  /\ wk[w].pc \in {"start", "starting", "fail", "failing"}
  /\ job' = "failed"
  /\ wk' = [wk EXCEPT ![w] = WorkerAt("idle")]
  /\ UNCHANGED <<row, artifact, pending, trig, up>>

\* The process dies: either RQ's parent sees its work horse exit and marks the
\* job failed, or the whole container is gone and the hash stays "started".
WorkerCrash(w) ==
  /\ "crash" \in Faults
  /\ Executing(w)
  /\ job' \in {"failed", job}
  /\ wk' = [wk EXCEPT ![w] = WorkerAt("idle")]
  /\ UNCHANGED <<row, artifact, pending, trig, up>>

\* RQ's registry clean-up, once no heartbeat keeps the job alive.
RegistryCleanup ==
  /\ job = "started"
  /\ \A w \in Workers : ~Executing(w)
  /\ job' = "failed"
  /\ UNCHANGED <<row, artifact, pending, trig, up, wk>>

\* The hash of a finished job expires.
JobExpires ==
  /\ job = "finished"
  /\ job' = "none"
  /\ UNCHANGED <<row, artifact, pending, trig, up, wk>>

-----------------------------------------------------------------------------
(* The upload endpoint. *)

\* The row is loaded before the bodies are awaited.
UploadLoad(u) ==
  /\ up[u].pc = "new"
  /\ UploadMayStart
  /\ \E parts \in PartsSets, s \in Scores :
       up' = [up EXCEPT ![u] = [pc |-> "reading", seen |-> row,
                                doc |-> [by |-> u, score |-> s],
                                parts |-> parts, todo |-> parts]]
  /\ UNCHANGED <<row, artifact, pending, job, trig, wk>>

\* 413 for an oversized body, 422 for metrics that do not validate.
UploadRejected(u) ==
  /\ up[u].pc = "reading"
  /\ up' = [up EXCEPT ![u] = UploadAt("failed")]
  /\ UNCHANGED <<row, artifact, pending, job, trig, wk>>

UploadRead(u) ==
  /\ up[u].pc = "reading"
  /\ up' = [up EXCEPT ![u].pc = "saving"]
  /\ UNCHANGED <<row, artifact, pending, job, trig, wk>>

UploadSaves(u) ==
  /\ up[u].pc = "saving"
  /\ \E n \in Names :
       /\ IsNextPart(n, up[u].todo)
       /\ artifact' = [artifact EXCEPT ![n] = up[u].doc]
       /\ up' = [up EXCEPT ![u].todo = @ \ {n}]
  /\ UNCHANGED <<row, pending, job, trig, wk>>

Written(u) == up[u].parts \ up[u].todo

\* _best_effort_delete of the keys this request wrote.
Cleaned(u) == [n \in Names |-> IF n \in Written(u) THEN NoDoc ELSE artifact[n]]

\* A write raises: it changed nothing, or it left a truncated file whose key is
\* not yet in written_keys.
UploadStorageFails(u) ==
  /\ "storage" \in Faults
  /\ up[u].pc = "saving"
  /\ \E n \in Names :
       /\ IsNextPart(n, up[u].todo)
       /\ artifact' \in {Cleaned(u), [Cleaned(u) EXCEPT ![n] = Torn]}
  /\ up' = [up EXCEPT ![u] = UploadAt("failed")]
  /\ UNCHANGED <<row, pending, job, trig, wk>>

\* MUTANT: the ranking column keeps what was loaded.
SubmittedStaleScore(u) ==
  LET seen == up[u].seen
      scored == "metrics" \in up[u].parts
  IN  [status |-> "uploaded",
       doc    |-> IF scored THEN up[u].doc ELSE seen.doc,
       score  |-> seen.score,
       trace  |-> seen.trace \/ "trace" \in up[u].parts,
       config |-> seen.config \/ "config" \in up[u].parts]

\* MUTANT: only an upload that carries metrics publishes the run, and only the
\* first metrics document is recorded.
SubmittedFirstMetrics(u) ==
  LET seen == up[u].seen
      scored == "metrics" \in up[u].parts /\ seen.doc = NoDoc
  IN  [status |-> IF scored THEN "uploaded" ELSE seen.status,
       doc    |-> IF scored THEN up[u].doc ELSE seen.doc,
       score  |-> IF scored THEN up[u].doc.score ELSE seen.score,
       trace  |-> seen.trace \/ "trace" \in up[u].parts,
       config |-> seen.config \/ "config" \in up[u].parts]

\* The columns the handler assigns, over the ones it loaded.
Submitted(u) ==
  LET seen == up[u].seen
      scored == "metrics" \in up[u].parts
  IN  [status |-> "uploaded",
       doc    |-> IF scored THEN up[u].doc ELSE seen.doc,
       score  |-> IF scored THEN up[u].doc.score ELSE seen.score,
       trace  |-> seen.trace \/ "trace" \in up[u].parts,
       config |-> seen.config \/ "config" \in up[u].parts]

\* MUTANT: the row is committed while artifacts are still being written.
CommitBeforeSaves(u) ==
  /\ up[u].pc = "saving"
  /\ row' = Flush(row, up[u].seen, Submitted(u))
  /\ up' = [up EXCEPT ![u] = UploadAt("ok")]
  /\ UNCHANGED <<artifact, pending, job, trig, wk>>

UploadCommit(u) ==
  /\ up[u].pc = "saving"
  /\ up[u].todo = {}
  /\ row' = Flush(row, up[u].seen, Submitted(u))
  /\ up' = [up EXCEPT ![u] = UploadAt("ok")]
  /\ UNCHANGED <<artifact, pending, job, trig, wk>>

UploadCommitFails(u) ==
  /\ "db" \in Faults
  /\ up[u].pc = "saving"
  /\ up[u].todo = {}
  /\ artifact' = Cleaned(u)
  /\ up' = [up EXCEPT ![u] = UploadAt("failed")]
  /\ UNCHANGED <<row, pending, job, trig, wk>>

\* The API process dies: nothing is rolled back in the store.
UploadCrash(u) ==
  /\ "api" \in Faults
  /\ UploadBusy(u)
  /\ up' = [up EXCEPT ![u] = UploadAt("failed")]
  /\ UNCHANGED <<row, artifact, pending, job, trig, wk>>

-----------------------------------------------------------------------------
TriggerStep(t) ==
  \/ TriggerLoad(t)
  \/ TriggerRefused(t)
  \/ TriggerChecked(t)
  \/ TriggerEnqueue(t)
  \/ TriggerCommit(t)
  \/ TriggerAborts(t)

WorkerStep(w) ==
  \/ Dequeue(w)
  \/ SetStatusLoad(w)
  \/ SetRunning(w)
  \/ Evaluate(w)
  \/ JobSaves(w)
  \/ SetCompleted(w)
  \/ JobRaises(w)
  \/ JobStorageFails(w)
  \/ SetFailed(w)
  \/ SetStatusRaises(w)

UploadStep(u) ==
  \/ UploadLoad(u)
  \/ UploadRejected(u)
  \/ UploadRead(u)
  \/ UploadSaves(u)
  \/ UploadStorageFails(u)
  \/ UploadCommit(u)
  \/ UploadCommitFails(u)
  \/ UploadCrash(u)

Next ==
  \/ \E t \in Triggers : TriggerStep(t)
  \/ \E w \in Workers : WorkerStep(w)
  \/ \E w \in Workers : WorkerCrash(w)
  \/ RegistryCleanup
  \/ JobExpires
  \/ \E u \in Uploads : UploadStep(u)

Spec == Init /\ [][Next]_vars

(***************************************************************************)
(* Fairness.  A live worker process keeps working (RQ's loop, worker.py)   *)
(* and RQ's maintenance keeps running; a handler that has started runs to  *)
(* its end.  Nothing obliges a client to send a request, and no fault has  *)
(* to happen.                                                              *)
(***************************************************************************)
TriggerProgress(t) == TriggerStep(t) /\ TriggerBusy(t)
UploadProgress(u) == UploadStep(u) /\ UploadBusy(u)

FairSpec ==
  /\ Spec
  /\ \A w \in Workers : WF_vars(WorkerStep(w))
  /\ WF_vars(RegistryCleanup)
  /\ \A t \in Triggers : WF_vars(TriggerProgress(t))
  /\ \A u \in Uploads : WF_vars(UploadProgress(u))

-----------------------------------------------------------------------------
(* Properties. *)

TriggerStates == {"new", "loaded", "checked", "enqueued", "done"}
UploadStates == {"new", "reading", "saving", "ok", "failed"}
WorkerStates == {"idle", "start", "starting", "eval", "saving",
                 "finish", "finishing", "fail", "failing"}

UploadLocals == [pc: UploadStates, seen: Rows, doc: Docs,
                 parts: SUBSET Names, todo: SUBSET Names]
WorkerLocals == [pc: WorkerStates, seen: Rows, doc: Docs, todo: SUBSET Names]

\* The type of the state.
TypeOK ==
  /\ row \in Rows
  /\ artifact \in [Names -> Contents]
  /\ pending \in Nat
  /\ job \in JobStatuses
  /\ trig \in [Triggers -> [pc: TriggerStates, seen: Statuses]]
  /\ up \in [Uploads -> UploadLocals]
  /\ wk \in [Workers -> WorkerLocals]

\* A run whose row says "completed" has a metrics document and names both of
\* its other artifacts, whatever uploads, duplicate jobs, timeouts and crashes
\* were interleaved: run_benchmark_job publishes status and results together.
CompletedHasResults ==
  row.status = "completed" => row.doc # NoDoc /\ row.trace /\ row.config

\* enqueue_run's promise: "If a job for the run is already queued or running we
\* do NOT enqueue a duplicate".  The job id is in the list or in the hands of a
\* worker at most once.
SingleExecution ==
  /\ pending <= 1
  /\ pending = 1 => \A w \in Workers : ~Executing(w)
  /\ \A v, w \in Workers : Executing(v) /\ Executing(w) => v = w

\* No run is left "running" behind the back of every worker: some worker is
\* still going to write a terminal status.  It can fail only where a worker
\* dies, times out or cannot reach the database, although two jobs for the run
\* may be executing and _set_status skips the columns it believes unchanged.
RunningHasWorker ==
  row.status = "running" =>
    \E w \in Workers : wk[w].pc \in WorkerStates \ {"idle", "start", "starting"}

\* The column the leaderboard ranks by is the one in the document it shows.
ScoreMatchesDoc == row.score = row.doc.score

\* get_metrics prefers the stored artifact and falls back to the row.
ServedMetrics == IF artifact["metrics"] = NoDoc THEN row.doc ELSE artifact["metrics"]

\* With nobody writing the run, the metrics endpoint and the leaderboard
\* answer from the same document.
ServedMatchesRow ==
  (\A u \in Uploads : ~UploadBusy(u)) /\ (\A w \in Workers : ~Executing(w))
    => ServedMetrics = row.doc

\* An artifact path in the row leads to an artifact of this run.
PathsLeadToArtifacts ==
  /\ row.trace => artifact["trace"] # NoDoc
  /\ row.config => artifact["config"] # NoDoc

\* A trigger is never refused for ever: whatever happens to the worker, the
\* job of the run leaves the in-flight states enqueue_run tests for.
JobSettles == job \in InFlightJob ~> job \notin InFlightJob

\* A worker has taken the job and its trigger has still to commit "queued", which
\* may then fall on what the worker writes (TriggerCommit is main.py's last step).
Overtaken == \E t \in Triggers : trig[t].pc = "enqueued" /\ job # "queued"

\* The hash of the job has expired, the row waits for an id that is still in the
\* list, and the worker that takes it will skip it.  It needs an id enqueued over
\* two executions of the same job that hide each other's writes (see Flush).
Forgotten == row.status = "queued" /\ pending > 0 /\ job = "none"

\* Where the run comes to rest, models.py says: "created -> queued -> running ->
\* completed | failed".  Once the clients have stopped, the row is not left at
\* "queued" or "running" for ever, although the job may raise in its evaluation and
\* at each of its writes, another job and uploads may be under way and the API may
\* die between enqueue and commit.
\* Two things may leave it at "queued": the late commit of a trigger whose job is
\* overtaken, and a job that is forgotten.
RunComesToRest ==
  [](~Overtaken /\ ~Forgotten) => <>[](row.status \notin {"queued", "running"})
=============================================================================
