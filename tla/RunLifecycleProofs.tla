------------------------- MODULE RunLifecycleProofs -------------------------
(***************************************************************************)
(* What RunLifecycle guarantees for every set of requests and workers:     *)
(* type correctness; "completed" comes with its results, under every fault *)
(* and overlap; no run is left "running" behind the workers' back while    *)
(* they live and reach the database; the enqueue guard keeps one execution *)
(* per run as long as triggers do not overlap.                             *)
(***************************************************************************)
EXTENDS RunLifecycle, TLAPS

-----------------------------------------------------------------------------
(* Inductive strengthenings. *)

\* While an actor holds a row it loaded, the committed row has lost nothing
\* that was in it: results are only ever added.
NotAhead(seen) ==
  /\ seen.doc # NoDoc => row.doc # NoDoc
  /\ seen.trace => row.trace
  /\ seen.config => row.config

ResultsInv ==
  /\ CompletedHasResults
  /\ \A u \in Uploads : NotAhead(up[u].seen)
  /\ \A u \in Uploads : UploadBusy(u) => up[u].doc.by = u
  /\ \A w \in Workers : NotAhead(wk[w].seen)
  /\ \A w \in Workers : wk[w].pc \in {"saving", "finish", "finishing"} => wk[w].doc.by = w

\* A worker whose last write was "running" and whose next write of the status
\* column SQLAlchemy will not skip.
Owns(w) ==
  \/ wk[w].pc \in {"eval", "saving", "finish", "fail"}
  \/ wk[w].pc = "finishing" /\ wk[w].seen.status # "completed"
  \/ wk[w].pc = "failing" /\ wk[w].seen.status # "failed"

RunningInv == row.status = "running" => \E w \in Workers : Owns(w)

\* With triggers one at a time: the hash of the job says where its id is, and
\* a trigger that has passed the check still finds no job.
SerialInv ==
  /\ \A s, t \in Triggers : TriggerBusy(s) /\ TriggerBusy(t) => s = t
  /\ \A t \in Triggers : trig[t].pc = "checked" => job \notin InFlightJob
  /\ pending > 0 => pending = 1 /\ job = "queued"
  /\ \A w \in Workers : Executing(w) => job = "started"
  /\ \A v, w \in Workers : Executing(v) /\ Executing(w) => v = w

\* The upload requests and the workers keep out of each other's way.
WriterInv ==
  /\ \A u, v \in Uploads : UploadBusy(u) /\ UploadBusy(v) => u = v
  /\ \A u \in Uploads, w \in Workers : ~(UploadBusy(u) /\ Executing(w))

\* The results a session loaded are still the committed ones, so that its UPDATE
\* writes both columns of the score or neither.
UpToDate(seen) == seen.doc = row.doc /\ seen.score = row.score

ScoreInv ==
  /\ ScoreMatchesDoc
  /\ \A u \in Uploads : UploadBusy(u) => UpToDate(up[u].seen)
  /\ \A w \in Workers : wk[w].pc = "finishing" => UpToDate(wk[w].seen)

\* The worker has saved artifact n of the results it is about to publish.
HasSaved(w, n) ==
  \/ wk[w].pc \in {"finish", "finishing"}
  \/ wk[w].pc = "saving" /\ n \notin wk[w].todo

\* Between its first write and its commit a writer has replaced the artifact;
\* before that, and when nobody writes, store and row answer alike.
UploadServes(u) ==
  UploadBusy(u) =>
    /\ up[u].todo \subseteq up[u].parts
    /\ up[u].pc = "reading" => up[u].todo = up[u].parts
    /\ "metrics" \in Written(u) => artifact["metrics"] = up[u].doc
    /\ "metrics" \notin Written(u) => ServedMetrics = row.doc

WorkerServes(w) ==
  Executing(w) =>
    /\ HasSaved(w, "metrics") => artifact["metrics"] = wk[w].doc
    /\ ~HasSaved(w, "metrics") => ServedMetrics = row.doc

ServedInv ==
  /\ ServedMatchesRow
  /\ \A u \in Uploads : UploadServes(u)
  /\ \A w \in Workers : WorkerServes(w)

\* Neither the committed row nor any row an actor remembers names an artifact
\* that is not there, and what a writer has saved stays.
Leads(seen) ==
  /\ seen.trace => artifact["trace"] # NoDoc
  /\ seen.config => artifact["config"] # NoDoc

PathsInv ==
  /\ PathsLeadToArtifacts
  /\ \A u \in Uploads : Leads(up[u].seen)
  /\ \A u \in Uploads : UploadBusy(u) =>
       /\ up[u].pc = "reading" => up[u].todo = up[u].parts
       /\ \A n \in Written(u) : artifact[n] # NoDoc
  /\ \A w \in Workers : Leads(wk[w].seen)
  /\ \A w \in Workers, n \in Names : HasSaved(w, n) => artifact[n] # NoDoc

-----------------------------------------------------------------------------
(* Typing. *)

LEMMA CreatedRowType == CreatedRow \in Rows /\ NoDoc \in Docs /\ NoDoc \in Contents
  BY ScoresAssumption DEF CreatedRow, Rows, NoDoc, Docs, Contents, Statuses

\* An UPDATE takes every column from one of the three rows.
LEMMA FlushType ==
  ASSUME NEW a \in Rows, NEW b \in Rows, NEW c \in Rows
  PROVE  Flush(a, b, c) \in Rows
  BY DEF Flush, Net, Rows

LEMMA TriggerStepType ==
  ASSUME TypeOK, NEW t \in Triggers, TriggerStep(t)
  PROVE  TypeOK'
<1> USE DEF TypeOK, TriggerAt, TriggerStates, Statuses
<1>1. CASE TriggerLoad(t)
  BY <1>1 DEF TriggerLoad, Rows
<1>2. CASE TriggerRefused(t)
  BY <1>2 DEF TriggerRefused
<1>3. CASE TriggerChecked(t)
  BY <1>3 DEF TriggerChecked
<1>4. CASE TriggerEnqueue(t)
  BY <1>4 DEF TriggerEnqueue, JobStatuses
<1>5. CASE TriggerCommit(t)
  BY <1>5 DEF TriggerCommit, Net, Rows
<1>6. CASE TriggerAborts(t)
  BY <1>6 DEF TriggerAborts
<1>7. QED
  BY <1>1, <1>2, <1>3, <1>4, <1>5, <1>6 DEF TriggerStep

LEMMA WorkerAtType ==
  ASSUME NEW pc \in WorkerStates
  PROVE  WorkerAt(pc) \in WorkerLocals
  BY CreatedRowType DEF WorkerAt, WorkerLocals

LEMMA UploadAtType ==
  ASSUME NEW pc \in UploadStates
  PROVE  UploadAt(pc) \in UploadLocals
  BY CreatedRowType DEF UploadAt, UploadLocals

LEMMA WorkerLocalsUpdate ==
  ASSUME NEW r \in WorkerLocals, NEW pc \in WorkerStates
  PROVE  /\ \A todo \in SUBSET Names : [r EXCEPT !.todo = todo, !.pc = pc] \in WorkerLocals
         /\ \A seen \in Rows : [r EXCEPT !.seen = seen, !.pc = pc] \in WorkerLocals
  BY DEF WorkerLocals

LEMMA WorkersUpdate ==
  ASSUME NEW f \in [Workers -> WorkerLocals], NEW w \in Workers, NEW r \in WorkerLocals
  PROVE  [f EXCEPT ![w] = r] \in [Workers -> WorkerLocals]
  OBVIOUS

LEMMA WorkerStepType ==
  ASSUME TypeOK, NEW w \in Workers, WorkerStep(w) \/ WorkerCrash(w)
  PROVE  TypeOK'
<1> USE WorkerAtType DEF TypeOK, JobStatuses
<1>0. /\ wk[w].pc \in WorkerStates /\ wk[w].seen \in Rows
      /\ wk[w].doc \in Docs /\ wk[w].todo \in SUBSET Names
  BY DEF WorkerLocals
<1>1. CASE Dequeue(w)
  BY <1>1 DEF Dequeue, WorkerStates
<1>2. CASE SetStatusLoad(w)
  <2> DEFINE r == [wk[w] EXCEPT !.seen = row, !.pc = Loading[wk[w].pc]]
  <2>1. Loading[wk[w].pc] \in WorkerStates
    BY <1>2 DEF SetStatusLoad, Loading, WorkerStates
  <2>2. r \in WorkerLocals
    BY <2>1, WorkerLocalsUpdate
  <2>3. wk' = [wk EXCEPT ![w] = r]
    BY <1>2 DEF SetStatusLoad
  <2> HIDE DEF r
  <2>4. wk' \in [Workers -> WorkerLocals]
    BY <2>2, <2>3, WorkersUpdate
  <2>5. QED
    BY <1>2, <2>4 DEF SetStatusLoad
<1>3. CASE SetRunning(w)
  BY <1>3 DEF SetRunning, Net, Rows, Statuses, WorkerStates
<1>4. CASE Evaluate(w)
  <2>1. PICK s \in Scores :
          wk' = [wk EXCEPT ![w] = [pc |-> "saving", seen |-> CreatedRow,
                                   doc |-> [by |-> w, score |-> s], todo |-> Names]]
    BY <1>4 DEF Evaluate
  <2>2. [by |-> w, score |-> s] \in Docs /\ "saving" \in WorkerStates
    BY DEF Docs, WorkerStates
  <2>3. [pc |-> "saving", seen |-> CreatedRow,
         doc |-> [by |-> w, score |-> s], todo |-> Names] \in WorkerLocals
    BY <2>2, CreatedRowType DEF WorkerLocals
  <2>4. wk' \in [Workers -> WorkerLocals]
    BY <2>1, <2>3
  <2>5. QED
    BY <1>4, <2>4 DEF Evaluate
<1>5. CASE JobSaves(w)
  <2>1. PICK n \in Names, pc \in WorkerStates :
          /\ artifact' = [artifact EXCEPT ![n] = wk[w].doc]
          /\ wk' = [wk EXCEPT ![w] = [@ EXCEPT !.todo = wk[w].todo \ {n}, !.pc = pc]]
    BY <1>5 DEF JobSaves, WorkerStates
  <2> DEFINE r == [wk[w] EXCEPT !.todo = wk[w].todo \ {n}, !.pc = pc]
  <2>2. wk[w].todo \ {n} \in SUBSET Names
    BY <1>0
  <2>3. r \in WorkerLocals
    BY <2>2, WorkerLocalsUpdate
  <2>4. wk' = [wk EXCEPT ![w] = r]
    BY <2>1
  <2> HIDE DEF r
  <2>5. wk' \in [Workers -> WorkerLocals]
    BY <2>3, <2>4, WorkersUpdate
  <2>6. QED
    BY <1>5, <1>0, <2>1, <2>5 DEF JobSaves, Contents
<1>6. CASE SetCompleted(w)
  <2> DEFINE new == [status |-> "completed", doc |-> wk[w].doc, score |-> wk[w].doc.score,
                     trace |-> TRUE, config |-> TRUE]
  <2>1. new \in Rows
    BY <1>0 DEF Rows, Docs, Statuses
  <2>2. row' = Flush(row, wk[w].seen, new)
    BY <1>6 DEF SetCompleted
  <2>3. row' \in Rows
    BY <1>0, <2>1, <2>2, FlushType
  <2>4. QED
    BY <1>6, <2>3 DEF SetCompleted, WorkerStates
<1>7. CASE JobRaises(w)
  BY <1>7 DEF JobRaises, WorkerStates
<1>8. CASE JobStorageFails(w)
  BY <1>8 DEF JobStorageFails, Contents, WorkerStates
<1>9. CASE SetFailed(w)
  BY <1>9 DEF SetFailed, Net, Rows, Statuses, WorkerStates
<1>10. CASE SetStatusRaises(w)
  BY <1>10 DEF SetStatusRaises, WorkerStates
<1>11. CASE WorkerCrash(w)
  BY <1>11 DEF WorkerCrash, WorkerStates
<1>12. QED
  BY <1>1, <1>2, <1>3, <1>4, <1>5, <1>6, <1>7, <1>8, <1>9, <1>10, <1>11 DEF WorkerStep

LEMMA SubmittedType ==
  ASSUME TypeOK, NEW u \in Uploads
  PROVE  Submitted(u) \in Rows
  BY DEF TypeOK, UploadLocals, Submitted, Rows, Docs, Statuses

LEMMA UploadStepType ==
  ASSUME TypeOK, NEW u \in Uploads, UploadStep(u)
  PROVE  TypeOK'
<1> USE UploadAtType DEF TypeOK
<1>0. /\ up[u].seen \in Rows /\ up[u].doc \in Docs
      /\ up[u].parts \in SUBSET Names /\ up[u].todo \in SUBSET Names
  BY DEF UploadLocals
<1>1. CASE UploadLoad(u)
  <2>1. PICK parts \in PartsSets, s \in Scores :
          up' = [up EXCEPT ![u] = [pc |-> "reading", seen |-> row,
                                   doc |-> [by |-> u, score |-> s],
                                   parts |-> parts, todo |-> parts]]
    BY <1>1 DEF UploadLoad
  <2>2. [by |-> u, score |-> s] \in Docs /\ parts \in SUBSET Names
    BY PartsAssumption DEF Docs
  <2>3. up' \in [Uploads -> UploadLocals]
    BY <2>1, <2>2 DEF UploadLocals, UploadStates
  <2>4. QED
    BY <1>1, <2>3 DEF UploadLoad
<1>2. CASE UploadRejected(u)
  BY <1>2 DEF UploadRejected, UploadStates
<1>3. CASE UploadRead(u)
  BY <1>3 DEF UploadRead, UploadLocals, UploadStates
<1>4. CASE UploadSaves(u)
  <2>1. PICK n \in Names : /\ artifact' = [artifact EXCEPT ![n] = up[u].doc]
                           /\ up' = [up EXCEPT ![u].todo = @ \ {n}]
    BY <1>4 DEF UploadSaves
  <2>2. up[u].todo \ {n} \in SUBSET Names
    BY <1>0
  <2>3. up' \in [Uploads -> UploadLocals]
    BY <2>1, <2>2 DEF UploadLocals
  <2>4. QED
    BY <1>4, <1>0, <2>1, <2>3 DEF UploadSaves, Contents
<1>5. CASE UploadStorageFails(u)
  BY <1>5, CreatedRowType DEF UploadStorageFails, Cleaned, Contents, UploadStates
<1>6. CASE UploadCommit(u)
  <2>1. row' \in Rows
    BY <1>0, <1>6, SubmittedType, FlushType DEF UploadCommit
  <2>2. QED
    BY <1>6, <2>1 DEF UploadCommit, UploadStates
<1>7. CASE UploadCommitFails(u)
  BY <1>7, CreatedRowType DEF UploadCommitFails, Cleaned, Contents, UploadStates
<1>8. CASE UploadCrash(u)
  BY <1>8 DEF UploadCrash, UploadStates
<1>9. QED
  BY <1>1, <1>2, <1>3, <1>4, <1>5, <1>6, <1>7, <1>8 DEF UploadStep

\* The state keeps its type for every set of requests, workers and faults.
THEOREM TypeCorrect == Spec => []TypeOK
<1>1. Init => TypeOK
  BY CreatedRowType, WorkerAtType, UploadAtType
     DEF Init, TypeOK, TriggerAt, TriggerStates, UploadStates, WorkerStates, JobStatuses,
         Statuses
<1>2. TypeOK /\ [Next]_vars => TypeOK'
  <2> SUFFICES ASSUME TypeOK, [Next]_vars PROVE TypeOK'
    OBVIOUS
  <2>1. CASE UNCHANGED vars
    BY <2>1 DEF TypeOK, vars
  <2>2. CASE RegistryCleanup
    BY <2>2 DEF TypeOK, RegistryCleanup, JobStatuses
  <2>3. CASE JobExpires
    BY <2>3 DEF TypeOK, JobExpires, JobStatuses
  <2>4. QED
    BY <2>1, <2>2, <2>3, TriggerStepType, WorkerStepType, UploadStepType DEF Next
<1>3. QED
  BY <1>1, <1>2, PTL DEF Spec

-----------------------------------------------------------------------------
(* "completed" comes with its results. *)

\* What every step does to the row: no result is lost, and "completed" is
\* written only with its results.
Kept ==
  /\ row.doc # NoDoc => row'.doc # NoDoc
  /\ row.trace => row'.trace
  /\ row.config => row'.config
  /\ row'.status = "completed" /\ row.status # "completed" =>
       row'.doc # NoDoc /\ row'.trace /\ row'.config

\* An UPDATE computed from a row that is not ahead of the committed one, and
\* that itself only adds results.
LEMMA FlushKeeps ==
  ASSUME NEW seen \in Rows, NEW new \in Rows, row \in Rows, NotAhead(seen),
         row' = Flush(row, seen, new),
         seen.doc # NoDoc => new.doc # NoDoc,
         seen.trace => new.trace,
         seen.config => new.config,
         new.status = "completed" => new.doc # NoDoc /\ new.trace /\ new.config
  PROVE  Kept
  BY DEF Kept, NotAhead, Flush, Net, Rows

LEMMA KeptCompleted ==
  ASSUME Kept, CompletedHasResults
  PROVE  CompletedHasResults'
  BY DEF Kept, CompletedHasResults

\* What an actor may remember after a step: what it remembered, nothing, or
\* the row as it was.
LEMMA KeptNotAhead ==
  ASSUME Kept, NEW seen, NEW next, NotAhead(seen),
         next \in {seen, CreatedRow, row}
  PROVE  /\ next.doc # NoDoc => row'.doc # NoDoc
         /\ next.trace => row'.trace
         /\ next.config => row'.config
  BY DEF Kept, NotAhead, CreatedRow

\* The step of a trigger, and every other step that writes no result.
LEMMA StatusOnly ==
  ASSUME row \in Rows, NEW status, row' = [row EXCEPT !.status = status] \/ row' = row,
         status = "completed" => row.status = "completed"
  PROVE  Kept
  BY DEF Kept, Rows

LEMMA TriggerStepResults ==
  ASSUME TypeOK, ResultsInv, NEW t \in Triggers, TriggerStep(t)
  PROVE  ResultsInv'
<1>1. /\ UNCHANGED <<up, wk>>
      /\ row'.doc = row.doc /\ row'.trace = row.trace /\ row'.config = row.config
      /\ row'.status = "completed" => row.status = "completed"
  BY DEF TriggerStep, TriggerLoad, TriggerRefused, TriggerChecked, TriggerEnqueue,
         TriggerCommit, TriggerAborts, TypeOK, Rows, Net
<1>2. QED
  BY <1>1 DEF ResultsInv, NotAhead, CompletedHasResults, UploadBusy

\* The states in which a worker holds results it is about to publish.
Publishing == {"saving", "finish", "finishing"}

\* The shapes a worker's step gives its local state: it forgets everything, or
\* loads the row, or takes the results of the evaluation, or saves one of them.
LEMMA WorkerStepForms ==
  ASSUME NEW w \in Workers, WorkerStep(w) \/ WorkerCrash(w)
  PROVE  \/ \E pc \in WorkerStates \ Publishing : wk' = [wk EXCEPT ![w] = WorkerAt(pc)]
         \/ UNCHANGED wk
         \/ SetStatusLoad(w)
         \/ Evaluate(w)
         \/ JobSaves(w)
  BY DEF WorkerStep, WorkerCrash, Dequeue, SetRunning, SetCompleted, JobRaises,
         JobStorageFails, SetFailed, SetStatusRaises, WorkerStates, Publishing

\* What a worker remembers after a step, and that the document it is about to
\* publish is its own.
LEMMA WorkerStepMemory ==
  ASSUME TypeOK, NEW w \in Workers, WorkerStep(w) \/ WorkerCrash(w)
  PROVE  \A v \in Workers :
           /\ wk'[v].seen \in {wk[v].seen, CreatedRow, row}
           /\ wk'[v].pc \in {"saving", "finish", "finishing"} =>
                \/ wk'[v].doc.by = v
                \/ /\ wk[v].pc \in {"saving", "finish", "finishing"}
                   /\ wk'[v].doc = wk[v].doc
<1>1. CASE \E pc \in WorkerStates \ Publishing : wk' = [wk EXCEPT ![w] = WorkerAt(pc)]
  BY <1>1 DEF TypeOK, WorkerAt, Publishing
<1>2. CASE UNCHANGED wk
  BY <1>2
<1>3. CASE SetStatusLoad(w)
  BY <1>3 DEF SetStatusLoad, Loading, TypeOK, WorkerLocals
<1>4. CASE Evaluate(w)
  BY <1>4 DEF Evaluate, TypeOK
<1>5. CASE JobSaves(w)
  BY <1>5 DEF JobSaves, TypeOK, WorkerLocals
<1>6. QED
  BY <1>1, <1>2, <1>3, <1>4, <1>5, WorkerStepForms

LEMMA WorkerStepResults ==
  ASSUME TypeOK, ResultsInv, NEW w \in Workers, WorkerStep(w) \/ WorkerCrash(w)
  PROVE  ResultsInv'
<1>1. UNCHANGED up
  BY DEF WorkerStep, WorkerCrash, Dequeue, SetStatusLoad, SetRunning, Evaluate, JobSaves,
         SetCompleted, JobRaises, JobStorageFails, SetFailed, SetStatusRaises
<1>2. Kept
  <2>1. CASE SetRunning(w) \/ SetFailed(w)
    BY <2>1, StatusOnly DEF SetRunning, SetFailed, Net, TypeOK, Rows, Kept
  <2>2. CASE SetCompleted(w)
    <3> DEFINE new == [status |-> "completed", doc |-> wk[w].doc, score |-> wk[w].doc.score,
                       trace |-> TRUE, config |-> TRUE]
    <3>1. wk[w].doc # NoDoc
      BY <2>2, ProducersAssumption DEF SetCompleted, ResultsInv, NoDoc
    <3>2. new \in Rows /\ wk[w].seen \in Rows /\ row \in Rows
      BY DEF TypeOK, WorkerLocals, Rows, Docs, Statuses
    <3>3. row' = Flush(row, wk[w].seen, new) /\ NotAhead(wk[w].seen)
      BY <2>2 DEF SetCompleted, ResultsInv
    <3>4. QED
      BY <3>1, <3>2, <3>3, FlushKeeps
  <2>3. CASE row' = row
    BY <2>3 DEF Kept
  <2>4. QED
    BY <2>1, <2>2, <2>3
       DEF WorkerStep, WorkerCrash, Dequeue, SetStatusLoad, Evaluate, JobSaves, JobRaises,
           JobStorageFails, SetStatusRaises
<1>3. \A v \in Workers : wk'[v].seen \in {wk[v].seen, CreatedRow, row}
  BY WorkerStepMemory
<1>4. \A v \in Workers : wk'[v].pc \in {"saving", "finish", "finishing"} => wk'[v].doc.by = v
  BY WorkerStepMemory DEF ResultsInv
<1>5. \A v \in Workers : NotAhead(wk[v].seen)'
  BY <1>2, <1>3, KeptNotAhead DEF ResultsInv, NotAhead
<1>6. \A u \in Uploads : NotAhead(up[u].seen)'
  BY <1>1, <1>2, KeptNotAhead DEF ResultsInv, NotAhead
<1>7. QED
  BY <1>1, <1>2, <1>4, <1>5, <1>6, KeptCompleted DEF ResultsInv, UploadBusy

LEMMA UploadStepResults ==
  ASSUME TypeOK, ResultsInv, NEW u \in Uploads, UploadStep(u)
  PROVE  ResultsInv'
<1>1. UNCHANGED wk
  BY DEF UploadStep, UploadLoad, UploadRejected, UploadRead, UploadSaves,
         UploadStorageFails, UploadCommit, UploadCommitFails, UploadCrash
<1>2. Kept
  <2>1. CASE UploadCommit(u)
    <3>1. up[u].doc # NoDoc
      BY <2>1, ProducersAssumption DEF UploadCommit, ResultsInv, UploadBusy, NoDoc
    <3>2. Submitted(u) \in Rows /\ up[u].seen \in Rows /\ row \in Rows
      BY SubmittedType DEF TypeOK, UploadLocals
    <3>3. row' = Flush(row, up[u].seen, Submitted(u)) /\ NotAhead(up[u].seen)
      BY <2>1 DEF UploadCommit, ResultsInv
    <3>4. /\ up[u].seen.doc # NoDoc => Submitted(u).doc # NoDoc
          /\ up[u].seen.trace => Submitted(u).trace
          /\ up[u].seen.config => Submitted(u).config
          /\ Submitted(u).status # "completed"
      BY <3>1, <3>2 DEF Submitted, Rows
    <3>5. QED
      BY <3>2, <3>3, <3>4, FlushKeeps
  <2>2. CASE row' = row
    BY <2>2 DEF Kept
  <2>3. QED
    BY <2>1, <2>2
       DEF UploadStep, UploadLoad, UploadRejected, UploadRead, UploadSaves,
           UploadStorageFails, UploadCommitFails, UploadCrash
<1>3. \A v \in Uploads : up'[v].seen \in {up[v].seen, CreatedRow, row}
  BY DEF UploadStep, UploadLoad, UploadRejected, UploadRead, UploadSaves,
         UploadStorageFails, UploadCommit, UploadCommitFails, UploadCrash, UploadAt,
         TypeOK, UploadLocals
<1>4. \A v \in Uploads : up'[v].pc \in {"reading", "saving"} => up'[v].doc.by = v
  BY DEF UploadStep, UploadLoad, UploadRejected, UploadRead, UploadSaves,
         UploadStorageFails, UploadCommit, UploadCommitFails, UploadCrash, UploadAt,
         TypeOK, UploadLocals, ResultsInv, UploadBusy
<1>5. \A v \in Uploads : NotAhead(up[v].seen)'
  BY <1>2, <1>3, KeptNotAhead DEF ResultsInv, NotAhead
<1>6. \A w \in Workers : NotAhead(wk[w].seen)'
  BY <1>1, <1>2, KeptNotAhead DEF ResultsInv, NotAhead
<1>7. QED
  BY <1>1, <1>2, <1>4, <1>5, <1>6, KeptCompleted DEF ResultsInv, UploadBusy

LEMMA ResultsAlways == Spec => []ResultsInv
<1>1. Init => ResultsInv
  BY DEF Init, ResultsInv, CompletedHasResults, NotAhead, CreatedRow, UploadAt, WorkerAt,
         UploadBusy
<1>2. TypeOK /\ ResultsInv /\ [Next]_vars => ResultsInv'
  <2> SUFFICES ASSUME TypeOK, ResultsInv, [Next]_vars PROVE ResultsInv'
    OBVIOUS
  <2>1. CASE UNCHANGED vars \/ RegistryCleanup \/ JobExpires
    BY <2>1 DEF vars, RegistryCleanup, JobExpires, ResultsInv, CompletedHasResults,
                NotAhead, UploadBusy
  <2>2. QED
    BY <2>1, TriggerStepResults, WorkerStepResults, UploadStepResults DEF Next
<1>3. QED
  BY <1>1, <1>2, TypeCorrect, PTL DEF Spec

\* Whatever is interleaved and whatever fails, a run that says "completed" has
\* a metrics document and names its trace and its config: the net-change
\* UPDATEs of overlapping sessions never lose a result.
THEOREM CompletedCorrect == Spec => []CompletedHasResults
<1>1. ResultsInv => CompletedHasResults
  BY DEF ResultsInv
<1>2. QED
  BY <1>1, ResultsAlways, PTL

-----------------------------------------------------------------------------
(* No run is left "running" behind the back of the workers. *)

\* The guard of a worker's step, and where it leads.
LEMMA WorkerStepFrame ==
  ASSUME TypeOK, NEW w \in Workers, WorkerStep(w) \/ WorkerCrash(w)
  PROVE  \A v \in Workers : v # w => wk'[v] = wk[v]
  BY DEF WorkerStep, WorkerCrash, Dequeue, SetStatusLoad, SetRunning, Evaluate, JobSaves,
         SetCompleted, JobRaises, JobStorageFails, SetFailed, SetStatusRaises, TypeOK

LEMMA WorkerStepOwner ==
  ASSUME TypeOK, RunningInv, NEW w \in Workers, WorkerStep(w),
         Faults \cap {"db", "crash", "timeout"} = {}
  PROVE  RunningInv'
<1>1. SUFFICES ASSUME row'.status = "running"
               PROVE  \E v \in Workers : Owns(v)'
  BY DEF RunningInv
<1>2. \A v \in Workers : v # w /\ Owns(v) => Owns(v)'
  BY WorkerStepFrame DEF Owns
<1>3. CASE Owns(w)'
  BY <1>3
<1>4. CASE ~Owns(w)'
  <2>1. row.status = "running" /\ ~Owns(w)
    <3>1. CASE Dequeue(w)
      BY <3>1, <1>1 DEF Dequeue, Owns
    <3>2. CASE SetStatusLoad(w)
      BY <3>2, <1>1, <1>4 DEF SetStatusLoad, Loading, Owns, TypeOK, WorkerLocals
    <3>3. CASE SetRunning(w)
      BY <3>3, <1>4 DEF SetRunning, WorkerAt, Owns, TypeOK
    <3>4. CASE Evaluate(w)
      BY <3>4, <1>4 DEF Evaluate, Owns, TypeOK
    <3>5. CASE JobSaves(w)
      BY <3>5, <1>4 DEF JobSaves, Owns, TypeOK, WorkerLocals
    <3>6. CASE SetCompleted(w)
      BY <3>6, <1>1 DEF SetCompleted, Flush, Net, Owns
    <3>7. CASE JobRaises(w)
      BY <3>7, <1>4 DEF JobRaises, WorkerAt, Owns, TypeOK
    <3>8. CASE JobStorageFails(w)
      BY <3>8, <1>4 DEF JobStorageFails, WorkerAt, Owns, TypeOK
    <3>9. CASE SetFailed(w)
      BY <3>9, <1>1 DEF SetFailed, Net, Owns, TypeOK, Rows
    <3>10. CASE SetStatusRaises(w)
      BY <3>10 DEF SetStatusRaises
    <3>11. QED
      BY <3>1, <3>2, <3>3, <3>4, <3>5, <3>6, <3>7, <3>8, <3>9, <3>10 DEF WorkerStep
  <2>2. PICK v \in Workers : Owns(v)
    BY <2>1 DEF RunningInv
  <2>3. QED
    BY <2>1, <2>2, <1>2
<1>5. QED
  BY <1>3, <1>4

LEMMA OtherStepOwner ==
  ASSUME TypeOK, RunningInv, UNCHANGED wk, row'.status = "running" => row.status = "running"
  PROVE  RunningInv'
  BY DEF RunningInv, Owns

\* While the workers live and reach the database, a run that says "running" is
\* going to get a terminal status from one of them: for any number of
\* duplicate jobs, triggers and uploads in any order.
THEOREM RunningCorrect ==
  Faults \cap {"db", "crash", "timeout"} = {} => (Spec => []RunningHasWorker)
<1> SUFFICES ASSUME Faults \cap {"db", "crash", "timeout"} = {}
             PROVE  Spec => []RunningHasWorker
  OBVIOUS
<1>1. Init => RunningInv
  BY DEF Init, RunningInv, CreatedRow
<1>2. TypeOK /\ RunningInv /\ [Next]_vars => RunningInv'
  <2> SUFFICES ASSUME TypeOK, RunningInv, [Next]_vars PROVE RunningInv'
    OBVIOUS
  <2>1. CASE UNCHANGED vars \/ RegistryCleanup \/ JobExpires
    BY <2>1, OtherStepOwner DEF vars, RegistryCleanup, JobExpires
  <2>2. CASE \E t \in Triggers : TriggerStep(t)
    BY <2>2, OtherStepOwner
       DEF TriggerStep, TriggerLoad, TriggerRefused, TriggerChecked, TriggerEnqueue,
           TriggerCommit, TriggerAborts, TypeOK, Rows, Net
  <2>3. CASE \E w \in Workers : WorkerStep(w)
    BY <2>3, WorkerStepOwner
  <2>4. CASE \E w \in Workers : WorkerCrash(w)
    BY <2>4 DEF WorkerCrash
  <2>5. CASE \E u \in Uploads : UploadStep(u)
    <3>1. PICK u \in Uploads : UploadStep(u)
      BY <2>5
    <3>2. UNCHANGED wk
      BY <3>1 DEF UploadStep, UploadLoad, UploadRejected, UploadRead, UploadSaves,
                  UploadStorageFails, UploadCommit, UploadCommitFails, UploadCrash
    <3>3. CASE UploadCommit(u)
      BY <3>2, <3>3, OtherStepOwner DEF UploadCommit, Flush, Net, Submitted
    <3>4. CASE row' = row
      BY <3>2, <3>4, OtherStepOwner
    <3>5. QED
      BY <3>1, <3>3, <3>4
         DEF UploadStep, UploadLoad, UploadRejected, UploadRead, UploadSaves,
             UploadStorageFails, UploadCommitFails, UploadCrash
  <2>6. QED
    BY <2>1, <2>2, <2>3, <2>4, <2>5 DEF Next
<1>3. RunningInv => RunningHasWorker
  BY DEF RunningInv, RunningHasWorker, Owns, WorkerStates
<1>4. QED
  BY <1>1, <1>2, <1>3, TypeCorrect, PTL DEF Spec

-----------------------------------------------------------------------------
(* One execution of the job of a run. *)

LEMMA TriggerStepSerial ==
  ASSUME TypeOK, SerialInv, NEW t \in Triggers, TriggerStep(t), "triggers" \notin Overlap
  PROVE  SerialInv'
<1> USE DEF TypeOK, SerialInv, TriggerBusy, Executing
<1>1. CASE TriggerLoad(t)
  BY <1>1 DEF TriggerLoad, TriggerMayStart
<1>2. CASE TriggerRefused(t)
  BY <1>2 DEF TriggerRefused, TriggerAt
<1>3. CASE TriggerChecked(t)
  BY <1>3 DEF TriggerChecked
<1>4. CASE TriggerEnqueue(t)
  <2>1. pending = 0 /\ \A w \in Workers : ~Executing(w)
    BY <1>4 DEF TriggerEnqueue, InFlightJob
  <2>2. pending' = 1 /\ job' = "queued" /\ UNCHANGED wk
    BY <1>4, <2>1 DEF TriggerEnqueue
  <2>3. /\ \A s \in Triggers : TriggerBusy(s)' => TriggerBusy(s)
        /\ \A s \in Triggers : trig'[s].pc # "checked"
    BY <1>4 DEF TriggerEnqueue
  <2>4. QED
    BY <2>1, <2>2, <2>3
<1>5. CASE TriggerCommit(t)
  BY <1>5 DEF TriggerCommit, TriggerAt
<1>6. CASE TriggerAborts(t)
  BY <1>6 DEF TriggerAborts, TriggerAt
<1>7. QED
  BY <1>1, <1>2, <1>3, <1>4, <1>5, <1>6 DEF TriggerStep

LEMMA WorkerStepSerial ==
  ASSUME TypeOK, SerialInv, NEW w \in Workers, WorkerStep(w) \/ WorkerCrash(w)
  PROVE  SerialInv'
<1>1. UNCHANGED trig
  BY DEF WorkerStep, WorkerCrash, Dequeue, SetStatusLoad, SetRunning, Evaluate, JobSaves,
         SetCompleted, JobRaises, JobStorageFails, SetFailed, SetStatusRaises
<1>2. CASE Dequeue(w)
  BY <1>1, <1>2 DEF Dequeue, SerialInv, TypeOK, TriggerBusy, Executing, InFlightJob
<1>3. CASE ~Dequeue(w)
  <2>1. Executing(w) /\ UNCHANGED pending
    BY <1>3 DEF WorkerStep, WorkerCrash, SetStatusLoad, Loading, SetRunning, Evaluate,
                JobSaves, SetCompleted, JobRaises, JobStorageFails, SetFailed,
                SetStatusRaises, Executing
  <2>2. job = "started" /\ pending = 0 /\ \A v \in Workers : Executing(v) => v = w
    BY <2>1 DEF SerialInv, TypeOK
  <2>3. \/ UNCHANGED job
        \/ job' \in {"finished", "failed"} /\ ~Executing(w)'
    <3>1. \/ UNCHANGED job
          \/ job' \in {"finished", "failed"} /\ wk' = [wk EXCEPT ![w] = WorkerAt("idle")]
      BY <1>3 DEF WorkerStep, WorkerCrash, SetStatusLoad, SetRunning, Evaluate,
                  JobSaves, SetCompleted, JobRaises, JobStorageFails, SetFailed,
                  SetStatusRaises
    <3>2. QED
      BY <3>1 DEF Executing, WorkerAt, TypeOK
  <2>4. \A v \in Workers : Executing(v)' => v = w
    BY <2>2, WorkerStepFrame DEF Executing
  <2>5. \A t \in Triggers : trig'[t].pc # "checked"
    BY <1>1, <2>2 DEF SerialInv, InFlightJob
  <2>6. \A v \in Workers : Executing(v)' => job' = "started"
    BY <2>2, <2>3, <2>4
  <2>7. \A s, t \in Triggers : TriggerBusy(s)' /\ TriggerBusy(t)' => s = t
    BY <1>1 DEF SerialInv, TriggerBusy
  <2>8. pending' = 0 /\ \A u, v \in Workers : Executing(u)' /\ Executing(v)' => u = v
    BY <2>1, <2>2, <2>4
  <2>9. QED
    BY <2>5, <2>6, <2>7, <2>8 DEF SerialInv
<1>4. QED
  BY <1>2, <1>3

LEMMA SerialAlways ==
  ASSUME "triggers" \notin Overlap PROVE Spec => []SerialInv
<1>1. Init => SerialInv
  BY DEF Init, SerialInv, TriggerBusy, TriggerAt, WorkerAt, Executing
<1>2. TypeOK /\ SerialInv /\ [Next]_vars => SerialInv'
  <2> SUFFICES ASSUME TypeOK, SerialInv, [Next]_vars PROVE SerialInv'
    OBVIOUS
  <2>1. CASE UNCHANGED vars
    BY <2>1 DEF vars, SerialInv, TriggerBusy, Executing
  <2>2. CASE RegistryCleanup \/ JobExpires
    BY <2>2 DEF RegistryCleanup, JobExpires, SerialInv, TriggerBusy, Executing, InFlightJob
  <2>3. CASE \E u \in Uploads : UploadStep(u)
    <3>1. UNCHANGED <<trig, wk, job, pending>>
      BY <2>3 DEF UploadStep, UploadLoad, UploadRejected, UploadRead, UploadSaves,
                  UploadStorageFails, UploadCommit, UploadCommitFails, UploadCrash
    <3>2. QED
      BY <3>1 DEF SerialInv, TriggerBusy, Executing
  <2>4. QED
    BY <2>1, <2>2, <2>3, TriggerStepSerial, WorkerStepSerial DEF Next
<1>3. QED
  BY <1>1, <1>2, TypeCorrect, PTL DEF Spec

\* As long as the trigger requests of a run do not overlap, the deterministic
\* job id keeps its executions apart, whatever crashes, expires or is retried.
THEOREM SerialCorrect ==
  "triggers" \notin Overlap => (Spec => []SingleExecution)
<1> SUFFICES ASSUME "triggers" \notin Overlap PROVE Spec => []SingleExecution
  OBVIOUS
<1>1. TypeOK /\ SerialInv => SingleExecution
  BY DEF TypeOK, SerialInv, SingleExecution, Executing
<1>2. Spec => []SerialInv
  BY SerialAlways
<1>3. QED
  BY <1>1, <1>2, TypeCorrect, PTL

-----------------------------------------------------------------------------
(* One writer at a time: the score and the document stay together. *)

\* What a step of one actor leaves alone.
LEMMA TriggerStepFrame ==
  ASSUME TypeOK, NEW t \in Triggers, TriggerStep(t)
  PROVE  /\ UNCHANGED <<artifact, up, wk>>
         /\ row'.doc = row.doc /\ row'.score = row.score
         /\ row'.trace = row.trace /\ row'.config = row.config
  BY DEF TriggerStep, TriggerLoad, TriggerRefused, TriggerChecked, TriggerEnqueue,
         TriggerCommit, TriggerAborts, TypeOK, Rows

LEMMA UploadStepFrame ==
  ASSUME TypeOK, NEW u \in Uploads, UploadStep(u)
  PROVE  /\ UNCHANGED wk
         /\ \A v \in Uploads : v # u => up'[v] = up[v]
         /\ UploadLoad(u) \/ UploadBusy(u)
  BY DEF UploadStep, UploadLoad, UploadRejected, UploadRead, UploadSaves,
         UploadStorageFails, UploadCommit, UploadCommitFails, UploadCrash, UploadBusy,
         TypeOK

LEMMA WorkerStepStarts ==
  ASSUME TypeOK, NEW w \in Workers, WorkerStep(w) \/ WorkerCrash(w)
  PROVE  /\ UNCHANGED up
         /\ Executing(w) \/ Dequeue(w)
  BY DEF WorkerStep, WorkerCrash, Dequeue, SetStatusLoad, Loading, SetRunning, Evaluate,
         JobSaves, SetCompleted, JobRaises, JobStorageFails, SetFailed, SetStatusRaises,
         Executing

LEMMA UploadStepWriter ==
  ASSUME TypeOK, WriterInv, NEW u \in Uploads, UploadStep(u), "writers" \notin Overlap
  PROVE  WriterInv'
<1>1. CASE UploadLoad(u)
  <2>1. /\ \A v \in Uploads : ~UploadBusy(v)
        /\ \A w \in Workers : ~Executing(w)
    BY <1>1 DEF UploadLoad, UploadMayStart
  <2>2. QED
    BY <2>1, UploadStepFrame DEF WriterInv, UploadBusy, Executing
<1>2. CASE UploadBusy(u)
  BY <1>2, UploadStepFrame DEF WriterInv, UploadBusy, Executing
<1>3. QED
  BY <1>1, <1>2, UploadStepFrame

LEMMA WorkerStepWriter ==
  ASSUME TypeOK, WriterInv, NEW w \in Workers, WorkerStep(w) \/ WorkerCrash(w),
         "writers" \notin Overlap
  PROVE  WriterInv'
<1>1. CASE Dequeue(w)
  BY <1>1, WorkerStepFrame, WorkerStepStarts
     DEF Dequeue, JobMayStart, WriterInv, UploadBusy, Executing
<1>2. CASE Executing(w)
  BY <1>2, WorkerStepFrame, WorkerStepStarts DEF WriterInv, UploadBusy, Executing
<1>3. QED
  BY <1>1, <1>2, WorkerStepStarts

LEMMA WriterAlways ==
  ASSUME "writers" \notin Overlap PROVE Spec => []WriterInv
<1>1. Init => WriterInv
  BY DEF Init, WriterInv, UploadBusy, UploadAt
<1>2. TypeOK /\ WriterInv /\ [Next]_vars => WriterInv'
  <2> SUFFICES ASSUME TypeOK, WriterInv, [Next]_vars PROVE WriterInv'
    OBVIOUS
  <2>1. CASE UNCHANGED vars \/ RegistryCleanup \/ JobExpires
    BY <2>1 DEF vars, RegistryCleanup, JobExpires, WriterInv, UploadBusy, Executing
  <2>2. CASE \E t \in Triggers : TriggerStep(t)
    BY <2>2, TriggerStepFrame DEF WriterInv, UploadBusy, Executing
  <2>3. QED
    BY <2>1, <2>2, UploadStepWriter, WorkerStepWriter DEF Next
<1>3. QED
  BY <1>1, <1>2, TypeCorrect, PTL DEF Spec

\* An UPDATE computed from results that are still the committed ones writes
\* exactly what its session assigned.
LEMMA FlushWrites ==
  ASSUME NEW seen, NEW new, UpToDate(seen), row' = Flush(row, seen, new)
  PROVE  row'.doc = new.doc /\ row'.score = new.score
  BY DEF UpToDate, Flush, Net

LEMMA UploadStepScore ==
  ASSUME TypeOK, WriterInv, ScoreInv, NEW u \in Uploads, UploadStep(u)
  PROVE  ScoreInv'
<1>1. CASE UploadCommit(u)
  <2>1. UploadBusy(u) /\ ~UploadBusy(u)'
    BY <1>1 DEF UploadCommit, UploadBusy, UploadAt, TypeOK
  <2>2. /\ \A v \in Uploads : ~UploadBusy(v)'
        /\ \A w \in Workers : wk'[w].pc # "finishing"
    BY <2>1, UploadStepFrame DEF WriterInv, UploadBusy, Executing
  <2>3. row'.doc = Submitted(u).doc /\ row'.score = Submitted(u).score
    BY <1>1, <2>1, FlushWrites DEF UploadCommit, ScoreInv
  <2>4. Submitted(u).score = Submitted(u).doc.score
    BY <2>1 DEF Submitted, ScoreInv, ScoreMatchesDoc, UpToDate
  <2>5. QED
    BY <2>2, <2>3, <2>4 DEF ScoreInv, ScoreMatchesDoc
<1>2. CASE row' = row
  <2>1. \A v \in Uploads : UploadBusy(v)' => \/ UploadBusy(v) /\ up'[v].seen = up[v].seen
                                           \/ up'[v].seen = row
    BY DEF UploadStep, UploadLoad, UploadRejected, UploadRead, UploadSaves,
           UploadStorageFails, UploadCommit, UploadCommitFails, UploadCrash, UploadBusy,
           UploadAt, TypeOK, UploadLocals
  <2>2. QED
    BY <1>2, <2>1, UploadStepFrame DEF ScoreInv, ScoreMatchesDoc, UpToDate
<1>3. QED
  BY <1>1, <1>2
     DEF UploadStep, UploadLoad, UploadRejected, UploadRead, UploadSaves,
         UploadStorageFails, UploadCommitFails, UploadCrash

LEMMA WorkerStepScore ==
  ASSUME TypeOK, SerialInv, WriterInv, ScoreInv, NEW w \in Workers,
         WorkerStep(w) \/ WorkerCrash(w)
  PROVE  ScoreInv'
<1>1. CASE SetCompleted(w)
  <2>1. Executing(w) /\ wk'[w].pc = "idle"
    BY <1>1 DEF SetCompleted, Executing, WorkerAt, TypeOK
  <2>2. /\ \A u \in Uploads : ~UploadBusy(u)'
        /\ \A v \in Workers : wk'[v].pc # "finishing"
    BY <2>1, WorkerStepFrame, WorkerStepStarts DEF WriterInv, SerialInv, UploadBusy, Executing
  <2> DEFINE new == [status |-> "completed", doc |-> wk[w].doc, score |-> wk[w].doc.score,
                     trace |-> TRUE, config |-> TRUE]
  <2>3. row'.doc = new.doc /\ row'.score = new.score
    <3>1. row' = Flush(row, wk[w].seen, new) /\ UpToDate(wk[w].seen)
      BY <1>1 DEF SetCompleted, ScoreInv
    <3> HIDE DEF new
    <3>2. QED
      BY <3>1, FlushWrites
  <2>4. QED
    BY <2>2, <2>3 DEF ScoreInv, ScoreMatchesDoc
<1>2. CASE ~SetCompleted(w)
  <2>1. row'.doc = row.doc /\ row'.score = row.score
    BY <1>2 DEF WorkerStep, WorkerCrash, Dequeue, SetStatusLoad, SetRunning, Evaluate,
                JobSaves, JobRaises, JobStorageFails, SetFailed, SetStatusRaises, TypeOK,
                Rows
  <2>2. \A v \in Workers : wk'[v].pc = "finishing" =>
          \/ wk[v].pc = "finishing" /\ wk'[v].seen = wk[v].seen
          \/ wk'[v].seen = row
    <3>1. CASE \E pc \in WorkerStates \ Publishing : wk' = [wk EXCEPT ![w] = WorkerAt(pc)]
      BY <3>1 DEF TypeOK, WorkerAt, Publishing
    <3>2. CASE UNCHANGED wk
      BY <3>2
    <3>3. CASE SetStatusLoad(w)
      BY <3>3 DEF SetStatusLoad, Loading, TypeOK, WorkerLocals
    <3>4. CASE Evaluate(w)
      BY <3>4 DEF Evaluate, TypeOK
    <3>5. CASE JobSaves(w)
      BY <3>5 DEF JobSaves, TypeOK, WorkerLocals
    <3>6. QED
      BY <3>1, <3>2, <3>3, <3>4, <3>5, WorkerStepForms
  <2>3. QED
    BY <2>1, <2>2, WorkerStepStarts DEF ScoreInv, ScoreMatchesDoc, UpToDate, UploadBusy
<1>3. QED
  BY <1>1, <1>2

LEMMA ScoreAlways ==
  ASSUME Overlap = {} PROVE Spec => []ScoreInv
<1>1. Init => ScoreInv
  BY DEF Init, ScoreInv, ScoreMatchesDoc, CreatedRow, NoDoc, UploadAt, WorkerAt, UploadBusy
<1>2. TypeOK /\ SerialInv /\ WriterInv /\ ScoreInv /\ [Next]_vars => ScoreInv'
  <2> SUFFICES ASSUME TypeOK, SerialInv, WriterInv, ScoreInv, [Next]_vars PROVE ScoreInv'
    OBVIOUS
  <2>1. CASE UNCHANGED vars \/ RegistryCleanup \/ JobExpires
    BY <2>1 DEF vars, RegistryCleanup, JobExpires, ScoreInv, ScoreMatchesDoc, UpToDate,
                UploadBusy
  <2>2. CASE \E t \in Triggers : TriggerStep(t)
    BY <2>2, TriggerStepFrame DEF ScoreInv, ScoreMatchesDoc, UpToDate, UploadBusy
  <2>3. QED
    BY <2>1, <2>2, UploadStepScore, WorkerStepScore DEF Next
<1>3. (Spec => []SerialInv) /\ (Spec => []WriterInv)
  BY SerialAlways, WriterAlways
<1>4. QED
  BY <1>1, <1>2, <1>3, TypeCorrect, PTL DEF Spec

\* As long as nothing else writes the run at the same time, the column the
\* leaderboard ranks by is the one in the document it shows, for any number of
\* submissions, re-submissions and jobs and under every fault.
THEOREM ScoreCorrect == Overlap = {} => (Spec => []ScoreMatchesDoc)
<1> SUFFICES ASSUME Overlap = {} PROVE Spec => []ScoreMatchesDoc
  OBVIOUS
<1>1. ScoreInv => ScoreMatchesDoc
  BY DEF ScoreInv
<1>2. Spec => []ScoreInv
  BY ScoreAlways
<1>3. QED
  BY <1>1, <1>2, PTL

-----------------------------------------------------------------------------
(* One writer at a time and no fault: store and row answer alike. *)

\* While an upload, or a worker, takes a step, nobody else writes the run.
LEMMA UploadAlone ==
  ASSUME TypeOK, WriterInv, NEW u \in Uploads, UploadStep(u), "writers" \notin Overlap
  PROVE  /\ \A v \in Uploads : v # u => ~UploadBusy(v) /\ ~UploadBusy(v)'
         /\ \A w \in Workers : ~Executing(w) /\ ~Executing(w)'
<1>1. CASE UploadLoad(u)
  BY <1>1, UploadStepFrame DEF UploadLoad, UploadMayStart, UploadBusy, Executing
<1>2. CASE UploadBusy(u)
  BY <1>2, UploadStepFrame DEF WriterInv, UploadBusy, Executing
<1>3. QED
  BY <1>1, <1>2, UploadStepFrame

LEMMA UploadStepServed ==
  ASSUME TypeOK, ResultsInv, WriterInv, ScoreInv, ServedInv, NEW u \in Uploads,
         UploadStep(u), Overlap = {}, Faults = {}
  PROVE  ServedInv'
<1> SUFFICES /\ UploadServes(u)'
             /\ ~UploadBusy(u)' => (ServedMetrics = row.doc)'
  BY UploadAlone DEF ServedInv, ServedMatchesRow, UploadServes, WorkerServes
<1> USE DEF UploadServes, UploadBusy, Written, ServedMetrics
<1>0. up[u].todo \subseteq Names /\ up[u].parts \subseteq Names
  BY DEF TypeOK, UploadLocals
<1>1. CASE UploadLoad(u)
  <2>1. ServedMetrics = row.doc
    BY <1>1, UploadAlone DEF UploadLoad, ServedInv, ServedMatchesRow
  <2>2. QED
    BY <1>1, <2>1 DEF UploadLoad, TypeOK
<1>2. CASE UploadRejected(u)
  BY <1>2 DEF UploadRejected, UploadAt, ServedInv, TypeOK
<1>3. CASE UploadRead(u)
  BY <1>3 DEF UploadRead, ServedInv, TypeOK, UploadLocals
<1>4. CASE UploadSaves(u)
  <2>1. PICK n \in Names : /\ n \in up[u].todo
                           /\ artifact' = [artifact EXCEPT ![n] = up[u].doc]
                           /\ up' = [up EXCEPT ![u].todo = @ \ {n}]
    BY <1>4 DEF UploadSaves, IsNextPart
  <2>2. /\ up'[u].todo = up[u].todo \ {n} /\ up'[u].parts = up[u].parts
        /\ up'[u].doc = up[u].doc /\ up'[u].pc = "saving" /\ row' = row
    BY <1>4, <2>1 DEF UploadSaves, TypeOK, UploadLocals
  <2>3. CASE n = "metrics"
    BY <1>4, <2>1, <2>2, <2>3 DEF UploadSaves, ServedInv, TypeOK
  <2>4. CASE n # "metrics"
    BY <1>4, <2>1, <2>2, <2>4 DEF UploadSaves, ServedInv, TypeOK
  <2>5. QED
    BY <2>3, <2>4
<1>5. CASE UploadCommit(u)
  <2>1. row'.doc = Submitted(u).doc /\ ~UploadBusy(u)'
    BY <1>5, FlushWrites DEF UploadCommit, ScoreInv, UploadAt, TypeOK
  <2>2. up[u].doc # NoDoc
    BY <1>5, ProducersAssumption DEF UploadCommit, ResultsInv, NoDoc
  <2>3. QED
    BY <1>5, <2>1, <2>2 DEF UploadCommit, Submitted, ServedInv, ScoreInv, UpToDate
<1>6. QED
  BY <1>1, <1>2, <1>3, <1>4, <1>5 DEF UploadStep, UploadStorageFails, UploadCommitFails, UploadCrash

LEMMA WorkerAlone ==
  ASSUME TypeOK, SerialInv, WriterInv, NEW w \in Workers, WorkerStep(w) \/ WorkerCrash(w),
         Overlap = {}
  PROVE  /\ \A u \in Uploads : ~UploadBusy(u) /\ ~UploadBusy(u)'
         /\ \A v \in Workers : v # w => ~Executing(v) /\ ~Executing(v)'
<1>1. CASE Dequeue(w)
  <2>1. \A v \in Workers : ~Executing(v)
    BY <1>1 DEF Dequeue, SerialInv
  <2>2. QED
    BY <1>1, <2>1, WorkerStepFrame, WorkerStepStarts
       DEF Dequeue, JobMayStart, UploadBusy, Executing
<1>2. CASE Executing(w)
  BY <1>2, WorkerStepFrame, WorkerStepStarts
     DEF WriterInv, SerialInv, UploadBusy, Executing
<1>3. QED
  BY <1>1, <1>2, WorkerStepStarts

LEMMA WorkerStepServed ==
  ASSUME TypeOK, ResultsInv, SerialInv, WriterInv, ScoreInv, ServedInv, NEW w \in Workers,
         WorkerStep(w), Overlap = {}, Faults = {}
  PROVE  ServedInv'
<1> SUFFICES /\ WorkerServes(w)'
             /\ ~Executing(w)' => (ServedMetrics = row.doc)'
  BY WorkerAlone DEF ServedInv, ServedMatchesRow, UploadServes, WorkerServes
<1> USE DEF WorkerServes, Executing, HasSaved, ServedMetrics
<1>1. CASE Dequeue(w)
  <2>1. ServedMetrics = row.doc
    BY <1>1, WorkerAlone DEF Dequeue, ServedInv, ServedMatchesRow
  <2>2. QED
    BY <1>1, <2>1 DEF Dequeue, WorkerAt, TypeOK
<1>2. CASE SetStatusLoad(w)
  BY <1>2 DEF SetStatusLoad, Loading, ServedInv, TypeOK, WorkerLocals
<1>3. CASE SetRunning(w)
  BY <1>3 DEF SetRunning, WorkerAt, ServedInv, TypeOK, Rows
<1>4. CASE Evaluate(w)
  BY <1>4 DEF Evaluate, ServedInv, TypeOK, Names
<1>5. CASE JobSaves(w)
  <2>1. PICK n \in Names :
          /\ IsNextPart(n, wk[w].todo)
          /\ artifact' = [artifact EXCEPT ![n] = wk[w].doc]
          /\ wk' = [wk EXCEPT ![w] =
                      [@ EXCEPT !.todo = wk[w].todo \ {n},
                                !.pc = IF wk[w].todo = {n} THEN "finish" ELSE "saving"]]
    BY <1>5 DEF JobSaves
  <2>2. /\ wk'[w].todo = wk[w].todo \ {n} /\ wk'[w].doc = wk[w].doc /\ row' = row
        /\ wk'[w].pc = IF wk[w].todo = {n} THEN "finish" ELSE "saving"
    <3>1. wk[w] \in WorkerLocals /\ wk \in [Workers -> WorkerLocals] /\ row' = row
      BY <1>5 DEF JobSaves, TypeOK
    <3>2. wk'[w] = [wk[w] EXCEPT !.todo = wk[w].todo \ {n},
                                 !.pc = IF wk[w].todo = {n} THEN "finish" ELSE "saving"]
      BY <2>1, <3>1
    <3>3. QED
      BY <3>1, <3>2 DEF WorkerLocals
  <2>3. CASE n = "metrics"
    BY <1>5, <2>1, <2>2, <2>3 DEF JobSaves, TypeOK
  <2>4. CASE n # "metrics"
    BY <1>5, <2>1, <2>2, <2>4 DEF JobSaves, IsNextPart, ServedInv, TypeOK, Names
  <2>5. QED
    BY <2>3, <2>4
<1>6. CASE SetCompleted(w)
  <2> DEFINE new == [status |-> "completed", doc |-> wk[w].doc, score |-> wk[w].doc.score,
                     trace |-> TRUE, config |-> TRUE]
  <2>1. row'.doc = new.doc
    <3>1. row' = Flush(row, wk[w].seen, new) /\ UpToDate(wk[w].seen)
      BY <1>6 DEF SetCompleted, ScoreInv
    <3> HIDE DEF new
    <3>2. QED
      BY <3>1, FlushWrites
  <2>2. artifact'["metrics"] = wk[w].doc
    BY <1>6 DEF SetCompleted, ServedInv
  <2>3. ~Executing(w)'
    BY <1>6 DEF SetCompleted, WorkerAt, TypeOK
  <2>4. row'.doc = wk[w].doc
    BY <2>1
  <2>5. QED
    BY <2>2, <2>3, <2>4
<1>7. CASE JobRaises(w)
  BY <1>7 DEF JobRaises, WorkerAt, ServedInv, TypeOK
<1>8. CASE SetFailed(w)
  BY <1>8 DEF SetFailed, WorkerAt, ServedInv, TypeOK, Rows
<1>9. QED
  BY <1>1, <1>2, <1>3, <1>4, <1>5, <1>6, <1>7, <1>8
     DEF WorkerStep, JobStorageFails, SetStatusRaises

\* One writer at a time and nothing failing, the metrics endpoint and the
\* leaderboard answer from the same document whenever nobody is writing.
THEOREM ServedCorrect == Overlap = {} /\ Faults = {} => (Spec => []ServedMatchesRow)
<1> SUFFICES ASSUME Overlap = {}, Faults = {} PROVE Spec => []ServedMatchesRow
  OBVIOUS
<1>1. Init => ServedInv
  BY DEF Init, ServedInv, ServedMatchesRow, ServedMetrics, CreatedRow, UploadServes, WorkerServes,
         UploadAt, WorkerAt, UploadBusy, Executing, Names
<1>2. /\ TypeOK /\ ResultsInv /\ SerialInv /\ WriterInv /\ ScoreInv /\ ServedInv
      /\ [Next]_vars
      => ServedInv'
  <2> SUFFICES ASSUME TypeOK, ResultsInv, SerialInv, WriterInv, ScoreInv, ServedInv,
                      [Next]_vars
               PROVE  ServedInv'
    OBVIOUS
  <2>1. CASE UNCHANGED vars \/ RegistryCleanup \/ JobExpires
    <3>1. UNCHANGED <<row, artifact, up, wk>>
      BY <2>1 DEF vars, RegistryCleanup, JobExpires
    <3>2. QED
      BY <3>1 DEF ServedInv, ServedMatchesRow, ServedMetrics, UploadServes, WorkerServes,
                  UploadBusy, Executing, Written, HasSaved
  <2>2. CASE \E t \in Triggers : TriggerStep(t)
    <3>1. row'.doc = row.doc /\ UNCHANGED <<artifact, up, wk>>
      BY <2>2, TriggerStepFrame
    <3>2. QED
      BY <3>1 DEF ServedInv, ServedMatchesRow, ServedMetrics, UploadServes, WorkerServes,
                  UploadBusy, Executing, Written, HasSaved
  <2>3. CASE \E w \in Workers : WorkerCrash(w)
    BY <2>3 DEF WorkerCrash
  <2>4. QED
    BY <2>1, <2>2, <2>3, UploadStepServed, WorkerStepServed DEF Next
<1>3. ServedInv => ServedMatchesRow
  BY DEF ServedInv
<1>4. (Spec => []SerialInv) /\ (Spec => []WriterInv) /\ (Spec => []ScoreInv)
  BY SerialAlways, WriterAlways, ScoreAlways
<1>5. QED
  BY <1>1, <1>2, <1>3, <1>4, TypeCorrect, ResultsAlways, PTL DEF Spec

-----------------------------------------------------------------------------
(* Paths lead to artifacts: a writer whose writes and commits succeed never  *)
(* removes one, so that overlap, timeouts and crashes cannot break a path.   *)

\* What every step does to the store while writes and commits succeed.
StoreKept == \A n \in Names : artifact[n] # NoDoc => artifact'[n] # NoDoc

LEMMA KeptLeads ==
  ASSUME StoreKept, PathsLeadToArtifacts, NEW seen, NEW next, Leads(seen),
         next \in {seen, CreatedRow, row}
  PROVE  /\ next.trace => artifact'["trace"] # NoDoc
         /\ next.config => artifact'["config"] # NoDoc
  BY DEF StoreKept, PathsLeadToArtifacts, Leads, CreatedRow, Names

\* Each path of an UPDATE is the committed one or one its session assigned.
LEMMA FlushLeads ==
  ASSUME NEW seen, NEW new, row' = Flush(row, seen, new), UNCHANGED artifact,
         PathsLeadToArtifacts, Leads(new)
  PROVE  PathsLeadToArtifacts'
  BY DEF PathsLeadToArtifacts, Leads, Flush, Net

LEMMA UploadStepPaths ==
  ASSUME TypeOK, ResultsInv, PathsInv, NEW u \in Uploads, UploadStep(u),
         Faults \cap {"storage", "db"} = {}
  PROVE  PathsInv'
<1> USE DEF UploadBusy
<1>1. StoreKept /\ UNCHANGED wk
  <2>1. CASE UploadSaves(u)
    BY <2>1, ProducersAssumption
       DEF UploadSaves, StoreKept, ResultsInv, NoDoc, TypeOK
  <2>2. CASE UNCHANGED artifact
    BY <2>2, UploadStepFrame DEF StoreKept
  <2>3. QED
    BY <2>1, <2>2, UploadStepFrame
       DEF UploadStep, UploadLoad, UploadRejected, UploadRead,
           UploadStorageFails, UploadCommit, UploadCommitFails, UploadCrash
<1>2. PathsLeadToArtifacts'
  <2>1. CASE UploadCommit(u)
    <3>1. Written(u) = up[u].parts
      BY <2>1 DEF UploadCommit, Written
    <3>2. Leads(Submitted(u))
      BY <2>1, <3>1 DEF UploadCommit, Submitted, PathsInv, Leads
    <3>3. QED
      BY <2>1, <3>2, FlushLeads DEF UploadCommit, PathsInv
  <2>2. CASE row' = row
    BY <1>1, <2>2 DEF StoreKept, PathsInv, PathsLeadToArtifacts, Names
  <2>3. QED
    BY <2>1, <2>2
       DEF UploadStep, UploadLoad, UploadRejected, UploadRead, UploadSaves,
           UploadStorageFails, UploadCommitFails, UploadCrash
<1>3. \A v \in Uploads : up'[v].seen \in {up[v].seen, CreatedRow, row}
  BY DEF UploadStep, UploadLoad, UploadRejected, UploadRead, UploadSaves,
         UploadStorageFails, UploadCommit, UploadCommitFails, UploadCrash, UploadAt,
         TypeOK, UploadLocals
<1>4. \A v \in Uploads : Leads(up[v].seen)'
  BY <1>1, <1>3, KeptLeads DEF PathsInv, Leads
<1>5. \A w \in Workers : Leads(wk[w].seen)'
  BY <1>1, KeptLeads DEF PathsInv, Leads
<1>6. \A w \in Workers, n \in Names : HasSaved(w, n)' => artifact'[n] # NoDoc
  BY <1>1 DEF PathsInv, StoreKept, HasSaved
<1>7. ASSUME NEW v \in Uploads, UploadBusy(v)'
      PROVE  /\ up'[v].pc = "reading" => up'[v].todo = up'[v].parts
             /\ \A n \in Written(v)' : artifact'[n] # NoDoc
  <2> USE DEF Written
  <2>0. /\ up[v].todo \in SUBSET Names /\ up[v].parts \in SUBSET Names
        /\ up[u].todo \in SUBSET Names /\ up[u].parts \in SUBSET Names
    BY DEF TypeOK, UploadLocals
  <2>1. CASE v # u
    BY <1>1, <1>7, <2>0, <2>1, UploadStepFrame DEF PathsInv, StoreKept
  <2>2. CASE v = u /\ UploadLoad(u)
    BY <2>2 DEF UploadLoad, TypeOK
  <2>3. CASE v = u /\ UploadRead(u)
    BY <1>1, <2>0, <2>3 DEF UploadRead, PathsInv, StoreKept, TypeOK, UploadLocals
  <2>4. CASE v = u /\ UploadSaves(u)
    <3>1. PICK n \in Names : /\ artifact' = [artifact EXCEPT ![n] = up[u].doc]
                             /\ up' = [up EXCEPT ![u].todo = @ \ {n}]
      BY <2>4 DEF UploadSaves
    <3>2. /\ up'[u].todo = up[u].todo \ {n} /\ up'[u].parts = up[u].parts
          /\ up'[u].pc = "saving" /\ up[u].doc # NoDoc
      BY <2>4, <3>1, ProducersAssumption DEF UploadSaves, TypeOK, UploadLocals, ResultsInv, NoDoc
    <3>3. artifact'[n] # NoDoc
      BY <3>1, <3>2 DEF TypeOK
    <3>4. QED
      BY <1>1, <2>0, <2>4, <3>2, <3>3 DEF UploadSaves, PathsInv, StoreKept
  <2>5. QED
    BY <1>7, <2>1, <2>2, <2>3, <2>4
       DEF UploadStep, UploadRejected, UploadStorageFails, UploadCommit,
           UploadCommitFails, UploadCrash, UploadAt, TypeOK
<1>8. QED
  BY <1>2, <1>4, <1>5, <1>6, <1>7 DEF PathsInv

LEMMA WorkerStepPaths ==
  ASSUME TypeOK, ResultsInv, PathsInv, NEW w \in Workers, WorkerStep(w) \/ WorkerCrash(w),
         Faults \cap {"storage", "db"} = {}
  PROVE  PathsInv'
<1>1. StoreKept
  <2>1. CASE JobSaves(w)
    BY <2>1, ProducersAssumption DEF JobSaves, StoreKept, ResultsInv, NoDoc, TypeOK
  <2>2. CASE UNCHANGED artifact
    BY <2>2 DEF StoreKept
  <2>3. QED
    BY <2>1, <2>2
       DEF WorkerStep, WorkerCrash, Dequeue, SetStatusLoad, SetRunning, Evaluate,
           SetCompleted, JobRaises, JobStorageFails, SetFailed, SetStatusRaises
<1>2. PathsLeadToArtifacts'
  <2>1. CASE SetCompleted(w)
    <3> DEFINE new == [status |-> "completed", doc |-> wk[w].doc,
                       score |-> wk[w].doc.score, trace |-> TRUE, config |-> TRUE]
    <3>1. Leads(new)
      BY <2>1 DEF SetCompleted, PathsInv, HasSaved, Leads, Names
    <3>2. row' = Flush(row, wk[w].seen, new) /\ UNCHANGED artifact
      BY <2>1 DEF SetCompleted
    <3> HIDE DEF new
    <3>3. QED
      BY <3>1, <3>2, FlushLeads DEF PathsInv
  <2>2. CASE ~SetCompleted(w)
    <3>1. row'.trace = row.trace /\ row'.config = row.config
      BY <2>2 DEF WorkerStep, WorkerCrash, Dequeue, SetStatusLoad, SetRunning, Evaluate,
                  JobSaves, JobRaises, JobStorageFails, SetFailed, SetStatusRaises,
                  TypeOK, Rows
    <3>2. QED
      BY <1>1, <3>1 DEF StoreKept, PathsInv, PathsLeadToArtifacts, Names
  <2>3. QED
    BY <2>1, <2>2
<1>3. \A v \in Workers : Leads(wk[v].seen)'
  BY <1>1, WorkerStepMemory, KeptLeads DEF PathsInv, Leads
<1>4. \A u \in Uploads : Leads(up[u].seen)'
  BY <1>1, WorkerStepStarts, KeptLeads DEF PathsInv, Leads
<1>5. \A u \in Uploads : UploadBusy(u)' =>
        /\ up'[u].pc = "reading" => up'[u].todo = up'[u].parts
        /\ \A n \in Written(u)' : artifact'[n] # NoDoc
  <2>1. \A u \in Uploads : up[u].parts \in SUBSET Names
    BY DEF TypeOK, UploadLocals
  <2>2. QED
    BY <1>1, <2>1, WorkerStepStarts DEF PathsInv, StoreKept, Written, UploadBusy
<1>6. ASSUME NEW v \in Workers, NEW n \in Names, HasSaved(v, n)'
      PROVE  artifact'[n] # NoDoc
  <2>1. CASE HasSaved(v, n)
    BY <1>1, <2>1 DEF PathsInv, StoreKept
  <2>2. CASE JobSaves(w) /\ ~HasSaved(v, n)
    <3>1. PICK m \in Names, pc \in WorkerStates :
            /\ artifact' = [artifact EXCEPT ![m] = wk[w].doc]
            /\ wk' = [wk EXCEPT ![w] = [@ EXCEPT !.todo = wk[w].todo \ {m}, !.pc = pc]]
            /\ pc = "finish" => wk[w].todo = {m}
            /\ pc \in {"saving", "finish"}
      BY <2>2 DEF JobSaves, WorkerStates
    <3>2. v = w /\ wk[w].pc = "saving" /\ wk[w].doc # NoDoc
      BY <1>6, <2>2, <3>1, ProducersAssumption
         DEF JobSaves, HasSaved, TypeOK, ResultsInv, NoDoc
    <3>3. wk'[w].todo = wk[w].todo \ {m} /\ wk'[w].pc = pc
      BY <3>1 DEF TypeOK, WorkerLocals
    <3>4. n = m
      BY <1>6, <2>2, <3>1, <3>2, <3>3 DEF HasSaved
    <3>5. QED
      BY <3>1, <3>2, <3>4 DEF TypeOK
  <2>3. CASE ~JobSaves(w) /\ ~HasSaved(v, n)
    <3>1. CASE \E pc \in WorkerStates \ Publishing : wk' = [wk EXCEPT ![w] = WorkerAt(pc)]
      BY <1>6, <2>3, <3>1 DEF TypeOK, WorkerAt, Publishing, HasSaved
    <3>2. CASE UNCHANGED wk
      BY <1>6, <2>3, <3>2 DEF HasSaved
    <3>3. CASE SetStatusLoad(w)
      BY <1>6, <2>3, <3>3 DEF SetStatusLoad, Loading, TypeOK, WorkerLocals, HasSaved
    <3>4. CASE Evaluate(w)
      BY <1>6, <2>3, <3>4 DEF Evaluate, TypeOK, HasSaved
    <3>5. QED
      BY <2>3, <3>1, <3>2, <3>3, <3>4, WorkerStepForms
  <2>4. QED
    BY <2>1, <2>2, <2>3
<1>7. QED
  BY <1>2, <1>3, <1>4, <1>5, <1>6 DEF PathsInv

\* An artifact path in the row leads to an artifact, whatever uploads, triggers
\* and duplicate jobs overlap and whatever dies or times out in between: only a
\* failing write or a failing commit, whose clean-up deletes keys another
\* request may have written, is excluded.
THEOREM PathsCorrect ==
  Faults \cap {"storage", "db"} = {} => (Spec => []PathsLeadToArtifacts)
<1> SUFFICES ASSUME Faults \cap {"storage", "db"} = {}
             PROVE  Spec => []PathsLeadToArtifacts
  OBVIOUS
<1>1. Init => PathsInv
  BY DEF Init, PathsInv, PathsLeadToArtifacts, Leads, CreatedRow, UploadAt, WorkerAt,
         UploadBusy, HasSaved
<1>2. TypeOK /\ ResultsInv /\ PathsInv /\ [Next]_vars => PathsInv'
  <2> SUFFICES ASSUME TypeOK, ResultsInv, PathsInv, [Next]_vars PROVE PathsInv'
    OBVIOUS
  <2>1. CASE UNCHANGED vars \/ RegistryCleanup \/ JobExpires
    <3>1. UNCHANGED <<row, artifact, up, wk>>
      BY <2>1 DEF vars, RegistryCleanup, JobExpires
    <3>2. QED
      BY <3>1 DEF PathsInv, PathsLeadToArtifacts, Leads, UploadBusy, Written, HasSaved
  <2>2. CASE \E t \in Triggers : TriggerStep(t)
    <3>1. /\ UNCHANGED <<artifact, up, wk>>
          /\ row'.trace = row.trace /\ row'.config = row.config
      BY <2>2, TriggerStepFrame
    <3>2. QED
      BY <3>1 DEF PathsInv, PathsLeadToArtifacts, Leads, UploadBusy, Written, HasSaved
  <2>3. QED
    BY <2>1, <2>2, UploadStepPaths, WorkerStepPaths DEF Next
<1>3. PathsInv => PathsLeadToArtifacts
  BY DEF PathsInv
<1>4. QED
  BY <1>1, <1>2, <1>3, TypeCorrect, ResultsAlways, PTL DEF Spec
=============================================================================
