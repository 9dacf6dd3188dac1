------------------------- MODULE IdempotencyProofs -------------------------
(***************************************************************************)
(* For every set of requests, keys and bodies: at either endpoint whoever  *)
(* is acknowledged for a write of its own holds the record of its key; and *)
(* the transactions of the create endpoint implement the one-step writes   *)
(* of KeyedWrites, whose answers may be lost, and so keep its promises.    *)
(***************************************************************************)
EXTENDS Idempotency, TLAPS

-----------------------------------------------------------------------------
(* The promises follow from the one-step writes. *)

EffectType == effects \subseteq [by: Requests, window: Nat]

AbstractType ==
  /\ ask \in [Requests -> Asks]
  /\ window \in [Keys -> Nat]
  /\ records \in [Keys -> Entries]
  /\ answer \in [Requests -> Answers]
  /\ EffectType

\* No effect is ahead of its key's window, and the effect of the present window
\* is the one its record tells of.
EffectsInv ==
  /\ OneEffectPerWindow
  /\ \A e \in effects : Key(e.by) # NoKey =>
       /\ e.window <= window[Key(e.by)]
       /\ e.window = window[Key(e.by)] => records[Key(e.by)] = e
  /\ \A k \in Keys : records[k].by # None => records[k] \in effects /\ Key(records[k].by) = k

LEMMA AbstractTypeStep ==
  ASSUME AbstractType, [Next]_vars
  PROVE  AbstractType'
<1> USE DEF AbstractType, EffectType
<1>1. ASSUME NEW r \in Requests, NEW status \in {"ok", "conflict", "exists", "error"},
             NEW of \in Requests \cup {None}, Tell(r, status, of)
      PROVE  answer' \in [Requests -> Answers]
  BY <1>1 DEF Tell, Answers
<1>2. ASSUME NEW r \in Requests, Perform(r) PROVE AbstractType'
  <2>1. WindowOf(r) \in Nat
    BY DEF WindowOf, Key, Asks
  <2>2. [by |-> r, window |-> WindowOf(r)] \in Entries \cap [by: Requests, window: Nat]
    BY <2>1 DEF Entries
  <2>3. QED
    BY <1>2, <2>2 DEF Perform
<1>3. ASSUME NEW k \in Keys, Expire(k) PROVE AbstractType'
  BY <1>3 DEF Expire
<1>4. ASSUME NEW r \in Requests, Replay(r) PROVE AbstractType'
  <2>1. records[Key(r)].by \in Requests \cup {None}
    BY <1>4 DEF Replay, Key, Asks, Entries
  <2>2. QED
    BY <1>1, <1>4, <2>1 DEF Replay
<1>5. ASSUME NEW r \in Requests, Acknowledge(r) \/ Conflict(r) \/ Exists(r) \/ Fail(r)
      PROVE  AbstractType'
  BY <1>1, <1>5 DEF Acknowledge, Conflict, Exists, Fail
<1>6. QED
  BY <1>2, <1>3, <1>4, <1>5 DEF Next, vars

LEMMA PerformEffects ==
  ASSUME AbstractType, EffectsInv, NEW r \in Requests, Perform(r)
  PROVE  EffectsInv'
<1> DEFINE new == [by |-> r, window |-> WindowOf(r)]
<1>1. /\ effects' = effects \cup {new}
      /\ UNCHANGED <<ask, window>>
      /\ Key(r) # NoKey => ~Live(Key(r))
  BY DEF Perform
<1>2. CASE Key(r) = NoKey
  BY <1>1, <1>2 DEF Perform, EffectsInv, OneEffectPerWindow, Key
<1>3. CASE Key(r) # NoKey
  <2>1. Key(r) \in Keys /\ WindowOf(r) = window[Key(r)] /\ WindowOf(r) \in Nat
    BY <1>3 DEF AbstractType, Key, Asks, WindowOf
  <2>2. records' = [records EXCEPT ![Key(r)] = new]
    BY <1>3 DEF Perform
  <2>3. \A e \in effects : Key(e.by) = Key(r) => e.window # window[Key(r)]
    BY <1>1, <1>3, KeysAssumption DEF EffectsInv, Live, AbstractType, EffectType
  <2>4. (\A e \in effects : Key(e.by) # NoKey =>
           /\ e.window <= window[Key(e.by)]
           /\ e.window = window[Key(e.by)] => records[Key(e.by)] = e)'
    <3> SUFFICES ASSUME NEW e \in effects', Key(e.by) # NoKey
                 PROVE  /\ e.window <= window[Key(e.by)]
                        /\ e.window = window[Key(e.by)] => records'[Key(e.by)] = e
      BY <1>1 DEF Key
    <3>1. CASE e = new
      BY <3>1, <2>1, <2>2 DEF AbstractType
    <3>2. CASE e \in effects
      BY <3>2, <2>2, <2>3 DEF EffectsInv, AbstractType
    <3>3. QED
      BY <3>1, <3>2, <1>1
  <2>5. (\A k \in Keys : records[k].by # None =>
           records[k] \in effects /\ Key(records[k].by) = k)'
    <3> SUFFICES ASSUME NEW k \in Keys, records'[k].by # None
                 PROVE  records'[k] \in effects' /\ Key(records'[k].by) = k
      BY <1>1 DEF Key
    <3>1. CASE k = Key(r)
      <4>1. records'[k] = new /\ new.by = r /\ new \in effects'
        BY <3>1, <1>1, <2>1, <2>2 DEF AbstractType
      <4>2. QED
        BY <3>1, <4>1
    <3>2. CASE k # Key(r)
      BY <3>2, <1>1, <2>2 DEF EffectsInv, AbstractType
    <3>3. QED
      BY <3>1, <3>2
  <2>6. OneEffectPerWindow'
    <3> SUFFICES ASSUME NEW d \in effects', NEW e \in effects', Key(d.by) = Key(e.by),
                        Key(d.by) # NoKey, d.window = e.window
                 PROVE  d = e
      BY <1>1 DEF OneEffectPerWindow, Key
    <3>1. CASE d \in effects /\ e \in effects
      BY <3>1 DEF EffectsInv, OneEffectPerWindow
    <3>2. QED
      BY <3>1, <1>1, <2>1, <2>3
  <2>7. QED
    BY <2>4, <2>5, <2>6 DEF EffectsInv
<1>4. QED
  BY <1>2, <1>3

LEMMA ExpireEffects ==
  ASSUME AbstractType, EffectsInv, NEW k \in Keys, Expire(k)
  PROVE  EffectsInv'
<1>1. /\ window' = [window EXCEPT ![k] = window[k] + 1]
      /\ UNCHANGED <<ask, records, effects>>
  BY DEF Expire
<1>2. \A e \in effects : e.window \in Nat
  BY DEF AbstractType, EffectType
<1>3. \A j \in Keys : window[j] \in Nat
  BY DEF AbstractType
<1>4. \A e \in effects : Key(e.by) # NoKey => Key(e.by) \in Keys
  BY DEF AbstractType, EffectType, Key, Asks
<1>5. \A e \in effects : Key(e.by)' # NoKey =>
        /\ e.window <= window'[Key(e.by)']
        /\ e.window = window'[Key(e.by)'] => records[Key(e.by)'] = e
  <2> SUFFICES ASSUME NEW e \in effects, Key(e.by) # NoKey
               PROVE  /\ e.window <= window'[Key(e.by)]
                      /\ e.window = window'[Key(e.by)] => records[Key(e.by)] = e
    BY <1>1 DEF Key
  <2>1. /\ e.window <= window[Key(e.by)]
        /\ e.window = window[Key(e.by)] => records[Key(e.by)] = e
    BY DEF EffectsInv
  <2>2. CASE Key(e.by) = k
    BY <1>1, <1>2, <1>3, <2>1, <2>2 DEF AbstractType
  <2>3. CASE Key(e.by) # k
    BY <1>1, <1>4, <2>1, <2>3 DEF AbstractType
  <2>4. QED
    BY <2>2, <2>3
<1>6. OneEffectPerWindow'
  BY <1>1 DEF EffectsInv, OneEffectPerWindow, Key
<1>7. QED
  BY <1>1, <1>5, <1>6 DEF EffectsInv, Key

\* One-step writes perform at most one effect per key and window.
THEOREM AbstractOnce == Spec => []OneEffectPerWindow
<1>1. Init => AbstractType /\ EffectsInv
  BY DEF Init, AbstractType, EffectType, EffectsInv, OneEffectPerWindow, NoEntry, Entries,
         Open, Answers
<1>2. AbstractType /\ EffectsInv /\ [Next]_vars => (AbstractType /\ EffectsInv)'
  <2> SUFFICES ASSUME AbstractType, EffectsInv, [Next]_vars
               PROVE  EffectsInv'
    BY AbstractTypeStep
  <2>1. CASE UNCHANGED <<ask, window, records, effects>>
    BY <2>1 DEF EffectsInv, OneEffectPerWindow, Key
  <2>2. QED
    BY <2>1, PerformEffects, ExpireEffects DEF Next, Acknowledge, Replay, Conflict, Exists, Fail,
                                                   vars
<1>3. AbstractType /\ EffectsInv => OneEffectPerWindow
  BY DEF EffectsInv
<1>4. QED
  BY <1>1, <1>2, <1>3, PTL DEF Spec

\* One-step writes tell nobody of another request's side effect.
THEOREM AbstractAnswers == Spec => []AnswerIsOwn
<1> DEFINE RecordsInv ==
      \A k \in Keys : records[k].by # None => records[k] \in effects /\ Key(records[k].by) = k
<1>1. Init => AbstractType /\ RecordsInv /\ AnswerIsOwn
  BY DEF Init, AbstractType, EffectType, NoEntry, Entries, AnswerIsOwn, Open,
         Answers
<1>2. AbstractType /\ RecordsInv /\ AnswerIsOwn /\ [Next]_vars
        => (AbstractType /\ RecordsInv /\ AnswerIsOwn)'
  <2> SUFFICES ASSUME AbstractType, RecordsInv, AnswerIsOwn, [Next]_vars
               PROVE  RecordsInv' /\ AnswerIsOwn'
    BY AbstractTypeStep
  <2> DEFINE Told(a, r) == \E e \in effects : /\ e.by = a.of
                                              /\ Key(e.by) = Key(r)
                                              /\ ask[e.by].payload = ask[r].payload
  <2>1. ASSUME NEW r \in Requests, Perform(r) PROVE RecordsInv' /\ AnswerIsOwn'
    <3> DEFINE new == [by |-> r, window |-> WindowOf(r)]
    <3>1. /\ effects' = effects \cup {new}
          /\ UNCHANGED ask
          /\ \/ UNCHANGED records
             \/ Key(r) \in Keys /\ records' = [records EXCEPT ![Key(r)] = new]
          /\ UNCHANGED answer
      BY <2>1 DEF Perform, AbstractType, Asks, Key
    <3>2. RecordsInv'
      BY <3>1 DEF Key, AbstractType
    <3>3. AnswerIsOwn'
      BY <3>1 DEF AnswerIsOwn, Key
    <3>4. QED
      BY <3>2, <3>3
  <2>2. ASSUME NEW r \in Requests, Replay(r) PROVE RecordsInv' /\ AnswerIsOwn'
    <3>1. /\ UNCHANGED <<ask, records, effects>>
          /\ Key(r) \in Keys /\ records[Key(r)].by # None
          /\ ask[records[Key(r)].by].payload = ask[r].payload
          /\ \A q \in Requests : answer'[q].status = "ok" =>
               \/ answer[q].status = "ok" /\ answer'[q].of = answer[q].of
               \/ q = r /\ answer'[q].of = records[Key(r)].by
      BY <2>2 DEF Replay, Tell, AbstractType, Asks, Key, Open, Live
    <3>2. AnswerIsOwn'
      BY <3>1 DEF AnswerIsOwn, Key
    <3>3. QED
      BY <3>1, <3>2 DEF Key
  <2>3. CASE /\ UNCHANGED <<ask, records, effects>>
             /\ \A q \in Requests : answer'[q].status = "ok" => answer'[q] = answer[q]
    BY <2>3 DEF AnswerIsOwn, Key
  <2>4. ASSUME NEW r \in Requests, Conflict(r) \/ Exists(r) \/ Fail(r)
        PROVE  /\ UNCHANGED <<ask, records, effects>>
               /\ \A q \in Requests : answer'[q].status = "ok" => answer'[q] = answer[q]
    BY <2>4 DEF Conflict, Exists, Fail, Tell, AbstractType
  <2>5. ASSUME NEW r \in Requests, Acknowledge(r) PROVE RecordsInv' /\ AnswerIsOwn'
    <3>1. /\ UNCHANGED <<ask, records, effects>>
          /\ \E e \in effects : e.by = r
          /\ \A q \in Requests : answer'[q].status = "ok" =>
               \/ answer[q].status = "ok" /\ answer'[q].of = answer[q].of
               \/ q = r /\ answer'[q].of = r
      BY <2>5 DEF Acknowledge, Performed, Tell, AbstractType, Open
    <3>2. AnswerIsOwn'
      BY <3>1 DEF AnswerIsOwn, Key
    <3>3. QED
      BY <3>1, <3>2 DEF Key
  <2>6. QED
    BY <2>1, <2>2, <2>3, <2>4, <2>5 DEF Next, Expire, vars
<1>3. QED
  BY <1>1, <1>2, PTL DEF Spec

-----------------------------------------------------------------------------
(* The transactions of either endpoint, and the record of a key. *)

\* A record is of the past or of the present; what a transaction has found
\* stale stays stale.
StaleInv ==
  /\ \A k \in Keys : records[k].by = None => records[k] = NoEntry
  /\ \A k \in Keys : records[k].window <= window[k]
  /\ \A r \in Requests : seen[r] # NoEntry =>
       Keyed(r) /\ seen[r].by # None /\ seen[r].window < window[Key(r)]
  /\ \A r \in Requests : pc[r] \in {"new", "lookup"} => seen[r] = NoEntry

\* A transaction that holds a key holds it alone, and the committed record is
\* still the one it has dropped.
KeysInv ==
  /\ \A k \in Keys, r, s \in Requests : HoldsKey(r, k) /\ HoldsKey(s, k) => r = s
  /\ \A k \in Keys, r \in Requests : HoldsKey(r, k) => records[k] = seen[r]

\* Whoever a record tells of has committed.
AuthorsInv == \A k \in Keys : records[k].by # None => pc[records[k].by] \in {"refresh", "done"}

TransactionInv == TypeOK /\ StaleInv /\ KeysInv /\ AuthorsInv

\* What a step of one request does to the shared state.
LEMMA HandlerShared ==
  ASSUME TypeOK, NEW r \in Requests, Arrive(r) \/ Handle(r) \/ Abort(r)
  PROVE  /\ UNCHANGED <<ask, window>>
         /\ \/ UNCHANGED records
            \/ /\ Commit(r) /\ Keyed(r)
               /\ records' = [records EXCEPT ![Key(r)] = [by |-> r, window |-> WindowOf(r)]]
         /\ effects' \in {effects, effects \cup {[by |-> r, window |-> WindowOf(r)]}}
         /\ \/ UNCHANGED answer
            \/ \E status \in {"ok", "conflict", "exists", "error"},
                  of \in Requests \cup {None} : Tell(r, status, of)
<1>1. CASE LookupReplay(r)
  <2>1. records[Key(r)].by \in Requests \cup {None}
    BY <1>1 DEF LookupReplay, Keyed, TypeOK, Key, Asks, Entries
  <2>2. QED
    BY <1>1, <2>1 DEF LookupReplay, Answer
<1>2. CASE Commit(r)
  BY <1>2 DEF Commit, Keyed
<1>3. CASE LookupConflict(r) \/ CheckExists(r) \/ InsertRunFails(r) \/ InsertRecordFails(r)
           \/ Refresh(r) \/ Abort(r)
  BY <1>3 DEF LookupConflict, CheckExists, InsertRunFails, InsertRecordFails, Refresh, Abort,
              Answer
<1>4. CASE SaveArtifacts(r)
  BY <1>4 DEF SaveArtifacts
<1>5. CASE Arrive(r) \/ LookupFresh(r) \/ LookupStale(r) \/ DropStale(r) \/ CheckFree(r)
           \/ InsertRun(r) \/ InsertRecord(r)
  BY <1>5 DEF Arrive, LookupFresh, LookupStale, DropStale, CheckFree, InsertRun, InsertRecord
<1>6. QED
  BY <1>1, <1>2, <1>3, <1>4, <1>5 DEF Handle

\* A step of one request leaves the others where they are.
LEMMA HandlerFrame ==
  ASSUME TypeOK, NEW r \in Requests, Arrive(r) \/ Handle(r) \/ Abort(r)
  PROVE  /\ UNCHANGED <<ask, window>>
         /\ \A s \in Requests : s # r => pc'[s] = pc[s] /\ seen'[s] = seen[s]
         /\ Commit(r) \/ UNCHANGED records
  BY DEF TypeOK, Arrive, Handle, Abort, Answer, Goto, Proceed, LookupFresh,
         LookupReplay, LookupConflict, LookupStale, DropStale, CheckExists, CheckFree,
         InsertRun, InsertRunFails, SaveArtifacts, InsertRecord, InsertRecordFails, Commit,
         Committed, Refresh

\* Where a request goes once its key is seen to be free.
Served == IF Endpoint = "create" THEN "check" ELSE "save"

\* What a step of a request does to its own place and memory.
LEMMA HandlerLocal ==
  ASSUME TypeOK, NEW r \in Requests, Arrive(r) \/ Handle(r) \/ Abort(r)
  PROVE  /\ pc[r] # "done" /\ pc'[r] \in PCs /\ seen'[r] \in Entries
         /\ pc[r] = "refresh" => pc'[r] = "done"
         /\ \/ pc'[r] = "lookup" /\ pc[r] = "new" /\ seen'[r] = seen[r]
            \/ pc'[r] = "done" /\ seen'[r] = NoEntry
            \/ pc'[r] = Served /\ pc[r] = "lookup" /\ seen'[r] = seen[r]
            \/ pc'[r] = "drop" /\ LookupStale(r)
            \/ pc'[r] = Served /\ DropStale(r)
            \/ pc'[r] = "insert" /\ pc[r] = "check" /\ seen'[r] = seen[r]
            \/ pc'[r] = "record" /\ InsertRun(r) /\ seen'[r] = seen[r]
            \/ pc'[r] = "record" /\ SaveArtifacts(r) /\ pc[r] = "save" /\ seen'[r] = seen[r]
            \/ pc'[r] = "commit" /\ InsertRecord(r) /\ seen'[r] = seen[r]
            \/ pc'[r] = "refresh" /\ Commit(r) /\ seen'[r] = NoEntry
<1> USE DEF TypeOK
<1>1. CASE LookupStale(r)
  <2>1. records[Key(r)] \in Entries
    BY <1>1 DEF LookupStale, Keyed, Key, Asks
  <2>2. QED
    BY <1>1, <2>1 DEF LookupStale, Goto, PCs
<1>2. CASE Arrive(r) \/ LookupFresh(r) \/ DropStale(r) \/ CheckFree(r)
           \/ InsertRun(r) \/ InsertRecord(r) \/ SaveArtifacts(r)
  BY <1>2 DEF Arrive, Goto, Proceed, LookupFresh, DropStale, CheckFree, InsertRun,
              InsertRecord, SaveArtifacts, PCs, NoEntry, Entries, Served
<1>3. CASE pc[r] # "done" /\ \E status, of : Answer(r, status, of)
  BY <1>3 DEF Answer, Goto, PCs, NoEntry, Entries
<1>4. CASE Commit(r)
  BY <1>4 DEF Commit, Committed, Goto, PCs, NoEntry, Entries
<1>5. QED
  BY <1>1, <1>2, <1>3, <1>4
     DEF Handle, Abort, LookupReplay, LookupConflict, CheckExists, InsertRunFails,
         InsertRecordFails, Refresh, InProgress

LEMMA TypeStep ==
  ASSUME TypeOK, [ConcreteNext]_allVars
  PROVE  TypeOK'
<1>1. ASSUME NEW r \in Requests, Handle(r) \/ Arrive(r) \/ Abort(r)
      PROVE  TypeOK'
  <2>1. Key(r) \in Keys \cup {NoKey} /\ WindowOf(r) \in Nat
    BY DEF TypeOK, Key, WindowOf, Asks
  <2>2. records' \in [Keys -> Entries] /\ effects' \subseteq [by: Requests, window: Nat]
    BY <1>1, <2>1, HandlerShared DEF TypeOK, Entries
  <2>3. answer' \in [Requests -> Answers]
    BY <1>1, HandlerShared DEF TypeOK, Tell, Answers
  <2>4. /\ \E l : pc' = [pc EXCEPT ![r] = l]
        /\ UNCHANGED seen \/ \E e : seen' = [seen EXCEPT ![r] = e]
    BY <1>1 DEF Arrive, Handle, Abort, Answer, Goto, Proceed, LookupFresh,
         LookupReplay, LookupConflict, LookupStale, DropStale, CheckExists, CheckFree,
         InsertRun, InsertRunFails, SaveArtifacts, InsertRecord, InsertRecordFails, Commit,
         Committed, Refresh
  <2>5. pc' \in [Requests -> PCs] /\ seen' \in [Requests -> Entries]
    BY <1>1, <2>4, HandlerLocal DEF TypeOK
  <2>6. QED
    BY <1>1, <2>2, <2>3, <2>5, HandlerShared DEF TypeOK
<1>2. ASSUME NEW k \in Keys, RecordExpires(k) PROVE TypeOK'
  BY <1>2 DEF RecordExpires, Expire, localVars, TypeOK
<1>3. QED
  BY <1>1, <1>2 DEF ConcreteNext, allVars, TypeOK

LEMMA StaleStep ==
  ASSUME TransactionInv,
         NEW r \in Requests, Arrive(r) \/ Handle(r) \/ Abort(r)
  PROVE  StaleInv'
<1>1. /\ UNCHANGED <<ask, window>>
      /\ \A s \in Requests : s # r => pc'[s] = pc[s] /\ seen'[s] = seen[s]
      /\ Commit(r) \/ UNCHANGED records
  BY HandlerFrame DEF TransactionInv
<1>2. Keyed(r) => Key(r) \in Keys
  BY DEF Keyed, Key, TransactionInv, TypeOK, Asks
<1>3. /\ (\A k \in Keys : records[k].by = None => records[k] = NoEntry)'
      /\ (\A k \in Keys : records[k].window <= window[k])'
  <2>1. CASE UNCHANGED records
    BY <2>1, <1>1 DEF TransactionInv, StaleInv
  <2>2. CASE Commit(r) /\ Keyed(r)
    BY <2>2, <1>1, <1>2, KeysAssumption
       DEF Commit, Keyed, WindowOf, TransactionInv, TypeOK, StaleInv
  <2>3. QED
    BY <2>1, <2>2, <1>1 DEF Commit, Keyed
<1>4. /\ seen'[r] # NoEntry =>
           Keyed(r) /\ seen'[r].by # None /\ seen'[r].window < window[Key(r)]
      /\ pc'[r] \in {"new", "lookup"} => seen'[r] = NoEntry
  <2>1. CASE LookupStale(r)
    <3>1. Keyed(r) /\ records[Key(r)] # NoEntry /\ ~Live(Key(r)) /\ seen'[r] = records[Key(r)]
          /\ pc'[r] = "drop"
      BY <2>1 DEF LookupStale, Goto, TransactionInv, TypeOK
    <3>2. /\ records[Key(r)].window \in Nat /\ window[Key(r)] \in Nat
          /\ records[Key(r)].window <= window[Key(r)]
          /\ records[Key(r)].by # None
      BY <3>1, <1>2 DEF TransactionInv, TypeOK, Entries, StaleInv
    <3>3. QED
      BY <3>1, <3>2 DEF Live
  <2>2. CASE DropStale(r)
    BY <2>2 DEF DropStale, Proceed, Goto, TransactionInv, TypeOK, StaleInv
  <2>3. CASE seen'[r] = seen[r] /\ (pc'[r] = "lookup" => pc[r] = "new") /\ pc'[r] # "new"
    BY <2>3 DEF TransactionInv, StaleInv
  <2>4. CASE seen'[r] = NoEntry
    BY <2>4
  <2>5. QED
    BY <2>1, <2>2, <2>3, <2>4, HandlerLocal DEF TransactionInv, Served
<1>5. QED
  <2>1. (\A s \in Requests : seen[s] # NoEntry =>
          Keyed(s) /\ seen[s].by # None /\ seen[s].window < window[Key(s)])'
    BY <1>1, <1>4 DEF TransactionInv, StaleInv, Keyed, Key
  <2>2. (\A s \in Requests : pc[s] \in {"new", "lookup"} => seen[s] = NoEntry)'
    BY <1>1, <1>4 DEF TransactionInv, StaleInv
  <2>3. QED
    BY <1>3, <2>1, <2>2 DEF StaleInv

LEMMA KeysStep ==
  ASSUME TransactionInv,
         NEW r \in Requests, Arrive(r) \/ Handle(r) \/ Abort(r)
  PROVE  KeysInv'
<1>1. /\ UNCHANGED <<ask, window>>
      /\ \A s \in Requests : s # r => pc'[s] = pc[s] /\ seen'[s] = seen[s]
      /\ Commit(r) \/ UNCHANGED records
  BY HandlerFrame DEF TransactionInv
<1>2. \A s \in Requests, k \in Keys : s # r => (HoldsKey(s, k)' <=> HoldsKey(s, k))
  BY <1>1 DEF HoldsKey, Key
\* A key is taken only when nobody else holds it, on the record last seen.
<1>3. \A k \in Keys : HoldsKey(r, k)' =>
        \/ HoldsKey(r, k) /\ seen'[r] = seen[r]
        \/ Key(r) = k /\ KeyFree(r) /\ records[k] = seen'[r]
  <2> SUFFICES ASSUME NEW k \in Keys, HoldsKey(r, k)'
               PROVE  \/ HoldsKey(r, k) /\ seen'[r] = seen[r]
                      \/ Key(r) = k /\ KeyFree(r) /\ records[k] = seen'[r]
    OBVIOUS
  <2>1. /\ Key(r) = k /\ Keyed(r)
        /\ \/ pc'[r] = "commit"
           \/ pc'[r] \in {"check", "insert", "save", "record"} /\ seen'[r] # NoEntry
    BY <1>1, KeysAssumption DEF HoldsKey, Key, Keyed
  <2>2. CASE DropStale(r)
    <3>1. /\ KeyFree(r)
          /\ pc'[r] \in {"check", "save"}
          /\ seen'[r] = IF records[Key(r)] = seen[r] THEN seen[r] ELSE NoEntry
      BY <2>2 DEF DropStale, Proceed, Goto, TransactionInv, TypeOK
    <3>2. QED
      BY <2>1, <3>1
  <2>3. CASE InsertRecord(r) /\ seen'[r] = seen[r]
    BY <2>3, <2>1 DEF InsertRecord
  <2>4. CASE InsertRun(r) /\ pc'[r] = "record" /\ seen'[r] = seen[r]
    BY <2>4, <2>1 DEF InsertRun, HoldsKey
  <2>5. CASE /\ pc[r] \in {"lookup", "check", "save"}
             /\ pc'[r] \in {"check", "insert", "save", "record"}
             /\ seen'[r] = seen[r]
    BY <2>5, <2>1 DEF TransactionInv, StaleInv, HoldsKey
  <2>6. QED
    BY <2>1, <2>2, <2>3, <2>4, <2>5, HandlerLocal DEF TransactionInv, Served
<1>4. (\A k \in Keys, s, t \in Requests : HoldsKey(s, k) /\ HoldsKey(t, k) => s = t)'
  BY <1>2, <1>3 DEF KeyFree, TransactionInv, KeysInv
<1>5. (\A k \in Keys, s \in Requests : HoldsKey(s, k) => records[k] = seen[s])'
  <2>1. CASE UNCHANGED records
    BY <2>1, <1>1, <1>2, <1>3 DEF TransactionInv, KeysInv
  <2>2. CASE Commit(r)
    <3> SUFFICES ASSUME NEW k \in Keys, NEW s \in Requests, HoldsKey(s, k)'
                 PROVE  records'[k] = seen'[s]
      OBVIOUS
    <3>1. s # r
      BY <2>2 DEF Commit, Committed, Goto, HoldsKey, TransactionInv, TypeOK
    <3>2. HoldsKey(s, k) /\ seen'[s] = seen[s]
      BY <3>1, <1>1, <1>2
    <3>3. k # Key(r)
      BY <2>2, <3>1, <3>2 DEF Commit, HoldsKey, TransactionInv, KeysInv
    <3>4. QED
      BY <2>2, <3>2, <3>3
         DEF Commit, TransactionInv, TypeOK, KeysInv
  <2>3. QED
    BY <2>1, <2>2, <1>1
<1>6. QED
  BY <1>4, <1>5 DEF KeysInv

LEMMA AuthorsStep ==
  ASSUME TransactionInv, NEW r \in Requests, Arrive(r) \/ Handle(r) \/ Abort(r)
  PROVE  AuthorsInv'
<1> SUFFICES ASSUME NEW k \in Keys, records'[k].by # None
             PROVE  pc'[records'[k].by] \in {"refresh", "done"}
  BY DEF AuthorsInv
<1>1. CASE records'[k] = records[k]
  <2>1. records[k].by \in Requests /\ pc[records[k].by] \in {"refresh", "done"}
    BY <1>1 DEF TransactionInv, TypeOK, Entries, AuthorsInv
  <2>2. records[k].by = r => pc'[r] = "done"
    BY <2>1, HandlerLocal DEF TransactionInv
  <2>3. QED
    BY <1>1, <2>1, <2>2, HandlerFrame DEF TransactionInv
<1>2. CASE Commit(r) /\ records'[k].by = r
  BY <1>2 DEF Commit, Committed, Goto, TransactionInv, TypeOK
<1>3. QED
  BY <1>1, <1>2, HandlerShared DEF TransactionInv, TypeOK

LEMMA ExpireTransactions ==
  ASSUME TransactionInv, NEW k \in Keys, RecordExpires(k)
  PROVE  StaleInv' /\ KeysInv' /\ AuthorsInv'
<1>1. /\ window' = [window EXCEPT ![k] = window[k] + 1]
      /\ UNCHANGED <<ask, records, effects, pc, seen>>
  BY DEF RecordExpires, Expire, localVars
<1>2. \A j \in Keys : window[j] \in Nat /\ window'[j] \in Nat /\ window[j] <= window'[j]
  BY <1>1 DEF TransactionInv, TypeOK
<1>3. (\A j \in Keys : records[j].window <= window[j])'
  <2>1. \A j \in Keys : records[j].window \in Nat /\ records[j].window <= window[j]
    BY DEF TransactionInv, TypeOK, Entries, StaleInv
  <2>2. QED
    BY <1>1, <1>2, <2>1
<1>4. (\A r \in Requests : seen[r] # NoEntry =>
        Keyed(r) /\ seen[r].by # None /\ seen[r].window < window[Key(r)])'
  <2> SUFFICES ASSUME NEW r \in Requests, seen[r] # NoEntry
               PROVE  Keyed(r) /\ seen[r].by # None /\ seen[r].window < window'[Key(r)]
    BY <1>1 DEF Keyed, Key
  <2>1. Keyed(r) /\ seen[r].by # None /\ seen[r].window < window[Key(r)]
    BY DEF TransactionInv, StaleInv
  <2>2. Key(r) \in Keys /\ seen[r].window \in Nat
    BY <2>1 DEF Keyed, Key, TransactionInv, TypeOK, Asks, Entries
  <2>3. QED
    BY <1>2, <2>1, <2>2
<1>5. StaleInv'
  BY <1>1, <1>3, <1>4 DEF TransactionInv, StaleInv
<1>6. KeysInv' /\ AuthorsInv'
  BY <1>1 DEF TransactionInv, KeysInv, AuthorsInv, HoldsKey, Key
<1>7. QED
  BY <1>5, <1>6

LEMMA Transactions == ConcreteSpec => []TransactionInv
<1>1. ConcreteInit => TransactionInv
  BY KeysAssumption DEF ConcreteInit, Init, TransactionInv, TypeOK, StaleInv, KeysInv,
         AuthorsInv, NoEntry, Entries, Open, Answers, PCs, HoldsKey
<1>2. TransactionInv /\ [ConcreteNext]_allVars => TransactionInv'
  <2> SUFFICES ASSUME TransactionInv, [ConcreteNext]_allVars PROVE TransactionInv'
    OBVIOUS
  <2>1. TypeOK'
    BY TypeStep DEF TransactionInv
  <2>2. CASE UNCHANGED allVars
    BY <2>1, <2>2 DEF allVars, TransactionInv, StaleInv, KeysInv, AuthorsInv, Keyed, Key,
                HoldsKey
  <2>3. QED
    BY <2>1, <2>2, StaleStep, KeysStep, AuthorsStep, ExpireTransactions
       DEF ConcreteNext, TransactionInv
<1>3. QED
  BY <1>1, <1>2, PTL DEF ConcreteSpec

\* The state keeps its type, at either endpoint.
THEOREM TypeCorrect == ConcreteSpec => []TypeOK
<1>1. TransactionInv => TypeOK
  BY DEF TransactionInv
<1>2. QED
  BY <1>1, Transactions, PTL

\* A transaction that is about to commit has seen its key stale or unused.
LEMMA CommitNotLive ==
  ASSUME TransactionInv, NEW r \in Requests, pc[r] = "commit", Key(r) # NoKey
  PROVE  ~Live(Key(r))
<1>1. Key(r) \in Keys
  BY DEF TransactionInv, TypeOK, Asks, Key
<1>2. records[Key(r)] = seen[r]
  BY <1>1 DEF HoldsKey, TransactionInv, KeysInv
<1>3. CASE seen[r] = NoEntry
  BY <1>2, <1>3 DEF Live, NoEntry
<1>4. CASE seen[r] # NoEntry
  <2>1. seen[r].window < window[Key(r)]
    BY <1>4 DEF TransactionInv, StaleInv
  <2>2. seen[r].window \in Nat /\ window[Key(r)] \in Nat
    BY <1>1 DEF TransactionInv, TypeOK, Entries
  <2>3. QED
    BY <1>2, <2>1, <2>2 DEF Live
<1>5. QED
  BY <1>3, <1>4

\* Whoever has committed, acknowledged or not, has an effect that is not ahead of
\* its key's window, and the record as long as that window lasts.
Own(r) == pc[r] = "refresh" \/ answer[r] = [status |-> "ok", of |-> r]

OwnInv ==
  /\ \A e \in effects : Keyed(e.by) => e.window <= window[Key(e.by)]
  /\ Endpoint = "upload" => \A r \in Requests :
       /\ pc[r] \notin {"check", "insert"}
       /\ pc[r] \in {"record", "commit"} => Performed(r)
  /\ \A r \in Requests : Own(r) /\ Keyed(r) =>
       \E e \in effects : /\ e.by = r
                          /\ e.window = window[Key(r)] => records[Key(r)] = e

\* A step that is not the commit makes nobody the owner of a write.
LEMMA OwnBefore ==
  ASSUME TransactionInv, NEW r \in Requests, Arrive(r) \/ Handle(r) \/ Abort(r), ~Commit(r),
         NEW s \in Requests, Own(s)'
  PROVE  Own(s)
<1>1. CASE pc'[s] = "refresh"
  BY <1>1, HandlerFrame, HandlerLocal DEF TransactionInv, Own, Served
<1>2. CASE pc'[s] # "refresh" /\ answer'[s] = answer[s]
  BY <1>2 DEF Own
<1>3. CASE pc'[s] # "refresh" /\ answer'[s] # answer[s]
  <2>1. answer'[s] = [status |-> "ok", of |-> s]
    BY <1>3 DEF Own
  <2>2. s = r
    BY <1>3, HandlerShared DEF Tell, TransactionInv, TypeOK
  <2>3. CASE Refresh(r)
    BY <2>2, <2>3 DEF Refresh, Own
  <2>4. CASE LookupReplay(r)
    <3>1. pc[r] = "lookup" /\ Key(r) \in Keys /\ answer'[r].of = records[Key(r)].by
      BY <2>4 DEF LookupReplay, Answer, Tell, Keyed, Key, Asks, TransactionInv, TypeOK
    <3>2. records[Key(r)].by = r
      BY <2>1, <2>2, <3>1
    <3>3. pc[r] \in {"refresh", "done"}
      BY <3>1, <3>2, KeysAssumption DEF TransactionInv, AuthorsInv
    <3>4. QED
      BY <3>1, <3>3
  <2>5. CASE \E status \in {"conflict", "exists", "error"} : Answer(r, status, None)
    BY <2>1, <2>2, <2>5 DEF Answer, Tell, TransactionInv, TypeOK
  <2>6. CASE UNCHANGED answer
    BY <1>3, <2>6
  <2>7. QED
    BY <2>3, <2>4, <2>5, <2>6
       DEF Arrive, Handle, Abort, LookupFresh, LookupConflict, LookupStale, DropStale,
           CheckExists, CheckFree, InsertRun, InsertRunFails, SaveArtifacts, InsertRecord,
           InsertRecordFails
<1>4. QED
  BY <1>1, <1>2, <1>3

LEMMA OwnStep ==
  ASSUME TransactionInv, OwnInv, NEW r \in Requests, Arrive(r) \/ Handle(r) \/ Abort(r)
  PROVE  OwnInv'
<1> DEFINE new == [by |-> r, window |-> WindowOf(r)]
<1>1. /\ UNCHANGED <<ask, window>>
      /\ \A s \in Requests : s # r => pc'[s] = pc[s]
      /\ Commit(r) \/ UNCHANGED records
      /\ effects' \in {effects, effects \cup {new}}
  BY HandlerFrame, HandlerShared DEF TransactionInv
<1>2. /\ effects \subseteq effects'
      /\ \A s \in Requests : Key(s)' = Key(s) /\ (Keyed(s)' <=> Keyed(s))
      /\ \A s \in Requests : Performed(s) => Performed(s)'
  BY <1>1 DEF Key, Keyed, Performed
<1>3. \A s \in Requests : Keyed(s) => Key(s) \in Keys /\ WindowOf(s) = window[Key(s)]
                                      /\ window[Key(s)] \in Nat
  BY DEF Keyed, Key, WindowOf, TransactionInv, TypeOK, Asks
<1>4. (\A e \in effects : Keyed(e.by) => e.window <= window[Key(e.by)])'
  <2> SUFFICES ASSUME NEW e \in effects', Keyed(e.by)
               PROVE  e.window <= window[Key(e.by)]
    BY <1>1 DEF Keyed, Key
  <2>1. CASE e \in effects
    BY <2>1 DEF OwnInv
  <2>2. CASE e = new
    BY <2>2, <1>3
  <2>3. QED
    BY <2>1, <2>2, <1>1
<1>5. ASSUME Endpoint = "upload", NEW s \in Requests
      PROVE  /\ pc'[s] \notin {"check", "insert"}
             /\ pc'[s] \in {"record", "commit"} => Performed(s)'
  <2>1. CASE s # r
    BY <1>1, <1>2, <1>5, <2>1 DEF OwnInv
  <2>2. CASE SaveArtifacts(r) /\ s = r
    <3>1. new \in effects' /\ pc'[s] = "record"
      BY <2>2 DEF SaveArtifacts, Goto, TransactionInv, TypeOK
    <3>2. QED
      BY <2>2, <3>1 DEF Performed
  <2>3. CASE s = r /\ ~SaveArtifacts(r)
    BY <1>2, <1>5, <2>3, HandlerLocal
       DEF OwnInv, TransactionInv, Served, InsertRun, InsertRecord
  <2>4. QED
    BY <2>1, <2>2, <2>3
<1>6. ASSUME NEW s \in Requests, Own(s)', Keyed(s)
      PROVE  \E e \in effects' : /\ e.by = s
                                 /\ e.window = window[Key(s)] => records'[Key(s)] = e
  <2>1. CASE ~Commit(r)
    <3>1. PICK e \in effects : e.by = s /\ (e.window = window[Key(s)] => records[Key(s)] = e)
      BY <1>6, <2>1, OwnBefore DEF OwnInv
    <3>2. QED
      BY <1>1, <1>2, <2>1, <3>1
  <2>2. CASE Commit(r) /\ s = r
    <3>1. records' = [records EXCEPT ![Key(r)] = new]
      BY <1>6, <2>2 DEF Commit, Keyed
    <3>2. PICK e \in effects' : e.by = r
      <4>1. CASE Endpoint = "upload"
        BY <1>2, <2>2, <4>1 DEF Commit, OwnInv, Performed
      <4>2. CASE Endpoint # "upload"
        <5>1. new \in effects' /\ new.by = r
          BY <2>2, <4>2 DEF Commit
        <5>2. QED
          BY <5>1
      <4>3. QED
        BY <4>1, <4>2
    <3>3. e = [by |-> r, window |-> e.window]
      BY <1>1, <3>2 DEF TransactionInv, TypeOK
    <3>4. e.window = window[Key(r)] => records'[Key(r)] = e
      BY <1>3, <1>6, <2>2, <3>1, <3>3 DEF TransactionInv, TypeOK
    <3>5. QED
      BY <2>2, <3>2, <3>4
  <2>3. CASE Commit(r) /\ s # r
    <3>1. Own(s)
      BY <1>1, <1>6, <2>3 DEF Commit, Own
    <3>2. PICK e \in effects : e.by = s /\ (e.window = window[Key(s)] => records[Key(s)] = e)
      BY <1>6, <3>1 DEF OwnInv
    <3>3. CASE Key(s) # Key(r) \/ ~Keyed(r)
      <4>1. records'[Key(s)] = records[Key(s)]
        BY <1>3, <1>6, <2>3, <3>3 DEF Commit, Keyed, TransactionInv, TypeOK
      <4>2. QED
        BY <1>2, <3>2, <4>1
    <3>4. CASE Key(s) = Key(r) /\ Keyed(r)
      <4>1. ~Live(Key(s))
        BY <2>3, <3>4, CommitNotLive DEF Commit, Keyed
      <4>2. e.window # window[Key(s)]
        BY <3>2, <4>1, KeysAssumption DEF Live
      <4>3. QED
        BY <1>2, <3>2, <4>2
    <3>5. QED
      BY <3>3, <3>4
  <2>4. QED
    BY <2>1, <2>2, <2>3
<1>7. (\A s \in Requests : Own(s) /\ Keyed(s) =>
         \E e \in effects : /\ e.by = s
                            /\ e.window = window[Key(s)] => records[Key(s)] = e)'
  BY <1>1, <1>2, <1>6
<1>8. QED
  BY <1>4, <1>5, <1>7 DEF OwnInv

LEMMA OwnExpires ==
  ASSUME TransactionInv, OwnInv, NEW k \in Keys, RecordExpires(k)
  PROVE  OwnInv'
<1>1. /\ window' = [window EXCEPT ![k] = window[k] + 1]
      /\ UNCHANGED <<ask, records, effects, answer, pc, seen>>
  BY DEF RecordExpires, Expire, localVars
<1>2. \A j \in Keys : window[j] \in Nat /\ window'[j] \in Nat
                      /\ (window'[j] = window[j] \/ window[j] < window'[j])
  BY <1>1 DEF TransactionInv, TypeOK
<1>3. \A e \in effects : e.by \in Requests /\ e.window \in Nat
  BY DEF TransactionInv, TypeOK
<1>4. \A r \in Requests : Keyed(r) => Key(r) \in Keys
  BY DEF Keyed, Key, TransactionInv, TypeOK, Asks
<1>5. \A r \in Requests : /\ Key(r)' = Key(r) /\ (Keyed(r)' <=> Keyed(r))
                          /\ (Own(r)' <=> Own(r)) /\ (Performed(r)' <=> Performed(r))
  BY <1>1 DEF Key, Keyed, Own, Performed
<1>6. \A e \in effects : Keyed(e.by) => e.window <= window'[Key(e.by)]
  BY <1>2, <1>3, <1>4 DEF OwnInv
<1>7. ASSUME NEW r \in Requests, Own(r), Keyed(r)
      PROVE  \E e \in effects : /\ e.by = r
                                /\ e.window = window'[Key(r)] => records[Key(r)] = e
  <2>1. PICK e \in effects : e.by = r /\ (e.window = window[Key(r)] => records[Key(r)] = e)
    BY <1>7 DEF OwnInv
  <2>2. e.window <= window[Key(r)]
    BY <1>7, <2>1 DEF OwnInv
  <2>3. QED
    BY <1>2, <1>3, <1>4, <1>7, <2>1, <2>2
<1>8. QED
  BY <1>1, <1>3, <1>5, <1>6, <1>7 DEF OwnInv

LEMMA Owners == ConcreteSpec => []OwnInv
<1>1. ConcreteInit => OwnInv
  BY DEF ConcreteInit, Init, OwnInv, Own, Open
<1>2. TransactionInv /\ OwnInv /\ [ConcreteNext]_allVars => OwnInv'
  <2> SUFFICES ASSUME TransactionInv, OwnInv, [ConcreteNext]_allVars PROVE OwnInv'
    OBVIOUS
  <2>1. CASE UNCHANGED allVars
    BY <2>1 DEF allVars, OwnInv, Own, Performed, Keyed, Key
  <2>2. QED
    BY <2>1, OwnStep, OwnExpires DEF ConcreteNext
<1>3. QED
  BY <1>1, <1>2, Transactions, PTL DEF ConcreteSpec

\* Creates and uploads alike, whatever expires, fails or is retried while it is
\* in progress, and whichever answers are lost: an acknowledged write holds the
\* record of its key until that record expires.
THEOREM AckCorrect == ConcreteSpec => []AckHoldsRecord
<1>1. OwnInv => AckHoldsRecord
  BY DEF OwnInv, Own, AckHoldsRecord
<1>2. QED
  BY <1>1, Owners, PTL

-----------------------------------------------------------------------------
(* The transactions of create_run are one-step writes. *)

\* A transaction that has inserted a run is the only one with that id, and the
\* id is not taken; a create never writes to the artifact store, and has performed
\* its effect exactly if it has committed.
RunsInv ==
  /\ \A r, s \in Requests :
       /\ pc[r] \in {"record", "commit"}
       /\ pc[s] \in {"record", "commit"}
       /\ RunOf(r) = RunOf(s)
       => r = s
  /\ \A r \in Requests : pc[r] \in {"record", "commit"} => RunOf(r) \notin Runs
  /\ \A r \in Requests : pc[r] # "save"
  /\ \A e \in effects : pc[e.by] \in {"refresh", "done"}
  /\ \A r \in Requests : pc[r] = "refresh" => Performed(r)
  /\ \A r \in Requests : pc[r] # "done" => answer[r] = Open

\* Every step of a handler is a step of KeyedWrites or none.
LEMMA StepSimulation ==
  ASSUME Endpoint = "create", TransactionInv, RunsInv, [ConcreteNext]_allVars
  PROVE  [Next]_vars
<1>0. \A r \in Requests : pc[r] \notin {"refresh", "done"} => ~Performed(r)
  BY DEF RunsInv, Performed
<1>1. ASSUME NEW r \in Requests, LookupReplay(r) PROVE Replay(r)
  BY <1>0, <1>1 DEF LookupReplay, Replay, Answer, Keyed, SameRequest, Fingerprint
<1>2. ASSUME NEW r \in Requests, LookupConflict(r) PROVE Conflict(r)
  BY <1>0, <1>2 DEF LookupConflict, Conflict, Answer, Keyed, SameRequest, Fingerprint
<1>3. ASSUME NEW r \in Requests, CheckExists(r) PROVE Exists(r)
  BY <1>0, <1>3 DEF CheckExists, Exists, Answer
<1>4. ASSUME NEW r \in Requests, InsertRunFails(r) \/ InsertRecordFails(r) \/ Abort(r)
      PROVE  Fail(r)
  BY <1>4 DEF InsertRunFails, InsertRecordFails, Abort, Fail, Answer
<1>5. ASSUME NEW r \in Requests, Commit(r) PROVE Perform(r)
  <2>1. RunOf(r) \notin Runs /\ ~Performed(r) /\ answer[r] = Open
    BY <1>0, <1>5 DEF Commit, RunsInv
  <2>2. Key(r) # NoKey => ~Live(Key(r))
    BY <1>5, CommitNotLive DEF Commit
  <2>3. QED
    BY <1>5, <2>1, <2>2 DEF Commit, Perform
<1>6. ASSUME NEW r \in Requests, Refresh(r) PROVE Acknowledge(r)
  BY <1>6 DEF Refresh, Acknowledge, Answer, RunsInv
<1>7. ASSUME NEW k \in Keys, RecordExpires(k) PROVE Expire(k)
  BY <1>7 DEF RecordExpires
<1>8. ASSUME NEW r \in Requests, SaveArtifacts(r) PROVE FALSE
  BY <1>8 DEF SaveArtifacts, RunsInv
<1>9. QED
  BY <1>1, <1>2, <1>3, <1>4, <1>5, <1>6, <1>7, <1>8
     DEF ConcreteNext, Handle, Next, Arrive, LookupFresh, LookupStale, DropStale, CheckFree,
         InsertRun, SaveArtifacts, InsertRecord, vars, allVars

LEMMA RunsStep ==
  ASSUME Endpoint = "create", TransactionInv, RunsInv,
         NEW r \in Requests, Arrive(r) \/ Handle(r) \/ Abort(r)
  PROVE  RunsInv'
<1>1. /\ UNCHANGED <<ask, window>>
      /\ \A s \in Requests : s # r => pc'[s] = pc[s] /\ seen'[s] = seen[s]
      /\ pc[r] # "save"
  BY HandlerFrame DEF TransactionInv, RunsInv
<1>2. pc'[r] # "save"
  BY <1>1, HandlerLocal DEF TransactionInv, Served
<1>3. \A s \in Requests : RunOf(s)' = RunOf(s)
  BY <1>1 DEF RunOf
<1>4. pc'[r] \in {"record", "commit"} =>
        \/ pc[r] \in {"record", "commit"}
        \/ RunFree(r) /\ RunOf(r) \notin Runs
  BY <1>1, HandlerLocal DEF TransactionInv, InsertRun, InsertRecord, Served
<1>5. (\A s, t \in Requests : /\ pc[s] \in {"record", "commit"}
                              /\ pc[t] \in {"record", "commit"}
                              /\ RunOf(s) = RunOf(t)
                              => s = t)'
  BY <1>1, <1>3, <1>4 DEF RunFree, HoldsRun, RunsInv
<1>6. (\A s \in Requests : pc[s] \in {"record", "commit"} => RunOf(s) \notin Runs)'
  <2>1. CASE UNCHANGED effects
    BY <2>1, <1>1, <1>3, <1>4 DEF Runs, RunOf, RunsInv
  <2>2. CASE Commit(r)
    <3>1. /\ effects' = effects \cup {[by |-> r, window |-> WindowOf(r)]}
          /\ pc[r] = "commit" /\ pc'[r] = "refresh"
      BY <2>2 DEF Commit, Committed, Goto, TransactionInv, TypeOK
    <3>2. Runs' = Runs \cup {RunOf(r)}
      <4>1. Runs' = {RunOf(e.by) : e \in effects'}
        BY <1>1 DEF Runs, RunOf
      <4>2. PICK new : new.by = r /\ effects' = effects \cup {new}
        BY <3>1
      <4>3. \A x : x \in Runs' <=> x \in Runs \/ x = RunOf(r)
        BY <4>1, <4>2 DEF Runs
      <4>4. QED
        BY <4>3
    <3>3. QED
      BY <3>1, <3>2, <1>1, <1>3 DEF RunsInv
  <2>3. QED
    BY <2>1, <2>2
       DEF Arrive, Handle, Abort, Answer, LookupFresh, LookupReplay, LookupConflict,
           LookupStale, DropStale, CheckExists, CheckFree, InsertRun, InsertRunFails,
           SaveArtifacts, InsertRecord, InsertRecordFails, Refresh, RunsInv
<1>7. /\ (\A e \in effects : pc[e.by] \in {"refresh", "done"})'
      /\ (\A s \in Requests : pc[s] = "refresh" => Performed(s))'
  <2>1. CASE Commit(r)
    <3>1. /\ effects' = effects \cup {[by |-> r, window |-> WindowOf(r)]}
          /\ pc'[r] = "refresh"
      BY <2>1 DEF Commit, Committed, Goto, TransactionInv, TypeOK
    <3>2. \E e \in effects' : e.by = r
      <4> DEFINE new == [by |-> r, window |-> WindowOf(r)]
      <4>1. new \in effects' /\ new.by = r
        BY <3>1
      <4>2. QED
        BY <4>1
    <3>3. \A s \in Requests : s # r /\ pc[s] = "refresh" => \E e \in effects' : e.by = s
      BY <3>1 DEF RunsInv, Performed
    <3>4. QED
      BY <1>1, <3>1, <3>2, <3>3 DEF RunsInv, Performed, TransactionInv, TypeOK
  <2>2. CASE ~Commit(r)
    <3>1. UNCHANGED effects
      BY <1>1, <2>2
         DEF Arrive, Handle, Abort, LookupFresh, LookupReplay, LookupConflict,
             LookupStale, DropStale, CheckExists, CheckFree, InsertRun, InsertRunFails,
             SaveArtifacts, InsertRecord, InsertRecordFails, Refresh
    <3>2. /\ pc'[r] # "refresh" /\ pc[r] # "done"
          /\ pc[r] = "refresh" => pc'[r] = "done"
      BY <2>2, HandlerLocal DEF TransactionInv, Served
    <3>3. QED
      BY <1>1, <3>1, <3>2 DEF RunsInv, Performed, TransactionInv, TypeOK
  <2>3. QED
    BY <2>1, <2>2
<1>8. (\A s \in Requests : pc[s] # "done" => answer[s] = Open)'
  <2>1. \A s \in Requests : s # r => answer'[s] = answer[s]
    BY HandlerShared DEF Tell, TransactionInv, TypeOK
  <2>2. pc'[r] # "done" => UNCHANGED answer
    BY DEF Arrive, Handle, Abort, Answer, Goto, LookupFresh, LookupReplay, LookupConflict,
           LookupStale, DropStale, CheckExists, CheckFree, InsertRun, InsertRunFails,
           SaveArtifacts, InsertRecord, InsertRecordFails, Commit, Refresh, TransactionInv,
           TypeOK
  <2>3. pc[r] # "done"
    BY HandlerLocal DEF TransactionInv
  <2>4. QED
    BY <1>1, <2>1, <2>2, <2>3 DEF RunsInv
<1>9. QED
  BY <1>1, <1>2, <1>5, <1>6, <1>7, <1>8 DEF RunsInv

LEMMA CreateRuns == Endpoint = "create" => (ConcreteSpec => []RunsInv)
<1> SUFFICES ASSUME Endpoint = "create" PROVE ConcreteSpec => []RunsInv
  OBVIOUS
<1>1. ConcreteInit => RunsInv
  BY DEF ConcreteInit, Init, RunsInv, Runs
<1>2. TransactionInv /\ RunsInv /\ [ConcreteNext]_allVars => RunsInv'
  <2> SUFFICES ASSUME TransactionInv, RunsInv, [ConcreteNext]_allVars PROVE RunsInv'
    OBVIOUS
  <2>1. CASE UNCHANGED <<ask, effects, pc, answer>>
    BY <2>1 DEF RunsInv, RunOf, Runs, Performed
  <2>2. QED
    BY <2>1, RunsStep DEF ConcreteNext, RecordExpires, Expire, localVars, allVars
<1>3. QED
  BY <1>1, <1>2, Transactions, PTL DEF ConcreteSpec

\* create_run, interleaved statement by statement with any number of racing and
\* retrying requests, failing anywhere, implements one-step writes.
THEOREM CreateRefines == Endpoint = "create" => (ConcreteSpec => AtomicWrites)
<1> SUFFICES ASSUME Endpoint = "create" PROVE ConcreteSpec => AtomicWrites
  OBVIOUS
<1>1. ConcreteInit => Init
  BY DEF ConcreteInit
<1>2. TransactionInv /\ RunsInv /\ [ConcreteNext]_allVars => [Next]_vars
  BY StepSimulation
<1>3. ConcreteSpec => []RunsInv
  BY CreateRuns
<1>4. QED
  BY <1>1, <1>2, <1>3, Transactions, PTL DEF ConcreteSpec, Spec, AtomicWrites

\* A retried create never makes a second run while its record lives.
THEOREM CreateOnce == Endpoint = "create" => (ConcreteSpec => []OneEffectPerWindow)
<1> SUFFICES ASSUME Endpoint = "create" PROVE ConcreteSpec => []OneEffectPerWindow
  OBVIOUS
<1>1. QED
  BY CreateRefines, AbstractOnce, PTL DEF AtomicWrites

\* Nobody is answered with the run of somebody else's request.
THEOREM CreateAnswers == Endpoint = "create" => (ConcreteSpec => []AnswerIsOwn)
<1> SUFFICES ASSUME Endpoint = "create" PROVE ConcreteSpec => []AnswerIsOwn
  OBVIOUS
<1>1. QED
  BY CreateRefines, AbstractAnswers, PTL DEF AtomicWrites
=============================================================================
