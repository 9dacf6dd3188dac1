---------------------------- MODULE KeyedWrites ----------------------------
(***************************************************************************)
(* What an Idempotency-Key promises, as the module docstring of            *)
(* idempotency.py puts it: a retried write replays the original response   *)
(* instead of performing the side effect twice, a key reused for another   *)
(* request is a conflict, and a record past its TTL is treated as absent.  *)
(*                                                                         *)
(* A write is performed and recorded in ONE step; its answer is another,   *)
(* and may be lost: then the client is told "error" of a write that was    *)
(* performed, and it is for the record to tell its retry.  Every other     *)
(* request is served in one step.  A record is scoped to principal, method *)
(* and path, so one principal at one path is the whole story.              *)
(***************************************************************************)
EXTENDS Naturals

CONSTANTS
  Requests,   \* write requests; a retry is another element
  Keys,       \* Idempotency-Key values
  NoKey,      \* a request without the header
  Payloads,   \* request bodies
  Ids,        \* run ids a body may name
  NoId,       \* a body that names no id: the server generates one
  IdOf,       \* IdOf[p]: the id the body p names
  None,       \* nobody
  MaxWindow   \* bound: how often the record of a key expires

ASSUME IdsAssumption ==
  /\ IdOf \in [Payloads -> Ids \cup {NoId}]
  /\ NoId \notin Ids
  /\ Requests \cap Ids = {}    \* a generated id is nobody else's
ASSUME KeysAssumption == NoKey \notin Keys /\ None \notin Requests
ASSUME WindowAssumption == MaxWindow \in Nat

VARIABLES
  ask,       \* ask[r]: the key and the payload of request r
  window,    \* window[k]: how many TTL windows of key k have elapsed
  records,   \* records[k]: the idempotency record of key k
  effects,   \* the side effects performed: by which request, in which window
  answer     \* answer[r]: what request r was told

vars == <<ask, window, records, effects, answer>>

Asks == [key: Keys \cup {NoKey}, payload: Payloads]
NoEntry == [by |-> None, window |-> 0]
Entries == [by: Requests \cup {None}, window: Nat]
Answers == [status: {"open", "ok", "conflict", "exists", "error"}, of: Requests \cup {None}]
Open == [status |-> "open", of |-> None]

\* A record is live in the window it was created in.
Live(k) == records[k].by # None /\ records[k].window = window[k]

Key(r) == ask[r].key
WindowOf(r) == IF Key(r) = NoKey THEN 0 ELSE window[Key(r)]

\* The row a create makes: the id it names, or one nobody else has.
RunOf(r) == IF IdOf[ask[r].payload] = NoId THEN r ELSE IdOf[ask[r].payload]
Runs == {RunOf(e.by) : e \in effects}

Performed(r) == \E e \in effects : e.by = r

Tell(r, status, of) ==
  /\ answer[r] = Open
  /\ answer' = [answer EXCEPT ![r] = [status |-> status, of |-> of]]

Init ==
  /\ ask \in [Requests -> Asks]
  /\ window = [k \in Keys |-> 0]
  /\ records = [k \in Keys |-> NoEntry]
  /\ effects = {}
  /\ answer = [r \in Requests |-> Open]

\* The side effect and its record.
Perform(r) ==
  /\ answer[r] = Open /\ ~Performed(r)
  /\ Key(r) # NoKey => ~Live(Key(r))
  /\ RunOf(r) \notin Runs
  /\ effects' = effects \cup {[by |-> r, window |-> WindowOf(r)]}
  /\ records' = IF Key(r) = NoKey THEN records
                ELSE [records EXCEPT ![Key(r)] = [by |-> r, window |-> WindowOf(r)]]
  /\ UNCHANGED <<ask, window, answer>>

Acknowledge(r) ==
  /\ Performed(r)
  /\ Tell(r, "ok", r)
  /\ UNCHANGED <<ask, window, records, effects>>

Replay(r) ==
  /\ ~Performed(r)
  /\ Key(r) # NoKey /\ Live(Key(r))
  /\ ask[records[Key(r)].by].payload = ask[r].payload
  /\ Tell(r, "ok", records[Key(r)].by)
  /\ UNCHANGED <<ask, window, records, effects>>

Conflict(r) ==
  /\ ~Performed(r)
  /\ Key(r) # NoKey /\ Live(Key(r))
  /\ ask[records[Key(r)].by].payload # ask[r].payload
  /\ Tell(r, "conflict", None)
  /\ UNCHANGED <<ask, window, records, effects>>

Exists(r) ==
  /\ ~Performed(r)
  /\ RunOf(r) \in Runs
  /\ Tell(r, "exists", None)
  /\ UNCHANGED <<ask, window, records, effects>>

\* Before anything is performed, or between the write and its answer.
Fail(r) ==
  /\ Tell(r, "error", None)
  /\ UNCHANGED <<ask, window, records, effects>>

Expire(k) ==
  /\ Live(k)
  /\ window[k] < MaxWindow
  /\ window' = [window EXCEPT ![k] = @ + 1]
  /\ UNCHANGED <<ask, records, effects, answer>>

Next ==
  \/ \E r \in Requests : \/ Perform(r) \/ Acknowledge(r) \/ Fail(r)
                          \/ Replay(r) \/ Conflict(r) \/ Exists(r)
  \/ \E k \in Keys : Expire(k)

Spec == Init /\ [][Next]_vars

\* A key performs its side effect at most once per window: a retry inside the
\* TTL never creates a second run, however it is interleaved with the original.
OneEffectPerWindow ==
  \A d, e \in effects :
    Key(d.by) = Key(e.by) /\ Key(d.by) # NoKey /\ d.window = e.window => d = e

\* Whoever is told "ok" is told of a side effect that was performed, under its
\* own key and for the same body as its own.
AnswerIsOwn ==
  \A r \in Requests : answer[r].status = "ok" =>
    \E e \in effects :
      /\ e.by = answer[r].of
      /\ Key(e.by) = Key(r)
      /\ ask[e.by].payload = ask[r].payload
=============================================================================
