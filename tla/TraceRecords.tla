---------------------------- MODULE TraceRecords ----------------------------
(***************************************************************************)
(* From the NDJSON of a trace artifact to what the run viewer shows of it: *)
(* parseTraceNdjson (lib/api.ts), the normalisation of lib/trace.ts and    *)
(* the accessors of step-utils.ts.                                         *)
(*                                                                         *)
(* A line is Broken (it does not parse) or a record [steps, t, step,       *)
(* reward, events]; a field is Absent, Junk (of a type the code does not   *)
(* take) or a value.  An event is one of EventNames or Junk.  The steps of *)
(* an episode are such records, of which the code does not read the steps. *)
(***************************************************************************)
EXTENDS Integers, SequencesExt

CONSTANTS
  Broken, Absent, Junk,
  EventNames,
  SuccessNames,   \* the event names SUCCESS_EVENT matches
  FailureNames    \* those FAILURE_EVENT matches; a name may be in both

ASSUME RecordsAssumption == Absent \notin Int /\ Junk \notin Int

LineRecords(Steps) ==
  LET Field == Int \cup {Absent, Junk}
  IN [steps: Steps, t: Field, step: Field, reward: Field, events: Seq(EventNames \cup {Junk})]

StepRecords == LineRecords({Absent})
TraceLines == {Broken} \cup LineRecords({Absent} \cup Seq(StepRecords))

\* The loops of the code are functions of how many turns they made.

\* filter: the elements of s that are in S, in their order.
Keep(acc, x, S) == IF x \in S THEN Append(acc, x) ELSE acc

Only(s, S) ==
  LET kept[i \in 0 .. Len(s)] == IF i = 0 THEN <<>> ELSE Keep(kept[i - 1], s[i], S)
  IN kept[Len(s)]

Total(counts) ==
  LET sum[i \in 0 .. Len(counts)] == IF i = 0 THEN 0 ELSE sum[i - 1] + counts[i]
  IN sum[Len(counts)]

ParseTrace(lines) == Only(lines, ToSet(lines) \ {Broken})

Shaped(record) == record.steps # Absent

\* t, else step, else the position; a value that is not a number is replaced
\* by the position, and no other field is tried.
StepTime(record, i) ==
  LET given == IF record.t # Absent THEN record.t ELSE record.step IN
  IF given \in {Absent, Junk} THEN i ELSE given

NormalizeStep(record, i) ==
  [t      |-> StepTime(record, i),
   reward |-> IF record.reward = Junk THEN Absent ELSE record.reward,
   events |-> Only(record.events, ToSet(record.events) \ {Junk})]

NormalizeSteps(records) == [i \in 1 .. Len(records) |-> NormalizeStep(records[i], i - 1)]

\* One record without steps makes the whole trace one flat episode.
NormalizeEpisodes(trace) ==
  IF \A i \in 1 .. Len(trace) : Shaped(trace[i])
  THEN [e \in 1 .. Len(trace) |-> NormalizeSteps(trace[e].steps)]
  ELSE <<NormalizeSteps(trace)>>

StepCounts(episodes) == [e \in 1 .. Len(episodes) |-> Len(episodes[e])]

ExtractEvents(episodes) ==
  FlattenSeq([e \in 1 .. Len(episodes) |->
    FlattenSeq([s \in 1 .. Len(episodes[e]) |->
      [n \in 1 .. Len(episodes[e][s].events) |->
        [t |-> episodes[e][s].t, name |-> episodes[e][s].events[n]]]])])

EventTone(name) ==
  IF name \in SuccessNames THEN "success"
  ELSE IF name \in FailureNames THEN "danger" ELSE "neutral"

HasTone(step, tone) == \E n \in DOMAIN step.events : EventTone(step.events[n]) = tone

\* MUTANT: an episode is taken for a success by its last step only.
SucceededLast(steps) == steps # <<>> /\ HasTone(steps[Len(steps)], "success")

EpisodeSucceeded(steps) == \E s \in DOMAIN steps : HasTone(steps[s], "success")

Worth(step) == IF step.reward = Absent THEN 0 ELSE step.reward

CumulativeReturns(steps) ==
  LET acc[s \in 0 .. Len(steps)] == IF s = 0 THEN 0 ELSE acc[s - 1] + Worth(steps[s])
  IN [s \in 1 .. Len(steps) |-> acc[s]]

\* The rewards that are there, if one is.
EpisodeReturn(steps) ==
  IF \A s \in DOMAIN steps : steps[s].reward = Absent THEN Absent
  ELSE Total([s \in 1 .. Len(steps) |-> Worth(steps[s])])

\* The panel of the selected step: what it says of the step's place, its reward,
\* the return so far, and which of its events carry the target of a goal.
StepDetail(steps, i) ==
  [place  |-> <<i, Len(steps)>>,
   reward |-> steps[i].reward,
   return |-> CumulativeReturns(steps)[i],
   goals  |-> Only(steps[i].events, {e \in ToSet(steps[i].events) : EventTone(e) = "success"})]

\* The bucket of the step strip that starts at `start`: green if it holds a
\* success, else red for a failure or for a negative peak, the last reward of
\* the greatest magnitude.
Magnitude(step) == IF Worth(step) < 0 THEN 0 - Worth(step) ELSE Worth(step)

BarTone(steps, start, size) ==
  LET bucket == {s \in DOMAIN steps : start < s /\ s <= start + size}
      rewarded == {s \in bucket : steps[s].reward # Absent}
      peaks == {s \in rewarded : \A r \in rewarded :
                  \/ Magnitude(steps[r]) < Magnitude(steps[s])
                  \/ Magnitude(steps[r]) = Magnitude(steps[s]) /\ r <= s}
  IN IF \E s \in bucket : HasTone(steps[s], "success") THEN "success"
     ELSE IF \E s \in bucket : HasTone(steps[s], "danger") THEN "danger"
     ELSE IF \E s \in peaks : steps[s].reward < 0 THEN "danger" ELSE "accent"
=============================================================================
