------------------------- MODULE RateLimiterProofs -------------------------
(***************************************************************************)
(* For any number of processes, calls and keys, any limit and any window:  *)
(* each window admits at most its limit in any span of its length, and a   *)
(* process rejects only what has a full window before it.                  *)
(***************************************************************************)
EXTENDS RateLimiter, FiniteSetTheorems, TLAPS

-----------------------------------------------------------------------------
(* Sequences and their elements. *)

Elements(b) == {b[i] : i \in 1 .. Len(b)}

Injective(b) == \A i, j \in 1 .. Len(b) : b[i] = b[j] => i = j

\* What is left of a deque when n hits were popped.
LEMMA TailIs ==
  ASSUME NEW S, NEW b \in Seq(S), NEW n \in 0 .. Len(b)
  PROVE  /\ SubSeq(b, n + 1, Len(b)) \in Seq(S)
         /\ Len(SubSeq(b, n + 1, Len(b))) = Len(b) - n
         /\ \A i \in 1 .. Len(b) - n : SubSeq(b, n + 1, Len(b))[i] = b[n + i]
  OBVIOUS

\* A sequence has at most as many elements as places, and as many when no two
\* places hold the same one.
LEMMA ElementsCount ==
  ASSUME NEW S, NEW b \in Seq(S)
  PROVE  /\ IsFiniteSet(Elements(b))
         /\ Cardinality(Elements(b)) <= Len(b)
         /\ Injective(b) => Cardinality(Elements(b)) = Len(b)
<1>1. Len(b) \in Nat /\ IsFiniteSet(1 .. Len(b)) /\ Cardinality(1 .. Len(b)) = Len(b)
  <2>1. Len(b) \in Nat
    OBVIOUS
  <2>2. QED
    BY <2>1, FS_Interval, 1 \in Int, Len(b) \in Int
<1> DEFINE f == [i \in 1 .. Len(b) |-> b[i]]
<1>2. f \in Surjection(1 .. Len(b), Elements(b))
  BY DEF Surjection, Elements
<1>3. Injective(b) => f \in Injection(1 .. Len(b), Elements(b))
  BY <1>2 DEF Injective, Injection, IsInjective, Surjection
<1>4. QED
  BY <1>1, <1>2, <1>3, FS_Surjection

-----------------------------------------------------------------------------
(* Typing. *)

LEMMA CallUpdate ==
  ASSUME TypeOK, NEW h \in Hits, NEW c \in Calls, hit' = [hit EXCEPT ![h] = c]
  PROVE  hit' \in [Hits -> Calls]
  BY DEF TypeOK

LEMMA EvictedType ==
  ASSUME NEW buckets \in [Keys -> Seq(Hits)], NEW t
  PROVE  Evicted(buckets, t) \in [Keys -> Seq(Hits)]
  BY DEF Evicted

LEMMA InsertedType ==
  ASSUME TypeOK, NEW h \in Hits, hit[h].pc = "timed", hit[h].key \in Keys
  PROVE  Inserted(h) \in SUBSET Members
  BY DEF TypeOK, Inserted, Member, Members, Calls

\* A call that has begun is on a process and about a key.
Begun == \A h \in Hits : hit[h].pc # "new" => hit[h].on \in Servers /\ hit[h].key \in Keys

LEMMA TypeStep ==
  ASSUME TypeOK, Begun, [Next]_vars
  PROVE  TypeOK' /\ Begun'
<1> USE TimesAssumption, PlacesAssumption
<1>1. ASSUME NEW h \in Hits, NEW s \in Servers, NEW k \in Keys, ReadClock(h, s, k)
      PROVE  TypeOK' /\ Begun'
  <2>1. drawn[s] \in Nat /\ now \in Nat
    BY DEF TypeOK
  <2>2. [pc |-> "timed", on |-> s, key |-> k, at |-> now, count |-> drawn[s], by |-> Nobody]
          \in Calls
    BY <2>1 DEF Calls
  <2>3. hit' \in [Hits -> Calls]
    BY <1>1, <2>2, CallUpdate DEF ReadClock
  <2>4. drawn' \in [Servers -> Nat]
    BY <1>1, <2>1 DEF ReadClock, TypeOK
  <2>5. TypeOK'
    BY <1>1, <2>3, <2>4 DEF ReadClock, TypeOK
  <2>6. Begun'
    BY <1>1 DEF ReadClock, TypeOK, Begun
  <2>7. QED
    BY <2>5, <2>6
<1>2. ASSUME NEW h \in Hits, NEW outcome \in {"removing", "admitted", "rejected"},
             NEW place \in Places, hit[h].pc # "new",
             hit' = [hit EXCEPT ![h] = Decided(h, outcome, place)]
      PROVE  hit' \in [Hits -> Calls] /\ Begun'
  <2>1. hit[h] \in Calls
    BY DEF TypeOK
  <2>2. Decided(h, outcome, place) \in Calls
    BY <2>1 DEF Decided, Calls
  <2>3. hit' \in [Hits -> Calls]
    BY <1>2, <2>2, CallUpdate
  <2>4. Begun'
    BY <1>2, <2>1 DEF Begun, TypeOK, Decided, Calls
  <2>5. QED
    BY <2>3, <2>4
<1>3. ASSUME NEW h \in Hits, hit[h].key \in Keys, Pipeline(h), hit[h].pc = "timed"
      PROVE  zset' \in [Keys -> SUBSET Members] /\ expiry' \in [Keys -> Nat]
  BY <1>3, InsertedType DEF Pipeline, TypeOK
<1>4. ASSUME NEW h \in Hits, Shared(h) PROVE TypeOK' /\ Begun'
  <2>1. hit[h].key \in Keys /\ hit[h].pc = "timed"
    BY <1>4 DEF Shared, Begun
  <2>2. Redis \in Places
    BY DEF Places
  <2>3. hit' \in [Hits -> Calls] /\ Begun'
    <3>1. PICK outcome \in {"removing", "admitted"} :
            hit' = [hit EXCEPT ![h] = Decided(h, outcome, Redis)]
      BY <1>4 DEF Shared
    <3>2. QED
      BY <1>2, <2>1, <2>2, <3>1
  <2>4. QED
    BY <1>3, <1>4, <2>1, <2>3 DEF Shared, TypeOK
<1>5. ASSUME NEW h \in Hits, Remove(h) PROVE TypeOK' /\ Begun'
  <2>1. zset' \in [Keys -> SUBSET Members]
    <3>1. CASE zset' = zset
      BY <3>1 DEF TypeOK
    <3>2. CASE zset' = [zset EXCEPT ![hit[h].key] = @ \ {Member(h)}]
      BY <3>2 DEF TypeOK
    <3>3. QED
      BY <1>5, <3>1, <3>2 DEF Remove
  <2>2. Redis \in Places
    BY DEF Places
  <2>3. hit' \in [Hits -> Calls] /\ Begun'
    BY <1>2, <1>5, <2>2 DEF Remove
  <2>4. QED
    BY <1>5, <2>1, <2>3 DEF Remove, TypeOK
<1>6. ASSUME NEW h \in Hits, SharedFails(h) PROVE TypeOK' /\ Begun'
  <2>1. hit[h].key \in Keys /\ hit[h].pc = "timed" /\ hit[h] \in Calls
    BY <1>6 DEF SharedFails, Begun, TypeOK
  <2>2. zset' \in [Keys -> SUBSET Members] /\ expiry' \in [Keys -> Nat]
    BY <1>3, <1>6, <2>1 DEF SharedFails, TypeOK
  <2>3. hit' \in [Hits -> Calls]
    BY <1>6, <2>1 DEF SharedFails, TypeOK, Calls
  <2>4. Begun'
    BY <1>6, <2>1 DEF SharedFails, TypeOK, Begun, Calls
  <2>5. QED
    BY <1>6, <2>2, <2>3, <2>4 DEF SharedFails, TypeOK
<1>7. ASSUME NEW h \in Hits, ReadFallbackClock(h) PROVE TypeOK' /\ Begun'
  <2>1. hit[h] \in Calls /\ now \in Nat
    BY DEF TypeOK
  <2>2. hit' \in [Hits -> Calls]
    BY <1>7, <2>1 DEF ReadFallbackClock, TypeOK, Calls
  <2>3. Begun'
    BY <1>7, <2>1 DEF ReadFallbackClock, TypeOK, Begun, Calls
  <2>4. QED
    BY <1>7, <2>2, <2>3 DEF ReadFallbackClock, TypeOK
<1>8. ASSUME NEW h \in Hits, LocalRejects(h) \/ LocalAdmits(h) PROVE TypeOK' /\ Begun'
  <2> DEFINE s == hit[h].on
             k == hit[h].key
             b == bucket[s][k]
  <2>1. s \in Servers /\ k \in Keys /\ s \in Places /\ hit[h].pc # "new"
    BY <1>8 DEF LocalRejects, LocalAdmits, Begun, Places
  <2>2. b \in Seq(Hits) /\ bucket[s] \in [Keys -> Seq(Hits)]
    BY <2>1 DEF TypeOK
  <2>3. hit' \in [Hits -> Calls] /\ Begun'
    BY <1>2, <1>8, <2>1 DEF LocalRejects, LocalAdmits
  <2>4. PICK n \in 0 .. Len(b) :
          \/ bucket' = [bucket EXCEPT ![s] =
               Evicted([@ EXCEPT ![k] = SubSeq(b, n + 1, Len(b))], hit[h].at)]
          \/ bucket' = [bucket EXCEPT ![s] =
               Evicted([@ EXCEPT ![k] = Append(SubSeq(b, n + 1, Len(b)), h)], hit[h].at)]
    BY <1>8 DEF LocalRejects, LocalAdmits
  <2>5. PICK c \in Seq(Hits) :
          bucket' = [bucket EXCEPT ![s] = Evicted([@ EXCEPT ![k] = c], hit[h].at)]
    <3>1. SubSeq(b, n + 1, Len(b)) \in Seq(Hits)
      BY <2>2, TailIs
    <3>2. Append(SubSeq(b, n + 1, Len(b)), h) \in Seq(Hits)
      BY <3>1
    <3>3. QED
      BY <2>4, <3>1, <3>2
  <2>6. [bucket[s] EXCEPT ![k] = c] \in [Keys -> Seq(Hits)]
    BY <2>2, <2>5
  <2>7. bucket' \in [Servers -> [Keys -> Seq(Hits)]]
    BY <2>1, <2>5, <2>6, EvictedType DEF TypeOK
  <2>8. QED
    BY <1>8, <2>3, <2>7 DEF LocalRejects, LocalAdmits, TypeOK
<1>9. CASE Tick
  <2>1. zset' \in [Keys -> SUBSET Members]
    BY <1>9 DEF Tick, Expired, TypeOK
  <2>2. QED
    BY <1>9, <2>1 DEF Tick, TypeOK, Begun
<1>10. CASE UNCHANGED vars
  BY <1>10 DEF vars, TypeOK, Begun
<1>11. QED
  BY <1>1, <1>4, <1>5, <1>6, <1>7, <1>8, <1>9, <1>10 DEF Next

LEMMA Typing == Spec => [](TypeOK /\ Begun)
<1>1. Init => TypeOK /\ Begun
  BY DEF Init, TypeOK, Begun, Calls, Unmade
<1>2. TypeOK /\ Begun /\ [Next]_vars => (TypeOK /\ Begun)'
  BY TypeStep
<1>3. QED
  BY <1>1, <1>2, PTL DEF Spec

\* The limiter keeps its types.
THEOREM TypeCorrect == Spec => []TypeOK
  BY Typing, PTL

-----------------------------------------------------------------------------
(* The in-process windows. *)

AdmittedIn(call, p, k) ==
  {h \in Hits : call[h].pc = "admitted" /\ call[h].by = p /\ call[h].key = k}

\* The deque b of process p for key k, given the calls and the clock: it holds
\* admitted hits, each once, nearly in the order of their times, and the hits it
\* has lost are past the window, less the lag.
Deque(b, p, k, call, t) ==
  /\ \A i \in 1 .. Len(b) : b[i] \in AdmittedIn(call, p, k)
  /\ Injective(b)
  /\ \A i, j \in 1 .. Len(b) : i < j => call[b[i]].at <= call[b[j]].at + Lag
  /\ \A h \in AdmittedIn(call, p, k) :
       call[h].at <= t /\ (h \in Elements(b) \/ call[h].at + Window <= t + Lag)
  /\ Len(b) <= Limit

LEMMA EvictDeque ==
  ASSUME NEW call \in [Hits -> Calls], NEW b \in Seq(Hits), NEW p, NEW k, NEW t \in Nat,
         Deque(b, p, k, call, t), b # <<>>, NEW x \in Nat, x <= t,
         call[b[Len(b)]].at + Window <= x
  PROVE  Deque(<<>>, p, k, call, t)
<1>1. Len(b) \in 1 .. Len(b) /\ b[Len(b)] \in Hits
  OBVIOUS
<1>2. ASSUME NEW i \in 1 .. Len(b) PROVE call[b[i]].at + Window <= t + Lag
  <2>1. call[b[i]].at \in Nat /\ call[b[Len(b)]].at \in Nat
    BY <1>1 DEF Calls
  <2>2. i = Len(b) \/ call[b[i]].at <= call[b[Len(b)]].at + Lag
    BY <1>1 DEF Deque
  <2>3. QED
    BY <2>1, <2>2, TimesAssumption
<1>3. \A h \in Elements(b) : call[h].at + Window <= t + Lag
  BY <1>2 DEF Elements
<1>4. QED
  BY <1>3, LimitAssumption DEF Deque, Injective

LEMMA PopDeque ==
  ASSUME NEW call \in [Hits -> Calls], NEW b \in Seq(Hits), NEW p, NEW k, NEW t \in Nat,
         Deque(b, p, k, call, t), NEW n \in 0 .. Len(b), NEW x \in Nat, x <= t,
         \A i \in 1 .. n : call[b[i]].at + Window <= x
  PROVE  Deque(SubSeq(b, n + 1, Len(b)), p, k, call, t)
<1> DEFINE c == SubSeq(b, n + 1, Len(b))
<1>1. c \in Seq(Hits) /\ Len(c) = Len(b) - n /\ \A i \in 1 .. Len(c) : c[i] = b[n + i]
  BY TailIs
<1>2. \A i \in 1 .. Len(c) : n + i \in 1 .. Len(b)
  BY <1>1
<1> HIDE DEF c
<1>3. \A i \in 1 .. Len(c) : c[i] \in AdmittedIn(call, p, k)
  BY <1>1, <1>2 DEF Deque
<1>4. Injective(c)
  BY <1>1, <1>2 DEF Deque, Injective
<1>5. ASSUME NEW i \in 1 .. Len(c), NEW j \in 1 .. Len(c), i < j
      PROVE  call[c[i]].at <= call[c[j]].at + Lag
  <2>1. n + i \in 1 .. Len(b) /\ n + j \in 1 .. Len(b) /\ n + i < n + j
    BY <1>2, <1>5
  <2>2. call[b[n + i]].at <= call[b[n + j]].at + Lag
    BY <2>1 DEF Deque
  <2>3. QED
    BY <1>1, <2>2
<1>6. ASSUME NEW h \in AdmittedIn(call, p, k)
      PROVE  call[h].at <= t /\ (h \in Elements(c) \/ call[h].at + Window <= t + Lag)
  <2>1. call[h].at \in Nat
    BY DEF AdmittedIn, Calls
  <2>2. CASE h \in Elements(b)
    <3>1. PICK i \in 1 .. Len(b) : h = b[i]
      BY <2>2 DEF Elements
    <3>2. CASE i <= n
      BY <2>1, <3>1, <3>2, TimesAssumption DEF Deque
    <3>3. CASE i > n
      <4>1. i - n \in 1 .. Len(c) /\ c[i - n] = h
        BY <1>1, <3>1, <3>3
      <4>2. QED
        BY <4>1 DEF Deque, Elements
    <3>4. QED
      BY <3>2, <3>3
  <2>3. QED
    BY <2>2 DEF Deque
<1>7. Len(c) <= Limit
  BY <1>1, LimitAssumption DEF Deque
<1>8. QED
  BY <1>3, <1>4, <1>5, <1>6, <1>7 DEF Deque, c

LEMMA AppendDeque ==
  ASSUME NEW call \in [Hits -> Calls], NEW b \in Seq(Hits), NEW p, NEW k, NEW t \in Nat,
         Deque(b, p, k, call, t), Len(b) < Limit,
         NEW h \in Hits, call[h].pc # "admitted", call[h].key = k,
         call[h].at <= t, t <= call[h].at + Lag,
         NEW then, then = [call EXCEPT ![h] = [call[h] EXCEPT !.pc = "admitted", !.by = p]]
  PROVE  Deque(Append(b, h), p, k, then, t)
<1> DEFINE c == Append(b, h)
<1>1. c \in Seq(Hits) /\ Len(c) = Len(b) + 1 /\ c[Len(c)] = h
      /\ \A i \in 1 .. Len(c) : i # Len(c) => i \in 1 .. Len(b) /\ c[i] = b[i]
  <2>1. c \in Seq(Hits) /\ Len(c) = Len(b) + 1
    OBVIOUS
  <2>2. Len(b) \in Nat /\ c[Len(b) + 1] = h /\ \A i \in 1 .. Len(b) : c[i] = b[i]
    OBVIOUS
  <2>3. QED
    BY <2>1, <2>2
<1> HIDE DEF c
<1>2. h \notin AdmittedIn(call, p, k)
  BY DEF AdmittedIn
<1>3. AdmittedIn(then, p, k) = AdmittedIn(call, p, k) \cup {h}
  BY DEF AdmittedIn, Calls
<1>4. \A g \in Hits : then[g].at = call[g].at /\ call[g].at \in Nat
  BY DEF Calls
<1>5. \A i \in 1 .. Len(c) : c[i] \in AdmittedIn(then, p, k)
  BY <1>1, <1>3 DEF Deque
<1>6. Injective(c)
  <2>1. \A i \in 1 .. Len(b) : b[i] # h
    BY <1>2 DEF Deque
  <2>2. QED
    BY <1>1, <2>1 DEF Deque, Injective
<1>7. ASSUME NEW i \in 1 .. Len(c), NEW j \in 1 .. Len(c), i < j
      PROVE  then[c[i]].at <= then[c[j]].at + Lag
  <2>1. i # Len(c) /\ i \in 1 .. Len(b) /\ c[i] = b[i] /\ c[i] \in Hits /\ c[j] \in Hits
    BY <1>1, <1>7
  <2>2. CASE j = Len(c)
    <3>1. call[c[i]].at <= t
      BY <2>1 DEF Deque
    <3>2. QED
      BY <1>1, <1>4, <2>1, <2>2, <3>1, TimesAssumption
  <2>3. CASE j # Len(c)
    <3>1. j \in 1 .. Len(b) /\ c[j] = b[j]
      BY <1>1, <2>3
    <3>2. call[b[i]].at <= call[b[j]].at + Lag
      BY <1>7, <2>1, <3>1 DEF Deque
    <3>3. QED
      BY <1>4, <2>1, <3>1, <3>2
  <2>4. QED
    BY <2>2, <2>3
<1>8. ASSUME NEW g \in AdmittedIn(then, p, k)
      PROVE  then[g].at <= t /\ (g \in Elements(c) \/ then[g].at + Window <= t + Lag)
  <2>1. CASE g = h
    BY <1>1, <1>4, <2>1 DEF Elements
  <2>2. CASE g # h
    <3>1. g \in AdmittedIn(call, p, k) /\ g \in Hits
      BY <1>3, <2>2 DEF AdmittedIn
    <3>2. g \in Elements(b) => g \in Elements(c)
      BY <1>1 DEF Elements, c
    <3>3. QED
      BY <1>4, <3>1, <3>2 DEF Deque
  <2>3. QED
    BY <2>1, <2>2
<1>9. Len(c) <= Limit
  BY <1>1, LimitAssumption
<1>10. QED
  BY <1>5, <1>6, <1>7, <1>8, <1>9 DEF Deque, c

\* A step that neither admits nor forgets a hit, while time passes.
LEMMA KeepDeque ==
  ASSUME NEW call \in [Hits -> Calls], NEW b \in Seq(Hits), NEW p, NEW k, NEW t \in Nat,
         Deque(b, p, k, call, t), NEW then \in [Hits -> Calls], NEW u \in Nat, t <= u,
         AdmittedIn(then, p, k) = AdmittedIn(call, p, k),
         \A h \in AdmittedIn(call, p, k) : then[h].at = call[h].at
  PROVE  Deque(b, p, k, then, u)
<1>1. \A h \in AdmittedIn(call, p, k) : h \in Hits /\ call[h].at \in Nat
  BY DEF AdmittedIn, Calls
<1>2. \A h \in AdmittedIn(then, p, k) :
        then[h].at <= u /\ (h \in Elements(b) \/ then[h].at + Window <= u + Lag)
  BY <1>1, TimesAssumption DEF Deque
<1>3. \A i, j \in 1 .. Len(b) : i < j => then[b[i]].at <= then[b[j]].at + Lag
  BY DEF Deque
<1>4. QED
  BY <1>2, <1>3 DEF Deque

\* No reading of the clock is ahead of it, and none on its way is too late.
Readings ==
  /\ \A h \in Hits : hit[h].at <= now
  /\ \A h \in Hits : Late(h) => now <= hit[h].at + Lag

Deques == \A s \in Servers, k \in Keys : Deque(bucket[s][k], s, k, hit, now)

LEMMA ReadingsStep ==
  ASSUME TypeOK, Readings, [Next]_vars
  PROVE  Readings'
<1> USE TimesAssumption DEF Readings, Late
<1>1. now \in Nat /\ \A h \in Hits : hit[h].at \in Nat
  BY DEF TypeOK, Calls
<1>2. ASSUME NEW h \in Hits, NEW s \in Servers, NEW k \in Keys, ReadClock(h, s, k)
      PROVE  Readings'
  BY <1>1, <1>2 DEF ReadClock, TypeOK
<1>3. ASSUME NEW h \in Hits, NEW c, hit' = [hit EXCEPT ![h] = c], now' = now,
             c.at = hit[h].at \/ c.at = now,
             c.pc \in {"timed", "local"} => c.at = now
      PROVE  Readings'
  BY <1>1, <1>3 DEF TypeOK
<1>4. ASSUME NEW h \in Hits, NEW outcome \in {"removing", "admitted", "rejected"}, NEW place,
             hit' = [hit EXCEPT ![h] = Decided(h, outcome, place)], now' = now
      PROVE  Readings'
  <2>1. hit[h] \in Calls
    BY DEF TypeOK
  <2>2. Decided(h, outcome, place).at = hit[h].at
        /\ Decided(h, outcome, place).pc \notin {"timed", "local"}
    BY <2>1 DEF Decided, Calls
  <2>3. QED
    BY <1>3, <1>4, <2>2
<1>5. ASSUME NEW h \in Hits, Shared(h) PROVE Readings'
  <2>1. PICK outcome \in {"removing", "admitted"} :
          hit' = [hit EXCEPT ![h] = Decided(h, outcome, Redis)]
    BY <1>5 DEF Shared
  <2>2. QED
    BY <1>4, <1>5, <2>1 DEF Shared
<1>6. ASSUME NEW h \in Hits, Remove(h) \/ LocalRejects(h) \/ LocalAdmits(h) PROVE Readings'
  BY <1>4, <1>6 DEF Remove, LocalRejects, LocalAdmits
<1>7. ASSUME NEW h \in Hits, SharedFails(h) PROVE Readings'
  BY <1>1, <1>7 DEF SharedFails, TypeOK, Calls
<1>8. ASSUME NEW h \in Hits, ReadFallbackClock(h) PROVE Readings'
  BY <1>1, <1>8 DEF ReadFallbackClock, TypeOK, Calls
<1>9. CASE Tick
  BY <1>1, <1>9 DEF Tick
<1>10. CASE UNCHANGED vars
  BY <1>10 DEF vars
<1>11. QED
  BY <1>2, <1>5, <1>6, <1>7, <1>8, <1>9, <1>10 DEF Next

LEMMA DequesStep ==
  ASSUME TypeOK, TypeOK', Begun, Readings, Deques, [Next]_vars
  PROVE  Deques'
<1>1. now \in Nat /\ now' \in Nat /\ hit \in [Hits -> Calls] /\ hit' \in [Hits -> Calls]
      /\ \A s \in Servers, k \in Keys : bucket[s][k] \in Seq(Hits)
  BY DEF TypeOK
<1>2. ASSUME bucket' = bucket, now <= now',
             \A s \in Servers, k \in Keys : AdmittedIn(hit', s, k) = AdmittedIn(hit, s, k),
             \A h \in Hits : hit[h].pc = "admitted" => hit'[h].at = hit[h].at
      PROVE  Deques'
  BY <1>1, <1>2, KeepDeque DEF Deques, AdmittedIn
\* One call of which the window of a process has not been asked changes.
<1>3. ASSUME NEW h \in Hits, NEW c, hit' = [hit EXCEPT ![h] = c], hit[h].pc # "admitted",
             c.pc = "admitted" => c.by \notin Servers, UNCHANGED <<now, bucket>>
      PROVE  Deques'
  <2>1. \A s \in Servers, k \in Keys : AdmittedIn(hit', s, k) = AdmittedIn(hit, s, k)
    BY <1>1, <1>3 DEF AdmittedIn
  <2>2. \A g \in Hits : hit[g].pc = "admitted" => hit'[g].at = hit[g].at
    BY <1>1, <1>3
  <2>3. bucket' = bucket /\ now <= now'
    BY <1>1, <1>3
  <2>4. QED
    BY <1>2, <2>1, <2>2, <2>3
<1>4. ASSUME NEW h \in Hits, NEW s \in Servers, NEW k \in Keys, ReadClock(h, s, k) PROVE Deques'
  BY <1>3, <1>4 DEF ReadClock
<1>5. ASSUME NEW h \in Hits, Shared(h) PROVE Deques'
  <2>1. PICK outcome \in {"removing", "admitted"} :
          hit' = [hit EXCEPT ![h] = Decided(h, outcome, Redis)]
    BY <1>5 DEF Shared
  <2>2. Decided(h, outcome, Redis).by = Redis
    BY <1>1 DEF Decided, Calls
  <2>3. QED
    BY <1>3, <1>5, <2>1, <2>2, PlacesAssumption DEF Shared
<1>6. ASSUME NEW h \in Hits, Remove(h) PROVE Deques'
  <2>1. Decided(h, "rejected", Redis).pc = "rejected"
    BY <1>1 DEF Decided, Calls
  <2>2. QED
    BY <1>3, <1>6, <2>1 DEF Remove
<1>7. ASSUME NEW h \in Hits, SharedFails(h) PROVE Deques'
  <2>1. hit' = [hit EXCEPT ![h] = [hit[h] EXCEPT !.pc = "fallback"]]
        /\ [hit[h] EXCEPT !.pc = "fallback"].pc = "fallback"
    BY <1>1, <1>7 DEF SharedFails, Calls
  <2>2. QED
    BY <1>3, <1>7, <2>1 DEF SharedFails
<1>8. ASSUME NEW h \in Hits, ReadFallbackClock(h) PROVE Deques'
  <2> DEFINE c == [hit[h] EXCEPT !.pc = "local", !.at = now, !.count = 0]
  <2>1. hit' = [hit EXCEPT ![h] = c] /\ c.pc = "local"
    BY <1>1, <1>8 DEF ReadFallbackClock, Calls
  <2>2. QED
    BY <1>3, <1>8, <2>1 DEF ReadFallbackClock
<1>9. CASE Tick
  BY <1>1, <1>2, <1>9 DEF Tick
<1>10. CASE UNCHANGED vars
  BY <1>1, <1>2, <1>10 DEF vars
\* One call is decided by the window of a process, which then evicts.
<1>11. ASSUME NEW h \in Hits, NEW c \in Seq(Hits), NEW s \in Servers, NEW k \in Keys,
              s = hit[h].on, k = hit[h].key, now' = now, hit[h].pc = "local",
              NEW outcome \in {"admitted", "rejected"},
              hit' = [hit EXCEPT ![h] = Decided(h, outcome, s)],
              bucket' = [bucket EXCEPT ![s] = Evicted([@ EXCEPT ![k] = c], hit[h].at)],
              Deque(c, s, k, hit', now)
       PROVE  Deques'
  <2> SUFFICES ASSUME NEW z \in Servers, NEW m \in Keys
               PROVE  Deque(bucket'[z][m], z, m, hit', now)
    BY <1>11 DEF Deques
  <2>1. hit[h].at \in Nat /\ hit[h].at <= now
    BY <1>1 DEF Readings, Calls
  <2>2. Decided(h, outcome, s).by = s /\ Decided(h, outcome, s).key = k
    BY <1>1, <1>11 DEF Decided, Calls
  <2>3. ASSUME z # s \/ m # k
        PROVE  Deque(bucket[z][m], z, m, hit', now)
    <3>1. AdmittedIn(hit', z, m) = AdmittedIn(hit, z, m)
      BY <1>1, <1>11, <2>2, <2>3 DEF AdmittedIn
    <3>2. \A g \in AdmittedIn(hit, z, m) : hit'[g].at = hit[g].at
      BY <1>1, <1>11 DEF AdmittedIn
    <3>3. QED
      BY <1>1, <3>1, <3>2, KeepDeque DEF Deques
  <2>4. CASE z # s
    BY <1>11, <2>3, <2>4 DEF TypeOK
  <2>5. CASE z = s
    <3> DEFINE rest == [bucket[s] EXCEPT ![k] = c]
    <3>1. bucket[s] \in [Keys -> Seq(Hits)] /\ rest \in [Keys -> Seq(Hits)]
      BY <1>11 DEF TypeOK
    <3>2. bucket'[z] = Evicted(rest, hit[h].at)
      BY <1>11, <2>5 DEF TypeOK
    <3>3. Deque(rest[m], s, m, hit', now)
      BY <1>11, <2>3, <2>5, <3>1
    <3>4. rest[m] \in Seq(Hits)
      BY <3>1
    <3> HIDE DEF rest
    <3>5. CASE rest[m] # <<>> /\ Past(rest[m][Len(rest[m])], hit[h].at)
      <4>1. bucket'[z][m] = <<>>
        BY <3>2, <3>5 DEF Evicted
      <4>2. rest[m][Len(rest[m])] \in Hits
        BY <3>4, <3>5
      <4>3. \A g \in Hits : hit'[g].at = hit[g].at
        BY <1>1, <1>11 DEF Decided, Calls
      <4>4. hit'[rest[m][Len(rest[m])]].at + Window <= hit[h].at
        BY <3>5, <4>2, <4>3 DEF Past
      <4>5. QED
        BY <1>1, <2>1, <2>5, <3>3, <3>4, <3>5, <4>1, <4>4, EvictDeque
    <3>6. CASE ~(rest[m] # <<>> /\ Past(rest[m][Len(rest[m])], hit[h].at))
      <4>1. bucket'[z][m] = rest[m]
        BY <3>2, <3>6 DEF Evicted
      <4>2. QED
        BY <2>5, <3>3, <4>1
    <3>7. QED
      BY <3>5, <3>6
  <2>6. QED
    BY <2>4, <2>5
\* What is left after popleft.
<1>12. ASSUME NEW h \in Hits, NEW s \in Servers, NEW k \in Keys, NEW n \in 0 .. Len(bucket[s][k]),
              IsPopped(bucket[s][k], n, hit[h].at)
       PROVE  /\ SubSeq(bucket[s][k], n + 1, Len(bucket[s][k])) \in Seq(Hits)
              /\ Len(SubSeq(bucket[s][k], n + 1, Len(bucket[s][k]))) = Len(bucket[s][k]) - n
              /\ Deque(SubSeq(bucket[s][k], n + 1, Len(bucket[s][k])), s, k, hit, now)
  <2>1. bucket[s][k] \in Seq(Hits) /\ hit[h].at \in Nat /\ hit[h].at <= now
        /\ Deque(bucket[s][k], s, k, hit, now)
    BY <1>1 DEF Readings, Calls, Deques
  <2>2. \A i \in 1 .. n : hit[bucket[s][k][i]].at + Window <= hit[h].at
    BY <1>12 DEF IsPopped, Past
  <2>3. QED
    BY <1>1, <2>1, <2>2, PopDeque, TailIs
<1>13. ASSUME NEW h \in Hits, LocalRejects(h) PROVE Deques'
  <2> DEFINE s == hit[h].on
             k == hit[h].key
             b == bucket[s][k]
  <2>1. s \in Servers /\ k \in Keys /\ hit[h].pc = "local" /\ now' = now
        /\ hit' = [hit EXCEPT ![h] = Decided(h, "rejected", s)]
    BY <1>13 DEF LocalRejects, Begun
  <2>2. PICK n \in 0 .. Len(b) : IsPopped(b, n, hit[h].at) /\
          bucket' = [bucket EXCEPT ![s] =
            Evicted([@ EXCEPT ![k] = SubSeq(b, n + 1, Len(b))], hit[h].at)]
    BY <1>13 DEF LocalRejects
  <2> DEFINE c == SubSeq(b, n + 1, Len(b))
  <2>3. c \in Seq(Hits) /\ Deque(c, s, k, hit, now)
    BY <1>12, <2>1, <2>2
  <2>4. Deque(c, s, k, hit', now)
    <3>1. AdmittedIn(hit', s, k) = AdmittedIn(hit, s, k)
      BY <1>1, <2>1 DEF AdmittedIn, Decided, Calls
    <3>2. \A g \in AdmittedIn(hit, s, k) : hit'[g].at = hit[g].at
      BY <1>1, <2>1 DEF AdmittedIn
    <3> HIDE DEF c, s, k
    <3>3. QED
      BY <1>1, <2>3, <3>1, <3>2, KeepDeque
  <2>5. QED
    BY <1>11, <2>1, <2>2, <2>3, <2>4
<1>14. ASSUME NEW h \in Hits, LocalAdmits(h) PROVE Deques'
  <2> DEFINE s == hit[h].on
             k == hit[h].key
             b == bucket[s][k]
  <2>1. s \in Servers /\ k \in Keys /\ hit[h].pc = "local" /\ now' = now
        /\ hit' = [hit EXCEPT ![h] = Decided(h, "admitted", s)]
    BY <1>14 DEF LocalAdmits, Begun
  <2>2. PICK n \in 0 .. Len(b) : IsPopped(b, n, hit[h].at) /\ Len(b) - n < Limit /\
          bucket' = [bucket EXCEPT ![s] =
            Evicted([@ EXCEPT ![k] = Append(SubSeq(b, n + 1, Len(b)), h)], hit[h].at)]
    BY <1>14 DEF LocalAdmits
  <2> DEFINE c == SubSeq(b, n + 1, Len(b))
  <2>3. c \in Seq(Hits) /\ Deque(c, s, k, hit, now) /\ Len(c) < Limit
    BY <1>12, <2>1, <2>2
  <2>4. hit[h].at <= now /\ now <= hit[h].at + Lag
    BY <2>1 DEF Readings, Late
  <2>5. Append(c, h) \in Seq(Hits)
    BY <2>3
  <2>6. Deque(Append(c, h), s, k, hit', now)
    <3>1. hit' = [hit EXCEPT ![h] = [hit[h] EXCEPT !.pc = "admitted", !.by = s]]
      BY <2>1 DEF Decided
    <3>2. hit[h].pc # "admitted" /\ hit[h].key = k
      BY <2>1
    <3> HIDE DEF c, s, k
    <3>3. QED
      BY <1>1, <2>3, <2>4, <3>1, <3>2, AppendDeque
  <2>7. QED
    BY <1>11, <2>1, <2>2, <2>5, <2>6
<1>15. QED
  BY <1>4, <1>5, <1>6, <1>7, <1>8, <1>9, <1>10, <1>13, <1>14 DEF Next

LEMMA DequesInvariant == Spec => []Deques
<1>1. Init => Readings /\ Deques
  <2> SUFFICES ASSUME Init PROVE Readings /\ Deques
    OBVIOUS
  <2>1. Readings
    BY TimesAssumption DEF Init, Readings, Late, Unmade
  <2>2. \A s \in Servers, k \in Keys : bucket[s][k] = <<>> /\ AdmittedIn(hit, s, k) = {}
    BY DEF Init, AdmittedIn, Unmade
  <2>3. QED
    BY <2>1, <2>2, LimitAssumption DEF Deques, Deque, Injective
<1>2. TypeOK /\ TypeOK' /\ Begun /\ Readings /\ Deques /\ [Next]_vars => (Readings /\ Deques)'
  BY ReadingsStep, DequesStep
<1>3. QED
  BY <1>1, <1>2, Typing, PTL DEF Spec

-----------------------------------------------------------------------------
(* Rejections. *)

\* The deque a rejection finds full holds as many admitted hits.
LEMMA FullDeque ==
  ASSUME TypeOK, Readings, Deques, NEW h \in Hits, NEW s \in Servers, NEW k \in Keys,
         hit[h].pc = "local", NEW n \in 0 .. Len(bucket[s][k]),
         IsPopped(bucket[s][k], n, hit[h].at), Len(bucket[s][k]) - n >= Limit
  PROVE  Cardinality({g \in Admitted(s, k) : /\ hit[h].at < hit[g].at + Window + Lag
                                             /\ hit[g].at <= hit[h].at + Lag}) >= Limit
<1> DEFINE b == bucket[s][k]
           c == SubSeq(b, n + 1, Len(b))
           G == {g \in Admitted(s, k) : /\ hit[h].at < hit[g].at + Window + Lag
                                        /\ hit[g].at <= hit[h].at + Lag}
<1>1. b \in Seq(Hits) /\ now \in Nat /\ hit \in [Hits -> Calls] /\ hit[h].at \in Nat
      /\ \A g \in Hits : hit[g].at \in Nat
  BY DEF TypeOK, Calls
<1>2. Deque(b, s, k, hit, now) /\ hit[h].at <= now /\ now <= hit[h].at + Lag
  BY DEF Deques, Readings, Late
<1>3. c \in Seq(Hits) /\ Len(c) = Len(b) - n /\ \A i \in 1 .. Len(c) : c[i] = b[n + i]
  BY <1>1, TailIs
<1>4. \A i \in 1 .. Len(c) : n + i \in 1 .. Len(b)
  BY <1>3
<1>5. Injective(c)
  <2> HIDE DEF c, b
  <2>1. QED
    BY <1>2, <1>3, <1>4 DEF Deque, Injective
<1>6. ASSUME NEW i \in 1 .. Len(c) PROVE c[i] \in G
  <2>1. n + i \in 1 .. Len(b) /\ n + 1 \in 1 .. Len(b) /\ c[i] = b[n + i] /\ n < Len(b)
    BY <1>3, <1>4, LimitAssumption
  <2>2. c[i] \in AdmittedIn(hit, s, k) /\ hit[c[i]].at <= now
    BY <1>2, <2>1 DEF Deque
  <2>3. b[n + 1] \in Hits /\ b[n + i] \in Hits
    BY <1>1, <2>1
  <2>4. hit[h].at < hit[b[n + 1]].at + Window
    <3>1. ~Past(b[n + 1], hit[h].at)
      BY <2>1 DEF IsPopped
    <3>2. hit[b[n + 1]].at \in Nat
      BY <1>1, <2>3
    <3>3. QED
      BY <1>1, <3>1, <3>2, TimesAssumption DEF Past
  <2>5. hit[b[n + 1]].at <= hit[b[n + i]].at + Lag
    <3>1. CASE i = 1
      BY <1>1, <2>3, <3>1, TimesAssumption
    <3>2. CASE i > 1
      <4>1. n + 1 < n + i
        BY <3>2
      <4>2. QED
        BY <1>2, <2>1, <4>1 DEF Deque
    <3>3. QED
      BY <3>1, <3>2
  <2>6. hit[h].at < hit[c[i]].at + Window + Lag
    <3> DEFINE first == hit[b[n + 1]].at
               this == hit[b[n + i]].at
    <3>1. first \in Nat /\ this \in Nat /\ hit[c[i]].at = this
      BY <1>1, <2>1, <2>3
    <3>2. hit[h].at < first + Window /\ first <= this + Lag
      BY <2>4, <2>5
    <3> HIDE DEF first, this
    <3>3. QED
      BY <1>1, <3>1, <3>2, TimesAssumption
  <2>7. hit[c[i]].at <= hit[h].at + Lag
    BY <1>1, <1>2, <2>1, <2>2, <2>3, TimesAssumption
  <2>8. QED
    BY <2>2, <2>6, <2>7 DEF AdmittedIn, Admitted
<1>7. Elements(c) \in SUBSET G /\ IsFiniteSet(G)
  <2>1. G \in SUBSET Hits
    BY DEF Admitted
  <2>2. QED
    BY <1>6, <2>1, EnvAssumption, FS_Subset DEF Elements
<1>8. Cardinality(Elements(c)) = Len(c)
  BY <1>3, <1>5, ElementsCount
<1>9. Cardinality(Elements(c)) <= Cardinality(G)
  BY <1>7, FS_Subset
<1>10. Cardinality(G) \in Nat
  BY <1>7, FS_CardinalityType
<1>11. Len(c) >= Limit /\ Len(c) \in Nat
  BY <1>3
<1> HIDE DEF G, c
<1>12. Cardinality(G) >= Limit
  BY <1>8, <1>9, <1>10, <1>11, LimitAssumption
<1>13. QED
  BY <1>12 DEF G

\* A call that has its answer is over.
LEMMA FinalCalls ==
  ASSUME TypeOK, [Next]_vars, NEW g \in Hits, hit[g].pc \in {"admitted", "rejected"}
  PROVE  hit'[g] = hit[g]
<1> USE DEF TypeOK
<1>1. ASSUME NEW h \in Hits, NEW s \in Servers, NEW k \in Keys, ReadClock(h, s, k)
      PROVE  hit'[g] = hit[g]
  BY <1>1 DEF ReadClock
<1>2. ASSUME NEW h \in Hits, Shared(h) \/ Remove(h) \/ SharedFails(h)
      PROVE  hit'[g] = hit[g]
  BY <1>2 DEF Shared, Remove, SharedFails
<1>3. ASSUME NEW h \in Hits, ReadFallbackClock(h) PROVE hit'[g] = hit[g]
  BY <1>3 DEF ReadFallbackClock
<1>4. ASSUME NEW h \in Hits, LocalRejects(h) \/ LocalAdmits(h) PROVE hit'[g] = hit[g]
  BY <1>4 DEF LocalRejects, LocalAdmits
<1>5. QED
  BY <1>1, <1>2, <1>3, <1>4 DEF Next, vars, Tick

\* Only a process that finds its deque full rejects on its own.
LEMMA NewRejection ==
  ASSUME TypeOK, Begun, [Next]_vars, NEW h \in Hits, hit[h].pc # "rejected",
         hit'[h].pc = "rejected", hit'[h].by \in Servers
  PROVE  LocalRejects(h)
<1> USE PlacesAssumption
<1>1. hit[h] \in Calls /\ hit \in [Hits -> Calls]
  BY DEF TypeOK
<1>2. ASSUME NEW g \in Hits, Shared(g) PROVE FALSE
  <2>1. PICK outcome \in {"removing", "admitted"} :
          hit' = [hit EXCEPT ![g] = Decided(g, outcome, Redis)]
    BY <1>2 DEF Shared
  <2>2. QED
    BY <1>1, <2>1 DEF Decided, Calls
<1>3. ASSUME NEW g \in Hits, Remove(g) PROVE FALSE
  <2>1. hit' = [hit EXCEPT ![g] = Decided(g, "rejected", Redis)] /\ hit[g] \in Calls
    BY <1>1, <1>3 DEF Remove
  <2>2. Decided(g, "rejected", Redis).by = Redis
    BY <2>1 DEF Decided, Calls
  <2>3. QED
    BY <1>1, <2>1, <2>2
<1>4. ASSUME NEW g \in Hits, LocalAdmits(g) PROVE FALSE
  <2>1. hit' = [hit EXCEPT ![g] = Decided(g, "admitted", hit[g].on)] /\ hit[g] \in Calls
    BY <1>1, <1>4 DEF LocalAdmits
  <2>2. Decided(g, "admitted", hit[g].on).pc = "admitted"
    BY <2>1 DEF Decided, Calls
  <2>3. QED
    BY <1>1, <2>1, <2>2
<1>5. ASSUME NEW g \in Hits, NEW s \in Servers, NEW k \in Keys, ReadClock(g, s, k) PROVE FALSE
  BY <1>1, <1>5 DEF ReadClock
<1>6. ASSUME NEW g \in Hits, SharedFails(g) \/ ReadFallbackClock(g) PROVE FALSE
  BY <1>1, <1>6 DEF SharedFails, ReadFallbackClock, Calls
<1>7. ASSUME NEW g \in Hits, LocalRejects(g) PROVE LocalRejects(h)
  BY <1>1, <1>7 DEF LocalRejects
<1>8. QED
  BY <1>2, <1>3, <1>4, <1>5, <1>6, <1>7 DEF Next, vars, Tick

LEMMA RejectedStep ==
  ASSUME TypeOK, TypeOK', Begun, Readings, Deques, RejectedJustly, [Next]_vars
  PROVE  RejectedJustly'
<1> DEFINE Backing(s, k, t) == {g \in Admitted(s, k) : /\ t < hit[g].at + Window + Lag
                                                      /\ hit[g].at <= t + Lag}
<1>1. SUFFICES ASSUME NEW h \in Hits, hit'[h].pc = "rejected", hit'[h].by \in Servers,
                      NEW s, NEW k, NEW t,
                      s = hit'[h].by, k = hit'[h].key, t = hit'[h].at
               PROVE  Cardinality(Backing(s, k, t)') >= Limit
  BY DEF RejectedJustly, Admitted
<1>2. Backing(s, k, t) \in SUBSET Backing(s, k, t)'
  BY FinalCalls DEF Admitted
<1>3. Backing(s, k, t)' \in SUBSET Hits /\ Backing(s, k, t) \in SUBSET Hits
  BY DEF Admitted
<1>4. IsFiniteSet(Backing(s, k, t)') /\ IsFiniteSet(Backing(s, k, t))
  BY <1>3, EnvAssumption, FS_Subset
<1>5. Cardinality(Backing(s, k, t)) >= Limit
  <2>1. CASE hit[h].pc = "rejected"
    <3>1. hit'[h] = hit[h]
      BY <2>1, FinalCalls
    <3>2. QED
      BY <1>1, <2>1, <3>1 DEF RejectedJustly
  <2>2. CASE hit[h].pc # "rejected"
    <3>1. LocalRejects(h)
      BY <1>1, <2>2, NewRejection
    <3>2. hit[h].pc = "local" /\ hit[h].on \in Servers /\ hit[h].key \in Keys
          /\ hit' = [hit EXCEPT ![h] = Decided(h, "rejected", hit[h].on)]
      BY <3>1 DEF LocalRejects, Begun
    <3>3. PICK n \in 0 .. Len(bucket[hit[h].on][hit[h].key]) :
            /\ IsPopped(bucket[hit[h].on][hit[h].key], n, hit[h].at)
            /\ Len(bucket[hit[h].on][hit[h].key]) - n >= Limit
      BY <3>1 DEF LocalRejects
    <3>4. hit'[h].by = hit[h].on /\ hit'[h].key = hit[h].key /\ hit'[h].at = hit[h].at
      BY <3>2 DEF Decided, TypeOK, Calls
    <3>5. s = hit[h].on /\ k = hit[h].key /\ t = hit[h].at
      BY <1>1, <3>4
    <3>6. QED
      BY <3>2, <3>3, <3>5, FullDeque
  <2>3. QED
    BY <2>1, <2>2
<1> HIDE DEF Backing
<1>6. QED
  BY <1>2, <1>4, <1>5, FS_Subset, FS_CardinalityType, LimitAssumption

\* A process rejects a hit only when the limit was used up around it.
THEOREM RejectionCorrect == Spec => []RejectedJustly
<1>1. Init => Readings /\ RejectedJustly
  BY TimesAssumption DEF Init, Readings, Late, Unmade, RejectedJustly
<1>2. /\ TypeOK /\ TypeOK' /\ Begun /\ Readings /\ Deques /\ RejectedJustly
      /\ [Next]_vars
      => (Readings /\ RejectedJustly)'
  BY ReadingsStep, RejectedStep
<1>3. QED
  BY <1>1, <1>2, Typing, DequesInvariant, PTL DEF Spec

-----------------------------------------------------------------------------
(* Admissions. *)

\* A hit whose member is in the shared window, or on its way to it.
HoldsMember(call) ==
  \/ call.pc \in {"timed", "removing"}
  \/ call.pc = "admitted" /\ call.by = Redis

\* Counters are drawn once.
Numbered ==
  /\ \A h \in Hits : HoldsMember(hit[h]) => hit[h].count < drawn[hit[h].on]
  /\ \A g, h \in Hits : HoldsMember(hit[g]) /\ HoldsMember(hit[h]) /\ g # h
                        /\ hit[g].on = hit[h].on => hit[g].count # hit[h].count

\* An instant is read by one process.
Instants ==
  \A g, h \in Hits : hit[g].pc # "new" /\ hit[h].pc # "new" /\ hit[g].at = hit[h].at
                     => hit[g].on = hit[h].on

\* Members are not ahead of the clock, and outlived by their sorted set.
Sets ==
  \A k \in Keys : /\ IsFiniteSet(zset[k])
                  /\ \A m \in zset[k] : m.at <= now /\ m.at + Window <= expiry[k]

\* What Redis admitted stays in the sorted set until it is past the window.
Kept ==
  \A k \in Keys : \A h \in Admitted(Redis, k) :
    Member(h) \in zset[k] \/ hit[h].at + Window <= now

\* The steps of a call that read no clock.
LEMMA UnreadStep ==
  ASSUME TypeOK, Begun, NEW h \in Hits, NEW g \in Hits,
         Shared(h) \/ Remove(h) \/ SharedFails(h) \/ LocalRejects(h) \/ LocalAdmits(h)
  PROVE  /\ hit'[g].on = hit[g].on /\ hit'[g].at = hit[g].at
         /\ hit'[g].count = hit[g].count /\ hit'[g].key = hit[g].key
         /\ hit[g].pc = "new" <=> hit'[g].pc = "new"
         /\ HoldsMember(hit'[g]) => HoldsMember(hit[g])
         /\ drawn' = drawn /\ now' = now
<1> USE PlacesAssumption DEF HoldsMember
<1>1. hit \in [Hits -> Calls] /\ hit[g] \in Calls /\ hit[h] \in Calls
  BY DEF TypeOK
<1>2. CASE Shared(h)
  <2>1. PICK outcome \in {"removing", "admitted"} :
          hit' = [hit EXCEPT ![h] = Decided(h, outcome, Redis)]
    BY <1>2 DEF Shared
  <2>2. hit[h].pc = "timed" /\ drawn' = drawn /\ now' = now
    BY <1>2 DEF Shared
  <2>3. QED
    BY <1>1, <2>1, <2>2 DEF Decided, Calls
<1>3. CASE Remove(h)
  <2>1. hit' = [hit EXCEPT ![h] = Decided(h, "rejected", Redis)]
        /\ hit[h].pc = "removing" /\ drawn' = drawn /\ now' = now
    BY <1>3 DEF Remove
  <2>2. QED
    BY <1>1, <2>1 DEF Decided, Calls
<1>4. CASE SharedFails(h)
  BY <1>1, <1>4 DEF SharedFails, Calls
<1>5. CASE LocalRejects(h)
  <2>1. hit' = [hit EXCEPT ![h] = Decided(h, "rejected", hit[h].on)]
        /\ hit[h].pc = "local" /\ drawn' = drawn /\ now' = now
    BY <1>5 DEF LocalRejects
  <2>2. QED
    BY <1>1, <2>1 DEF Decided, Calls
<1>6. CASE LocalAdmits(h)
  <2>1. hit' = [hit EXCEPT ![h] = Decided(h, "admitted", hit[h].on)]
        /\ hit[h].pc = "local" /\ drawn' = drawn /\ now' = now
    BY <1>6 DEF LocalAdmits
  <2>2. hit[h].on # Redis
    BY <2>1 DEF Begun
  <2>3. QED
    BY <1>1, <2>1, <2>2 DEF Decided, Calls
<1>7. QED
  BY <1>2, <1>3, <1>4, <1>5, <1>6

LEMMA NumberedStep ==
  ASSUME TypeOK, Begun, Numbered, [Next]_vars
  PROVE  Numbered'
<1>1. hit \in [Hits -> Calls] /\ drawn \in [Servers -> Nat]
      /\ \A g \in Hits : hit[g].count \in Nat
  BY DEF TypeOK, Calls
<1>2. ASSUME NEW h \in Hits, NEW s \in Servers, NEW k \in Keys, ReadClock(h, s, k)
      PROVE  Numbered'
  <2>1. hit[h].pc = "new" /\ drawn' = [drawn EXCEPT ![s] = @ + 1]
        /\ hit'[h].on = s /\ hit'[h].count = drawn[s]
        /\ \A g \in Hits \ {h} : hit'[g] = hit[g]
    BY <1>1, <1>2 DEF ReadClock
  <2>2. \A g \in Hits : HoldsMember(hit[g]) => hit[g].on \in Servers
    BY DEF Begun, HoldsMember
  <2>3. drawn'[s] = drawn[s] + 1 /\ drawn[s] \in Nat
        /\ \A z \in Servers : drawn[z] \in Nat /\ drawn'[z] >= drawn[z]
    BY <1>1, <2>1
  <2>4. \A g \in Hits \ {h} : HoldsMember(hit'[g]) =>
          hit'[g].count < drawn[hit'[g].on] /\ hit'[g].on \in Servers
    BY <2>1, <2>2 DEF Numbered
  <2>5. \A g \in Hits : HoldsMember(hit'[g]) => hit'[g].count < drawn'[hit'[g].on]
    <3> SUFFICES ASSUME NEW g \in Hits, HoldsMember(hit'[g])
                 PROVE  hit'[g].count < drawn'[hit'[g].on]
      OBVIOUS
    <3>1. CASE g = h
      BY <2>1, <2>3, <3>1
    <3>2. CASE g # h
      BY <1>1, <2>1, <2>3, <2>4, <3>2
    <3>3. QED
      BY <3>1, <3>2
  <2>6. \A g \in Hits \ {h} : HoldsMember(hit'[g]) /\ hit'[g].on = s => hit'[g].count # drawn[s]
    BY <1>1, <2>1, <2>3, <2>4
  <2>7. QED
    BY <2>1, <2>5, <2>6 DEF Numbered
<1>3. ASSUME drawn' = drawn,
             \A g \in Hits : HoldsMember(hit'[g]) =>
               HoldsMember(hit[g]) /\ hit'[g].on = hit[g].on /\ hit'[g].count = hit[g].count
      PROVE  Numbered'
  BY <1>3 DEF Numbered
<1>4. ASSUME NEW h \in Hits, Shared(h) \/ Remove(h) \/ SharedFails(h) \/ LocalRejects(h)
                             \/ LocalAdmits(h)
      PROVE  Numbered'
  BY <1>3, <1>4, UnreadStep
<1>5. ASSUME NEW h \in Hits, ReadFallbackClock(h) PROVE Numbered'
  <2>1. drawn' = drawn /\ hit'[h].pc = "local" /\ \A g \in Hits \ {h} : hit'[g] = hit[g]
    BY <1>1, <1>5 DEF ReadFallbackClock, Calls
  <2>2. QED
    BY <1>3, <2>1 DEF HoldsMember
<1>6. CASE Tick \/ UNCHANGED vars
  BY <1>3, <1>6 DEF Tick, vars
<1>7. QED
  BY <1>2, <1>4, <1>5, <1>6 DEF Next

LEMMA InstantsStep ==
  ASSUME TypeOK, Begun, ~SameInstant, Instants, [Next]_vars
  PROVE  Instants'
<1>1. hit \in [Hits -> Calls]
  BY DEF TypeOK
<1>2. ASSUME NEW h \in Hits, NEW s \in Servers, MayReadClock(s),
             hit'[h].on = s, hit'[h].at = now,
             \A g \in Hits \ {h} : hit'[g] = hit[g]
      PROVE  Instants'
  BY <1>2 DEF Instants, MayReadClock
<1>3. ASSUME NEW h \in Hits, NEW s \in Servers, NEW k \in Keys, ReadClock(h, s, k)
      PROVE  Instants'
  <2>1. hit'[h].on = s /\ hit'[h].at = now /\ \A g \in Hits \ {h} : hit'[g] = hit[g]
    BY <1>1, <1>3 DEF ReadClock
  <2>2. QED
    BY <1>2, <1>3, <2>1 DEF ReadClock
<1>4. ASSUME NEW h \in Hits, ReadFallbackClock(h) PROVE Instants'
  <2>1. hit'[h].on = hit[h].on /\ hit'[h].at = now /\ hit[h].pc # "new"
        /\ MayReadClock(hit[h].on) /\ \A g \in Hits \ {h} : hit'[g] = hit[g]
    BY <1>1, <1>4 DEF ReadFallbackClock, Calls
  <2>2. hit[h].on \in Servers
    BY <2>1 DEF Begun
  <2>3. QED
    BY <1>2, <2>1, <2>2
<1>5. ASSUME NEW h \in Hits, Shared(h) \/ Remove(h) \/ SharedFails(h) \/ LocalRejects(h)
                             \/ LocalAdmits(h)
      PROVE  Instants'
  <2>1. \A g \in Hits : /\ hit'[g].on = hit[g].on /\ hit'[g].at = hit[g].at
                        /\ hit[g].pc = "new" <=> hit'[g].pc = "new"
    BY <1>5, UnreadStep
  <2>2. QED
    BY <2>1 DEF Instants
<1>6. CASE Tick \/ UNCHANGED vars
  BY <1>6 DEF Tick, vars, Instants
<1>7. QED
  BY <1>3, <1>4, <1>5, <1>6 DEF Next

\* The clock does not go back.
LEMMA ClockStep ==
  ASSUME TypeOK, Begun, [Next]_vars
  PROVE  now \in Nat /\ now' \in Nat /\ now <= now'
<1>1. now \in Nat
  BY DEF TypeOK
<1>2. ASSUME NEW h \in Hits, Shared(h) \/ Remove(h) \/ SharedFails(h)
                             \/ LocalRejects(h) \/ LocalAdmits(h)
      PROVE  now' = now
  BY <1>2, UnreadStep
<1>3. ASSUME NEW h \in Hits, ReadFallbackClock(h) PROVE now' = now
  BY <1>3 DEF ReadFallbackClock
<1>4. ASSUME NEW h \in Hits, NEW s \in Servers, NEW k \in Keys, ReadClock(h, s, k)
      PROVE  now' = now
  BY <1>4 DEF ReadClock
<1>5. CASE Tick
  BY <1>1, <1>5 DEF Tick
<1>6. CASE UNCHANGED vars
  BY <1>1, <1>6 DEF vars
<1>7. QED
  BY <1>1, <1>2, <1>3, <1>4, <1>5, <1>6 DEF Next

LEMMA SetsStep ==
  ASSUME TypeOK, Begun, Readings, Sets, [Next]_vars
  PROVE  Sets'
<1> USE TimesAssumption
<1>1. now \in Nat /\ zset \in [Keys -> SUBSET Members] /\ expiry \in [Keys -> Nat]
      /\ hit \in [Hits -> Calls]
  BY DEF TypeOK
<1>2. ASSUME NEW h \in Hits, Pipeline(h), now' = now PROVE Sets'
  <2> DEFINE k == hit[h].key
  <2> SUFFICES ASSUME NEW z \in Keys
               PROVE  /\ IsFiniteSet(zset'[z])
                      /\ \A m \in zset'[z] : m.at <= now' /\ m.at + Window <= expiry'[z]
    BY DEF Sets
  <2>1. CASE z # k
    BY <1>1, <1>2, <2>1 DEF Pipeline, Sets
  <2>2. CASE z = k
    <3>1. zset'[z] = Inserted(h) /\ expiry'[z] = now + Window
      BY <1>1, <1>2, <2>2 DEF Pipeline
    <3>2. IsFiniteSet(Inserted(h))
      <4>1. IsFiniteSet({m \in zset[k] : m.at + Window > hit[h].at})
        BY <2>2, FS_Subset DEF Sets
      <4>2. QED
        BY <4>1, FS_AddElement DEF Inserted
    <3>3. ASSUME NEW m \in Inserted(h) PROVE m.at \in Nat /\ m.at <= now
      <4>1. CASE m \in zset[k]
        BY <1>1, <2>2, <4>1 DEF Sets, Members
      <4>2. CASE m = Member(h)
        BY <1>1, <4>2 DEF Readings, Member, Calls
      <4>3. QED
        BY <3>3, <4>1, <4>2 DEF Inserted
    <3>4. QED
      BY <1>1, <1>2, <3>1, <3>2, <3>3
  <2>3. QED
    BY <2>1, <2>2
<1>3. ASSUME now <= now', expiry' = expiry, \A k \in Keys : zset'[k] \in SUBSET zset[k]
      PROVE  Sets'
  <2> SUFFICES ASSUME NEW k \in Keys
               PROVE  /\ IsFiniteSet(zset'[k])
                      /\ \A m \in zset'[k] : m.at <= now' /\ m.at + Window <= expiry'[k]
    BY DEF Sets
  <2>1. IsFiniteSet(zset'[k])
    BY <1>3, FS_Subset DEF Sets
  <2>2. \A m \in zset[k] : m.at \in Nat
    BY <1>1 DEF Members
  <2>3. now' \in Nat
    BY ClockStep
  <2>4. ASSUME NEW m \in zset'[k] PROVE m.at <= now' /\ m.at + Window <= expiry'[k]
    <3>1. m \in zset[k] /\ m.at \in Nat
      BY <1>3, <2>2, <2>4
    <3>2. m.at <= now /\ m.at + Window <= expiry[k]
      BY <3>1 DEF Sets
    <3>3. QED
      BY <1>1, <1>3, <2>3, <3>1, <3>2
  <2>5. QED
    BY <2>1, <2>4
<1>4. ASSUME NEW h \in Hits, Shared(h) PROVE Sets'
  BY <1>2, <1>4 DEF Shared
<1>5. ASSUME NEW h \in Hits, SharedFails(h) PROVE Sets'
  BY <1>1, <1>2, <1>3, <1>5 DEF SharedFails
<1>6. ASSUME NEW h \in Hits, Remove(h) PROVE Sets'
  <2>1. \A k \in Keys : zset'[k] \in SUBSET zset[k]
    BY <1>1, <1>6 DEF Remove
  <2>2. QED
    BY <1>1, <1>3, <1>6, <2>1 DEF Remove
<1>7. CASE Tick
  <2>1. \A k \in Keys : zset'[k] \in SUBSET zset[k]
    BY <1>7 DEF Tick, Expired
  <2>2. QED
    BY <1>1, <1>3, <1>7, <2>1 DEF Tick
<1>8. CASE UNCHANGED vars
  BY <1>1, <1>3, <1>8 DEF vars
<1>9. ASSUME UNCHANGED <<now, zset, expiry>> PROVE Sets'
  BY <1>1, <1>3, <1>9
<1>10. ASSUME NEW h \in Hits, NEW s \in Servers, NEW k \in Keys, ReadClock(h, s, k) PROVE Sets'
  BY <1>9, <1>10 DEF ReadClock
<1>11. ASSUME NEW h \in Hits, ReadFallbackClock(h) \/ LocalRejects(h) \/ LocalAdmits(h)
       PROVE  Sets'
  BY <1>9, <1>11 DEF ReadFallbackClock, LocalRejects, LocalAdmits
<1>12. QED
  BY <1>4, <1>5, <1>6, <1>7, <1>8, <1>10, <1>11 DEF Next

\* No two members are the same.
LEMMA DistinctMembers ==
  ASSUME Numbered, Instants, NEW g \in Hits, NEW h \in Hits, g # h,
         HoldsMember(hit[g]), HoldsMember(hit[h])
  PROVE  Member(g) # Member(h)
<1>1. SUFFICES ASSUME hit[g].at = hit[h].at, hit[g].count = hit[h].count
               PROVE  FALSE
  BY DEF Member
<1>2. hit[g].on = hit[h].on
  BY <1>1 DEF Instants, HoldsMember
<1>3. QED
  BY <1>1, <1>2 DEF Numbered

\* Redis or a process admits a hit.
LEMMA NewAdmission ==
  ASSUME TypeOK, Begun, [Next]_vars, NEW h \in Hits, hit[h].pc # "admitted",
         hit'[h].pc = "admitted"
  PROVE  /\ now' = now /\ hit'[h].key = hit[h].key /\ hit'[h].at = hit[h].at /\ Late(h)
         /\ \/ Shared(h) /\ hit'[h].by = Redis /\ ~(Cardinality(Inserted(h)) > Limit)
            \/ LocalAdmits(h) /\ hit'[h].by = hit[h].on
<1>1. hit \in [Hits -> Calls] /\ hit[h] \in Calls
  BY DEF TypeOK
<1>2. ASSUME NEW g \in Hits, Shared(g)
      PROVE  /\ now' = now /\ hit'[h].key = hit[h].key /\ hit'[h].at = hit[h].at /\ Late(h)
             /\ Shared(h) /\ hit'[h].by = Redis /\ ~(Cardinality(Inserted(h)) > Limit)
  <2>1. g = h
    BY <1>1, <1>2 DEF Shared
  <2>2. CASE Cardinality(Inserted(h)) > Limit
    <3>1. hit' = [hit EXCEPT ![h] = Decided(h, "removing", Redis)]
      BY <1>2, <2>1, <2>2 DEF Shared
    <3>2. QED
      BY <1>1, <3>1 DEF Decided, Calls
  <2>3. CASE ~(Cardinality(Inserted(h)) > Limit)
    <3>1. hit' = [hit EXCEPT ![h] = Decided(h, "admitted", Redis)] /\ now' = now
          /\ hit[h].pc = "timed"
      BY <1>2, <2>1, <2>3 DEF Shared
    <3>2. QED
      BY <1>1, <1>2, <2>1, <2>3, <3>1 DEF Decided, Calls, Late
  <2>4. QED
    BY <2>2, <2>3
<1>3. ASSUME NEW g \in Hits, LocalAdmits(g)
      PROVE  /\ now' = now /\ hit'[h].key = hit[h].key /\ hit'[h].at = hit[h].at /\ Late(h)
             /\ LocalAdmits(h) /\ hit'[h].by = hit[h].on
  <2>1. g = h
    BY <1>1, <1>3 DEF LocalAdmits
  <2>2. hit' = [hit EXCEPT ![h] = Decided(h, "admitted", hit[h].on)] /\ now' = now
        /\ hit[h].pc = "local"
    BY <1>3, <2>1 DEF LocalAdmits
  <2>3. QED
    BY <1>1, <1>3, <2>1, <2>2 DEF Decided, Calls, Late
<1>4. ASSUME NEW g \in Hits, Remove(g) PROVE FALSE
  <2>1. hit' = [hit EXCEPT ![g] = Decided(g, "rejected", Redis)] /\ hit[g] \in Calls
    BY <1>1, <1>4 DEF Remove, TypeOK
  <2>2. Decided(g, "rejected", Redis).pc = "rejected"
    BY <2>1 DEF Decided, Calls
  <2>3. QED
    BY <1>1, <2>1, <2>2
<1>5. ASSUME NEW g \in Hits, LocalRejects(g) PROVE FALSE
  <2>1. hit' = [hit EXCEPT ![g] = Decided(g, "rejected", hit[g].on)] /\ hit[g] \in Calls
    BY <1>1, <1>5 DEF LocalRejects, TypeOK
  <2>2. Decided(g, "rejected", hit[g].on).pc = "rejected"
    BY <2>1 DEF Decided, Calls
  <2>3. QED
    BY <1>1, <2>1, <2>2
<1>6. ASSUME NEW g \in Hits, NEW s \in Servers, NEW k \in Keys, ReadClock(g, s, k) PROVE FALSE
  BY <1>1, <1>6 DEF ReadClock
<1>7. ASSUME NEW g \in Hits, SharedFails(g) \/ ReadFallbackClock(g) PROVE FALSE
  BY <1>1, <1>7 DEF SharedFails, ReadFallbackClock, Calls
<1>8. QED
  BY <1>2, <1>3, <1>4, <1>5, <1>6, <1>7 DEF Next, vars, Tick

LEMMA KeptStep ==
  ASSUME TypeOK, Begun, Readings, Numbered, Instants, Sets, Kept, [Next]_vars
  PROVE  Kept'
<1> USE TimesAssumption
<1>1. /\ now \in Nat /\ zset \in [Keys -> SUBSET Members] /\ expiry \in [Keys -> Nat]
      /\ hit \in [Hits -> Calls] /\ \A g \in Hits : hit[g].at \in Nat
  BY DEF TypeOK, Calls
<1>2. SUFFICES ASSUME NEW k \in Keys, NEW h \in Hits, hit'[h].pc = "admitted",
                      hit'[h].by = Redis, hit'[h].key = k
               PROVE  Member(h)' \in zset'[k] \/ hit'[h].at + Window <= now'
  BY DEF Kept, Admitted
<1>3. CASE hit[h].pc # "admitted"
  <2>1. Shared(h) /\ hit[h].key = k
    <3>1. ~LocalAdmits(h) \/ hit'[h].by # hit[h].on
      BY <1>2, PlacesAssumption DEF LocalAdmits, Begun
    <3>2. QED
      BY <1>2, <1>3, <3>1, NewAdmission
  <2>2. zset'[k] = Inserted(h)
    BY <1>1, <1>2, <2>1 DEF Shared, Pipeline
  <2>3. Member(h)' = Member(h)
    BY <2>1, UnreadStep DEF Member
  <2>4. QED
    BY <2>2, <2>3 DEF Inserted
<1>4. CASE hit[h].pc = "admitted"
  <2>1. hit'[h] = hit[h]
    BY <1>4, FinalCalls
  <2>2. Member(h)' = Member(h) /\ Member(h).at = hit[h].at /\ HoldsMember(hit[h])
    BY <1>2, <1>4, <2>1 DEF Member, HoldsMember
  <2>3. Member(h) \in zset[k] \/ hit[h].at + Window <= now
    BY <1>2, <1>4, <2>1 DEF Kept, Admitted
  <2>4. now \in Nat /\ now' \in Nat /\ now <= now'
    BY ClockStep
  <2>5. SUFFICES ASSUME Member(h) \in zset[k]
                 PROVE  Member(h) \in zset'[k] \/ hit[h].at + Window <= now'
    BY <1>1, <2>1, <2>2, <2>3, <2>4
  <2>6. ASSUME NEW g \in Hits, Pipeline(g)
        PROVE  Member(h) \in zset'[k] \/ hit[h].at + Window <= now'
    <3>1. CASE k # hit[g].key
      BY <1>1, <2>5, <2>6, <3>1 DEF Pipeline
    <3>2. CASE k = hit[g].key
      <4>1. zset'[k] = Inserted(g)
        BY <1>1, <2>6, <3>2 DEF Pipeline
      <4>2. hit[g].at <= now
        BY DEF Readings
      <4>3. CASE hit[h].at + Window > hit[g].at
        BY <2>2, <2>5, <3>2, <4>1, <4>3 DEF Inserted
      <4>4. CASE ~(hit[h].at + Window > hit[g].at)
        BY <1>1, <2>4, <4>2, <4>4
      <4>5. QED
        BY <4>3, <4>4
    <3>3. QED
      BY <3>1, <3>2
  <2>7. ASSUME NEW g \in Hits, Remove(g) PROVE Member(h) \in zset'[k]
    <3>1. hit[g].pc = "removing" /\ g # h /\ HoldsMember(hit[g])
      BY <1>4, <2>7 DEF Remove, HoldsMember
    <3>2. Member(g) # Member(h)
      BY <2>2, <3>1, DistinctMembers
    <3>3. QED
      BY <1>1, <2>5, <2>7, <3>2 DEF Remove
  <2>8. CASE Tick
    <3>1. hit[h].at + Window <= expiry[k]
      BY <2>2, <2>5 DEF Sets
    <3>2. now' = now + 1 /\ zset'[k] = IF expiry[k] <= now + 1 THEN {} ELSE zset[k]
      BY <2>8 DEF Tick, Expired
    <3>3. expiry[k] \in Nat /\ hit[h].at \in Nat
      BY <1>1
    <3>4. CASE expiry[k] <= now + 1
      BY <1>1, <3>1, <3>2, <3>3, <3>4
    <3>5. CASE ~(expiry[k] <= now + 1)
      BY <2>5, <3>2, <3>5
    <3>6. QED
      BY <3>4, <3>5
  <2>9. CASE UNCHANGED zset
    BY <2>5, <2>9
  <2>10. QED
    BY <2>6, <2>7, <2>8, <2>9
       DEF Next, vars, ReadClock, Shared, SharedFails, ReadFallbackClock, LocalRejects, LocalAdmits
<1>5. QED
  BY <1>3, <1>4

\* The hits of a span that ends with h are what its window counted.
Span(p, k, t) ==
  {h \in Admitted(p, k) : t <= hit[h].at /\ hit[h].at + 2 * Lag < t + Window}

LEMMA AdmittedByRedis ==
  ASSUME TypeOK, TypeOK', Begun, Readings', Numbered', Instants', Kept', Sets,
         NEW h \in Hits, NEW k \in Keys, NEW t \in Nat,
         Shared(h), ~(Cardinality(Inserted(h)) > Limit), k = hit[h].key,
         h \in Span(Redis, k, t)', now' <= hit'[h].at + Lag
  PROVE  Cardinality(Span(Redis, k, t)') <= Limit
<1> USE TimesAssumption
<1> DEFINE S == Span(Redis, k, t)'
           f == [g \in S |-> Member(g)']
<1>1. /\ now' \in Nat /\ \A g \in Hits : hit'[g].at \in Nat
  BY DEF TypeOK, Calls
<1>2. zset'[k] = Inserted(h)
  BY DEF Shared, Pipeline, TypeOK
<1>3. ASSUME NEW g \in S PROVE g \in Hits /\ HoldsMember(hit[g])' /\ Member(g)' \in Inserted(h)
  <2>1. g \in Hits /\ g \in Admitted(Redis, k)' /\ t <= hit'[g].at
    BY <1>3 DEF Span, Admitted
  <2>2. hit'[h].at + 2 * Lag < t + Window
    BY DEF Span
  <2>3. hit'[g].at \in Nat /\ hit'[h].at \in Nat
    BY <1>1, <2>1
  <2>4. ~(hit'[g].at + Window <= now')
    BY <1>1, <2>1, <2>2, <2>3
  <2>5. Member(g)' \in zset'[k]
    BY <2>1, <2>4 DEF Kept
  <2>6. QED
    BY <1>2, <2>1, <2>5 DEF Admitted, HoldsMember
<1>4. ASSUME NEW g \in S, NEW z \in S, Member(g)' = Member(z)' PROVE g = z
  <2>1. hit'[g].at = hit'[z].at /\ hit'[g].count = hit'[z].count
    BY <1>4 DEF Member
  <2>2. /\ g \in Hits /\ z \in Hits
        /\ HoldsMember(hit[g])' /\ HoldsMember(hit[z])'
    BY <1>3
  <2>3. hit'[g].on = hit'[z].on
    BY <2>1, <2>2 DEF Instants, HoldsMember
  <2>4. QED
    BY <2>1, <2>2, <2>3 DEF Numbered
<1>5. f \in Injection(S, Inserted(h))
  <2>1. f \in [S -> Inserted(h)]
    BY <1>3
  <2>2. \A g, z \in S : f[g] = f[z] => g = z
    BY <1>4
  <2> HIDE DEF f
  <2>3. QED
    BY <2>1, <2>2 DEF Injection, IsInjective
<1>6. IsFiniteSet(Inserted(h))
  <2>1. IsFiniteSet({m \in zset[k] : m.at + Window > hit[h].at})
    BY FS_Subset DEF Sets
  <2>2. QED
    BY <2>1, FS_AddElement DEF Inserted
<1> HIDE DEF f
<1>7. Cardinality(S) <= Cardinality(Inserted(h)) /\ IsFiniteSet(S)
  BY <1>5, <1>6, FS_Injection
<1>8. Cardinality(S) \in Nat /\ Cardinality(Inserted(h)) \in Nat
  BY <1>6, <1>7, FS_CardinalityType
<1>9. QED
  BY <1>7, <1>8, LimitAssumption

LEMMA AdmittedByProcess ==
  ASSUME TypeOK', Deques', NEW h \in Hits, NEW s \in Servers, NEW k \in Keys, NEW t \in Nat,
         h \in Span(s, k, t)', now' <= hit'[h].at + Lag
  PROVE  Cardinality(Span(s, k, t)') <= Limit
<1> USE TimesAssumption
<1> DEFINE S == Span(s, k, t)'
           b == bucket'[s][k]
<1>1. /\ now' \in Nat /\ b \in Seq(Hits) /\ \A g \in Hits : hit'[g].at \in Nat
  BY DEF TypeOK, Calls
<1>2. Deque(b, s, k, hit', now')
  BY DEF Deques
<1>3. S \in SUBSET Elements(b)
  <2> SUFFICES ASSUME NEW g \in S PROVE g \in Elements(b)
    OBVIOUS
  <2>1. g \in AdmittedIn(hit', s, k) /\ g \in Hits /\ t <= hit'[g].at
    BY DEF Span, Admitted, AdmittedIn
  <2>2. hit'[h].at + 2 * Lag < t + Window
    BY DEF Span
  <2>3. hit'[g].at \in Nat /\ hit'[h].at \in Nat /\ now' \in Nat
    BY <1>1, <2>1
  <2>4. ~(hit'[g].at + Window <= now' + Lag)
    BY <2>1, <2>2, <2>3
  <2>5. QED
    BY <1>2, <2>1, <2>4 DEF Deque
<1>4. IsFiniteSet(Elements(b)) /\ Cardinality(Elements(b)) <= Len(b) /\ Len(b) <= Limit
      /\ Len(b) \in Nat
  BY <1>1, <1>2, ElementsCount DEF Deque
<1> HIDE DEF S, b
<1>5. Cardinality(S) <= Cardinality(Elements(b)) /\ IsFiniteSet(S)
  BY <1>3, <1>4, FS_Subset
<1>6. Cardinality(S) \in Nat /\ Cardinality(Elements(b)) \in Nat
  BY <1>4, <1>5, FS_CardinalityType
<1>7. QED
  BY <1>4, <1>5, <1>6, LimitAssumption DEF S

LEMMA AdmissionStep ==
  ASSUME TypeOK, TypeOK', Begun, Readings, Deques', Sets, Numbered', Instants', Readings', Kept',
         AdmissionBounded, [Next]_vars
  PROVE  AdmissionBounded'
<1> USE TimesAssumption
<1>1. SUFFICES ASSUME NEW p \in Places, NEW k \in Keys, NEW t \in 0 .. MaxTime
               PROVE  Cardinality(Span(p, k, t)') <= Limit
  BY DEF AdmissionBounded, Span
<1>2. Cardinality(Span(p, k, t)) <= Limit
  BY <1>1 DEF AdmissionBounded, Span
<1>3. CASE \E h \in Span(p, k, t)' : hit[h].pc # "admitted"
  <2>1. PICK h \in Span(p, k, t)' : hit[h].pc # "admitted"
    BY <1>3
  <2>2. h \in Hits /\ hit'[h].pc = "admitted" /\ hit'[h].by = p /\ hit'[h].key = k
    BY <2>1 DEF Span, Admitted
  <2>3. /\ now' = now /\ hit[h].key = k /\ hit'[h].at = hit[h].at /\ Late(h)
        /\ \/ Shared(h) /\ p = Redis /\ ~(Cardinality(Inserted(h)) > Limit)
           \/ LocalAdmits(h) /\ p = hit[h].on
    BY <2>1, <2>2, NewAdmission
  <2>4. now' <= hit'[h].at + Lag
    BY <2>2, <2>3 DEF Readings
  <2>5. CASE Shared(h) /\ p = Redis /\ ~(Cardinality(Inserted(h)) > Limit)
    BY <2>1, <2>2, <2>3, <2>4, <2>5, AdmittedByRedis
  <2>6. CASE LocalAdmits(h) /\ p = hit[h].on
    <3>1. p \in Servers
      BY <2>2, <2>6 DEF LocalAdmits, Begun
    <3>2. QED
      BY <2>1, <2>2, <2>4, <3>1, AdmittedByProcess
  <2>7. QED
    BY <2>3, <2>5, <2>6
<1>4. CASE \A h \in Span(p, k, t)' : hit[h].pc = "admitted"
  <2>1. Span(p, k, t)' \in SUBSET Span(p, k, t)
    BY <1>4, FinalCalls DEF Span, Admitted
  <2>2. IsFiniteSet(Span(p, k, t))
    <3>1. Span(p, k, t) \in SUBSET Hits
      BY DEF Span, Admitted
    <3>2. QED
      BY <3>1, EnvAssumption, FS_Subset
  <2>3. Cardinality(Span(p, k, t)') <= Cardinality(Span(p, k, t)) /\ IsFiniteSet(Span(p, k, t)')
    BY <2>1, <2>2, FS_Subset
  <2>4. Cardinality(Span(p, k, t)') \in Nat /\ Cardinality(Span(p, k, t)) \in Nat
    BY <2>2, <2>3, FS_CardinalityType
  <2>5. QED
    BY <1>2, <2>3, <2>4, LimitAssumption
<1>5. QED
  BY <1>3, <1>4

\* When no two processes read the same instant, Redis and every process that falls
\* back admit no more than the limit in any span of a window, late hits included.
THEOREM AdmissionCorrect == ~SameInstant => (Spec => []AdmissionBounded)
<1> SUFFICES ASSUME ~SameInstant PROVE Spec => []AdmissionBounded
  OBVIOUS
<1>1. Init => Readings /\ Numbered /\ Instants /\ Sets /\ Kept /\ AdmissionBounded
  <2> SUFFICES ASSUME Init PROVE Readings /\ Numbered /\ Instants /\ Sets /\ Kept /\ AdmissionBounded
    OBVIOUS
  <2>1. Readings
    BY TimesAssumption DEF Init, Readings, Late, Unmade
  <2>2. Numbered /\ Instants
    BY DEF Init, Numbered, Instants, HoldsMember, Unmade
  <2>3. Sets
    BY FS_EmptySet DEF Init, Sets
  <2>4. \A p, k : Admitted(p, k) = {}
    BY DEF Init, Admitted, Unmade
  <2>5. Kept
    BY <2>4 DEF Kept
  <2>6. AdmissionBounded
    <3>1. \A p, k, t : Span(p, k, t) = {}
      BY <2>4 DEF Span
    <3>2. Cardinality({}) = 0
      BY FS_EmptySet
    <3>3. QED
      BY <3>1, <3>2, LimitAssumption DEF AdmissionBounded, Span
  <2>7. QED
    BY <2>1, <2>2, <2>3, <2>5, <2>6
<1>2. /\ TypeOK /\ TypeOK' /\ Begun /\ Readings /\ Numbered /\ Instants /\ Sets /\ Kept
      /\ Deques /\ Deques' /\ AdmissionBounded /\ [Next]_vars
      => (Readings /\ Numbered /\ Instants /\ Sets /\ Kept /\ AdmissionBounded)'
  BY ReadingsStep, NumberedStep, InstantsStep, SetsStep, KeptStep, AdmissionStep
<1>3. QED
  BY <1>1, <1>2, Typing, DequesInvariant, PTL DEF Spec
=============================================================================
