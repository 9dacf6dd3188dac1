---------------------------- MODULE RateLimiter ----------------------------
(***************************************************************************)
(* The sliding-window limiter every request passes (rate_limit.py): the    *)
(* sorted sets that all processes share in Redis, and the in-process       *)
(* buckets a process falls back to when Redis raises.  A deployment        *)
(* without Redis is one in which it raises every time.                     *)
(*                                                                         *)
(* The clock is read before the pipeline is sent, and before the lock is   *)
(* taken: hits arrive in an order that is not the order of their times.    *)
(***************************************************************************)
EXTENDS Naturals, Sequences, FiniteSets

CONSTANTS
  Servers,      \* API processes
  Hits,         \* calls of hit
  Keys,         \* what is limited: a principal's writes, a client's reads
  Limit,        \* limit_per_minute
  Window,       \* window_seconds
  Lag,          \* the longest a hit takes from its clock reading to its place
  MaxTime,      \* bound on the clock
  Redis,        \* the shared window, when it is not a server's own
  SameInstant,  \* may two processes read the very same microsecond?
  Nobody        \* no key, no process, no window

ASSUME LimitAssumption == Limit \in Nat \ {0}
ASSUME TimesAssumption == Window \in Nat \ {0} /\ Lag \in Nat /\ MaxTime \in Nat
ASSUME PlacesAssumption ==
  Redis \notin Servers /\ Nobody \notin Servers \cup Keys \cup {Redis}
ASSUME EnvAssumption == SameInstant \in BOOLEAN /\ IsFiniteSet(Hits)

VARIABLES
  now,     \* time.time()
  hit,     \* hit[h]: progress of a call
  zset,    \* zset[k]: the members of the sorted set of key k
  expiry,  \* expiry[k]: when Redis drops the sorted set of key k
  drawn,   \* drawn[s]: the values process s has drawn from its counter
  bucket   \* bucket[s][k]: the deque of process s, a hit standing for its time

vars == <<now, hit, zset, expiry, drawn, bucket>>

Places == Servers \cup {Redis}
Members == [at: Nat, count: Nat]

\* at: the clock it read; count: its counter value; by: the window that decided.
Calls == [pc: {"new", "timed", "fallback", "local", "removing", "admitted", "rejected"},
          on: Servers \cup {Nobody}, key: Keys \cup {Nobody}, at: Nat, count: Nat,
          by: Places \cup {Nobody}]
Unmade == [pc |-> "new", on |-> Nobody, key |-> Nobody, at |-> 0, count |-> 0, by |-> Nobody]

\* A reading that has not reached its window yet.
Late(h) == hit[h].pc \in {"timed", "local"}
MayReadClock(s) ==
  SameInstant \/ \A g \in Hits : hit[g].pc # "new" /\ hit[g].at = now => hit[g].on = s

Init ==
  /\ now = 0
  /\ hit = [h \in Hits |-> Unmade]
  /\ zset = [k \in Keys |-> {}]
  /\ expiry = [k \in Keys |-> 0]
  /\ drawn = [s \in Servers |-> 0]
  /\ bucket = [s \in Servers |-> [k \in Keys |-> <<>>]]

-----------------------------------------------------------------------------
\* A call that has an answer, and the window that decided it.
Decided(h, outcome, place) == [hit[h] EXCEPT !.pc = outcome, !.by = place]

(* RedisRateLimiter.hit *)

\* The member is made of the clock and of a counter of the process.
ReadClock(h, s, k) ==
  /\ hit[h].pc = "new"
  /\ MayReadClock(s)
  /\ hit' = [hit EXCEPT ![h] = [pc |-> "timed", on |-> s, key |-> k, at |-> now,
                                count |-> drawn[s], by |-> Nobody]]
  /\ drawn' = [drawn EXCEPT ![s] = @ + 1]
  /\ UNCHANGED <<now, zset, expiry, bucket>>

Member(h) == [at |-> hit[h].at, count |-> hit[h].count]

\* ZREMRANGEBYSCORE and ZADD: what the pipeline leaves, and ZCARD counts.
Inserted(h) ==
  {m \in zset[hit[h].key] : m.at + Window > hit[h].at} \cup {Member(h)}

Pipeline(h) ==
  /\ zset' = [zset EXCEPT ![hit[h].key] = Inserted(h)]
  /\ expiry' = [expiry EXCEPT ![hit[h].key] = now + Window]

\* MUTANT: ZCARD stands before ZADD in the pipeline.
SharedCountsFirst(h) ==
  /\ hit[h].pc = "timed"
  /\ Pipeline(h)
  /\ hit' = [hit EXCEPT ![h] =
       Decided(h, IF Cardinality(Inserted(h) \ {Member(h)}) > Limit THEN "removing"
                  ELSE "admitted", Redis)]
  /\ UNCHANGED <<now, drawn, bucket>>

Shared(h) ==
  /\ hit[h].pc = "timed"
  /\ Pipeline(h)
  /\ hit' = [hit EXCEPT ![h] =
       Decided(h, IF Cardinality(Inserted(h)) > Limit THEN "removing" ELSE "admitted", Redis)]
  /\ UNCHANGED <<now, drawn, bucket>>

\* The ZREM of a rejected hit, best effort.
Remove(h) ==
  /\ hit[h].pc = "removing"
  /\ zset' \in {zset, [zset EXCEPT ![hit[h].key] = @ \ {Member(h)}]}
  /\ hit' = [hit EXCEPT ![h] = Decided(h, "rejected", Redis)]
  /\ UNCHANGED <<now, expiry, drawn, bucket>>

\* The pipeline raises, before Redis executed it or after.
SharedFails(h) ==
  /\ hit[h].pc = "timed"
  /\ Pipeline(h) \/ UNCHANGED <<zset, expiry>>
  /\ hit' = [hit EXCEPT ![h].pc = "fallback"]
  /\ UNCHANGED <<now, drawn, bucket>>

-----------------------------------------------------------------------------
(* SlidingWindowRateLimiter.hit *)

\* The fallback reads the clock again.
ReadFallbackClock(h) ==
  /\ hit[h].pc = "fallback"
  /\ MayReadClock(hit[h].on)
  /\ hit' = [hit EXCEPT ![h] = [@ EXCEPT !.pc = "local", !.at = now, !.count = 0]]
  /\ UNCHANGED <<now, zset, expiry, drawn, bucket>>

\* Is the hit g past the window of a call that read the clock at t?
Past(g, t) == hit[g].at + Window <= t

\* The n hits at the head of the deque b are those popleft removes.
IsPopped(b, n, t) ==
  /\ n \in 0 .. Len(b)
  /\ \A i \in 1 .. n : Past(b[i], t)
  /\ n < Len(b) => ~Past(b[n + 1], t)

\* _evict_locked: a bucket is dropped when its last hit is past the window.
Evicted(buckets, t) ==
  [k \in Keys |-> IF buckets[k] # <<>> /\ Past(buckets[k][Len(buckets[k])], t)
                  THEN <<>> ELSE buckets[k]]

\* MUTANT: a rejected hit is recorded as well.
LocalRejectsRecorded(h) ==
  LET s == hit[h].on
      k == hit[h].key
      b == bucket[s][k]
  IN  /\ hit[h].pc = "local"
      /\ \E n \in 0 .. Len(b) :
           /\ IsPopped(b, n, hit[h].at)
           /\ Len(b) - n >= Limit
           /\ bucket' = [bucket EXCEPT ![s] =
                Evicted([@ EXCEPT ![k] = Append(SubSeq(b, n + 1, Len(b)), h)], hit[h].at)]
      /\ hit' = [hit EXCEPT ![h] = Decided(h, "rejected", s)]
      /\ UNCHANGED <<now, zset, expiry, drawn>>

LocalRejects(h) ==
  LET s == hit[h].on
      k == hit[h].key
      b == bucket[s][k]
  IN  /\ hit[h].pc = "local"
      /\ \E n \in 0 .. Len(b) :
           /\ IsPopped(b, n, hit[h].at)
           /\ Len(b) - n >= Limit
           /\ bucket' = [bucket EXCEPT ![s] =
                Evicted([@ EXCEPT ![k] = SubSeq(b, n + 1, Len(b))], hit[h].at)]
      /\ hit' = [hit EXCEPT ![h] = Decided(h, "rejected", s)]
      /\ UNCHANGED <<now, zset, expiry, drawn>>

LocalAdmits(h) ==
  LET s == hit[h].on
      k == hit[h].key
      b == bucket[s][k]
  IN  /\ hit[h].pc = "local"
      /\ \E n \in 0 .. Len(b) :
           /\ IsPopped(b, n, hit[h].at)
           /\ Len(b) - n < Limit
           /\ bucket' = [bucket EXCEPT ![s] =
                Evicted([@ EXCEPT ![k] = Append(SubSeq(b, n + 1, Len(b)), h)], hit[h].at)]
      /\ hit' = [hit EXCEPT ![h] = Decided(h, "admitted", s)]
      /\ UNCHANGED <<now, zset, expiry, drawn>>

-----------------------------------------------------------------------------
\* The sorted sets Redis has dropped when the clock has advanced.
Expired == [k \in Keys |-> IF expiry[k] <= now + 1 THEN {} ELSE zset[k]]

\* A hit reaches its window within Lag ticks.
Tick ==
  /\ now < MaxTime
  /\ \A h \in Hits : Late(h) => now < hit[h].at + Lag
  /\ now' = now + 1
  /\ zset' = Expired
  /\ UNCHANGED <<hit, expiry, drawn, bucket>>

Next ==
  \/ \E h \in Hits, s \in Servers, k \in Keys : ReadClock(h, s, k)
  \/ \E h \in Hits : Shared(h) \/ Remove(h) \/ SharedFails(h)
  \/ \E h \in Hits : ReadFallbackClock(h) \/ LocalRejects(h) \/ LocalAdmits(h)
  \/ Tick

Spec == Init /\ [][Next]_vars

-----------------------------------------------------------------------------
\* The type of the state.
TypeOK ==
  /\ now \in Nat
  /\ hit \in [Hits -> Calls]
  /\ zset \in [Keys -> SUBSET Members]
  /\ expiry \in [Keys -> Nat]
  /\ drawn \in [Servers -> Nat]
  /\ bucket \in [Servers -> [Keys -> Seq(Hits)]]

Admitted(p, k) == {h \in Hits : hit[h].pc = "admitted" /\ hit[h].by = p /\ hit[h].key = k}

\* "Unlike a fixed-window counter (which can admit up to ~2x the limit
\* straddling a window boundary)": no span as long as the window, less what two
\* late hits can take off it, holds more admitted hits of a key than the limit,
\* wherever the span begins; each process that has fallen back is a window of
\* its own.
AdmissionBounded ==
  \A p \in Places, k \in Keys, t \in 0 .. MaxTime :
    Cardinality({h \in Admitted(p, k) : t <= hit[h].at /\ hit[h].at + 2 * Lag < t + Window})
      <= Limit

\* A process rejects a hit only when as many as the limit were admitted by it in
\* the window before it, give or take a late hit: what it rejects does not count.
RejectedJustly ==
  \A h \in Hits : hit[h].pc = "rejected" /\ hit[h].by \in Servers =>
    Cardinality({g \in Admitted(hit[h].by, hit[h].key) :
                   hit[h].at < hit[g].at + Window + Lag /\ hit[g].at <= hit[h].at + Lag})
      >= Limit
=============================================================================
