------------------------ MODULE ResponseCacheProofs ------------------------
(***************************************************************************)
(* The staleness of a cached response is bounded for every number of       *)
(* processes, requests and uploads, bumped or not; and an acknowledged     *)
(* upload is missing only from entries that were filled across a bump.     *)
(***************************************************************************)
EXTENDS ResponseCache, TLAPS

-----------------------------------------------------------------------------
(* Typing. *)

LEMMA TypeStep ==
  ASSUME TypeOK, [Next]_vars
  PROVE  TypeOK'
<1> USE TimesAssumption DEF TypeOK, Readings, Entries, Data
<1>1. CASE UNCHANGED vars
  BY <1>1 DEF vars
<1>2. ASSUME NEW r \in Readers, NEW s \in Servers, Hit(r, s) PROVE TypeOK'
  <2>1. cache[s] \in Entries
    BY <1>2 DEF Hit, Usable
  <2>2. [pc |-> "done", on |-> s, asked |-> now, floor |-> acked[s], read |-> now,
         stamp |-> version[s], value |-> cache[s].value, crossed |-> cache[s].crossed]
          \in Readings
    BY <2>1
  <2>3. QED
    BY <1>2, <2>2 DEF Hit
<1>3. ASSUME NEW r \in Readers, NEW s \in Servers, Miss(r, s) PROVE TypeOK'
  <2>1. [pc |-> "query", on |-> s, asked |-> now, floor |-> acked[s], read |-> now,
         stamp |-> version[s], value |-> 0, crossed |-> FALSE] \in Readings
    OBVIOUS
  <2>2. cache' \in [Servers -> Entries \cup {Nothing}]
    BY <1>3 DEF Miss
  <2>3. QED
    BY <1>3, <2>1, <2>2 DEF Miss
<1>4. ASSUME NEW r \in Readers, Query(r) PROVE TypeOK'
  <2>1. reader[r].on \in Servers /\ reader[r] \in Readings
    BY <1>4 DEF Query
  <2>2. Len(ended) \in Nat /\ version[reader[r].on] \in Nat
    BY <2>1
  <2>3. /\ [reader[r] EXCEPT !.pc = "filled", !.read = now, !.stamp = version[reader[r].on],
                             !.value = Len(ended)] \in Readings
        /\ [reader[r] EXCEPT !.pc = "filled", !.read = now, !.stamp = version[reader[r].on],
                             !.value = Len(ended)].on = reader[r].on
    BY <2>1, <2>2
  <2>4. QED
    BY <1>4, <2>1, <2>3 DEF Query
<1>5. ASSUME NEW r \in Readers, Fill(r) PROVE TypeOK'
  <2> DEFINE entry == [value |-> reader[r].value, version |-> version[reader[r].on],
                       expires |-> now + TTL,
                       crossed |-> reader[r].stamp # version[reader[r].on]]
  <2>1. reader[r] \in Readings /\ now + TTL \in Nat /\ reader[r].on \in Servers
    BY <1>5 DEF Fill
  <2>2. (reader[r].stamp # version[reader[r].on]) \in BOOLEAN
    OBVIOUS
  <2>3. entry \in Entries
    BY <2>1, <2>2
  <2>4. cache' = cache \/ cache' = [cache EXCEPT ![reader[r].on] = entry]
    BY <1>5 DEF Fill
  <2>5. cache' \in [Servers -> Entries \cup {Nothing}]
    <3> HIDE DEF entry
    <3>1. QED
      BY <2>1, <2>3, <2>4
  <2>6. QED
    BY <1>5, <2>1, <2>5 DEF Fill
<1>6. ASSUME NEW u \in Uploads, NEW s \in Servers, Commit(u, s) PROVE TypeOK'
  <2>1. Len(ended) + 1 \in Nat /\ Append(ended, now) \in Seq(Nat)
    OBVIOUS
  <2>2. [pc |-> "committed", on |-> s, nth |-> Len(ended) + 1]
          \in [pc: {"new", "committed", "done"}, on: Servers \cup {Nothing}, nth: Nat]
    BY <2>1
  <2>3. QED
    BY <1>6, <2>1, <2>2 DEF Commit
<1>7. ASSUME NEW u \in Uploads, Bump(u) PROVE TypeOK'
  <2>1. version' \in [Servers -> Nat]
    <3>1. version' = [version EXCEPT ![upload[u].on] = @ + 1] /\ version \in [Servers -> Nat]
      BY <1>7 DEF Bump
    <3>2. \A s \in Servers : version[s] \in Nat /\ version[s] + 1 \in Nat
      BY <3>1
    <3>3. QED
      BY ONLY <3>1, <3>2
  <2>6. cache' \in [Servers -> Entries \cup {Nothing}]
    <3>1. cache' = [cache EXCEPT ![upload[u].on] = Nothing]
      BY <1>7 DEF Bump
    <3>2. cache \in [Servers -> Entries \cup {Nothing}]
      OBVIOUS
    <3>3. QED
      BY ONLY <3>1, <3>2
  <2>2. Acknowledged(u) \in [Servers -> Nat]
    BY DEF Acknowledged
  <2>3. [upload[u] EXCEPT !.pc = "done"]
          \in [pc: {"new", "committed", "done"}, on: Servers \cup {Nothing}, nth: Nat]
    OBVIOUS
  <2>4. upload' \in [Uploads -> [pc: {"new", "committed", "done"},
                                on: Servers \cup {Nothing}, nth: Nat]]
    BY <1>7, <2>3 DEF Bump
  <2>5. QED
    BY <1>7, <2>1, <2>2, <2>4, <2>6 DEF Bump
<1>8. ASSUME NEW u \in Uploads, RefreshFails(u) PROVE TypeOK'
  BY <1>8 DEF RefreshFails
<1>9. CASE Tick
  BY <1>9 DEF Tick
<1>10. QED
  BY <1>1, <1>2, <1>3, <1>4, <1>5, <1>6, <1>7, <1>8, <1>9 DEF Next

\* The state keeps its type.
THEOREM TypeCorrect == Spec => []TypeOK
<1>1. Init => TypeOK
  BY DEF Init, TypeOK, Readings, Unread, Entries
<1>2. QED
  BY <1>1, TypeStep, PTL DEF Spec

-----------------------------------------------------------------------------
(* Staleness. *)

\* When version v of the data ended.
Outdated(v) == ended[v + 1]

FilledOK(r) ==
  /\ reader[r].value <= Data
  /\ reader[r].value < Data => reader[r].read <= Outdated(reader[r].value)
  /\ reader[r].asked <= reader[r].read /\ reader[r].read <= now
  /\ now <= reader[r].read + Slow

DoneOK(r) ==
  /\ reader[r].value <= Data
  /\ reader[r].asked <= now
  /\ reader[r].value < Data =>
       \/ reader[r].asked <= Outdated(reader[r].value)
       \/ reader[r].asked < Outdated(reader[r].value) + TTL + Slow

EntryOK(s) ==
  /\ cache[s].value <= Data
  /\ cache[s].expires <= now + TTL
  /\ cache[s].value < Data => cache[s].expires <= Outdated(cache[s].value) + TTL + Slow

\* Every entry expires before what it shows has been outdated for too long.
StaleInv ==
  /\ \A n \in 1 .. Data : ended[n] <= now
  /\ \A r \in Readers : reader[r].pc \in {"query", "filled"} =>
       reader[r].on \in Servers /\ reader[r].asked <= now
  /\ \A r \in Readers : reader[r].pc = "filled" => FilledOK(r)
  /\ \A r \in Readers : reader[r].pc = "done" => DoneOK(r)
  /\ \A s \in Servers : cache[s] # Nothing => EntryOK(s)

LEMMA StaleStep ==
  ASSUME TypeOK, StaleInv, [Next]_vars
  PROVE  StaleInv'
<1> USE TimesAssumption DEF FilledOK, DoneOK, EntryOK, Outdated
<1>0. Data \in Nat /\ now \in Nat
  BY DEF TypeOK, Data
<1>1. CASE UNCHANGED vars
  BY <1>1 DEF StaleInv, vars, Data
<1>2. ASSUME NEW r \in Readers, NEW s \in Servers, Hit(r, s) PROVE StaleInv'
  <2>1. EntryOK(s) /\ cache[s] \in Entries /\ now < cache[s].expires
    BY <1>2 DEF Hit, Usable, StaleInv, TypeOK
  <2>2. UNCHANGED <<now, ended, cache>> /\ Data' = Data
    BY <1>2 DEF Hit, Data
  <2>3. \A q \in Readers : q # r => reader'[q] = reader[q]
    BY <1>2 DEF Hit, TypeOK
  <2>4. reader'[r].pc = "done" /\ reader'[r].asked = now /\ reader'[r].value = cache[s].value
    BY <1>2 DEF Hit, TypeOK
  <2>5. cache[s].value < Data => Outdated(cache[s].value) \in Nat
    BY <2>1, <1>0 DEF TypeOK, Entries, Data
  <2>6. DoneOK(r)'
    BY <2>1, <2>2, <2>4, <2>5, <1>0 DEF Entries
  <2>7. QED
    BY <2>2, <2>3, <2>4, <2>6 DEF StaleInv
<1>3. ASSUME NEW r \in Readers, NEW s \in Servers, Miss(r, s) PROVE StaleInv'
  <2>1. UNCHANGED <<now, ended>> /\ Data' = Data
    BY <1>3 DEF Miss, Data
  <2>2. \A q \in Readers : q # r => reader'[q] = reader[q]
    BY <1>3 DEF Miss, TypeOK
  <2>3. reader'[r].pc = "query" /\ reader'[r].asked = now /\ reader'[r].on = s
    BY <1>3 DEF Miss, TypeOK
  <2>4. \A z \in Servers : cache'[z] # Nothing => cache'[z] = cache[z]
    BY <1>3 DEF Miss, TypeOK
  <2>5. QED
    BY <2>1, <2>2, <2>3, <2>4, <1>0 DEF StaleInv
<1>4. ASSUME NEW r \in Readers, Query(r) PROVE StaleInv'
  <2>1. UNCHANGED <<now, ended, cache>> /\ Data' = Data
    BY <1>4 DEF Query, Data
  <2>2. \A q \in Readers : q # r => reader'[q] = reader[q]
    BY <1>4 DEF Query, TypeOK
  <2>3. /\ reader[r].pc = "query" /\ reader'[r].pc = "filled"
        /\ reader'[r].asked = reader[r].asked /\ reader'[r].on = reader[r].on
        /\ reader'[r].read = now /\ reader'[r].value = Data
    BY <1>4 DEF Query, TypeOK, Readings
  <2>4. QED
    BY <2>1, <2>2, <2>3, <1>0 DEF StaleInv
<1>5. ASSUME NEW r \in Readers, Fill(r) PROVE StaleInv'
  <2>1. UNCHANGED <<now, ended>> /\ Data' = Data
    BY <1>5 DEF Fill, Data
  <2>2. \A q \in Readers : q # r => reader'[q] = reader[q]
    BY <1>5 DEF Fill, TypeOK
  <2>3. /\ reader[r].pc = "filled" /\ reader'[r].pc = "done"
        /\ reader'[r].asked = reader[r].asked /\ reader'[r].value = reader[r].value
    BY <1>5 DEF Fill, TypeOK, Readings
  <2>4. FilledOK(r) /\ reader[r].on \in Servers /\ reader[r].asked <= now
    BY <2>3 DEF StaleInv
  <2>5. reader[r].value \in Nat /\ reader[r].asked \in Nat /\ reader[r].read \in Nat
    BY DEF TypeOK, Readings
  <2>6. reader[r].value < Data => Outdated(reader[r].value) \in Nat
    BY <2>5, <1>0 DEF TypeOK, Data
  <2>7. DoneOK(r)'
    BY <2>1, <2>3, <2>4, <2>5, <2>6, <1>0
  <2>8. \A z \in Servers : cache'[z] # Nothing =>
          \/ cache'[z] = cache[z]
          \/ cache'[z].value = reader[r].value /\ cache'[z].expires = now + TTL
    BY <1>5 DEF Fill, TypeOK
  <2>9. \A z \in Servers : cache'[z] # Nothing => EntryOK(z)'
    BY <2>1, <2>4, <2>5, <2>6, <2>8, <1>0 DEF StaleInv
  <2>10. QED
    BY <2>1, <2>2, <2>3, <2>7, <2>9 DEF StaleInv
<1>6. ASSUME NEW u \in Uploads, NEW s \in Servers, Commit(u, s) PROVE StaleInv'
  <2>0. ended' = Append(ended, now)
    BY <1>6 DEF Commit
  <2>1. now' = now /\ cache' = cache /\ reader' = reader
    BY <1>6 DEF Commit
  <2>2. /\ Data' = Data + 1
        /\ ended'[Data + 1] = now
        /\ \A n \in 1 .. Data : ended'[n] = ended[n] /\ ended[n] \in Nat
    BY <2>0 DEF Data, TypeOK
  <2>3. \A n \in 1 .. Data' : ended'[n] <= now'
    <3> SUFFICES ASSUME NEW n \in 1 .. Data' PROVE ended'[n] <= now'
      OBVIOUS
    <3>1. n = Data + 1 \/ n \in 1 .. Data
      BY <2>2, <1>0
    <3>2. CASE n = Data + 1
      BY <2>1, <2>2, <3>2, <1>0
    <3>3. CASE n \in 1 .. Data
      <4>1. ended[n] <= now
        BY <3>3 DEF StaleInv
      <4>2. QED
        BY <2>1, <2>2, <3>3, <4>1
    <3>4. QED
      BY <3>1, <3>2, <3>3
  \* The version just ended ends now; those before it ended when they did.
  <2>4. ASSUME NEW v \in Nat, v <= Data
        PROVE  /\ v <= Data'
               /\ v < Data' => \/ v < Data /\ Outdated(v)' = Outdated(v)
                               \/ v = Data /\ Outdated(v)' = now
    <3>1. v < Data => v + 1 \in 1 .. Data
      BY <1>0
    <3>2. QED
      BY <2>2, <2>4, <3>1, <1>0
  <2>5. \A r \in Readers : reader[r].pc = "filled" => FilledOK(r)'
    <3> SUFFICES ASSUME NEW r \in Readers, reader[r].pc = "filled" PROVE FilledOK(r)'
      OBVIOUS
    <3>1. FilledOK(r) /\ reader[r].value \in Nat /\ reader[r].read \in Nat
      BY DEF StaleInv, TypeOK, Readings
    <3>2. QED
      BY <2>1, <2>4, <3>1, <1>0
  <2>6. \A r \in Readers : reader[r].pc = "done" => DoneOK(r)'
    <3> SUFFICES ASSUME NEW r \in Readers, reader[r].pc = "done" PROVE DoneOK(r)'
      OBVIOUS
    <3>1. DoneOK(r) /\ reader[r].value \in Nat
      BY DEF StaleInv, TypeOK, Readings
    <3>2. QED
      BY <2>1, <2>4, <3>1, <1>0
  <2>7. \A z \in Servers : cache[z] # Nothing => EntryOK(z)'
    <3> SUFFICES ASSUME NEW z \in Servers, cache[z] # Nothing PROVE EntryOK(z)'
      OBVIOUS
    <3>1. EntryOK(z) /\ cache[z].value \in Nat /\ cache[z].expires \in Nat
      BY DEF StaleInv, TypeOK, Entries
    <3>2. CASE cache[z].value < Data
      BY <2>1, <2>2, <2>4, <3>1, <3>2, <1>0
    <3>3. CASE cache[z].value = Data
      BY <2>1, <2>2, <3>1, <3>3, <1>0
    <3>4. cache[z].value < Data \/ cache[z].value = Data
      BY <3>1, <1>0
    <3> HIDE DEF EntryOK
    <3>5. QED
      BY <3>2, <3>3, <3>4
  <2>8. QED
    BY <2>1, <2>3, <2>5, <2>6, <2>7 DEF StaleInv
<1>7. ASSUME NEW u \in Uploads, Bump(u) PROVE StaleInv'
  <2>1. UNCHANGED <<now, ended, reader>> /\ Data' = Data
    BY <1>7 DEF Bump, Data
  <2>2. \A z \in Servers : cache'[z] # Nothing => cache'[z] = cache[z]
    BY <1>7 DEF Bump, TypeOK
  <2>3. QED
    BY <2>1, <2>2 DEF StaleInv
<1>8. ASSUME NEW u \in Uploads, RefreshFails(u) PROVE StaleInv'
  BY <1>8 DEF RefreshFails, StaleInv, Data
<1>9. CASE Tick
  <2>1. now' = now + 1 /\ UNCHANGED <<ended, cache, reader>> /\ Data' = Data
    BY <1>9 DEF Tick, Data
  <2>2. \A r \in Readers : reader[r].pc = "filled" => now < reader[r].read + Slow
    BY <1>9 DEF Tick
  <2>3. \A r \in Readers : reader[r].read \in Nat /\ reader[r].asked \in Nat
    BY DEF TypeOK, Readings
  <2>4. \A z \in Servers : cache[z] # Nothing => cache[z].expires \in Nat
    BY DEF TypeOK, Entries
  <2>5. \A n \in 1 .. Data : ended[n] \in Nat
    BY DEF TypeOK, Data
  <2>6. QED
    BY <2>1, <2>2, <2>3, <2>4, <2>5, <1>0 DEF StaleInv
<1>10. QED
  BY <1>1, <1>2, <1>3, <1>4, <1>5, <1>6, <1>7, <1>8, <1>9 DEF Next

\* Old data is never shown to a GET sent later than the TTL and the duration of
\* one fill after it became old.
THEOREM StalenessCorrect == Spec => []StalenessBounded
<1>1. Init => StaleInv
  BY DEF Init, StaleInv, Unread, Data
<1>2. TypeOK /\ StaleInv => StalenessBounded
  BY DEF StaleInv, StalenessBounded, DoneOK, Outdated
<1>3. QED
  BY <1>1, <1>2, StaleStep, TypeCorrect, PTL DEF Spec

-----------------------------------------------------------------------------
(* What was acknowledged. *)

\* A fill that was not crossed by an invalidation holds all that its process
\* has acknowledged: acked and version change together.
FreshInv ==
  /\ \A s \in Servers : acked[s] <= Data
  /\ \A u \in Uploads : upload[u].nth <= Data
  /\ \A r \in Readers : reader[r].pc \in {"query", "filled"} =>
       reader[r].floor <= acked[reader[r].on]
  /\ \A r \in Readers : reader[r].pc = "filled" =>
       /\ reader[r].floor <= reader[r].value
       /\ reader[r].stamp <= version[reader[r].on]
       /\ reader[r].stamp = version[reader[r].on] => acked[reader[r].on] <= reader[r].value
  /\ \A r \in Readers : reader[r].pc = "done" =>
       reader[r].floor <= reader[r].value \/ reader[r].crossed
  /\ \A s \in Servers : cache[s] # Nothing =>
       /\ cache[s].version <= version[s]
       /\ cache[s].version = version[s] /\ ~cache[s].crossed => acked[s] <= cache[s].value

LEMMA FreshStep ==
  ASSUME TypeOK, FreshInv, [Next]_vars
  PROVE  FreshInv'
<1>0. /\ Data \in Nat
      /\ \A s \in Servers : acked[s] \in Nat /\ version[s] \in Nat
      /\ \A r \in Readers : /\ reader[r].floor \in Nat /\ reader[r].value \in Nat
                            /\ reader[r].stamp \in Nat
                            /\ reader[r].pc # "new" => reader[r].on \in Servers
      /\ \A u \in Uploads : upload[u].nth \in Nat
  BY DEF TypeOK, Data, Readings
<1>1. CASE UNCHANGED vars
  BY <1>1 DEF FreshInv, vars, Data
<1>2. ASSUME NEW r \in Readers, NEW s \in Servers, Hit(r, s) PROVE FreshInv'
  <2>1. UNCHANGED <<ended, cache, version, acked, upload>> /\ Data' = Data
    BY <1>2 DEF Hit, Data
  <2>2. \A q \in Readers : q # r => reader'[q] = reader[q]
    BY <1>2 DEF Hit, TypeOK
  <2>3. /\ reader'[r].pc = "done" /\ reader'[r].floor = acked[s]
        /\ reader'[r].value = cache[s].value /\ reader'[r].crossed = cache[s].crossed
    BY <1>2 DEF Hit, TypeOK
  <2>4. cache[s] # Nothing /\ cache[s].version = version[s]
    BY <1>2 DEF Hit, Usable
  <2>5. QED
    BY <2>1, <2>2, <2>3, <2>4 DEF FreshInv
<1>3. ASSUME NEW r \in Readers, NEW s \in Servers, Miss(r, s) PROVE FreshInv'
  <2>1. UNCHANGED <<ended, version, acked, upload>> /\ Data' = Data
    BY <1>3 DEF Miss, Data
  <2>2. \A q \in Readers : q # r => reader'[q] = reader[q]
    BY <1>3 DEF Miss, TypeOK
  <2>3. reader'[r].pc = "query" /\ reader'[r].floor = acked[s] /\ reader'[r].on = s
    BY <1>3 DEF Miss, TypeOK
  <2>4. \A z \in Servers : cache'[z] # Nothing => cache'[z] = cache[z]
    BY <1>3 DEF Miss, TypeOK
  <2>5. QED
    BY <1>0, <2>1, <2>2, <2>3, <2>4 DEF FreshInv
<1>4. ASSUME NEW r \in Readers, Query(r) PROVE FreshInv'
  <2>1. UNCHANGED <<ended, cache, version, acked, upload>> /\ Data' = Data
    BY <1>4 DEF Query, Data
  <2>2. \A q \in Readers : q # r => reader'[q] = reader[q]
    BY <1>4 DEF Query, TypeOK
  <2>3. /\ reader[r].pc = "query" /\ reader'[r].pc = "filled"
        /\ reader'[r].floor = reader[r].floor /\ reader'[r].on = reader[r].on
        /\ reader'[r].stamp = version[reader[r].on] /\ reader'[r].value = Data
    BY <1>4 DEF Query, TypeOK, Readings
  <2>4. reader[r].on \in Servers /\ reader[r].floor <= acked[reader[r].on]
    BY <1>0, <2>3 DEF FreshInv
  <2>5. QED
    BY <1>0, <2>1, <2>2, <2>3, <2>4 DEF FreshInv
<1>5. ASSUME NEW r \in Readers, Fill(r) PROVE FreshInv'
  <2>1. UNCHANGED <<ended, version, acked, upload>> /\ Data' = Data
    BY <1>5 DEF Fill, Data
  <2>2. \A q \in Readers : q # r => reader'[q] = reader[q]
    BY <1>5 DEF Fill, TypeOK
  <2>3. /\ reader[r].pc = "filled" /\ reader'[r].pc = "done"
        /\ reader'[r].floor = reader[r].floor /\ reader'[r].value = reader[r].value
    BY <1>5 DEF Fill, TypeOK, Readings
  <2>4. /\ reader[r].on \in Servers
        /\ reader[r].floor <= reader[r].value
        /\ reader[r].stamp = version[reader[r].on] => acked[reader[r].on] <= reader[r].value
    BY <1>0, <2>3 DEF FreshInv
  <2>5. \A z \in Servers : cache'[z] # Nothing =>
          \/ cache'[z] = cache[z]
          \/ /\ z = reader[r].on
             /\ cache'[z].value = reader[r].value /\ cache'[z].version = version[z]
             /\ (~cache'[z].crossed => reader[r].stamp = version[z])
    BY <1>5 DEF Fill, TypeOK
  <2>6. \A z \in Servers : cache'[z] # Nothing =>
          /\ cache'[z].version <= version[z]
          /\ cache'[z].version = version[z] /\ ~cache'[z].crossed => acked[z] <= cache'[z].value
    BY <1>0, <2>4, <2>5 DEF FreshInv
  <2>7. QED
    BY <2>1, <2>2, <2>3, <2>4, <2>6 DEF FreshInv
<1>6. ASSUME NEW u \in Uploads, NEW s \in Servers, Commit(u, s) PROVE FreshInv'
  <2>1. ended' = Append(ended, now)
    BY <1>6 DEF Commit
  <2>2. Data' = Data + 1
    BY <2>1 DEF Data, TypeOK
  <2>3. cache' = cache /\ version' = version /\ acked' = acked /\ reader' = reader
    BY <1>6 DEF Commit
  <2>4. \A v \in Uploads : upload'[v] = upload[v] \/ upload'[v].nth = Data + 1
    BY <1>6 DEF Commit, TypeOK
  <2>5. \A v \in Uploads : upload'[v].nth <= Data'
    BY <1>0, <2>2, <2>4 DEF FreshInv
  <2>6. \A z \in Servers : acked[z] <= Data'
    BY <1>0, <2>2 DEF FreshInv
  <2>7. QED
    BY <2>3, <2>5, <2>6 DEF FreshInv
<1>7. ASSUME NEW u \in Uploads, Bump(u) PROVE FreshInv'
  <2>1. reader' = reader /\ Data' = Data
    BY <1>7 DEF Bump, Data
  <2>2. \A z \in Servers : z # upload[u].on =>
          cache'[z] = cache[z] /\ version'[z] = version[z] /\ acked'[z] = acked[z]
    BY <1>7 DEF Bump, Acknowledged, TypeOK
  <2>3. \A z \in Servers : z = upload[u].on =>
          /\ cache'[z] = Nothing /\ version'[z] = version[z] + 1
          /\ acked'[z] = IF upload[u].nth > acked[z] THEN upload[u].nth ELSE acked[z]
    BY <1>7 DEF Bump, Acknowledged, TypeOK
  <2>4. \A z \in Servers :
          /\ acked[z] <= acked'[z] /\ acked'[z] <= Data
          /\ version[z] <= version'[z]
          /\ version'[z] = version[z] => acked'[z] = acked[z]
    BY <1>0, <2>2, <2>3 DEF FreshInv
  <2>5. \A z \in Servers : acked'[z] \in Nat /\ version'[z] \in Nat
    BY <1>0, <2>2, <2>3
  <2>6. \A v \in Uploads : upload'[v].nth = upload[v].nth
    BY <1>7 DEF Bump, TypeOK
  <2>7. \A z \in Servers : cache'[z] # Nothing =>
          /\ cache'[z].version <= version'[z]
          /\ cache'[z].version = version'[z] /\ ~cache'[z].crossed => acked'[z] <= cache'[z].value
    BY <2>2, <2>3 DEF FreshInv
  <2>8. \A r \in Readers : reader[r].pc = "filled" =>
          /\ reader[r].stamp <= version'[reader[r].on]
          /\ reader[r].stamp = version'[reader[r].on] => acked'[reader[r].on] <= reader[r].value
    <3> SUFFICES ASSUME NEW r \in Readers, reader[r].pc = "filled"
                 PROVE  /\ reader[r].stamp <= version'[reader[r].on]
                        /\ reader[r].stamp = version'[reader[r].on]
                             => acked'[reader[r].on] <= reader[r].value
      OBVIOUS
    <3>1. PICK s \in Servers : reader[r].on = s
      BY <1>0
    <3>2. /\ reader[r].stamp <= version[s]
          /\ reader[r].stamp = version[s] => acked[s] <= reader[r].value
      BY <3>1 DEF FreshInv
    <3>3. version[s] <= version'[s] /\ (version'[s] = version[s] => acked'[s] = acked[s])
      BY <2>4
    <3>4. version'[s] \in Nat /\ version[s] \in Nat /\ reader[r].stamp \in Nat
      BY <1>0, <2>5
    <3>5. QED
      BY <3>1, <3>2, <3>3, <3>4
  <2>9. \A r \in Readers : reader[r].pc \in {"query", "filled"} =>
          reader[r].floor <= acked'[reader[r].on]
    <3> SUFFICES ASSUME NEW r \in Readers, reader[r].pc \in {"query", "filled"}
                 PROVE  reader[r].floor <= acked'[reader[r].on]
      OBVIOUS
    <3>1. PICK s \in Servers : reader[r].on = s
      BY <1>0
    <3>2. reader[r].floor <= acked[s]
      BY <3>1 DEF FreshInv
    <3>3. acked[s] <= acked'[s]
      BY <2>4
    <3>4. acked[s] \in Nat /\ acked'[s] \in Nat /\ reader[r].floor \in Nat
      BY <1>0, <2>5
    <3>5. QED
      BY <3>1, <3>2, <3>3, <3>4
  <2>10. (\A s \in Servers : acked[s] <= Data)' /\ (\A v \in Uploads : upload[v].nth <= Data)'
    BY <2>1, <2>4, <2>6 DEF FreshInv
  <2>11. QED
    BY <2>1, <2>7, <2>8, <2>9, <2>10 DEF FreshInv
<1>8. ASSUME NEW u \in Uploads, RefreshFails(u) PROVE FreshInv'
  <2>1. UNCHANGED <<ended, cache, version, acked, reader>> /\ Data' = Data
    BY <1>8 DEF RefreshFails, Data
  <2>2. \A v \in Uploads : upload'[v].nth = upload[v].nth
    BY <1>8 DEF RefreshFails, TypeOK
  <2>3. QED
    BY <2>1, <2>2 DEF FreshInv
<1>9. CASE Tick
  BY <1>9 DEF Tick, FreshInv, Data
<1>10. QED
  BY <1>1, <1>2, <1>3, <1>4, <1>5, <1>6, <1>7, <1>8, <1>9 DEF Next

\* A GET sent to a process that acknowledged an upload misses it only if its
\* answer is an entry filled across an invalidation.
THEOREM FreshCorrect == Spec => []StaleOnlyIfCrossed
<1>1. Init => FreshInv
  BY DEF Init, FreshInv, Unread, Data
<1>2. TypeOK /\ FreshInv => StaleOnlyIfCrossed
  BY DEF FreshInv, StaleOnlyIfCrossed, TypeOK, Readings
<1>3. QED
  BY <1>1, <1>2, FreshStep, TypeCorrect, PTL DEF Spec
=============================================================================
