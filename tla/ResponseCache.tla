--------------------------- MODULE ResponseCache ---------------------------
(***************************************************************************)
(* The response cache in front of one public GET (main._TTLCache, used by  *)
(* main.leaderboard) while uploads commit and invalidate it.  Every API    *)
(* process has a cache of its own; a request holds the cache's lock only   *)
(* inside get, set and bump_version, so the database is read in between.   *)
(*                                                                         *)
(* What a response shows is how many uploads were committed when its rows  *)
(* were read.  Time passes in ticks.                                       *)
(***************************************************************************)
EXTENDS Naturals, Sequences

CONSTANTS
  Servers,    \* API processes
  Readers,    \* GET requests
  Uploads,    \* upload requests
  TTL,        \* response_cache_ttl_seconds
  Slow,       \* the longest a GET takes from its query to its set
  MaxTime,    \* bound on the clock
  Nothing     \* no entry

ASSUME TimesAssumption == TTL \in Nat /\ Slow \in Nat /\ MaxTime \in Nat

VARIABLES
  now,       \* time.monotonic()
  ended,     \* ended[n]: when the n-th upload was committed
  cache,     \* cache[s]: the entry of process s, or Nothing
  version,   \* version[s]: the data-version stamp of process s
  acked,     \* acked[s]: the latest data process s has acknowledged an upload of
  reader,    \* reader[r]: progress of a GET
  upload     \* upload[u]: progress of an upload

vars == <<now, ended, cache, version, acked, reader, upload>>

\* The data is its history of commits; its version is how many there were.
Data == Len(ended)

\* crossed: the entry was queried before, and set after, an invalidation.
Entries == [value: Nat, version: Nat, expires: Nat, crossed: BOOLEAN]

\* asked: when the request looked into the cache; floor: what uploads its
\* process had acknowledged by then; read: when it queried, and stamp: under which
\* version; value: what it shows; crossed: whether that came from a crossed entry.
Readings == [pc: {"new", "query", "filled", "done"}, on: Servers \cup {Nothing},
             asked: Nat, floor: Nat, read: Nat, stamp: Nat, value: Nat, crossed: BOOLEAN]
Unread == [pc |-> "new", on |-> Nothing, asked |-> 0, floor |-> 0, read |-> 0, stamp |-> 0,
           value |-> 0, crossed |-> FALSE]

Init ==
  /\ now = 0
  /\ ended = <<>>
  /\ cache = [s \in Servers |-> Nothing]
  /\ version = [s \in Servers |-> 0]
  /\ acked = [s \in Servers |-> 0]
  /\ reader = [r \in Readers |-> Unread]
  /\ upload = [u \in Uploads |-> [pc |-> "new", on |-> Nothing, nth |-> 0]]

-----------------------------------------------------------------------------
\* MUTANT: an entry is served to the end of the tick it expires in.
UsableTooLong(s) ==
  /\ TTL > 0
  /\ cache[s] # Nothing
  /\ cache[s].version = version[s]
  /\ now <= cache[s].expires

\* What get accepts.
Usable(s) ==
  /\ TTL > 0
  /\ cache[s] # Nothing
  /\ cache[s].version = version[s]
  /\ now < cache[s].expires

\* get finds a live entry.
Hit(r, s) ==
  /\ reader[r].pc = "new"
  /\ Usable(s)
  /\ reader' = [reader EXCEPT ![r] =
       [pc |-> "done", on |-> s, asked |-> now, floor |-> acked[s], read |-> now,
        stamp |-> version[s], value |-> cache[s].value, crossed |-> cache[s].crossed]]
  /\ UNCHANGED <<now, ended, cache, version, acked, upload>>

\* get finds nothing, or an entry it drops.
Miss(r, s) ==
  /\ reader[r].pc = "new"
  /\ ~Usable(s)
  /\ cache' = IF TTL > 0 THEN [cache EXCEPT ![s] = Nothing] ELSE cache
  /\ reader' = [reader EXCEPT ![r] =
       [pc |-> "query", on |-> s, asked |-> now, floor |-> acked[s], read |-> now,
        stamp |-> version[s], value |-> 0, crossed |-> FALSE]]
  /\ UNCHANGED <<now, ended, version, acked, upload>>

Query(r) ==
  /\ reader[r].pc = "query"
  /\ reader' = [reader EXCEPT ![r] =
       [@ EXCEPT !.pc = "filled", !.read = now, !.stamp = version[reader[r].on],
                 !.value = Data]]
  /\ UNCHANGED <<now, ended, cache, version, acked, upload>>

\* set stamps the entry with the version of NOW, not of the query.
Fill(r) ==
  /\ reader[r].pc = "filled"
  /\ cache' = IF TTL = 0 THEN cache
              ELSE [cache EXCEPT ![reader[r].on] =
                     [value |-> reader[r].value, version |-> version[reader[r].on],
                      expires |-> now + TTL,
                      crossed |-> reader[r].stamp # version[reader[r].on]]]
  /\ reader' = [reader EXCEPT ![r] = [@ EXCEPT !.pc = "done"]]
  /\ UNCHANGED <<now, ended, version, acked, upload>>

Commit(u, s) ==
  /\ upload[u].pc = "new"
  /\ ended' = Append(ended, now)
  /\ upload' = [upload EXCEPT ![u] = [pc |-> "committed", on |-> s, nth |-> Data + 1]]
  /\ UNCHANGED <<now, cache, version, acked, reader>>

\* The data a client of this process has been told of.
Acknowledged(u) ==
  [acked EXCEPT ![upload[u].on] = IF upload[u].nth > @ THEN upload[u].nth ELSE @]

\* MUTANT: the upload is answered without invalidating anything.
AnswerWithoutBump(u) ==
  /\ upload[u].pc = "committed"
  /\ acked' = Acknowledged(u)
  /\ upload' = [upload EXCEPT ![u] = [@ EXCEPT !.pc = "done"]]
  /\ UNCHANGED <<now, ended, cache, version, reader>>

\* bump_version, then the answer.
Bump(u) ==
  /\ upload[u].pc = "committed"
  /\ version' = [version EXCEPT ![upload[u].on] = @ + 1]
  /\ cache' = [cache EXCEPT ![upload[u].on] = Nothing]
  /\ acked' = Acknowledged(u)
  /\ upload' = [upload EXCEPT ![u] = [@ EXCEPT !.pc = "done"]]
  /\ UNCHANGED <<now, ended, reader>>

\* The refresh between the commit and the bump raises: the upload is answered
\* with 500 and nothing is invalidated.
RefreshFails(u) ==
  /\ upload[u].pc = "committed"
  /\ upload' = [upload EXCEPT ![u] = [@ EXCEPT !.pc = "done"]]
  /\ UNCHANGED <<now, ended, cache, version, acked, reader>>

\* A GET that has queried sets its entry within Slow ticks.
Tick ==
  /\ now < MaxTime
  /\ \A r \in Readers : reader[r].pc = "filled" => now < reader[r].read + Slow
  /\ now' = now + 1
  /\ UNCHANGED <<ended, cache, version, acked, reader, upload>>

Next ==
  \/ \E r \in Readers, s \in Servers : Hit(r, s) \/ Miss(r, s)
  \/ \E r \in Readers : Query(r) \/ Fill(r)
  \/ \E u \in Uploads, s \in Servers : Commit(u, s)
  \/ \E u \in Uploads : Bump(u) \/ RefreshFails(u)
  \/ Tick

Spec == Init /\ [][Next]_vars

-----------------------------------------------------------------------------
\* The type of the state.
TypeOK ==
  /\ now \in Nat
  /\ ended \in Seq(Nat)
  /\ cache \in [Servers -> Entries \cup {Nothing}]
  /\ version \in [Servers -> Nat]
  /\ acked \in [Servers -> Nat]
  /\ reader \in [Readers -> Readings]
  /\ \A r \in Readers : reader[r].pc # "new" => reader[r].on \in Servers
  /\ upload \in [Uploads -> [pc: {"new", "committed", "done"}, on: Servers \cup {Nothing},
                           nth: Nat]]

\* "A per-entry TTL bounds staleness even without an explicit bump": whoever is
\* shown old data asked before the data had been old for the TTL and the time a
\* GET takes between its query and its set, in whichever process the uploads
\* were served and whether or not they bumped.
StalenessBounded ==
  \A r \in Readers : reader[r].pc = "done" /\ reader[r].value < Data =>
    LET outdated == ended[reader[r].value + 1]
    IN  reader[r].asked <= outdated \/ reader[r].asked < outdated + TTL + Slow

\* The only entries that show less than was acknowledged are those whose rows
\* were queried before an invalidation of the process and set after it.
StaleOnlyIfCrossed ==
  \A r \in Readers :
    reader[r].pc = "done" /\ reader[r].value < reader[r].floor => reader[r].crossed
=============================================================================
