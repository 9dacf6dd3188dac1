---------------------------- MODULE Leaderboard ----------------------------
(***************************************************************************)
(* A client walking the leaderboard with the keyset cursor while runs are  *)
(* submitted, re-submitted and delisted between its pages                  *)
(* (main.leaderboard, main._leaderboard_keyset_clause).                    *)
(*                                                                         *)
(* The rows are those the WHERE clause selects for the walk's track and    *)
(* filters.  Every page is read from the database: the response cache,     *)
(* which a TTL of 0 disables, is the subject of ResponseCache.             *)
(***************************************************************************)
EXTENDS Integers, FiniteSets

CONSTANTS
  RunIds,      \* run ids, as numbers in their collation order
  CreatedAt,   \* CreatedAt[i]: when run i was created
  Scores,      \* success_rate values
  Returns,     \* mean_return values
  Limit,       \* rows per page
  MaxSubmits,  \* bound: how often one run is submitted
  Unlisted     \* a run whose status is not "uploaded"

Marks == [success_rate: Scores, mean_return: Returns]

ASSUME RunsAssumption ==
  /\ RunIds \subseteq Nat
  /\ IsFiniteSet(RunIds)
  /\ CreatedAt \in [RunIds -> Nat]
ASSUME MarksAssumption ==
  Scores \subseteq Int /\ Returns \subseteq Int /\ Unlisted \notin Marks
ASSUME LimitAssumption == Limit \in Nat \ {0} /\ MaxSubmits \in Nat

VARIABLES
  table,    \* table[i]: the denormalized columns of run i, or Unlisted
  cursor,   \* the position in the last X-Next-Cursor
  at,       \* where the walk is: "start", "page" or "end"
  got,      \* got[i]: how often the walk was given run i, twice standing for more
  submits,  \* submits[i]: how often run i has been submitted
  stayed    \* runs listed, and not submitted again, since the walk began

vars == <<table, cursor, at, got, submits, stayed>>

Positions == [success_rate: Int, mean_return: Int, created_at: Nat, id: Nat]

Listed == {i \in RunIds : table[i] # Unlisted}

Pos(i) == [success_rate |-> table[i].success_rate, mean_return |-> table[i].mean_return,
           created_at |-> CreatedAt[i], id |-> i]

\* ORDER BY success_rate DESC, mean_return DESC, created_at DESC, id DESC.
RankedBefore(a, b) ==
  IF a.success_rate # b.success_rate THEN a.success_rate > b.success_rate
  ELSE IF a.mean_return # b.mean_return THEN a.mean_return > b.mean_return
  ELSE IF a.created_at # b.created_at THEN a.created_at > b.created_at
  ELSE a.id > b.id

\* MUTANT: the last column is compared with <=.
KeysetClauseInclusive(x, c) ==
  \/ x.success_rate < c.success_rate
  \/ x.success_rate = c.success_rate /\ x.mean_return < c.mean_return
  \/ /\ x.success_rate = c.success_rate
     /\ x.mean_return = c.mean_return
     /\ x.created_at < c.created_at
  \/ /\ x.success_rate = c.success_rate
     /\ x.mean_return = c.mean_return
     /\ x.created_at = c.created_at
     /\ x.id <= c.id

\* MUTANT: rows created at the same instant are taken for one row.
KeysetClauseNoTiebreak(x, c) ==
  \/ x.success_rate < c.success_rate
  \/ x.success_rate = c.success_rate /\ x.mean_return < c.mean_return
  \/ /\ x.success_rate = c.success_rate
     /\ x.mean_return = c.mean_return
     /\ x.created_at < c.created_at

\* The OR of ANDs that seeks past the cursor.
KeysetClause(x, c) ==
  \/ x.success_rate < c.success_rate
  \/ x.success_rate = c.success_rate /\ x.mean_return < c.mean_return
  \/ /\ x.success_rate = c.success_rate
     /\ x.mean_return = c.mean_return
     /\ x.created_at < c.created_at
  \/ /\ x.success_rate = c.success_rate
     /\ x.mean_return = c.mean_return
     /\ x.created_at = c.created_at
     /\ x.id < c.id

\* MUTANT: the cursor is accepted and not applied.
CandidatesOfFirstPage == Listed

\* The rows the query selects before LIMIT.
Candidates == {i \in Listed : at = "page" => KeysetClause(Pos(i), cursor)}

\* LIMIT limit + 1 returned more than a page.
HasNext == Cardinality(Candidates) > Limit

\* P is the first Limit rows of the candidates, all of them when no more exist.
IsPage(P) ==
  /\ IF HasNext THEN Cardinality(P) = Limit ELSE P = Candidates
  /\ \A i \in P, j \in Candidates \ P : RankedBefore(Pos(i), Pos(j))

IsLast(i, P) == i \in P /\ \A j \in P \ {i} : RankedBefore(Pos(j), Pos(i))

NoCursor == [success_rate |-> 0, mean_return |-> 0, created_at |-> 0, id |-> 0]

Init ==
  /\ table \in [RunIds -> Marks \cup {Unlisted}]
  /\ cursor = NoCursor
  /\ at = "start"
  /\ got = [i \in RunIds |-> 0]
  /\ submits = [i \in RunIds |-> IF i \in Listed THEN 1 ELSE 0]
  /\ stayed = Listed

Again(times) == IF times < 2 THEN times + 1 ELSE times

-----------------------------------------------------------------------------
\* The page reports no next cursor: the walk is over.
FetchLast ==
  /\ at # "end"
  /\ ~HasNext
  /\ at' = "end"
  /\ got' = [i \in RunIds |-> IF i \in Candidates THEN Again(got[i]) ELSE got[i]]
  /\ UNCHANGED <<table, cursor, submits, stayed>>

\* The next cursor is the position of the last row of the page.
Fetch ==
  /\ at # "end"
  /\ HasNext
  /\ \E P \in SUBSET Candidates :
       /\ IsPage(P)
       /\ \E last \in P : IsLast(last, P) /\ cursor' = Pos(last)
       /\ got' = [i \in RunIds |-> IF i \in P THEN Again(got[i]) ELSE got[i]]
  /\ at' = "page"
  /\ UNCHANGED <<table, submits, stayed>>

\* An upload lists a run, or lists it with other results.
Submit(i) ==
  /\ submits[i] < MaxSubmits
  /\ \E m \in Marks : table' = [table EXCEPT ![i] = m]
  /\ submits' = [submits EXCEPT ![i] = @ + 1]
  /\ stayed' = stayed \ {i}
  /\ UNCHANGED <<cursor, at, got>>

\* A trigger takes a run from "uploaded" to another status.
Delist(i) ==
  /\ i \in Listed
  /\ table' = [table EXCEPT ![i] = Unlisted]
  /\ stayed' = stayed \ {i}
  /\ UNCHANGED <<cursor, at, got, submits>>

Next ==
  \/ FetchLast
  \/ Fetch
  \/ \E i \in RunIds : Submit(i) \/ Delist(i)

Spec == Init /\ [][Next]_vars

\* A client that walks asks for the next page.
FairSpec == Spec /\ WF_vars(Fetch) /\ WF_vars(FetchLast)

-----------------------------------------------------------------------------
\* The type of the state.
TypeOK ==
  /\ table \in [RunIds -> Marks \cup {Unlisted}]
  /\ cursor \in Positions
  /\ at \in {"start", "page", "end"}
  /\ got \in [RunIds -> 0 .. 2]
  /\ submits \in [RunIds -> Nat]
  /\ stayed \subseteq Listed

\* "Paging is stable even as rows are inserted/removed": a run whose row stays as
\* it is throughout the walk is given exactly once, whatever is submitted,
\* re-submitted or delisted around it, ties in every column included.
StayersGivenOnce ==
  \A i \in stayed : got[i] <= 1 /\ (at = "end" => got[i] = 1)

\* A run that is not re-submitted is not given twice, not even when it was listed
\* or delisted during the walk and others were re-submitted around it.
NeverGivenTwice == \A i \in RunIds : submits[i] <= 1 => got[i] <= 1

\* Every cursor is strictly further down the ranking than the one before it, so
\* a walk cannot go back or stand still.
CursorAdvances == [][at = "page" => cursor' = cursor \/ RankedBefore(cursor, cursor')]_vars

\* A walk during which finitely many runs are submitted comes to its end.
WalkEnds == <>(at = "end")
=============================================================================
