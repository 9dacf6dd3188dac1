------------------------- MODULE LeaderboardProofs -------------------------
(***************************************************************************)
(* The keyset clause is the strict total order of the ranking, and paging  *)
(* with it is stable, for every table, page size and interleaving.         *)
(***************************************************************************)
EXTENDS Leaderboard, TLAPS

-----------------------------------------------------------------------------
(* The ranking. *)

\* The WHERE clause that seeks past a cursor selects what ORDER BY ranks after it.
THEOREM KeysetIsOrder ==
  ASSUME NEW a \in Positions, NEW b \in Positions
  PROVE  KeysetClause(b, a) <=> RankedBefore(a, b)
  BY DEF KeysetClause, RankedBefore, Positions

\* The ranking is a strict total order: no two runs tie, because ids differ.
THEOREM RankingIsStrictOrder ==
  ASSUME NEW a \in Positions, NEW b \in Positions, NEW c \in Positions
  PROVE  /\ ~RankedBefore(a, a)
         /\ RankedBefore(a, b) /\ RankedBefore(b, c) => RankedBefore(a, c)
         /\ a.id # b.id => RankedBefore(a, b) \/ RankedBefore(b, a)
  BY DEF RankedBefore, Positions

-----------------------------------------------------------------------------
(* Typing. *)

LEMMA PosType ==
  ASSUME TypeOK, NEW i \in Listed
  PROVE  Pos(i) \in Positions
  BY RunsAssumption, MarksAssumption DEF TypeOK, Listed, Pos, Positions, Marks

LEMMA TypeStep ==
  ASSUME TypeOK, [Next]_vars
  PROVE  TypeOK'
<1>1. CASE UNCHANGED vars
  BY <1>1 DEF TypeOK, Listed, vars
<1>2. CASE FetchLast
  BY <1>2 DEF TypeOK, Listed, FetchLast, Again
<1>3. CASE Fetch
  <2>1. PICK P \in SUBSET Candidates :
          /\ \E last \in P : cursor' = Pos(last)
          /\ got' = [i \in RunIds |-> IF i \in P THEN Again(got[i]) ELSE got[i]]
    BY <1>3 DEF Fetch
  <2>2. cursor' \in Positions
    BY <2>1, PosType DEF Candidates
  <2>3. got' \in [RunIds -> 0 .. 2]
    BY <2>1 DEF TypeOK, Again
  <2>4. QED
    BY <1>3, <2>2, <2>3 DEF Fetch, TypeOK, Listed
<1>4. ASSUME NEW i \in RunIds, Submit(i) PROVE TypeOK'
  BY <1>4 DEF Submit, TypeOK, Listed
<1>5. ASSUME NEW i \in RunIds, Delist(i) PROVE TypeOK'
  BY <1>5 DEF Delist, TypeOK, Listed
<1>6. QED
  BY <1>1, <1>2, <1>3, <1>4, <1>5 DEF Next

\* The state keeps its type.
THEOREM TypeCorrect == Spec => []TypeOK
<1>1. Init => TypeOK
  BY DEF Init, TypeOK, NoCursor, Positions, Listed
<1>2. QED
  BY <1>1, TypeStep, PTL DEF Spec

-----------------------------------------------------------------------------
(* What one page does. *)

\* After a page, the rows it gave and those given before are not after the new
\* cursor; the candidates it left out are.
LEMMA PageSplits ==
  ASSUME TypeOK, NEW P \in SUBSET Candidates, NEW last \in P, IsPage(P), IsLast(last, P)
  PROVE  /\ \A i \in P : ~KeysetClause(Pos(i), Pos(last))
         /\ \A i \in Candidates \ P : KeysetClause(Pos(i), Pos(last))
         /\ \A i \in Listed \ Candidates : ~KeysetClause(Pos(i), Pos(last))
         /\ at = "page" => RankedBefore(cursor, Pos(last))
<1>1. \A i \in Listed : Pos(i) \in Positions
  BY PosType
<1>2. last \in Listed /\ Pos(last) \in Positions /\ P \subseteq Listed /\ cursor \in Positions
  BY <1>1 DEF Candidates, TypeOK
<1>3. ASSUME NEW i \in P PROVE ~KeysetClause(Pos(i), Pos(last))
  <2>1. Pos(i) \in Positions
    BY <1>1, <1>2
  <2>2. i = last \/ RankedBefore(Pos(i), Pos(last))
    BY DEF IsLast
  <2>3. ~RankedBefore(Pos(last), Pos(i))
    BY <1>2, <2>1, <2>2, RankingIsStrictOrder
  <2>4. QED
    BY <1>2, <2>1, <2>3, KeysetIsOrder
<1>4. ASSUME NEW i \in Candidates \ P PROVE KeysetClause(Pos(i), Pos(last))
  <2>1. Pos(i) \in Positions
    BY <1>1 DEF Candidates
  <2>2. RankedBefore(Pos(last), Pos(i))
    BY DEF IsPage
  <2>3. QED
    BY <1>2, <2>1, <2>2, KeysetIsOrder
<1>5. at = "page" => RankedBefore(cursor, Pos(last))
  BY <1>2, KeysetIsOrder DEF Candidates
<1>6. ASSUME NEW i \in Listed \ Candidates PROVE ~KeysetClause(Pos(i), Pos(last))
  <2>1. Pos(i) \in Positions
    BY <1>1
  <2>2. at = "page" /\ ~KeysetClause(Pos(i), cursor)
    BY DEF Candidates
  <2>3. ~RankedBefore(cursor, Pos(i)) /\ RankedBefore(cursor, Pos(last))
    BY <1>2, <1>5, <2>1, <2>2, KeysetIsOrder
  <2>4. ~RankedBefore(Pos(last), Pos(i))
    BY <1>2, <2>1, <2>3, RankingIsStrictOrder
  <2>5. QED
    BY <1>2, <2>1, <2>4, KeysetIsOrder
<1>7. QED
  BY <1>3, <1>4, <1>5, <1>6

\* A page that has a successor, in the terms the invariants use.
LEMMA FetchStep ==
  ASSUME TypeOK, Fetch
  PROVE  /\ at' = "page" /\ at # "end" /\ UNCHANGED <<table, submits, stayed>>
         /\ cursor' \in Positions
         /\ at = "page" => RankedBefore(cursor, cursor')
         /\ \A i \in Listed :
              \/ /\ i \in Candidates /\ got'[i] = Again(got[i])
                 /\ ~KeysetClause(Pos(i), cursor')
              \/ /\ i \in Candidates /\ got'[i] = got[i]
                 /\ KeysetClause(Pos(i), cursor')
              \/ /\ i \notin Candidates /\ got'[i] = got[i]
                 /\ ~KeysetClause(Pos(i), cursor')
         /\ \A i \in RunIds \ Listed : got'[i] = got[i]
<1>1. PICK P \in SUBSET Candidates :
        /\ IsPage(P)
        /\ \E last \in P : IsLast(last, P) /\ cursor' = Pos(last)
        /\ got' = [i \in RunIds |-> IF i \in P THEN Again(got[i]) ELSE got[i]]
  BY DEF Fetch
<1>2. PICK last \in P : IsLast(last, P) /\ cursor' = Pos(last)
  BY <1>1
<1>3. last \in Listed /\ Pos(last) \in Positions
  BY PosType DEF Candidates
<1>4. Listed \subseteq RunIds /\ Candidates \subseteq Listed
  BY DEF Candidates, Listed
<1>5. /\ \A i \in P : ~KeysetClause(Pos(i), cursor') /\ got'[i] = Again(got[i])
      /\ \A i \in Candidates \ P : KeysetClause(Pos(i), cursor') /\ got'[i] = got[i]
      /\ \A i \in Listed \ Candidates : ~KeysetClause(Pos(i), cursor') /\ got'[i] = got[i]
      /\ \A i \in RunIds \ Listed : got'[i] = got[i]
      /\ at = "page" => RankedBefore(cursor, cursor')
  BY <1>1, <1>2, <1>4, PageSplits
<1>6. at' = "page" /\ at # "end" /\ UNCHANGED <<table, submits, stayed>>
  BY DEF Fetch
<1>7. QED
  BY <1>2, <1>3, <1>4, <1>5, <1>6

-----------------------------------------------------------------------------
(* A run that stays is given exactly once. *)

StayInv ==
  /\ at = "start" => \A i \in RunIds : got[i] = 0
  /\ \A i \in stayed :
       /\ at = "page" => \/ got[i] = 0 /\ KeysetClause(Pos(i), cursor)
                         \/ got[i] = 1 /\ ~KeysetClause(Pos(i), cursor)
       /\ at = "end" => got[i] = 1

LEMMA StayStep ==
  ASSUME TypeOK, StayInv, [Next]_vars
  PROVE  StayInv'
<1>1. stayed \subseteq Listed /\ Listed \subseteq RunIds
  BY DEF TypeOK, Listed
<1>2. CASE UNCHANGED vars
  BY <1>2 DEF StayInv, vars, Pos
<1>3. CASE FetchLast
  <2>1. /\ at # "end" /\ at' = "end" /\ stayed' = stayed
        /\ \A i \in stayed : got'[i] = IF i \in Candidates THEN Again(got[i]) ELSE got[i]
    BY <1>1, <1>3 DEF FetchLast
  <2>2. ASSUME NEW i \in stayed PROVE got'[i] = 1
    <3>1. i \in Listed /\ at \in {"start", "page"}
      BY <1>1, <2>1 DEF TypeOK
    <3>2. CASE at = "start"
      BY <1>1, <2>1, <3>1, <3>2 DEF StayInv, Candidates, Again
    <3>3. CASE at = "page"
      BY <2>1, <3>1, <3>3 DEF StayInv, Candidates, Again
    <3>4. QED
      BY <3>1, <3>2, <3>3
  <2>3. QED
    BY <2>1, <2>2 DEF StayInv
<1>4. CASE Fetch
  <2>1. ASSUME NEW i \in stayed
        PROVE  \/ got'[i] = 0 /\ KeysetClause(Pos(i), cursor')
               \/ got'[i] = 1 /\ ~KeysetClause(Pos(i), cursor')
    <3>1. i \in Listed /\ at \in {"start", "page"}
      BY <1>1, <1>4 DEF TypeOK, Fetch
    <3>2. CASE at = "start"
      <4>1. got[i] = 0 /\ i \in Candidates
        BY <1>1, <3>1, <3>2 DEF StayInv, Candidates
      <4>2. QED
        BY <1>4, <3>1, <4>1, FetchStep DEF Again
    <3>3. CASE at = "page"
      <4>1. got[i] = IF i \in Candidates THEN 0 ELSE 1
        BY <3>1, <3>3 DEF StayInv, Candidates
      <4>2. QED
        BY <1>4, <3>1, <4>1, FetchStep DEF Again
    <3>4. QED
      BY <3>1, <3>2, <3>3
  <2>2. \A i \in RunIds : Pos(i)' = Pos(i)
    BY <1>4, FetchStep DEF Pos
  <2>3. at' = "page" /\ stayed' = stayed
    BY <1>4, FetchStep
  <2>4. QED
    BY <1>1, <2>1, <2>2, <2>3 DEF StayInv
<1>5. ASSUME NEW i \in RunIds, Submit(i) \/ Delist(i) PROVE StayInv'
  <2>1. /\ UNCHANGED <<cursor, at, got>>
        /\ stayed' = stayed \ {i}
        /\ \A j \in RunIds : j # i => table'[j] = table[j]
    BY <1>5 DEF Submit, Delist, TypeOK
  <2>2. \A j \in stayed' : j \in stayed /\ Pos(j)' = Pos(j)
    BY <1>1, <2>1 DEF Pos
  <2>3. QED
    BY <2>1, <2>2 DEF StayInv
<1>6. QED
  BY <1>2, <1>3, <1>4, <1>5 DEF Next

\* Paging is stable: whatever is listed, re-listed or delisted between two pages,
\* a run that stays is given once and only once.
THEOREM StayersCorrect == Spec => []StayersGivenOnce
<1>1. Init => StayInv
  BY DEF Init, StayInv, Listed
<1>2. TypeOK /\ StayInv => StayersGivenOnce
  BY DEF TypeOK, StayInv, StayersGivenOnce, Listed
<1>3. QED
  BY <1>1, <1>2, StayStep, TypeCorrect, PTL DEF Spec

\* The walk only moves down the ranking.
THEOREM CursorCorrect == Spec => CursorAdvances
<1>1. TypeOK /\ [Next]_vars => (at = "page" => cursor' = cursor \/ RankedBefore(cursor, cursor'))
  BY FetchStep DEF Next, FetchLast, Submit, Delist, vars
<1>2. QED
  BY <1>1, TypeCorrect, PTL DEF Spec, CursorAdvances

-----------------------------------------------------------------------------
(* What is not re-submitted is not given twice. *)

\* What was given and is listed lies behind the cursor.
OnceInv ==
  /\ \A i \in Listed : submits[i] >= 1
  /\ \A i \in RunIds : submits[i] <= 1 =>
       /\ at = "start" => got[i] = 0
       /\ got[i] <= 1
       /\ got[i] = 1 => submits[i] = 1
       /\ got[i] = 1 /\ i \in Listed /\ at = "page" => ~KeysetClause(Pos(i), cursor)

LEMMA OnceStep ==
  ASSUME TypeOK, OnceInv, [Next]_vars
  PROVE  OnceInv'
<1>1. Listed \subseteq RunIds /\ \A i \in RunIds : got[i] \in 0 .. 2 /\ submits[i] \in Nat
  BY DEF TypeOK, Listed
<1>2. CASE UNCHANGED vars
  BY <1>2 DEF OnceInv, vars, Pos, Listed
\* A candidate has not been given: the cursor is behind what was.
<1>3. at # "end" => \A i \in Candidates : submits[i] = 1 => got[i] = 0
  BY <1>1 DEF Candidates, Listed, OnceInv, TypeOK
<1>4. CASE FetchLast
  <2>1. /\ at # "end" /\ at' = "end" /\ UNCHANGED <<table, submits>>
        /\ \A i \in RunIds : got'[i] = IF i \in Candidates THEN Again(got[i]) ELSE got[i]
    BY <1>4 DEF FetchLast
  <2>2. Listed' = Listed /\ Candidates \subseteq Listed
    BY <2>1 DEF Listed, Candidates
  <2>3. QED
    BY <1>1, <1>3, <2>1, <2>2 DEF OnceInv, Again
<1>5. CASE Fetch
  <2>1. /\ at # "end" /\ at' = "page" /\ UNCHANGED <<table, submits>>
        /\ \A i \in RunIds \ Listed : got'[i] = got[i]
    BY <1>5, FetchStep
  <2>2. \A i \in Listed : submits[i] = 1 =>
          \/ got'[i] = 1 /\ ~KeysetClause(Pos(i), cursor')
          \/ got'[i] = 0
          \/ got'[i] = got[i] /\ ~KeysetClause(Pos(i), cursor')
    BY <1>3, <1>5, <2>1, FetchStep DEF Again
  <2>3. Listed' = Listed /\ \A i \in RunIds : Pos(i)' = Pos(i)
    BY <2>1 DEF Listed, Pos
  <2>4. QED
    BY <1>1, <2>1, <2>2, <2>3 DEF OnceInv
<1>6. ASSUME NEW i \in RunIds, Submit(i) PROVE OnceInv'
  <2>1. /\ submits'[i] = submits[i] + 1 /\ UNCHANGED <<cursor, at, got>>
        /\ \A j \in RunIds : j # i => table'[j] = table[j] /\ submits'[j] = submits[j]
    BY <1>6 DEF Submit, TypeOK
  <2>2. submits'[i] <= 1 => submits[i] = 0 /\ got[i] = 0
    BY <1>1, <2>1 DEF OnceInv
  <2>3. \A j \in RunIds : j # i => (j \in Listed' <=> j \in Listed) /\ Pos(j)' = Pos(j)
    BY <2>1 DEF Listed, Pos
  <2>4. Listed' \subseteq RunIds
    BY DEF Listed
  <2>5. QED
    BY <1>1, <2>1, <2>2, <2>3, <2>4 DEF OnceInv
<1>7. ASSUME NEW i \in RunIds, Delist(i) PROVE OnceInv'
  <2>1. /\ UNCHANGED <<cursor, at, got, submits>>
        /\ \A j \in RunIds : j # i => table'[j] = table[j]
        /\ table'[i] = Unlisted
    BY <1>7 DEF Delist, TypeOK
  <2>2. \A j \in RunIds : j \in Listed' => j \in Listed /\ Pos(j)' = Pos(j)
    BY <2>1 DEF Listed, Pos
  <2>3. Listed' \subseteq RunIds
    BY DEF Listed
  <2>4. QED
    BY <2>1, <2>2, <2>3 DEF OnceInv
<1>8. QED
  BY <1>2, <1>4, <1>5, <1>6, <1>7 DEF Next

\* No walk repeats a run that is submitted once.
THEOREM OnceCorrect == Spec => []NeverGivenTwice
<1>1. Init => OnceInv
  BY DEF Init, OnceInv, Listed
<1>2. OnceInv => NeverGivenTwice
  BY DEF OnceInv, NeverGivenTwice
<1>3. QED
  BY <1>1, <1>2, OnceStep, TypeCorrect, PTL DEF Spec
=============================================================================
