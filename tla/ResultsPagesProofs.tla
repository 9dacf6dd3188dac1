------------------------- MODULE ResultsPagesProofs -------------------------
(***************************************************************************)
(* The pages that show results, for every server, trace and session: the   *)
(* episode player by itself, what is shown of a trace, the comparison, and *)
(* the session that composes them.                                         *)
(*                                                                         *)
(* The loops of the code are recursive functions; what a loop computes is  *)
(* proved by induction over its turns, as a set of numbers that has 0 and  *)
(* with each number the next: with a least number outside the set it would *)
(* not be well-founded.                                                    *)
(***************************************************************************)
EXTENDS ResultsPages, WellFoundedInduction, FunctionTheorems, FiniteSetTheorems, TLAPS

-----------------------------------------------------------------------------
(* Induction and loops *)

\* A set that has 0 and, with each number, the next has every number.
LEMMA Induction ==
  ASSUME NEW S, 0 \in S, \A n \in Nat : n \in S => n + 1 \in S
  PROVE  Nat \subseteq S
<1> SUFFICES ASSUME Nat \ S # {} PROVE FALSE
  OBVIOUS
<1>1. PICK n \in Nat \ S : \A m \in Nat \ S : <<m, n>> \notin OpToRel(<, Nat)
  <2> DEFINE R == OpToRel(<, Nat)
             T == Nat \ S
  <2>1. IsWellFoundedOn(R, Nat)
    BY NatLessThanWellFounded
  <2>2. T \subseteq Nat /\ T # {}
    OBVIOUS
  <2> HIDE DEF R, T
  <2>3. \E x \in T : \A y \in T : <<y, x>> \notin R
    BY <2>1, <2>2, WFMin
  <2>4. QED
    BY <2>3 DEF R, T
<1>2. n # 0 /\ n - 1 \in Nat
  OBVIOUS
<1>3. n - 1 \in Nat \ S
  BY <1>2
<1>4. <<n - 1, n>> \in OpToRel(<, Nat)
  BY <1>2 DEF OpToRel
<1>5. QED
  BY <1>1, <1>3, <1>4

\* The same for the turns of a loop of n.
LEMMA TurnByTurn ==
  ASSUME NEW n \in Nat, NEW S, 0 \in S, \A i \in 1 .. n : i - 1 \in S => i \in S
  PROVE  0 .. n \subseteq S
<1> DEFINE T == {i \in Nat : i <= n => i \in S}
<1>1. 0 \in T
  OBVIOUS
<1>2. ASSUME NEW i \in Nat, i \in T PROVE i + 1 \in T
  <2>1. CASE i + 1 <= n
    <3>1. i + 1 \in 1 .. n /\ (i + 1) - 1 = i /\ i \in S
      BY <1>2, <2>1
    <3>2. QED
      BY <3>1
  <2>2. CASE ~(i + 1 <= n)
    BY <2>2
  <2>3. QED
    BY <2>1, <2>2
<1>3. Nat \subseteq T
  <2> HIDE DEF T
  <2>1. QED
    BY <1>1, <1>2, Induction
<1>4. QED
  BY <1>3

\* f has the values of a loop of n turns: base, and then what step makes of the
\* value before and of the turn.
Turns(f, n, base, step) ==
  /\ f[0] = base
  /\ \A i \in 1 .. n : f[i] = step[<<f[i - 1], i>>]

\* A loop whose turns stay in V has values.
LEMMA Loop ==
  ASSUME NEW V, NEW base \in V, NEW n \in Nat, NEW step \in [V \X Nat -> V]
  PROVE  \E f \in [0 .. n -> V] : Turns(f, n, base, step)
<1> DEFINE Reached == {m \in Nat : \E f \in [0 .. m -> V] : Turns(f, m, base, step)}
<1>1. 0 \in Reached
  <2>1. [i \in 0 .. 0 |-> base] \in [0 .. 0 -> V]
    OBVIOUS
  <2>2. Turns([i \in 0 .. 0 |-> base], 0, base, step)
    BY DEF Turns
  <2>3. QED
    BY <2>1, <2>2
<1>2. ASSUME NEW m \in Nat, m \in Reached PROVE m + 1 \in Reached
  <2>1. PICK f \in [0 .. m -> V] : Turns(f, m, base, step)
    BY <1>2
  <2> DEFINE g == [i \in 0 .. m + 1 |-> IF i = m + 1 THEN step[<<f[m], m + 1>>] ELSE f[i]]
  <2>2. step[<<f[m], m + 1>>] \in V
    OBVIOUS
  <2>3. g \in [0 .. m + 1 -> V]
    BY <2>2
  <2>4. \A i \in 0 .. m : g[i] = f[i]
    OBVIOUS
  <2>5. g[m + 1] = step[<<f[m], m + 1>>]
    OBVIOUS
  <2> HIDE DEF g
  <2>6. ASSUME NEW i \in 1 .. m + 1 PROVE g[i] = step[<<g[i - 1], i>>]
    <3>1. CASE i = m + 1
      BY <2>4, <2>5, <3>1
    <3>2. CASE i \in 1 .. m
      BY <2>1, <2>4, <3>2 DEF Turns
    <3>3. QED
      BY <3>1, <3>2
  <2>7. Turns(g, m + 1, base, step)
    BY <2>1, <2>4, <2>6 DEF Turns
  <2>8. QED
    BY <2>3, <2>7
<1>3. Nat \subseteq Reached
  <2> HIDE DEF Reached
  <2>1. QED
    BY <1>1, <1>2, Induction
<1>4. QED
  BY <1>3

-----------------------------------------------------------------------------
(* What the loops of the code compute *)

Distinct(s) == \A i, j \in 1 .. Len(s) : s[i] = s[j] => i = j

\* filter has the values of its loop.
LEMMA OnlyLoop ==
  ASSUME NEW A, NEW s \in Seq(A), NEW S
  PROVE  \E kept : /\ Only(s, S) = kept[Len(s)]
                   /\ kept[0] = <<>>
                   /\ \A i \in 1 .. Len(s) : kept[i] = Keep(kept[i - 1], s[i], S)
<1> DEFINE n == Len(s)
           V == Seq(A)
           step == [p \in V \X Nat |-> IF p[2] \in 1 .. n THEN Keep(p[1], s[p[2]], S) ELSE p[1]]
           kept[i \in 0 .. n] == IF i = 0 THEN <<>> ELSE Keep(kept[i - 1], s[i], S)
<1>1. n \in Nat /\ <<>> \in V
  OBVIOUS
<1>2. ASSUME NEW v \in V, NEW i \in 1 .. n PROVE Keep(v, s[i], S) \in V
  <2>1. s[i] \in A
    OBVIOUS
  <2>2. QED
    BY <2>1 DEF Keep
<1> HIDE DEF V
<1>3. step \in [V \X Nat -> V]
  BY <1>2
<1>4. PICK f \in [0 .. n -> V] : Turns(f, n, <<>>, step)
  <2> HIDE DEF step
  <2>1. QED
    BY <1>1, <1>3, Loop
<1>5. ASSUME NEW i \in 1 .. n PROVE f[i] = Keep(f[i - 1], s[i], S)
  BY <1>1, <1>4 DEF Turns
<1>6. f[0] = <<>>
  BY <1>4 DEF Turns
<1>7. f = [i \in 0 .. n |-> IF i = 0 THEN <<>> ELSE Keep(f[i - 1], s[i], S)]
  BY <1>1, <1>5, <1>6
<1>8. kept = [i \in 0 .. n |-> IF i = 0 THEN <<>> ELSE Keep(kept[i - 1], s[i], S)]
  BY <1>7
<1>9. Only(s, S) = kept[n]
  BY DEF Only
<1> HIDE DEF kept
<1>10. kept[0] = <<>> /\ \A i \in 1 .. n : kept[i] = Keep(kept[i - 1], s[i], S)
  BY <1>1, <1>8
<1>11. QED
  BY <1>9, <1>10

\* A turn of a filter: what was kept of the first i - 1 elements becomes what
\* is kept of the first i.
LEMMA KeepTurn ==
  ASSUME NEW A, NEW s \in Seq(A), NEW S, NEW i \in 1 .. Len(s), NEW acc \in Seq(A),
         Len(acc) <= i - 1,
         \A x : x \in ToSet(acc) <=> x \in S /\ \E k \in 1 .. (i - 1) : x = s[k],
         Distinct(s) => Distinct(acc)
  PROVE  /\ Keep(acc, s[i], S) \in Seq(A)
         /\ Len(Keep(acc, s[i], S)) <= i
         /\ \A x : x \in ToSet(Keep(acc, s[i], S)) <=> x \in S /\ \E k \in 1 .. i : x = s[k]
         /\ Distinct(s) => Distinct(Keep(acc, s[i], S))
<1>1. s[i] \in A /\ Len(s) \in Nat /\ i \in Nat /\ Len(acc) \in Nat
  OBVIOUS
<1>2. \A k : k \in 1 .. i <=> k \in 1 .. (i - 1) \/ k = i
  BY <1>1
<1>3. CASE s[i] \notin S
  <2>1. Keep(acc, s[i], S) = acc
    BY <1>3 DEF Keep
  <2>2. QED
    BY <1>1, <1>2, <1>3, <2>1
<1>4. CASE s[i] \in S
  <2> DEFINE more == Append(acc, s[i])
  <2>1. Keep(acc, s[i], S) = more
    BY <1>4 DEF Keep
  <2>2. /\ more \in Seq(A) /\ Len(more) = Len(acc) + 1
        /\ \A k \in 1 .. Len(acc) : more[k] = acc[k]
        /\ more[Len(acc) + 1] = s[i]
        /\ DOMAIN more = 1 .. (Len(acc) + 1) /\ DOMAIN acc = 1 .. Len(acc)
    BY <1>1
  <2> HIDE DEF more
  <2>3. \A k : k \in DOMAIN more <=> k \in DOMAIN acc \/ k = Len(acc) + 1
    BY <1>1, <2>2
  <2>4. \A x : x \in ToSet(more) <=> x \in ToSet(acc) \/ x = s[i]
    BY <2>2, <2>3 DEF ToSet
  <2>5. ASSUME Distinct(s) PROVE Distinct(more)
    <3>1. Distinct(acc)
      BY <2>5
    <3>2. \A k \in 1 .. (i - 1) : s[k] # s[i]
      BY <1>1, <2>5 DEF Distinct
    <3>3. s[i] \notin ToSet(acc)
      BY <3>2
    <3>4. \A k \in 1 .. Len(acc) : acc[k] # s[i]
      BY <2>2, <3>3 DEF ToSet
    <3>5. QED
      BY <1>1, <2>2, <3>1, <3>4 DEF Distinct
  <2>6. QED
    BY <1>1, <1>2, <1>4, <2>1, <2>2, <2>4, <2>5
<1>5. QED
  BY <1>3, <1>4

\* What filter gives: a list no longer, of what is in S and nothing else, that
\* repeats nothing which the list did not repeat.
LEMMA OnlyProperties ==
  ASSUME NEW A, NEW s \in Seq(A), NEW S
  PROVE  /\ Only(s, S) \in Seq(A)
         /\ Len(Only(s, S)) <= Len(s)
         /\ ToSet(Only(s, S)) = ToSet(s) \cap S
         /\ Distinct(s) => Distinct(Only(s, S))
<1>1. PICK kept : /\ Only(s, S) = kept[Len(s)]
                  /\ kept[0] = <<>>
                  /\ \A i \in 1 .. Len(s) : kept[i] = Keep(kept[i - 1], s[i], S)
  BY OnlyLoop
<1> DEFINE Good(acc, i) == /\ acc \in Seq(A)
                           /\ Len(acc) <= i
                           /\ \A x : x \in ToSet(acc) <=> x \in S /\ \E k \in 1 .. i : x = s[k]
                           /\ Distinct(s) => Distinct(acc)
           T == {i \in Nat : Good(kept[i], i)}
<1>2. Len(s) \in Nat
  OBVIOUS
<1>3. 0 \in T
  <2>1. <<>> \in Seq(A) /\ Len(<<>>) = 0 /\ ToSet(<<>>) = {}
    BY DEF ToSet
  <2>2. Distinct(<<>>)
    BY <2>1 DEF Distinct
  <2>3. Good(<<>>, 0)
    BY <2>1, <2>2
  <2> HIDE DEF Good
  <2>4. QED
    BY <1>1, <2>3
<1>4. ASSUME NEW i \in 1 .. Len(s), i - 1 \in T PROVE i \in T
  <2>1. Good(kept[i - 1], i - 1)
    BY <1>4
  <2>2. Good(Keep(kept[i - 1], s[i], S), i)
    BY <2>1, KeepTurn
  <2>3. QED
    BY <1>1, <2>2
<1>5. Len(s) \in T
  <2> HIDE DEF T
  <2>1. QED
    BY <1>2, <1>3, <1>4, TurnByTurn
<1>6. Good(Only(s, S), Len(s))
  BY <1>1, <1>5
<1>7. \A x : x \in ToSet(s) <=> \E k \in 1 .. Len(s) : x = s[k]
  BY DEF ToSet
<1>8. QED
  BY <1>6, <1>7

-----------------------------------------------------------------------------
(* Sums and lists of lists *)

\* A loop that adds numbers has values.
LEMMA SumLoop ==
  ASSUME NEW n \in Nat, NEW w \in [1 .. n -> Int]
  PROVE  \E f \in [0 .. n -> Int] : f[0] = 0 /\ \A i \in 1 .. n : f[i] = f[i - 1] + w[i]
<1> DEFINE step == [p \in Int \X Nat |-> IF p[2] \in 1 .. n THEN p[1] + w[p[2]] ELSE p[1]]
<1>1. step \in [Int \X Nat -> Int]
  OBVIOUS
<1>2. PICK f \in [0 .. n -> Int] : Turns(f, n, 0, step)
  <2>1. 0 \in Int
    OBVIOUS
  <2> HIDE DEF step
  <2>2. QED
    BY <1>1, <2>1, Loop
<1>3. ASSUME NEW i \in 1 .. n PROVE f[i] = f[i - 1] + w[i]
  <2>1. f[i - 1] \in Int /\ i \in Nat
    OBVIOUS
  <2>2. step[<<f[i - 1], i>>] = f[i - 1] + w[i]
    BY <2>1
  <2>3. QED
    BY <1>2, <2>2 DEF Turns
<1>4. QED
  BY <1>2, <1>3 DEF Turns

\* Total has the values of its loop.
LEMMA TotalLoop ==
  ASSUME NEW counts \in Seq(Int)
  PROVE  \E sum : /\ Total(counts) = sum[Len(counts)]
                  /\ sum[0] = 0
                  /\ \A i \in 1 .. Len(counts) : sum[i] = sum[i - 1] + counts[i]
<1> DEFINE n == Len(counts)
           sum[i \in 0 .. n] == IF i = 0 THEN 0 ELSE sum[i - 1] + counts[i]
<1>1. n \in Nat /\ counts \in [1 .. n -> Int]
  OBVIOUS
<1>2. PICK f \in [0 .. n -> Int] : f[0] = 0 /\ \A i \in 1 .. n : f[i] = f[i - 1] + counts[i]
  BY <1>1, SumLoop
<1>3. f = [i \in 0 .. n |-> IF i = 0 THEN 0 ELSE f[i - 1] + counts[i]]
  BY <1>1, <1>2
<1>4. sum = [i \in 0 .. n |-> IF i = 0 THEN 0 ELSE sum[i - 1] + counts[i]]
  BY <1>3
<1>5. Total(counts) = sum[n]
  BY DEF Total
<1> HIDE DEF sum
<1>6. sum[0] = 0 /\ \A i \in 1 .. n : sum[i] = sum[i - 1] + counts[i]
  BY <1>1, <1>4
<1>7. QED
  BY <1>5, <1>6

\* The flattening of a list of lists has the values of its loop.
LEMMA FlattenLoop ==
  ASSUME NEW A, NEW lists \in Seq(Seq(A)), Len(lists) # 0
  PROVE  \E flatten : /\ FlattenSeq(lists) = flatten[Len(lists)]
                      /\ flatten[1] = lists[1]
                      /\ \A i \in 2 .. Len(lists) : flatten[i] = flatten[i - 1] \o lists[i]
<1> DEFINE n == Len(lists)
           V == Seq(A)
           step == [p \in V \X Nat |-> IF p[2] \in 1 .. n THEN p[1] \o lists[p[2]] ELSE p[1]]
           flatten[i \in 1 .. n] == IF i = 1 THEN lists[i] ELSE flatten[i - 1] \o lists[i]
<1>1. n \in Nat /\ n # 0 /\ \A i \in 1 .. n : lists[i] \in V
  OBVIOUS
<1>2. /\ <<>> \in V
      /\ \A v, w \in V : v \o w \in V
      /\ \A v \in V : <<>> \o v = v
  OBVIOUS
<1>3. FlattenSeq(lists) = flatten[n]
  BY <1>1 DEF FlattenSeq
<1> HIDE DEF V
<1>4. step \in [V \X Nat -> V]
  BY <1>1, <1>2
<1>5. PICK f \in [0 .. n -> V] : Turns(f, n, <<>>, step)
  <2> HIDE DEF step
  <2>1. QED
    BY <1>1, <1>2, <1>4, Loop
<1>6. ASSUME NEW i \in 1 .. n PROVE f[i] = f[i - 1] \o lists[i]
  <2>1. i - 1 \in 0 .. n /\ i \in Nat
    BY <1>1
  <2>2. f[i - 1] \in V
    BY <1>5, <2>1
  <2>3. step[<<f[i - 1], i>>] = f[i - 1] \o lists[i]
    BY <2>1, <2>2
  <2>4. QED
    BY <1>5, <2>3 DEF Turns
<1> HIDE DEF step
<1>7. f[1] = lists[1]
  <2>1. f[0] = <<>> /\ 1 \in 1 .. n
    BY <1>1, <1>5 DEF Turns
  <2>2. f[1] = f[1 - 1] \o lists[1] /\ lists[1] \in V
    BY <1>1, <1>6, <2>1
  <2>3. f[1 - 1] = <<>>
    BY <2>1
  <2>4. \A v \in V : v = lists[1] => <<>> \o v = lists[1]
    BY <1>2
  <2>5. QED
    BY <2>2, <2>3, <2>4, Zenon
<1> DEFINE g == [i \in 1 .. n |-> f[i]]
<1>8. g = [i \in 1 .. n |-> IF i = 1 THEN lists[i] ELSE g[i - 1] \o lists[i]]
  <2>1. ASSUME NEW i \in 1 .. n
        PROVE  f[i] = IF i = 1 THEN lists[i] ELSE g[i - 1] \o lists[i]
    <3>1. CASE i = 1
      BY <1>7, <3>1
    <3>2. CASE i # 1
      <4>1. i - 1 \in 1 .. n
        BY <1>1, <3>2
      <4>2. QED
        BY <1>6, <3>2, <4>1
    <3>3. QED
      BY <3>1, <3>2
  <2>2. QED
    BY <2>1
<1> HIDE DEF g
<1>9. flatten = [i \in 1 .. n |-> IF i = 1 THEN lists[i] ELSE flatten[i - 1] \o lists[i]]
  BY <1>8
<1> HIDE DEF flatten
<1>10. flatten[1] = lists[1]
  BY <1>1, <1>9
<1>11. ASSUME NEW i \in 2 .. n PROVE flatten[i] = flatten[i - 1] \o lists[i]
  <2>1. i \in 1 .. n /\ i # 1
    BY <1>1
  <2>2. QED
    BY <1>9, <2>1
<1>12. QED
  BY <1>3, <1>10, <1>11

\* A list of lists is flattened to as many elements as the lists have.
LEMMA Flattened ==
  ASSUME NEW A, NEW lists \in Seq(Seq(A))
  PROVE  /\ FlattenSeq(lists) \in Seq(A)
         /\ Len(FlattenSeq(lists)) = Total([i \in 1 .. Len(lists) |-> Len(lists[i])])
<1> DEFINE n == Len(lists)
           counts == [i \in 1 .. n |-> Len(lists[i])]
<1>1. n \in Nat /\ \A i \in 1 .. n : lists[i] \in Seq(A)
  OBVIOUS
<1>2. \A i \in 1 .. n : Len(lists[i]) \in Nat
  BY <1>1
<1>3. counts \in [1 .. n -> Int]
  BY <1>2
<1>4. \A i \in 1 .. n : counts[i] = Len(lists[i])
  OBVIOUS
<1> HIDE DEF counts
<1>5. counts \in Seq(Int) /\ Len(counts) = n
  <2>1. \A m \in Nat : \A c \in [1 .. m -> Int] : c \in Seq(Int) /\ Len(c) = m
    OBVIOUS
  <2>2. QED
    BY <1>1, <1>3, <2>1
<1>6. PICK sum : /\ Total(counts) = sum[n]
                 /\ sum[0] = 0
                 /\ \A i \in 1 .. n : sum[i] = sum[i - 1] + counts[i]
  BY <1>5, TotalLoop
<1>7. CASE n = 0
  <2>1. FlattenSeq(lists) = lists /\ lists = <<>>
    BY <1>7 DEF FlattenSeq
  <2>2. QED
    BY <1>6, <1>7, <2>1 DEF counts
<1>8. CASE n # 0
  <2>1. PICK flatten : /\ FlattenSeq(lists) = flatten[n]
                       /\ flatten[1] = lists[1]
                       /\ \A i \in 2 .. n : flatten[i] = flatten[i - 1] \o lists[i]
    BY <1>8, FlattenLoop
  <2> DEFINE T == {i \in 0 .. n : i # 0 => flatten[i] \in Seq(A) /\ Len(flatten[i]) = sum[i]}
  <2>2. 0 \in T
    BY <1>1
  <2>3. ASSUME NEW i \in 1 .. n, i - 1 \in T PROVE i \in T
    <3>1. sum[i] = sum[i - 1] + Len(lists[i])
      BY <1>4, <1>6
    <3>2. lists[i] \in Seq(A) /\ Len(lists[i]) \in Nat
      BY <1>1, <1>2
    <3>3. CASE i = 1
      <4>1. sum[1] = Len(lists[1])
        BY <1>6, <3>1, <3>2, <3>3
      <4>2. QED
        BY <2>1, <3>2, <3>3, <4>1
    <3>4. CASE i # 1
      <4>1. i \in 2 .. n /\ i - 1 # 0 /\ i \in Nat
        BY <1>1, <3>4
      <4>2. /\ flatten[i] = flatten[i - 1] \o lists[i]
            /\ flatten[i - 1] \in Seq(A) /\ Len(flatten[i - 1]) = sum[i - 1]
        BY <2>1, <2>3, <4>1
      <4>3. \A v, w \in Seq(A) : v \o w \in Seq(A) /\ Len(v \o w) = Len(v) + Len(w)
        OBVIOUS
      <4>4. flatten[i] \in Seq(A) /\ Len(flatten[i]) = Len(flatten[i - 1]) + Len(lists[i])
        BY <3>2, <4>2, <4>3
      <4>5. Len(flatten[i - 1]) \in Nat
        BY <4>2
      <4>6. Len(flatten[i]) = sum[i]
        BY <3>1, <4>2, <4>4, <4>5
      <4>7. QED
        BY <4>4, <4>6
    <3>5. QED
      BY <3>3, <3>4
  <2>4. n \in T
    <3> HIDE DEF T
    <3>1. 0 .. n \subseteq T
      BY <1>1, <2>2, <2>3, TurnByTurn
    <3>2. QED
      BY <1>1, <3>1
  <2>5. QED
    BY <1>6, <1>8, <2>1, <2>4 DEF counts
<1>9. QED
  BY <1>7, <1>8

-----------------------------------------------------------------------------
(* The episode player: episodes and their steps *)

\* The episode shown is one of the list, and its steps are counted.
LEMMA StepsCounted ==
  ASSUME NEW ls \in LengthLists, NEW e \in Nat
  PROVE  StepsOf(ls, e) \in Nat
<1>1. ls \in Seq(Nat) /\ Len(ls) \in Nat
  BY PlayerAssumption
<1>2. Offered(ls) \in Nat /\ Offered(ls) <= Len(ls)
  BY <1>1, PlayerAssumption DEF Offered, Lesser
<1>3. Offered(ls) # 0 => Shown(ls, e) + 1 \in 1 .. Len(ls)
  BY <1>2, <1>1 DEF Shown, Lesser
<1>4. QED
  BY <1>1, <1>3 DEF StepsOf

LEMMA Counts ==
  ASSUME PlayerTypeOK
  PROVE  Length \in Nat /\ LastIndex \in Nat
<1>1. Length \in Nat
  BY StepsCounted, PlayerAssumption DEF PlayerTypeOK, Length
<1>2. QED
  BY <1>1 DEF LastIndex, LastOf

LEMMA ClampBounds ==
  ASSUME PlayerTypeOK, NEW i \in Nat
  PROVE  Clamp(i) \in Nat /\ Clamp(i) <= LastIndex /\ Clamp(i) <= i
BY Counts DEF Clamp, Lesser

-----------------------------------------------------------------------------
(* The episode player: the effects of a commit *)

Commits ==
  [length : Nat, shown : Nat, index : Nat, playing : BOOLEAN, timers : SUBSET Nat]

\* Nothing that auto-advance depends on differs between two commits.
SameAdvance(was, is) ==
  <<is.playing, is.index, LastOf(is.length)>> = <<was.playing, was.index, LastOf(was.length)>>

\* Did another length or another episode rewind the cursor?
Rewound(was, is) == is.length # was.length \/ is.shown # was.shown

\* What the effects leave of each part of the commit they run for.
LEMMA EffectsLeave ==
  ASSUME NEW was \in Commits, NEW is \in Commits
  PROVE  LET left == Effects(was, is) IN
         /\ left \in Commits
         /\ left.length = is.length /\ left.shown = is.shown
         /\ left.index = IF Rewound(was, is) THEN 0 ELSE is.index
         /\ left.playing <=> /\ is.playing /\ is.length = was.length
                             /\ SameAdvance(was, is) \/ is.index < LastOf(is.length)
         /\ left.timers = IF SameAdvance(was, is) THEN is.timers
                          ELSE IF is.playing /\ is.index < LastOf(is.length)
                               THEN {LastOf(is.length)} ELSE {}
<1> DEFINE reset == ResetOnLength(was, is, is)
           advanced == AutoAdvance(was, is, reset)
           left == Rewind(was, is, advanced)
           last == LastOf(is.length)
<1>1. is.index \in Nat /\ is.length \in Nat /\ was.length \in Nat /\ last \in Nat
      /\ is.playing \in BOOLEAN
  BY DEF Commits, LastOf
<1>2. /\ reset \in Commits
      /\ reset.length = is.length /\ reset.shown = is.shown /\ reset.timers = is.timers
      /\ reset.index = IF is.length # was.length THEN 0 ELSE is.index
      /\ reset.playing = IF is.length # was.length THEN FALSE ELSE is.playing
  BY DEF ResetOnLength, Commits
<1> HIDE DEF reset
<1>3. /\ advanced \in Commits
      /\ advanced.length = is.length /\ advanced.shown = is.shown
      /\ advanced.index = reset.index
      /\ advanced.playing = IF ~SameAdvance(was, is) /\ is.playing /\ is.index >= last
                            THEN FALSE ELSE reset.playing
      /\ advanced.timers = IF SameAdvance(was, is) THEN is.timers
                           ELSE IF is.playing /\ is.index >= last THEN {}
                           ELSE IF is.playing THEN {last} ELSE {}
  <2>1. CASE SameAdvance(was, is)
    BY <1>2, <2>1 DEF AutoAdvance, SameAdvance
  <2>2. CASE ~SameAdvance(was, is) /\ is.playing /\ is.index >= last
    BY <1>2, <2>2 DEF AutoAdvance, SameAdvance, Commits
  <2>3. CASE ~SameAdvance(was, is) /\ ~(is.playing /\ is.index >= last)
    <3>1. advanced = [reset EXCEPT !.timers = IF is.playing THEN {last} ELSE {}]
      BY <2>3 DEF AutoAdvance, SameAdvance
    <3>2. (IF is.playing THEN {last} ELSE {}) \in SUBSET Nat
      BY <1>1
    <3> HIDE DEF advanced
    <3>3. QED
      BY <1>2, <2>3, <3>1, <3>2 DEF Commits
  <2>4. QED
    BY <2>1, <2>2, <2>3
<1> HIDE DEF advanced
<1>4. /\ left \in Commits
      /\ left.length = is.length /\ left.shown = is.shown
      /\ left.index = IF is.shown # was.shown \/ last # LastOf(was.length)
                      THEN 0 ELSE advanced.index
      /\ left.playing = advanced.playing /\ left.timers = advanced.timers
  BY <1>3 DEF Rewind, Commits
<1>5. Effects(was, is) = left
  BY DEF Effects, left, advanced, reset
<1> HIDE DEF left
<1>6. last # LastOf(was.length) => is.length # was.length
  OBVIOUS
<1>7. left.index = IF Rewound(was, is) THEN 0 ELSE is.index
  BY <1>2, <1>3, <1>4, <1>6 DEF Rewound
<1>8. is.index >= last <=> ~(is.index < last)
  BY <1>1
<1>9. left.playing <=> /\ is.playing /\ is.length = was.length
                       /\ SameAdvance(was, is) \/ is.index < last
  BY <1>1, <1>2, <1>3, <1>4, <1>8
<1>10. left.timers = IF SameAdvance(was, is) THEN is.timers
                     ELSE IF is.playing /\ is.index < last THEN {last} ELSE {}
  BY <1>3, <1>4, <1>8
<1>11. QED
  BY <1>4, <1>5, <1>7, <1>9, <1>10

(* The effects of the second commit set nothing, whatever a handler set in *)
(* the first: the chain of the two files' effects ends there.              *)
THEOREM EffectsRest ==
  ASSUME NEW was \in Commits, NEW is \in Commits
  PROVE  LET left == Effects(was, is)
             rest == Effects(is, left)
         IN  Effects(left, rest) = rest
<1> DEFINE left == Effects(was, is)
           rest == Effects(is, left)
           still == Effects(left, rest)
<1>1. left \in Commits /\ left.length = is.length /\ left.shown = is.shown
  BY EffectsLeave
<1> HIDE DEF left
<1>2. /\ rest \in Commits /\ rest.length = left.length /\ rest.shown = left.shown
      /\ rest.index = left.index
      /\ rest.playing <=> left.playing /\ (SameAdvance(is, left) \/ left.index < LastOf(left.length))
      /\ rest.timers = IF SameAdvance(is, left) THEN left.timers
                       ELSE IF left.playing /\ left.index < LastOf(left.length)
                            THEN {LastOf(left.length)} ELSE {}
  BY <1>1, EffectsLeave DEF Rewound
<1> HIDE DEF rest
<1>3. /\ still \in Commits /\ still.length = rest.length /\ still.shown = rest.shown
      /\ still.index = rest.index
      /\ still.playing <=> rest.playing /\ (SameAdvance(left, rest) \/ rest.index < LastOf(rest.length))
      /\ still.timers = IF SameAdvance(left, rest) THEN rest.timers
                        ELSE IF rest.playing /\ rest.index < LastOf(rest.length)
                             THEN {LastOf(rest.length)} ELSE {}
  BY <1>1, <1>2, EffectsLeave DEF Rewound
<1> HIDE DEF still
<1>4. left.playing \in BOOLEAN /\ rest.playing \in BOOLEAN /\ still.playing \in BOOLEAN
  BY <1>1, <1>2, <1>3 DEF Commits
<1>5. CASE rest.playing = left.playing
  <2>1. SameAdvance(left, rest)
    BY <1>2, <1>5 DEF SameAdvance
  <2>2. QED
    BY <1>2, <1>3, <1>4, <2>1 DEF Commits, still, rest, left
<1>6. CASE rest.playing # left.playing
  <2>1. left.playing /\ ~rest.playing /\ ~SameAdvance(left, rest)
    BY <1>2, <1>4, <1>6 DEF SameAdvance
  <2>2. ~SameAdvance(is, left) /\ ~(left.index < LastOf(left.length))
    BY <1>2, <2>1
  <2>3. rest.timers = {} /\ still.timers = {} /\ ~still.playing
    BY <1>2, <1>3, <2>1, <2>2
  <2>4. still = rest
    BY <1>2, <1>3, <1>4, <2>1, <2>3 DEF Commits
  <2>5. QED
    BY <2>4 DEF still, rest, left
<1>7. QED
  BY <1>5, <1>6

-----------------------------------------------------------------------------
(* The episode player: every handler ends in the effects of its commit *)

\* What a step sets: a trace, an episode, a cursor the old length allows, whether
\* it would play, and the timers left.  Who puts another episode there leaves the
\* transport to the effects, and a timer goes only with a cursor that moves.
Sets(ls, e, i, p, ts) ==
  /\ i <= LastIndex
  /\ (ls = lengths /\ e = episodeIdx) \/ (i = index /\ p = playing)
  /\ i = index /\ p = playing => ts = timers
  /\ Settle(ls, e, [index |-> i, playing |-> p, timers |-> ts])

Settles ==
  \E ls \in LengthLists, e \in 0 .. MaxEpisodes - 1,
     i \in Nat, p \in BOOLEAN, ts \in SUBSET Nat : Sets(ls, e, i, p, ts)

Remounts == \E ls \in LengthLists : Remount(ls)

\* What a handler sets, written out.
LEMMA TransportSet ==
  ASSUME NEW i, NEW p, NEW ts
  PROVE  /\ [Transport EXCEPT !.index = i]
              = [index |-> i, playing |-> playing, timers |-> timers]
         /\ [Transport EXCEPT !.index = i, !.playing = p]
              = [index |-> i, playing |-> p, timers |-> timers]
         /\ [Transport EXCEPT !.index = i, !.timers = ts]
              = [index |-> i, playing |-> playing, timers |-> ts]
<1> DEFINE t == [index |-> i, playing |-> playing, timers |-> timers]
<1>1. [Transport EXCEPT !.index = i] = t
  BY DEF Transport
<1>2. [t EXCEPT !.playing = p] = [index |-> i, playing |-> p, timers |-> timers]
  OBVIOUS
<1>3. [t EXCEPT !.timers = ts] = [index |-> i, playing |-> playing, timers |-> ts]
  OBVIOUS
<1>4. /\ [Transport EXCEPT !.index = i, !.playing = p]
           = [[Transport EXCEPT !.index = i] EXCEPT !.playing = p]
      /\ [Transport EXCEPT !.index = i, !.timers = ts]
           = [[Transport EXCEPT !.index = i] EXCEPT !.timers = ts]
  BY DEF Transport
<1> HIDE DEF t
<1>5. /\ [Transport EXCEPT !.index = i, !.playing = p] = [t EXCEPT !.playing = p]
      /\ [Transport EXCEPT !.index = i, !.timers = ts] = [t EXCEPT !.timers = ts]
  BY <1>1, <1>4, Zenon
<1>6. QED
  BY <1>1, <1>2, <1>3, <1>5, Zenon DEF t

\* The cases of Settles: the episode stays, or the transport does.
LEMMA SetsTransport ==
  ASSUME PlayerTypeOK,
         NEW i \in Nat, i <= LastIndex, NEW p \in BOOLEAN, NEW ts \in SUBSET Nat,
         i = index /\ p = playing => ts = timers,
         Settle(lengths, episodeIdx, [index |-> i, playing |-> p, timers |-> ts])
  PROVE  Settles
<1>1. lengths \in LengthLists /\ episodeIdx \in 0 .. MaxEpisodes - 1
  BY DEF PlayerTypeOK
<1>2. Sets(lengths, episodeIdx, i, p, ts)
  BY DEF Sets
<1>3. QED
  BY <1>1, <1>2, Zenon DEF Settles

LEMMA SetsEpisode ==
  ASSUME PlayerTypeOK, PlaysWithinEpisode,
         NEW ls \in LengthLists, NEW e \in 0 .. MaxEpisodes - 1,
         Settle(ls, e, Transport)
  PROVE  Settles
<1>1. index \in Nat /\ index <= LastIndex /\ playing \in BOOLEAN /\ timers \in SUBSET Nat
  BY DEF PlayerTypeOK, PlaysWithinEpisode
<1>2. Settle(ls, e, [index |-> index, playing |-> playing, timers |-> timers])
  BY DEF Transport
<1>3. Sets(ls, e, index, playing, timers)
  BY <1>1, <1>2 DEF Sets
<1>4. QED
  BY <1>1, <1>3, Zenon DEF Settles

LEMMA Moves ==
  ASSUME PlayerTypeOK, NEW i \in Nat, Move(i)
  PROVE  Settles
<1>1. Clamp(i) \in Nat /\ Clamp(i) <= LastIndex
  BY ClampBounds
<1>2. playing \in BOOLEAN /\ timers \in SUBSET Nat
  BY DEF PlayerTypeOK
<1>3. [Transport EXCEPT !.index = Clamp(i)]
        = [index |-> Clamp(i), playing |-> playing, timers |-> timers]
  BY TransportSet
<1>4. Settle(lengths, episodeIdx, [index |-> Clamp(i), playing |-> playing, timers |-> timers])
  BY <1>3 DEF Move
<1>5. QED
  BY <1>1, <1>2, <1>4, SetsTransport

LEMMA PrevMoves ==
  ASSUME PlayerTypeOK, Prev
  PROVE  Settles
<1>1. (IF index = 0 THEN 0 ELSE index - 1) \in Nat
  BY DEF PlayerTypeOK
<1>2. QED
  BY <1>1, Moves DEF Prev

LEMMA NextMoves ==
  ASSUME PlayerTypeOK, StepNext
  PROVE  Settles
BY Moves DEF StepNext, PlayerTypeOK

LEMMA ToggleSettles ==
  ASSUME PlayerTypeOK, PlaysWithinEpisode, Toggle
  PROVE  Settles
<1> DEFINE top == ~playing /\ Length > 1 /\ index >= LastIndex
           i == IF top THEN 0 ELSE index
           p == ~playing /\ Length > 1
<1>1. i \in Nat /\ i <= LastIndex /\ p \in BOOLEAN /\ timers \in SUBSET Nat
  BY Counts DEF PlayerTypeOK, PlaysWithinEpisode
<1>2. Settle(lengths, episodeIdx, [Transport EXCEPT !.index = i, !.playing = p])
  BY DEF Toggle
<1> HIDE DEF i, p
<1>3. [Transport EXCEPT !.index = i, !.playing = p]
        = [index |-> i, playing |-> p, timers |-> timers]
  BY TransportSet
<1>4. QED
  BY <1>1, <1>2, <1>3, SetsTransport

LEMMA RestartSettles ==
  ASSUME PlayerTypeOK, Restart
  PROVE  Settles
<1>1. 0 \in Nat /\ 0 <= LastIndex /\ FALSE \in BOOLEAN /\ timers \in SUBSET Nat
  BY Counts DEF PlayerTypeOK
<1>2. [Transport EXCEPT !.index = 0, !.playing = FALSE]
        = [index |-> 0, playing |-> FALSE, timers |-> timers]
  BY TransportSet, Zenon
<1>3. Settle(lengths, episodeIdx, [index |-> 0, playing |-> FALSE, timers |-> timers])
  BY <1>2 DEF Restart
<1>4. QED
  BY <1>1, <1>3, SetsTransport

\* The timer of what plays moves the cursor one step on, and is gone with that.
LEMMA TickSets ==
  ASSUME PlayerTypeOK, PlaysWithinEpisode, Tick
  PROVE  /\ playing /\ timers = {LastIndex} /\ index < LastIndex
         /\ Settle(lengths, episodeIdx, [index |-> index + 1, playing |-> playing, timers |-> {}])
<1>1. PICK last \in timers :
        Settle(lengths, episodeIdx,
               [Transport EXCEPT !.index = Lesser(index + 1, last), !.timers = @ \ {last}])
  BY DEF Tick
<1>2. playing /\ timers = {LastIndex} /\ last = LastIndex /\ index < LastIndex
  BY <1>1 DEF PlaysWithinEpisode
<1>3. index \in Nat /\ LastIndex \in Nat
  BY Counts DEF PlayerTypeOK
<1>4. Lesser(index + 1, last) = index + 1
  BY <1>2, <1>3 DEF Lesser
<1>5. timers \ {last} = {}
  BY <1>2
<1>6. [Transport EXCEPT !.index = Lesser(index + 1, last), !.timers = @ \ {last}]
        = [index |-> index + 1, playing |-> playing, timers |-> {}]
  <2> DEFINE i == index + 1
  <2> HIDE DEF i
  <2>1. Transport.timers = timers
    BY DEF Transport
  <2>2. [Transport EXCEPT !.index = i, !.timers = @ \ {last}]
          = [Transport EXCEPT !.index = i, !.timers = {}]
    BY <1>5, <2>1
  <2>3. QED
    BY <1>4, <2>2, TransportSet, Zenon DEF i
<1>7. QED
  BY <1>1, <1>2, <1>6

LEMMA TickSettles ==
  ASSUME PlayerTypeOK, PlaysWithinEpisode, Tick
  PROVE  Settles
<1>1. /\ playing \in BOOLEAN /\ {} \in SUBSET Nat
      /\ index + 1 \in Nat /\ index + 1 <= LastIndex /\ index + 1 # index
  BY TickSets, Counts DEF PlayerTypeOK
<1>2. Settle(lengths, episodeIdx, [index |-> index + 1, playing |-> playing, timers |-> {}])
  BY TickSets
<1> DEFINE i == index + 1
<1> HIDE DEF i
<1>3. /\ i \in Nat /\ i <= LastIndex /\ i # index
      /\ Settle(lengths, episodeIdx, [index |-> i, playing |-> playing, timers |-> {}])
  BY <1>1, <1>2 DEF i
<1>4. QED
  BY <1>1, <1>3, SetsTransport

\* A click on a bar seeks to a natural number, as any size of bucket does.
LEMMA BarSizes ==
  ASSUME NEW n \in Nat
  PROVE  /\ BucketSize(n) \in Nat \ {0}
         /\ n <= MaxBars * BucketSize(n)
<1>1. CASE n = 0
  BY <1>1, PlayerAssumption DEF BucketSize
<1>2. CASE n > 0
  <2>1. n + MaxBars - 1 \in Nat /\ MaxBars \in Nat \ {0} /\ n + MaxBars - 1 >= MaxBars
    BY <1>2, PlayerAssumption
  <2> DEFINE m == n + MaxBars - 1
             q == m \div MaxBars
  <2>2. q \in Nat /\ MaxBars * q <= m /\ m < MaxBars * q + MaxBars
    BY <2>1
  <2>3. q # 0
    BY <2>1, <2>2
  <2>4. n <= MaxBars * q
    BY <2>1, <2>2
  <2>5. BucketSize(n) = q
    BY <1>2 DEF BucketSize
  <2> HIDE DEF q
  <2>6. QED
    BY <2>2, <2>3, <2>4, <2>5
<1>3. QED
  BY <1>1, <1>2

LEMMA UserSettles ==
  ASSUME PlayerTypeOK, PlaysWithinEpisode, User
  PROVE  Settles
<1>1. CASE ClickRestart
  BY <1>1, RestartSettles DEF ClickRestart
<1>2. CASE ClickPrev
  BY <1>2, PrevMoves DEF ClickPrev
<1>3. CASE ClickNext
  BY <1>3, NextMoves DEF ClickNext
<1>4. CASE ClickToggle
  BY <1>4, ToggleSettles DEF ClickToggle
<1>5. CASE PressKey
  BY <1>5, PrevMoves, NextMoves, ToggleSettles DEF PressKey
<1>6. ASSUME NEW i \in 0 .. LastIndex, Scrub(i) PROVE Settles
  BY <1>6, Moves, Counts DEF Scrub
<1>7. ASSUME NEW b \in Bars(Length), ClickBar(b) PROVE Settles
  <2>1. b \in Nat
    BY Counts DEF Bars
  <2>2. b * BucketSize(Length) \in Nat
    BY <2>1, BarSizes, Counts
  <2>3. QED
    BY <1>7, <2>2, Moves DEF ClickBar
<1>8. ASSUME NEW e \in 0 .. MaxEpisodes - 1, SelectEpisode(e) PROVE Settles
  <2>1. lengths \in LengthLists
    BY DEF PlayerTypeOK
  <2>2. QED
    BY <1>8, <2>1, SetsEpisode DEF SelectEpisode
<1>9. QED
  BY <1>1, <1>2, <1>3, <1>4, <1>5, <1>6, <1>7, <1>8 DEF User

LEMMA EveryStep ==
  ASSUME PlayerTypeOK, PlaysWithinEpisode, PlayerNext
  PROVE  Settles \/ Remounts
<1>1. CASE User
  BY <1>1, UserSettles
<1>2. CASE Tick
  BY <1>2, TickSettles
<1>3. ASSUME NEW ls \in LengthLists, TraceChanges(ls) PROVE Settles
  <2>1. episodeIdx \in 0 .. MaxEpisodes - 1
    BY DEF PlayerTypeOK
  <2>2. QED
    BY <1>3, <2>1, SetsEpisode DEF TraceChanges
<1>4. ASSUME NEW ls \in LengthLists, Remount(ls) PROVE Remounts
  BY <1>4 DEF Remounts
<1>5. QED
  BY <1>1, <1>2, <1>3, <1>4 DEF PlayerNext

-----------------------------------------------------------------------------
(* The episode player: what the effects leave *)

LEMMA ShownCounted ==
  ASSUME NEW ls \in Seq(Nat), NEW e \in Nat
  PROVE  Shown(ls, e) \in Nat
<1>1. Len(ls) \in Nat
  OBVIOUS
<1>2. Offered(ls) \in Nat
  BY <1>1, PlayerAssumption DEF Offered, Lesser
<1>3. QED
  BY <1>2 DEF Shown, Lesser

\* What is set and what its effects set, committed one after the other, leaves a
\* cursor in the episode, on the first step of one that is new, and a timer with
\* what plays and no other.
LEMMA Rests ==
  ASSUME NEW was \in Commits, NEW given \in Commits,
         was.index <= LastOf(was.length),
         was.playing => was.index < LastOf(was.length),
         was.timers = IF was.playing THEN {LastOf(was.length)} ELSE {},
         given.index <= LastOf(was.length),
         \/ given.length = was.length /\ given.shown = was.shown
         \/ given.index = was.index /\ given.playing = was.playing,
         given.index = was.index /\ given.playing = was.playing => given.timers = was.timers
  PROVE  LET rest == Effects(given, Effects(was, given)) IN
         /\ rest \in Commits
         /\ rest.index = IF Rewound(was, given) THEN 0 ELSE given.index
         /\ given.length # was.length => ~rest.playing
         /\ given.length = was.length /\ given.shown = was.shown =>
              (rest.playing <=> given.playing /\ given.index < LastOf(given.length))
         /\ rest.playing => rest.index < LastOf(given.length)
         /\ rest.timers = IF rest.playing THEN {LastOf(given.length)} ELSE {}
<1> DEFINE left == Effects(was, given)
           rest == Effects(given, left)
           last == LastOf(given.length)
<1>1. /\ was.index \in Nat /\ given.index \in Nat /\ last \in Nat
      /\ was.playing \in BOOLEAN /\ given.playing \in BOOLEAN
  BY DEF Commits, LastOf
<1>2. /\ left \in Commits /\ left.length = given.length /\ left.shown = given.shown
      /\ left.index = IF Rewound(was, given) THEN 0 ELSE given.index
      /\ left.playing <=> /\ given.playing /\ given.length = was.length
                          /\ SameAdvance(was, given) \/ given.index < last
      /\ left.timers = IF SameAdvance(was, given) THEN given.timers
                       ELSE IF given.playing /\ given.index < last THEN {last} ELSE {}
  BY EffectsLeave
<1> HIDE DEF left
<1>3. left.playing \in BOOLEAN /\ left.index \in Nat
  BY <1>2 DEF Commits
<1>4. /\ rest \in Commits
      /\ rest.index = left.index
      /\ rest.playing <=> left.playing /\ (SameAdvance(given, left) \/ left.index < last)
      /\ rest.timers = IF SameAdvance(given, left) THEN left.timers
                       ELSE IF left.playing /\ left.index < last THEN {last} ELSE {}
  <2>1. /\ rest \in Commits
        /\ rest.index = IF Rewound(given, left) THEN 0 ELSE left.index
        /\ rest.playing <=> /\ left.playing /\ left.length = given.length
                            /\ SameAdvance(given, left) \/ left.index < LastOf(left.length)
        /\ rest.timers = IF SameAdvance(given, left) THEN left.timers
                         ELSE IF left.playing /\ left.index < LastOf(left.length)
                              THEN {LastOf(left.length)} ELSE {}
    BY <1>2, EffectsLeave
  <2>2. ~Rewound(given, left) /\ LastOf(left.length) = last
    BY <1>2 DEF Rewound
  <2> HIDE DEF rest, last
  <2>3. QED
    BY <1>2, <2>1, <2>2
<1> HIDE DEF rest, last
<1>5. SameAdvance(given, left) <=> left.playing = given.playing /\ left.index = given.index
  BY <1>2 DEF SameAdvance
<1>6. SameAdvance(was, given) <=>
        given.playing = was.playing /\ given.index = was.index /\ last = LastOf(was.length)
  BY DEF SameAdvance, last
<1>7. given.length = was.length => last = LastOf(was.length)
  BY DEF last
<1>8. CASE given.length # was.length
  <2>1. given.index = was.index /\ given.playing = was.playing /\ given.timers = was.timers
    BY <1>8
  <2>2. ~left.playing /\ ~rest.playing
    BY <1>2, <1>4, <1>8
  <2>3. ASSUME SameAdvance(given, left) PROVE rest.timers = {}
    <3>1. ~given.playing
      BY <1>1, <1>3, <1>5, <2>2, <2>3
    <3>2. left.timers = {}
      BY <1>2, <2>1, <3>1
    <3>3. QED
      BY <1>4, <2>3, <3>2
  <2>4. rest.timers = {}
    BY <1>4, <2>2, <2>3
  <2>5. QED
    BY <1>2, <1>4, <1>8, <2>2, <2>4 DEF rest, left, last
<1>9. CASE given.length = was.length /\ given.shown # was.shown
  <2>1. given.index = was.index /\ given.playing = was.playing /\ given.timers = was.timers
    BY <1>9
  <2>2. SameAdvance(was, given) /\ left.index = 0
    BY <1>2, <1>6, <1>7, <1>9, <2>1 DEF Rewound
  <2>3. left.playing = given.playing /\ left.timers = given.timers
    BY <1>1, <1>2, <1>3, <1>9, <2>2
  <2>4. given.playing => 0 < last /\ given.index < last
    BY <1>1, <1>7, <1>9, <2>1
  <2>5. rest.playing <=> given.playing
    BY <1>4, <1>5, <2>2, <2>3, <2>4
  <2>6. rest.timers = IF given.playing THEN {last} ELSE {}
    BY <1>1, <1>4, <1>7, <1>9, <2>1, <2>2, <2>3, <2>4
  <2>7. QED
    BY <1>2, <1>4, <1>9, <2>2, <2>4, <2>5, <2>6 DEF rest, left, last, Rewound
<1>10. CASE given.length = was.length /\ given.shown = was.shown
  <2>1. left.index = given.index /\ ~Rewound(was, given)
    BY <1>2, <1>10 DEF Rewound
  <2>2. given.playing /\ SameAdvance(was, given) => given.index < last
    BY <1>6
  <2>3. left.playing <=> given.playing /\ given.index < last
    BY <1>2, <1>10, <2>2
  <2>4. left.timers = IF left.playing THEN {last} ELSE {}
    <3>1. CASE SameAdvance(was, given)
      BY <1>2, <1>6, <2>2, <2>3, <3>1
    <3>2. CASE ~SameAdvance(was, given)
      BY <1>2, <2>3, <3>2
    <3>3. QED
      BY <3>1, <3>2
  <2>5. rest.playing <=> left.playing
    BY <1>4, <2>1, <2>3
  <2>6. rest.timers = IF left.playing THEN {last} ELSE {}
    BY <1>4, <2>1, <2>3, <2>4
  <2>7. QED
    BY <1>4, <1>10, <2>1, <2>3, <2>5, <2>6 DEF rest, left, last
<1>11. QED
  BY <1>8, <1>9, <1>10

\* The same of the player's state.
LEMMA Settling ==
  ASSUME PlayerTypeOK, PlaysWithinEpisode,
         NEW ls \in LengthLists, NEW e \in 0 .. MaxEpisodes - 1,
         NEW i \in Nat, NEW p \in BOOLEAN, NEW ts \in SUBSET Nat,
         i <= LastIndex,
         (ls = lengths /\ e = episodeIdx) \/ (i = index /\ p = playing),
         i = index /\ p = playing => ts = timers,
         Settle(ls, e, [index |-> i, playing |-> p, timers |-> ts])
  PROVE  LET n == StepsOf(ls, e)
             rewound == n # Length \/ Shown(ls, e) # Shown(lengths, episodeIdx) IN
         /\ lengths' = ls /\ episodeIdx' = e /\ n \in Nat
         /\ index' = IF rewound THEN 0 ELSE i
         /\ playing' \in BOOLEAN
         /\ n # Length => ~playing'
         /\ ls = lengths /\ e = episodeIdx => (playing' <=> p /\ i < LastIndex)
         /\ playing' => index' < LastOf(n)
         /\ timers' = IF playing' THEN {LastOf(n)} ELSE {}
<1> DEFINE n == StepsOf(ls, e)
           t == [index |-> i, playing |-> p, timers |-> ts]
           was == Commit(lengths, episodeIdx, Transport)
           given == Commit(ls, e, t)
           rest == Effects(given, Effects(was, given))
<1>1. n \in Nat /\ Shown(ls, e) \in Nat
  <2>1. ls \in Seq(Nat) /\ e \in Nat
    BY PlayerAssumption
  <2>2. QED
    BY <2>1, StepsCounted, ShownCounted
<1>2. Length \in Nat /\ Shown(lengths, episodeIdx) \in Nat
  <2>1. lengths \in Seq(Nat) /\ episodeIdx \in Nat
    BY PlayerAssumption DEF PlayerTypeOK
  <2>2. StepsOf(lengths, episodeIdx) \in Nat
    BY <2>1, StepsCounted DEF PlayerTypeOK
  <2>3. Shown(lengths, episodeIdx) \in Nat
    BY <2>1, ShownCounted
  <2>4. QED
    BY <2>2, <2>3 DEF Length
<1>3. was = [length |-> Length, shown |-> Shown(lengths, episodeIdx),
             index |-> index, playing |-> playing, timers |-> timers]
  BY DEF Commit, Transport, Length
<1>4. given = [length |-> n, shown |-> Shown(ls, e), index |-> i, playing |-> p, timers |-> ts]
  BY DEF Commit
<1>5. /\ lengths' = ls /\ episodeIdx' = e
      /\ index' = rest.index /\ playing' = rest.playing /\ timers' = rest.timers
  BY DEF Settle
<1> HIDE DEF was, given, n, rest
<1>6. was \in Commits /\ given \in Commits
  BY <1>1, <1>2, <1>3, <1>4 DEF Commits, PlayerTypeOK
<1>7. /\ was.length = Length /\ was.shown = Shown(lengths, episodeIdx)
      /\ was.index = index /\ was.playing = playing /\ was.timers = timers
  BY <1>3
<1>8. /\ given.length = n /\ given.shown = Shown(ls, e)
      /\ given.index = i /\ given.playing = p /\ given.timers = ts
  BY <1>4
<1>9. ls = lengths /\ e = episodeIdx => n = Length /\ Shown(ls, e) = Shown(lengths, episodeIdx)
  BY DEF n, Length
<1>10. /\ index <= LastOf(Length) /\ (playing => index < LastOf(Length))
       /\ timers = IF playing THEN {LastOf(Length)} ELSE {}
       /\ i <= LastOf(Length)
  BY DEF PlaysWithinEpisode, LastIndex
<1>11. /\ rest \in Commits
       /\ rest.index = IF Rewound(was, given) THEN 0 ELSE given.index
       /\ given.length # was.length => ~rest.playing
       /\ given.length = was.length /\ given.shown = was.shown =>
            (rest.playing <=> given.playing /\ given.index < LastOf(given.length))
       /\ rest.playing => rest.index < LastOf(given.length)
       /\ rest.timers = IF rest.playing THEN {LastOf(given.length)} ELSE {}
  <2>1. /\ was.index <= LastOf(was.length) /\ (was.playing => was.index < LastOf(was.length))
        /\ was.timers = IF was.playing THEN {LastOf(was.length)} ELSE {}
        /\ given.index <= LastOf(was.length)
    BY <1>7, <1>8, <1>10
  <2>2. /\ \/ given.length = was.length /\ given.shown = was.shown
           \/ given.index = was.index /\ given.playing = was.playing
        /\ given.index = was.index /\ given.playing = was.playing => given.timers = was.timers
    BY <1>7, <1>8, <1>9
  <2>3. QED
    BY <1>6, <2>1, <2>2, Rests DEF rest
<1>12. playing' \in BOOLEAN
  BY <1>5, <1>11 DEF Commits
<1>13. index' = IF n # Length \/ Shown(ls, e) # Shown(lengths, episodeIdx) THEN 0 ELSE i
  BY <1>5, <1>7, <1>8, <1>11 DEF Rewound
<1>14. ls = lengths /\ e = episodeIdx => (playing' <=> p /\ i < LastIndex)
  BY <1>5, <1>7, <1>8, <1>9, <1>11 DEF LastIndex
<1>15. /\ n # Length => ~playing'
       /\ playing' => index' < LastOf(n)
       /\ timers' = IF playing' THEN {LastOf(n)} ELSE {}
  BY <1>5, <1>7, <1>8, <1>11
<1>16. QED
  BY <1>1, <1>5, <1>12, <1>13, <1>14, <1>15 DEF n

\* The cursor stays in the episode; what is new starts at its first step.
LEMMA Settled ==
  ASSUME PlayerTypeOK, PlaysWithinEpisode, Settles
  PROVE  /\ PlayerTypeOK' /\ PlaysWithinEpisode'
         /\ Shown(lengths', episodeIdx') # Shown(lengths, episodeIdx) => index' = 0
         /\ Length' # Length => index' = 0 /\ ~playing' /\ timers' = {}
<1>1. PICK ls \in LengthLists, e \in 0 .. MaxEpisodes - 1,
           i \in Nat, p \in BOOLEAN, ts \in SUBSET Nat : Sets(ls, e, i, p, ts)
  BY DEF Settles
<1> DEFINE n == StepsOf(ls, e)
<1>2. /\ lengths' = ls /\ episodeIdx' = e /\ n \in Nat
      /\ index' = IF n # Length \/ Shown(ls, e) # Shown(lengths, episodeIdx) THEN 0 ELSE i
      /\ playing' \in BOOLEAN
      /\ n # Length => ~playing'
      /\ playing' => index' < LastOf(n)
      /\ timers' = IF playing' THEN {LastOf(n)} ELSE {}
  BY <1>1, Settling DEF Sets
<1>3. Length' = n /\ LastIndex' = LastOf(n)
  BY <1>2 DEF Length, LastIndex
<1> HIDE DEF n
<1>4. LastOf(n) \in Nat /\ index' \in Nat
  BY <1>2 DEF LastOf
<1>5. index' <= LastOf(n)
  BY <1>1, <1>2, <1>4 DEF Sets, LastIndex
<1>6. timers' \subseteq Nat
  BY <1>2, <1>4
<1>7. PlayerTypeOK'
  BY <1>1, <1>2, <1>4, <1>6 DEF PlayerTypeOK
<1>8. PlaysWithinEpisode'
  BY <1>2, <1>3, <1>5 DEF PlaysWithinEpisode
<1>9. QED
  BY <1>2, <1>3, <1>7, <1>8 DEF n

LEMMA Remounted ==
  ASSUME PlayerTypeOK, Remounts
  PROVE  /\ PlayerTypeOK' /\ PlaysWithinEpisode'
         /\ index' = 0 /\ ~playing' /\ timers' = {}
<1>1. PICK ls \in LengthLists : Remount(ls)
  BY DEF Remounts
<1>2. 0 \in 0 .. MaxEpisodes - 1
  BY PlayerAssumption
<1>3. PlayerTypeOK' /\ index' = 0 /\ playing' = FALSE /\ timers' = {}
  BY <1>1, <1>2 DEF Remount, PlayerTypeOK
<1>4. LastIndex' \in Nat
  <2>1. StepsOf(lengths', episodeIdx') \in Nat
    BY <1>3, StepsCounted, PlayerAssumption DEF PlayerTypeOK
  <2>2. QED
    BY <2>1 DEF LastIndex, Length, LastOf
<1>5. QED
  BY <1>3, <1>4 DEF PlaysWithinEpisode

PlayerInv == PlayerTypeOK /\ PlaysWithinEpisode

LEMMA PlayerInvInit == PlayerInit => PlayerInv
<1> SUFFICES ASSUME PlayerInit PROVE PlayerInv
  OBVIOUS
<1>1. PlayerTypeOK
  <2>1. 0 \in 0 .. MaxEpisodes - 1
    BY PlayerAssumption
  <2>2. playing \in BOOLEAN
    BY DEF PlayerInit
  <2>3. QED
    BY <2>1, <2>2 DEF PlayerInit, PlayerTypeOK
<1>2. QED
  BY <1>1, Counts DEF PlayerInit, PlayerInv, PlaysWithinEpisode

LEMMA PlayerInvStep == PlayerInv /\ [PlayerNext]_playerVars => PlayerInv'
<1>1. ASSUME PlayerInv, PlayerNext PROVE PlayerInv'
  BY <1>1, EveryStep, Settled, Remounted DEF PlayerInv
<1>2. ASSUME PlayerInv, UNCHANGED playerVars PROVE PlayerInv'
  BY <1>2 DEF PlayerInv, PlayerTypeOK, PlaysWithinEpisode, playerVars, LastIndex, Length
<1>3. QED
  BY <1>1, <1>2

(* The player keeps its types and its cursor stays in the episode shown,   *)
(* for every list of traces, and it plays only what has a step to come.    *)
THEOREM PlaysCorrect == PlayerSpec => [](PlayerTypeOK /\ PlaysWithinEpisode)
<1>1. QED
  BY PlayerInvInit, PlayerInvStep, PTL DEF PlayerSpec, PlayerInv

(* Another episode, another number of steps: the effects of the two files, *)
(* run on their own dependencies one commit after the other, rewind the    *)
(* player, and for another number of steps they stop it and its timer.     *)
THEOREM RewindsCorrect == PlayerSpec => SwitchRewinds
<1> DEFINE Rewinds ==
      /\ Shown(lengths', episodeIdx') # Shown(lengths, episodeIdx) => index' = 0
      /\ StepsOf(lengths', episodeIdx') # Length => index' = 0 /\ ~playing' /\ timers' = {}
<1>1. ASSUME PlayerInv, PlayerNext PROVE Rewinds
  BY <1>1, EveryStep, Settled, Remounted DEF PlayerInv, Length
<1>2. ASSUME UNCHANGED playerVars PROVE UNCHANGED playerVars
  BY <1>2
<1>3. PlayerInv /\ [PlayerNext]_playerVars => [Rewinds]_playerVars
  BY <1>1
<1> HIDE DEF Rewinds
<1>4. PlayerSpec => [][Rewinds]_playerVars
  BY <1>3, PlayerInvInit, PlayerInvStep, PTL DEF PlayerSpec
<1>5. QED
  BY <1>4 DEF SwitchRewinds, Rewinds

-----------------------------------------------------------------------------
(* The episode player: the step strip *)

LEMMA Divides ==
  ASSUME NEW i \in Nat, NEW size \in Nat \ {0}
  PROVE  /\ i \div size \in Nat
         /\ size * (i \div size) <= i
         /\ i < size * (i \div size) + size
OBVIOUS

LEMMA Factors ==
  ASSUME NEW size \in Nat \ {0}, NEW a \in Nat, NEW b \in Nat, a * size < b * size
  PROVE  a < b
<1>1. ASSUME a >= b PROVE FALSE
  <2>1. PICK d \in Nat : a = b + d
    <3>1. a - b \in Nat /\ a = b + (a - b)
      BY <1>1
    <3>2. QED
      BY <3>1
  <2>2. a * size = b * size + d * size
    BY <2>1
  <2>3. d * size \in Nat /\ a * size \in Nat /\ b * size \in Nat
    OBVIOUS
  <2>4. QED
    BY <2>2, <2>3
<1>2. QED
  BY <1>1

LEMMA StripHolds ==
  ASSUME PlayerInv, Length > 0
  PROVE  StripHoldsCursor
<1> DEFINE size == BucketSize(Length)
           bar == index \div size
<1>1. Length \in Nat /\ index \in Nat /\ index < Length
  BY Counts DEF PlayerInv, PlayerTypeOK, PlaysWithinEpisode, LastIndex, LastOf
<1>2. size \in Nat \ {0} /\ Length <= MaxBars * size
  BY <1>1, BarSizes
<1> HIDE DEF size
<1>3. bar \in Nat /\ size * bar <= index /\ index < size * bar + size
  BY <1>1, <1>2, Divides
<1>4. CurrentBar = bar
  BY DEF CurrentBar, size
<1> HIDE DEF bar
<1>5. bar * size <= index /\ index < (bar + 1) * size
  BY <1>2, <1>3
<1>6. bar \in 0 .. Length
  <2>1. bar * size < Length * size
    <3>1. size >= 1 /\ Length * size >= Length
      BY <1>1, <1>2
    <3>2. bar * size \in Nat /\ Length * size \in Nat
      BY <1>1, <1>2, <1>3
    <3>3. QED
      BY <1>1, <1>5, <3>1, <3>2
  <2>2. QED
    BY <1>1, <1>2, <1>3, <2>1, Factors
<1>7. bar * size < Length
  BY <1>1, <1>2, <1>3, <1>5
<1>8. ASSUME NEW b \in Bars(Length) PROVE b < MaxBars
  <2>1. b \in Nat /\ b * size < Length
    BY <1>1 DEF Bars, size
  <2>2. b * size < MaxBars * size
    BY <1>1, <1>2, <2>1, PlayerAssumption
  <2>3. QED
    BY <1>2, <2>1, <2>2, Factors, PlayerAssumption
<1>9. QED
  BY <1>4, <1>5, <1>6, <1>7, <1>8 DEF StripHoldsCursor, Bars, size

(* The strip has at most MaxBars bars, and the lit one holds the cursor, *)
(* for every length and every number of bars.                            *)
THEOREM StripCorrect == PlayerSpec => []StripHoldsCursor
<1>1. PlayerInv => StripHoldsCursor
  BY StripHolds DEF StripHoldsCursor
<1>2. QED
  BY <1>1, PlayerInvInit, PlayerInvStep, PTL DEF PlayerSpec

-----------------------------------------------------------------------------
(* The episode player: the refinement *)

LEMMA InitMaps == PlayerInit => PB!Init
<1> SUFFICES ASSUME PlayerInit PROVE PB!Init
  OBVIOUS
<1>1. PlayerTypeOK
  BY PlayerInvInit DEF PlayerInv
<1>2. QED
  BY <1>1, Counts DEF PlayerInit, PB!Init

\* What is before the last step has a step to come.
LEMMA LastIsBefore ==
  ASSUME NEW n \in Nat, NEW i \in Nat, i < LastOf(n)
  PROVE  i + 1 < n
<1>1. n # 0
  BY DEF LastOf
<1>2. i < n - 1
  BY <1>1 DEF LastOf
<1>3. QED
  BY <1>2

LEMMA StepMaps ==
  ASSUME PlayerInv, Settles \/ Remounts
  PROVE  PB!Command \/ PB!Load
<1>1. PlayerTypeOK' /\ PlaysWithinEpisode' /\ Length \in Nat
  BY Settled, Remounted, Counts DEF PlayerInv
<1>2. Length' \in Nat
  BY <1>1, StepsCounted, PlayerAssumption DEF PlayerTypeOK, Length
<1>3. Length' # Length => index' = 0 /\ playing' = FALSE
  BY <1>1, Settled, Remounted DEF PlayerInv, PlayerTypeOK
<1>4. CASE Length' # Length
  BY <1>2, <1>3, <1>4 DEF PB!Load
<1>5. CASE Length' = Length
  <2>1. index' \in Nat /\ playing' \in BOOLEAN /\ index' <= LastOf(Length)
        /\ (playing' => index' < LastOf(Length))
    BY <1>1, <1>5 DEF PlayerTypeOK, PlaysWithinEpisode, LastIndex
  <2>2. index' \in PB!Steps(Length)
    BY <1>1, <2>1 DEF PB!Steps, LastOf
  <2>3. ASSUME playing' PROVE PB!Before(index', Length')
    <3>1. index' < LastOf(Length)
      BY <2>1, <2>3
    <3>2. index' + 1 < Length
      BY <1>1, <2>1, <3>1, LastIsBefore
    <3>3. QED
      BY <1>5, <3>2 DEF PB!Before
  <2>4. QED
    BY <1>5, <2>1, <2>2, <2>3 DEF PB!Command, PB!Rests
<1>6. QED
  BY <1>4, <1>5

LEMMA NextMaps == PlayerInv /\ [PlayerNext]_playerVars => [PB!Next]_(PB!playbackVars)
<1>1. ASSUME PlayerInv, PlayerNext PROVE PB!Next
  BY <1>1, EveryStep, StepMaps DEF PlayerInv, PB!Next
<1>2. ASSUME UNCHANGED playerVars PROVE UNCHANGED PB!playbackVars
  BY <1>2 DEF playerVars, PB!playbackVars, Length
<1>3. QED
  BY <1>1, <1>2

\* A timer that fires advances the playback.
LEMMA TickAdvances == PlayerInv /\ <<Tick>>_playerVars => <<PB!Advance>>_(PB!playbackVars)
<1> SUFFICES ASSUME PlayerInv, Tick PROVE <<PB!Advance>>_(PB!playbackVars)
  OBVIOUS
<1>1. index \in Nat /\ Length \in Nat /\ index < LastOf(Length) /\ playing = TRUE
  BY Counts, TickSets DEF PlayerInv, PlayerTypeOK, LastIndex
<1> DEFINE i == index + 1
<1>2. /\ lengths \in LengthLists /\ episodeIdx \in 0 .. MaxEpisodes - 1
      /\ i \in Nat /\ i <= LastIndex /\ i # index
      /\ {} \in SUBSET Nat /\ playing \in BOOLEAN
  BY TickSets, Counts DEF PlayerInv, PlayerTypeOK
<1>2a. Settle(lengths, episodeIdx, [index |-> i, playing |-> playing, timers |-> {}])
  BY TickSets DEF PlayerInv
<1> HIDE DEF i
<1>2b. /\ lengths' = lengths /\ episodeIdx' = episodeIdx
       /\ index' = IF \/ StepsOf(lengths, episodeIdx) # Length
                       \/ Shown(lengths, episodeIdx) # Shown(lengths, episodeIdx) THEN 0 ELSE i
       /\ playing' \in BOOLEAN /\ (playing' <=> playing /\ i < LastIndex)
  BY <1>2, <1>2a, Settling DEF PlayerInv
<1>2c. index' = i
  BY <1>2b DEF Length
<1>3. /\ Length' = Length
      /\ index' = index + 1
      /\ playing' = (index + 1 < LastOf(Length))
  BY <1>1, <1>2b, <1>2c DEF Length, LastIndex, i
<1>4. playing' = PB!Before(index', Length)
  BY <1>1, <1>3 DEF PB!Before, LastOf
<1>5. PB!Advance
  BY <1>1, <1>3, <1>4 DEF PB!Advance
<1>6. PB!playbackVars' # PB!playbackVars
  <2>1. index' # index
    BY <1>1, <1>3
  <2>2. QED
    BY <2>1 DEF PB!playbackVars
<1>7. QED
  BY <1>5, <1>6

(* Keys, buttons, strip, selector, timer and effects implement the playback *)
(* of use-playback.ts, for every list of traces; and where an armed timer   *)
(* fires, what plays goes on until it stops by itself.                      *)
THEOREM PlaybackRefined == FairPlayerSpec => ImplementsPlayback
<1>1. PlayerSpec => []PlayerInv
  BY PlayerInvInit, PlayerInvStep, PTL DEF PlayerSpec
<1>2. PlayerSpec => PB!Spec
  BY <1>1, InitMaps, NextMaps, PTL DEF PlayerSpec, PB!Spec
<1>3. PlayerInv => (timers = {} => ~playing)
  BY DEF PlayerInv, PlaysWithinEpisode
<1>4. QED
  BY <1>1, <1>2, <1>3, TickAdvances, PTL
     DEF FairPlayerSpec, TimerFires, ImplementsPlayback, PB!FairSpec, PlayerSpec

-----------------------------------------------------------------------------
(* What a trace is made into *)

\* A list of which every element is in B is a list of B.
LEMMA Narrowed ==
  ASSUME NEW A, NEW s \in Seq(A), NEW B, ToSet(s) \subseteq B
  PROVE  s \in Seq(B)
<1>1. Len(s) \in Nat /\ s \in [1 .. Len(s) -> A]
  OBVIOUS
<1>2. \A i \in 1 .. Len(s) : s[i] \in ToSet(s)
  BY <1>1 DEF ToSet
<1>3. s \in [1 .. Len(s) -> B]
  BY <1>1, <1>2
<1>4. QED
  BY <1>1, <1>3

Lines == LineRecords({Absent} \cup Seq(StepRecords))

\* A trace that is parsed has no broken line.
LEMMA ParsedLines ==
  ASSUME NEW lines \in Seq(TraceLines)
  PROVE  ParseTrace(lines) \in Seq(Lines)
<1>1. /\ ParseTrace(lines) \in Seq(TraceLines)
      /\ ToSet(ParseTrace(lines)) = ToSet(lines) \cap (ToSet(lines) \ {Broken})
  BY OnlyProperties DEF ParseTrace
<1>2. ToSet(lines) \subseteq TraceLines
  BY DEF ToSet
<1>3. ToSet(ParseTrace(lines)) \subseteq Lines
  BY <1>1, <1>2 DEF TraceLines, Lines
<1>4. QED
  BY <1>1, <1>3, Narrowed

\* The steps that the viewer has.
Normal == [t: Int, reward: Int \cup {Absent}, events: Seq(EventNames \cup {Junk})]

\* A step of any shape is normalised to one of the viewer.
LEMMA NormalStep ==
  ASSUME NEW Steps, NEW record \in LineRecords(Steps), NEW i \in Nat
  PROVE  NormalizeStep(record, i) \in Normal
<1>1. /\ record.t \in Int \cup {Absent, Junk}
      /\ record.step \in Int \cup {Absent, Junk}
      /\ record.reward \in Int \cup {Absent, Junk}
      /\ record.events \in Seq(EventNames \cup {Junk})
  BY DEF LineRecords
<1>2. StepTime(record, i) \in Int
  BY <1>1 DEF StepTime
<1>3. (IF record.reward = Junk THEN Absent ELSE record.reward) \in Int \cup {Absent}
  BY <1>1
<1>4. Only(record.events, ToSet(record.events) \ {Junk}) \in Seq(EventNames \cup {Junk})
  BY <1>1, OnlyProperties
<1>5. QED
  BY <1>2, <1>3, <1>4 DEF NormalizeStep, Normal

LEMMA NormalSteps ==
  ASSUME NEW Steps, NEW records \in Seq(LineRecords(Steps))
  PROVE  NormalizeSteps(records) \in Seq(Normal)
<1>1. Len(records) \in Nat
  OBVIOUS
<1>2. ASSUME NEW i \in 1 .. Len(records) PROVE NormalizeStep(records[i], i - 1) \in Normal
  <2>1. records[i] \in LineRecords(Steps) /\ i - 1 \in Nat
    OBVIOUS
  <2>2. QED
    BY <2>1, NormalStep
<1>3. NormalizeSteps(records) \in [1 .. Len(records) -> Normal]
  BY <1>2 DEF NormalizeSteps
<1>4. QED
  BY <1>1, <1>3

\* And so is a trace of any shape.
LEMMA NormalEpisodes ==
  ASSUME NEW trace \in Seq(Lines)
  PROVE  NormalizeEpisodes(trace) \in Seq(Seq(Normal))
<1>1. Len(trace) \in Nat /\ \A i \in 1 .. Len(trace) : trace[i] \in Lines
  OBVIOUS
<1>2. CASE \A i \in 1 .. Len(trace) : Shaped(trace[i])
  <2>1. ASSUME NEW e \in 1 .. Len(trace) PROVE NormalizeSteps(trace[e].steps) \in Seq(Normal)
    <3>1. trace[e].steps \in {Absent} \cup Seq(StepRecords) /\ trace[e].steps # Absent
      BY <1>1, <1>2 DEF Lines, LineRecords, Shaped
    <3>2. trace[e].steps \in Seq(LineRecords({Absent}))
      BY <3>1 DEF StepRecords
    <3>3. QED
      BY <3>2, NormalSteps
  <2>2. NormalizeEpisodes(trace) = [e \in 1 .. Len(trace) |-> NormalizeSteps(trace[e].steps)]
    BY <1>2 DEF NormalizeEpisodes
  <2>3. NormalizeEpisodes(trace) \in [1 .. Len(trace) -> Seq(Normal)]
    BY <2>1, <2>2
  <2>4. QED
    BY <1>1, <2>3
<1>3. CASE ~(\A i \in 1 .. Len(trace) : Shaped(trace[i]))
  <2>1. NormalizeSteps(trace) \in Seq(Normal)
    BY NormalSteps DEF Lines
  <2>2. NormalizeEpisodes(trace) = <<NormalizeSteps(trace)>>
    BY <1>3 DEF NormalizeEpisodes
  <2>3. QED
    BY <2>1, <2>2
<1>4. QED
  BY <1>2, <1>3

\* The returns so far have the values of their loop.
LEMMA ReturnsLoop ==
  ASSUME NEW steps \in Seq(Normal)
  PROVE  \E acc : /\ \A i \in 1 .. Len(steps) : CumulativeReturns(steps)[i] = acc[i]
                  /\ acc[0] = 0
                  /\ \A i \in 1 .. Len(steps) : acc[i] = acc[i - 1] + Worth(steps[i])
<1> DEFINE n == Len(steps)
           w == [i \in 1 .. n |-> Worth(steps[i])]
           acc[s \in 0 .. n] == IF s = 0 THEN 0 ELSE acc[s - 1] + Worth(steps[s])
<1>1. n \in Nat /\ \A i \in 1 .. n : Worth(steps[i]) \in Int
  <2>1. ASSUME NEW step \in Normal PROVE Worth(step) \in Int
    BY DEF Normal, Worth
  <2>2. n \in Nat /\ \A i \in 1 .. n : steps[i] \in Normal
    OBVIOUS
  <2>3. QED
    BY <2>1, <2>2
<1>2. PICK f \in [0 .. n -> Int] : f[0] = 0 /\ \A i \in 1 .. n : f[i] = f[i - 1] + w[i]
  <2>1. w \in [1 .. n -> Int]
    BY <1>1
  <2> HIDE DEF w
  <2>2. QED
    BY <1>1, <2>1, SumLoop
<1>3. f = [s \in 0 .. n |-> IF s = 0 THEN 0 ELSE f[s - 1] + Worth(steps[s])]
  BY <1>1, <1>2
<1>4. acc = [s \in 0 .. n |-> IF s = 0 THEN 0 ELSE acc[s - 1] + Worth(steps[s])]
  BY <1>3
<1>5. \A i \in 1 .. n : CumulativeReturns(steps)[i] = acc[i]
  BY DEF CumulativeReturns
<1> HIDE DEF acc
<1>6. acc[0] = 0 /\ \A i \in 1 .. n : acc[i] = acc[i - 1] + Worth(steps[i])
  BY <1>1, <1>4
<1>7. QED
  BY <1>5, <1>6

-----------------------------------------------------------------------------
(* What the player shows of an episode *)

\* A tone shows in the panel of a step by the goals that it lists.
LEMMA GoalsShown ==
  ASSUME NEW steps \in Seq(Normal), NEW i \in 1 .. Len(steps)
  PROVE  StepDetail(steps, i).goals # <<>> <=> HasTone(steps[i], "success")
<1> DEFINE said == steps[i].events
           S == {e \in ToSet(said) : EventTone(e) = "success"}
<1>1. said \in Seq(EventNames \cup {Junk})
  <2>1. steps[i] \in Normal
    OBVIOUS
  <2>2. QED
    BY <2>1 DEF Normal
<1>2. StepDetail(steps, i).goals = Only(said, S)
  BY DEF StepDetail
<1>3. HasTone(steps[i], "success") <=> S # {}
  <2>1. ToSet(said) = {said[n] : n \in DOMAIN said}
    BY DEF ToSet
  <2>2. QED
    BY <2>1 DEF HasTone
<1> HIDE DEF said
<1>4. S \subseteq ToSet(said)
  OBVIOUS
<1> HIDE DEF S
<1>5. Only(said, S) \in Seq(EventNames \cup {Junk}) /\ ToSet(Only(said, S)) = S
  <2>1. /\ Only(said, S) \in Seq(EventNames \cup {Junk})
        /\ ToSet(Only(said, S)) = ToSet(said) \cap S
    BY <1>1, OnlyProperties, Zenon
  <2>2. QED
    BY <1>4, <2>1
<1>6. Only(said, S) # <<>> <=> ToSet(Only(said, S)) # {}
  <2>1. \A s \in Seq(EventNames \cup {Junk}) : s # <<>> <=> ToSet(s) # {}
    <3>1. SUFFICES ASSUME NEW s \in Seq(EventNames \cup {Junk}) PROVE s # <<>> <=> ToSet(s) # {}
      OBVIOUS
    <3>2. Len(s) \in Nat /\ (s # <<>> <=> Len(s) # 0) /\ ToSet(s) = {s[n] : n \in 1 .. Len(s)}
      BY DEF ToSet
    <3>3. QED
      BY <3>2
  <2>2. QED
    BY <1>5, <2>1
<1>7. QED
  BY <1>2, <1>3, <1>5, <1>6

\* Every step is in the bucket of a bar.
LEMMA EveryStepHasABar ==
  ASSUME NEW n \in Nat, NEW i \in 1 .. n
  PROVE  \E b \in Bars(n) : b * BucketSize(n) < i /\ i <= b * BucketSize(n) + BucketSize(n)
<1> DEFINE size == BucketSize(n)
           b == (i - 1) \div size
<1>1. size \in Nat \ {0} /\ i - 1 \in Nat
  BY BarSizes
<1> HIDE DEF size
<1>2. b \in Nat /\ size * b <= i - 1 /\ i - 1 < size * b + size
  BY <1>1, Divides
<1> HIDE DEF b
<1>3. b * size < i /\ i <= b * size + size /\ b * size < n
  BY <1>1, <1>2
<1>4. b <= n
  <2>1. b * size < n * size
    <3>1. n <= n * size
      BY <1>1
    <3>2. b * size \in Nat /\ n * size \in Nat
      BY <1>1, <1>2
    <3>3. QED
      BY <1>3, <3>1, <3>2
  <2>2. QED
    BY <1>1, <1>2, <2>1, Factors
<1>5. b \in Bars(n)
  BY <1>2, <1>3, <1>4 DEF Bars, size
<1>6. QED
  BY <1>3, <1>5 DEF size

\* The strip shows a success if the episode has one.
LEMMA BarsShowSuccess ==
  ASSUME NEW steps \in Seq(Normal)
  PROVE  EpisodeSucceeded(steps) <=>
           \E b \in Bars(Len(steps)) :
             BarTone(steps, b * BucketSize(Len(steps)), BucketSize(Len(steps))) = "success"
<1> DEFINE n == Len(steps)
           size == BucketSize(n)
           Bucket(b) == {s \in DOMAIN steps : b * size < s /\ s <= b * size + size}
<1>1. n \in Nat /\ DOMAIN steps = 1 .. n
  OBVIOUS
<1>2. ASSUME NEW b
      PROVE  BarTone(steps, b * size, size) = "success" <=>
               \E s \in Bucket(b) : HasTone(steps[s], "success")
  BY DEF BarTone
<1>3. \A s \in DOMAIN steps : \E b \in Bars(n) : s \in Bucket(b)
  BY <1>1, EveryStepHasABar
<1> HIDE DEF size
<1>4. \A b : Bucket(b) \subseteq DOMAIN steps
  OBVIOUS
<1> HIDE DEF Bucket
<1>5. QED
  BY <1>2, <1>3, <1>4 DEF EpisodeSucceeded, size

\* The return of the header, and the return so far of the last step.
LEMMA ReturnsAgree ==
  ASSUME NEW steps \in Seq(Normal), steps # <<>>
  PROVE  CumulativeReturns(steps)[Len(steps)] =
           (IF EpisodeReturn(steps) = Absent THEN 0 ELSE EpisodeReturn(steps))
<1> DEFINE n == Len(steps)
           worths == [s \in 1 .. n |-> Worth(steps[s])]
<1>1. n \in Nat /\ n # 0 /\ DOMAIN steps = 1 .. n /\ \A i \in 1 .. n : steps[i] \in Normal
  OBVIOUS
<1>2. \A i \in 1 .. n : Worth(steps[i]) \in Int
  <2>1. ASSUME NEW step \in Normal PROVE Worth(step) \in Int
    BY DEF Normal, Worth
  <2>2. QED
    BY <1>1, <2>1
<1>3. PICK acc : /\ \A i \in 1 .. n : CumulativeReturns(steps)[i] = acc[i]
                 /\ acc[0] = 0
                 /\ \A i \in 1 .. n : acc[i] = acc[i - 1] + Worth(steps[i])
  BY ReturnsLoop
<1>4. CumulativeReturns(steps)[n] = acc[n]
  BY <1>1, <1>3
<1>5. CASE \A s \in 1 .. n : steps[s].reward = Absent
  <2>1. \A i \in 1 .. n : Worth(steps[i]) = 0
    BY <1>5 DEF Worth
  <2> DEFINE T == {i \in 0 .. n : acc[i] = 0}
  <2>2. 0 \in T
    BY <1>1, <1>3
  <2>3. ASSUME NEW i \in 1 .. n, i - 1 \in T PROVE i \in T
    BY <1>3, <2>1, <2>3
  <2>4. acc[n] = 0
    <3> HIDE DEF T
    <3>1. 0 .. n \subseteq T
      BY <1>1, <2>2, <2>3, TurnByTurn
    <3>2. QED
      BY <1>1, <3>1 DEF T
  <2>5. EpisodeReturn(steps) = Absent
    BY <1>1, <1>5 DEF EpisodeReturn
  <2>6. QED
    BY <1>4, <2>4, <2>5
<1>6. CASE ~(\A s \in 1 .. n : steps[s].reward = Absent)
  <2>1. EpisodeReturn(steps) = Total(worths)
    BY <1>1, <1>6 DEF EpisodeReturn
  <2>2. worths \in Seq(Int) /\ Len(worths) = n /\ \A i \in 1 .. n : worths[i] = Worth(steps[i])
    <3>1. worths \in [1 .. n -> Int] /\ \A i \in 1 .. n : worths[i] = Worth(steps[i])
      BY <1>2
    <3>2. \A m \in Nat : \A c \in [1 .. m -> Int] : c \in Seq(Int) /\ Len(c) = m
      OBVIOUS
    <3> HIDE DEF worths
    <3>3. QED
      BY <1>1, <3>1, <3>2
  <2> HIDE DEF worths
  <2>3. PICK sum : /\ Total(worths) = sum[n]
                   /\ sum[0] = 0
                   /\ \A i \in 1 .. n : sum[i] = sum[i - 1] + worths[i]
    BY <2>2, TotalLoop
  <2> DEFINE T == {i \in 0 .. n : sum[i] = acc[i] /\ acc[i] \in Int}
  <2>4. 0 \in T
    BY <1>1, <1>3, <2>3
  <2>5. ASSUME NEW i \in 1 .. n, i - 1 \in T PROVE i \in T
    BY <1>2, <1>3, <2>2, <2>3, <2>5
  <2>6. sum[n] = acc[n] /\ acc[n] \in Int
    <3> HIDE DEF T
    <3>1. 0 .. n \subseteq T
      BY <1>1, <2>4, <2>5, TurnByTurn
    <3>2. QED
      BY <1>1, <3>1 DEF T
  <2>7. EpisodeReturn(steps) # Absent
    BY <2>1, <2>3, <2>6, RecordsAssumption
  <2>8. QED
    BY <1>4, <2>1, <2>3, <2>6, <2>7
<1>7. QED
  BY <1>5, <1>6

\* The events are listed as many times as the steps have them.
LEMMA EventsListed ==
  ASSUME NEW episodes \in Seq(Seq(Normal))
  PROVE  Len(ExtractEvents(episodes)) =
           Total([e \in DOMAIN episodes |->
                    Total([s \in DOMAIN episodes[e] |-> Len(episodes[e][s].events)])])
<1> DEFINE A == [t: Int, name: EventNames \cup {Junk}]
           Of(step) == [n \in 1 .. Len(step.events) |-> [t |-> step.t, name |-> step.events[n]]]
           Steps(steps) == [s \in 1 .. Len(steps) |-> Of(steps[s])]
           all == [e \in 1 .. Len(episodes) |-> FlattenSeq(Steps(episodes[e]))]
<1>1. \A B : \A m \in Nat : \A c \in [1 .. m -> B] : c \in Seq(B) /\ Len(c) = m
  OBVIOUS
<1>2. ASSUME NEW step \in Normal
      PROVE  Of(step) \in Seq(A) /\ Len(Of(step)) = Len(step.events)
  <2>1. step.t \in Int /\ step.events \in Seq(EventNames \cup {Junk})
    BY DEF Normal
  <2>2. Len(step.events) \in Nat /\ Of(step) \in [1 .. Len(step.events) -> A]
    BY <2>1
  <2> HIDE DEF Of, A
  <2>3. QED
    BY <1>1, <2>2
<1> HIDE DEF A, Of
<1>3. ASSUME NEW steps \in Seq(Normal)
      PROVE  /\ FlattenSeq(Steps(steps)) \in Seq(A)
             /\ Len(FlattenSeq(Steps(steps))) =
                  Total([s \in DOMAIN steps |-> Len(steps[s].events)])
  <2>1. Len(steps) \in Nat /\ DOMAIN steps = 1 .. Len(steps)
        /\ \A s \in 1 .. Len(steps) : steps[s] \in Normal
    OBVIOUS
  <2>2. Steps(steps) \in [1 .. Len(steps) -> Seq(A)]
    BY <1>2, <2>1
  <2>3. Steps(steps) \in Seq(Seq(A)) /\ Len(Steps(steps)) = Len(steps)
    <3> HIDE DEF Steps
    <3>1. QED
      BY <1>1, <2>1, <2>2
  <2>4. [s \in 1 .. Len(steps) |-> Len(Steps(steps)[s])] = [s \in DOMAIN steps |-> Len(steps[s].events)]
    BY <1>2, <2>1
  <2> HIDE DEF Steps
  <2>5. /\ FlattenSeq(Steps(steps)) \in Seq(A)
        /\ Len(FlattenSeq(Steps(steps))) = Total([s \in 1 .. Len(steps) |-> Len(Steps(steps)[s])])
    <3>1. Len(FlattenSeq(Steps(steps))) =
            Total([s \in 1 .. Len(Steps(steps)) |-> Len(Steps(steps)[s])])
      BY <2>3, Flattened
    <3>2. QED
      BY <2>3, <3>1, Flattened
  <2>6. QED
    BY <2>4, <2>5
<1> HIDE DEF Steps
<1>4. Len(episodes) \in Nat /\ DOMAIN episodes = 1 .. Len(episodes)
      /\ \A e \in 1 .. Len(episodes) : episodes[e] \in Seq(Normal)
  OBVIOUS
<1>5. all \in [1 .. Len(episodes) -> Seq(A)]
  BY <1>3, <1>4
<1>6. all \in Seq(Seq(A)) /\ Len(all) = Len(episodes)
  <2> HIDE DEF all
  <2>1. QED
    BY <1>1, <1>4, <1>5
<1>7. [e \in 1 .. Len(episodes) |-> Len(all[e])] =
        [e \in DOMAIN episodes |-> Total([s \in DOMAIN episodes[e] |-> Len(episodes[e][s].events)])]
  BY <1>3, <1>4
<1>8. ExtractEvents(episodes) = FlattenSeq(all)
  BY DEF ExtractEvents, Steps, Of
<1> HIDE DEF all
<1>9. Len(FlattenSeq(all)) = Total([e \in 1 .. Len(all) |-> Len(all[e])])
  BY <1>6, Flattened
<1>10. QED
  BY <1>6, <1>7, <1>8, <1>9

-----------------------------------------------------------------------------
(* The list of ids of a link *)

\* Parsing a list of ids has the values of its loop.
LEMMA ParseLoop ==
  ASSUME NEW ids \in Seq(Runs)
  PROVE  \E parsed : /\ ParseRunIds(ids) = parsed[Len(ids)]
                     /\ parsed[0] = <<>>
                     /\ \A i \in 1 .. Len(ids) : parsed[i] = TakeId(parsed[i - 1], ids[i])
<1> DEFINE n == Len(ids)
           V == Seq(Runs)
           step == [p \in V \X Nat |-> IF p[2] \in 1 .. n THEN TakeId(p[1], ids[p[2]]) ELSE p[1]]
           parsed[i \in 0 .. n] == IF i = 0 THEN <<>> ELSE TakeId(parsed[i - 1], ids[i])
<1>1. n \in Nat /\ <<>> \in V
  OBVIOUS
<1>2. ASSUME NEW v \in V, NEW i \in 1 .. n PROVE TakeId(v, ids[i]) \in V
  <2>1. ids[i] \in Runs
    OBVIOUS
  <2>2. QED
    BY <2>1 DEF TakeId
<1> HIDE DEF V
<1>3. step \in [V \X Nat -> V]
  BY <1>2
<1>4. PICK f \in [0 .. n -> V] : Turns(f, n, <<>>, step)
  <2> HIDE DEF step
  <2>1. QED
    BY <1>1, <1>3, Loop
<1>5. ASSUME NEW i \in 1 .. n PROVE f[i] = TakeId(f[i - 1], ids[i])
  BY <1>1, <1>4 DEF Turns
<1>6. f[0] = <<>>
  BY <1>4 DEF Turns
<1>7. f = [i \in 0 .. n |-> IF i = 0 THEN <<>> ELSE TakeId(f[i - 1], ids[i])]
  BY <1>1, <1>5, <1>6
<1>8. parsed = [i \in 0 .. n |-> IF i = 0 THEN <<>> ELSE TakeId(parsed[i - 1], ids[i])]
  BY <1>7
<1>9. ParseRunIds(ids) = parsed[n]
  BY DEF ParseRunIds
<1> HIDE DEF parsed
<1>10. parsed[0] = <<>> /\ \A i \in 1 .. n : parsed[i] = TakeId(parsed[i - 1], ids[i])
  BY <1>1, <1>8
<1>11. QED
  BY <1>9, <1>10

\* A link carries a list of ids as it is if it repeats none and is not too long.
LEMMA ParseProperties ==
  ASSUME NEW ids \in Seq(Runs)
  PROVE  /\ ParseRunIds(ids) \in Seq(Runs)
         /\ Distinct(ids) /\ Len(ids) <= MaxCompare => ParseRunIds(ids) = ids
<1>1. PICK parsed : /\ ParseRunIds(ids) = parsed[Len(ids)]
                    /\ parsed[0] = <<>>
                    /\ \A i \in 1 .. Len(ids) : parsed[i] = TakeId(parsed[i - 1], ids[i])
  BY ParseLoop
<1> DEFINE Plain == Distinct(ids) /\ Len(ids) <= MaxCompare
           Good(acc, i) == /\ acc \in Seq(Runs)
                           /\ Plain => Len(acc) = i /\ \A k \in 1 .. i : acc[k] = ids[k]
           T == {i \in Nat : Good(parsed[i], i)}
<1>2. Len(ids) \in Nat /\ MaxCompare \in Nat
  BY PagesAssumption
<1>3. 0 \in T
  <2>1. <<>> \in Seq(Runs) /\ Len(<<>>) = 0
    OBVIOUS
  <2>2. Good(<<>>, 0)
    BY <2>1
  <2> HIDE DEF Good
  <2>3. QED
    BY <1>1, <2>2
<1>4. ASSUME NEW i \in 1 .. Len(ids), i - 1 \in T PROVE i \in T
  <2> DEFINE acc == parsed[i - 1]
             more == Append(acc, ids[i])
  <2>1. /\ acc \in Seq(Runs)
        /\ Plain => Len(acc) = i - 1 /\ \A k \in 1 .. (i - 1) : acc[k] = ids[k]
        /\ ids[i] \in Runs /\ parsed[i] = TakeId(acc, ids[i])
    BY <1>1, <1>4
  <2> HIDE DEF acc
  <2>2. /\ more \in Seq(Runs) /\ Len(more) = Len(acc) + 1 /\ Len(acc) \in Nat
        /\ \A k \in 1 .. Len(acc) : more[k] = acc[k]
        /\ more[Len(acc) + 1] = ids[i]
    BY <2>1
  <2>3. parsed[i] \in Seq(Runs)
    BY <2>1, <2>2 DEF TakeId
  <2>4. ASSUME Plain
        PROVE  Len(parsed[i]) = i /\ \A k \in 1 .. i : parsed[i][k] = ids[k]
    <3>1. ids[i] \notin ToSet(acc)
      BY <1>2, <2>1, <2>4 DEF ToSet, Distinct
    <3>2. ~(Len(acc) >= MaxCompare)
      BY <1>2, <2>1, <2>4
    <3>3. parsed[i] = more
      BY <2>1, <3>1, <3>2 DEF TakeId
    <3> HIDE DEF more
    <3>4. ASSUME NEW k \in 1 .. i PROVE more[k] = ids[k]
      BY <1>2, <2>1, <2>2, <2>4
    <3>5. QED
      BY <1>2, <2>1, <2>2, <2>4, <3>3, <3>4
  <2>5. QED
    BY <1>2, <2>3, <2>4
<1>5. Len(ids) \in T
  <2> HIDE DEF T
  <2>1. QED
    BY <1>2, <1>3, <1>4, TurnByTurn
<1>6. Good(ParseRunIds(ids), Len(ids))
  BY <1>1, <1>5
<1> DEFINE got == ParseRunIds(ids)
<1> HIDE DEF got
<1>7. ASSUME Plain PROVE got = ids
  <2>1. got \in Seq(Runs) /\ Len(got) = Len(ids) /\ \A k \in 1 .. Len(ids) : got[k] = ids[k]
    BY <1>6, <1>7 DEF got
  <2>2. QED
    BY <2>1
<1>8. QED
  BY <1>6, <1>7 DEF got

-----------------------------------------------------------------------------
(* The badge of a row *)

Tallies == [best: Nat, present: Nat, distinct: BOOLEAN]

\* The tally has the values of its loop.
LEMMA TallyLoop ==
  ASSUME NEW values \in Seq(Int \cup {Unscored}), NEW direction
  PROVE  \E tally : /\ Tally(values, direction) = tally[Len(values)]
                    /\ tally[0] = NoTally
                    /\ \A i \in 1 .. Len(values) :
                         tally[i] = TallyOne(tally[i - 1], values, i, direction)
<1> DEFINE n == Len(values)
           Turn(t, i) == TallyOne(t, values, i, direction)
           step == [p \in Tallies \X Nat |-> IF p[2] \in 1 .. n THEN Turn(p[1], p[2]) ELSE p[1]]
           tally[i \in 0 .. n] == IF i = 0 THEN NoTally ELSE Turn(tally[i - 1], i)
<1>1. n \in Nat /\ NoTally \in Tallies
  BY DEF NoTally, Tallies
<1>2. ASSUME NEW t \in Tallies, NEW i \in 1 .. n PROVE Turn(t, i) \in Tallies
  BY DEF Tallies, TallyOne
<1>3. Tally(values, direction) = tally[n]
  BY DEF Tally
<1> HIDE DEF Turn
<1>4. step \in [Tallies \X Nat -> Tallies]
  BY <1>2
<1>5. PICK f \in [0 .. n -> Tallies] : Turns(f, n, NoTally, step)
  <2> HIDE DEF step
  <2>1. QED
    BY <1>1, <1>4, Loop
<1>6. ASSUME NEW i \in 1 .. n PROVE f[i] = Turn(f[i - 1], i)
  <2>1. f[i - 1] \in Tallies /\ i \in Nat
    BY <1>1
  <2>2. step[<<f[i - 1], i>>] = Turn(f[i - 1], i)
    BY <2>1
  <2>3. QED
    BY <1>5, <2>2 DEF Turns
<1>7. f[0] = NoTally
  BY <1>5 DEF Turns
<1>8. f = [i \in 0 .. n |-> IF i = 0 THEN NoTally ELSE Turn(f[i - 1], i)]
  BY <1>1, <1>6, <1>7
<1>9. tally = [i \in 0 .. n |-> IF i = 0 THEN NoTally ELSE Turn(tally[i - 1], i)]
  BY <1>8
<1> HIDE DEF tally
<1>10. tally[0] = NoTally /\ \A i \in 1 .. n : tally[i] = Turn(tally[i - 1], i)
  BY <1>1, <1>9
<1>11. QED
  BY <1>3, <1>10 DEF Turn


Present(values) == {i \in 1 .. Len(values) : values[i] # Unscored}
Unbeaten(values, direction) ==
  {i \in Present(values) : \A j \in Present(values) : ~Better(direction, values[j], values[i])}

\* What the tally knows of the first i positions.
Tallied(t, values, i, direction) ==
  LET P == {j \in Present(values) : j <= i} IN
  /\ t \in Tallies
  /\ t.best = 0 => P = {} /\ ~t.distinct
  /\ t.best # 0 => /\ t.best \in P
                   /\ \A j \in P : ~Better(direction, values[j], values[t.best])
                   /\ \A j \in P : j < t.best => Better(direction, values[t.best], values[j])
                   /\ t.present >= 1
  /\ t.distinct => t.present >= 2
  /\ t.distinct <=> \E j, k \in P : values[j] # values[k]

\* In either direction, better is a strict total order of the numbers.
LEMMA BetterOrders ==
  ASSUME NEW direction
  PROVE  /\ \A v \in Int : ~Better(direction, v, v)
         /\ \A v, w, x \in Int :
              Better(direction, v, w) /\ Better(direction, w, x) => Better(direction, v, x)
         /\ \A v, w \in Int : v # w => Better(direction, v, w) \/ Better(direction, w, v)
         /\ \A v, w \in Int : Better(direction, v, w) => ~Better(direction, w, v)
BY DEF Better

\* One turn of the loop keeps what the tally knows.
LEMMA TallyTurn ==
  ASSUME NEW values \in Seq(Int \cup {Unscored}), NEW direction,
         NEW i \in 1 .. Len(values), NEW t, Tallied(t, values, i - 1, direction)
  PROVE  Tallied(TallyOne(t, values, i, direction), values, i, direction)
<1> DEFINE u == TallyOne(t, values, i, direction)
           P == {j \in Present(values) : j <= i - 1}
           Q == {j \in Present(values) : j <= i}
           B(v, w) == Better(direction, v, w)
<1>1. i \in Nat /\ i # 0 /\ Len(values) \in Nat
  OBVIOUS
<1>2. \A j \in Present(values) : values[j] \in Int /\ j \in Nat /\ j # 0
  BY DEF Present
<1>3. /\ t \in Tallies
      /\ t.best = 0 => P = {} /\ ~t.distinct
      /\ t.best # 0 => /\ t.best \in P
                       /\ \A j \in P : ~B(values[j], values[t.best])
                       /\ \A j \in P : j < t.best => B(values[t.best], values[j])
                       /\ t.present >= 1
      /\ t.distinct => t.present >= 2
      /\ t.distinct <=> \E j, k \in P : values[j] # values[k]
  BY DEF Tallied
<1>4. SUFFICES /\ u \in Tallies
               /\ u.best = 0 => Q = {} /\ ~u.distinct
               /\ u.best # 0 => /\ u.best \in Q
                                /\ \A j \in Q : ~B(values[j], values[u.best])
                                /\ \A j \in Q : j < u.best => B(values[u.best], values[j])
                                /\ u.present >= 1
               /\ u.distinct => u.present >= 2
               /\ u.distinct <=> \E j, k \in Q : values[j] # values[k]
  BY DEF Tallied
<1>5. CASE values[i] = Unscored
  <2>1. u = t
    BY <1>5 DEF TallyOne
  <2>2. Q = P
    BY <1>1, <1>2, <1>5 DEF Present
  <2> HIDE DEF u, P, Q, B
  <2>3. QED
    BY <1>3, <2>1, <2>2
<1>6. CASE values[i] # Unscored
  <2>1. Q = P \cup {i} /\ i \in Present(values) /\ i \notin P /\ P \subseteq Present(values)
    BY <1>1, <1>2, <1>6 DEF Present
  <2>2. values[i] \in Int /\ \A j \in P : values[j] \in Int /\ j \in Nat /\ j # 0 /\ j < i
    BY <1>1, <1>2, <2>1
  <2>3. t.best \in Nat /\ t.present \in Nat /\ t.distinct \in BOOLEAN
    BY <1>3 DEF Tallies
  <2> DEFINE first == t.best = 0 \/ B(values[i], values[t.best])
             differs == t.distinct \/ (t.best # 0 /\ values[i] # values[t.best])
  <2>4. /\ u.best = (IF first THEN i ELSE t.best)
        /\ u.present = t.present + 1
        /\ u.distinct = differs
    BY <1>6 DEF TallyOne
  <2>5. u \in Tallies
    <3>1. u = [best |-> IF first THEN i ELSE t.best, present |-> t.present + 1, distinct |-> differs]
      BY <1>6 DEF TallyOne
    <3>2. QED
      BY <1>1, <2>3, <3>1 DEF Tallies
  <2> HIDE DEF u, P, Q
  <2>6. /\ \A v \in Int : ~B(v, v)
        /\ \A v, w, x \in Int : B(v, w) /\ B(w, x) => B(v, x)
        /\ \A v, w \in Int : v # w => B(v, w) \/ B(w, v)
        /\ \A v, w \in Int : B(v, w) => ~B(w, v)
    BY BetterOrders
  <2> HIDE DEF B
  <2>7. u.best # 0 /\ u.best \in Q /\ u.present >= 1
    BY <1>1, <1>3, <2>1, <2>3, <2>4
  <2>8. \A j \in Q : ~B(values[j], values[u.best])
    <3>1. CASE t.best = 0
      BY <1>3, <2>1, <2>2, <2>4, <2>6, <3>1
    <3>2. CASE t.best # 0 /\ B(values[i], values[t.best])
      BY <1>3, <2>1, <2>2, <2>4, <2>6, <3>2
    <3>3. CASE t.best # 0 /\ ~B(values[i], values[t.best])
      BY <1>3, <2>1, <2>2, <2>4, <2>6, <3>3
    <3>4. QED
      BY <3>1, <3>2, <3>3
  <2>9. ASSUME NEW j \in Q, j < u.best PROVE B(values[u.best], values[j])
    <3>1. CASE t.best = 0
      BY <1>1, <1>3, <2>1, <2>4, <2>9, <3>1
    <3>2. CASE t.best # 0 /\ B(values[i], values[t.best])
      <4>1. u.best = i /\ j \in P
        BY <1>1, <2>1, <2>4, <2>9, <3>2
      <4>2. ~B(values[j], values[t.best]) /\ t.best \in P
        BY <1>3, <3>2, <4>1
      <4>3. CASE values[j] = values[t.best]
        BY <3>2, <4>1, <4>3
      <4>4. CASE values[j] # values[t.best]
        BY <2>2, <2>6, <3>2, <4>1, <4>2, <4>4
      <4>5. QED
        BY <4>3, <4>4
    <3>3. CASE t.best # 0 /\ ~B(values[i], values[t.best])
      <4>1. u.best = t.best /\ t.best \in P
        BY <1>3, <2>4, <3>3
      <4>2. j \in P
        <5>1. t.best \in Nat /\ t.best < i /\ j < t.best
          BY <2>2, <2>9, <4>1
        <5>2. j # i
          BY <1>1, <5>1
        <5>3. QED
          BY <2>1, <5>2
      <4>3. QED
        BY <1>3, <2>9, <3>3, <4>1, <4>2
    <3>4. QED
      BY <3>1, <3>2, <3>3
  <2>10. u.distinct => u.present >= 2
    BY <1>3, <2>3, <2>4
  <2>11. u.distinct <=> \E j, k \in Q : values[j] # values[k]
    <3>1. CASE t.distinct
      BY <1>3, <2>1, <2>4, <3>1
    <3>2. CASE ~t.distinct /\ t.best = 0
      BY <1>3, <2>1, <2>4, <3>2
    <3>3. CASE ~t.distinct /\ t.best # 0
      <4>1. t.best \in P /\ \A j \in P : values[j] = values[t.best]
        BY <1>3, <3>3
      <4>2. u.distinct <=> values[i] # values[t.best]
        BY <2>4, <3>3
      <4>3. QED
        BY <2>1, <4>1, <4>2
    <3>4. QED
      BY <2>3, <3>1, <3>2, <3>3
  <2>12. QED
    BY <2>5, <2>7, <2>8, <2>9, <2>10, <2>11
<1>7. QED
  BY <1>5, <1>6

\* After the last turn it knows it of all positions.
LEMMA TallyProperties ==
  ASSUME NEW values \in Seq(Int \cup {Unscored}), NEW direction
  PROVE  Tallied(Tally(values, direction), values, Len(values), direction)
<1>1. PICK tally : /\ Tally(values, direction) = tally[Len(values)]
                   /\ tally[0] = NoTally
                   /\ \A i \in 1 .. Len(values) :
                        tally[i] = TallyOne(tally[i - 1], values, i, direction)
  BY TallyLoop
<1> DEFINE T == {i \in Nat : Tallied(tally[i], values, i, direction)}
<1>2. Len(values) \in Nat
  OBVIOUS
<1>3. 0 \in T
  <2>1. {j \in Present(values) : j <= 0} = {}
    BY DEF Present
  <2>2. Tallied(NoTally, values, 0, direction)
    BY <2>1 DEF Tallied, NoTally, Tallies
  <2>3. QED
    BY <1>1, <2>2
<1>4. ASSUME NEW i \in 1 .. Len(values), i - 1 \in T PROVE i \in T
  <2>1. Tallied(tally[i - 1], values, i - 1, direction)
    BY <1>4
  <2>2. Tallied(TallyOne(tally[i - 1], values, i, direction), values, i, direction)
    BY <2>1, TallyTurn
  <2>3. QED
    BY <1>1, <2>2
<1>5. Len(values) \in T
  <2> HIDE DEF T
  <2>1. 0 .. Len(values) \subseteq T
    BY <1>2, <1>3, <1>4, TurnByTurn
  <2>2. QED
    BY <1>2, <2>1
<1>6. QED
  BY <1>1, <1>5

\* The badge stands on the first position that no other beats, and on none if
\* the positions that have a value all agree.
LEMMA BestProperties ==
  ASSUME NEW values \in Seq(Int \cup {Unscored}), NEW direction,
         NEW first, first = CHOOSE i \in Unbeaten(values, direction) :
                              \A j \in Unbeaten(values, direction) : i <= j
  PROVE  {i \in 1 .. Len(values) : i = BestIndex(values, direction)} =
           IF Unbeaten(values, direction) = Present(values) THEN {} ELSE {first}
<1> DEFINE t == Tally(values, direction)
           P == Present(values)
           U == Unbeaten(values, direction)
           B(v, w) == Better(direction, v, w)
<1>1. \A j \in P : values[j] \in Int /\ j \in Nat /\ j # 0 /\ j \in 1 .. Len(values)
  BY DEF Present
<1>2. {j \in P : j <= Len(values)} = P
  BY <1>1
<1>3. /\ t \in Tallies
      /\ t.best = 0 => P = {} /\ ~t.distinct
      /\ t.best # 0 => /\ t.best \in P
                       /\ \A j \in P : ~B(values[j], values[t.best])
                       /\ \A j \in P : j < t.best => B(values[t.best], values[j])
      /\ t.distinct => t.present >= 2
      /\ t.distinct <=> \E j, k \in P : values[j] # values[k]
  BY <1>2, TallyProperties DEF Tallied
<1>4. BestIndex(values, direction) = IF t.present < 2 \/ ~t.distinct THEN 0 ELSE t.best
  BY DEF BestIndex
<1>5. U = {i \in P : \A j \in P : ~B(values[j], values[i])}
  BY DEF Unbeaten
<1>6. first = CHOOSE i \in U : \A j \in U : i <= j
  OBVIOUS
<1>7. /\ \A v \in Int : ~B(v, v)
      /\ \A v, w \in Int : v # w => B(v, w) \/ B(w, v)
  BY BetterOrders
<1>8. t.present \in Nat /\ t.best \in Nat
  BY <1>3 DEF Tallies
<1> HIDE DEF t, P, U, B
<1>9. CASE ~t.distinct
  <2>1. BestIndex(values, direction) = 0
    BY <1>4, <1>9
  <2>2. U = P
    BY <1>1, <1>3, <1>5, <1>7, <1>9
  <2>3. QED
    BY <2>1, <2>2 DEF P, U
<1>10. CASE t.distinct
  <2>1. BestIndex(values, direction) = t.best /\ t.best # 0
    BY <1>3, <1>4, <1>8, <1>10
  <2>2. U # P
    <3>1. PICK j \in P, k \in P : values[j] # values[k]
      BY <1>3, <1>10
    <3>2. B(values[j], values[k]) \/ B(values[k], values[j])
      BY <1>1, <1>7, <3>1
    <3>3. QED
      BY <1>5, <3>2
  <2>3. t.best \in U
    BY <1>3, <1>5, <2>1
  <2>4. \A j \in U : t.best <= j
    BY <1>1, <1>3, <1>5, <1>8, <2>1
  <2>5. \A i \in U : (\A j \in U : i <= j) => i = t.best
    BY <1>1, <1>5, <1>8, <2>3, <2>4
  <2>6. first = t.best
    BY <1>6, <2>3, <2>4, <2>5
  <2>7. t.best \in 1 .. Len(values)
    BY <1>1, <1>3, <2>1
  <2>8. QED
    BY <2>1, <2>2, <2>6, <2>7 DEF P, U
<1>11. QED
  BY <1>3, <1>9, <1>10 DEF Tallies

-----------------------------------------------------------------------------
(* The invariant of the pages *)

Scores == Int \cup {Unscored}
Traces == {ParseTrace(result.trace) : result \in {res \in Results : res.trace # NoFile}}
AnyData == (SUBSET Runs) \cup Scores \cup Traces \cup {Tasks}
OnTrack(t) == {r \in Runs : TrackOf[r] = t}

\* What the cache has of a key is what the server gives for it.
Cached(q) ==
  /\ q \in [Keys -> QueryEntries(AnyData)]
  /\ \A t \in Tracks : q[BoardKey(t)].data \in {NoData} \cup SUBSET OnTrack(t)
  /\ \A r \in Runs : q[RunKey(r)].data \in {NoData} \cup Scores
  /\ \A r \in Runs : q[TraceKey(r)].data \in {NoData} \cup Traces

Views ==
  [page: {"leaderboard", "tasks", "run", "compare"}, track: Tracks,
   selected: Seq(Runs), compared: Seq(Runs),
   run: Runs \cup {CHOOSE r \in Runs : TRUE}, tab: Tabs]

\* A run is selected once, and no more than can be compared.
Viewable(v) ==
  /\ v \in Views
  /\ Distinct(v.selected) /\ Len(v.selected) <= MaxCompare
  /\ v.page = "run" => v.run \in Runs

\* What the player is given.
Given(v, q) == IF PlayerShown(v, q) THEN StepCounts(Episodes(q, v.run)) ELSE <<>>

PagesInv ==
  /\ stored \in [Runs -> Results]
  /\ Viewable(view)
  /\ Cached(query)
  /\ lengths = Given(view, query)

\* No two keys are taken for each other.
LEMMA KeysDiffer ==
  /\ \A t \in Tracks : /\ BoardKey(t) \in Keys \ (RunKeys \cup TraceKeys \cup {TasksKey})
                       /\ BoardKey(t)[2] = t
  /\ \A r \in Runs : /\ RunKey(r) \in Keys \ (TraceKeys \cup {TasksKey})
                     /\ RunKey(r)[2] = r
  /\ \A r \in Runs : /\ TraceKey(r) \in Keys \ (RunKeys \cup {TasksKey})
                     /\ TraceKey(r)[2] = r
  /\ TasksKey \in Keys \ (RunKeys \cup TraceKeys)
<1>1. ASSUME NEW x, NEW y
      PROVE  /\ BoardKey(x) # RunKey(y) /\ BoardKey(x) # TraceKey(y) /\ BoardKey(x) # TasksKey
             /\ RunKey(x) # TraceKey(y) /\ RunKey(x) # TasksKey /\ TraceKey(x) # TasksKey
             /\ BoardKey(x)[2] = x /\ RunKey(x)[2] = x /\ TraceKey(x)[2] = x
  BY DEF BoardKey, RunKey, TraceKey, TasksKey
<1>2. /\ \A t \in Tracks : BoardKey(t) \in Keys
      /\ \A r \in Runs : RunKey(r) \in Keys /\ TraceKey(r) \in Keys
      /\ TasksKey \in Keys
  BY DEF Keys, RunKeys, TraceKeys
<1>3. QED
  BY <1>1, <1>2 DEF RunKeys, TraceKeys

\* A request that starts or fails leaves the data.
LEMMA EntryKept ==
  ASSUME NEW entry \in QueryEntries(AnyData)
  PROVE  /\ Fetching(entry) \in QueryEntries(AnyData) /\ Fetching(entry).data = entry.data
         /\ Refused(entry) \in QueryEntries(AnyData) /\ Refused(entry).data = entry.data
         /\ NoQuery \in QueryEntries(AnyData) /\ NoQuery.data = NoData
BY DEF QueryEntries, Fetching, Refused, NoQuery, Entry

\* A cache that has of every key what another has, or nothing, is no worse.
LEMMA StillCached ==
  ASSUME NEW q, Cached(q), NEW p \in [Keys -> QueryEntries(AnyData)],
         \A k \in Keys : p[k].data \in {NoData, q[k].data}
  PROVE  Cached(p)
<1>1. ASSUME NEW t \in Tracks PROVE p[BoardKey(t)].data \in {NoData} \cup SUBSET OnTrack(t)
  BY KeysDiffer DEF Cached
<1>2. ASSUME NEW r \in Runs
      PROVE  /\ p[RunKey(r)].data \in {NoData} \cup Scores
             /\ p[TraceKey(r)].data \in {NoData} \cup Traces
  BY KeysDiffer DEF Cached
<1>3. QED
  BY <1>1, <1>2 DEF Cached

\* What appears asks for its data; nothing is lost by that.
LEMMA AskedKeeps ==
  ASSUME NEW v, NEW q, Cached(q), NEW appearing, NEW asked \in Asked(v, q, appearing)
  PROVE  Cached(asked) /\ \A k \in Keys : asked[k].data = q[k].data
<1>1. PICK fresh \in SUBSET (appearing \cap MayBeFresh(v, q)) :
        asked = [k \in Keys |-> IF k \in appearing \ fresh THEN Fetching(q[k]) ELSE q[k]]
  BY DEF Asked
<1>2. ASSUME NEW k \in Keys
      PROVE  asked[k] \in QueryEntries(AnyData) /\ asked[k].data = q[k].data
  <2>1. q[k] \in QueryEntries(AnyData)
    BY DEF Cached
  <2>2. asked[k] \in {Fetching(q[k]), q[k]}
    BY <1>1
  <2>3. QED
    BY <2>1, <2>2, EntryKept
<1>3. asked \in [Keys -> QueryEntries(AnyData)]
  BY <1>1, <1>2
<1>4. QED
  BY <1>2, <1>3, StillCached

\* The player follows what its panel shows.
LEMMA Follows ==
  ASSUME NEW v, NEW q, PlayerFollows(v, q)
  PROVE  lengths' = Given(v, q)
BY DEF PlayerFollows, Given, Settle, Remount, playerVars

\* A page that renders shows the state it was given, over the same data.
LEMMA Rendered ==
  ASSUME NEW v, NEW q, Cached(q), Render(v, q)
  PROVE  /\ view' = v
         /\ Cached(query')
         /\ \A k \in Keys : query'[k].data = q[k].data
         /\ lengths' = Given(view', query')
<1> DEFINE appearing == IF v.page # view.page THEN Observed(v, q)
                        ELSE Observed(v, q) \ Observed(view, query)
<1>1. PICK asked \in Asked(v, q, appearing) :
        view' = v /\ query' = asked /\ PlayerFollows(v, asked)
  BY DEF Render
<1> HIDE DEF appearing
<1>2. Cached(asked) /\ \A k \in Keys : asked[k].data = q[k].data
  BY AskedKeeps
<1>3. QED
  BY <1>1, <1>2, Follows

-----------------------------------------------------------------------------
(* What the player is given *)

\* Of a viewer that shows the player there is a trace, with a step in it.
LEMMA TraceGiven ==
  ASSUME NEW v, Viewable(v), NEW q, Cached(q), PlayerShown(v, q)
  PROVE  /\ Episodes(q, v.run) \in Seq(Seq(Normal))
         /\ StepCounts(Episodes(q, v.run)) \in LengthLists
         /\ \E e \in DOMAIN StepCounts(Episodes(q, v.run)) : StepCounts(Episodes(q, v.run))[e] > 0
<1> DEFINE r == v.run
           data == q[TraceKey(r)].data
           episodes == Episodes(q, r)
<1>1. r \in Runs /\ ~NoTrace(q, r)
  BY DEF PlayerShown, PanelShown, ViewerShown, Viewable
<1>2. PICK some \in 1 .. Len(episodes) : episodes[some] # <<>>
  BY <1>1 DEF NoTrace
<1>3. data # NoData
  <2>1. SUFFICES ASSUME data = NoData PROVE FALSE
    OBVIOUS
  <2>2. episodes = <<>>
    BY <2>1 DEF Episodes
  <2>3. QED
    BY <1>2, <2>2
<1>4. data \in Traces /\ episodes = NormalizeEpisodes(data)
  BY <1>1, <1>3 DEF Cached, Episodes
<1>5. PICK result \in Results : result.trace # NoFile /\ data = ParseTrace(result.trace)
  BY <1>4 DEF Traces
<1>6. data \in Seq(Lines)
  BY <1>5, PagesAssumption, ParsedLines
<1>7. episodes \in Seq(Seq(Normal))
  BY <1>4, <1>6, NormalEpisodes
<1>8. StepCounts(episodes) \in LengthLists
  BY <1>4, <1>5, TracesAssumption
<1> HIDE DEF episodes
<1>9. some \in DOMAIN StepCounts(episodes) /\ StepCounts(episodes)[some] > 0
  <2>1. episodes[some] \in Seq(Normal) /\ episodes[some] # <<>>
    BY <1>2, <1>7
  <2>2. Len(episodes[some]) \in Nat /\ Len(episodes[some]) # 0
    BY <2>1
  <2>3. QED
    BY <1>2, <2>2 DEF StepCounts
<1>10. QED
  BY <1>7, <1>8, <1>9 DEF episodes

\* What the player is given is one of the lists it is made for.
LEMMA GivenLengths ==
  ASSUME NEW v, Viewable(v), NEW q, Cached(q)
  PROVE  /\ Given(v, q) \in LengthLists
         /\ Given(v, q) # <<>> => \E e \in DOMAIN Given(v, q) : Given(v, q)[e] > 0
BY TraceGiven, TracesAssumption DEF Given

\* A page that renders mounts the player, gives it another trace, or leaves it.
LEMMA RenderPlays ==
  ASSUME PagesInv, NEW v, Viewable(v), NEW q, Cached(q), Render(v, q)
  PROVE  [PlayerNext]_playerVars
<1> DEFINE appearing == IF v.page # view.page THEN Observed(v, q)
                        ELSE Observed(v, q) \ Observed(view, query)
<1>1. PICK asked \in Asked(v, q, appearing) : PlayerFollows(v, asked)
  BY DEF Render
<1> HIDE DEF appearing
<1> DEFINE ls == Given(v, asked)
<1>2. /\ ls \in LengthLists
      /\ ls # <<>> => \E e \in DOMAIN ls : ls[e] > 0
  BY AskedKeeps, GivenLengths
<1>3. lengths # <<>> => Mounted
  BY GivenLengths DEF PagesInv, Mounted
<1>4. \/ UNCHANGED playerVars
      \/ ls # <<>> /\ lengths # <<>> /\ Settle(ls, episodeIdx, Transport)
      \/ Remount(ls)
  BY <1>1, Zenon DEF PlayerFollows, Given
<1> HIDE DEF ls
<1>5. ASSUME ls # <<>>, lengths # <<>>, Settle(ls, episodeIdx, Transport)
      PROVE  TraceChanges(ls)
  BY <1>2, <1>3, <1>5 DEF TraceChanges
<1>6. QED
  BY <1>2, <1>4, <1>5 DEF PlayerNext

-----------------------------------------------------------------------------
(* Every step of a session *)

\* A page renders with another state or another cache, or the player alone moves.
Renders ==
  \E v, q : Viewable(v) /\ Cached(q) /\ Render(v, q)

Turned ==
  /\ Renders \/ Play \/ UNCHANGED <<query, view, playerVars>>
  /\ stored' \in [Runs -> Results]

\* A page is mounted with nothing selected.
LEMMA Opening ==
  ASSUME NEW page \in {"leaderboard", "tasks", "run", "compare"}
  PROVE  /\ Opened(page) \in Views
         /\ Distinct(Opened(page).selected) /\ Len(Opened(page).selected) <= MaxCompare
         /\ Opened(page).page = page
<1>1. <<>> \in Seq(Runs) /\ Len(<<>>) = 0 /\ Distinct(<<>>) /\ 0 <= MaxCompare
  BY PagesAssumption DEF Distinct
<1>2. QED
  BY <1>1, PagesAssumption DEF Opened, Views, Tabs

\* What a navigation drops from the cache is asked for again.
LEMMA Navigated ==
  ASSUME PagesInv, NEW v, Viewable(v), Navigate(v)
  PROVE  Turned
<1>1. PICK dropped : Render(v, [k \in Keys |-> IF k \in dropped THEN NoQuery ELSE query[k]])
  BY DEF Navigate
<1> DEFINE q == [k \in Keys |-> IF k \in dropped THEN NoQuery ELSE query[k]]
<1>2. Cached(q)
  <2>1. ASSUME NEW k \in Keys
        PROVE  q[k] \in QueryEntries(AnyData) /\ q[k].data \in {NoData, query[k].data}
    <3>1. query[k] \in QueryEntries(AnyData)
      BY DEF PagesInv, Cached
    <3>2. q[k] \in {NoQuery, query[k]}
      OBVIOUS
    <3>3. QED
      BY <3>1, <3>2, EntryKept
  <2>2. q \in [Keys -> QueryEntries(AnyData)]
    BY <2>1
  <2> HIDE DEF q
  <2>3. QED
    BY <2>1, <2>2, StillCached DEF PagesInv
<1> HIDE DEF q
<1>3. stored' \in [Runs -> Results]
  BY DEF Navigate, PagesInv
<1>4. QED
  BY <1>1, <1>2, <1>3 DEF Turned, Renders, q

LEMMA Stayed ==
  ASSUME PagesInv, NEW v, Viewable(v), NEW q, Cached(q), Stay(v, q)
  PROVE  Turned
BY DEF Stay, Turned, Renders, PagesInv

\* Selecting stays within the cap.
LEMMA BoardStep ==
  ASSUME PagesInv,
         \/ \E t \in Tracks : ChooseTrack(t)
         \/ \E r \in Runs : ToggleSelected(r)
         \/ ClearSelection
  PROVE  Turned
<1>1. Viewable(view) /\ Cached(query)
  BY DEF PagesInv
<1>2. ASSUME NEW t \in Tracks, ChooseTrack(t) PROVE Turned
  <2> DEFINE v == [view EXCEPT !.track = t]
  <2>1. Viewable(v)
    BY <1>1 DEF Viewable, Views
  <2>2. Stay(v, query)
    BY <1>2 DEF ChooseTrack
  <2> HIDE DEF v
  <2>3. QED
    BY <1>1, <2>1, <2>2, Stayed
<1>3. ASSUME NEW r \in Runs, ToggleSelected(r) PROVE Turned
  <2> DEFINE s == view.selected
             toggled == IF r \in ToSet(s) THEN Only(s, Runs \ {r}) ELSE Append(s, r)
             v == [view EXCEPT !.selected = toggled]
  <2>1. s \in Seq(Runs) /\ Distinct(s) /\ Len(s) <= MaxCompare /\ MaxCompare \in Nat
    BY <1>1, PagesAssumption DEF Viewable, Views
  <2>2. toggled \in Seq(Runs) /\ Distinct(toggled) /\ Len(toggled) <= MaxCompare
    <3>1. CASE r \in ToSet(s)
      <4> HIDE DEF s
      <4>1. /\ Only(s, Runs \ {r}) \in Seq(Runs) /\ Distinct(Only(s, Runs \ {r}))
            /\ Len(Only(s, Runs \ {r})) <= Len(s)
        BY <2>1, OnlyProperties
      <4>2. Len(Only(s, Runs \ {r})) \in Nat /\ Len(s) \in Nat
        BY <2>1, <4>1
      <4>3. QED
        BY <2>1, <3>1, <4>1, <4>2
    <3>2. CASE r \notin ToSet(s)
      <4>1. ~(Len(s) >= MaxCompare)
        BY <1>3, <3>2 DEF ToggleSelected, AtCap
      <4> HIDE DEF s
      <4>2. /\ Append(s, r) \in Seq(Runs) /\ Len(Append(s, r)) = Len(s) + 1 /\ Len(s) \in Nat
            /\ \A i \in 1 .. Len(s) : Append(s, r)[i] = s[i]
            /\ Append(s, r)[Len(s) + 1] = r
        BY <2>1
      <4>3. \A i \in 1 .. Len(s) : s[i] # r
        BY <3>2 DEF ToSet
      <4>4. Distinct(Append(s, r))
        BY <2>1, <4>2, <4>3 DEF Distinct
      <4>5. QED
        BY <2>1, <3>2, <4>1, <4>2, <4>4
    <3>3. QED
      BY <3>1, <3>2
  <2>3. Stay(v, query)
    BY <1>3 DEF ToggleSelected
  <2> HIDE DEF toggled
  <2>4. Viewable(v)
    BY <1>1, <2>2 DEF Viewable, Views
  <2> HIDE DEF v
  <2>5. QED
    BY <1>1, <2>3, <2>4, Stayed
<1>4. ASSUME ClearSelection PROVE Turned
  <2> DEFINE v == [view EXCEPT !.selected = <<>>]
  <2>1. <<>> \in Seq(Runs) /\ Len(<<>>) = 0 /\ Distinct(<<>>) /\ 0 <= MaxCompare
    BY PagesAssumption DEF Distinct
  <2>2. Viewable(v)
    BY <1>1, <2>1 DEF Viewable, Views
  <2>3. Stay(v, query)
    BY <1>4 DEF ClearSelection
  <2> HIDE DEF v
  <2>4. QED
    BY <1>1, <2>2, <2>3, Stayed
<1>5. QED
  BY <1>2, <1>3, <1>4

\* The runs of the board are runs, and of its track.
LEMMA RowsListed ==
  ASSUME PagesInv
  PROVE  Rows(view, query) \subseteq OnTrack(view.track)
<1>1. view.track \in Tracks
  BY DEF PagesInv, Viewable, Views
<1>2. query[BoardKey(view.track)].data \in {NoData} \cup SUBSET OnTrack(view.track)
  BY <1>1 DEF PagesInv, Cached
<1>3. QED
  BY <1>2 DEF Rows

\* The link to the comparison, and what the comparison takes from it: the ticked
\* runs of the board, each once.
LEMMA LinkKeepsAll ==
  ASSUME PagesInv
  PROVE  LET listed == SelectedOnTrack(view, query) IN
         /\ listed \in Seq(Runs) /\ Distinct(listed)
         /\ ParseRunIds(SerializeRunIds(listed)) = listed
         /\ ToSet(listed) = ToSet(view.selected) \cap Rows(view, query)
<1> DEFINE s == view.selected
           R == Rows(view, query)
           listed == Only(s, R)
<1>1. s \in Seq(Runs) /\ Distinct(s) /\ Len(s) <= MaxCompare /\ MaxCompare \in Nat
  BY PagesAssumption DEF PagesInv, Viewable, Views
<1> HIDE DEF s, R
<1>2. /\ listed \in Seq(Runs) /\ Distinct(listed) /\ Len(listed) <= Len(s)
      /\ ToSet(listed) = ToSet(s) \cap R
  BY <1>1, OnlyProperties
<1>3. Len(listed) <= MaxCompare
  <2>1. Len(listed) \in Nat /\ Len(s) \in Nat
    BY <1>1, <1>2
  <2>2. QED
    BY <1>1, <1>2, <2>1
<1>4. SelectedOnTrack(view, query) = listed
  BY DEF SelectedOnTrack, s, R
<1> HIDE DEF listed
<1>5. ParseRunIds(listed) = listed
  BY <1>2, <1>3, ParseProperties
<1>6. ParseRunIds(SerializeRunIds(listed)) = listed
  BY <1>5 DEF SerializeRunIds
<1>7. QED
  BY <1>2, <1>4, <1>6 DEF s, R

\* What a page leads to.
LEMMA NavigationStep ==
  ASSUME PagesInv,
         \/ \E r \in Runs : OpenRun(r)
         \/ Compare \/ BrowseTasks \/ BackToBoard
  PROVE  Turned
<1>1. ASSUME NEW r \in Runs, OpenRun(r) PROVE Turned
  <2> DEFINE v == [Opened("run") EXCEPT !.run = r]
  <2>1. Viewable(v)
    BY Opening DEF Viewable, Views
  <2>2. Navigate(v)
    BY <1>1 DEF OpenRun
  <2> HIDE DEF v
  <2>3. QED
    BY <2>1, <2>2, Navigated
<1>2. ASSUME Compare PROVE Turned
  <2> DEFINE ids == ParseRunIds(SerializeRunIds(SelectedOnTrack(view, query)))
             v == [Opened("compare") EXCEPT !.compared = ids]
  <2>1. ids \in Seq(Runs)
    BY LinkKeepsAll
  <2>2. Navigate(v)
    BY <1>2 DEF Compare
  <2> HIDE DEF ids
  <2>3. Viewable(v)
    BY <2>1, Opening DEF Viewable, Views
  <2> HIDE DEF v
  <2>4. QED
    BY <2>2, <2>3, Navigated
<1>3. ASSUME NEW page \in {"leaderboard", "tasks"}, Navigate(Opened(page)) PROVE Turned
  <2>1. Viewable(Opened(page))
    BY Opening DEF Viewable
  <2>2. QED
    BY <1>3, <2>1, Navigated
<1>4. QED
  BY <1>1, <1>2, <1>3 DEF BrowseTasks, BackToBoard

\* The tabs of the viewer and its retries.
LEMMA ViewerStep ==
  ASSUME PagesInv,
         \/ \E tab \in Tabs : ChooseTab(tab)
         \/ RetryRun \/ RetryTrace
  PROVE  Turned
<1>1. Viewable(view) /\ Cached(query)
  BY DEF PagesInv
<1>2. ASSUME NEW tab \in Tabs, ChooseTab(tab) PROVE Turned
  <2> DEFINE v == [view EXCEPT !.tab = tab]
  <2>1. Viewable(v)
    BY <1>1 DEF Viewable, Views
  <2>2. Stay(v, query)
    BY <1>2 DEF ChooseTab
  <2> HIDE DEF v
  <2>3. QED
    BY <1>1, <2>1, <2>2, Stayed
<1>3. ASSUME NEW k \in Keys, Refetch(k) PROVE Turned
  <2> DEFINE q == [query EXCEPT ![k] = Fetching(@)]
  <2>1. Cached(q)
    <3>1. query[k] \in QueryEntries(AnyData) /\ query \in [Keys -> QueryEntries(AnyData)]
      BY <1>1 DEF Cached
    <3>2. /\ Fetching(query[k]) \in QueryEntries(AnyData)
          /\ Fetching(query[k]).data = query[k].data
      BY <3>1, EntryKept
    <3>3. /\ q \in [Keys -> QueryEntries(AnyData)]
          /\ \A j \in Keys : q[j].data = query[j].data
      BY <3>1, <3>2
    <3> HIDE DEF q
    <3>4. QED
      BY <1>1, <3>3, StillCached
  <2>2. Stay(view, q)
    BY <1>3 DEF Refetch
  <2> HIDE DEF q
  <2>3. QED
    BY <1>1, <2>1, <2>2, Stayed
<1>4. view.page = "run" => RunKey(view.run) \in Keys /\ TraceKey(view.run) \in Keys
  BY <1>1, KeysDiffer DEF Viewable
<1>5. QED
  BY <1>2, <1>3, <1>4 DEF RetryRun, RetryTrace, PanelShown, ViewerShown

\* An answer is of the kind its key is of.
LEMMA AnswerFits ==
  ASSUME PagesInv, NEW k \in Keys, k \in TraceKeys => stored[k[2]].trace # NoFile,
         NEW data, data = CASE k \in RunKeys -> stored[k[2]].score
                            [] k \in TraceKeys -> ParseTrace(stored[k[2]].trace)
                            [] k = TasksKey -> Tasks
                            [] OTHER -> Listed(k[2])
  PROVE  Cached([query EXCEPT ![k] = Answered(@, data)])
<1> DEFINE q == [query EXCEPT ![k] = Answered(@, data)]
<1>1. query \in [Keys -> QueryEntries(AnyData)] /\ stored \in [Runs -> Results] /\ Cached(query)
  BY DEF PagesInv, Cached
<1>2. /\ \A r \in Runs : k = RunKey(r) => data \in Scores
      /\ \A r \in Runs : k = TraceKey(r) => data \in Traces
      /\ \A t \in Tracks : k = BoardKey(t) => data \in SUBSET OnTrack(t)
      /\ k = TasksKey => data = Tasks
  <2>1. ASSUME NEW r \in Runs, k = RunKey(r) PROVE data \in Scores
    <3>1. k \in RunKeys /\ k \notin TraceKeys /\ k # TasksKey /\ k[2] = r
      BY <2>1, KeysDiffer DEF RunKeys
    <3>2. data = stored[r].score
      <4>1. data = stored[k[2]].score
        BY <3>1, Zenon
      <4>2. QED
        BY <3>1, <4>1
    <3>3. QED
      BY <1>1, <3>2, PagesAssumption DEF Scores
  <2>2. ASSUME NEW r \in Runs, k = TraceKey(r) PROVE data \in Traces
    <3>1. k \in TraceKeys /\ k \notin RunKeys /\ k # TasksKey /\ k[2] = r
      BY <2>2, KeysDiffer DEF TraceKeys
    <3>2. data = ParseTrace(stored[r].trace) /\ stored[r].trace # NoFile /\ stored[r] \in Results
      <4>1. data = ParseTrace(stored[k[2]].trace)
        BY <3>1, Zenon
      <4>2. QED
        BY <1>1, <3>1, <4>1
    <3>3. QED
      BY <3>2 DEF Traces
  <2>3. ASSUME NEW t \in Tracks, k = BoardKey(t) PROVE data \in SUBSET OnTrack(t)
    <3>1. k \notin RunKeys /\ k \notin TraceKeys /\ k # TasksKey /\ k[2] = t
      BY <2>3, KeysDiffer
    <3>2. data = Listed(t)
      BY <3>1
    <3>3. QED
      BY <3>2 DEF Listed, OnTrack
  <2>4. ASSUME k = TasksKey PROVE data = Tasks
    <3>1. k \notin RunKeys /\ k \notin TraceKeys
      BY <2>4, KeysDiffer
    <3>2. QED
      BY <2>4, <3>1
  <2>5. QED
    BY <2>1, <2>2, <2>3, <2>4
<1>3. data \in AnyData
  <2>1. \A t \in Tracks : OnTrack(t) \subseteq Runs
    BY DEF OnTrack
  <2>2. \/ \E t \in Tracks : k = BoardKey(t)
        \/ \E r \in Runs : k = RunKey(r)
        \/ \E r \in Runs : k = TraceKey(r)
        \/ k = TasksKey
    BY Zenon DEF Keys, RunKeys, TraceKeys
  <2>3. data \in Scores \/ data \in Traces \/ data \in SUBSET Runs \/ data = Tasks
    BY <1>2, <2>1, <2>2
  <2>4. QED
    BY <2>3, Zenon DEF AnyData
<1>4. Answered(query[k], data) \in QueryEntries(AnyData) /\ Answered(query[k], data).data = data
  BY <1>3 DEF Answered, Entry, QueryEntries
<1>5. /\ q \in [Keys -> QueryEntries(AnyData)]
      /\ q[k].data = data
      /\ \A j \in Keys : j # k => q[j] = query[j]
  BY <1>1, <1>4
<1> HIDE DEF q
<1>6. ASSUME NEW t \in Tracks PROVE q[BoardKey(t)].data \in {NoData} \cup SUBSET OnTrack(t)
  BY <1>1, <1>2, <1>5, KeysDiffer DEF Cached
<1>7. ASSUME NEW r \in Runs
      PROVE  /\ q[RunKey(r)].data \in {NoData} \cup Scores
             /\ q[TraceKey(r)].data \in {NoData} \cup Traces
  BY <1>1, <1>2, <1>5, KeysDiffer DEF Cached
<1>8. Cached(q)
  BY <1>5, <1>6, <1>7 DEF Cached
<1>9. QED
  BY <1>8 DEF q

\* Answers, failures, a connection that is back, and submissions.
LEMMA NetworkStep ==
  ASSUME PagesInv,
         \/ \E k \in Keys : Answer(k) \/ Fail(k)
         \/ Reconnect
         \/ \E r \in Resubmitted, result \in Results : Submit(r, result)
  PROVE  Turned
<1>1. Viewable(view) /\ Cached(query) /\ stored \in [Runs -> Results]
  BY DEF PagesInv
<1>2. ASSUME NEW k \in Keys, Answer(k) PROVE Turned
  <2> DEFINE data == CASE k \in RunKeys -> stored[k[2]].score
                       [] k \in TraceKeys -> ParseTrace(stored[k[2]].trace)
                       [] k = TasksKey -> Tasks
                       [] OTHER -> Listed(k[2])
             q == [query EXCEPT ![k] = Answered(@, data)]
  <2>1. (k \in TraceKeys => stored[k[2]].trace # NoFile) /\ Stay(view, q)
    BY <1>2 DEF Answer
  <2>2. Cached(q)
    BY <2>1, AnswerFits
  <2> HIDE DEF q
  <2>3. QED
    BY <1>1, <2>1, <2>2, Stayed
<1>3. ASSUME NEW k \in Keys, Fail(k) PROVE Turned
  <2> DEFINE q == [query EXCEPT ![k] = Refused(@)]
  <2>1. Cached(q)
    <3>1. query[k] \in QueryEntries(AnyData) /\ query \in [Keys -> QueryEntries(AnyData)]
      BY <1>1 DEF Cached
    <3>2. /\ Refused(query[k]) \in QueryEntries(AnyData)
          /\ Refused(query[k]).data = query[k].data
      BY <3>1, EntryKept
    <3>3. /\ q \in [Keys -> QueryEntries(AnyData)]
          /\ \A j \in Keys : q[j].data = query[j].data
      BY <3>1, <3>2
    <3> HIDE DEF q
    <3>4. QED
      BY <1>1, <3>3, StillCached
  <2>2. Stay(view, q)
    BY <1>3 DEF Fail
  <2> HIDE DEF q
  <2>3. QED
    BY <1>1, <2>1, <2>2, Stayed
<1>4. ASSUME Reconnect PROVE Turned
  <2>1. PICK asked \in Asked(view, query, Observed(view, query)) : Render(view, asked)
    BY <1>4 DEF Reconnect
  <2>2. Cached(asked)
    BY <1>1, AskedKeeps
  <2>3. stored' \in [Runs -> Results]
    BY <1>1, <1>4 DEF Reconnect
  <2>4. QED
    BY <1>1, <2>1, <2>2, <2>3 DEF Turned, Renders
<1>5. ASSUME NEW r \in Resubmitted, NEW result \in Results, Submit(r, result) PROVE Turned
  <2>1. stored' \in [Runs -> Results]
    BY <1>1, <1>5 DEF Submit
  <2>2. UNCHANGED <<query, view, playerVars>>
    BY <1>5 DEF Submit
  <2>3. QED
    BY <2>1, <2>2 DEF Turned
<1>6. QED
  BY <1>2, <1>3, <1>4, <1>5

LEMMA EveryTurn ==
  ASSUME PagesInv, PagesNext
  PROVE  Turned
<1>1. CASE Play
  BY <1>1 DEF Play, PagesInv, Turned
<1>2. QED
  BY <1>1, BoardStep, NavigationStep, ViewerStep, NetworkStep DEF PagesNext

\* The player's own steps leave its trace.
LEMMA PlayKeeps ==
  ASSUME Play
  PROVE  lengths' = lengths /\ PlayerNext /\ UNCHANGED <<stored, query, view>>
<1>1. CASE User
  BY <1>1 DEF User, ClickRestart, ClickPrev, ClickNext, ClickToggle, PressKey, Scrub, ClickBar,
              SelectEpisode, Restart, Prev, StepNext, Toggle, Move, Settle, PlayerNext, Play
<1>2. CASE Tick
  BY <1>2 DEF Tick, Settle, PlayerNext, Play
<1>3. QED
  BY <1>1, <1>2 DEF Play

LEMMA PagesInvInit == PagesInit => PagesInv
<1> SUFFICES ASSUME PagesInit PROVE PagesInv
  OBVIOUS
<1>1. stored \in [Runs -> Results]
  BY PagesAssumption DEF PagesInit
<1>2. Viewable(view) /\ view.tab = "metrics"
  <2>1. CASE view = Opened("leaderboard")
    BY <2>1, Opening DEF Viewable, Opened
  <2>2. ASSUME NEW ids \in Links, view = [Opened("compare") EXCEPT !.compared = ParseRunIds(ids)]
        PROVE  Viewable(view) /\ view.tab = "metrics"
    <3>1. ParseRunIds(ids) \in Seq(Runs)
      BY PagesAssumption, ParseProperties
    <3>2. Viewable(view)
      BY <2>2, <3>1, Opening DEF Viewable, Views
    <3>3. QED
      BY <2>2, <3>2 DEF Opened
  <2>3. ASSUME NEW r \in Shared, view = [Opened("run") EXCEPT !.run = r]
        PROVE  Viewable(view) /\ view.tab = "metrics"
    <3>1. r \in Runs
      BY PagesAssumption
    <3>2. Viewable(view)
      BY <2>3, <3>1, Opening DEF Viewable, Views
    <3>3. QED
      BY <2>3, <3>2 DEF Opened
  <2>4. QED
    BY <2>1, <2>2, <2>3 DEF PagesInit
<1>3. Cached(query)
  <2> DEFINE q == [k \in Keys |-> NoQuery]
  <2>1. /\ NoQuery \in QueryEntries(AnyData) /\ NoQuery.data = NoData
    BY DEF QueryEntries, NoQuery, Entry
  <2>2. Cached(q)
    BY <2>1, KeysDiffer DEF Cached
  <2>3. query \in Asked(view, q, Observed(view, q))
    BY DEF PagesInit
  <2> HIDE DEF q
  <2>4. QED
    BY <2>2, <2>3, AskedKeeps
<1>4. lengths = Given(view, query)
  BY <1>2 DEF PagesInit, Given, PlayerShown, PanelShown
<1>5. QED
  BY <1>1, <1>2, <1>3, <1>4 DEF PagesInv

LEMMA TurnKeeps ==
  ASSUME PagesInv, Turned
  PROVE  PagesInv' /\ [PlayerNext]_playerVars
<1>1. CASE Renders
  <2>1. PICK v, q : Viewable(v) /\ Cached(q) /\ Render(v, q)
    BY <1>1 DEF Renders
  <2>2. /\ Viewable(view') /\ Cached(query')
        /\ lengths' = Given(view', query')
    BY <2>1, Rendered
  <2>3. [PlayerNext]_playerVars
    BY <2>1, RenderPlays
  <2>4. QED
    BY <2>2, <2>3 DEF PagesInv, Turned
<1>2. CASE Play
  BY <1>2, PlayKeeps DEF PagesInv
<1>3. CASE UNCHANGED <<query, view, playerVars>>
  BY <1>3 DEF PagesInv, Turned, playerVars
<1>4. QED
  BY <1>1, <1>2, <1>3 DEF Turned

LEMMA PagesInvStep ==
  PagesInv /\ [PagesNext]_pagesVars => PagesInv' /\ [PlayerNext]_playerVars
<1>1. ASSUME PagesInv, PagesNext PROVE PagesInv' /\ [PlayerNext]_playerVars
  BY <1>1, EveryTurn, TurnKeeps
<1>2. ASSUME PagesInv, UNCHANGED pagesVars PROVE PagesInv' /\ [PlayerNext]_playerVars
  BY <1>2 DEF PagesInv, pagesVars, playerVars
<1>3. QED
  BY <1>1, <1>2

-----------------------------------------------------------------------------
(* What holds of every session *)

(* The badge of a row stands in the first column that no other beats, for  *)
(* every board, comparison and order of answers, failures and submissions. *)
THEOREM WinnerCorrect == PagesSpec => []WinnerIsBest
<1>1. PagesInv => WinnerIsBest
  <2> SUFFICES ASSUME PagesInv, NEW direction \in {"higher", "lower"}
               PROVE  LET values == Summaries(view, query)
                          present == {i \in DOMAIN values : values[i] # Unscored}
                          unbeaten == {i \in present : \A j \in present : ~Better(direction, values[j], values[i])}
                      IN Marked(view, query, direction) =
                           IF unbeaten = present THEN {}
                           ELSE {CHOOSE i \in unbeaten : \A j \in unbeaten : i <= j}
    BY DEF WinnerIsBest
  <2> DEFINE values == Summaries(view, query)
  <2>1. view.compared \in Seq(Runs)
    BY DEF PagesInv, Viewable, Views
  <2>2. \A i \in 1 .. Len(view.compared) : Summary(query, view.compared[i]) \in Scores
    <3>1. ASSUME NEW r \in Runs PROVE Summary(query, r) \in Scores
      BY DEF PagesInv, Cached, Summary, Scores
    <3>2. QED
      BY <2>1, <3>1
  <2>3. values \in Seq(Scores) /\ Len(values) = Len(view.compared) /\ DOMAIN values = 1 .. Len(values)
        /\ DOMAIN view.compared = 1 .. Len(values)
    <3>1. values \in [1 .. Len(view.compared) -> Scores] /\ Len(view.compared) \in Nat
      BY <2>1, <2>2 DEF Summaries
    <3> HIDE DEF values
    <3>2. QED
      BY <2>1, <3>1
  <2> HIDE DEF values
  <2> DEFINE present == {i \in DOMAIN values : values[i] # Unscored}
             unbeaten == {i \in present : \A j \in present : ~Better(direction, values[j], values[i])}
             first == CHOOSE i \in unbeaten : \A j \in unbeaten : i <= j
  <2>4. present = Present(values) /\ unbeaten = Unbeaten(values, direction)
    BY <2>3 DEF Present, Unbeaten
  <2>5. Marked(view, query, direction) = {i \in 1 .. Len(values) : i = BestIndex(values, direction)}
    BY <2>3 DEF Marked, Winner, values
  <2>6. first = CHOOSE i \in Unbeaten(values, direction) :
                  \A j \in Unbeaten(values, direction) : i <= j
    BY <2>4
  <2> HIDE DEF first
  <2>7. {i \in 1 .. Len(values) : i = BestIndex(values, direction)} =
          IF Unbeaten(values, direction) = Present(values) THEN {} ELSE {first}
    <3>1. values \in Seq(Int \cup {Unscored})
      BY <2>3 DEF Scores
    <3>2. QED
      BY <3>1, <2>6, BestProperties, Zenon
  <2> HIDE DEF present, unbeaten
  <2>8. Marked(view, query, direction) = IF unbeaten = present THEN {} ELSE {first}
    BY <2>4, <2>5, <2>7
  <2>9. QED
    BY <2>8 DEF first, unbeaten, present, values
<1>2. QED
  BY <1>1, PagesInvInit, PagesInvStep, PTL DEF PagesSpec

\* Of what the leaderboard's user can do, one thing leads to a comparison.
LEMMA OnlyCompares ==
  ASSUME PagesInv, PagesNext, view.page = "leaderboard", view'.page = "compare"
  PROVE  Compare
<1>1. Viewable(view)
  BY DEF PagesInv
<1>2. ASSUME NEW v, NEW q, Render(v, q), v.page # "compare" PROVE FALSE
  BY <1>2 DEF Render
<1>3. ASSUME NEW v, v.page # "compare", Navigate(v) \/ \E q : Stay(v, q) PROVE FALSE
  BY <1>2, <1>3 DEF Navigate, Stay
<1>4. \A page \in {"leaderboard", "tasks", "run"} : Opened(page).page # "compare"
  BY DEF Opened
<1>5. view # view'
  OBVIOUS
<1>6. ~(\E t \in Tracks : ChooseTrack(t))
  <2>1. SUFFICES ASSUME NEW t \in Tracks, ChooseTrack(t) PROVE FALSE
    OBVIOUS
  <2>2. [view EXCEPT !.track = t].page = "leaderboard"
    BY <1>1 DEF Viewable, Views
  <2>3. QED
    BY <1>3, <2>1, <2>2 DEF ChooseTrack
<1>7. ~(\E r \in Runs : ToggleSelected(r)) /\ ~ClearSelection
  <2>1. \A s : [view EXCEPT !.selected = s].page = "leaderboard"
    BY <1>1 DEF Viewable, Views
  <2>2. QED
    BY <1>3, <2>1 DEF ToggleSelected, ClearSelection
<1>8. ~(\E r \in Runs : OpenRun(r)) /\ ~BrowseTasks /\ ~BackToBoard
  <2>1. \A r : [Opened("run") EXCEPT !.run = r].page = "run"
    BY DEF Opened
  <2>2. QED
    BY <1>3, <1>4, <2>1 DEF OpenRun, BrowseTasks, BackToBoard
<1>9. ~(\E tab \in Tabs : ChooseTab(tab)) /\ ~RetryRun /\ ~RetryTrace
  BY DEF ChooseTab, RetryRun, RetryTrace, ViewerShown, PanelShown
<1>10. ~(\E k \in Keys : Answer(k) \/ Fail(k)) /\ ~Reconnect
  BY <1>2, <1>3 DEF Answer, Fail, Reconnect
<1>11. ~Play /\ ~(\E r \in Resubmitted, result \in Results : Submit(r, result))
  BY <1>5 DEF Play, Submit
<1>12. QED
  BY <1>6, <1>7, <1>8, <1>9, <1>10, <1>11 DEF PagesNext

\* A list of distinct elements has as many as its set.
LEMMA DistinctCounted ==
  ASSUME NEW A, NEW s \in Seq(A), Distinct(s)
  PROVE  Len(s) = Cardinality(ToSet(s))
<1>1. Len(s) \in Nat /\ DOMAIN s = 1 .. Len(s)
  OBVIOUS
<1> DEFINE f == [i \in 1 .. Len(s) |-> s[i]]
<1>2. f \in Bijection(1 .. Len(s), ToSet(s))
  <2>1. ToSet(s) = {s[i] : i \in 1 .. Len(s)}
    BY <1>1 DEF ToSet
  <2>2. \A a, b \in 1 .. Len(s) : f[a] = f[b] => a = b
    BY DEF Distinct
  <2>3. f \in [1 .. Len(s) -> ToSet(s)]
    BY <2>1
  <2>4. \A t \in ToSet(s) : \E i \in 1 .. Len(s) : f[i] = t
    BY <2>1
  <2> HIDE DEF f
  <2>5. QED
    BY <2>2, <2>3, <2>4, Fun_IsBij
<1>3. ExistsBijection(1 .. Len(s), ToSet(s))
  BY <1>2 DEF ExistsBijection
<1>4. QED
  BY <1>1, <1>3, FS_CountingElements

(* The comparison that the leaderboard leads to has the ticked runs of the *)
(* visible track, all of them and each once, for every number of tracks    *)
(* and runs and every cap of two or more.                                  *)
THEOREM ComparisonCorrect == PagesSpec => ComparesWhatIsListed
<1> DEFINE Opens ==
      view.page = "leaderboard" /\ view'.page = "compare" =>
        /\ Len(view'.compared) = Cardinality(ToSet(view'.compared))
        /\ Len(view'.compared) > 1
        /\ ToSet(view'.compared) = {r \in ToSet(view.selected) : r \in Rows(view, query)}
        /\ \A r \in ToSet(view'.compared) : TrackOf[r] = view.track
<1>1. ASSUME PagesInv, PagesNext PROVE Opens
  <2>1. SUFFICES ASSUME view.page = "leaderboard", view'.page = "compare" PROVE Opens
    OBVIOUS
  <2> DEFINE listed == SelectedOnTrack(view, query)
  <2>2. Compare
    BY <1>1, <2>1, OnlyCompares
  <2>3. /\ listed \in Seq(Runs) /\ Distinct(listed)
        /\ ParseRunIds(SerializeRunIds(listed)) = listed
        /\ ToSet(listed) = ToSet(view.selected) \cap Rows(view, query)
    BY <1>1, LinkKeepsAll
  <2>4. Len(listed) >= 2 /\ view' = [Opened("compare") EXCEPT !.compared = listed]
    BY <2>2, <2>3 DEF Compare, Navigate, Render
  <2>5. view'.compared = listed
    BY <2>4 DEF Opened
  <2> HIDE DEF listed
  <2>6. Len(listed) = Cardinality(ToSet(listed)) /\ Len(listed) > 1
    <3>1. Len(listed) = Cardinality(ToSet(listed))
      BY <2>3, DistinctCounted, Zenon
    <3>2. Len(listed) \in Nat
      BY <2>3
    <3>3. QED
      BY <2>4, <3>1, <3>2
  <2>7. ToSet(listed) = {r \in ToSet(view.selected) : r \in Rows(view, query)}
    BY <2>3
  <2>8. \A r \in ToSet(listed) : TrackOf[r] = view.track
    BY <1>1, <2>3, RowsListed DEF OnTrack
  <2>9. QED
    BY <2>5, <2>6, <2>7, <2>8
<1>2. PagesInv /\ [PagesNext]_pagesVars => [Opens]_view
  BY <1>1 DEF pagesVars
<1> HIDE DEF Opens
<1>3. PagesSpec => [][Opens]_view
  BY <1>2, PagesInvInit, PagesInvStep, PTL DEF PagesSpec
<1>4. QED
  BY <1>3, PTL DEF ComparesWhatIsListed, Opens

(* A session is, for its player, a sequence of traces: what is proved of   *)
(* the player by itself holds of the player that the pages mount, give     *)
(* traces to and unmount.                                                  *)
THEOREM PagesPlay == PagesSpec => PlayerSpec
<1>1. PagesInit => PlayerInit
  BY TracesAssumption DEF PagesInit, PlayerInit
<1>2. QED
  BY <1>1, PagesInvInit, PagesInvStep, PTL DEF PagesSpec, PlayerSpec

(* The player keeps within the episode, its strip holds the cursor, and    *)
(* another episode or another trace rewinds it, on every path through the  *)
(* pages.                                                                  *)
THEOREM PagesPlayerCorrect ==
  PagesSpec => [](PlaysWithinEpisode /\ StripHoldsCursor) /\ SwitchRewinds
<1>1. QED
  BY PagesPlay, PlaysCorrect, StripCorrect, RewindsCorrect, PTL

(* On every path through the pages the player implements the playback of   *)
(* use-playback.ts: opening, closing and feeding it are loads.             *)
THEOREM PagesImplementPlayback == FairPagesSpec => ImplementsPlayback
<1>1. FairPagesSpec => FairPlayerSpec
  BY PagesPlay DEF FairPagesSpec, FairPlayerSpec
<1>2. QED
  BY <1>1, PlaybackRefined

(* Whatever trace a run has, header, strip, panel and list of events agree *)
(* on the episode that the player shows.                                   *)
THEOREM ViewsCorrect == PagesSpec => []ViewsAgree
<1>1. PagesInv /\ PlayerTypeOK => ViewsAgree
  <2>1. SUFFICES ASSUME PagesInv, PlayerTypeOK, PlayerShown(view, query)
                 PROVE  ViewsAgree
    BY DEF ViewsAgree
  <2> DEFINE episodes == Episodes(query, view.run)
             shown == Shown(lengths, episodeIdx) + 1
             steps == episodes[shown]
             size == BucketSize(Len(steps))
             details == [i \in DOMAIN steps |-> StepDetail(steps, i)]
  <2>2. /\ episodes \in Seq(Seq(Normal))
        /\ lengths = StepCounts(episodes)
        /\ lengths # <<>>
    <3>1. /\ episodes \in Seq(Seq(Normal))
          /\ \E e \in DOMAIN StepCounts(episodes) : StepCounts(episodes)[e] > 0
      BY <2>1, TraceGiven DEF PagesInv
    <3>2. lengths = StepCounts(episodes)
      BY <2>1 DEF PagesInv, Given
    <3>3. QED
      BY <3>1, <3>2
  <2> HIDE DEF episodes
  <2>3. steps \in Seq(Normal)
    <3>1. Len(lengths) = Len(episodes) /\ Len(lengths) \in Nat \ {0}
      <4>1. lengths \in Seq(Nat)
        BY <2>1, PlayerAssumption DEF PlayerTypeOK
      <4>2. DOMAIN lengths = 1 .. Len(lengths) /\ Len(lengths) \in Nat /\ Len(lengths) # 0
        BY <2>2, <4>1
      <4>3. Len(episodes) \in Nat /\ DOMAIN lengths = 1 .. Len(episodes)
        BY <2>2 DEF StepCounts
      <4>4. QED
        BY <4>2, <4>3
    <3>2. episodeIdx \in Nat
      BY <2>1, PlayerAssumption DEF PlayerTypeOK
    <3>3. shown \in 1 .. Len(episodes)
      BY <3>1, <3>2, PlayerAssumption DEF Shown, Offered, Lesser
    <3> HIDE DEF shown
    <3>4. QED
      BY <2>2, <3>3
  <2>4. Len(ExtractEvents(episodes)) =
          Total([e \in DOMAIN episodes |->
                   Total([s \in DOMAIN episodes[e] |-> Len(episodes[e][s].events)])])
    BY <2>2, EventsListed
  <2> HIDE DEF steps
  <2>5. DOMAIN steps = 1 .. Len(steps) /\ Len(steps) \in Nat /\ DOMAIN details = DOMAIN steps
    BY <2>3
  <2>6. steps # <<>> => details[Len(steps)].return =
          (IF EpisodeReturn(steps) = Absent THEN 0 ELSE EpisodeReturn(steps))
    <3>1. SUFFICES ASSUME steps # <<>>
                   PROVE  details[Len(steps)].return =
                            (IF EpisodeReturn(steps) = Absent THEN 0 ELSE EpisodeReturn(steps))
      OBVIOUS
    <3>2. Len(steps) \in DOMAIN steps
      BY <2>3, <2>5, <3>1
    <3>3. details[Len(steps)].return = CumulativeReturns(steps)[Len(steps)]
      BY <3>2 DEF StepDetail
    <3>4. QED
      BY <2>3, <3>1, <3>3, ReturnsAgree
  <2>7. EpisodeSucceeded(steps) <=> \E b \in Bars(Len(steps)) : BarTone(steps, b * size, size) = "success"
    BY <2>3, BarsShowSuccess
  <2>8. EpisodeSucceeded(steps) <=> \E i \in DOMAIN details : details[i].goals # <<>>
    <3>1. \A i \in DOMAIN steps : details[i].goals # <<>> <=> HasTone(steps[i], "success")
      BY <2>3, <2>5, GoalsShown
    <3> HIDE DEF details
    <3>2. QED
      BY <2>5, <3>1 DEF EpisodeSucceeded
  <2> HIDE DEF details, size
  <2>9. QED
    BY <2>4, <2>6, <2>7, <2>8, Zenon DEF ViewsAgree, details, size, steps, shown, episodes
<1>2. PlayerSpec => []PlayerTypeOK
  BY PlayerInvInit, PlayerInvStep, PTL DEF PlayerSpec, PlayerInv
<1>3. QED
  BY <1>1, <1>2, PagesPlay, PagesInvInit, PagesInvStep, PTL DEF PagesSpec
=============================================================================
