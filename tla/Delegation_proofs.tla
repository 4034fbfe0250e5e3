------------------------- MODULE Delegation_proofs --------------------------
(***************************************************************************)
(* Theorems about Delegation, for any repository, any plan and workflow,   *)
(* any caps, depth and width.                                              *)
(***************************************************************************)
EXTENDS Delegation, FiniteSetTheorems, WellFoundedInduction, TLAPS

-----------------------------------------------------------------------------
(* What the recursive functions of the plans return.  The library states   *)
(* induction with an operator for the predicate; here it is the set of the *)
(* numbers that have it.                                                   *)

LEMMA NatInd ==
  ASSUME NEW A, 0 \in A, \A k \in Nat : k \in A => k + 1 \in A
  PROVE  Nat \subseteq A
<1> SUFFICES ASSUME Nat \ A # {} PROVE FALSE
  OBVIOUS
<1> DEFINE R == OpToRel(<, Nat)
<1>1. IsWellFoundedOn(R, Nat)
  BY NatLessThanWellFounded
<1>2. PICK m \in Nat \ A : \A y \in Nat \ A : ~(<<y, m>> \in R)
  <2> HIDE DEF R
  <2>1. Nat \ A \in SUBSET Nat
    OBVIOUS
  <2> QED
    BY <1>1, <2>1, WFMin
<1>3. \A y \in Nat \ A : ~(y < m)
  BY <1>2 DEF OpToRel
<1> HIDE DEF R
<1>4. m \in Nat /\ m \notin A /\ m # 0 /\ m - 1 \in Nat
  OBVIOUS
<1>5. m - 1 \in A
  BY <1>3, <1>4
<1>6. (m - 1) + 1 \in A
  BY <1>4, <1>5
<1> QED
  BY <1>4, <1>6

LEMMA AppendRange ==
  ASSUME NEW T, NEW s \in Seq(T), NEW x
  PROVE  Range(Append(s, x)) = Range(s) \cup {x}
<1>1. /\ Len(s) \in Nat /\ DOMAIN s = 1..Len(s)
      /\ DOMAIN Append(s, x) = 1..(Len(s) + 1)
      /\ Append(s, x)[Len(s) + 1] = x
      /\ \A i \in 1..Len(s) : Append(s, x)[i] = s[i]
  OBVIOUS
<1>2. 1..(Len(s) + 1) = 1..Len(s) \cup {Len(s) + 1}
  BY <1>1
<1> HIDE DEF Range
<1>3. Range(s) = {s[i] : i \in 1..Len(s)}
  BY <1>1 DEF Range
<1>4. Range(Append(s, x)) = {Append(s, x)[i] : i \in 1..Len(s) \cup {Len(s) + 1}}
  BY <1>1, <1>2 DEF Range
<1> QED
  BY <1>1, <1>3, <1>4

\* Only keeps the elements that are in S, and no others.
LEMMA OnlyRange ==
  ASSUME NEW s, s \in Seq(Range(s)), NEW S
  PROVE  /\ Only(s, S) \in Seq(Range(s))
         /\ Range(Only(s, S)) = Range(s) \cap S
<1> DEFINE Body(f, n) == IF n = 0 THEN <<>>
                         ELSE IF s[n] \in S THEN Append(f[n - 1], s[n]) ELSE f[n - 1]
           A == {k \in Nat : \E f : f = [n \in 0..k |-> Body(f, n)]}
<1>1. Len(s) \in Nat /\ DOMAIN s = 1..Len(s) /\ \A n \in 1..Len(s) : s[n] \in Range(s)
  BY DEF Range
<1>2. Nat \subseteq A
  <2>1. 0 \in A
    <3> DEFINE f == [n \in 0..0 |-> <<>>]
    <3>1. f = [n \in 0..0 |-> Body(f, n)]
      OBVIOUS
    <3> HIDE DEF f, Body
    <3> QED
      BY <3>1
  <2>2. ASSUME NEW k \in Nat, k \in A PROVE k + 1 \in A
    <3>1. PICK f : f = [n \in 0..k |-> Body(f, n)]
      BY <2>2
    <3> DEFINE g == [n \in 0..(k + 1) |-> IF n = k + 1 THEN Body(f, n) ELSE f[n]]
    <3>2. ASSUME NEW n \in 0..(k + 1) PROVE g[n] = Body(g, n)
      <4>1. n = 0 \/ (n - 1 \in 0..k /\ g[n - 1] = f[n - 1])
        OBVIOUS
      <4>2. Body(g, n) = Body(f, n)
        BY <4>1
      <4>3. CASE n = k + 1
        BY <4>2, <4>3
      <4>4. CASE n # k + 1
        <5>1. n \in 0..k /\ g[n] = f[n]
          BY <4>4
        <5>2. f[n] = Body(f, n)
          BY <3>1, <5>1
        <5> HIDE DEF Body, g
        <5> QED
          BY <4>2, <5>1, <5>2
      <4> QED
        BY <4>3, <4>4
    <3>3. g = [n \in 0..(k + 1) |-> Body(g, n)]
      <4> HIDE DEF Body
      <4>1. g = [n \in 0..(k + 1) |-> g[n]]
        OBVIOUS
      <4> HIDE DEF g
      <4> QED
        BY <3>2, <4>1
    <3> HIDE DEF g, Body
    <3> QED
      BY <3>3
  <2> HIDE DEF A
  <2> QED
    BY <2>1, <2>2, NatInd
<1>3. PICK f : f = [n \in 0..Len(s) |-> Body(f, n)] /\ Only(s, S) = f[Len(s)]
  <2> DEFINE first == CHOOSE first : first = [n \in 0..Len(s) |-> Body(first, n)]
  <2>1. \E f : f = [n \in 0..Len(s) |-> Body(f, n)]
    BY <1>1, <1>2
  <2>2. first = [n \in 0..Len(s) |-> Body(first, n)]
    BY <2>1
  <2>3. Only(s, S) = first[Len(s)]
    BY DEF Only
  <2> QED
    BY <2>2, <2>3
<1> DEFINE B == {k \in Nat : k <= Len(s) =>
                   /\ f[k] \in Seq(Range(s))
                   /\ Range(f[k]) = {s[i] : i \in 1..k} \cap S}
<1>4. 0 \in B
  <2>1. f[0] = <<>>
    BY <1>1, <1>3
  <2> QED
    <3>1. Range(f[0]) = {} /\ 1..0 = {} /\ f[0] \in Seq(Range(s))
      BY <2>1 DEF Range
    <3> QED
      BY <3>1
<1>5. ASSUME NEW k \in Nat, k \in B PROVE k + 1 \in B
  <2> SUFFICES ASSUME k + 1 <= Len(s)
               PROVE  /\ f[k + 1] \in Seq(Range(s))
                      /\ Range(f[k + 1]) = {s[i] : i \in 1..(k + 1)} \cap S
    OBVIOUS
  <2>1. f[k] \in Seq(Range(s)) /\ Range(f[k]) = {s[i] : i \in 1..k} \cap S
    BY <1>1, <1>5
  <2>2. f[k + 1] = IF s[k + 1] \in S THEN Append(f[k], s[k + 1]) ELSE f[k]
    <3>1. k + 1 \in 0..Len(s) /\ k + 1 # 0 /\ (k + 1) - 1 = k
      BY <1>1
    <3>2. f[k + 1] = Body(f, k + 1)
      BY <1>3, <3>1
    <3> QED
      BY <3>1, <3>2
  <2>3. {s[i] : i \in 1..(k + 1)} = {s[i] : i \in 1..k} \cup {s[k + 1]}
    <3>1. 1..(k + 1) = 1..k \cup {k + 1}
      OBVIOUS
    <3> QED
      BY <3>1
  <2>4. s[k + 1] \in Range(s)
    BY <1>1
  <2>5. Range(Append(f[k], s[k + 1])) = Range(f[k]) \cup {s[k + 1]}
    BY <2>1, AppendRange
  <2> QED
    BY <2>1, <2>2, <2>3, <2>4, <2>5
<1>6. Len(s) \in B
  <2> HIDE DEF B
  <2> QED
    BY <1>1, <1>4, <1>5, NatInd
<1>7. {s[i] : i \in 1..Len(s)} = Range(s)
  BY <1>1 DEF Range
<1> QED
  BY <1>1, <1>3, <1>6, <1>7

\* A list: what it holds makes no difference.
List(s) == s \in Seq(Range(s))

LEMMA SeqIsList == ASSUME NEW T, NEW s \in Seq(T) PROVE List(s) /\ Range(s) \subseteq T
<1>1. Len(s) \in Nat /\ s \in [1..Len(s) -> T] /\ DOMAIN s = 1..Len(s)
  OBVIOUS
<1>2. \A i \in 1..Len(s) : s[i] \in Range(s) /\ s[i] \in T
  BY <1>1 DEF Range
<1>3. Range(s) \subseteq T
  BY <1>1 DEF Range
<1>4. s \in [1..Len(s) -> Range(s)]
  <2> HIDE DEF Range
  <2> QED
    BY <1>1, <1>2
<1> QED
  BY <1>1, <1>3, <1>4 DEF List

LEMMA OnlyList ==
  ASSUME NEW s, List(s), NEW S
  PROVE  /\ List(Only(s, S)) /\ Range(Only(s, S)) = Range(s) \cap S
         /\ List(Without(s, S)) /\ Range(Without(s, S)) = Range(s) \ S
<1>1. Only(s, S) \in Seq(Range(s)) /\ Range(Only(s, S)) = Range(s) \cap S
  BY OnlyRange DEF List
<1>2. Without(s, S) \in Seq(Range(s)) /\ Range(Without(s, S)) = Range(s) \cap (Range(s) \ S)
  BY OnlyRange DEF List, Without
<1> QED
  BY <1>1, <1>2, SeqIsList

LEMMA JoinList ==
  ASSUME NEW s, NEW t, List(s), List(t)
  PROVE  List(s \o t) /\ Range(s \o t) = Range(s) \cup Range(t)
<1> DEFINE T == Range(s) \cup Range(t)
<1>1. s \in Seq(T) /\ t \in Seq(T)
  BY DEF List
<1>2. /\ Len(s) \in Nat /\ Len(t) \in Nat /\ DOMAIN s = 1..Len(s) /\ DOMAIN t = 1..Len(t)
      /\ s \o t \in Seq(T) /\ DOMAIN (s \o t) = 1..(Len(s) + Len(t))
      /\ \A i \in 1..Len(s) : (s \o t)[i] = s[i]
      /\ \A i \in 1..Len(t) : (s \o t)[Len(s) + i] = t[i]
  <2> HIDE DEF T
  <2> QED
    BY <1>1
<1>3. List(s \o t) /\ Range(s \o t) \subseteq T
  BY <1>2, SeqIsList
<1>4. Range(s) \subseteq Range(s \o t)
  BY <1>2 DEF Range
<1>5. Range(t) \subseteq Range(s \o t)
  <2> SUFFICES ASSUME NEW i \in 1..Len(t) PROVE t[i] \in Range(s \o t)
    BY <1>2 DEF Range
  <2>1. Len(s) + i \in DOMAIN (s \o t) /\ (s \o t)[Len(s) + i] = t[i]
    BY <1>2
  <2> QED
    BY <2>1 DEF Range
<1> QED
  BY <1>3, <1>4, <1>5

LEMMA LesserOf ==
  ASSUME NEW a \in Nat, NEW b \in Nat
  PROVE  Min({a, b}) = IF a <= b THEN a ELSE b
<1> DEFINE c == IF a <= b THEN a ELSE b
<1>1. c \in {a, b} /\ \A y \in {a, b} : c <= y
  OBVIOUS
<1>2. \A x \in {a, b} : (\A y \in {a, b} : x <= y) => x = c
  OBVIOUS
<1> HIDE DEF c
<1>3. Min({a, b}) = c
  BY <1>1, <1>2 DEF Min
<1> QED
  BY <1>3 DEF c

LEMMA SubSeqFacts ==
  ASSUME NEW T, NEW s \in Seq(T), NEW m \in 0..Len(s)
  PROVE  /\ SubSeq(s, 1, m) \in Seq(T) /\ DOMAIN SubSeq(s, 1, m) = 1..m
         /\ \A i \in 1..m : SubSeq(s, 1, m)[i] = s[i]
OBVIOUS

\* What is kept and what is over make up the list.
LEMMA CutList ==
  ASSUME NEW s, List(s), NEW cap \in Nat
  PROVE  /\ List(Kept(s, cap)) /\ List(Over(s, cap))
         /\ Range(Kept(s, cap)) \cup Range(Over(s, cap)) = Range(s)
         /\ s # <<>> /\ cap # 0 => Kept(s, cap) # <<>>
<1>1. PICK n \in Nat : n = Len(s) /\ s \in Seq(Range(s)) /\ DOMAIN s = 1..n
  BY DEF List
<1>2. PICK m \in 0..n : m = Min({cap, n}) /\ m <= cap /\ (m < cap => m = n)
  <2>1. PICK m : m = Min({cap, n})
    OBVIOUS
  <2>2. m = IF cap <= n THEN cap ELSE n
    BY <2>1, LesserOf
  <2>3. m \in 0..n /\ m <= cap /\ (m < cap => m = n)
    BY <2>2
  <2> QED
    BY <2>1, <2>3
<1>3. Kept(s, cap) = SubSeq(s, 1, m) /\ Over(s, cap) = SubSeq(s, cap + 1, n)
  BY <1>1, <1>2 DEF Kept, Over
<1>4. /\ SubSeq(s, 1, m) \in Seq(Range(s)) /\ DOMAIN SubSeq(s, 1, m) = 1..m
      /\ \A i \in 1..m : SubSeq(s, 1, m)[i] = s[i]
  BY <1>1, SubSeqFacts
<1>5. /\ SubSeq(s, cap + 1, n) \in Seq(Range(s))
      /\ \A i \in (cap + 1)..n : /\ i - cap \in DOMAIN SubSeq(s, cap + 1, n)
                                 /\ SubSeq(s, cap + 1, n)[i - cap] = s[i]
  BY <1>1
<1>6. /\ List(Kept(s, cap)) /\ Range(Kept(s, cap)) \subseteq Range(s)
      /\ List(Over(s, cap)) /\ Range(Over(s, cap)) \subseteq Range(s)
  BY <1>3, <1>4, <1>5, SeqIsList
<1>7. ASSUME NEW i \in 1..n PROVE s[i] \in Range(Kept(s, cap)) \cup Range(Over(s, cap))
  <2>1. CASE i <= m
    <3>1. i \in DOMAIN SubSeq(s, 1, m) /\ SubSeq(s, 1, m)[i] = s[i]
      BY <1>4, <2>1
    <3> QED
      BY <1>3, <3>1 DEF Range
  <2>2. CASE ~(i <= m)
    <3>1. i \in (cap + 1)..n
      BY <1>2, <2>2
    <3>2. i - cap \in DOMAIN SubSeq(s, cap + 1, n) /\ SubSeq(s, cap + 1, n)[i - cap] = s[i]
      BY <1>5, <3>1
    <3> QED
      BY <1>3, <3>2 DEF Range
  <2> QED
    BY <2>1, <2>2
<1>8. Range(s) \subseteq Range(Kept(s, cap)) \cup Range(Over(s, cap))
  BY <1>1, <1>7 DEF Range
<1>9. ASSUME s # <<>>, cap # 0 PROVE Kept(s, cap) # <<>>
  <2>1. n # 0
    BY <1>1, <1>9
  <2>2. m # 0 /\ 1 \in 1..m
    BY <1>2, <1>9, <2>1
  <2>3. 1 \in DOMAIN Kept(s, cap)
    BY <1>3, <1>4, <2>2
  <2> QED
    BY <2>3
<1> QED
  BY <1>6, <1>8, <1>9

LEMMA TailList ==
  ASSUME NEW s, List(s), s # <<>>
  PROVE  List(Tail(s)) /\ Range(s) = {Head(s)} \cup Range(Tail(s))
<1>1. /\ s \in Seq(Range(s)) /\ Len(s) \in Nat \ {0} /\ DOMAIN s = 1..Len(s)
      /\ Tail(s) \in Seq(Range(s)) /\ DOMAIN Tail(s) = 1..(Len(s) - 1)
      /\ \A i \in 1..(Len(s) - 1) : Tail(s)[i] = s[i + 1]
      /\ Head(s) = s[1]
  BY DEF List
<1>2. List(Tail(s)) /\ Range(Tail(s)) \subseteq Range(s)
  BY <1>1, SeqIsList
<1>3. ASSUME NEW i \in 1..Len(s) PROVE s[i] \in {Head(s)} \cup Range(Tail(s))
  <2>1. CASE i = 1
    BY <1>1, <2>1
  <2>2. CASE i # 1
    <3>1. i - 1 \in 1..(Len(s) - 1) /\ Tail(s)[i - 1] = s[i]
      BY <1>1, <2>2
    <3> QED
      BY <1>1, <3>1 DEF Range
  <2> QED
    BY <2>1, <2>2
<1>4. Head(s) \in Range(s)
  BY <1>1 DEF Range
<1>5. Range(s) \subseteq {Head(s)} \cup Range(Tail(s))
  BY <1>1, <1>3 DEF Range
<1> QED
  BY <1>2, <1>4, <1>5

\* A finite set of numbers has a largest one.
LEMMA Largest ==
  ASSUME NEW S, IsFiniteSet(S), S \subseteq Nat, S # {}
  PROVE  Max(S) \in S /\ \A x \in S : x <= Max(S)
<1> DEFINE HasMax(T) == \E m \in T : \A x \in T : x <= m
           A == {k \in Nat : \A T \in SUBSET S : Cardinality(T) = k /\ T # {} => HasMax(T)}
<1>1. \A T \in SUBSET S : IsFiniteSet(T) /\ Cardinality(T) \in Nat
  BY FS_Subset, FS_CardinalityType
<1>2. 0 \in A
  BY <1>1, FS_EmptySet
<1>3. ASSUME NEW k \in Nat, k \in A PROVE k + 1 \in A
  <2> SUFFICES ASSUME NEW T \in SUBSET S, Cardinality(T) = k + 1, T # {} PROVE HasMax(T)
    OBVIOUS
  <2>1. PICK x \in T : TRUE
    OBVIOUS
  <2> DEFINE U == T \ {x}
  <2>2. Cardinality(U) = k /\ U \in SUBSET S
    <3>1. Cardinality(U) = Cardinality(T) - 1
      BY <1>1, <2>1, FS_RemoveElement
    <3> QED
      BY <3>1
  <2>3. CASE U = {}
    <3>1. T = {x} /\ x \in Nat
      BY <2>1, <2>3
    <3> QED
      BY <3>1
  <2>4. CASE U # {}
    <3>1. HasMax(U)
      BY <1>3, <2>2, <2>4
    <3>2. PICK m \in U : \A y \in U : y <= m
      BY <3>1
    <3>3. m \in T /\ x \in T /\ m \in Nat /\ x \in Nat /\ \A y \in T : y = x \/ y <= m
      BY <2>1, <3>2
    <3>4. T \subseteq Nat
      OBVIOUS
    <3>5. CASE x <= m
      BY <3>3, <3>5
    <3>6. CASE m <= x
      <4>1. \A y \in T : y <= x
        BY <3>3, <3>4, <3>6
      <4> QED
        BY <3>3, <4>1
    <3> QED
      BY <3>3, <3>5, <3>6
  <2> QED
    BY <2>3, <2>4
<1>4. Cardinality(S) \in A
  <2> HIDE DEF A
  <2> QED
    BY <1>1, <1>2, <1>3, NatInd
<1>5. HasMax(S)
  BY <1>4
<1> QED
  BY <1>5 DEF Max

\* A review's units: every folder is covered, and every area of the plan, a
\* root file by itself or in the bucket.
LEMMA ReviewCovers ==
  ASSUME NEW plan \in Plans
  PROVE  /\ List(ReviewUnits(plan))
         /\ \A dir \in Range(Dirs) : \E u \in Range(ReviewUnits(plan)) \ {Bucket} : Top[u] = dir
         /\ \A u \in Range(plan) \ {Vague} :
              \/ u \in Range(ReviewUnits(plan))
              \/ u \in Range(Listed(plan)) /\ Bucket \in Range(ReviewUnits(plan))
         /\ Range(plan) \subseteq {Vague} =>
              \A f \in Range(RootFiles) :
                \/ f \in Range(Listed(plan)) /\ Bucket \in Range(ReviewUnits(plan))
                \/ f \in Range(Over(RootFiles, MaxListed))
<1>1. /\ List(plan) /\ List(Dirs) /\ List(RootFiles)
      /\ \A dir \in Range(Dirs) : dir # Bucket /\ Top[dir] = dir
  BY DelegationAssumption DEF List
<1> DEFINE units == Without(plan, {Vague})
<1>2. List(units) /\ Range(units) = Range(plan) \ {Vague}
  BY <1>1, OnlyList
<1>3. List(<<>>) /\ Range(<<>>) = {} /\ List(<<Bucket>>) /\ Range(<<Bucket>>) = {Bucket}
  BY DEF List, Range
<1>4. CASE units = <<>>
  <2>1. ReviewUnits(plan) = AutoSplit
    BY <1>4 DEF ReviewUnits
  <2>2. List(AutoSplit) /\ Range(Dirs) \subseteq Range(AutoSplit)
    BY <1>1, <1>3, JoinList DEF AutoSplit
  <2>3. Range(plan) \ {Vague} = {}
    BY <1>2, <1>3, <1>4
  <2>4. Range(Listed(plan)) \cup Range(Over(RootFiles, MaxListed)) = Range(RootFiles)
    BY <1>1, <1>4, CutList, DelegationAssumption DEF Listed
  <2>5. ASSUME NEW f \in Range(RootFiles) PROVE Bucket \in Range(AutoSplit)
    <3>1. RootFiles # <<>>
      BY <1>3, <2>5
    <3>2. AutoSplit = <<Bucket>> \o Dirs
      BY <3>1 DEF AutoSplit
    <3> QED
      BY <1>1, <1>3, <3>2, JoinList
  <2> QED
    BY <1>1, <2>1, <2>2, <2>3, <2>4, <2>5
<1>5. CASE units # <<>>
  <2> DEFINE files   == Only(units, Range(RootFiles))
             parts   == Without(units, Range(RootFiles))
             rest    == IF Len(files) > 1 THEN Append(parts, Bucket) ELSE parts \o files
             covered == {Top[u] : u \in Range(rest) \ {Bucket}}
             all     == rest \o Without(Dirs, covered)
             last    == Without(all, {Bucket}) \o Only(all, {Bucket})
  <2>1. ReviewUnits(plan) = last
    BY <1>5 DEF ReviewUnits, BalancePlan
  <2>2. /\ List(files) /\ Range(files) = Range(units) \cap Range(RootFiles)
        /\ List(parts) /\ Range(parts) = Range(units) \ Range(RootFiles)
    BY <1>2, OnlyList
  <2> HIDE DEF units, files, parts
  <2>3. /\ List(rest) /\ Range(parts) \subseteq Range(rest)
        /\ Bucket \in Range(rest) \/ Range(files) \subseteq Range(rest)
    <3>1. List(Append(parts, Bucket)) /\ Range(Append(parts, Bucket)) = Range(parts) \cup {Bucket}
      <4>1. parts \in Seq(Range(parts) \cup {Bucket})
        BY <2>2 DEF List
      <4>2. Append(parts, Bucket) \in Seq(Range(parts) \cup {Bucket})
        BY <4>1
      <4> QED
        BY <4>1, <4>2, SeqIsList, AppendRange
    <3>2. List(parts \o files) /\ Range(parts \o files) = Range(parts) \cup Range(files)
      BY <2>2, JoinList
    <3> QED
      BY <3>1, <3>2
  <2> HIDE DEF rest
  <2>4. List(all) /\ Range(all) = Range(rest) \cup (Range(Dirs) \ covered)
    <3>1. List(Without(Dirs, covered)) /\ Range(Without(Dirs, covered)) = Range(Dirs) \ covered
      <4> HIDE DEF covered
      <4> QED
        BY <1>1, OnlyList
    <3> HIDE DEF covered
    <3> QED
      BY <2>3, <3>1, JoinList
  <2>5. List(last) /\ Range(last) = Range(all)
    <3>1. /\ List(Without(all, {Bucket})) /\ Range(Without(all, {Bucket})) = Range(all) \ {Bucket}
          /\ List(Only(all, {Bucket})) /\ Range(Only(all, {Bucket})) = Range(all) \cap {Bucket}
      <4> HIDE DEF all
      <4> QED
        BY <2>4, OnlyList
    <3> HIDE DEF all
    <3> QED
      BY <3>1, JoinList
  <2> HIDE DEF last, all
  <2>6. ASSUME NEW dir \in Range(Dirs) PROVE \E u \in Range(last) \ {Bucket} : Top[u] = dir
    <3>1. CASE dir \in covered
      BY <2>4, <2>5, <3>1
    <3>2. CASE dir \notin covered
      <4>1. dir \in Range(last) \ {Bucket} /\ Top[dir] = dir
        <5> HIDE DEF covered
        <5> QED
          BY <1>1, <2>4, <2>5, <3>2
      <4> QED
        BY <4>1
    <3> QED
      BY <3>1, <3>2
  <2> HIDE DEF covered
  <2>7. ASSUME NEW u \in Range(plan) \ {Vague}
        PROVE  u \in Range(last) \/ (u \in Range(files) /\ Bucket \in Range(last))
    BY <1>2, <2>2, <2>3, <2>4, <2>5
  <2>8. Listed(plan) = files
    BY <1>5 DEF Listed, units, files
  <2>9. Range(plan) \ {Vague} # {}
    <3>1. units \in Seq(Range(units))
      BY <1>2 DEF List, units
    <3>2. 1 \in DOMAIN units
      BY <1>5, <3>1
    <3>3. units[1] \in Range(units)
      BY <3>2 DEF Range
    <3> QED
      BY <1>2, <3>3 DEF units
  <2> QED
    BY <2>1, <2>5, <2>6, <2>7, <2>8, <2>9
<1> QED
  BY <1>4, <1>5

LEMMA PhaseLists ==
  ASSUME NEW spec \in Workflows
  PROVE  List(PlanPhases(spec)) /\ \A phase \in Range(PlanPhases(spec)) : List(phase.jobs)
<1>1. /\ List(spec)
      /\ \A phase \in Range(spec) : /\ phase = [label |-> phase.label, jobs |-> phase.jobs]
                                    /\ List(phase.jobs)
  BY DelegationAssumption DEF List
<1> DEFINE usable == [n \in DOMAIN spec |-> [spec[n] EXCEPT !.jobs = Without(@, {Vague})]]
<1>2. List(usable) /\ Range(usable) = {usable[n] : n \in DOMAIN spec}
  <2>1. PICK len \in Nat : DOMAIN spec = 1..len
    BY <1>1 DEF List
  <2>2. Range(usable) = {usable[n] : n \in DOMAIN spec}
    BY DEF Range
  <2>3. usable \in [1..len -> Range(usable)]
    BY <2>1, <2>2
  <2> HIDE DEF usable
  <2>4. usable \in Seq(Range(usable))
    BY <2>3
  <2> QED
    BY <2>2, <2>4 DEF List
<1>3. ASSUME NEW n \in DOMAIN spec PROVE List(usable[n].jobs)
  <2>1. spec[n] \in Range(spec)
    BY DEF Range
  <2>2. usable[n].jobs = Without(spec[n].jobs, {Vague})
    BY <1>1, <2>1
  <2> HIDE DEF usable
  <2> QED
    BY <1>1, <2>1, <2>2, OnlyList
<1> DEFINE S == {phase \in Range(usable) : phase.jobs # <<>>}
<1>4. PlanPhases(spec) = Only(usable, S)
  BY DEF PlanPhases
<1> HIDE DEF usable, S
<1>5. List(PlanPhases(spec)) /\ Range(PlanPhases(spec)) \subseteq Range(usable)
  BY <1>2, <1>4, OnlyList
<1> QED
  BY <1>2, <1>3, <1>5

-----------------------------------------------------------------------------
(* The agents at work.                                                     *)

\* A prefix of an agent's path is one that waits for it.
Waits(a, b) == Len(a) < Len(b) /\ SubSeq(b, 1, Len(a)) = a

\* Of two agents at work that may edit the workspace, one waits for the other.
TakeTurns ==
  LET writers == {a \in DOMAIN agents : agents[a].run = "running" /\ agents[a].perms = "work"}
  IN  \A a, b \in writers : a = b \/ Waits(a, b) \/ Waits(b, a)

AgentShape(r) ==
  /\ r = [perms |-> r.perms, task |-> r.task, run |-> r.run, spawns |-> r.spawns,
          left |-> r.left, abandoned |-> r.abandoned]
  /\ r.run \in {"idle", "queued", "running"} /\ r.abandoned \in BOOLEAN

CallShape ==
  \/ call = NoCall
  \/ /\ call = [kind |-> call.kind, asked |-> call.asked, tasks |-> call.tasks, over |-> call.over,
                names |-> call.names, results |-> call.results, todo |-> call.todo,
                dropped |-> call.dropped, sections |-> call.sections, closing |-> call.closing]
     /\ call.kind \in {"review", "workflow", "skill"} /\ call.closing \in BOOLEAN
     /\ List(call.tasks) /\ List(call.todo) /\ \A phase \in Range(call.todo) : List(phase.jobs)
     /\ DOMAIN call.names = 1..Len(call.tasks) /\ DOMAIN call.results = 1..Len(call.tasks)
     /\ call.results = [i \in DOMAIN call.results |-> call.results[i]]
     /\ \A i \in DOMAIN call.names : call.names[i] \in Seq(Nat) /\ Len(call.names[i]) = 1
     /\ \A i, j \in DOMAIN call.names : call.names[i] = call.names[j] => i = j

Shape ==
  /\ config \in Configs
  /\ IsFiniteSet(DOMAIN agents) /\ DOMAIN agents \subseteq Seq(Nat) /\ Lead \in DOMAIN agents
  /\ agents = [a \in DOMAIN agents |-> agents[a]]
  /\ \A a \in DOMAIN agents : AgentShape(agents[a])
  /\ CallShape

\* Those under the lead that an interrupt has not cut off from it.
Ours == {a \in DOMAIN agents : a # Lead /\ ~agents[a].abandoned}
Firsts == {a \in Ours : Len(a) = 1}

Root(a) == <<a[1]>>

\* An agent below a child goes with that child, which runs and waits for it.
Rooted ==
  \A a \in DOMAIN agents : Len(a) > 1 =>
    /\ Root(a) \in DOMAIN agents /\ agents[Root(a)].run = "running"
    /\ agents[a].run = "running" /\ agents[Root(a)].abandoned = agents[a].abandoned

\* Under one child, of any two one waits for the other.
Chains == \A a, b \in Ours : a[1] = b[1] => a = b \/ Waits(a, b) \/ Waits(b, a)

\* Outside an orchestration the lead has at most one child, which runs; in
\* one its children are those of the call whose slots are open.
Crew ==
  IF call = NoCall THEN /\ \A a, b \in Firsts : a = b
                       /\ \A a \in Firsts : agents[a].run = "running"
  ELSE /\ Firsts \subseteq Range(call.names)
       /\ \A i \in DOMAIN call.names : call.names[i] \in DOMAIN agents => call.results[i] = Pending

\* Side by side they only read; what an interrupt left running only reads.
Readers ==
  /\ \A a \in DOMAIN agents : agents[a].abandoned => a # Lead /\ agents[a].perms # "work"
  /\ call # NoCall =>
       IF Parallel(call.tasks) THEN \A a \in Ours : agents[a].perms # "work"
       ELSE ~call.closing /\ \A a, b \in {c \in Firsts : agents[c].run = "running"} : a = b

CrewInv == Shape /\ Rooted /\ Chains /\ Crew /\ Readers

LEMMA FiniteRange == ASSUME NEW f, IsFiniteSet(DOMAIN f) PROVE IsFiniteSet(Range(f))
<1> DEFINE g == [x \in DOMAIN f |-> f[x]]
<1>1. g \in Surjection(DOMAIN f, Range(f))
  BY DEF Surjection, Range
<1> QED
  BY <1>1, FS_Surjection

\* New names are of nobody, and begin like no one else's.
LEMMA FreshNames ==
  ASSUME Shape, Rooted, NEW a \in DOMAIN agents, NEW n \in Nat
  PROVE  \E m \in Nat :
           /\ NewNames(a, n) = [i \in 1..n |-> Append(a, m + i)]
           /\ \A i \in 1..n : /\ Append(a, m + i) \in Seq(Nat) \ DOMAIN agents
                             /\ Len(Append(a, m + i)) = Len(a) + 1
           /\ a = Lead => \A b \in DOMAIN agents : b # Lead => b[1] <= m
<1> DEFINE mine  == {c \in Under(a) : Len(c) = Len(a) + 1}
           taken == {b[Len(b)] : b \in mine}
<1>1. a \in Seq(Nat) /\ Len(a) \in Nat /\ \A b \in DOMAIN agents : b \in Seq(Nat) /\ Len(b) \in Nat
  BY DEF Shape
<1>2. mine \subseteq DOMAIN agents
  BY DEF Under
<1>3. \A b \in mine : b[Len(b)] \in Nat
  BY <1>1, <1>2
<1>4. IsFiniteSet({0} \cup taken)
  <2> DEFINE f == [b \in mine |-> b[Len(b)]]
  <2>1. IsFiniteSet(mine)
    BY <1>2, FS_Subset DEF Shape
  <2>2. taken = Range(f) /\ DOMAIN f = mine
    BY DEF Range
  <2>3. IsFiniteSet(taken)
    BY <2>1, <2>2, FiniteRange
  <2>4. IsFiniteSet({0})
    BY FS_Singleton
  <2> QED
    BY <2>3, <2>4, FS_Union
<1>5. {0} \cup taken \subseteq Nat /\ {0} \cup taken # {}
  BY <1>3
<1>6. PICK m \in Nat : m = Max({0} \cup taken) /\ \A k \in taken : k <= m
  <2> HIDE DEF taken
  <2>1. /\ Max({0} \cup taken) \in {0} \cup taken
        /\ \A k \in {0} \cup taken : k <= Max({0} \cup taken)
    BY <1>4, <1>5, Largest
  <2> QED
    BY <1>5, <2>1
<1>7. NewNames(a, n) = [i \in 1..n |-> Append(a, m + i)]
  BY <1>6 DEF NewNames
<1>8. ASSUME NEW i \in 1..n
      PROVE  Append(a, m + i) \in Seq(Nat) \ DOMAIN agents /\ Len(Append(a, m + i)) = Len(a) + 1
  <2> DEFINE b == Append(a, m + i)
  <2>1. /\ b \in Seq(Nat) /\ Len(b) = Len(a) + 1 /\ b[Len(a) + 1] = m + i
        /\ SubSeq(b, 1, Len(a)) = a
    BY <1>1
  <2>2. ASSUME b \in DOMAIN agents PROVE FALSE
    <3>1. b \in mine
      <4> HIDE DEF b
      <4> QED
        BY <1>1, <2>1, <2>2 DEF Under
    <3>2. m + i \in taken
      <4> HIDE DEF b, mine
      <4> QED
        BY <2>1, <3>1
    <3> HIDE DEF taken
    <3>3. m + i <= m
      BY <1>6, <3>2
    <3> QED
      BY <3>3
  <2> QED
    BY <2>1, <2>2
<1>9. ASSUME a = Lead, NEW b \in DOMAIN agents, b # Lead PROVE b[1] <= m
  <2>1. b \in Seq(Nat) /\ Len(b) \in Nat \ {0} /\ Len(a) = 0
    BY <1>1, <1>9 DEF Lead
  <2>2. PICK c \in DOMAIN agents : Len(c) = 1 /\ c[1] = b[1]
    <3>1. CASE Len(b) = 1
      BY <3>1
    <3>2. CASE Len(b) > 1
      <4>1. Root(b) \in DOMAIN agents /\ Len(Root(b)) = 1 /\ Root(b)[1] = b[1]
        BY <3>2 DEF Rooted, Root
      <4> QED
        BY <4>1
    <3>3. Len(b) = 1 \/ Len(b) > 1
      <4>1. \A k \in Nat \ {0} : k = 1 \/ k > 1
        OBVIOUS
      <4> QED
        BY <2>1, <4>1
    <3> QED
      BY <3>1, <3>2, <3>3
  <2>3. c \in mine
    <3>1. SubSeq(c, 1, Len(a)) = a /\ Len(c) = Len(a) + 1 /\ Len(c) > Len(a)
      BY <1>1, <1>9, <2>1, <2>2 DEF Lead
    <3> QED
      BY <3>1 DEF Under
  <2>4. b[1] \in taken
    <3> HIDE DEF mine
    <3> QED
      BY <2>2, <2>3
  <2> QED
    BY <1>6, <2>4
<1> QED
  BY <1>7, <1>8, <1>9

LEMMA ChildFields ==
  ASSUME NEW a, NEW read_only \in BOOLEAN, NEW task, NEW run
  PROVE  LET r == Child(a, read_only, task, run)
         IN  /\ r = [perms |-> r.perms, task |-> r.task, run |-> r.run, spawns |-> r.spawns,
                     left |-> r.left, abandoned |-> r.abandoned]
             /\ r.run = run /\ r.abandoned = agents[a].abandoned
             /\ read_only \/ agents[a].perms # "work" => r.perms # "work"
BY DEF Child, ChildPermissions

LEMMA NamedCall == ASSUME CallShape, call # NoCall PROVE call.kind \in {"review", "workflow", "skill"}
BY DEF CallShape

\* A fan-out begins with nobody at work under the lead but those cut off.
LEMMA FanOutStep ==
  ASSUME CrewInv, Ours = {}, UNCHANGED config,
         NEW kind \in {"review", "workflow", "skill"}, NEW asked, NEW tasks, NEW over, NEW todo,
         NEW dropped, NEW sections,
         List(tasks), List(todo), \A phase \in Range(todo) : List(phase.jobs),
         FanOut(kind, asked, tasks, over, todo, dropped, sections)
  PROVE  CrewInv' /\ call' # NoCall
<1>1. Shape /\ Rooted /\ Readers /\ Lead \in DOMAIN agents
  BY DEF CrewInv, Shape
<1>2. PICK n \in Nat : n = Len(tasks)
  BY DEF List
<1>3. PICK m \in Nat :
        /\ NewNames(Lead, n) = [i \in 1..n |-> Append(Lead, m + i)]
        /\ \A i \in 1..n : /\ Append(Lead, m + i) \in Seq(Nat) \ DOMAIN agents
                          /\ Len(Append(Lead, m + i)) = Len(Lead) + 1
        /\ \A b \in DOMAIN agents : b # Lead => b[1] <= m
  BY <1>1, FreshNames
<1> DEFINE names == [i \in 1..n |-> <<m + i>>]
           child(b) == Child(Lead, Parallel(tasks), tasks[SlotOf(names, b)], "queued")
<1>4. NewNames(Lead, n) = names
  BY <1>3 DEF Lead
<1>5. \A i \in 1..n : names[i] \in Seq(Nat) \ DOMAIN agents /\ Len(names[i]) = 1 /\ names[i][1] = m + i
  BY <1>3 DEF Lead
<1>6. /\ DOMAIN names = 1..n /\ Range(names) = {names[i] : i \in 1..n}
      /\ \A i, j \in 1..n : names[i] = names[j] => i = j
  BY DEF Range
<1>7. call' = [kind |-> kind, asked |-> asked, tasks |-> tasks, over |-> over,
               names |-> names, results |-> [i \in DOMAIN tasks |-> Pending],
               todo |-> todo, dropped |-> dropped, sections |-> sections, closing |-> FALSE]
  BY <1>2, <1>4 DEF FanOut
<1>8. agents' = [b \in DOMAIN agents \cup Range(names) |->
                   IF b \in DOMAIN agents THEN agents[b] ELSE child(b)]
  BY <1>2, <1>4 DEF FanOut
<1>9. /\ call'.kind = kind /\ call'.tasks = tasks /\ call'.names = names /\ call'.todo = todo
      /\ call'.results = [i \in 1..n |-> Pending] /\ call'.closing = FALSE
  <2>1. DOMAIN tasks = 1..n
    BY <1>2 DEF List
  <2> HIDE DEF names
  <2> QED
    BY <1>7, <2>1
<1>10. ASSUME NEW b
       PROVE  /\ AgentShape(child(b)) /\ child(b).run = "queued"
              /\ ~child(b).abandoned /\ (Parallel(tasks) => child(b).perms # "work")
  <2>1. agents[Lead].abandoned = FALSE
    BY <1>1 DEF Readers, Shape, AgentShape
  <2>2. PICK p, task :
          /\ child(b) = [perms |-> p, task |-> task, run |-> "queued", spawns |-> 0,
                         left |-> SubagentMaxSteps, abandoned |-> agents[Lead].abandoned]
          /\ Parallel(tasks) => p = "plan"
    BY DEF Child, ChildPermissions
  <2> HIDE DEF names, child
  <2>3. child(b).run = "queued" /\ child(b).abandoned = agents[Lead].abandoned /\ child(b).perms = p
    BY <2>2
  <2>4. child(b) = [perms |-> child(b).perms, task |-> child(b).task, run |-> child(b).run,
                    spawns |-> child(b).spawns, left |-> child(b).left, abandoned |-> child(b).abandoned]
    BY <2>2
  <2>5. AgentShape(child(b))
    BY <2>1, <2>3, <2>4 DEF AgentShape
  <2> QED
    BY <2>1, <2>2, <2>3, <2>5
<1> HIDE DEF names, child
<1>11. /\ \A b \in DOMAIN agents : b \in DOMAIN agents' /\ agents'[b] = agents[b]
       /\ \A b \in Range(names) : b \notin DOMAIN agents /\ agents'[b] = child(b)
       /\ DOMAIN agents' = DOMAIN agents \cup Range(names)
  BY <1>5, <1>6, <1>8
<1>12. Ours' = Range(names) /\ Firsts' = Range(names)
  <2>1. \A b \in DOMAIN agents : b = Lead \/ agents[b].abandoned
    BY DEF Ours
  <2>2. Lead \notin Range(names)
    BY <1>1, <1>11
  <2>3. Ours' = Range(names)
    BY <1>10, <1>11, <2>1, <2>2 DEF Ours
  <2>4. \A b \in Range(names) : Len(b) = 1
    BY <1>5, <1>6
  <2> QED
    BY <2>3, <2>4 DEF Firsts
<1>13. Shape'
  <2>1. IsFiniteSet(DOMAIN agents')
    <3>1. IsFiniteSet(Range(names))
      <4>1. IsFiniteSet(1..n)
        BY FS_Interval
      <4> QED
        BY <1>6, <4>1, FiniteRange
    <3> QED
      BY <1>1, <1>11, <3>1, FS_Union DEF Shape
  <2>2. DOMAIN agents' \subseteq Seq(Nat) /\ Lead \in DOMAIN agents'
    BY <1>1, <1>5, <1>6, <1>11 DEF Shape
  <2>3. agents' = [a \in DOMAIN agents' |-> agents'[a]]
    BY <1>8
  <2>4. \A a \in DOMAIN agents' : AgentShape(agents'[a])
    BY <1>1, <1>10, <1>11 DEF Shape
  <2>5. CallShape'
    BY <1>2, <1>5, <1>6, <1>7, <1>9 DEF CallShape
  <2> QED
    BY <1>1, <2>1, <2>2, <2>3, <2>4, <2>5 DEF Shape
<1>14. Rooted'
  <2> SUFFICES ASSUME NEW a \in DOMAIN agents', Len(a) > 1
               PROVE  /\ Root(a) \in DOMAIN agents' /\ agents'[Root(a)].run = "running"
                      /\ agents'[a].run = "running" /\ agents'[Root(a)].abandoned = agents'[a].abandoned
    BY DEF Rooted, Root
  <2>1. a \in DOMAIN agents
    <3>1. \A b \in Range(names) : Len(b) = 1
      BY <1>5, <1>6
    <3> QED
      BY <1>11, <3>1
  <2> QED
    BY <1>1, <1>11, <2>1 DEF Rooted
<1>15. Chains'
  BY <1>5, <1>6, <1>12 DEF Chains
<1>16. call' # NoCall
  BY <1>9 DEF NoCall
<1>17. Crew'
  BY <1>6, <1>9, <1>12, <1>16 DEF Crew
<1>18. Readers'
  <2>1. \A a \in DOMAIN agents' : agents'[a].abandoned => a # Lead /\ agents'[a].perms # "work"
    BY <1>1, <1>10, <1>11 DEF Readers
  <2>2. Parallel(call.tasks)' => \A a \in Ours' : agents'[a].perms # "work"
    BY <1>9, <1>10, <1>11, <1>12 DEF Parallel
  <2>3. ~call'.closing /\ {c \in Firsts' : agents'[c].run = "running"} = {}
    BY <1>9, <1>10, <1>11, <1>12
  <2> QED
    BY <2>1, <2>2, <2>3 DEF Readers
<1> QED
  BY <1>13, <1>14, <1>15, <1>16, <1>17, <1>18 DEF CrewInv

LEMMA Caps ==
  /\ MaxReviewAreas \in Nat /\ MaxSubagentFanout \in Nat /\ MaxWorkflowPhases \in Nat
  /\ \A c \in Configs : c.width \in Nat \ {0}
BY DelegationAssumption

LEMMA UnderLead == ASSUME Shape PROVE Under(Lead) = DOMAIN agents \ {Lead}
<1>1. \A b \in DOMAIN agents : b \in Seq(Nat)
  BY DEF Shape
<1>2. ASSUME NEW b \in Seq(Nat), b # <<>> PROVE Len(b) > 0 /\ SubSeq(b, 1, 0) = <<>>
  <2>1. Len(b) \in Nat /\ Len(b) # 0
    BY <1>2
  <2>2. \A k \in Nat : k # 0 => k > 0
    OBVIOUS
  <2> QED
    BY <2>1, <2>2
<1>3. Len(Lead) = 0 /\ Lead = <<>>
  BY DEF Lead
<1> QED
  BY <1>1, <1>2, <1>3 DEF Under

\* The lead acts when no child of its own is left.
LEMMA LeadActs == ASSUME Shape, Acting(Lead) PROVE Ours = {} /\ call = NoCall
BY UnderLead DEF Acting, Ours

\* When all slots are filled, all children of the call are gone, and with
\* them all that was below them.
LEMMA CrewGone ==
  ASSUME CrewInv, call # NoCall, Complete
  PROVE  Ours = {}
<1>1. Shape /\ Rooted /\ Crew
  BY DEF CrewInv
<1>2. DOMAIN call.names = DOMAIN call.results
  BY <1>1 DEF Shape, CallShape
<1>3. Firsts = {}
  BY <1>1, <1>2 DEF Crew, Complete, Firsts, Ours, Range
<1> SUFFICES ASSUME NEW a \in Ours PROVE FALSE
  OBVIOUS
<1>4. a \in Seq(Nat) /\ a # <<>> /\ a \in DOMAIN agents /\ ~agents[a].abandoned
  BY <1>1 DEF Ours, Shape, Lead
<1>5. Len(a) \in Nat /\ Len(a) # 0
  BY <1>4
<1>6. \A k \in Nat : k # 0 => k = 1 \/ k > 1
  OBVIOUS
<1>7. Len(a) > 1
  BY <1>3, <1>5, <1>6 DEF Firsts
<1>8. Root(a) \in Firsts
  <2>1. Root(a) \in DOMAIN agents /\ agents[Root(a)].abandoned = agents[a].abandoned
    BY <1>1, <1>4, <1>7 DEF Rooted
  <2>2. Root(a) # Lead /\ Len(Root(a)) = 1
    BY DEF Root, Lead
  <2> QED
    BY <1>4, <2>1, <2>2 DEF Firsts, Ours
<1> QED
  BY <1>3, <1>8

LEMMA RunShape ==
  ASSUME NEW r, AgentShape(r)
  PROVE  LET t == [r EXCEPT !.run = "running"]
         IN  AgentShape(t) /\ t.run = "running" /\ t.perms = r.perms /\ t.abandoned = r.abandoned
BY DEF AgentShape

LEMMA SameCall == ASSUME CallShape, UNCHANGED call PROVE CallShape'
BY DEF CallShape

\* A child that waited for a thread gets one.
LEMMA StartStep ==
  ASSUME CrewInv, NEW b \in DOMAIN agents, Start(b)
  PROVE  CrewInv'
<1>1. Shape /\ Rooted /\ Chains /\ Crew /\ Readers
  BY DEF CrewInv
<1>2. /\ agents[b].run = "queued" /\ Cardinality(Threads(b)) < config.width
      /\ agents' = [agents EXCEPT ![b].run = "running"]
      /\ UNCHANGED <<config, call>>
  BY DEF Start
<1>3. /\ DOMAIN agents' = DOMAIN agents
      /\ \A a \in DOMAIN agents : /\ AgentShape(agents'[a])
                                  /\ agents'[a].perms = agents[a].perms
                                  /\ agents'[a].abandoned = agents[a].abandoned
                                  /\ agents'[a].run = IF a = b THEN "running" ELSE agents[a].run
      /\ agents' = [a \in DOMAIN agents' |-> agents'[a]]
  <2>1. \A a \in DOMAIN agents : AgentShape(agents[a])
    BY <1>1 DEF Shape
  <2>2. \A a \in DOMAIN agents : agents'[a] = IF a = b THEN [agents[b] EXCEPT !.run = "running"] ELSE agents[a]
    BY <1>1, <1>2 DEF Shape
  <2>3. DOMAIN agents' = DOMAIN agents /\ agents' = [a \in DOMAIN agents' |-> agents'[a]]
    BY <1>2
  <2>4. /\ AgentShape([agents[b] EXCEPT !.run = "running"])
        /\ [agents[b] EXCEPT !.run = "running"].run = "running"
        /\ [agents[b] EXCEPT !.run = "running"].perms = agents[b].perms
        /\ [agents[b] EXCEPT !.run = "running"].abandoned = agents[b].abandoned
    BY <2>1, RunShape
  <2>5. ASSUME NEW a \in DOMAIN agents
        PROVE  /\ AgentShape(agents'[a])
               /\ agents'[a].perms = agents[a].perms
               /\ agents'[a].abandoned = agents[a].abandoned
               /\ agents'[a].run = IF a = b THEN "running" ELSE agents[a].run
    <3>1. CASE a = b
      BY <2>2, <2>4, <3>1
    <3>2. CASE a # b
      BY <2>1, <2>2, <3>2
    <3> QED
      BY <3>1, <3>2
  <2> QED
    BY <2>3, <2>5
<1>4. Shape'
  BY <1>1, <1>2, <1>3, SameCall DEF Shape
<1>5. Rooted'
  BY <1>1, <1>3 DEF Rooted
<1>6. Ours' = Ours /\ Firsts' = Firsts
  BY <1>3 DEF Ours, Firsts
<1>7. Chains'
  BY <1>1, <1>6 DEF Chains
<1>8. Crew'
  BY <1>1, <1>2, <1>3, <1>6 DEF Crew
<1>9. Readers'
  <2>1. \A a \in DOMAIN agents' : agents'[a].abandoned => a # Lead /\ agents'[a].perms # "work"
    BY <1>1, <1>3 DEF Readers
  <2>2. Parallel(call.tasks)' <=> Parallel(call.tasks)
    BY <1>2 DEF Parallel
  <2>3. CASE call # NoCall /\ ~Parallel(call.tasks)
    <3>1. \A x, y \in {c \in Firsts : agents[c].run = "running"} : x = y
      BY <1>1, <2>3 DEF Readers
    <3>2. CASE config.width > 1
      <4>1. Firsts \subseteq Range(call.names) /\ DOMAIN call.names = 1..Len(call.tasks)
        BY <1>1, <2>3 DEF Crew, Shape, CallShape
      <4>2. Len(call.tasks) \in Nat /\ ~(Len(call.tasks) > 1)
        BY <1>1, <2>3, <3>2 DEF Parallel, Shape, CallShape, List
      <4>3. \A i, j \in 1..Len(call.tasks) : i = j
        <5>1. \A k \in Nat : ~(k > 1) => \A i, j \in 1..k : i = j
          OBVIOUS
        <5> QED
          BY <4>2, <5>1
      <4>4. \A x, y \in Firsts : x = y
        BY <4>1, <4>3 DEF Range
      <4> QED
        BY <1>1, <1>2, <1>6, <2>1, <2>2, <2>3, <4>4 DEF Readers
    <3>3. CASE ~(config.width > 1)
      <4>1. config.width = 1
        <5>1. config.width \in Nat \ {0}
          BY <1>1, Caps DEF Shape
        <5>2. \A k \in Nat \ {0} : k > 1 \/ k = 1
          OBVIOUS
        <5> QED
          BY <3>3, <5>1, <5>2
      <4>2. Threads(b) = {}
        <5>1. IsFiniteSet(Threads(b))
          BY <1>1, FS_Subset DEF Threads, Shape
        <5>2. Cardinality(Threads(b)) \in Nat
          BY <5>1, FS_CardinalityType
        <5>3. \A k \in Nat : k < 1 => k = 0
          OBVIOUS
        <5>4. Cardinality(Threads(b)) = 0
          BY <1>2, <4>1, <5>2, <5>3
        <5> QED
          BY <5>1, <5>4, FS_EmptySet
      <4>3. \A x \in Firsts : b \in Firsts => agents[x].run # "running"
        <5>1. \A x \in Firsts : x \in DOMAIN agents /\ Len(x) = 1 /\ agents[x].abandoned = FALSE
          BY <1>1 DEF Firsts, Ours, Shape, AgentShape
        <5> QED
          BY <4>2, <5>1 DEF Threads
      <4>4. \A x, y \in {c \in Firsts' : agents'[c].run = "running"} : x = y
        <5>1. CASE b \in Firsts
          BY <1>3, <1>6, <4>3, <5>1 DEF Firsts, Ours
        <5>2. CASE b \notin Firsts
          BY <1>3, <1>6, <3>1, <5>2 DEF Firsts, Ours
        <5> QED
          BY <5>1, <5>2
      <4> QED
        BY <1>1, <1>2, <2>1, <2>2, <2>3, <4>4 DEF Readers
    <3> QED
      BY <3>2, <3>3
  <2>4. CASE call = NoCall \/ Parallel(call.tasks)
    BY <1>1, <1>2, <1>3, <1>6, <2>1, <2>2, <2>4 DEF Readers, Ours
  <2> QED
    BY <2>3, <2>4
<1> QED
  BY <1>4, <1>5, <1>7, <1>8, <1>9 DEF CrewInv

LEMMA RootWaits ==
  ASSUME NEW c \in Seq(Nat), Len(c) > 1
  PROVE  Waits(Root(c), c) /\ Len(Root(c)) = 1 /\ Root(c)[1] = c[1]
<1>1. PICK x : x = c[1]
  OBVIOUS
<1>2. Len(<<x>>) = 1 /\ <<x>>[1] = x
  OBVIOUS
<1>3. SubSeq(c, 1, 1) = <<x>>
  <2>1. 1 \in 0..Len(c)
    OBVIOUS
  <2>2. /\ SubSeq(c, 1, 1) \in Seq(Nat) /\ DOMAIN SubSeq(c, 1, 1) = 1..1
        /\ SubSeq(c, 1, 1)[1] = x
    BY <1>1, <2>1, SubSeqFacts
  <2>3. SubSeq(c, 1, 1) = [i \in 1..1 |-> x] /\ <<x>> = [i \in 1..1 |-> x]
    BY <2>2
  <2> QED
    BY <2>3
<1> QED
  BY <1>1, <1>2, <1>3 DEF Waits, Root

LEMMA WaitsLonger ==
  ASSUME NEW a \in Seq(Nat), NEW k \in Nat
  PROVE  /\ Waits(a, Append(a, k))
         /\ \A c \in Seq(Nat) : Waits(c, a) => Waits(c, Append(a, k))
         /\ a # <<>> => Append(a, k)[1] = a[1] /\ Len(Append(a, k)) > 1
<1>1. PICK n \in Nat : n = Len(a)
  OBVIOUS
<1>2. Append(a, k) \in Seq(Nat) /\ Len(Append(a, k)) = n + 1 /\ SubSeq(Append(a, k), 1, n) = a
  BY <1>1
<1>3. ASSUME NEW c \in Seq(Nat), Waits(c, a) PROVE Waits(c, Append(a, k))
  <2>1. PICK l \in Nat : l = Len(c)
    OBVIOUS
  <2>2. l < n /\ l < n + 1 /\ SubSeq(a, 1, l) = c
    BY <1>1, <1>3, <2>1 DEF Waits
  <2>3. SubSeq(Append(a, k), 1, l) = SubSeq(a, 1, l)
    BY <1>1, <2>1, <2>2
  <2> QED
    BY <1>2, <2>1, <2>2, <2>3 DEF Waits
<1>4. ASSUME a # <<>> PROVE Append(a, k)[1] = a[1] /\ Len(Append(a, k)) > 1
  <2>1. n # 0
    BY <1>1, <1>4
  <2>2. n + 1 > 1 /\ 1 \in 1..n
    BY <2>1
  <2> QED
    BY <1>1, <1>2, <2>2
<1> QED
  BY <1>1, <1>2, <1>3, <1>4 DEF Waits

\* A child comes back when nobody is left below it, and fills its own slot.
LEMMA ReturnStep ==
  ASSUME CrewInv, NEW b \in DOMAIN agents, Return(b)
  PROVE  CrewInv'
<1>1. Shape /\ Rooted /\ Chains /\ Crew /\ Readers
  BY DEF CrewInv
<1>2. /\ b # Lead /\ agents[b].run = "running" /\ UNCHANGED config
      /\ \A c \in Under(b) : agents[c].abandoned /\ ~agents[b].abandoned
      /\ agents' = [a \in DOMAIN agents \ {b} |-> agents[a]]
  BY DEF Return, Acting, Restrict
<1>3. DOMAIN agents' = DOMAIN agents \ {b} /\ \A a \in DOMAIN agents' : agents'[a] = agents[a]
  BY <1>2
<1>4. \A c \in DOMAIN agents : Len(c) > 1 => Root(c) # b
  <2> SUFFICES ASSUME NEW c \in DOMAIN agents, Len(c) > 1, Root(c) = b PROVE FALSE
    OBVIOUS
  <2>1. c \in Under(b)
    BY <1>1, RootWaits DEF Shape, Under, Waits
  <2> QED
    BY <1>1, <1>2, <2>1 DEF Rooted
<1>5. Ours' = Ours \ {b} /\ Firsts' = Firsts \ {b}
  BY <1>3 DEF Ours, Firsts
<1>6. \/ UNCHANGED call
      \/ /\ call # NoCall /\ b \in Range(call.names)
         /\ \E r : call' = [call EXCEPT !.results = [@ EXCEPT ![SlotOf(call.names, b)] = r]]
  BY DEF Return, Deliver
<1>7. CASE UNCHANGED call
  <2>1. Shape'
    BY <1>1, <1>2, <1>3, <1>7, SameCall, FS_Subset DEF Shape
  <2>2. Rooted' /\ Chains'
    BY <1>1, <1>3, <1>4, <1>5 DEF Rooted, Chains
  <2>3. Crew'
    BY <1>1, <1>3, <1>5, <1>7 DEF Crew, Firsts, Ours
  <2>4. Readers'
    BY <1>1, <1>2, <1>3, <1>5, <1>7 DEF Readers, Parallel, Firsts, Ours
  <2> QED
    BY <2>1, <2>2, <2>3, <2>4 DEF CrewInv
<1>8. ASSUME call # NoCall, b \in Range(call.names), NEW r,
             call' = [call EXCEPT !.results = [@ EXCEPT ![SlotOf(call.names, b)] = r]]
      PROVE  CrewInv'
  <2>1. PICK i \in DOMAIN call.names : i = SlotOf(call.names, b) /\ call.names[i] = b
    BY <1>8 DEF SlotOf, Range
  <2> DEFINE results == [call.results EXCEPT ![i] = r]
  <2>2. call = [kind |-> call.kind, asked |-> call.asked, tasks |-> call.tasks, over |-> call.over,
                names |-> call.names, results |-> call.results, todo |-> call.todo,
                dropped |-> call.dropped, sections |-> call.sections, closing |-> call.closing]
    BY <1>1, <1>8 DEF Shape, CallShape
  <2>3. call' = [call EXCEPT !.results = results]
    BY <1>8, <2>1
  <2> HIDE DEF results
  <2>4. /\ call'.kind = call.kind /\ call'.asked = call.asked /\ call'.tasks = call.tasks
        /\ call'.over = call.over /\ call'.names = call.names /\ call'.todo = call.todo
        /\ call'.dropped = call.dropped /\ call'.sections = call.sections
        /\ call'.closing = call.closing /\ call'.results = results
        /\ call' = [kind |-> call'.kind, asked |-> call'.asked, tasks |-> call'.tasks, over |-> call'.over,
                    names |-> call'.names, results |-> call'.results, todo |-> call'.todo,
                    dropped |-> call'.dropped, sections |-> call'.sections, closing |-> call'.closing]
    BY <2>2, <2>3
  <2>5. /\ DOMAIN results = DOMAIN call.results /\ results = [j \in DOMAIN results |-> results[j]]
        /\ \A j \in DOMAIN call.results : j # i => results[j] = call.results[j]
    BY DEF results
  <2>6. CallShape'
    BY <1>1, <1>8, <2>4, <2>5 DEF Shape, CallShape
  <2>7. call' # NoCall
    BY <1>1, <1>8, <2>4, NamedCall DEF NoCall, Shape
  <2>8. Shape'
    BY <1>1, <1>2, <1>3, <2>6, FS_Subset DEF Shape
  <2>9. Rooted' /\ Chains'
    BY <1>1, <1>3, <1>4, <1>5 DEF Rooted, Chains
  <2>10. Crew'
    <3>1. Firsts' \subseteq Range(call'.names)
      BY <1>1, <1>5, <1>8, <2>4 DEF Crew
    <3>2. ASSUME NEW j \in DOMAIN call.names, call.names[j] \in DOMAIN agents'
          PROVE  results[j] = Pending
      BY <1>1, <1>3, <1>8, <2>1, <2>5, <3>2 DEF Crew, Shape, CallShape
    <3> QED
      BY <2>4, <2>7, <3>1, <3>2 DEF Crew
  <2>11. Readers'
    BY <1>1, <1>2, <1>3, <1>5, <1>8, <2>4, <2>7 DEF Readers, Parallel, Firsts, Ours
  <2> QED
    BY <2>8, <2>9, <2>10, <2>11 DEF CrewInv
<1> QED
  BY <1>6, <1>7, <1>8

\* spawn_agent: the new agent is below its maker, who waits for it.
LEMMA SpawnStep ==
  ASSUME CrewInv, NEW a \in DOMAIN agents, Spawn(a)
  PROVE  CrewInv'
<1>1. Shape /\ Rooted /\ Chains /\ Crew /\ Readers
  BY DEF CrewInv
<1>2. /\ UNCHANGED <<config, call>> /\ agents[a].run = "running"
      /\ \A c \in Under(a) : agents[c].abandoned /\ ~agents[a].abandoned
      /\ a = Lead => call = NoCall /\ Ours = {}
  BY <1>1, LeadActs DEF Spawn, Acting
<1>3. PICK m \in Nat :
        /\ NewNames(a, 1) = [i \in 1..1 |-> Append(a, m + i)]
        /\ \A i \in 1..1 : /\ Append(a, m + i) \in Seq(Nat) \ DOMAIN agents
                          /\ Len(Append(a, m + i)) = Len(a) + 1
        /\ a = Lead => \A c \in DOMAIN agents : c # Lead => c[1] <= m
  BY <1>1, FreshNames
<1>4. PICK b : b = Append(a, m + 1) /\ NewNames(a, 1)[1] = b
  BY <1>3
<1>5. /\ a \in Seq(Nat) /\ b \in Seq(Nat) /\ b \notin DOMAIN agents /\ b # Lead
      /\ Waits(a, b) /\ \A c \in Seq(Nat) : Waits(c, a) => Waits(c, b)
  <2>1. a \in Seq(Nat) /\ m + 1 \in Nat
    BY <1>1 DEF Shape
  <2>2. b \in Seq(Nat) /\ b \notin DOMAIN agents
    BY <1>3, <1>4
  <2> QED
    BY <1>1, <1>4, <2>1, <2>2, WaitsLonger DEF Shape
<1>6. /\ a # Lead => b[1] = a[1] /\ Len(b) > 1
      /\ a = Lead => Len(b) = 1 /\ b[1] = m + 1
  <2>1. a \in Seq(Nat) /\ m + 1 \in Nat
    BY <1>1 DEF Shape
  <2>2. a # Lead => b[1] = a[1] /\ Len(b) > 1
    BY <1>4, <2>1, WaitsLonger DEF Lead
  <2>3. a = Lead => b = <<m + 1>>
    BY <1>4 DEF Lead
  <2> QED
    BY <2>2, <2>3
<1> DEFINE child == Child(a, FALSE, "subtask", "running")
           busy  == [agents[a] EXCEPT !.spawns = @ + 1, !.left = @ - 1]
<1>7. agents' = [c \in DOMAIN agents \cup {b} |->
                   IF c = b THEN child ELSE IF c = a THEN busy ELSE agents[c]]
  BY <1>4 DEF Spawn
<1>8. /\ AgentShape(child) /\ child.run = "running" /\ child.abandoned = agents[a].abandoned
      /\ agents[a].perms # "work" => child.perms # "work"
  <2>1. PICK x \in BOOLEAN : x = agents[a].abandoned
    BY <1>1 DEF Shape, AgentShape
  <2>2. PICK p : /\ p = ChildPermissions(agents[a].perms, FALSE)
                 /\ agents[a].perms # "work" => p # "work"
    BY DEF ChildPermissions
  <2>3. child = [perms |-> p, task |-> "subtask", run |-> "running", spawns |-> 0,
                 left |-> SubagentMaxSteps, abandoned |-> x]
    BY <2>1, <2>2, Zenon DEF Child
  <2> HIDE DEF child
  <2>4. child.run = "running" /\ child.abandoned = x /\ child.perms = p
    BY <2>3
  <2>5. child = [perms |-> child.perms, task |-> child.task, run |-> child.run,
                 spawns |-> child.spawns, left |-> child.left, abandoned |-> child.abandoned]
    BY <2>3
  <2> QED
    BY <2>1, <2>2, <2>4, <2>5 DEF AgentShape
<1>9. /\ AgentShape(busy) /\ busy.run = "running" /\ busy.abandoned = agents[a].abandoned
      /\ busy.perms = agents[a].perms
  <2>1. AgentShape(agents[a])
    BY <1>1 DEF Shape
  <2>2. PICK x, y : busy = [agents[a] EXCEPT !.spawns = x, !.left = y]
    OBVIOUS
  <2> HIDE DEF busy
  <2>3. PICK t : t = [agents[a] EXCEPT !.spawns = x]
    OBVIOUS
  <2>4. /\ t = [perms |-> t.perms, task |-> t.task, run |-> t.run, spawns |-> t.spawns,
                left |-> t.left, abandoned |-> t.abandoned]
        /\ t.run = agents[a].run /\ t.abandoned = agents[a].abandoned /\ t.perms = agents[a].perms
    BY <2>1, <2>3 DEF AgentShape
  <2>5. busy = [t EXCEPT !.left = y]
    BY <2>2, <2>3
  <2>6. /\ busy = [perms |-> busy.perms, task |-> busy.task, run |-> busy.run,
                   spawns |-> busy.spawns, left |-> busy.left, abandoned |-> busy.abandoned]
        /\ busy.run = t.run /\ busy.abandoned = t.abandoned /\ busy.perms = t.perms
    BY <2>4, <2>5
  <2> QED
    BY <1>2, <2>1, <2>4, <2>6 DEF AgentShape
<1> HIDE DEF child, busy
<1>10. /\ DOMAIN agents' = DOMAIN agents \cup {b} /\ agents'[b] = child
       /\ \A c \in DOMAIN agents : /\ AgentShape(agents'[c])
                                   /\ agents'[c].run = agents[c].run
                                   /\ agents'[c].abandoned = agents[c].abandoned
                                   /\ agents'[c].perms = agents[c].perms
       /\ agents' = [c \in DOMAIN agents' |-> agents'[c]]
  <2>1. DOMAIN agents' = DOMAIN agents \cup {b} /\ agents'[b] = child
    BY <1>7
  <2>2. agents' = [c \in DOMAIN agents' |-> agents'[c]]
    BY <1>7
  <2>3. ASSUME NEW c \in DOMAIN agents
        PROVE  /\ AgentShape(agents'[c])
               /\ agents'[c].run = agents[c].run
               /\ agents'[c].abandoned = agents[c].abandoned
               /\ agents'[c].perms = agents[c].perms
    <3>1. agents'[c] = IF c = a THEN busy ELSE agents[c]
      BY <1>5, <1>7
    <3>2. AgentShape(agents[c])
      BY <1>1 DEF Shape
    <3> QED
      BY <1>2, <1>9, <3>1, <3>2
  <2> QED
    BY <2>1, <2>2, <2>3
<1>11. Shape'
  <2>1. IsFiniteSet(DOMAIN agents')
    BY <1>1, <1>10, FS_AddElement DEF Shape
  <2>2. DOMAIN agents' \subseteq Seq(Nat) /\ Lead \in DOMAIN agents'
    BY <1>1, <1>5, <1>10 DEF Shape
  <2>3. \A c \in DOMAIN agents' : AgentShape(agents'[c])
    BY <1>8, <1>10
  <2> QED
    BY <1>1, <1>2, <1>10, <2>1, <2>2, <2>3, SameCall DEF Shape
<1>12. Rooted'
  <2> SUFFICES ASSUME NEW c \in DOMAIN agents', Len(c) > 1
               PROVE  /\ Root(c) \in DOMAIN agents' /\ agents'[Root(c)].run = "running"
                      /\ agents'[c].run = "running" /\ agents'[Root(c)].abandoned = agents'[c].abandoned
    BY DEF Rooted, Root
  <2>1. CASE c \in DOMAIN agents
    BY <1>1, <1>10, <2>1 DEF Rooted
  <2>2. CASE c = b
    <3>1. a # Lead /\ Root(b) = Root(a)
      <4>1. ~(1 > 1)
        OBVIOUS
      <4> QED
        BY <1>6, <2>2, <4>1 DEF Root
    <3>2. /\ Root(a) \in DOMAIN agents /\ agents[Root(a)].run = "running"
          /\ agents[Root(a)].abandoned = agents[a].abandoned
      <4>1. Len(a) \in Nat /\ Len(a) # 0
        BY <1>5, <3>1 DEF Lead
      <4>2. \A k \in Nat : k # 0 => k = 1 \/ k > 1
        OBVIOUS
      <4>3. CASE Len(a) = 1
        <5>1. a = Root(a)
          BY <1>5, <4>3 DEF Root
        <5> QED
          BY <1>2, <5>1
      <4>4. CASE Len(a) > 1
        BY <1>1, <4>4 DEF Rooted
      <4> QED
        BY <4>1, <4>2, <4>3, <4>4
    <3> QED
      BY <1>8, <1>10, <2>2, <3>1, <3>2
  <2> QED
    BY <1>10, <2>1, <2>2
<1>13. Ours' = IF agents[a].abandoned THEN Ours ELSE Ours \cup {b}
  <2>1. \A c : c \in Ours' <=> c \in DOMAIN agents' /\ c # Lead /\ ~agents'[c].abandoned
    BY DEF Ours
  <2>2. \A c \in DOMAIN agents : c \in Ours' <=> c \in Ours
    BY <1>10 DEF Ours
  <2>3. b \in Ours' <=> ~agents[a].abandoned
    BY <1>5, <1>8, <1>10, <2>1
  <2>4. \A c : c \in Ours => c \in DOMAIN agents
    BY DEF Ours
  <2>5. \A c : c \in Ours' => c \in DOMAIN agents \/ c = b
    BY <1>10, <2>1
  <2> DEFINE now == Ours'
  <2>6. \A c : c \in now <=> c \in IF agents[a].abandoned THEN Ours ELSE Ours \cup {b}
    BY <1>5, <2>2, <2>3, <2>4, <2>5
  <2> HIDE DEF now
  <2>7. now = IF agents[a].abandoned THEN Ours ELSE Ours \cup {b}
    BY <2>6
  <2> QED
    BY <2>7 DEF now
<1>14. a # Lead => Firsts' = Firsts
  <2>1. \A k \in Nat : k > 1 => k # 1
    OBVIOUS
  <2>2. Len(b) \in Nat
    BY <1>5
  <2> QED
    BY <1>6, <1>13, <2>1, <2>2 DEF Firsts
<1>15. Chains'
  <2>1. ASSUME NEW c \in Ours, ~agents[a].abandoned, c[1] = b[1] PROVE Waits(c, b)
    <3>1. c \in DOMAIN agents /\ c \in Seq(Nat) /\ c # Lead
      BY <1>1 DEF Ours, Shape
    <3>2. CASE a = Lead
      BY <1>2, <3>2
    <3>3. CASE a # Lead
      <4>1. c[1] = a[1] /\ a \in Ours
        BY <1>6, <2>1, <3>3 DEF Ours
      <4>2. c = a \/ Waits(c, a) \/ Waits(a, c)
        BY <1>1, <4>1 DEF Chains
      <4>3. ~Waits(a, c)
        <5>1. Waits(a, c) => c \in Under(a)
          <6>1. \A k, l \in Nat : k < l => l > k
            OBVIOUS
          <6>2. Len(a) \in Nat /\ Len(c) \in Nat
            BY <1>5, <3>1
          <6> QED
            BY <3>1, <6>1, <6>2 DEF Waits, Under
        <5> QED
          BY <1>2, <5>1 DEF Ours
      <4> QED
        BY <1>5, <3>1, <4>2, <4>3
    <3> QED
      BY <3>2, <3>3
  <2>2. ASSUME NEW c \in Ours', NEW d \in Ours', c[1] = d[1]
        PROVE  c = d \/ Waits(c, d) \/ Waits(d, c)
    BY <1>1, <1>13, <2>1, <2>2 DEF Chains
  <2> QED
    BY <2>2 DEF Chains, Waits
<1>16. Crew'
  <2>1. CASE a = Lead
    <3>1. Firsts' \subseteq {b}
      BY <1>2, <1>13, <2>1 DEF Firsts
    <3> QED
      BY <1>2, <1>8, <1>10, <2>1, <3>1 DEF Crew
  <2>2. CASE a # Lead
    <3>1. Firsts' = Firsts /\ \A c \in Firsts : agents'[c].run = agents[c].run
      BY <1>10, <1>14, <2>2 DEF Firsts, Ours
    <3>2. call # NoCall => \A i \in DOMAIN call.names : call.names[i] # b
      <4>1. ~(1 > 1)
        OBVIOUS
      <4> QED
        BY <1>1, <1>6, <2>2, <4>1 DEF Shape, CallShape
    <3> QED
      BY <1>1, <1>2, <1>10, <3>1, <3>2 DEF Crew
  <2> QED
    BY <2>1, <2>2
<1>17. Readers'
  <2>1. \A c \in DOMAIN agents' : agents'[c].abandoned => c # Lead /\ agents'[c].perms # "work"
    BY <1>1, <1>5, <1>8, <1>10 DEF Readers
  <2>2. Parallel(call.tasks)' <=> Parallel(call.tasks)
    BY <1>2 DEF Parallel
  <2>3. CASE call = NoCall
    BY <1>2, <2>1, <2>3 DEF Readers
  <2>4. CASE call # NoCall /\ Parallel(call.tasks)
    <3>1. a # Lead /\ \A c \in Ours : agents[c].perms # "work"
      BY <1>1, <1>2, <2>4 DEF Readers
    <3>2. ~agents[a].abandoned => child.perms # "work"
      BY <1>8, <3>1 DEF Ours
    <3>3. \A c \in Ours' : agents'[c].perms # "work"
      BY <1>10, <1>13, <3>1, <3>2 DEF Ours
    <3> QED
      BY <1>2, <2>1, <2>2, <2>4, <3>3 DEF Readers
  <2>5. CASE call # NoCall /\ ~Parallel(call.tasks)
    <3>1. a # Lead /\ Firsts' = Firsts /\ \A c \in Firsts : agents'[c].run = agents[c].run
      BY <1>2, <1>10, <1>14, <2>5 DEF Firsts, Ours
    <3> QED
      BY <1>1, <1>2, <2>1, <2>2, <2>5, <3>1 DEF Readers
  <2> QED
    BY <2>3, <2>4, <2>5
<1> QED
  BY <1>11, <1>12, <1>15, <1>16, <1>17 DEF CrewInv

LEMMA EmptyList == List(<<>>) /\ Range(<<>>) = {}
BY DEF List, Range

\* A phase begins when nobody is left of the one before it.
LEMMA PhaseStep ==
  ASSUME CrewInv, Ours = {}, UNCHANGED config,
         NEW spec, NEW todo, NEW dropped, NEW sections, List(todo), todo # <<>>,
         \A phase \in Range(todo) : List(phase.jobs),
         FanOutPhase(spec, todo, dropped, sections)
  PROVE  CrewInv' /\ call' # NoCall
<1>1. Head(todo) \in Range(todo) /\ List(Tail(todo)) /\ Range(Tail(todo)) \subseteq Range(todo)
  BY TailList
<1> DEFINE jobs == Head(todo).jobs
<1>2. List(jobs)
  BY <1>1
<1>3. List(Kept(jobs, MaxSubagentFanout))
  BY <1>2, Caps, CutList
<1>4. FanOut("workflow", spec, Kept(jobs, MaxSubagentFanout), Over(jobs, MaxSubagentFanout),
             Tail(todo), dropped, sections)
  BY DEF FanOutPhase
<1> HIDE DEF jobs
<1>5. \A phase \in Range(Tail(todo)) : List(phase.jobs)
  BY <1>1
<1> QED
  BY <1>1, <1>3, <1>4, <1>5, FanOutStep

LEMMA OrchestrateStep ==
  ASSUME CrewInv, \/ \E plan \in Plans : Review(plan)
                  \/ \E spec \in Workflows : Workflow(spec)
                  \/ Skill
  PROVE  CrewInv'
<1>1. Shape /\ Acting(Lead) /\ UNCHANGED config
  BY DEF CrewInv, Review, Workflow, Skill, Orchestrates
<1>2. Ours = {}
  BY <1>1, LeadActs
<1>3. ASSUME NEW plan \in Plans, Review(plan) PROVE CrewInv'
  <2>1. List(Kept(ReviewUnits(plan), MaxReviewAreas))
    BY ReviewCovers, Caps, CutList
  <2>2. FanOut("review", plan, Kept(ReviewUnits(plan), MaxReviewAreas),
               Over(ReviewUnits(plan), MaxReviewAreas), <<>>, <<>>, <<>>)
    BY <1>3 DEF Review
  <2> QED
    BY <1>1, <1>2, <2>1, <2>2, EmptyList, FanOutStep
<1>4. ASSUME NEW spec \in Workflows, Workflow(spec) PROVE CrewInv'
  <2> DEFINE phases == PlanPhases(spec)
             todo   == Kept(phases, MaxWorkflowPhases)
  <2>1. List(phases) /\ \A phase \in Range(phases) : List(phase.jobs)
    BY PhaseLists
  <2>2. phases # <<>> /\ FanOutPhase(spec, todo, Over(phases, MaxWorkflowPhases), <<>>)
    BY <1>4 DEF Workflow
  <2> HIDE DEF phases
  <2>3. List(todo) /\ todo # <<>> /\ Range(todo) \subseteq Range(phases)
    BY <2>1, <2>2, Caps, DelegationAssumption, CutList
  <2>4. \A phase \in Range(todo) : List(phase.jobs)
    BY <2>1, <2>3
  <2> HIDE DEF todo
  <2> QED
    BY <1>1, <1>2, <2>2, <2>3, <2>4, PhaseStep
<1>5. ASSUME Skill PROVE CrewInv'
  <2>1. List(Concerns)
    BY DelegationAssumption DEF List
  <2>2. List(Kept(Concerns, MaxReviewAreas))
    BY <2>1, Caps, CutList
  <2>3. FanOut("skill", <<>>, Kept(Concerns, MaxReviewAreas), <<>>, <<>>, <<>>, <<>>)
    BY <1>5 DEF Skill
  <2> QED
    BY <1>1, <1>2, <2>2, <2>3, EmptyList, FanOutStep
<1> QED
  BY <1>3, <1>4, <1>5

\* What the lead does to itself leaves its crew as it is.
LEMMA LeadStep ==
  ASSUME CrewInv, UNCHANGED config, NEW r, AgentShape(r), ~r.abandoned,
         agents' = [agents EXCEPT ![Lead] = r],
         UNCHANGED call \/ (call' = NoCall /\ Ours = {})
  PROVE  CrewInv'
<1>1. Shape /\ Rooted /\ Chains /\ Crew /\ Readers
  BY DEF CrewInv
<1>2. /\ DOMAIN agents' = DOMAIN agents /\ agents' = [a \in DOMAIN agents' |-> agents'[a]]
      /\ agents'[Lead] = r /\ \A a \in DOMAIN agents \ {Lead} : agents'[a] = agents[a]
  BY <1>1 DEF Shape
<1>3. ~agents[Lead].abandoned
  BY <1>1 DEF Readers, Shape
<1>4. Ours' = Ours /\ Firsts' = Firsts
  BY <1>2 DEF Ours, Firsts
<1>5. Shape'
  <2>1. CallShape'
    BY <1>1, SameCall DEF Shape, CallShape
  <2>2. \A a \in DOMAIN agents' : AgentShape(agents'[a])
    BY <1>1, <1>2 DEF Shape
  <2> QED
    BY <1>1, <1>2, <2>1, <2>2 DEF Shape
<1>6. Rooted'
  <2> SUFFICES ASSUME NEW a \in DOMAIN agents', Len(a) > 1
               PROVE  /\ Root(a) \in DOMAIN agents' /\ agents'[Root(a)].run = "running"
                      /\ agents'[a].run = "running" /\ agents'[Root(a)].abandoned = agents'[a].abandoned
    BY DEF Rooted, Root
  <2>1. a # Lead
    <3>1. Len(Lead) = 0 /\ ~(0 > 1)
      BY DEF Lead
    <3> QED
      BY <3>1
  <2>2. Root(a) # Lead
    BY DEF Root, Lead
  <2> QED
    BY <1>1, <1>2, <2>1, <2>2 DEF Rooted
<1>7. Chains'
  BY <1>1, <1>4 DEF Chains
<1>8. Crew'
  <2>1. CASE UNCHANGED call
    <3>1. \A a \in Firsts : agents'[a] = agents[a]
      BY <1>2 DEF Firsts, Ours
    <3>2. ASSUME call # NoCall, NEW i \in DOMAIN call.names PROVE call.names[i] # Lead
      <4>1. Len(Lead) = 0
        BY DEF Lead
      <4>2. Len(call.names[i]) = 1
        BY <1>1, <3>2 DEF Shape, CallShape
      <4> QED
        BY <4>1, <4>2
    <3> QED
      BY <1>1, <1>2, <1>4, <2>1, <3>1, <3>2 DEF Crew
  <2>2. CASE call' = NoCall /\ Ours = {}
    BY <1>4, <2>2 DEF Crew, Firsts
  <2> QED
    BY <2>1, <2>2
<1>9. Readers'
  <2>1. \A a \in DOMAIN agents' : agents'[a].abandoned => a # Lead /\ agents'[a].perms # "work"
    BY <1>1, <1>2 DEF Readers
  <2>2. CASE UNCHANGED call
    <3>1. \A a \in Ours : agents'[a] = agents[a]
      BY <1>2 DEF Ours
    <3>2. Parallel(call.tasks)' <=> Parallel(call.tasks)
      BY <2>2 DEF Parallel
    <3> QED
      BY <1>1, <1>4, <2>1, <2>2, <3>1, <3>2 DEF Readers, Firsts
  <2>3. CASE call' = NoCall
    BY <2>1, <2>3 DEF Readers
  <2> QED
    BY <2>2, <2>3
<1> QED
  BY <1>5, <1>6, <1>7, <1>8, <1>9 DEF CrewInv

LEMMA IdleShape ==
  ASSUME NEW r, AgentShape(r)
  PROVE  LET t == [r EXCEPT !.run = "idle"]
         IN  AgentShape(t) /\ t.perms = r.perms /\ t.abandoned = r.abandoned
BY DEF AgentShape

LEMMA CutOffShape ==
  ASSUME NEW r, AgentShape(r), NEW y \in BOOLEAN
  PROVE  LET t == [r EXCEPT !.abandoned = y]
         IN  AgentShape(t) /\ t.perms = r.perms /\ t.abandoned = y /\ t.run = r.run
BY DEF AgentShape

\* What an interrupt unwinds is gone, or was only reading and is cut off.
LEMMA UnwindStep ==
  ASSUME CrewInv, UNCHANGED config, NEW S, S = {} \/ S = Ours, S = {} => \A a \in Ours : agents[a].perms # "work",
         Unwind(S)
  PROVE  CrewInv'
<1>1. Shape /\ Rooted /\ Readers /\ S \subseteq Ours
  BY DEF CrewInv
<1>2. Lead \in DOMAIN agents \ S /\ Lead \notin Ours
  BY <1>1 DEF Shape, Ours
<1>3. /\ DOMAIN agents' = DOMAIN agents \ S /\ agents' = [a \in DOMAIN agents' |-> agents'[a]]
      /\ agents'[Lead] = [agents[Lead] EXCEPT !.run = "idle"]
      /\ \A a \in DOMAIN agents' : a # Lead => agents'[a] = [agents[a] EXCEPT !.abandoned = TRUE]
      /\ call' = NoCall
  BY <1>2 DEF Unwind
<1>4. \A a \in DOMAIN agents : AgentShape(agents[a])
  BY <1>1 DEF Shape
<1>5. /\ AgentShape(agents'[Lead]) /\ agents'[Lead].abandoned = agents[Lead].abandoned
      /\ agents[Lead].abandoned = FALSE
  <2>1. agents[Lead].abandoned = FALSE
    BY <1>1, <1>2, <1>4 DEF Readers, AgentShape
  <2> QED
    BY <1>2, <1>3, <1>4, <2>1, IdleShape
<1>6. ASSUME NEW a \in DOMAIN agents', a # Lead
      PROVE  /\ AgentShape(agents'[a]) /\ agents'[a].perms = agents[a].perms
             /\ agents'[a].run = agents[a].run /\ agents'[a].abandoned = TRUE
  <2>1. PICK y \in BOOLEAN : y = TRUE
    OBVIOUS
  <2>2. agents'[a] = [agents[a] EXCEPT !.abandoned = y]
    BY <1>3, <1>6, <2>1, Zenon
  <2>3. AgentShape(agents[a])
    BY <1>3, <1>4
  <2> QED
    BY <2>1, <2>2, <2>3, CutOffShape
<1>7. ASSUME NEW a \in DOMAIN agents', a # Lead PROVE agents'[a].perms # "work"
  <2>1. CASE agents[a].abandoned
    BY <1>1, <1>3, <1>6, <1>7, <2>1 DEF Readers
  <2>2. CASE ~agents[a].abandoned
    BY <1>3, <1>6, <1>7, <2>2 DEF Ours
  <2> QED
    BY <2>1, <2>2
<1>8. Ours' = {} /\ Firsts' = {}
  BY <1>6 DEF Ours, Firsts
<1>9. Shape'
  <2>1. IsFiniteSet(DOMAIN agents')
    BY <1>1, <1>3, FS_Subset DEF Shape
  <2>2. \A a \in DOMAIN agents' : AgentShape(agents'[a])
    BY <1>5, <1>6
  <2> QED
    BY <1>1, <1>2, <1>3, <2>1, <2>2 DEF Shape, CallShape
<1>10. Rooted'
  <2> SUFFICES ASSUME NEW a \in DOMAIN agents', Len(a) > 1
               PROVE  /\ Root(a) \in DOMAIN agents' /\ agents'[Root(a)].run = "running"
                      /\ agents'[a].run = "running" /\ agents'[Root(a)].abandoned = agents'[a].abandoned
    BY DEF Rooted, Root
  <2>1. a # Lead
    <3>1. Len(Lead) = 0 /\ ~(0 > 1)
      BY DEF Lead
    <3> QED
      BY <3>1
  <2>2. Root(a) # Lead
    BY DEF Root, Lead
  <2>3. /\ Root(a) \in DOMAIN agents /\ agents[Root(a)].run = "running" /\ agents[a].run = "running"
        /\ agents[Root(a)].abandoned = agents[a].abandoned
    BY <1>1, <1>3 DEF Rooted
  <2>4. Root(a) \in DOMAIN agents'
    BY <1>3, <2>1, <2>2, <2>3 DEF Ours
  <2> QED
    BY <1>6, <2>1, <2>2, <2>3, <2>4
<1>11. Readers'
  BY <1>3, <1>5, <1>7 DEF Readers
<1> QED
  BY <1>3, <1>8, <1>9, <1>10, <1>11 DEF CrewInv, Chains, Crew

LEMMA LeftShape ==
  ASSUME NEW r, AgentShape(r), NEW x
  PROVE  LET t == [r EXCEPT !.left = x]
         IN  AgentShape(t) /\ t.perms = r.perms /\ t.abandoned = r.abandoned /\ t.run = r.run
BY DEF AgentShape

LEMMA SpawnsShape ==
  ASSUME NEW r, AgentShape(r), NEW x
  PROVE  LET t == [r EXCEPT !.spawns = x]
         IN  AgentShape(t) /\ t.perms = r.perms /\ t.abandoned = r.abandoned /\ t.run = r.run
BY DEF AgentShape

\* A step of the lead in its turn, a new turn, or the end of one.
LEMMA TurnStep ==
  ASSUME CrewInv, \/ StartTurn \/ EndTurn \/ \E spec \in Workflows : Submit(spec)
  PROVE  CrewInv'
<1>1. Shape /\ Readers /\ UNCHANGED <<config, call>>
  BY DEF CrewInv, StartTurn, EndTurn, Submit
<1>2. AgentShape(agents[Lead]) /\ ~agents[Lead].abandoned
  BY <1>1 DEF Shape, Readers
<1>3. CASE StartTurn
  <2> DEFINE r == [agents[Lead] EXCEPT !.run = "running", !.spawns = 0, !.left = MaxSteps]
  <2>1. agents' = [agents EXCEPT ![Lead] = r]
    BY <1>1, <1>3 DEF StartTurn, Shape
  <2>2. AgentShape(r) /\ ~r.abandoned
    <3> DEFINE p == [agents[Lead] EXCEPT !.run = "running"]
               q == [p EXCEPT !.spawns = 0]
    <3>1. r = [q EXCEPT !.left = MaxSteps]
      OBVIOUS
    <3>2. AgentShape(p) /\ p.abandoned = agents[Lead].abandoned
      BY <1>2, RunShape
    <3> HIDE DEF r, p
    <3>3. AgentShape(q) /\ q.abandoned = p.abandoned
      BY <3>2, SpawnsShape
    <3> HIDE DEF q
    <3>4. AgentShape(r) /\ r.abandoned = q.abandoned
      BY <3>1, <3>3, LeftShape
    <3> QED
      BY <1>2, <3>2, <3>3, <3>4
  <2> HIDE DEF r
  <2> QED
    BY <1>1, <2>1, <2>2, LeadStep
<1>4. CASE EndTurn
  <2> DEFINE r == [agents[Lead] EXCEPT !.run = "idle"]
  <2>1. agents' = [agents EXCEPT ![Lead] = r]
    BY <1>1, <1>4 DEF EndTurn, Shape
  <2>2. AgentShape(r) /\ ~r.abandoned
    BY <1>2, IdleShape
  <2> HIDE DEF r
  <2> QED
    BY <1>1, <2>1, <2>2, LeadStep
<1>5. CASE \E spec \in Workflows : Submit(spec)
  <2>1. agents' = agents
    BY <1>5 DEF Submit
  <2>2. agents' = [agents EXCEPT ![Lead] = agents[Lead]]
    BY <1>1, <2>1 DEF Shape
  <2> QED
    BY <1>1, <1>2, <2>2, LeadStep
<1> QED
  BY <1>3, <1>4, <1>5

LEMMA ReduceStep ==
  ASSUME CrewInv, Reduce
  PROVE  CrewInv'
<1>1. Shape /\ Readers /\ call # NoCall /\ Ours = {} /\ UNCHANGED config
  BY CrewGone DEF CrewInv, Reduce
<1>2. CASE call.todo # <<>>
  <2>1. FanOutPhase(call.asked, call.todo, call.dropped, Append(call.sections, Section))
    BY <1>2 DEF Reduce
  <2>2. List(call.todo) /\ \A phase \in Range(call.todo) : List(phase.jobs)
    BY <1>1 DEF Shape, CallShape
  <2> QED
    BY <1>1, <1>2, <2>1, <2>2, PhaseStep
<1>3. CASE ~(call.todo # <<>>)
  <2>1. call' = NoCall /\ agents' = [agents EXCEPT ![Lead].left = @ - 1]
    BY <1>3 DEF Reduce
  <2>2. AgentShape(agents[Lead]) /\ ~agents[Lead].abandoned
    BY <1>1 DEF Shape, Readers
  <2> DEFINE r == [agents[Lead] EXCEPT !.left = agents[Lead].left - 1]
  <2>3. agents' = [agents EXCEPT ![Lead] = r]
    BY <1>1, <2>1 DEF Shape
  <2>4. AgentShape(r) /\ ~r.abandoned
    BY <2>2, LeftShape
  <2> HIDE DEF r
  <2> QED
    BY <1>1, <2>1, <2>3, <2>4, LeadStep
<1> QED
  BY <1>2, <1>3

\* A call that closes is the call it was.
LEMMA ClosingCall ==
  ASSUME CallShape, call # NoCall, NEW y \in BOOLEAN, call' = [call EXCEPT !.closing = y]
  PROVE  /\ CallShape' /\ call' # NoCall /\ call'.closing = y /\ call'.kind = call.kind
         /\ call'.asked = call.asked /\ call'.tasks = call.tasks /\ call'.over = call.over
         /\ call'.names = call.names /\ call'.results = call.results /\ call'.todo = call.todo
         /\ call'.dropped = call.dropped /\ call'.sections = call.sections
<1>1. call = [kind |-> call.kind, asked |-> call.asked, tasks |-> call.tasks, over |-> call.over,
              names |-> call.names, results |-> call.results, todo |-> call.todo,
              dropped |-> call.dropped, sections |-> call.sections, closing |-> call.closing]
  BY DEF CallShape
<1>2. /\ call'.closing = y /\ call'.kind = call.kind
      /\ call'.asked = call.asked /\ call'.tasks = call.tasks /\ call'.over = call.over
      /\ call'.names = call.names /\ call'.results = call.results /\ call'.todo = call.todo
      /\ call'.dropped = call.dropped /\ call'.sections = call.sections
      /\ call' = [kind |-> call'.kind, asked |-> call'.asked, tasks |-> call'.tasks, over |-> call'.over,
                  names |-> call'.names, results |-> call'.results, todo |-> call'.todo,
                  dropped |-> call'.dropped, sections |-> call'.sections, closing |-> call'.closing]
  BY <1>1
<1>3. call' # NoCall
  BY <1>2, NamedCall DEF NoCall
<1>4. CallShape'
  BY <1>2 DEF CallShape
<1> QED
  BY <1>2, <1>3, <1>4

LEMMA InterruptStep ==
  ASSUME CrewInv, Interrupt
  PROVE  CrewInv'
<1>1. Shape /\ Rooted /\ Chains /\ Crew /\ Readers /\ UNCHANGED config
  BY DEF CrewInv, Interrupt
<1>2. CASE Pooled /\ ~call.closing
  <2>1. call # NoCall /\ Parallel(call.tasks) /\ UNCHANGED agents
    BY <1>2 DEF Interrupt, Pooled
  <2>2. PICK y \in BOOLEAN : call' = [call EXCEPT !.closing = y]
    BY <1>2 DEF Interrupt
  <2>3. /\ CallShape' /\ call' # NoCall /\ call'.tasks = call.tasks
        /\ call'.names = call.names /\ call'.results = call.results
    BY <1>1, <2>1, <2>2, ClosingCall DEF Shape
  <2>4. Ours' = Ours /\ Firsts' = Firsts
    BY <2>1 DEF Ours, Firsts
  <2>5. Shape' /\ Rooted' /\ Chains'
    BY <1>1, <2>1, <2>3, <2>4 DEF Shape, Rooted, Chains
  <2>6. Crew'
    BY <1>1, <2>1, <2>3, <2>4 DEF Crew
  <2>7. Readers'
    BY <1>1, <2>1, <2>3, <2>4 DEF Readers, Parallel
  <2> QED
    BY <2>5, <2>6, <2>7 DEF CrewInv
<1>3. CASE ~(Pooled /\ ~call.closing)
  <2> DEFINE S == IF Pooled THEN {} ELSE {b \in Under(Lead) : ~agents[b].abandoned}
  <2>1. Unwind(S)
    BY <1>3 DEF Interrupt
  <2>2. CASE Pooled
    <3>1. S = {} /\ \A a \in Ours : agents[a].perms # "work"
      BY <1>1, <2>2 DEF Readers, Pooled
    <3> HIDE DEF S
    <3> QED
      BY <1>1, <2>1, <3>1, UnwindStep
  <2>3. CASE ~Pooled
    <3>1. S = Ours
      <4>1. S = {b \in DOMAIN agents \ {Lead} : ~agents[b].abandoned}
        BY <1>1, <2>3, UnderLead
      <4> QED
        BY <4>1 DEF Ours
    <3> HIDE DEF S
    <3> QED
      BY <1>1, <2>1, <3>1, UnwindStep
  <2> QED
    BY <2>2, <2>3
<1> QED
  BY <1>2, <1>3

LEMMA ClosedStep ==
  ASSUME CrewInv, Closed
  PROVE  CrewInv'
<1>1. Ours = {} /\ Unwind({}) /\ UNCHANGED config
  BY CrewGone DEF Closed
<1> QED
  BY <1>1, UnwindStep

LEMMA CrewInit == ASSUME Init PROVE CrewInv
<1>1. /\ config \in Configs /\ call = NoCall /\ DOMAIN agents = {Lead}
      /\ agents = [a \in {Lead} |->
                     [perms |-> config.mode, task |-> "request", run |-> "idle",
                      spawns |-> 0, left |-> 0, abandoned |-> FALSE]]
  BY DEF Init
<1>2. AgentShape(agents[Lead]) /\ ~agents[Lead].abandoned
  <2>1. PICK y \in BOOLEAN : y = FALSE
    OBVIOUS
  <2>2. agents[Lead] = [perms |-> config.mode, task |-> "request", run |-> "idle",
                        spawns |-> 0, left |-> 0, abandoned |-> y]
    BY <1>1, <2>1, Zenon
  <2> QED
    BY <2>1, <2>2 DEF AgentShape
<1>3. Shape
  <2>1. IsFiniteSet({Lead}) /\ Lead \in Seq(Nat)
    <3>1. IsFiniteSet({Lead})
      BY FS_Singleton
    <3>2. Lead \in Seq(Nat)
      BY DEF Lead
    <3> QED
      BY <3>1, <3>2
  <2>2. agents = [a \in DOMAIN agents |-> agents[a]]
    BY <1>1
  <2> QED
    BY <1>1, <1>2, <2>1, <2>2 DEF Shape, CallShape
<1>4. Ours = {} /\ Firsts = {}
  BY <1>1 DEF Ours, Firsts
<1>5. Rooted
  <2>1. Len(Lead) = 0 /\ ~(0 > 1)
    BY DEF Lead
  <2> QED
    BY <1>1, <2>1 DEF Rooted
<1> QED
  BY <1>1, <1>2, <1>3, <1>4, <1>5 DEF CrewInv, Chains, Crew, Readers

\* A call of a tool costs its agent a step, and changes nothing else of it.
LEMMA BeginStep ==
  ASSUME CrewInv, NEW a \in DOMAIN agents, Begin(a)
  PROVE  /\ CrewInv' /\ DOMAIN agents' = DOMAIN agents
         /\ \A b \in DOMAIN agents : /\ agents'[b].run = agents[b].run
                                     /\ agents'[b].perms = agents[b].perms
                                     /\ agents'[b].abandoned = agents[b].abandoned
<1>1. Shape /\ Rooted /\ Chains /\ Crew /\ Readers /\ UNCHANGED <<config, call>>
  BY DEF CrewInv, Begin
<1> DEFINE r == [agents[a] EXCEPT !.left = @ - 1]
<1>2. agents' = [agents EXCEPT ![a] = r]
  BY DEF Begin
<1>3. /\ AgentShape(r) /\ r.perms = agents[a].perms /\ r.abandoned = agents[a].abandoned
      /\ r.run = agents[a].run
  BY <1>1, LeftShape DEF Shape
<1> HIDE DEF r
<1>4. /\ DOMAIN agents' = DOMAIN agents /\ agents' = [b \in DOMAIN agents' |-> agents'[b]]
      /\ agents'[a] = r /\ \A b \in DOMAIN agents \ {a} : agents'[b] = agents[b]
  BY <1>1, <1>2 DEF Shape
<1>5. \A b \in DOMAIN agents : /\ AgentShape(agents'[b])
                              /\ agents'[b].run = agents[b].run
                              /\ agents'[b].perms = agents[b].perms
                              /\ agents'[b].abandoned = agents[b].abandoned
  BY <1>1, <1>3, <1>4 DEF Shape
<1>6. Ours' = Ours /\ Firsts' = Firsts /\ (Parallel(call.tasks)' <=> Parallel(call.tasks))
  BY <1>1, <1>4, <1>5 DEF Ours, Firsts, Parallel
<1>7. Ours \subseteq DOMAIN agents /\ Firsts \subseteq DOMAIN agents
  BY DEF Ours, Firsts
<1>8. Shape'
  BY <1>1, <1>4, <1>5, SameCall DEF Shape
<1>9. Rooted'
  <2> SUFFICES ASSUME NEW b \in DOMAIN agents', Len(b) > 1
               PROVE  /\ Root(b) \in DOMAIN agents' /\ agents'[Root(b)].run = "running"
                      /\ agents'[b].run = "running" /\ agents'[Root(b)].abandoned = agents'[b].abandoned
    BY DEF Rooted, Root
  <2> QED
    BY <1>1, <1>4, <1>5 DEF Rooted
<1>10. Chains' /\ Crew'
  BY <1>1, <1>4, <1>5, <1>6, <1>7 DEF Chains, Crew
<1>11. Readers'
  <2>1. \A b \in DOMAIN agents' : agents'[b].abandoned => b # Lead /\ agents'[b].perms # "work"
    BY <1>1, <1>4, <1>5 DEF Readers
  <2>2. {c \in Firsts' : agents'[c].run = "running"} = {c \in Firsts : agents[c].run = "running"}
    BY <1>5, <1>6, <1>7
  <2>3. \A b \in Ours : agents'[b].perms = agents[b].perms
    BY <1>5, <1>7
  <2> QED
    BY <1>1, <1>6, <2>1, <2>2, <2>3 DEF Readers
<1> QED
  BY <1>4, <1>5, <1>8, <1>9, <1>10, <1>11 DEF CrewInv

LEMMA EndStep ==
  ASSUME CrewInv, NEW a, End(a)
  PROVE  CrewInv' /\ UNCHANGED <<config, agents, call, digests>>
<1>1. UNCHANGED <<config, agents, call, digests>>
  BY DEF End
<1>2. Shape' /\ Rooted' /\ Ours' = Ours /\ Firsts' = Firsts
  BY <1>1 DEF CrewInv, Shape, CallShape, Rooted, Ours, Firsts
<1> QED
  BY <1>1, <1>2 DEF CrewInv, Chains, Crew, Readers, Parallel

LEMMA CrewStep ==
  ASSUME CrewInv, [Next]_vars
  PROVE  CrewInv'
<1>1. CASE UNCHANGED vars
  <2>1. UNCHANGED <<config, agents, call>>
    BY <1>1 DEF vars
  <2>2. Shape' /\ Rooted' /\ Ours' = Ours /\ Firsts' = Firsts
    BY <2>1 DEF CrewInv, Shape, CallShape, Rooted, Ours, Firsts
  <2> QED
    BY <2>1, <2>2 DEF CrewInv, Chains, Crew, Readers, Parallel
<1>2. CASE Next
  <2>1. ASSUME NEW a \in DOMAIN agents, Work(a) \/ Spawn(a) \/ Begin(a) PROVE CrewInv'
    BY <2>1, StartStep, ReturnStep, SpawnStep, BeginStep, EndStep DEF Work
  <2> QED
    BY <1>2, <2>1, OrchestrateStep, ReduceStep, TurnStep, InterruptStep, ClosedStep DEF Next
<1> QED
  BY <1>1, <1>2

\* Of two that may write, one waits: side by side they only read, one after
\* the other the next begins when the first is gone with all below it.
LEMMA WritersTakeTurns == ASSUME CrewInv PROVE TakeTurns
<1>1. Shape /\ Rooted /\ Chains /\ Crew /\ Readers
  BY DEF CrewInv
<1> DEFINE writers == {a \in DOMAIN agents : agents[a].run = "running" /\ agents[a].perms = "work"}
<1>2. \A a \in writers : a # Lead => a \in Ours
  BY <1>1 DEF Readers, Ours
<1>3. ASSUME NEW a \in writers, a # Lead PROVE Waits(Lead, a)
  <2>1. a \in Seq(Nat) /\ a # <<>> /\ Len(Lead) = 0 /\ Lead = <<>>
    BY <1>1, <1>3 DEF Shape, Lead
  <2>2. Len(a) \in Nat /\ Len(a) # 0 /\ SubSeq(a, 1, 0) = <<>>
    BY <2>1
  <2>3. \A k \in Nat : k # 0 => 0 < k
    OBVIOUS
  <2> QED
    BY <2>1, <2>2, <2>3 DEF Waits
<1>4. ASSUME NEW a \in writers, a # Lead PROVE Root(a) \in {c \in Firsts : agents[c].run = "running"} /\ Root(a)[1] = a[1]
  <2>1. a \in Ours /\ a \in Seq(Nat) /\ a # <<>> /\ agents[a].run = "running"
    BY <1>1, <1>2, <1>4 DEF Shape, Lead
  <2>2. Len(a) \in Nat /\ Len(a) # 0
    BY <2>1
  <2>3. \A k \in Nat : k # 0 => k = 1 \/ k > 1
    OBVIOUS
  <2>4. Len(Root(a)) = 1 /\ Root(a)[1] = a[1] /\ Root(a) # Lead
    BY DEF Root, Lead
  <2>5. CASE Len(a) = 1
    <3>1. Root(a) = a
      BY <2>1, <2>5 DEF Root
    <3> QED
      BY <2>1, <2>4, <3>1 DEF Firsts
  <2>6. CASE Len(a) > 1
    BY <1>1, <2>1, <2>4, <2>6 DEF Rooted, Firsts, Ours
  <2> QED
    BY <2>2, <2>3, <2>5, <2>6
<1>5. ASSUME NEW a \in writers, NEW b \in writers, a # Lead, b # Lead PROVE a[1] = b[1]
  <2>1. a \in Ours /\ agents[a].perms = "work"
    BY <1>2, <1>5
  <2>2. call # NoCall => ~Parallel(call.tasks)
    BY <1>1, <2>1 DEF Readers
  <2>3. \A x, y \in {c \in Firsts : agents[c].run = "running"} : x = y
    BY <1>1, <2>2 DEF Readers, Crew
  <2>4. Root(a) = Root(b)
    BY <1>4, <1>5, <2>3
  <2> QED
    BY <1>4, <1>5, <2>4
<1>6. ASSUME NEW a \in writers, NEW b \in writers PROVE a = b \/ Waits(a, b) \/ Waits(b, a)
  <2>1. CASE a = Lead \/ b = Lead
    BY <1>3, <2>1
  <2>2. CASE a # Lead /\ b # Lead
    BY <1>1, <1>2, <1>5, <2>2 DEF Chains
  <2> QED
    BY <2>1, <2>2
<1> QED
  BY <1>6 DEF TakeTurns

-----------------------------------------------------------------------------
(* The calls under way.                                                    *)

\* An agent that waits for a tool waits for nobody else.
Alone(a) == IF a = Lead THEN call = NoCall /\ Ours = {} ELSE Under(a) = {}

Holds(u) ==
  /\ u[1] \in DOMAIN agents /\ agents[u[1]].run = "running" /\ Alone(u[1])
  /\ u[2] = "edit" => u[1] = Lead \/ agents[u[1]].perms = "work"

Hands == /\ \A u \in using : Holds(u)
         /\ \A u, v \in using : u[1] = v[1] => u = v

\* Two that edit are one: of the agents that may, one would wait for the other.
LEMMA HandsApart == ASSUME CrewInv, Hands PROVE OneWriter
<1>1. Shape /\ Readers /\ TakeTurns
  BY WritersTakeTurns DEF CrewInv
<1> SUFFICES ASSUME NEW u \in using, NEW v \in using, u[2] = "edit", v[2] = "edit", u[1] # v[1]
             PROVE  FALSE
  BY DEF OneWriter, Hands
<1>2. Holds(u) /\ Holds(v)
  BY DEF Hands
<1>3. ASSUME NEW b \in DOMAIN agents, b # Lead, agents[b].perms = "work" PROVE b \in Ours
  BY <1>1, <1>3 DEF Readers, Ours
<1>4. CASE u[1] = Lead \/ v[1] = Lead
  BY <1>2, <1>3, <1>4 DEF Holds, Alone
<1>5. CASE u[1] # Lead /\ v[1] # Lead
  <2>1. Waits(u[1], v[1]) \/ Waits(v[1], u[1])
    BY <1>1, <1>2, <1>5 DEF Holds, TakeTurns
  <2>2. Under(u[1]) = {} /\ Under(v[1]) = {}
    BY <1>2, <1>5 DEF Holds, Alone
  <2>3. ASSUME NEW a, NEW b \in DOMAIN agents, Waits(a, b), a \in DOMAIN agents PROVE b \in Under(a)
    <3>1. Len(a) \in Nat /\ Len(b) \in Nat
      BY <1>1, <2>3 DEF Shape
    <3> QED
      BY <2>3, <3>1 DEF Waits, Under
  <2> QED
    BY <1>2, <2>1, <2>2, <2>3 DEF Holds
<1> QED
  BY <1>4, <1>5

\* Only who waits for nobody acts.
LEMMA ActsAlone ==
  ASSUME CrewInv, NEW a \in DOMAIN agents, Acting(a)
  PROVE  agents[a].run = "running" /\ Alone(a) /\ \A u \in using : u[1] # a
<1>1. Shape /\ Rooted
  BY DEF CrewInv
<1>2. CASE a = Lead
  BY <1>1, <1>2, LeadActs DEF Acting, Alone
<1>3. CASE a # Lead
  <2> SUFFICES ASSUME NEW b \in Under(a) PROVE FALSE
    BY <1>3 DEF Acting, Alone
  <2>1. /\ a \in Seq(Nat) /\ a # <<>> /\ b \in Seq(Nat) /\ b \in DOMAIN agents /\ Waits(a, b)
        /\ agents[b].abandoned /\ ~agents[a].abandoned
    BY <1>1, <1>3 DEF Shape, Lead, Under, Waits, Acting
  <2>2. Len(a) \in Nat /\ Len(a) # 0 /\ Len(b) \in Nat /\ Len(b) > Len(a)
    BY <2>1 DEF Waits
  <2>3. Len(b) > 1 /\ (Len(a) = 1 \/ Len(a) > 1)
    <3>1. \A k, n \in Nat : k # 0 /\ n > k => n > 1 /\ (k = 1 \/ k > 1)
      OBVIOUS
    <3> QED
      BY <2>2, <3>1
  <2>4. b[1] = a[1]
    <3>1. PICK m \in Nat : m = Len(a) /\ m \in 0..Len(b) /\ 1 \in 1..m
      BY <2>2
    <3>2. SubSeq(b, 1, m)[1] = b[1]
      BY <2>1, <3>1, SubSeqFacts
    <3> QED
      BY <2>1, <3>1, <3>2 DEF Waits
  <2>5. Root(b) = Root(a)
    BY <2>4 DEF Root
  <2>6. agents[Root(b)].abandoned = agents[b].abandoned
    BY <1>1, <2>1, <2>3 DEF Rooted
  <2>7. CASE Len(a) = 1
    <3>1. Root(a) = a
      BY <2>1, <2>7 DEF Root
    <3> QED
      BY <2>1, <2>5, <2>6, <3>1
  <2>8. CASE Len(a) > 1
    <3>1. agents[Root(a)].abandoned = agents[a].abandoned
      BY <1>1, <2>8 DEF Rooted
    <3> QED
      BY <2>1, <2>5, <2>6, <3>1
  <2> QED
    BY <2>3, <2>7, <2>8
<1> QED
  BY <1>2, <1>3

\* A call goes on while its agent stays, and nobody new comes below it.
LEMMA HandsStay ==
  ASSUME Hands, using' \subseteq using,
         \A u \in using' :
           /\ u[1] \in DOMAIN agents' /\ agents'[u[1]].run = "running"
           /\ agents'[u[1]].perms = agents[u[1]].perms
           /\ IF u[1] = Lead THEN call' = NoCall /\ Ours' \subseteq Ours
              ELSE \A b \in DOMAIN agents' : Waits(u[1], b) => b \in Under(u[1])
  PROVE  Hands'
<1>1. ASSUME NEW u \in using' PROVE Holds(u)'
  <2>1. Holds(u)
    BY DEF Hands
  <2>2. CASE u[1] = Lead
    BY <2>1, <2>2 DEF Holds, Alone
  <2>3. CASE u[1] # Lead
    <3>1. Under(u[1]) = {}
      BY <2>1, <2>3 DEF Holds, Alone
    <3>2. Under(u[1])' = {}
      BY <2>3, <3>1 DEF Under, Waits
    <3> QED
      BY <2>1, <2>3, <3>2 DEF Holds, Alone
  <2> QED
    BY <2>2, <2>3
<1> QED
  BY <1>1 DEF Hands

\* Agents that come, go or change beside it do not disturb a call.
LEMMA HandsBeside ==
  ASSUME CrewInv, Hands, using' \subseteq using, NEW a,
         \A u \in using' : u[1] # a,
         call = NoCall => call' = NoCall,
         \A b \in DOMAIN agents \ {a} : /\ b \in DOMAIN agents' /\ agents'[b].run = agents[b].run
                                         /\ agents'[b].perms = agents[b].perms
                                         /\ agents'[b].abandoned = agents[b].abandoned,
         DOMAIN agents' \subseteq DOMAIN agents,
         a # Lead => (a \in DOMAIN agents' => agents'[a].abandoned = agents[a].abandoned)
  PROVE  Hands'
<1>1. ASSUME NEW u \in using'
      PROVE  /\ u[1] \in DOMAIN agents' /\ agents'[u[1]].run = "running"
             /\ agents'[u[1]].perms = agents[u[1]].perms
             /\ IF u[1] = Lead THEN call' = NoCall /\ Ours' \subseteq Ours
                ELSE \A b \in DOMAIN agents' : Waits(u[1], b) => b \in Under(u[1])
  <2>1. Holds(u) /\ u[1] # a
    BY DEF Hands
  <2>2. CASE u[1] = Lead
    <3>1. Ours' \subseteq Ours
      BY DEF Ours
    <3> QED
      BY <2>1, <2>2, <3>1 DEF Holds, Alone
  <2>3. CASE u[1] # Lead
    <3>1. \A b \in DOMAIN agents' : Waits(u[1], b) => b \in Under(u[1])
      <4>1. \A b \in DOMAIN agents : Len(b) \in Nat
        BY DEF CrewInv, Shape
      <4> QED
        BY <2>1, <4>1 DEF Holds, Waits, Under
    <3> QED
      BY <2>1, <2>3, <3>1 DEF Holds
  <2> QED
    BY <2>2, <2>3
<1> QED
  BY <1>1, HandsStay

\* The new agents of a fan-out are the lead's, and below nobody else.
LEMMA HandsOfFanOut ==
  ASSUME CrewInv, Hands, UNCHANGED using, \A u \in using : u[1] # Lead,
         NEW kind, NEW asked, NEW tasks, NEW over, NEW todo, NEW dropped, NEW sections,
         List(tasks), FanOut(kind, asked, tasks, over, todo, dropped, sections)
  PROVE  Hands'
<1>1. Shape /\ Rooted
  BY DEF CrewInv
<1> DEFINE names == NewNames(Lead, Len(tasks))
<1>2. ASSUME NEW b \in Range(names) PROVE Len(b) = 1
  <2>1. PICK n \in Nat : n = Len(tasks)
    BY DEF List
  <2>2. PICK m \in Nat :
          /\ NewNames(Lead, n) = [i \in 1..n |-> Append(Lead, m + i)]
          /\ \A i \in 1..n : /\ Append(Lead, m + i) \in Seq(Nat) \ DOMAIN agents
                            /\ Len(Append(Lead, m + i)) = Len(Lead) + 1
    BY <1>1, FreshNames DEF Shape
  <2>3. PICK i \in 1..n : b = Append(Lead, m + i)
    BY <1>2, <2>1, <2>2 DEF Range
  <2> QED
    BY <2>2, <2>3 DEF Lead
<1>3. DOMAIN agents' = DOMAIN agents \cup Range(names) /\ \A b \in DOMAIN agents : agents'[b] = agents[b]
  BY DEF FanOut
<1> HIDE DEF names
<1>4. ASSUME NEW u \in using
      PROVE  /\ u[1] \in DOMAIN agents' /\ agents'[u[1]].run = "running"
             /\ agents'[u[1]].perms = agents[u[1]].perms
             /\ IF u[1] = Lead THEN call' = NoCall /\ Ours' \subseteq Ours
                ELSE \A b \in DOMAIN agents' : Waits(u[1], b) => b \in Under(u[1])
  <2>1. Holds(u) /\ u[1] # Lead
    BY DEF Hands
  <2>2. u[1] \in Seq(Nat) /\ u[1] # <<>> /\ \A b \in DOMAIN agents : Len(b) \in Nat
    BY <1>1, <2>1 DEF Holds, Shape, Lead
  <2>3. Len(u[1]) \in Nat /\ Len(u[1]) # 0
    BY <2>2
  <2>4. \A k \in Nat : k # 0 => ~(k < 1)
    OBVIOUS
  <2>5. \A b \in DOMAIN agents' : Waits(u[1], b) => b \in Under(u[1])
    BY <1>2, <1>3, <2>2, <2>3, <2>4 DEF Waits, Under
  <2> QED
    BY <1>3, <2>1, <2>5 DEF Holds
<1> QED
  BY <1>4, HandsStay

\* An agent that spawns is not one that waits for a tool, nor below one.
LEMMA HandsOfSpawn ==
  ASSUME CrewInv, Hands, NEW a \in DOMAIN agents, Spawn(a)
  PROVE  Hands'
<1>1. Shape /\ Rooted /\ UNCHANGED <<using, call>> /\ agents[a].run = "running" /\ \A u \in using : u[1] # a
  BY ActsAlone DEF CrewInv, Spawn
<1>2. PICK m \in Nat :
        /\ NewNames(a, 1) = [i \in 1..1 |-> Append(a, m + i)]
        /\ \A i \in 1..1 : /\ Append(a, m + i) \in Seq(Nat) \ DOMAIN agents
                          /\ Len(Append(a, m + i)) = Len(a) + 1
  BY <1>1, FreshNames
<1>3. PICK k \in Nat : k = m + 1
  OBVIOUS
<1> DEFINE b == NewNames(a, 1)[1]
<1>7. b = Append(a, k) /\ b \notin DOMAIN agents
  <2>1. b = Append(a, m + 1) /\ Append(a, m + 1) \notin DOMAIN agents
    BY <1>2
  <2> QED
    BY <1>3, <2>1
<1>4. /\ DOMAIN agents' = DOMAIN agents \cup {b}
      /\ \A c \in DOMAIN agents \ {a, b} : agents'[c] = agents[c]
      /\ agents'[b] = Child(a, FALSE, "subtask", "running")
  BY DEF Spawn
<1> HIDE DEF b
<1>5. agents'[b].abandoned = agents[a].abandoned
  <2>1. PICK x, p : x = agents[a].abandoned /\ p = ChildPermissions(agents[a].perms, FALSE)
    OBVIOUS
  <2>2. agents'[b] = [perms |-> p, task |-> "subtask", run |-> "running", spawns |-> 0,
                      left |-> SubagentMaxSteps, abandoned |-> x]
    BY <1>4, <2>1, Zenon DEF Child
  <2> QED
    BY <2>1, <2>2
<1>6. ASSUME NEW u \in using
      PROVE  /\ u[1] \in DOMAIN agents' /\ agents'[u[1]].run = "running"
             /\ agents'[u[1]].perms = agents[u[1]].perms
             /\ IF u[1] = Lead THEN call' = NoCall /\ Ours' \subseteq Ours
                ELSE \A c \in DOMAIN agents' : Waits(u[1], c) => c \in Under(u[1])
  <2>1. Holds(u) /\ u[1] # a
    BY <1>1 DEF Hands
  <2>2. a \in Seq(Nat) /\ u[1] \in Seq(Nat) /\ \A c \in DOMAIN agents : c \in Seq(Nat) /\ Len(c) \in Nat
    BY <1>1, <2>1 DEF Shape, Holds
  <2>3. b \notin DOMAIN agents
    BY <1>7
  <2>4. agents'[u[1]] = agents[u[1]] /\ u[1] \in DOMAIN agents'
    BY <1>4, <2>1, <2>3 DEF Holds
  <2>5. CASE u[1] = Lead
    <3>1. a # Lead /\ Ours = {} /\ call' = NoCall
      BY <1>1, <2>1, <2>5 DEF Holds, Alone
    <3>2. agents[a].abandoned
      BY <3>1 DEF Ours
    <3>3. ASSUME NEW c \in Ours' PROVE FALSE
      <4>1. c \in DOMAIN agents' /\ c # Lead /\ ~agents'[c].abandoned
        BY <3>3 DEF Ours
      <4>2. c # b
        BY <1>5, <3>2, <4>1
      <4>3. c = a
        BY <1>4, <3>1, <4>1, <4>2 DEF Ours
      <4>4. agents'[a].abandoned = agents[a].abandoned
        <5>1. AgentShape(agents[a])
          BY <1>1 DEF Shape
        <5>2. a # b
          BY <2>3
        <5>3. PICK x, y : agents'[a] = [agents[a] EXCEPT !.spawns = x, !.left = y]
          BY <5>2 DEF Spawn, b
        <5>4. PICK t : t = [agents[a] EXCEPT !.spawns = x]
          OBVIOUS
        <5>5. /\ t = [perms |-> t.perms, task |-> t.task, run |-> t.run, spawns |-> t.spawns,
                      left |-> t.left, abandoned |-> t.abandoned]
              /\ t.abandoned = agents[a].abandoned
          BY <5>1, <5>4 DEF AgentShape
        <5>6. agents'[a] = [t EXCEPT !.left = y]
          BY <5>3, <5>4
        <5> QED
          BY <5>5, <5>6
      <4> QED
        BY <3>2, <4>1, <4>3, <4>4
    <3> QED
      BY <2>1, <2>4, <2>5, <3>1, <3>3 DEF Holds
  <2>6. CASE u[1] # Lead
    <3>1. Under(u[1]) = {}
      BY <2>1, <2>6 DEF Holds, Alone
    <3>2. ~Waits(u[1], a)
      BY <2>2, <3>1 DEF Waits, Under
    <3>3. ~Waits(u[1], b)
      <4> SUFFICES ASSUME Waits(u[1], b) PROVE FALSE
        OBVIOUS
      <4>1. PICK n \in Nat, l \in Nat : n = Len(a) /\ l = Len(u[1])
        BY <2>2
      <4>2. l <= n /\ SubSeq(b, 1, l) = u[1] /\ b = Append(a, k)
        <5>1. Len(b) = n + 1
          BY <1>7, <2>2, <4>1
        <5> QED
          BY <1>7, <4>1, <5>1 DEF Waits
      <4>3. SubSeq(b, 1, l) = SubSeq(a, 1, l)
        BY <2>2, <4>1, <4>2
      <4>4. CASE l = n
        <5>1. SubSeq(a, 1, n) = a
          BY <2>2, <4>1
        <5> QED
          BY <2>1, <4>2, <4>3, <4>4, <5>1
      <4>5. CASE l < n
        BY <3>2, <4>1, <4>2, <4>3, <4>5 DEF Waits
      <4> QED
        BY <4>1, <4>2, <4>4, <4>5
    <3>4. \A c \in DOMAIN agents' : Waits(u[1], c) => c \in Under(u[1])
      BY <1>4, <2>2, <3>3 DEF Waits, Under
    <3> QED
      BY <2>1, <2>4, <2>6, <3>4 DEF Holds
  <2> QED
    BY <2>5, <2>6
<1> QED
  BY <1>1, <1>6, HandsStay

\* What an interrupt leaves at work goes on with its calls.
LEMMA HandsOfUnwind ==
  ASSUME CrewInv, Hands, NEW S, Unwind(S)
  PROVE  Hands'
<1>1. /\ DOMAIN agents' = DOMAIN agents \ S
      /\ \A a \in DOMAIN agents' : a # Lead => agents'[a] = [agents[a] EXCEPT !.abandoned = TRUE]
      /\ using' = {u \in using : u[1] \notin S \cup {Lead}}
  BY DEF Unwind
<1>2. ASSUME NEW u \in using'
      PROVE  /\ u[1] \in DOMAIN agents' /\ agents'[u[1]].run = "running"
             /\ agents'[u[1]].perms = agents[u[1]].perms
             /\ IF u[1] = Lead THEN call' = NoCall /\ Ours' \subseteq Ours
                ELSE \A b \in DOMAIN agents' : Waits(u[1], b) => b \in Under(u[1])
  <2>1. Holds(u) /\ u[1] # Lead /\ u[1] \notin S
    BY <1>1 DEF Hands
  <2>2. agents'[u[1]] = [agents[u[1]] EXCEPT !.abandoned = TRUE] /\ u[1] \in DOMAIN agents'
    BY <1>1, <2>1 DEF Holds
  <2>3. AgentShape(agents[u[1]])
    BY <2>1 DEF CrewInv, Shape, Holds
  <2>4. agents'[u[1]].run = agents[u[1]].run /\ agents'[u[1]].perms = agents[u[1]].perms
    <3>1. PICK y \in BOOLEAN : agents'[u[1]] = [agents[u[1]] EXCEPT !.abandoned = y]
      BY <2>2
    <3> QED
      BY <2>3, <3>1, CutOffShape
  <2>5. \A b \in DOMAIN agents' : Waits(u[1], b) => b \in Under(u[1])
    <3>1. \A b \in DOMAIN agents : Len(b) \in Nat
      BY DEF CrewInv, Shape
    <3> QED
      BY <1>1, <2>1, <3>1 DEF Holds, Waits, Under
  <2> QED
    BY <2>1, <2>2, <2>4, <2>5 DEF Holds
<1>3. using' \subseteq using
  BY <1>1
<1> QED
  BY <1>2, <1>3, HandsStay

LEMMA HandsOfBegin ==
  ASSUME CrewInv, Hands, NEW a \in DOMAIN agents, Begin(a)
  PROVE  Hands'
<1>1. /\ agents[a].run = "running" /\ Alone(a) /\ (\A u \in using : u[1] # a) /\ UNCHANGED call
      /\ DOMAIN agents' = DOMAIN agents
      /\ \A b \in DOMAIN agents : /\ agents'[b].run = agents[b].run
                                  /\ agents'[b].perms = agents[b].perms
                                  /\ agents'[b].abandoned = agents[b].abandoned
  BY ActsAlone, BeginStep DEF Begin
<1>2. PICK kind \in Writes(a) : using' = using \cup {<<a, kind>>}
  BY DEF Begin
<1>3. ASSUME NEW b \in DOMAIN agents, Alone(b) PROVE Alone(b)'
  <2>1. Ours' = Ours /\ Under(b)' = Under(b)
    BY <1>1 DEF Ours, Under
  <2> QED
    BY <1>1, <1>3, <2>1 DEF Alone
<1>4. ASSUME NEW u \in using PROVE Holds(u)'
  BY <1>1, <1>3 DEF Hands, Holds
<1>5. kind = "edit" => a = Lead \/ agents[a].perms = "work"
  BY <1>2 DEF Writes
<1>6. Holds(<<a, kind>>)'
  <2>1. <<a, kind>>[1] = a /\ <<a, kind>>[2] = kind
    OBVIOUS
  <2> QED
    BY <1>1, <1>3, <1>5, <2>1 DEF Holds
<1>7. ASSUME NEW u \in using', NEW v \in using', u[1] = v[1] PROVE u = v
  <2>1. <<a, kind>>[1] = a
    OBVIOUS
  <2> QED
    BY <1>1, <1>2, <1>7, <2>1 DEF Hands
<1> QED
  BY <1>2, <1>4, <1>6, <1>7 DEF Hands

LEMMA HandsOfPhase ==
  ASSUME CrewInv, Hands, UNCHANGED using, \A u \in using : u[1] # Lead,
         NEW spec, NEW todo, NEW dropped, NEW sections,
         List(todo), todo # <<>>, \A phase \in Range(todo) : List(phase.jobs),
         FanOutPhase(spec, todo, dropped, sections)
  PROVE  Hands'
<1> DEFINE jobs == Head(todo).jobs
<1>1. /\ List(jobs)
      /\ FanOut("workflow", spec, Kept(jobs, MaxSubagentFanout), Over(jobs, MaxSubagentFanout),
                Tail(todo), dropped, sections)
  BY TailList DEF FanOutPhase
<1> HIDE DEF jobs
<1>2. List(Kept(jobs, MaxSubagentFanout))
  BY <1>1, Caps, CutList
<1> QED
  BY <1>1, <1>2, HandsOfFanOut

LEMMA HandsStep ==
  ASSUME CrewInv, Hands, [Next]_vars
  PROVE  Hands'
<1>1. Shape
  BY DEF CrewInv
<1>2. Lead \in DOMAIN agents /\ \A u \in using : u[1] \in DOMAIN agents /\ agents[u[1]].run = "running"
  BY <1>1 DEF Shape, Hands, Holds
<1>3. ASSUME NEW a \in DOMAIN agents, Start(a) PROVE Hands'
  <2>1. UNCHANGED <<using, call>> /\ agents[a].run = "queued"
    BY <1>3 DEF Start
  <2>2. agents' = [agents EXCEPT ![a] = [agents[a] EXCEPT !.run = "running"]]
    BY <1>1, <1>3 DEF Start, Shape
  <2>3. [agents[a] EXCEPT !.run = "running"].abandoned = agents[a].abandoned
    BY <1>1, RunShape DEF Shape
  <2>4. \A u \in using : u[1] # a
    BY <1>2, <2>1
  <2>5. /\ DOMAIN agents' = DOMAIN agents /\ agents'[a].abandoned = agents[a].abandoned
        /\ \A b \in DOMAIN agents \ {a} : agents'[b] = agents[b]
    BY <1>1, <2>2, <2>3 DEF Shape
  <2> QED
    BY <2>1, <2>4, <2>5, HandsBeside
<1>4. ASSUME NEW a \in DOMAIN agents, Return(a) PROVE Hands'
  <2>1. /\ UNCHANGED using /\ \A u \in using : u[1] # a
        /\ call = NoCall => call' = NoCall
        /\ agents' = [b \in DOMAIN agents \ {a} |-> agents[b]]
    BY <1>4, ActsAlone DEF Return, Restrict
  <2>2. /\ DOMAIN agents' = DOMAIN agents \ {a}
        /\ \A b \in DOMAIN agents \ {a} : agents'[b] = agents[b]
    BY <2>1
  <2> QED
    BY <2>1, <2>2, HandsBeside
<1>5. ASSUME NEW a \in DOMAIN agents, End(a) PROVE Hands'
  <2>1. UNCHANGED <<agents, call>> /\ using' = {u \in using : u[1] # a}
    BY <1>5 DEF End
  <2>2. using' \subseteq using /\ \A u \in using' : u[1] # a
    BY <2>1
  <2> QED
    BY <2>1, <2>2, HandsBeside
<1>6. ASSUME Lead \in DOMAIN agents, \A u \in using : u[1] # Lead, UNCHANGED using,
             NEW r, agents' = [agents EXCEPT ![Lead] = r], UNCHANGED call \/ call' = NoCall
      PROVE  Hands'
  <2>1. DOMAIN agents' = DOMAIN agents /\ \A b \in DOMAIN agents \ {Lead} : agents'[b] = agents[b]
    BY <1>1, <1>6 DEF Shape
  <2> QED
    BY <1>6, <2>1, HandsBeside
<1>7. CASE StartTurn
  <2>1. /\ UNCHANGED <<using, call>>
        /\ \E r : agents' = [agents EXCEPT ![Lead] = r]
    BY <1>1, <1>7 DEF StartTurn, Shape
  <2>2. \A u \in using : u[1] # Lead
    BY <1>2, <1>7 DEF StartTurn, Idle
  <2> QED
    BY <1>2, <1>6, <2>1, <2>2
<1>8. CASE EndTurn
  <2>1. /\ UNCHANGED <<using, call>> /\ Acting(Lead)
        /\ \E r : agents' = [agents EXCEPT ![Lead] = r]
    BY <1>1, <1>8 DEF EndTurn, Shape
  <2>2. \A u \in using : u[1] # Lead
    BY <1>2, <2>1, ActsAlone
  <2> QED
    BY <1>2, <1>6, <2>1, <2>2
<1>9. CASE \E spec \in Workflows : Submit(spec)
  <2>1. UNCHANGED <<using, agents, call>>
    BY <1>9 DEF Submit
  <2> QED
    BY <1>2, <2>1, HandsStay DEF Hands, Holds, Alone, Ours, Under, Waits
<1>10. ASSUME \/ \E plan \in Plans : Review(plan)
              \/ \E spec \in Workflows : Workflow(spec)
              \/ Skill
       PROVE  Hands'
  <2>1. Acting(Lead) /\ UNCHANGED using
    BY <1>10 DEF Review, Workflow, Skill, Orchestrates
  <2>2. \A u \in using : u[1] # Lead
    BY <1>2, <2>1, ActsAlone
  <2>3. ASSUME NEW plan \in Plans, Review(plan) PROVE Hands'
    <3>1. List(Kept(ReviewUnits(plan), MaxReviewAreas))
      BY ReviewCovers, Caps, CutList
    <3>2. FanOut("review", plan, Kept(ReviewUnits(plan), MaxReviewAreas),
                 Over(ReviewUnits(plan), MaxReviewAreas), <<>>, <<>>, <<>>)
      BY <2>3 DEF Review
    <3> QED
      BY <2>1, <2>2, <3>1, <3>2, HandsOfFanOut
  <2>4. ASSUME NEW spec \in Workflows, Workflow(spec) PROVE Hands'
    <3> DEFINE phases == PlanPhases(spec)
               todo   == Kept(phases, MaxWorkflowPhases)
    <3>1. List(phases) /\ \A phase \in Range(phases) : List(phase.jobs)
      BY PhaseLists
    <3>2. phases # <<>> /\ FanOutPhase(spec, todo, Over(phases, MaxWorkflowPhases), <<>>)
      BY <2>4 DEF Workflow
    <3> HIDE DEF phases
    <3>3. List(todo) /\ todo # <<>> /\ Range(todo) \subseteq Range(phases)
      BY <3>1, <3>2, Caps, DelegationAssumption, CutList
    <3>4. \A phase \in Range(todo) : List(phase.jobs)
      BY <3>1, <3>3
    <3> HIDE DEF todo
    <3> QED
      BY <2>1, <2>2, <3>2, <3>3, <3>4, HandsOfPhase
  <2>5. ASSUME Skill PROVE Hands'
    <3>1. List(Concerns)
      BY DelegationAssumption DEF List
    <3>2. List(Kept(Concerns, MaxReviewAreas))
      BY <3>1, Caps, CutList
    <3>3. FanOut("skill", <<>>, Kept(Concerns, MaxReviewAreas), <<>>, <<>>, <<>>, <<>>)
      BY <2>5 DEF Skill
    <3> QED
      BY <2>1, <2>2, <3>2, <3>3, HandsOfFanOut
  <2> QED
    BY <1>10, <2>3, <2>4, <2>5
<1>11. CASE Reduce
  <2>1. call # NoCall /\ UNCHANGED using /\ CallShape
    BY <1>1, <1>11 DEF Reduce, Shape
  <2>2. \A u \in using : u[1] # Lead
    BY <2>1 DEF Hands, Holds, Alone
  <2>3. CASE call.todo # <<>>
    <3>1. FanOutPhase(call.asked, call.todo, call.dropped, Append(call.sections, Section))
      BY <1>11, <2>3 DEF Reduce
    <3>2. List(call.todo) /\ \A phase \in Range(call.todo) : List(phase.jobs)
      BY <2>1 DEF CallShape
    <3> QED
      BY <2>1, <2>2, <2>3, <3>1, <3>2, HandsOfPhase
  <2>4. CASE ~(call.todo # <<>>)
    <3>1. call' = NoCall /\ \E r : agents' = [agents EXCEPT ![Lead] = r]
      BY <1>1, <1>11, <2>4 DEF Reduce, Shape
    <3> QED
      BY <1>2, <1>6, <2>1, <2>2, <3>1
  <2> QED
    BY <2>3, <2>4
<1>12. CASE Interrupt
  <2>1. CASE Pooled /\ ~call.closing
    <3>1. UNCHANGED <<agents, using>> /\ call # NoCall
      BY <1>12, <2>1 DEF Interrupt, Pooled
    <3>2. \A u \in using : u[1] # Lead
      BY <3>1 DEF Hands, Holds, Alone
    <3> QED
      BY <1>2, <3>1, <3>2, HandsBeside
  <2>2. CASE ~(Pooled /\ ~call.closing)
    <3>1. \E S : Unwind(S)
      BY <1>12, <2>2 DEF Interrupt
    <3> QED
      BY <3>1, HandsOfUnwind
  <2> QED
    BY <2>1, <2>2
<1>13. CASE Closed
  BY <1>13, HandsOfUnwind DEF Closed
<1>14. CASE UNCHANGED vars
  BY <1>14 DEF vars, Hands, Holds, Alone, Ours, Under
<1>15. ASSUME NEW a \in DOMAIN agents, Work(a) \/ Spawn(a) \/ Begin(a) PROVE Hands'
  BY <1>3, <1>4, <1>5, <1>15, HandsOfSpawn, HandsOfBegin DEF Work
<1> QED
  BY <1>7, <1>8, <1>9, <1>10, <1>11, <1>12, <1>13, <1>14, <1>15 DEF Next

\* No two calls that edit the workspace are ever under way at once (OneWriter),
\* at any depth and width, and after any number of interrupts: the agents that
\* may edit take turns (the children of a pool are denied the editing tools, and
\* run_subagent hands on no more than the parent may), and who takes its turn
\* waits for one call, with nobody at work below it.  Of the tools the gate takes
\* for readers it says nothing.
THEOREM WritersWait == Spec => []OneWriter
<1>1. Init => CrewInv /\ Hands
  BY CrewInit DEF Init, Hands
<1>2. CrewInv /\ Hands /\ [Next]_vars => CrewInv' /\ Hands'
  BY CrewStep, HandsStep
<1>3. CrewInv /\ Hands => OneWriter
  BY HandsApart
<1> QED
  BY <1>1, <1>2, <1>3, PTL DEF Spec

-----------------------------------------------------------------------------
(* What the digests speak of.                                              *)

Heard(sections) == UNION {section.told \cup section.over : section \in Range(sections)}

\* A review that speaks of these leaves no folder and no area out.
ReviewTold(asked, said) ==
  /\ \A dir \in Range(Dirs) : \E u \in said \ {Bucket} : Top[u] = dir
  /\ \A u \in Range(asked) \ {Vague} : u \in said \/ (u \in Range(Listed(asked)) /\ Bucket \in said)
  /\ Range(asked) \subseteq {Vague} =>
       \A f \in Range(RootFiles) : \/ f \in Range(Listed(asked)) /\ Bucket \in said
                                  \/ f \in Range(Over(RootFiles, MaxListed))

\* The call in hand speaks, or will, of all it was asked for.
CallTells ==
  call # NoCall =>
    /\ List(call.sections)
    /\ call.kind # "workflow" => call.todo = <<>>
    /\ call.kind = "review" => ReviewTold(call.asked, Range(call.tasks) \cup Range(call.over))
    /\ call.kind = "workflow" => call.asked \in Workflows
    /\ call.kind = "workflow" =>
         \A phase \in Range(PlanPhases(call.asked)) :
           \/ phase \in Range(call.dropped) \/ phase \in Range(call.todo)
           \/ Range(phase.jobs) \subseteq Range(call.tasks) \cup Range(call.over) \cup Heard(call.sections)

\* A child has the task of its slot.
Assigned ==
  call # NoCall =>
    \A i \in DOMAIN call.names :
      call.names[i] \in DOMAIN agents => agents[call.names[i]].task = call.tasks[i]

TellsInv == CrewInv /\ CallTells /\ List(digests) /\ NothingSkipped

\* The call goes on.
Continues ==
  /\ call # NoCall /\ call' # NoCall
  /\ call'.kind = call.kind /\ call'.asked = call.asked /\ call'.tasks = call.tasks
  /\ call'.over = call.over /\ call'.names = call.names /\ call'.todo = call.todo
  /\ call'.dropped = call.dropped /\ call'.sections = call.sections

LEMMA DeliverCall ==
  ASSUME CallShape, call # NoCall, NEW i, NEW r, call' = [call EXCEPT !.results = Deliver(@, i, r)]
  PROVE  Continues /\ call'.results = [call.results EXCEPT ![i] = r]
<1> DEFINE results == Deliver(call.results, i, r)
<1>1. call = [kind |-> call.kind, asked |-> call.asked, tasks |-> call.tasks, over |-> call.over,
              names |-> call.names, results |-> call.results, todo |-> call.todo,
              dropped |-> call.dropped, sections |-> call.sections, closing |-> call.closing]
  BY DEF CallShape
<1>2. call' = [call EXCEPT !.results = results]
  BY <1>1
<1> HIDE DEF results
<1>3. /\ call'.kind = call.kind /\ call'.asked = call.asked /\ call'.tasks = call.tasks
      /\ call'.over = call.over /\ call'.names = call.names /\ call'.todo = call.todo
      /\ call'.dropped = call.dropped /\ call'.sections = call.sections
      /\ call'.results = results
  BY <1>1, <1>2
<1>4. call' # NoCall
  BY <1>3, NamedCall DEF NoCall
<1>5. results = [call.results EXCEPT ![i] = r]
  BY DEF results, Deliver
<1> QED
  BY <1>3, <1>4, <1>5 DEF Continues

\* What a fan-out puts into the call, and that its children have their tasks.
LEMMA FanOutCall ==
  ASSUME Shape, Rooted,
         NEW kind \in {"review", "workflow", "skill"}, NEW asked, NEW tasks, NEW over, NEW todo,
         NEW dropped, NEW sections, List(tasks),
         FanOut(kind, asked, tasks, over, todo, dropped, sections)
  PROVE  /\ call' # NoCall
         /\ call'.kind = kind /\ call'.asked = asked /\ call'.tasks = tasks /\ call'.over = over
         /\ call'.todo = todo /\ call'.dropped = dropped /\ call'.sections = sections
         /\ call'.results = [i \in DOMAIN tasks |-> Pending]
         /\ Assigned'
<1>1. PICK n \in Nat : n = Len(tasks) /\ DOMAIN tasks = 1..n
  BY DEF List
<1>2. PICK m \in Nat :
        /\ NewNames(Lead, n) = [i \in 1..n |-> Append(Lead, m + i)]
        /\ \A i \in 1..n : /\ Append(Lead, m + i) \in Seq(Nat) \ DOMAIN agents
                          /\ Len(Append(Lead, m + i)) = Len(Lead) + 1
  BY FreshNames DEF Shape
<1> DEFINE names == [i \in 1..n |-> <<m + i>>]
<1>3. NewNames(Lead, n) = names /\ DOMAIN names = 1..n
  BY <1>2 DEF Lead
<1>4. \A i \in 1..n : names[i] \notin DOMAIN agents /\ names[i] \in Range(names)
  <2>1. \A i \in 1..n : names[i] = Append(Lead, m + i)
    BY DEF Lead
  <2> HIDE DEF names
  <2> QED
    BY <1>2, <1>3, <2>1 DEF Range
<1>5. \A i, j \in 1..n : names[i] = names[j] => i = j
  OBVIOUS
<1> HIDE DEF names
<1>6. ASSUME NEW i \in 1..n PROVE SlotOf(names, names[i]) = i
  <2>1. \A j \in DOMAIN names : names[j] = names[i] <=> j = i
    BY <1>3, <1>5
  <2> QED
    BY <1>3, <2>1 DEF SlotOf
<1> DEFINE open == [i \in DOMAIN tasks |-> Pending]
<1>7. call' = [kind |-> kind, asked |-> asked, tasks |-> tasks, over |-> over,
               names |-> names, results |-> open, todo |-> todo,
               dropped |-> dropped, sections |-> sections, closing |-> FALSE]
  BY <1>1, <1>3 DEF FanOut
<1> HIDE DEF open
<1>8. /\ call'.kind = kind /\ call'.asked = asked /\ call'.tasks = tasks /\ call'.over = over
      /\ call'.names = names /\ call'.results = open
      /\ call'.todo = todo /\ call'.dropped = dropped /\ call'.sections = sections
  BY <1>7
<1>9. call' # NoCall
  BY <1>8 DEF NoCall
<1>10. ASSUME NEW i \in 1..n PROVE agents'[names[i]].task = tasks[i]
  <2>1. agents'[names[i]] = Child(Lead, Parallel(tasks), tasks[SlotOf(names, names[i])], "queued")
    BY <1>1, <1>3, <1>4 DEF FanOut
  <2>2. PICK p, x, t : agents'[names[i]] = [perms |-> p, task |-> t, run |-> "queued", spawns |-> 0,
                                            left |-> SubagentMaxSteps, abandoned |-> x]
                       /\ t = tasks[i]
    BY <1>6, <2>1 DEF Child
  <2> QED
    BY <2>2
<1>11. Assigned'
  BY <1>3, <1>8, <1>10 DEF Assigned
<1> QED
  BY <1>8, <1>9, <1>11 DEF open

\* A call that goes on, or ends without a digest, speaks as it did.
LEMMA QuietStep ==
  ASSUME CallTells, List(digests), NothingSkipped,
         UNCHANGED call \/ Continues \/ call' = NoCall,
         UNCHANGED digests \/ digests' = <<>>
  PROVE  CallTells' /\ List(digests)' /\ NothingSkipped'
<1>1. CallTells'
  <2>1. CASE UNCHANGED call
    BY <2>1 DEF CallTells
  <2>2. CASE Continues
    BY <2>2 DEF CallTells, Continues
  <2>3. CASE call' = NoCall
    BY <2>3 DEF CallTells
  <2> QED
    BY <2>1, <2>2, <2>3
<1>2. List(digests)' /\ NothingSkipped'
  <2>1. CASE UNCHANGED digests
    BY <2>1 DEF NothingSkipped, List
  <2>2. CASE digests' = <<>>
    <3>1. Range(digests)' = {} /\ List(digests)'
      BY <2>2, EmptyList DEF List, Range
    <3> QED
      BY <3>1 DEF NothingSkipped
  <2> QED
    BY <2>1, <2>2
<1> QED
  BY <1>1, <1>2

\* Only a fan-out and the end of one do more.
LEMMA QuietOrNot ==
  ASSUME CrewInv, [Next]_vars
  PROVE  \/ /\ UNCHANGED call \/ Continues \/ call' = NoCall
            /\ UNCHANGED digests \/ digests' = <<>>
         \/ \E plan \in Plans : Review(plan)
         \/ \E spec \in Workflows : Workflow(spec) \/ Submit(spec)
         \/ Skill \/ Reduce
<1>1. CallShape
  BY DEF CrewInv, Shape
<1>2. ASSUME NEW a \in DOMAIN agents, Work(a) \/ Spawn(a) \/ Begin(a)
      PROVE  (UNCHANGED call \/ Continues) /\ UNCHANGED digests
  <2>1. CASE Start(a) \/ Spawn(a) \/ Begin(a) \/ End(a)
    BY <2>1 DEF Start, Spawn, Begin, End
  <2>2. CASE Return(a)
    <3>1. UNCHANGED digests
      BY <2>2 DEF Return
    <3>2. UNCHANGED call \/ (call # NoCall /\ \E i, r : call' = [call EXCEPT !.results = Deliver(@, i, r)])
      BY <2>2 DEF Return
    <3> QED
      BY <1>1, <3>1, <3>2, DeliverCall
  <2> QED
    BY <1>2, <2>1, <2>2 DEF Work
<1>3. CASE Interrupt
  <2>1. UNCHANGED digests
    BY <1>3 DEF Interrupt
  <2>2. CASE Pooled /\ ~call.closing
    <3>1. call # NoCall /\ \E y \in BOOLEAN : call' = [call EXCEPT !.closing = y]
      BY <1>3, <2>2 DEF Interrupt, Pooled
    <3>2. Continues
      BY <1>1, <3>1, ClosingCall DEF Continues
    <3> QED
      BY <2>1, <3>2
  <2>3. CASE ~(Pooled /\ ~call.closing)
    BY <1>3, <2>1, <2>3 DEF Interrupt, Unwind
  <2> QED
    BY <2>2, <2>3
<1>4. CASE StartTurn \/ EndTurn \/ Closed
  BY <1>4 DEF StartTurn, EndTurn, Closed, Unwind
<1>5. CASE UNCHANGED vars
  BY <1>5 DEF vars
<1> QED
  BY <1>2, <1>3, <1>4, <1>5 DEF Next

\* A phase that begins was asked for; what it does not take it names.
LEMMA PhaseTells ==
  ASSUME CrewInv, NEW spec \in Workflows, NEW todo, NEW dropped, NEW sections,
         List(todo), todo # <<>>, \A phase \in Range(todo) : List(phase.jobs), List(sections),
         \A phase \in Range(PlanPhases(spec)) :
           \/ phase \in Range(dropped) \/ phase \in Range(todo)
           \/ Range(phase.jobs) \subseteq Heard(sections),
         FanOutPhase(spec, todo, dropped, sections)
  PROVE  CallTells'
<1> DEFINE jobs == Head(todo).jobs
           kept == Kept(jobs, MaxSubagentFanout)
           over == Over(jobs, MaxSubagentFanout)
<1>1. /\ List(jobs) /\ Range(todo) = {Head(todo)} \cup Range(Tail(todo))
      /\ FanOut("workflow", spec, kept, over, Tail(todo), dropped, sections)
  BY TailList DEF FanOutPhase
<1>2. List(kept) /\ Range(kept) \cup Range(over) = Range(jobs)
  <2> HIDE DEF jobs
  <2> QED
    BY <1>1, Caps, CutList
<1>3. Shape /\ Rooted
  BY DEF CrewInv
<1> HIDE DEF kept, over
<1>4. /\ call'.kind = "workflow" /\ call'.asked = spec /\ call'.tasks = kept /\ call'.over = over
      /\ call'.todo = Tail(todo) /\ call'.dropped = dropped /\ call'.sections = sections
  BY <1>1, <1>2, <1>3, FanOutCall
<1>5. ASSUME NEW phase \in Range(PlanPhases(spec))
      PROVE  \/ phase \in Range(dropped) \/ phase \in Range(Tail(todo))
             \/ Range(phase.jobs) \subseteq Range(kept) \cup Range(over) \cup Heard(sections)
  BY <1>1, <1>2
<1> HIDE DEF jobs
<1> QED
  BY <1>4, <1>5 DEF CallTells

LEMMA ReviewTells ==
  ASSUME CrewInv, NEW plan \in Plans, Review(plan)
  PROVE  CallTells'
<1> DEFINE units == ReviewUnits(plan)
           kept  == Kept(units, MaxReviewAreas)
           over  == Over(units, MaxReviewAreas)
<1>1. Shape /\ Rooted /\ FanOut("review", plan, kept, over, <<>>, <<>>, <<>>)
  BY DEF CrewInv, Review
<1>2. List(units) /\ ReviewTold(plan, Range(units))
  BY ReviewCovers DEF ReviewTold
<1> HIDE DEF units
<1>3. List(kept) /\ Range(kept) \cup Range(over) = Range(units)
  BY <1>2, Caps, CutList
<1> HIDE DEF kept, over
<1>4. PICK kind \in {"review", "workflow", "skill"}, none \in {<<>>} : kind = "review" /\ none = <<>>
  OBVIOUS
<1>5. FanOut(kind, plan, kept, over, none, none, none)
  BY <1>1, <1>4
<1>6. /\ call'.kind = kind /\ call'.asked = plan /\ call'.tasks = kept /\ call'.over = over
      /\ call'.todo = none /\ call'.sections = none
  BY <1>1, <1>3, <1>5, FanOutCall
<1> QED
  BY <1>2, <1>3, <1>4, <1>6, EmptyList DEF CallTells

LEMMA WorkflowTells ==
  ASSUME CrewInv, NEW spec \in Workflows, Workflow(spec)
  PROVE  CallTells'
<1> DEFINE phases == PlanPhases(spec)
           todo   == Kept(phases, MaxWorkflowPhases)
           over   == Over(phases, MaxWorkflowPhases)
<1>1. List(phases) /\ \A phase \in Range(phases) : List(phase.jobs)
  BY PhaseLists
<1>2. phases # <<>> /\ FanOutPhase(spec, todo, over, <<>>)
  BY DEF Workflow
<1> HIDE DEF phases
<1>3. /\ List(todo) /\ todo # <<>> /\ Range(todo) \cup Range(over) = Range(phases)
  BY <1>1, <1>2, Caps, DelegationAssumption, CutList
<1> HIDE DEF todo, over
<1>4. /\ \A phase \in Range(todo) : List(phase.jobs)
      /\ \A phase \in Range(phases) : phase \in Range(over) \/ phase \in Range(todo)
  BY <1>1, <1>3
<1> QED
  BY <1>2, <1>3, <1>4, EmptyList, PhaseTells DEF phases

LEMMA SkillTells == ASSUME CrewInv, Skill PROVE CallTells'
<1>1. List(Concerns)
  BY DelegationAssumption DEF List
<1> DEFINE kept == Kept(Concerns, MaxReviewAreas)
<1>2. List(kept)
  BY <1>1, Caps, CutList
<1>3. Shape /\ Rooted /\ FanOut("skill", <<>>, kept, <<>>, <<>>, <<>>, <<>>)
  BY DEF CrewInv, Skill
<1> HIDE DEF kept
<1>4. call'.kind = "skill" /\ call'.todo = <<>> /\ call'.sections = <<>>
  BY <1>2, <1>3, FanOutCall
<1> QED
  BY <1>4, EmptyList DEF CallTells

\* What has been heard stays heard, and the section adds what the call did.
LEMMA HeardMore ==
  ASSUME List(call.sections)
  PROVE  LET sections == Append(call.sections, Section)
         IN  /\ List(sections)
             /\ Heard(sections) = Range(call.tasks) \cup Range(call.over) \cup Heard(call.sections)
<1> DEFINE sections == Append(call.sections, Section)
<1>1. call.sections \in Seq(Range(call.sections))
  BY DEF List
<1>2. Range(sections) = Range(call.sections) \cup {Section}
  BY <1>1, AppendRange
<1>3. List(sections)
  <2>1. call.sections \in Seq(Range(call.sections) \cup {Section})
    BY <1>1
  <2>2. sections \in Seq(Range(call.sections) \cup {Section})
    BY <2>1
  <2> HIDE DEF sections
  <2> QED
    BY <2>2, SeqIsList
<1>4. Section.told = Range(call.tasks) /\ Section.over = Range(call.over)
  BY DEF Section
<1> HIDE DEF sections
<1>5. Heard(sections) = Range(call.tasks) \cup Range(call.over) \cup Heard(call.sections)
  BY <1>2, <1>4 DEF Heard
<1> QED
  BY <1>3, <1>5 DEF sections

\* A digest leaves nothing out.
DigestTells(d) ==
  /\ d.kind = "review" => ReviewTold(d.asked, Spoken(d))
  /\ d.kind = "workflow" =>
       \A phase \in Range(PlanPhases(d.asked)) :
         phase \in Range(d.dropped) \/ Range(phase.jobs) \subseteq Spoken(d)
  /\ d.kind = "submitted" =>
       \A phase \in Range(PlanPhases(d.asked)) :
         \/ phase \in Range(d.handed)
         \/ phase \in Range(Over(PlanPhases(d.asked), MaxWorkflowPhases))

LEMMA OneMore ==
  ASSUME List(digests), NothingSkipped, NEW d, DigestTells(d), digests' = Append(digests, d)
  PROVE  List(digests)' /\ NothingSkipped'
<1>1. digests \in Seq(Range(digests))
  BY DEF List
<1>2. Range(digests') = Range(digests) \cup {d}
  BY <1>1, AppendRange
<1>3. List(digests')
  <2>1. digests \in Seq(Range(digests) \cup {d})
    BY <1>1
  <2>2. digests' \in Seq(Range(digests) \cup {d})
    BY <2>1
  <2> QED
    BY <2>2, SeqIsList
<1>4. NothingSkipped <=> \A e \in Range(digests) : DigestTells(e)
  BY DEF NothingSkipped, DigestTells, ReviewTold, Filed
<1>5. NothingSkipped' <=> \A e \in Range(digests') : DigestTells(e)
  BY DEF NothingSkipped, DigestTells, ReviewTold, Filed
<1>6. \A e \in Range(digests') : DigestTells(e)
  BY <1>2, <1>4
<1> QED
  BY <1>3, <1>5, <1>6 DEF List

\* A workflow that goes to the background is handed what the cap leaves.
LEMMA SubmitTells ==
  ASSUME TellsInv, NEW spec \in Workflows, Submit(spec)
  PROVE  CallTells' /\ List(digests)' /\ NothingSkipped'
<1> DEFINE phases == PlanPhases(spec)
           handed == Kept(phases, MaxWorkflowPhases)
           d == [kind |-> "submitted", asked |-> spec, sections |-> <<>>, dropped |-> <<>>,
                 handed |-> handed]
<1>1. UNCHANGED call /\ digests' = Append(digests, d)
  BY DEF Submit
<1>2. Range(handed) \cup Range(Over(phases, MaxWorkflowPhases)) = Range(phases)
  BY PhaseLists, Caps, CutList
<1> HIDE DEF handed
<1>3. d.kind = "submitted" /\ d.asked = spec /\ d.handed = handed
  OBVIOUS
<1> HIDE DEF d
<1>4. DigestTells(d)
  BY <1>2, <1>3 DEF DigestTells
<1> QED
  BY <1>1, <1>4, OneMore DEF TellsInv, CallTells

LEMMA ToldMore ==
  ASSUME NEW asked, NEW S, NEW T, S \subseteq T, ReviewTold(asked, S)
  PROVE  ReviewTold(asked, T)
BY DEF ReviewTold

LEMMA ReduceTells ==
  ASSUME TellsInv, Reduce
  PROVE  CallTells' /\ List(digests)' /\ NothingSkipped'
<1> DEFINE sections == Append(call.sections, Section)
<1>1. CrewInv /\ Shape /\ call # NoCall /\ CallShape /\ CallTells /\ List(digests) /\ NothingSkipped
  BY DEF TellsInv, CrewInv, Shape, Reduce
<1>2. List(sections) /\ Heard(sections) = Range(call.tasks) \cup Range(call.over) \cup Heard(call.sections)
  BY <1>1, HeardMore DEF CallTells
<1>3. /\ call.kind # "workflow" => call.todo = <<>>
      /\ call.kind = "review" => ReviewTold(call.asked, Range(call.tasks) \cup Range(call.over))
      /\ call.kind = "workflow" => call.asked \in Workflows
      /\ call.kind = "workflow" =>
           \A phase \in Range(PlanPhases(call.asked)) :
             \/ phase \in Range(call.dropped) \/ phase \in Range(call.todo)
             \/ Range(phase.jobs) \subseteq Heard(sections)
  BY <1>1, <1>2 DEF CallTells
<1> HIDE DEF sections
<1>4. CASE call.todo # <<>>
  <2>1. FanOutPhase(call.asked, call.todo, call.dropped, sections) /\ UNCHANGED digests
    BY <1>4 DEF Reduce, sections
  <2>2. call.kind = "workflow"
    BY <1>3, <1>4
  <2>3. List(call.todo) /\ \A phase \in Range(call.todo) : List(phase.jobs)
    BY <1>1 DEF CallShape
  <2>4. CallTells'
    BY <1>1, <1>2, <1>3, <1>4, <2>1, <2>2, <2>3, PhaseTells
  <2> QED
    BY <1>1, <2>1, <2>4 DEF NothingSkipped, List
<1>5. CASE ~(call.todo # <<>>)
  <2> DEFINE d == [kind |-> call.kind, asked |-> call.asked, sections |-> sections, dropped |-> call.dropped,
                  handed |-> <<>>]
  <2>1. call' = NoCall /\ digests' = Append(digests, d)
    BY <1>5 DEF Reduce, sections
  <2>2. d.kind = call.kind /\ d.asked = call.asked /\ d.sections = sections /\ d.dropped = call.dropped
    OBVIOUS
  <2> HIDE DEF d
  <2>3. Spoken(d) = Heard(sections)
    BY <2>2 DEF Spoken, Heard
  <2>4. d.kind = "review" => ReviewTold(d.asked, Spoken(d))
    BY <1>2, <1>3, <2>2, <2>3, ToldMore
  <2>5. d.kind = "workflow" =>
          \A phase \in Range(PlanPhases(d.asked)) :
            phase \in Range(d.dropped) \/ Range(phase.jobs) \subseteq Spoken(d)
    BY <1>3, <1>5, <2>2, <2>3, EmptyList
  <2>6. d.kind # "submitted"
    BY <1>1, <2>2, NamedCall
  <2>7. DigestTells(d)
    BY <2>4, <2>5, <2>6 DEF DigestTells
  <2> QED
    BY <1>1, <2>1, <2>7, OneMore DEF CallTells
<1> QED
  BY <1>4, <1>5

\* The digests leave nothing out without a word (NothingSkipped): the units of
\* a review cover the repository (_balance_plan), what the caps cut off is
\* named, and every phase that is not dropped comes to its section.
THEOREM DigestsTellAll == Spec => []NothingSkipped
<1>1. Init => TellsInv
  <2> SUFFICES ASSUME Init PROVE TellsInv
    OBVIOUS
  <2>1. CrewInv /\ call = NoCall /\ digests = <<>>
    BY CrewInit DEF Init
  <2>2. List(digests) /\ Range(digests) = {}
    BY <2>1, EmptyList
  <2> QED
    BY <2>1, <2>2 DEF TellsInv, CallTells, NothingSkipped
<1>2. TellsInv /\ [Next]_vars => TellsInv'
  <2> SUFFICES ASSUME TellsInv, [Next]_vars PROVE TellsInv'
    OBVIOUS
  <2>1. CrewInv /\ CrewInv' /\ CallTells /\ List(digests) /\ NothingSkipped
    BY CrewStep DEF TellsInv
  <2>2. CASE /\ UNCHANGED call \/ Continues \/ call' = NoCall
             /\ UNCHANGED digests \/ digests' = <<>>
    BY <2>1, <2>2, QuietStep DEF TellsInv
  <2>3. CASE \/ \E plan \in Plans : Review(plan)
             \/ \E spec \in Workflows : Workflow(spec)
             \/ Skill
    <3>1. CallTells'
      BY <2>1, <2>3, ReviewTells, WorkflowTells, SkillTells
    <3>2. UNCHANGED digests
      BY <2>3 DEF Review, Workflow, Skill
    <3> QED
      BY <2>1, <3>1, <3>2 DEF TellsInv, NothingSkipped, List
  <2>4. CASE Reduce \/ \E spec \in Workflows : Submit(spec)
    BY <2>1, <2>4, ReduceTells, SubmitTells DEF TellsInv
  <2> QED
    BY <2>1, <2>2, <2>3, <2>4, QuietOrNot
<1>3. TellsInv => NothingSkipped
  BY DEF TellsInv
<1> QED
  BY <1>1, <1>2, <1>3, PTL DEF Spec

-----------------------------------------------------------------------------
(* A fan-out is a map that keeps the order.                                *)

LEMMA TaskStays ==
  ASSUME NEW r, AgentShape(r), NEW x
  PROVE  /\ [r EXCEPT !.run = x].task = r.task
         /\ [r EXCEPT !.spawns = x].task = r.task
         /\ [r EXCEPT !.left = x].task = r.task
         /\ [r EXCEPT !.abandoned = x].task = r.task
BY DEF AgentShape

LEMMA AnswerStep ==
  ASSUME CrewInv, Assigned, NEW b \in DOMAIN agents, Return(b)
  PROVE  \/ UNCHANGED call
         \/ Continues /\ \E i \in DOMAIN call.tasks : Map!Answer(i)
<1>1. CallShape /\ Crew
  BY DEF CrewInv, Shape
<1> SUFFICES ASSUME call # NoCall, b \in Range(call.names),
                    NEW r \in Results(agents[b].task),
                    call' = [call EXCEPT !.results = Deliver(@, SlotOf(call.names, b), r)]
             PROVE  Continues /\ \E i \in DOMAIN call.tasks : Map!Answer(i)
  BY DEF Return
<1>2. PICK i \in DOMAIN call.names : i = SlotOf(call.names, b) /\ call.names[i] = b
  BY DEF SlotOf, Range
<1>3. Continues /\ call'.results = [call.results EXCEPT ![i] = r]
  BY <1>1, <1>2, DeliverCall
<1>4. i \in DOMAIN call.tasks /\ call.results[i] = Pending /\ r \in Results(call.tasks[i])
  BY <1>1, <1>2 DEF CallShape, List, Crew, Assigned
<1>5. Map!Answer(i)
  BY <1>3, <1>4 DEF Map!Answer, Continues
<1> QED
  BY <1>3, <1>4, <1>5

\* A fan-out hands its tasks over, in the place of a list that is answered.
LEMMA SubmitStep ==
  ASSUME CrewInv, NEW kind \in {"review", "workflow", "skill"}, NEW asked, NEW tasks, NEW over,
         NEW todo, NEW dropped, NEW sections, List(tasks),
         FanOut(kind, asked, tasks, over, todo, dropped, sections),
         call = NoCall \/ Complete
  PROVE  Map!Submit /\ Assigned'
<1>1. /\ call'.tasks = tasks /\ call'.results = [i \in DOMAIN tasks |-> Pending] /\ Assigned'
  BY FanOutCall DEF CrewInv
<1>2. \A i \in DOMAIN call.results : call.results[i] # Pending
  <2>1. CASE call = NoCall
    <3>1. call.results = <<>>
      BY <2>1 DEF NoCall
    <3> QED
      BY <3>1
  <2> QED
    BY <2>1 DEF Complete
<1> QED
  BY <1>1, <1>2 DEF Map!Submit, Map!Complete

LEMMA PhaseSubmits ==
  ASSUME CrewInv, NEW spec, NEW todo, NEW dropped, NEW sections, List(todo), todo # <<>>,
         \A phase \in Range(todo) : List(phase.jobs),
         FanOutPhase(spec, todo, dropped, sections), call = NoCall \/ Complete
  PROVE  Map!Submit /\ Assigned'
<1> DEFINE jobs == Head(todo).jobs
           kept == Kept(jobs, MaxSubagentFanout)
           over == Over(jobs, MaxSubagentFanout)
<1>1. /\ List(jobs) /\ FanOut("workflow", spec, kept, over, Tail(todo), dropped, sections)
  BY TailList DEF FanOutPhase
<1>2. List(kept)
  <2> HIDE DEF jobs
  <2> QED
    BY <1>1, Caps, CutList
<1> HIDE DEF kept, over
<1>3. PICK kind \in {"review", "workflow", "skill"} : kind = "workflow"
  OBVIOUS
<1>4. FanOut(kind, spec, kept, over, Tail(todo), dropped, sections)
  BY <1>1, <1>3
<1> QED
  BY <1>2, <1>4, SubmitStep

LEMMA OrchestrateSubmits ==
  ASSUME CrewInv, \/ \E plan \in Plans : Review(plan)
                  \/ \E spec \in Workflows : Workflow(spec)
                  \/ Skill
  PROVE  Map!Submit /\ Assigned'
<1>1. call = NoCall
  BY DEF Review, Workflow, Skill, Orchestrates, Acting
<1>2. PICK review \in {"review", "workflow", "skill"}, skill \in {"review", "workflow", "skill"}, none \in {<<>>} :
        review = "review" /\ skill = "skill" /\ none = <<>>
  OBVIOUS
<1>3. ASSUME NEW plan \in Plans, Review(plan) PROVE Map!Submit /\ Assigned'
  <2> DEFINE kept == Kept(ReviewUnits(plan), MaxReviewAreas)
             over == Over(ReviewUnits(plan), MaxReviewAreas)
  <2>1. List(kept)
    BY ReviewCovers, Caps, CutList
  <2>2. FanOut("review", plan, kept, over, <<>>, <<>>, <<>>)
    BY <1>3 DEF Review
  <2> HIDE DEF kept, over
  <2>3. FanOut(review, plan, kept, over, none, none, none)
    BY <1>2, <2>2
  <2> QED
    BY <1>1, <2>1, <2>3, SubmitStep
<1>4. ASSUME NEW spec \in Workflows, Workflow(spec) PROVE Map!Submit /\ Assigned'
  <2> DEFINE phases == PlanPhases(spec)
             todo   == Kept(phases, MaxWorkflowPhases)
  <2>1. List(phases) /\ \A phase \in Range(phases) : List(phase.jobs)
    BY PhaseLists
  <2>2. phases # <<>> /\ FanOutPhase(spec, todo, Over(phases, MaxWorkflowPhases), <<>>)
    BY <1>4 DEF Workflow
  <2> HIDE DEF phases
  <2>3. List(todo) /\ todo # <<>> /\ Range(todo) \subseteq Range(phases)
    BY <2>1, <2>2, Caps, DelegationAssumption, CutList
  <2>4. \A phase \in Range(todo) : List(phase.jobs)
    BY <2>1, <2>3
  <2> HIDE DEF todo
  <2> QED
    BY <1>1, <2>2, <2>3, <2>4, PhaseSubmits
<1>5. ASSUME Skill PROVE Map!Submit /\ Assigned'
  <2> DEFINE kept == Kept(Concerns, MaxReviewAreas)
  <2>1. List(Concerns)
    BY DelegationAssumption DEF List
  <2>2. List(kept)
    BY <2>1, Caps, CutList
  <2>3. FanOut("skill", <<>>, kept, <<>>, <<>>, <<>>, <<>>)
    BY <1>5 DEF Skill
  <2> HIDE DEF kept
  <2>4. FanOut(skill, none, kept, none, none, none, none)
    BY <1>2, <2>3
  <2> QED
    BY <1>1, <2>2, <2>4, SubmitStep
<1> QED
  BY <1>3, <1>4, <1>5

LEMMA NothingInHand == ASSUME call' = NoCall PROVE Map!Abandon /\ Assigned'
BY DEF Map!Abandon, NoCall, Assigned

\* The last phase gives the list back, another one takes its place.
LEMMA ReduceSubmits ==
  ASSUME CrewInv, Reduce
  PROVE  (Map!Submit \/ Map!Abandon) /\ Assigned'
<1>1. Complete /\ call # NoCall /\ CallShape
  BY DEF CrewInv, Shape, Reduce
<1>2. CASE call.todo # <<>>
  <2>1. FanOutPhase(call.asked, call.todo, call.dropped, Append(call.sections, Section))
    BY <1>2 DEF Reduce
  <2>2. List(call.todo) /\ \A phase \in Range(call.todo) : List(phase.jobs)
    BY <1>1 DEF CallShape
  <2> QED
    BY <1>1, <1>2, <2>1, <2>2, PhaseSubmits
<1>3. CASE ~(call.todo # <<>>)
  <2>1. call' = NoCall
    BY <1>3 DEF Reduce
  <2> QED
    BY <2>1, NothingInHand
<1> QED
  BY <1>2, <1>3

\* Who is at work for the call keeps the task.
LEMMA CrewKeepsTasks ==
  ASSUME CrewInv, Assigned, UNCHANGED call \/ Continues,
         \A c \in DOMAIN agents' : Len(c) = 1 => c \in DOMAIN agents /\ agents'[c].task = agents[c].task
  PROVE  Assigned'
<1> SUFFICES ASSUME call' # NoCall, NEW i \in DOMAIN call'.names, call'.names[i] \in DOMAIN agents'
             PROVE  agents'[call'.names[i]].task = call'.tasks[i]
  BY DEF Assigned
<1>1. call # NoCall /\ call'.names = call.names /\ call'.tasks = call.tasks
  BY DEF Continues
<1>2. Len(call.names[i]) = 1
  BY <1>1 DEF CrewInv, Shape, CallShape
<1> QED
  BY <1>1, <1>2 DEF Assigned

LEMMA LeadHasLengthZero == ASSUME NEW c, Len(c) = 1 PROVE c # Lead
<1>1. Len(Lead) = 0
  BY DEF Lead
<1> QED
  BY <1>1

LEMMA AgentMaps ==
  ASSUME CrewInv, Assigned, NEW a \in DOMAIN agents, Work(a) \/ Spawn(a) \/ Begin(a)
  PROVE  Assigned' /\ (UNCHANGED call \/ \E i \in DOMAIN call.tasks : Map!Answer(i))
<1>1. Shape /\ Rooted /\ \A c \in DOMAIN agents : AgentShape(agents[c])
  BY DEF CrewInv, Shape
<1>2. CASE Return(a)
  <2>1. \A c \in DOMAIN agents' : c \in DOMAIN agents /\ agents'[c].task = agents[c].task
    BY <1>2 DEF Return, Restrict
  <2>2. UNCHANGED call \/ (Continues /\ \E i \in DOMAIN call.tasks : Map!Answer(i))
    BY <1>2, AnswerStep
  <2> QED
    BY <2>1, <2>2, CrewKeepsTasks
<1>3. CASE Start(a)
  <2>1. \A c \in DOMAIN agents' : c \in DOMAIN agents /\ agents'[c].task = agents[c].task
    <3>1. [agents[a] EXCEPT !.run = "running"].task = agents[a].task
      BY <1>1, TaskStays
    <3>2. agents' = [agents EXCEPT ![a] = [agents[a] EXCEPT !.run = "running"]]
      BY <1>1, <1>3 DEF Start, Shape
    <3> QED
      BY <3>1, <3>2
  <2>2. UNCHANGED call
    BY <1>3 DEF Start
  <2> QED
    BY <2>1, <2>2, CrewKeepsTasks
<1>4. CASE Spawn(a)
  <2>1. UNCHANGED call
    BY <1>4 DEF Spawn
  <2>2. CASE call = NoCall
    BY <2>1, <2>2 DEF Assigned
  <2>3. CASE call # NoCall
    <3>1. a # Lead /\ a \in Seq(Nat)
      BY <1>1, <1>4, <2>3 DEF Spawn, Acting, Shape
    <3>2. PICK b : /\ b = NewNames(a, 1)[1] /\ Len(b) = Len(a) + 1
      <4>1. PICK m \in Nat :
              /\ NewNames(a, 1) = [i \in 1..1 |-> Append(a, m + i)]
              /\ \A i \in 1..1 : Len(Append(a, m + i)) = Len(a) + 1
        BY <1>1, FreshNames
      <4> QED
        BY <4>1
    <3>3. Len(b) # 1
      <4>1. Len(a) \in Nat /\ Len(a) # 0
        BY <3>1 DEF Lead
      <4>2. \A k \in Nat : k # 0 => k + 1 # 1
        OBVIOUS
      <4> QED
        BY <3>2, <4>1, <4>2
    <3> DEFINE busy == [agents[a] EXCEPT !.spawns = @ + 1, !.left = @ - 1]
    <3>4. busy.task = agents[a].task
      <4>1. PICK x, y : busy = [agents[a] EXCEPT !.spawns = x, !.left = y]
        OBVIOUS
      <4> HIDE DEF busy
      <4>2. PICK t : t = [agents[a] EXCEPT !.spawns = x]
        OBVIOUS
      <4>3. /\ t = [perms |-> t.perms, task |-> t.task, run |-> t.run, spawns |-> t.spawns,
                    left |-> t.left, abandoned |-> t.abandoned]
            /\ t.task = agents[a].task
        BY <1>1, <4>2 DEF AgentShape
      <4>4. busy = [t EXCEPT !.left = y]
        BY <4>1, <4>2
      <4> QED
        BY <4>3, <4>4
    <3> HIDE DEF busy
    <3>5. /\ DOMAIN agents' = DOMAIN agents \cup {b}
          /\ \A c \in DOMAIN agents \ {b} : agents'[c] = IF c = a THEN busy ELSE agents[c]
      BY <1>4, <3>2 DEF Spawn, busy
    <3>6. \A c \in DOMAIN agents' : Len(c) = 1 => c \in DOMAIN agents /\ agents'[c].task = agents[c].task
      BY <3>3, <3>4, <3>5
    <3> QED
      BY <2>1, <3>6, CrewKeepsTasks
  <2> QED
    BY <2>1, <2>2, <2>3
<1>5. CASE Begin(a)
  <2>1. \A c \in DOMAIN agents' : c \in DOMAIN agents /\ agents'[c].task = agents[c].task
    <3>1. PICK x : x = agents[a].left - 1
      OBVIOUS
    <3>2. [agents[a] EXCEPT !.left = x].task = agents[a].task
      BY <1>1 DEF AgentShape
    <3>3. agents' = [agents EXCEPT ![a] = [agents[a] EXCEPT !.left = x]]
      BY <1>5, <3>1 DEF Begin
    <3> QED
      BY <1>1, <3>2, <3>3 DEF Shape
  <2>2. UNCHANGED call
    BY <1>5 DEF Begin
  <2> QED
    BY <2>1, <2>2, CrewKeepsTasks
<1>6. CASE End(a)
  <2>1. UNCHANGED <<agents, call>>
    BY <1>6 DEF End
  <2> QED
    BY <2>1, CrewKeepsTasks
<1> QED
  BY <1>2, <1>3, <1>4, <1>5, <1>6 DEF Work

LEMMA TurnMaps ==
  ASSUME CrewInv, Assigned,
         StartTurn \/ EndTurn \/ Interrupt \/ Closed \/ \E spec \in Workflows : Submit(spec)
  PROVE  /\ Assigned'
         /\ (call'.tasks = call.tasks /\ call'.results = call.results) \/ Map!Abandon
<1>1. Shape /\ CallShape
  BY DEF CrewInv, Shape
<1>2. CASE Closed \/ (Interrupt /\ ~(Pooled /\ ~call.closing))
  <2>1. call' = NoCall
    BY <1>2 DEF Closed, Interrupt, Unwind
  <2> QED
    BY <2>1, NothingInHand
<1>3. CASE Interrupt /\ Pooled /\ ~call.closing
  <2>1. call # NoCall /\ UNCHANGED agents /\ \E y \in BOOLEAN : call' = [call EXCEPT !.closing = y]
    BY <1>3 DEF Interrupt, Pooled
  <2>2. Continues /\ call'.results = call.results
    BY <1>1, <2>1, ClosingCall DEF Continues
  <2> QED
    BY <2>1, <2>2, CrewKeepsTasks DEF Continues
<1>4. CASE StartTurn \/ EndTurn \/ \E spec \in Workflows : Submit(spec)
  <2>1. UNCHANGED call
    BY <1>4 DEF StartTurn, EndTurn, Submit
  <2>2. \A c \in DOMAIN agents' : c \in DOMAIN agents /\ (c # Lead => agents'[c] = agents[c])
    BY <1>4 DEF StartTurn, EndTurn, Submit
  <2>3. Assigned'
    BY <2>1, <2>2, LeadHasLengthZero, CrewKeepsTasks
  <2> QED
    BY <2>1, <2>3
<1> QED
  BY <1>2, <1>3, <1>4

\* The results are the tasks', each in the place of its own, in whatever order
\* the children come back: fan-outs implement the ordered map (fanout's
\* "POSITIONALLY ALIGNED"), every one of their steps a step of it or none.
THEOREM FanOutIsOrderedMap == Spec => ImplementsOrderedMap
<1>1. Init => CrewInv /\ Assigned /\ Map!Init
  <2> SUFFICES ASSUME Init PROVE CrewInv /\ Assigned /\ Map!Init
    OBVIOUS
  <2>1. CrewInv /\ call = NoCall
    BY CrewInit DEF Init
  <2> QED
    BY <2>1 DEF Assigned, Map!Init, NoCall
<1>2. CrewInv /\ Assigned /\ [Next]_vars =>
        CrewInv' /\ Assigned' /\ [Map!Next]_<<call.tasks, call.results>>
  <2> SUFFICES ASSUME CrewInv, Assigned, [Next]_vars
               PROVE  Assigned' /\ [Map!Next]_<<call.tasks, call.results>>
    BY CrewStep
  <2>1. CASE \E a \in DOMAIN agents : Work(a) \/ Spawn(a) \/ Begin(a)
    BY <2>1, AgentMaps DEF Map!Next
  <2>2. CASE \/ \E plan \in Plans : Review(plan)
             \/ \E spec \in Workflows : Workflow(spec)
             \/ Skill
    BY <2>2, OrchestrateSubmits DEF Map!Next
  <2>3. CASE Reduce
    BY <2>3, ReduceSubmits DEF Map!Next
  <2>4. CASE StartTurn \/ EndTurn \/ Interrupt \/ Closed \/ \E spec \in Workflows : Submit(spec)
    BY <2>4, TurnMaps DEF Map!Next
  <2>5. CASE UNCHANGED vars
    BY <2>5 DEF vars, Assigned
  <2> QED
    BY <2>1, <2>2, <2>3, <2>4, <2>5 DEF Next
<1> QED
  BY <1>1, <1>2, PTL DEF Spec, ImplementsOrderedMap, Map!Spec
=============================================================================
