------------------------ MODULE Conversation_proofs ------------------------
(***************************************************************************)
(* Theorems about the two halves of the prompt loop: Conversation, what    *)
(* the model is sent and what is kept of it, and (from the section         *)
(* "Background tasks" on) BackgroundTasks, what runs behind it.            *)
(*                                                                         *)
(* For any number of calls, steps, messages, processes and results, any    *)
(* window, any weights and any flags.  Sound, the inductive invariant,     *)
(* says of the record, of the context and of the snapshot that each result *)
(* follows its decision, after the results of the calls before it; that    *)
(* the open calls are the last ones of the decision at the end; and that   *)
(* what they stand for is in the order of the record.  Delivered adds      *)
(* where the results are that the user pulled.  Most of the lemmas are     *)
(* about the operators that cut, filter and mend a context: SafeCut,       *)
(* Among, Rehydrate, Sanitize and Restorable.                              *)
(***************************************************************************)
EXTENDS Conversation, BackgroundTasks, TLAPS, WellFoundedInduction,
        FiniteSetTheorems, SequenceTheorems

-----------------------------------------------------------------------------
(* Messages, groups and what is open.                                      *)

\* Induction over the natural numbers, for a set of them.
LEMMA NatInd ==
  ASSUME NEW A, 0 \in A, \A k \in Nat : k \in A => k + 1 \in A
  PROVE  Nat \subseteq A
<1> SUFFICES ASSUME Nat \ A # {} PROVE FALSE
  OBVIOUS
<1> DEFINE R == OpToRel(<, Nat)
<1>1. IsWellFoundedOn(R, Nat)
  BY NatLessThanWellFounded
<1>2. PICK m \in Nat \ A : \A y \in Nat \ A : ~(<<y, m>> \in R)
  <2> HIDE DEF R
  <2>1. Nat \ A \in SUBSET Nat
    OBVIOUS
  <2> QED
    BY <1>1, <2>1, WFMin
<1>3. \A y \in Nat \ A : ~(y < m)
  BY <1>2 DEF OpToRel
<1> HIDE DEF R
<1>4. m \in Nat /\ m \notin A /\ m # 0 /\ m - 1 \in Nat
  OBVIOUS
<1>5. m - 1 \in A
  BY <1>3, <1>4
<1>6. (m - 1) + 1 \in A
  BY <1>4, <1>5
<1> QED
  BY <1>4, <1>6

\* A set of numbers that is not empty and has a bound has a greatest element.
LEMMA Greatest ==
  ASSUME NEW S, NEW n \in Nat, S \subseteq 0 .. n, S # {}
  PROVE  \E c \in S : \A d \in S : d <= c
<1> DEFINE A == {k \in Nat : (S \cap 0 .. k # {}) =>
                   \E c \in S \cap 0 .. k : \A d \in S \cap 0 .. k : d <= c}
<1>1. 0 \in A
  <2>1. \A c \in 0 .. 0 : c = 0
    OBVIOUS
  <2> QED
    BY <2>1
<1>2. ASSUME NEW k \in Nat, k \in A PROVE k + 1 \in A
  <2>1. \A c \in 0 .. k + 1 : c = k + 1 \/ c \in 0 .. k
    OBVIOUS
  <2>2. \A c \in 0 .. k : c \in 0 .. k + 1 /\ c <= k + 1
    OBVIOUS
  <2>3. k + 1 \in 0 .. k + 1
    OBVIOUS
  <2>4. CASE k + 1 \in S
    BY <2>1, <2>2, <2>3, <2>4
  <2>5. CASE k + 1 \notin S
    <3>1. S \cap 0 .. k + 1 = S \cap 0 .. k
      BY <2>1, <2>2, <2>5
    <3> QED
      BY <1>2, <3>1
  <2> QED
    BY <2>4, <2>5
<1> HIDE DEF A
<1>3. n \in A
  BY <1>1, <1>2, NatInd
<1>4. S \cap 0 .. n = S
  OBVIOUS
<1> QED
  BY <1>3, <1>4 DEF A

\* The roles of the messages.
Role == {"system", "user", "assistant", "tool"}

\* Every message the model builds.
Msg == [role : Role, calls : SUBSET Id, id : Nat, noise : BOOLEAN, folds : SUBSET Digest,
        weight : Nat, covers : SUBSET Nat]

\* What a message of each role may carry.
Made(m) ==
  /\ m.role = "tool" => m.id >= 1 /\ m.calls = {} /\ ~m.noise
  /\ m.calls # {} => m.role = "assistant" /\ \E n \in Id : m.calls = 1 .. n
  /\ m.noise => m.role \in {"user", "assistant"}

\* A context or record, message by message.
Messages(w) == w \in Seq(Msg) /\ \A i \in 1 .. Len(w) : Made(w[i])

\* The result of call c stands at j.
ResultAt(w, j, c) == j \in 1 .. Len(w) /\ w[j].role = "tool" /\ w[j].id = c

\* Each result follows its decision, after the results of the calls before it.
Grouped(w) ==
  \A j \in 1 .. Len(w) : w[j].role = "tool" =>
    /\ w[j].id < j
    /\ w[j].id \in w[j - w[j].id].calls
    /\ \A c \in 1 .. w[j].id : ResultAt(w, j - w[j].id + c, c)

\* Each call of the i-th message has its result.
Complete(w, i) == \A c \in w[i].calls : ResultAt(w, i + c, c)
\* No call is open.
Closed(w) == \A i \in 1 .. Len(w) : Complete(w, i)

\* w ends with a decision of n calls, the first k with their results.
Deciding(w, n, k) ==
  /\ k < Len(w) /\ w[Len(w) - k].calls = 1 .. n
  /\ \A c \in 1 .. k : ResultAt(w, Len(w) - k + c, c)

\* What a message stands for comes before what the next one does.
Ordered(w) ==
  \A i, j \in 1 .. Len(w) : i < j => \A p \in w[i].covers, q \in w[j].covers : p < q

\* What a context of messages is made of.
LEMMA MessageTypes ==
  ASSUME NEW w, Messages(w)
  PROVE  /\ Len(w) \in Nat /\ DOMAIN w = 1 .. Len(w)
         /\ \A i \in 1 .. Len(w) :
              /\ w[i] \in Msg /\ Made(w[i]) /\ w[i].id \in Nat /\ w[i].weight \in Nat
              /\ w[i].calls \subseteq Id /\ w[i].covers \subseteq Nat /\ w[i].role \in Role
              /\ w[i].folds \subseteq Digest /\ w[i].noise \in BOOLEAN
<1>1. w \in Seq(Msg) /\ Len(w) \in Nat /\ DOMAIN w = 1 .. Len(w)
  BY DEF Messages
<1>2. ASSUME NEW i \in 1 .. Len(w) PROVE w[i] \in Msg
  BY <1>1
<1>3. \A m \in Msg : /\ m.id \in Nat /\ m.weight \in Nat
              /\ m.calls \subseteq Id /\ m.covers \subseteq Nat /\ m.role \in Role
              /\ m.folds \subseteq Digest /\ m.noise \in BOOLEAN
  BY DEF Msg
<1> QED
  BY <1>1, <1>2, <1>3 DEF Messages

\* A message at the end of a context.
LEMMA Appended ==
  ASSUME NEW w, Messages(w), NEW m \in Msg
  PROVE  /\ Append(w, m) \in Seq(Msg)
         /\ Len(Append(w, m)) = Len(w) + 1
         /\ Append(w, m)[Len(w) + 1] = m
         /\ \A i \in 1 .. Len(w) : Append(w, m)[i] = w[i]
         /\ 1 .. Len(w) + 1 = 1 .. Len(w) \cup {Len(w) + 1}
<1>1. w \in Seq(Msg) /\ Len(w) \in Nat
  BY DEF Messages
<1> QED
  BY <1>1

\* Appending a message keeps the contexts well formed.
LEMMA AppendMessage ==
  ASSUME NEW w, Messages(w), NEW m \in Msg, Made(m)
  PROVE  Messages(Append(w, m))
<1> DEFINE v == Append(w, m)
<1>1. /\ v \in Seq(Msg) /\ Len(v) = Len(w) + 1 /\ v[Len(w) + 1] = m
      /\ \A i \in 1 .. Len(w) : v[i] = w[i]
      /\ 1 .. Len(w) + 1 = 1 .. Len(w) \cup {Len(w) + 1}
  BY Appended
<1> HIDE DEF v
<1>2. ASSUME NEW i \in 1 .. Len(v) PROVE Made(v[i])
  BY <1>1 DEF Messages
<1>3. Messages(v)
  BY <1>1, <1>2 DEF Messages
<1> QED
  BY <1>3 DEF v

\* A result stays where it is when something is appended.
LEMMA ResultStays ==
  ASSUME NEW w, Messages(w), NEW m \in Msg, NEW j, NEW c, ResultAt(w, j, c)
  PROVE  ResultAt(Append(w, m), j, c)
BY Appended DEF ResultAt

\* A message that is no result keeps a context grouped.
LEMMA GroupedAppend ==
  ASSUME NEW w, Messages(w), Grouped(w), NEW m \in Msg, m.role # "tool"
  PROVE  Grouped(Append(w, m))
<1> DEFINE v == Append(w, m)
<1>1. /\ Len(v) = Len(w) + 1 /\ v[Len(w) + 1] = m
      /\ \A i \in 1 .. Len(w) : v[i] = w[i]
      /\ 1 .. Len(w) + 1 = 1 .. Len(w) \cup {Len(w) + 1}
  BY Appended
<1>2. \A j, c : ResultAt(w, j, c) => ResultAt(v, j, c)
  BY ResultStays
<1> HIDE DEF v
<1>3. ASSUME NEW j \in 1 .. Len(v), v[j].role = "tool"
      PROVE  /\ v[j].id < j
             /\ v[j].id \in v[j - v[j].id].calls
             /\ \A c \in 1 .. v[j].id : ResultAt(v, j - v[j].id + c, c)
  <2>1. j \in 1 .. Len(w) /\ v[j] = w[j]
    BY <1>1, <1>3
  <2>2. w[j].id \in Nat /\ Len(w) \in Nat /\ w[j].id >= 1
    BY <1>3, <2>1, MessageTypes DEF Made
  <2>3. /\ w[j].id < j
        /\ w[j].id \in w[j - w[j].id].calls
        /\ \A c \in 1 .. w[j].id : ResultAt(w, j - w[j].id + c, c)
    BY <1>3, <2>1 DEF Grouped
  <2>4. j - w[j].id \in 1 .. Len(w)
    BY <2>1, <2>2, <2>3
  <2> QED
    BY <1>1, <1>2, <2>1, <2>3, <2>4
<1>4. Grouped(v)
  BY <1>3 DEF Grouped
<1> QED
  BY <1>4 DEF v

\* So does the result of the next call.
LEMMA GroupedResult ==
  ASSUME NEW w, Messages(w), Grouped(w), NEW n \in Nat, NEW k \in Nat, k < n,
         Deciding(w, n, k), NEW m \in Msg, m.role = "tool", m.id = k + 1
  PROVE  Grouped(Append(w, m)) /\ Deciding(Append(w, m), n, k + 1)
<1> DEFINE v == Append(w, m)
           L == Len(w)
<1>1. /\ Len(v) = L + 1 /\ v[L + 1] = m
      /\ \A i \in 1 .. L : v[i] = w[i]
      /\ 1 .. L + 1 = 1 .. L \cup {L + 1}
  BY Appended
<1>2. \A j, c : ResultAt(w, j, c) => ResultAt(v, j, c)
  BY ResultStays
<1>3. L \in Nat
  BY MessageTypes
<1>4. /\ k < L /\ w[L - k].calls = 1 .. n
      /\ \A c \in 1 .. k : ResultAt(w, L - k + c, c)
  BY DEF Deciding
<1> HIDE DEF v, L
<1>5. L - k \in 1 .. L /\ v[L - k] = w[L - k] /\ (L + 1) - (k + 1) = L - k
  BY <1>1, <1>3, <1>4
<1>6. \A c \in 1 .. k + 1 : ResultAt(v, L - k + c, c)
  <2> SUFFICES ASSUME NEW c \in 1 .. k + 1 PROVE ResultAt(v, L - k + c, c)
    OBVIOUS
  <2>1. CASE c = k + 1
    <3>1. L - k + c = L + 1
      BY <1>3, <2>1
    <3> QED
      BY <1>1, <1>3, <2>1, <3>1 DEF ResultAt
  <2>2. CASE c # k + 1
    <3>1. c \in 1 .. k
      BY <2>2
    <3> QED
      BY <1>2, <1>4, <3>1
  <2> QED
    BY <2>1, <2>2
<1>7. Deciding(v, n, k + 1)
  <2>1. k + 1 < Len(v) /\ Len(v) - (k + 1) = L - k
    BY <1>1, <1>3, <1>4
  <2> QED
    BY <1>4, <1>5, <1>6, <2>1 DEF Deciding
<1>8. ASSUME NEW j \in 1 .. Len(v), v[j].role = "tool"
      PROVE  /\ v[j].id < j
             /\ v[j].id \in v[j - v[j].id].calls
             /\ \A c \in 1 .. v[j].id : ResultAt(v, j - v[j].id + c, c)
  <2>1. CASE j = L + 1
    <3>1. v[j].id = k + 1 /\ j - (k + 1) = L - k
      BY <1>1, <1>3, <2>1
    <3>2. k + 1 < j /\ k + 1 \in 1 .. n
      BY <1>3, <1>4, <2>1
    <3> QED
      BY <1>4, <1>5, <1>6, <3>1, <3>2
  <2>2. CASE j # L + 1
    <3>1. j \in 1 .. L /\ v[j] = w[j]
      BY <1>1, <2>2
    <3>2. w[j].id \in Nat /\ w[j].id >= 1
      BY <1>8, <3>1, MessageTypes DEF Made, L
    <3>3. /\ w[j].id < j
          /\ w[j].id \in w[j - w[j].id].calls
          /\ \A c \in 1 .. w[j].id : ResultAt(w, j - w[j].id + c, c)
      BY <1>8, <3>1 DEF Grouped, L
    <3>4. j - w[j].id \in 1 .. L
      BY <1>3, <3>1, <3>2, <3>3
    <3> QED
      BY <1>1, <1>2, <3>1, <3>3, <3>4
  <2> QED
    BY <2>1, <2>2
<1>9. Grouped(v)
  BY <1>8 DEF Grouped
<1> QED
  BY <1>7, <1>9 DEF v

\* What is complete stays so.
LEMMA CompleteStays ==
  ASSUME NEW w, Messages(w), NEW m \in Msg, NEW i \in 1 .. Len(w), Complete(w, i)
  PROVE  Complete(Append(w, m), i)
<1>1. Append(w, m)[i] = w[i]
  BY Appended
<1> QED
  BY <1>1, ResultStays DEF Complete

\* A message that calls nothing leaves nothing open.
LEMMA ClosedAppend ==
  ASSUME NEW w, Messages(w), Closed(w), NEW m \in Msg, m.calls = {}
  PROVE  Closed(Append(w, m))
<1>1. Append(w, m)[Len(w) + 1] = m /\ Len(Append(w, m)) = Len(w) + 1
      /\ 1 .. Len(w) + 1 = 1 .. Len(w) \cup {Len(w) + 1}
  BY Appended
<1>2. Complete(Append(w, m), Len(w) + 1)
  BY <1>1 DEF Complete
<1> QED
  BY <1>1, <1>2, CompleteStays DEF Closed

\* With its last result the decision is complete.
LEMMA LastResult ==
  ASSUME NEW w, Messages(w), NEW n \in Nat, Deciding(w, n, n),
         \A i \in 1 .. Len(w) - n - 1 : Complete(w, i)
  PROVE  Closed(w)
<1>1. Len(w) \in Nat /\ n < Len(w) /\ w[Len(w) - n].calls = 1 .. n
      /\ \A c \in 1 .. n : ResultAt(w, Len(w) - n + c, c)
  BY MessageTypes DEF Deciding
<1>2. Complete(w, Len(w) - n)
  BY <1>1 DEF Complete
<1>3. ASSUME NEW i \in 1 .. Len(w), i > Len(w) - n PROVE Complete(w, i)
  <2>1. i - (Len(w) - n) \in 1 .. n /\ Len(w) - n + (i - (Len(w) - n)) = i
    BY <1>1, <1>3
  <2>2. w[i].role = "tool"
    BY <1>1, <2>1 DEF ResultAt
  <2>3. w[i].calls = {}
    BY <2>2, MessageTypes DEF Made
  <2> QED
    BY <2>3 DEF Complete
<1>4. ASSUME NEW i \in 1 .. Len(w) PROVE Complete(w, i)
  <2>1. i \in 1 .. Len(w) - n - 1 \/ i = Len(w) - n \/ i > Len(w) - n
    BY <1>1
  <2> QED
    BY <1>2, <1>3, <2>1
<1> QED
  BY <1>4 DEF Closed

\* A message that is new on record comes after what a context stands for.
LEMMA OrderedAppend ==
  ASSUME NEW w, Messages(w), Ordered(w), NEW m \in Msg, NEW p \in Nat,
         Covers(w) \subseteq 1 .. p, m.covers = {p + 1}
  PROVE  Ordered(Append(w, m)) /\ Covers(Append(w, m)) = Covers(w) \cup {p + 1}
<1> DEFINE v == Append(w, m)
<1>1. /\ Len(v) = Len(w) + 1 /\ v[Len(w) + 1] = m /\ v \in Seq(Msg)
      /\ \A i \in 1 .. Len(w) : v[i] = w[i]
      /\ 1 .. Len(w) + 1 = 1 .. Len(w) \cup {Len(w) + 1}
  BY Appended
<1>2. Len(w) \in Nat /\ DOMAIN w = 1 .. Len(w) /\ DOMAIN v = 1 .. Len(v)
  BY <1>1, MessageTypes
<1> HIDE DEF v
<1>3. Covers(v) = Covers(w) \cup {p + 1}
  <2>1. Covers(v) = UNION {v[i].covers : i \in 1 .. Len(w) \cup {Len(w) + 1}}
    BY <1>1, <1>2 DEF Covers
  <2>2. Covers(w) = UNION {w[i].covers : i \in 1 .. Len(w)}
    BY <1>2 DEF Covers
  <2> QED
    BY <1>1, <2>1, <2>2
<1>4. ASSUME NEW i \in 1 .. Len(v), NEW j \in 1 .. Len(v), i < j,
             NEW q \in v[i].covers, NEW r \in v[j].covers
      PROVE  q < r
  <2>1. i \in 1 .. Len(w) /\ v[i] = w[i]
    BY <1>1, <1>2, <1>4
  <2>2. q \in 1 .. p
    BY <1>2, <1>4, <2>1 DEF Covers
  <2>3. CASE j = Len(w) + 1
    BY <1>1, <1>4, <2>2, <2>3
  <2>4. CASE j \in 1 .. Len(w)
    BY <1>1, <1>4, <2>1, <2>4 DEF Ordered
  <2> QED
    BY <1>1, <2>3, <2>4
<1>5. Ordered(v)
  BY <1>4 DEF Ordered
<1> QED
  BY <1>3, <1>5 DEF v

-----------------------------------------------------------------------------
(* Groups, cuts and summaries.                                             *)

\* The results of a message are the messages up to the next one that is none.
LEMMA ResultsSpan ==
  ASSUME NEW w, Messages(w), NEW i \in 1 .. Len(w)
  PROVE  \E e \in i .. Len(w) :
           /\ Results(w, i) = i + 1 .. e
           /\ Cardinality(Results(w, i)) = e - i
           /\ \A j \in i + 1 .. e : w[j].role = "tool"
           /\ e = Len(w) \/ w[e + 1].role # "tool"
<1> DEFINE S == {e \in i .. Len(w) : \A j \in i + 1 .. e : w[j].role = "tool"}
<1>1. Len(w) \in Nat /\ i \in Nat /\ i <= Len(w)
  BY MessageTypes
<1>2. i \in S
  BY <1>1
<1>3. S \subseteq 0 .. Len(w) /\ S # {}
  BY <1>1, <1>2
<1> HIDE DEF S
<1>4. PICK e \in S : \A d \in S : d <= e
  BY <1>1, <1>3, Greatest
<1>5. e \in i .. Len(w) /\ \A j \in i + 1 .. e : w[j].role = "tool"
  BY <1>4 DEF S
<1>6. Results(w, i) = {j \in i + 1 .. Len(w) : \A k \in i + 1 .. j : w[k].role = "tool"}
  BY DEF Results
<1>7. i + 1 .. e \subseteq Results(w, i)
  BY <1>1, <1>5, <1>6
<1>8. ASSUME NEW j \in Results(w, i) PROVE j \in i + 1 .. e
  <2>1. j \in i + 1 .. Len(w) /\ \A k \in i + 1 .. j : w[k].role = "tool"
    BY <1>6
  <2>2. j \in S
    BY <1>1, <2>1 DEF S
  <2> QED
    BY <1>1, <1>4, <1>5, <2>1, <2>2
<1>9. Results(w, i) = i + 1 .. e
  BY <1>7, <1>8
<1>10. Cardinality(i + 1 .. e) = e - i
  <2>1. i + 1 \in Int /\ e \in Int
    BY <1>1, <1>5
  <2>2. Cardinality((i + 1) .. e) = IF i + 1 > e THEN 0 ELSE e - (i + 1) + 1
    BY <2>1, FS_Interval
  <2> QED
    BY <1>1, <1>5, <2>1, <2>2
<1>11. ASSUME e # Len(w), w[e + 1].role = "tool" PROVE FALSE
  <2>1. e + 1 \in i .. Len(w) /\ \A j \in i + 1 .. e + 1 : j \in i + 1 .. e \/ j = e + 1
    BY <1>1, <1>5, <1>11
  <2>2. e + 1 \in S
    BY <1>5, <1>11, <2>1 DEF S
  <2> QED
    BY <1>1, <1>4, <1>5, <2>2
<1> QED
  BY <1>5, <1>9, <1>10, <1>11

\* In a grouped context a message that is no result and has all of its own is
\* followed by exactly those.
LEMMA GroupSpan ==
  ASSUME NEW w, Messages(w), Grouped(w), NEW i \in 1 .. Len(w), w[i].role # "tool"
  PROVE  \E k \in Nat :
           /\ i + k <= Len(w)
           /\ Results(w, i) = i + 1 .. i + k /\ Cardinality(Results(w, i)) = k
           /\ \A c \in 1 .. k : ResultAt(w, i + c, c) /\ c \in w[i].calls
           /\ i + k = Len(w) \/ w[i + k + 1].role # "tool"
<1>1. Len(w) \in Nat
  BY MessageTypes
<1>2. PICK e \in i .. Len(w) :
           /\ Results(w, i) = i + 1 .. e
           /\ Cardinality(Results(w, i)) = e - i
           /\ \A j \in i + 1 .. e : w[j].role = "tool"
           /\ e = Len(w) \/ w[e + 1].role # "tool"
  BY ResultsSpan
<1> DEFINE k == e - i
<1>3. k \in Nat /\ i + k = e
  BY <1>1, <1>2
<1>4. ASSUME NEW c \in 1 .. k PROVE ResultAt(w, i + c, c) /\ c \in w[i].calls
  <2> DEFINE j == i + c
             d == w[j].id
             h == j - d
  <2>1. j \in i + 1 .. e /\ j \in 1 .. Len(w) /\ w[j].role = "tool"
    <3>1. e \in i .. Len(w) /\ \A b \in i + 1 .. e : w[b].role = "tool"
      BY <1>2
    <3>2. j \in i + 1 .. e /\ j \in 1 .. Len(w)
      BY <1>1, <1>4, <3>1
    <3> QED
      BY <3>1, <3>2
  <2>2. d \in Nat /\ d >= 1
    BY <2>1, MessageTypes DEF Made
  <2>3. /\ d < j /\ d \in w[h].calls
        /\ \A b \in 1 .. d : ResultAt(w, h + b, b)
    BY <2>1 DEF Grouped
  <2> HIDE DEF d
  <2>4. h \in 1 .. Len(w) /\ h < j
    BY <1>1, <2>1, <2>2, <2>3
  <2>5. h <= i
    <3> SUFFICES ASSUME h > i PROVE FALSE
      BY <1>1, <2>4
    <3>1. h \in i + 1 .. e
      BY <1>1, <2>1, <2>4
    <3>2. w[h].role = "tool"
      BY <1>2, <3>1
    <3>3. w[h].calls = {}
      BY <2>4, <3>2, MessageTypes DEF Made
    <3> QED
      BY <2>3, <3>3
  <2>6. h >= i
    <3> SUFFICES ASSUME h < i PROVE FALSE
      BY <1>1, <2>4
    <3>1. h \in Nat /\ i \in Nat /\ d \in Nat
      BY <1>1, <2>2, <2>4
    <3>2. i <= h + d
      BY <2>1, <3>1
    <3>3. i - h \in 1 .. d
      BY <3>1, <3>2
    <3>4. h + (i - h) = i
      BY <3>1
    <3>5. w[i].role = "tool"
      BY <2>3, <3>3, <3>4 DEF ResultAt
    <3> QED
      BY <3>5
  <2>7. h = i /\ d = c
    BY <1>1, <2>2, <2>4, <2>5, <2>6
  <2> QED
    BY <2>1, <2>3, <2>7 DEF ResultAt, d
<1> HIDE DEF k
<1> QED
  BY <1>1, <1>2, <1>3, <1>4

\* The decision of a result, and that nothing but results is between them.
LEMMA HeadOf ==
  ASSUME NEW w, Messages(w), Grouped(w), NEW j \in 1 .. Len(w), w[j].role = "tool"
  PROVE  \E h \in 1 .. Len(w) :
           /\ h < j /\ w[j].id = j - h /\ w[h].role = "assistant" /\ j - h \in w[h].calls
           /\ \A c \in 1 .. j - h : ResultAt(w, h + c, c)
<1>1. w[j].id \in Nat /\ w[j].id >= 1 /\ Len(w) \in Nat
  BY MessageTypes DEF Made
<1>2. /\ w[j].id < j /\ w[j].id \in w[j - w[j].id].calls
      /\ \A c \in 1 .. w[j].id : ResultAt(w, j - w[j].id + c, c)
  BY DEF Grouped
<1> DEFINE h == j - w[j].id
<1>3. h \in 1 .. Len(w) /\ h < j /\ w[j].id = j - h
  BY <1>1, <1>2
<1>4. w[h].role = "assistant"
  BY <1>2, <1>3, MessageTypes DEF Made
<1> QED
  BY <1>2, <1>3, <1>4

\* A closed and grouped context pairs every call with its result.
LEMMA ClosedPairs ==
  ASSUME NEW w, Messages(w), Grouped(w), Closed(w)
  PROVE  Paired(w)
<1>1. Len(w) \in Nat /\ DOMAIN w = 1 .. Len(w)
  BY MessageTypes
<1>2. ASSUME w # <<>> PROVE w[1].role # "tool"
  <2>1. 1 \in 1 .. Len(w)
    <3>1. Len(w) # 0
      BY <1>2 DEF Messages
    <3> QED
      BY <1>1, <3>1
  <2> QED
    BY <1>1, <2>1, HeadOf
<1>3. ASSUME NEW i \in 1 .. Len(w), w[i].role # "tool"
      PROVE  /\ {w[j].id : j \in Results(w, i)} = w[i].calls
             /\ Cardinality(Results(w, i)) = Cardinality(w[i].calls)
  <2>1. PICK k \in Nat :
           /\ i + k <= Len(w)
           /\ Results(w, i) = i + 1 .. i + k /\ Cardinality(Results(w, i)) = k
           /\ \A c \in 1 .. k : ResultAt(w, i + c, c) /\ c \in w[i].calls
           /\ i + k = Len(w) \/ w[i + k + 1].role # "tool"
    BY <1>3, GroupSpan
  <2>2. ASSUME NEW c \in w[i].calls PROVE c \in 1 .. k
    <3>1. ResultAt(w, i + c, c)
      BY <1>3 DEF Closed, Complete
    <3>2. PICK n \in Id : w[i].calls = 1 .. n
      BY <1>3, MessageTypes DEF Made
    <3>3. n \in Nat /\ c \in 1 .. n
      BY <3>2, ConversationAssumption DEF Id
    <3> SUFFICES ASSUME c > k PROVE FALSE
      BY <3>3
    <3>4. k + 1 \in w[i].calls /\ i + (k + 1) = i + k + 1
      BY <1>1, <3>2, <3>3
    <3>5. ResultAt(w, i + k + 1, k + 1)
      BY <1>3, <3>4 DEF Closed, Complete
    <3> QED
      BY <1>1, <2>1, <3>5 DEF ResultAt
  <2>3. w[i].calls = 1 .. k
    BY <2>1, <2>2
  <2>4. {w[j].id : j \in Results(w, i)} = 1 .. k
    <3>1. ASSUME NEW j \in i + 1 .. i + k PROVE w[j].id \in 1 .. k
      <4>1. j - i \in 1 .. k /\ i + (j - i) = j
        BY <1>1, <3>1
      <4> QED
        BY <2>1, <4>1 DEF ResultAt
    <3>2. ASSUME NEW c \in 1 .. k PROVE i + c \in i + 1 .. i + k /\ w[i + c].id = c
      <4>1. i \in Nat /\ i + c \in i + 1 .. i + k
        BY <1>1, <1>3
      <4>2. ResultAt(w, i + c, c)
        BY <2>1
      <4> QED
        BY <4>1, <4>2 DEF ResultAt
    <3> QED
      BY <2>1, <3>1, <3>2
  <2>5. Cardinality(1 .. k) = k
    <3>1. Cardinality(1 .. k) = IF 1 > k THEN 0 ELSE k - 1 + 1
      BY FS_Interval
    <3> QED
      BY <3>1
  <2> QED
    BY <2>1, <2>3, <2>4, <2>5
<1> QED
  BY <1>1, <1>2, <1>3 DEF Paired

-----------------------------------------------------------------------------
(* Compaction and trimming.                                                *)

\* A safe cut is never in front of a result.
LEMMA SafeCutSpec ==
  ASSUME NEW w, Messages(w)
  PROVE  /\ SafeCut(w) \in 0 .. Len(w)
         /\ \/ SafeCut(w) = 0 \/ SafeCut(w) = Len(w)
            \/ SafeCut(w) \in 1 .. Len(w) - 1 /\ w[SafeCut(w) + 1].role # "tool"
<1> DEFINE ok == {c \in 1..Len(w) : /\ c <= Len(w) - KeepRecent
                                    /\ (c = Len(w) \/ w[c + 1].role # "tool")}
           S == {0} \cup ok
<1>1. Len(w) \in Nat
  BY MessageTypes
<1>2. S \subseteq 0 .. Len(w) /\ S # {}
  BY <1>1
<1>3. SafeCut(w) = CHOOSE c \in S : \A d \in ok : d <= c
  BY DEF SafeCut
<1>4. ok \subseteq S /\ \A c \in ok : c \in 1 .. Len(w) /\ (c = Len(w) \/ w[c + 1].role # "tool")
  OBVIOUS
<1>5. \A c \in S : c = 0 \/ c \in ok
  OBVIOUS
<1> HIDE DEF S, ok
<1>6. \E c \in S : \A d \in S : d <= c
  BY <1>1, <1>2, Greatest
<1>7. SafeCut(w) \in S
  BY <1>3, <1>4, <1>6
<1> QED
  BY <1>1, <1>4, <1>5, <1>7

\* What is left of a context when it is cut in front of no result.
Cut(w, c) == SubSeq(w, c + 1, Len(w))

CutHere(w, c) == c \in 0 .. Len(w) /\ (c = Len(w) \/ w[c + 1].role # "tool")

\* What is left of a context by a cut, and what the cut takes.
LEMMA CutShape ==
  ASSUME NEW w, Messages(w), NEW c \in 0 .. Len(w)
  PROVE  /\ Cut(w, c) \in Seq(Msg) /\ Len(Cut(w, c)) = Len(w) - c
         /\ \A i \in 1 .. Len(w) - c : Cut(w, c)[i] = w[i + c] /\ i + c \in 1 .. Len(w)
         /\ Messages(Cut(w, c))
         /\ SubSeq(w, 1, c) \in Seq(Msg) /\ Len(SubSeq(w, 1, c)) = c
         /\ \A i \in 1 .. c : SubSeq(w, 1, c)[i] = w[i]
<1>1. Len(w) \in Nat /\ w \in Seq(Msg)
  BY MessageTypes DEF Messages
<1>2. c + 1 \in 1 .. Len(w) + 1
  BY <1>1
<1>3. /\ Cut(w, c) \in Seq(Msg) /\ Len(Cut(w, c)) = Len(w) - c
      /\ \A i \in 1 .. Len(w) - c : Cut(w, c)[i] = w[i + c] /\ i + c \in 1 .. Len(w)
  BY <1>1, <1>2 DEF Cut
<1>4. \A i \in 1 .. Len(w) - c : Made(Cut(w, c)[i])
  BY <1>3 DEF Messages
<1>5. /\ SubSeq(w, 1, c) \in Seq(Msg) /\ Len(SubSeq(w, 1, c)) = c
      /\ \A i \in 1 .. c : SubSeq(w, 1, c)[i] = w[i]
  BY <1>1
<1> QED
  BY <1>3, <1>4, <1>5 DEF Messages

\* A cut that is not in front of a result takes whole groups ...
LEMMA CutGrouped ==
  ASSUME NEW w, Messages(w), Grouped(w), NEW c, CutHere(w, c)
  PROVE  Grouped(Cut(w, c))
<1>1. /\ Len(w) \in Nat /\ c \in 0 .. Len(w) /\ Len(Cut(w, c)) = Len(w) - c
      /\ \A i \in 1 .. Len(w) - c : Cut(w, c)[i] = w[i + c] /\ i + c \in 1 .. Len(w)
  BY CutShape, MessageTypes DEF CutHere
<1> DEFINE v == Cut(w, c)
<1> HIDE DEF v
<1>2. ASSUME NEW j \in 1 .. Len(v), v[j].role = "tool"
      PROVE  /\ v[j].id < j
             /\ v[j].id \in v[j - v[j].id].calls
             /\ \A b \in 1 .. v[j].id : ResultAt(v, j - v[j].id + b, b)
  <2>1. j + c \in 1 .. Len(w) /\ w[j + c].role = "tool" /\ v[j] = w[j + c] /\ j \in Nat /\ j >= 1
    BY <1>1, <1>2 DEF v
  <2> DEFINE g == j + c
  <2> HIDE DEF g
  <2>2. g \in 1 .. Len(w) /\ w[g].role = "tool" /\ v[j] = w[g] /\ j \in Nat /\ j >= 1 /\ g = j + c
    BY <2>1 DEF g
  <2>3. PICK h \in 1 .. Len(w) :
           /\ h < g /\ w[g].id = g - h /\ g - h \in w[h].calls
           /\ \A b \in 1 .. g - h : ResultAt(w, h + b, b)
    BY <2>2, HeadOf
  <2>4. h > c
    <3> SUFFICES ASSUME h <= c PROVE FALSE
      BY <1>1
    <3>1. (c + 1) - h \in 1 .. g - h /\ h + ((c + 1) - h) = c + 1
      BY <1>1, <2>2
    <3>2. ResultAt(w, c + 1, (c + 1) - h)
      BY <2>3, <3>1
    <3>3. w[c + 1].role = "tool" /\ c # Len(w)
      BY <1>1, <3>2 DEF ResultAt
    <3> QED
      BY <3>3 DEF CutHere
  <2>5. h - c \in 1 .. Len(w) - c /\ (h - c) + c = h /\ v[h - c] = w[h]
    BY <1>1, <2>2, <2>4 DEF v
  <2>6. v[j].id = g - h /\ j - v[j].id = h - c
    BY <1>1, <2>2, <2>3
  <2>7. ASSUME NEW b \in 1 .. g - h PROVE ResultAt(v, (h - c) + b, b)
    <3>1. ResultAt(w, h + b, b)
      BY <2>3
    <3>2. (h - c) + b \in 1 .. Len(w) - c /\ ((h - c) + b) + c = h + b
      <4>1. h + b \in 1 .. Len(w) /\ b \in Nat /\ b >= 1
        BY <3>1, <2>2 DEF ResultAt
      <4> QED
        BY <1>1, <2>4, <4>1
    <3>3. v[(h - c) + b] = w[h + b]
      BY <1>1, <3>2 DEF v
    <3> QED
      BY <1>1, <3>1, <3>2, <3>3 DEF ResultAt, v
  <2>8. g - h < j
    BY <1>1, <2>2, <2>4
  <2>9. v[j].id < j
    BY <2>6, <2>8
  <2>10. v[j].id \in v[j - v[j].id].calls
    <3>1. g - h \in v[h - c].calls
      BY <2>3, <2>5
    <3> QED
      BY <2>6, <3>1
  <2>11. \A b \in 1 .. v[j].id : ResultAt(v, j - v[j].id + b, b)
    BY <2>6, <2>7
  <2> QED
    BY <2>9, <2>10, <2>11
<1>3. Grouped(v)
  BY <1>2 DEF Grouped
<1> QED
  BY <1>3 DEF v

\* ... and opens no call.
LEMMA CutClosed ==
  ASSUME NEW w, Messages(w), Closed(w), NEW c \in 0 .. Len(w)
  PROVE  Closed(Cut(w, c))
<1>1. /\ Len(w) \in Nat /\ c \in 0 .. Len(w) /\ Len(Cut(w, c)) = Len(w) - c
      /\ \A i \in 1 .. Len(w) - c : Cut(w, c)[i] = w[i + c] /\ i + c \in 1 .. Len(w)
  BY CutShape, MessageTypes DEF CutHere
<1> DEFINE v == Cut(w, c)
<1> HIDE DEF v
<1>2. ASSUME NEW i \in 1 .. Len(v), NEW b \in v[i].calls PROVE ResultAt(v, i + b, b)
  <2>1. i + c \in 1 .. Len(w) /\ v[i] = w[i + c] /\ Len(v) = Len(w) - c
    BY <1>1 DEF v
  <2>2. b \in 1 .. MaxCalls /\ MaxCalls \in Nat
    <3>1. b \in Id
      BY <2>1, MessageTypes
    <3> QED
      BY <3>1, ConversationAssumption DEF Id
  <2>3. ResultAt(w, i + c + b, b)
    BY <2>1 DEF Closed, Complete
  <2>4. i + b \in 1 .. Len(w) - c /\ (i + b) + c = i + c + b
    BY <1>1, <2>1, <2>2, <2>3 DEF ResultAt
  <2>5. v[i + b] = w[i + c + b]
    BY <1>1, <2>4 DEF v
  <2> QED
    BY <2>1, <2>3, <2>4, <2>5 DEF ResultAt
<1>3. Closed(v)
  BY <1>2 DEF Closed, Complete
<1> QED
  BY <1>3 DEF v

\* What a context stands for is split by a cut.
LEMMA CutCovers ==
  ASSUME NEW w, Messages(w), Ordered(w), NEW c \in 0 .. Len(w)
  PROVE  /\ Ordered(Cut(w, c))
         /\ Covers(w) = Covers(SubSeq(w, 1, c)) \cup Covers(Cut(w, c))
         /\ \A p \in Covers(SubSeq(w, 1, c)), q \in Covers(Cut(w, c)) : p < q
<1> DEFINE v == Cut(w, c)
           u == SubSeq(w, 1, c)
<1>1. /\ Len(w) \in Nat /\ c \in 0 .. Len(w) /\ Len(v) = Len(w) - c /\ v \in Seq(Msg)
      /\ \A i \in 1 .. Len(w) - c : v[i] = w[i + c] /\ i + c \in 1 .. Len(w)
      /\ u \in Seq(Msg) /\ Len(u) = c /\ \A i \in 1 .. c : u[i] = w[i]
  BY CutShape, MessageTypes
<1>2. DOMAIN w = 1 .. Len(w) /\ DOMAIN v = 1 .. Len(w) - c /\ DOMAIN u = 1 .. c
  BY <1>1, MessageTypes
<1> HIDE DEF u, v
<1>3. \A p : p \in Covers(w) <=> \E i \in 1 .. Len(w) : p \in w[i].covers
  BY <1>2 DEF Covers
<1>4. \A p : p \in Covers(v) <=> \E i \in 1 .. Len(w) - c : p \in v[i].covers
  BY <1>2 DEF Covers
<1>5. \A p : p \in Covers(u) <=> \E i \in 1 .. c : p \in u[i].covers
  BY <1>2 DEF Covers
<1>6. \A i \in 1 .. Len(w) : i \in 1 .. c \/ (i - c \in 1 .. Len(w) - c /\ (i - c) + c = i)
  BY <1>1
<1>7. 1 .. c \subseteq 1 .. Len(w)
  BY <1>1
<1>8. Covers(w) = Covers(u) \cup Covers(v)
  <2>1. ASSUME NEW p \in Covers(w) PROVE p \in Covers(u) \cup Covers(v)
    <3>1. PICK i \in 1 .. Len(w) : p \in w[i].covers
      BY <1>3
    <3>2. CASE i \in 1 .. c
      BY <1>1, <1>5, <3>1, <3>2
    <3>3. CASE i - c \in 1 .. Len(w) - c /\ (i - c) + c = i
      <4>1. v[i - c] = w[i]
        BY <1>1, <3>3
      <4> QED
        BY <1>4, <3>1, <3>3, <4>1
    <3> QED
      BY <1>6, <3>2, <3>3
  <2>2. ASSUME NEW p \in Covers(u) PROVE p \in Covers(w)
    BY <1>1, <1>3, <1>5, <1>7
  <2>3. ASSUME NEW p \in Covers(v) PROVE p \in Covers(w)
    BY <1>1, <1>3, <1>4
  <2> QED
    BY <2>1, <2>2, <2>3
<1>9. Ordered(v)
  <2>1. ASSUME NEW i \in 1 .. Len(v), NEW j \in 1 .. Len(v), i < j,
               NEW p \in v[i].covers, NEW q \in v[j].covers
        PROVE  p < q
    <3>1. /\ v[i] = w[i + c] /\ v[j] = w[j + c] /\ i + c \in 1 .. Len(w)
          /\ j + c \in 1 .. Len(w) /\ i + c < j + c
      BY <1>1, <2>1
    <3> QED
      BY <2>1, <3>1 DEF Ordered
  <2> QED
    BY <2>1 DEF Ordered
<1>10. ASSUME NEW p \in Covers(u), NEW q \in Covers(v) PROVE p < q
  <2>1. PICK i \in 1 .. c : p \in w[i].covers
    BY <1>1, <1>5
  <2>2. PICK j \in 1 .. Len(w) - c : q \in w[j + c].covers
    BY <1>1, <1>4
  <2>3. i \in 1 .. Len(w) /\ j + c \in 1 .. Len(w) /\ i < j + c
    BY <1>1
  <2> QED
    BY <2>1, <2>2, <2>3 DEF Ordered
<1> QED
  BY <1>8, <1>9, <1>10 DEF u, v

-----------------------------------------------------------------------------
\* A message in front of a context.
LEMMA Prepended ==
  ASSUME NEW w, Messages(w), NEW m \in Msg
  PROVE  /\ <<m>> \o w \in Seq(Msg) /\ Len(<<m>> \o w) = Len(w) + 1
         /\ (<<m>> \o w)[1] = m
         /\ \A i \in 1 .. Len(w) : (<<m>> \o w)[i + 1] = w[i]
         /\ \A i \in 1 .. Len(w) + 1 : i = 1 \/ (i - 1 \in 1 .. Len(w) /\ (i - 1) + 1 = i)
<1>1. w \in Seq(Msg) /\ Len(w) \in Nat /\ <<m>> \in Seq(Msg) /\ Len(<<m>>) = 1 /\ <<m>>[1] = m
  BY DEF Messages
<1>2. \A i \in 1 .. Len(w) : i + 1 > 1 /\ i + 1 - 1 = i /\ i + 1 \in 1 .. Len(w) + 1
  BY <1>1
<1> QED
  BY <1>1, <1>2

\* A message that calls nothing may stand in front of any context.
LEMMA PrependSound ==
  ASSUME NEW w, Messages(w), NEW m \in Msg, Made(m), m.role # "tool", m.calls = {}
  PROVE  /\ Messages(<<m>> \o w)
         /\ Grouped(w) => Grouped(<<m>> \o w)
         /\ Closed(w) => Closed(<<m>> \o w)
         /\ Covers(<<m>> \o w) = m.covers \cup Covers(w)
         /\ Ordered(w) /\ (\A p \in m.covers, q \in Covers(w) : p < q) => Ordered(<<m>> \o w)
<1> DEFINE v == <<m>> \o w
<1>1. /\ v \in Seq(Msg) /\ Len(v) = Len(w) + 1 /\ v[1] = m
      /\ \A i \in 1 .. Len(w) : v[i + 1] = w[i]
      /\ \A i \in 1 .. Len(w) + 1 : i = 1 \/ (i - 1 \in 1 .. Len(w) /\ (i - 1) + 1 = i)
  BY Prepended
<1>2. Len(w) \in Nat /\ DOMAIN w = 1 .. Len(w) /\ DOMAIN v = 1 .. Len(w) + 1
  BY <1>1, MessageTypes
<1> HIDE DEF v
<1>3. Messages(v)
  <2>1. \A i \in 1 .. Len(v) : Made(v[i])
    BY <1>1 DEF Messages
  <2> QED
    BY <1>1, <2>1 DEF Messages
<1>4. ASSUME NEW j, NEW c, ResultAt(w, j, c) PROVE ResultAt(v, j + 1, c)
  <2>1. j \in 1 .. Len(w) /\ j + 1 \in 1 .. Len(v)
    BY <1>1, <1>2, <1>4 DEF ResultAt
  <2> QED
    BY <1>1, <1>4, <2>1 DEF ResultAt
<1>5. ASSUME Grouped(w) PROVE Grouped(v)
  <2>1. ASSUME NEW j \in 1 .. Len(v), v[j].role = "tool"
        PROVE  /\ v[j].id < j
               /\ v[j].id \in v[j - v[j].id].calls
               /\ \A c \in 1 .. v[j].id : ResultAt(v, j - v[j].id + c, c)
    <3>1. j - 1 \in 1 .. Len(w) /\ v[j] = w[j - 1] /\ j \in Nat
      <4>1. j - 1 \in 1 .. Len(w) /\ (j - 1) + 1 = j
        BY <1>1, <1>2, <2>1
      <4> QED
        BY <1>1, <1>2, <4>1
    <3>2. PICK h \in 1 .. Len(w) :
           /\ h < j - 1 /\ w[j - 1].id = j - 1 - h /\ j - 1 - h \in w[h].calls
           /\ \A b \in 1 .. j - 1 - h : ResultAt(w, h + b, b)
      BY <1>5, <2>1, <3>1, HeadOf
    <3>3. v[h + 1] = w[h] /\ j - v[j].id = h + 1 /\ v[j].id = j - 1 - h
      BY <1>1, <1>2, <3>1, <3>2
    <3>4. ASSUME NEW c \in 1 .. v[j].id PROVE ResultAt(v, h + 1 + c, c)
      <4>1. ResultAt(w, h + c, c) /\ (h + c) + 1 = h + 1 + c
        BY <3>1, <3>2, <3>3
      <4> QED
        BY <1>4, <4>1
    <3> QED
      BY <1>2, <3>1, <3>2, <3>3, <3>4
  <2> QED
    BY <2>1 DEF Grouped
<1>6. ASSUME Closed(w) PROVE Closed(v)
  <2>1. ASSUME NEW i \in 1 .. Len(v), NEW c \in v[i].calls PROVE ResultAt(v, i + c, c)
    <3>1. i - 1 \in 1 .. Len(w) /\ v[i] = w[i - 1] /\ i \in Nat
      BY <1>1, <1>2
    <3>2. ResultAt(w, i - 1 + c, c)
      BY <1>6, <3>1 DEF Closed, Complete
    <3>3. c \in Nat
      <4>1. c \in Id
        BY <3>1, MessageTypes
      <4> QED
        BY <4>1, ConversationAssumption DEF Id
    <3>4. (i - 1 + c) + 1 = i + c
      BY <3>1, <3>3
    <3> QED
      BY <1>4, <3>2, <3>4
  <2> QED
    BY <2>1 DEF Closed, Complete
<1>7. Covers(v) = m.covers \cup Covers(w)
  <2>1. \A p : p \in Covers(v) <=> \E i \in 1 .. Len(w) + 1 : p \in v[i].covers
    BY <1>2 DEF Covers
  <2>2. \A p : p \in Covers(w) <=> \E i \in 1 .. Len(w) : p \in w[i].covers
    BY <1>2 DEF Covers
  <2>3. \A i \in 1 .. Len(w) : i + 1 \in 1 .. Len(w) + 1
    BY <1>2
  <2>4. 1 \in 1 .. Len(w) + 1
    BY <1>2
  <2>5. ASSUME NEW p \in Covers(v) PROVE p \in m.covers \cup Covers(w)
    <3>1. PICK i \in 1 .. Len(w) + 1 : p \in v[i].covers
      BY <2>1
    <3>2. CASE i = 1
      BY <1>1, <3>1, <3>2
    <3>3. CASE i - 1 \in 1 .. Len(w) /\ (i - 1) + 1 = i
      <4>1. v[i] = w[i - 1]
        BY <1>1, <3>3
      <4> QED
        BY <2>2, <3>1, <3>3, <4>1
    <3> QED
      BY <1>1, <3>2, <3>3
  <2>6. ASSUME NEW p \in Covers(w) PROVE p \in Covers(v)
    BY <1>1, <2>1, <2>2, <2>3
  <2>7. ASSUME NEW p \in m.covers PROVE p \in Covers(v)
    BY <1>1, <2>1, <2>4
  <2> QED
    BY <2>5, <2>6, <2>7
<1>8. ASSUME Ordered(w), \A p \in m.covers, q \in Covers(w) : p < q PROVE Ordered(v)
  <2>1. ASSUME NEW i \in 1 .. Len(v), NEW j \in 1 .. Len(v), i < j,
               NEW p \in v[i].covers, NEW q \in v[j].covers
        PROVE  p < q
    <3>1. j - 1 \in 1 .. Len(w) /\ v[j] = w[j - 1]
      BY <1>1, <1>2, <2>1
    <3>2. CASE i = 1
      <4>1. q \in Covers(w)
        BY <1>2, <2>1, <3>1 DEF Covers
      <4> QED
        BY <1>1, <1>8, <2>1, <3>2, <4>1
    <3>3. CASE i # 1
      <4>1. i - 1 \in 1 .. Len(w) /\ v[i] = w[i - 1] /\ i - 1 < j - 1
        BY <1>1, <1>2, <2>1, <3>3
      <4> QED
        BY <1>8, <2>1, <3>1, <4>1 DEF Ordered
    <3> QED
      BY <3>2, <3>3
  <2> QED
    BY <2>1 DEF Ordered
<1> QED
  BY <1>3, <1>5, <1>6, <1>7, <1>8 DEF v

-----------------------------------------------------------------------------
(* Flattening.                                                             *)

\* off[i] is where the i-th of the sequences in ss starts when they are put
\* one after another in v; n of them have been.
Laid(ss, off, v, n) ==
  /\ off \in [1 .. n + 1 -> Nat] /\ off[1] = 0
  /\ \A i \in 1 .. n : off[i + 1] = off[i] + Len(ss[i])
  /\ Len(v) = off[n + 1]
  /\ \A i \in 1 .. n : \A j \in 1 .. Len(ss[i]) :
       off[i] + j \in 1 .. Len(v) /\ v[off[i] + j] = ss[i][j]
  /\ \A k \in 1 .. Len(v) : \E i \in 1 .. n : \E j \in 1 .. Len(ss[i]) : k = off[i] + j
  /\ \A i, b \in 1 .. n + 1 : i <= b => off[i] <= off[b]

\* Two sequences put together.
LEMMA Concatenated ==
  ASSUME NEW S, NEW v \in Seq(S), NEW t \in Seq(S)
  PROVE  /\ v \o t \in Seq(S) /\ Len(v \o t) = Len(v) + Len(t)
         /\ \A k \in 1 .. Len(v) : (v \o t)[k] = v[k]
         /\ \A j \in 1 .. Len(t) : /\ (v \o t)[Len(v) + j] = t[j]
                                    /\ Len(v) + j \in 1 .. Len(v \o t)
<1>1. v \o t \in Seq(S) /\ Len(v \o t) = Len(v) + Len(t) /\ Len(v) \in Nat /\ Len(t) \in Nat
  OBVIOUS
<1>2. \A k \in 1 .. Len(v) : (v \o t)[k] = v[k]
  OBVIOUS
<1>3. ASSUME NEW j \in 1 .. Len(t) PROVE (v \o t)[Len(v) + j] = t[j]
  <2>1. Len(v) + j \in 1 .. Len(v) + Len(t) /\ ~(Len(v) + j <= Len(v)) /\ Len(v) + j - Len(v) = j
    BY <1>1
  <2> QED
    BY <2>1
<1>4. ASSUME NEW j \in 1 .. Len(t) PROVE Len(v) + j \in 1 .. Len(v \o t)
  BY <1>1
<1> QED
  BY <1>1, <1>2, <1>3, <1>4

\* One more sequence put at the end.
LEMMA LaidOn ==
  ASSUME NEW S, NEW ss \in Seq(Seq(S)), NEW n \in Nat, n + 1 <= Len(ss),
         NEW off, NEW v \in Seq(S), Laid(ss, off, v, n)
  PROVE  \E new : Laid(ss, new, v \o ss[n + 1], n + 1)
<1> DEFINE t == ss[n + 1]
           new == [i \in 1 .. n + 2 |-> IF i = n + 2 THEN off[n + 1] + Len(t) ELSE off[i]]
           u == v \o t
<1>1. /\ t \in Seq(S) /\ Len(t) \in Nat /\ \A i \in 1 .. n + 1 : Len(ss[i]) \in Nat
  <2>1. n + 1 \in 1 .. Len(ss) /\ \A i \in 1 .. n + 1 : i \in 1 .. Len(ss)
    OBVIOUS
  <2>2. \A i \in 1 .. Len(ss) : ss[i] \in Seq(S)
    OBVIOUS
  <2> QED
    BY <2>1, <2>2
<1>2. /\ off \in [1 .. n + 1 -> Nat] /\ off[1] = 0
      /\ \A i \in 1 .. n : off[i + 1] = off[i] + Len(ss[i])
      /\ Len(v) = off[n + 1] /\ Len(v) \in Nat
  BY DEF Laid
<1> HIDE DEF t
<1>3. /\ Len(u) = Len(v) + Len(t) /\ \A k \in 1 .. Len(v) : u[k] = v[k]
      /\ \A j \in 1 .. Len(t) : u[Len(v) + j] = t[j] /\ Len(v) + j \in 1 .. Len(u)
  BY <1>1, Concatenated
<1> HIDE DEF u
<1>4. /\ new \in [1 .. n + 2 -> Nat] /\ new[n + 2] = Len(u)
      /\ \A i \in 1 .. n + 1 : new[i] = off[i] /\ off[i] \in Nat
  BY <1>1, <1>2, <1>3
<1> HIDE DEF new
<1>5. \A i \in 1 .. n + 1 : i = n + 1 \/ i \in 1 .. n
  OBVIOUS
<1>6. \A i \in 1 .. n + 1 : new[i + 1] = new[i] + Len(ss[i])
  <2> SUFFICES ASSUME NEW i \in 1 .. n + 1 PROVE new[i + 1] = new[i] + Len(ss[i])
    OBVIOUS
  <2>1. CASE i = n + 1
    BY <1>2, <1>3, <1>4, <2>1 DEF t
  <2>2. CASE i \in 1 .. n
    <3>1. i + 1 \in 1 .. n + 1
      BY <2>2
    <3> QED
      BY <1>2, <1>4, <2>2, <3>1
  <2> QED
    BY <1>5, <2>1, <2>2
<1>7. \A i \in 1 .. n + 1 : \A j \in 1 .. Len(ss[i]) :
        new[i] + j \in 1 .. Len(u) /\ u[new[i] + j] = ss[i][j]
  <2> SUFFICES ASSUME NEW i \in 1 .. n + 1, NEW j \in 1 .. Len(ss[i])
               PROVE  new[i] + j \in 1 .. Len(u) /\ u[new[i] + j] = ss[i][j]
    OBVIOUS
  <2>1. CASE i = n + 1
    BY <1>2, <1>3, <1>4, <2>1 DEF t
  <2>2. CASE i \in 1 .. n
    <3>1. off[i] + j \in 1 .. Len(v) /\ v[off[i] + j] = ss[i][j]
      BY <2>2 DEF Laid
    <3>2. new[i] = off[i] /\ 1 .. Len(v) \subseteq 1 .. Len(u)
      BY <1>1, <1>2, <1>3, <1>4
    <3> QED
      BY <1>3, <3>1, <3>2
  <2> QED
    BY <1>5, <2>1, <2>2
<1>8. \A k \in 1 .. Len(u) : \E i \in 1 .. n + 1 : \E j \in 1 .. Len(ss[i]) : k = new[i] + j
  <2> SUFFICES ASSUME NEW k \in 1 .. Len(u)
               PROVE  \E i \in 1 .. n + 1 : \E j \in 1 .. Len(ss[i]) : k = new[i] + j
    OBVIOUS
  <2>1. CASE k \in 1 .. Len(v)
    <3>1. PICK i \in 1 .. n : \E j \in 1 .. Len(ss[i]) : k = off[i] + j
      BY <2>1 DEF Laid
    <3>2. i \in 1 .. n + 1 /\ new[i] = off[i]
      BY <1>4
    <3> QED
      BY <3>1, <3>2
  <2>2. CASE k \notin 1 .. Len(v)
    <3>1. k - Len(v) \in 1 .. Len(t) /\ k = new[n + 1] + (k - Len(v))
      <4>1. n + 1 \in 1 .. n + 1
        OBVIOUS
      <4>2. new[n + 1] = Len(v)
        BY <1>2, <1>4, <4>1
      <4>3. Len(v) \in Nat /\ Len(t) \in Nat /\ Len(u) = Len(v) + Len(t)
        BY <1>1, <1>3
      <4> QED
        BY <2>2, <4>2, <4>3
    <3>2. n + 1 \in 1 .. n + 1
      OBVIOUS
    <3> QED
      BY <3>1, <3>2 DEF t
  <2> QED
    BY <2>1, <2>2
<1>9. \A i, b \in 1 .. (n + 1) + 1 : i <= b => new[i] <= new[b]
  <2> SUFFICES ASSUME NEW i \in 1 .. n + 2, NEW b \in 1 .. n + 2, i <= b
               PROVE  new[i] <= new[b]
    OBVIOUS
  <2>1. CASE b = n + 2
    <3>1. CASE i = n + 2
      BY <1>4, <2>1, <3>1
    <3>2. CASE i \in 1 .. n + 1
      <4>1. off[i] <= off[n + 1] /\ off[i] \in Nat
        BY <1>4, <3>2 DEF Laid
      <4>2. new[i] = off[i] /\ new[b] = Len(v) + Len(t)
        BY <1>3, <1>4, <2>1, <3>2
      <4> QED
        BY <1>1, <1>2, <4>1, <4>2
    <3> QED
      BY <3>1, <3>2
  <2>2. CASE b # n + 2
    <3>1. i \in 1 .. n + 1 /\ b \in 1 .. n + 1
      BY <2>2
    <3>2. off[i] <= off[b]
      BY <3>1 DEF Laid
    <3> QED
      BY <1>4, <3>1, <3>2
  <2> QED
    BY <2>1, <2>2
<1>10. new[1] = 0
  <2>1. 1 \in 1 .. n + 1
    OBVIOUS
  <2> QED
    BY <1>2, <1>4, <2>1
<1>11. (n + 1) + 1 = n + 2
  OBVIOUS
<1>12. Laid(ss, new, u, n + 1)
  BY <1>4, <1>6, <1>7, <1>8, <1>9, <1>10, <1>11 DEF Laid
<1> QED
  BY <1>12 DEF u, t

\* What FlattenSeq returns is its sequences, one after another.
LEMMA FlatLaid ==
  ASSUME NEW S, NEW ss \in Seq(Seq(S))
  PROVE  FlattenSeq(ss) \in Seq(S) /\ \E off : Laid(ss, off, FlattenSeq(ss), Len(ss))
<1> DEFINE N == Len(ss)
           Body(f, i) == IF i = 1 THEN ss[i] ELSE f[i - 1] \o ss[i]
           A == {k \in Nat : \E f : f = [i \in 1 .. k |-> Body(f, i)]}
<1>1. N \in Nat /\ \A i \in 1 .. N : ss[i] \in Seq(S)
  OBVIOUS
<1>2. Nat \subseteq A
  <2>1. 0 \in A
    <3> DEFINE f == [i \in 1 .. 0 |-> 0]
    <3>1. f = [i \in 1 .. 0 |-> Body(f, i)]
      <4>1. 1 .. 0 = {}
        OBVIOUS
      <4> HIDE DEF Body
      <4> QED
        BY <4>1
    <3> HIDE DEF f, Body
    <3> QED
      BY <3>1
  <2>2. ASSUME NEW k \in Nat, k \in A PROVE k + 1 \in A
    <3>1. PICK f : f = [i \in 1 .. k |-> Body(f, i)]
      BY <2>2
    <3> DEFINE g == [i \in 1 .. (k + 1) |-> IF i = k + 1 THEN Body(f, i) ELSE f[i]]
    <3>2. ASSUME NEW i \in 1 .. (k + 1) PROVE g[i] = Body(g, i)
      <4>1. i = 1 \/ (i - 1 \in 1 .. k /\ g[i - 1] = f[i - 1])
        OBVIOUS
      <4>2. Body(g, i) = Body(f, i)
        BY <4>1
      <4>3. CASE i = k + 1
        BY <4>2, <4>3
      <4>4. CASE i # k + 1
        <5>1. i \in 1 .. k /\ g[i] = f[i]
          BY <4>4
        <5>2. f[i] = Body(f, i)
          BY <3>1, <5>1
        <5> HIDE DEF Body, g
        <5> QED
          BY <4>2, <5>1, <5>2
      <4> QED
        BY <4>3, <4>4
    <3>3. g = [i \in 1 .. (k + 1) |-> Body(g, i)]
      <4> HIDE DEF Body
      <4>1. g = [i \in 1 .. (k + 1) |-> g[i]]
        OBVIOUS
      <4> HIDE DEF g
      <4> QED
        BY <3>2, <4>1
    <3> HIDE DEF g, Body
    <3> QED
      BY <3>3
  <2> HIDE DEF A
  <2> QED
    BY <2>1, <2>2, NatInd
<1>3. ASSUME N # 0
      PROVE  \E f : f = [i \in 1 .. N |-> Body(f, i)] /\ FlattenSeq(ss) = f[N]
  <2> DEFINE flatten == CHOOSE flatten : flatten = [i \in 1 .. N |-> Body(flatten, i)]
  <2>1. \E f : f = [i \in 1 .. N |-> Body(f, i)]
    BY <1>1, <1>2
  <2>2. flatten = [i \in 1 .. N |-> Body(flatten, i)]
    BY <2>1
  <2>3. FlattenSeq(ss) = flatten[N]
    BY <1>3 DEF FlattenSeq
  <2> QED
    BY <2>2, <2>3
<1>4. CASE N = 0
  <2>1. FlattenSeq(ss) = ss /\ ss = <<>>
    BY <1>1, <1>4 DEF FlattenSeq
  <2> DEFINE off == [i \in 1 .. 1 |-> 0]
  <2>2. Len(<<>>) = 0 /\ <<>> \in Seq(S)
    OBVIOUS
  <2>3. Laid(ss, off, <<>>, 0)
    <3>1. off \in [1 .. 0 + 1 -> Nat] /\ off[1] = 0 /\ off[0 + 1] = 0
      OBVIOUS
    <3>2. \A i, b \in 1 .. 0 + 1 : off[i] <= off[b]
      OBVIOUS
    <3>3. 1 .. 0 = {}
      OBVIOUS
    <3> HIDE DEF off
    <3> QED
      BY <2>2, <3>1, <3>2, <3>3 DEF Laid
  <2> QED
    BY <1>4, <2>1, <2>2, <2>3
<1>5. CASE N # 0
  <2>1. PICK f : f = [i \in 1 .. N |-> Body(f, i)] /\ FlattenSeq(ss) = f[N]
    BY <1>3, <1>5
  <2>2. \A i \in 1 .. N : f[i] = Body(f, i)
    BY <2>1
  <2> DEFINE Good(k) == f[k] \in Seq(S) /\ \E off : Laid(ss, off, f[k], k)
             C == {k \in Nat : k + 1 <= N => Good(k + 1)}
  <2>3. 0 \in C
    <3>1. f[1] = ss[1] /\ 1 \in 1 .. N
      BY <1>1, <1>5, <2>2
    <3> DEFINE off == [i \in 1 .. 2 |-> IF i = 1 THEN 0 ELSE Len(ss[1])]
               v == ss[1]
    <3>2. v \in Seq(S) /\ Len(v) \in Nat
      BY <1>1, <3>1
    <3>3. off \in [1 .. 2 -> Nat] /\ off[1] = 0 /\ off[2] = Len(v)
      BY <3>2
    <3> HIDE DEF off
    <3>4. \A i \in 1 .. 1 : i = 1 /\ off[i + 1] = off[i] + Len(ss[i])
      BY <3>2, <3>3
    <3>5. \A i, b \in 1 .. 2 : i <= b => off[i] <= off[b]
      <4>1. \A i \in 1 .. 2 : i = 1 \/ i = 2
        OBVIOUS
      <4> QED
        BY <3>2, <3>3, <4>1
    <3>6. \A i \in 1 .. 1 : \A j \in 1 .. Len(ss[i]) :
            off[i] + j \in 1 .. Len(v) /\ v[off[i] + j] = ss[i][j]
      <4>1. ASSUME NEW j \in 1 .. Len(v) PROVE off[1] + j = j
        BY <3>2, <3>3
      <4> QED
        BY <3>4, <4>1
    <3>7. \A k \in 1 .. Len(v) : \E i \in 1 .. 1 : \E j \in 1 .. Len(ss[i]) : k = off[i] + j
      <4> SUFFICES ASSUME NEW k \in 1 .. Len(v)
                   PROVE  \E i \in 1 .. 1 : \E j \in 1 .. Len(ss[i]) : k = off[i] + j
        OBVIOUS
      <4>1. 1 \in 1 .. 1 /\ k = off[1] + k
        BY <3>2, <3>3
      <4> QED
        BY <4>1
    <3>8. Laid(ss, off, v, 1)
      BY <3>3, <3>4, <3>5, <3>6, <3>7 DEF Laid
    <3> QED
      BY <3>1, <3>2, <3>8
  <2>4. ASSUME NEW k \in Nat, k \in C PROVE k + 1 \in C
    <3> SUFFICES ASSUME (k + 1) + 1 <= N PROVE Good((k + 1) + 1)
      OBVIOUS
    <3>1. Good(k + 1) /\ k + 1 \in Nat
      BY <1>1, <2>4
    <3>2. f[(k + 1) + 1] = f[k + 1] \o ss[(k + 1) + 1]
      <4>1. (k + 1) + 1 \in 1 .. N /\ (k + 1) + 1 # 1 /\ (k + 1) + 1 - 1 = k + 1
        BY <1>1
      <4>2. ASSUME NEW i \in 1 .. N, i # 1 PROVE f[i] = f[i - 1] \o ss[i]
        BY <2>2, <4>2
      <4>3. PICK i \in 1 .. N : i = (k + 1) + 1 /\ i # 1 /\ i - 1 = k + 1
        BY <4>1
      <4>4. f[i] = f[i - 1] \o ss[i]
        BY <4>2, <4>3
      <4> HIDE DEF N
      <4> QED
        BY <4>3, <4>4
    <3>3. ss[(k + 1) + 1] \in Seq(S)
      BY <1>1
    <3>4. PICK off : Laid(ss, off, f[k + 1], k + 1)
      BY <3>1
    <3>5. \E new : Laid(ss, new, f[k + 1] \o ss[(k + 1) + 1], (k + 1) + 1)
      BY <3>1, <3>4, LaidOn
    <3>6. f[k + 1] \o ss[(k + 1) + 1] \in Seq(S)
      BY <3>1, <3>3
    <3> QED
      BY <3>2, <3>5, <3>6
  <2> HIDE DEF C
  <2>5. N - 1 \in C
    <3>1. Nat \subseteq C
      BY <2>3, <2>4, NatInd
    <3>2. N - 1 \in Nat
      BY <1>1, <1>5
    <3> QED
      BY <3>1, <3>2
  <2>6. Good(N)
    BY <1>1, <1>5, <2>5 DEF C
  <2> QED
    BY <2>1, <2>6
<1> QED
  BY <1>4, <1>5

-----------------------------------------------------------------------------
(* Keeping some of the messages.                                           *)

\* at[i] is where the message of w at i is in v, which has those in I.
Placed(w, I, v, at) ==
  /\ at \in [1 .. Len(w) -> Nat]
  /\ \A i \in 1 .. Len(w) : i \in I => at[i] \in 1 .. Len(v) /\ v[at[i]] = w[i]
  /\ \A k \in 1 .. Len(v) : \E i \in 1 .. Len(w) : i \in I /\ k = at[i]
  /\ \A i, j \in 1 .. Len(w) : i \in I /\ j \in I /\ i < j => at[i] < at[j]
  /\ \A i, j \in 1 .. Len(w) : i \in I /\ j \in I /\ j = i + 1 => at[j] = at[i] + 1

\* Among keeps exactly the messages at the positions given, in their order.
LEMMA AmongPlaced ==
  ASSUME NEW w, Messages(w), NEW I
  PROVE  /\ Messages(Among(w, I))
         /\ \E at : Placed(w, I, Among(w, I), at)
<1> DEFINE ss == [i \in DOMAIN w |-> IF i \in I THEN <<w[i]>> ELSE <<>>]
           v == FlattenSeq(ss)
           N == Len(w)
<1>1. N \in Nat /\ DOMAIN w = 1 .. N /\ \A i \in 1 .. N : w[i] \in Msg
  BY MessageTypes
<1>2. ss \in Seq(Seq(Msg)) /\ Len(ss) = N
  <2>1. ASSUME NEW i \in 1 .. N
        PROVE  (IF i \in I THEN <<w[i]>> ELSE <<>>) \in Seq(Msg)
    <3>1. <<w[i]>> \in Seq(Msg) /\ <<>> \in Seq(Msg)
      BY <1>1
    <3> QED
      BY <3>1
  <2>2. ss \in [1 .. N -> Seq(Msg)]
    BY <1>1, <2>1
  <2> HIDE DEF ss
  <2> QED
    BY <1>1, <2>2
<1>3. \A i \in 1 .. N : /\ i \in I => Len(ss[i]) = 1 /\ ss[i][1] = w[i]
                        /\ i \notin I => Len(ss[i]) = 0
  BY <1>1
<1> HIDE DEF ss
<1>4. v \in Seq(Msg) /\ Len(v) \in Nat
  BY <1>2, FlatLaid
<1>5. PICK off : Laid(ss, off, v, N)
  BY <1>2, FlatLaid
<1> HIDE DEF v, N
<1>6. /\ off \in [1 .. N + 1 -> Nat]
      /\ \A i \in 1 .. N : off[i + 1] = off[i] + Len(ss[i])
      /\ \A i \in 1 .. N : \A j \in 1 .. Len(ss[i]) :
           off[i] + j \in 1 .. Len(v) /\ v[off[i] + j] = ss[i][j]
      /\ \A k \in 1 .. Len(v) : \E i \in 1 .. N : \E j \in 1 .. Len(ss[i]) : k = off[i] + j
      /\ \A i, b \in 1 .. N + 1 : i <= b => off[i] <= off[b]
  BY <1>5 DEF Laid
<1> DEFINE at == [i \in 1 .. N |-> off[i] + 1]
<1>7. /\ at \in [1 .. N -> Nat]
      /\ \A i \in 1 .. N : at[i] = off[i] + 1 /\ off[i] \in Nat /\ i + 1 \in 1 .. N + 1
  BY <1>1, <1>6
<1> HIDE DEF at
<1>8. ASSUME NEW i \in 1 .. N, i \in I PROVE at[i] \in 1 .. Len(v) /\ v[at[i]] = w[i]
  <2>1. 1 \in 1 .. Len(ss[i]) /\ ss[i][1] = w[i]
    BY <1>3, <1>8
  <2> QED
    BY <1>6, <1>7, <2>1
<1>9. ASSUME NEW k \in 1 .. Len(v) PROVE \E i \in 1 .. N : i \in I /\ k = at[i]
  <2>1. PICK i \in 1 .. N : \E j \in 1 .. Len(ss[i]) : k = off[i] + j
    BY <1>6
  <2>2. PICK j \in 1 .. Len(ss[i]) : k = off[i] + j
    BY <2>1
  <2>3. i \in I /\ j = 1
    <3>1. CASE i \in I
      <4>1. Len(ss[i]) = 1
        BY <1>3, <3>1
      <4> QED
        BY <2>2, <3>1, <4>1
    <3>2. CASE i \notin I
      <4>1. Len(ss[i]) = 0
        BY <1>3, <3>2
      <4> QED
        BY <2>2, <4>1
    <3> QED
      BY <3>1, <3>2
  <2> QED
    BY <1>7, <2>2, <2>3
<1>10. ASSUME NEW i \in 1 .. N, NEW j \in 1 .. N, i \in I, i < j
       PROVE  at[i] < at[j] /\ (j = i + 1 => at[j] = at[i] + 1)
  <2>1. off[i + 1] = off[i] + 1
    BY <1>3, <1>6, <1>10
  <2>2. i + 1 \in 1 .. N + 1 /\ j \in 1 .. N + 1 /\ i + 1 <= j
    BY <1>1, <1>10
  <2>3. off[i + 1] <= off[j]
    BY <1>6, <2>2
  <2> QED
    BY <1>7, <2>1, <2>3
<1>11. \A k \in 1 .. Len(v) : Made(v[k])
  <2> SUFFICES ASSUME NEW k \in 1 .. Len(v) PROVE Made(v[k])
    OBVIOUS
  <2>1. PICK i \in 1 .. N : i \in I /\ k = at[i]
    BY <1>9
  <2>2. v[k] = w[i]
    BY <1>8, <2>1
  <2> QED
    BY <2>2 DEF Messages, N
<1>12. Messages(v)
  BY <1>4, <1>11 DEF Messages
<1>13. \A i, j \in 1 .. N : j = i + 1 => i < j
  BY <1>1
<1>14. Placed(w, I, v, at)
  BY <1>7, <1>8, <1>9, <1>10, <1>13 DEF Placed, N
<1>15. Among(w, I) = v
  BY DEF Among, v, ss
<1> QED
  BY <1>12, <1>14, <1>15

\* I has the message at i and the c after it.
Run(w, I, i, c) == \A b \in 0 .. c : i + b \in 1 .. Len(w) /\ i + b \in I

\* Messages that stand together stay together.
LEMMA PlacedRun ==
  ASSUME NEW w, Messages(w), NEW I, NEW v, NEW at, Placed(w, I, v, at),
         NEW i \in 1 .. Len(w), NEW c \in Nat,
         Run(w, I, i, c), NEW b \in 0 .. c
  PROVE  at[i + b] = at[i] + b
<1> DEFINE A == {d \in Nat : d <= c => at[i + d] = at[i] + d}
<1>1. Len(w) \in Nat /\ at \in [1 .. Len(w) -> Nat]
  BY MessageTypes DEF Placed
<1>2. 0 \in A
  <2>1. i + 0 = i /\ at[i] \in Nat
    BY <1>1
  <2> QED
    BY <2>1
<1>3. ASSUME NEW d \in Nat, d \in A PROVE d + 1 \in A
  <2> SUFFICES ASSUME d + 1 <= c PROVE at[i + (d + 1)] = at[i] + (d + 1)
    OBVIOUS
  <2>1. at[i + d] = at[i] + d
    BY <1>3
  <2> DEFINE g == i + d
             h == i + (d + 1)
  <2>2. d \in 0 .. c /\ d + 1 \in 0 .. c
    OBVIOUS
  <2>3. g \in 1 .. Len(w) /\ g \in I /\ h \in 1 .. Len(w) /\ h \in I /\ h = g + 1
    BY <2>2 DEF Run
  <2> HIDE DEF g, h
  <2>4. at[h] = at[g] + 1
    BY <2>3 DEF Placed
  <2>5. at[g] = at[i] + d /\ at[i] \in Nat
    BY <1>1, <2>1 DEF g
  <2>6. at[h] = at[i] + (d + 1)
    BY <2>4, <2>5
  <2> QED
    BY <2>6 DEF h
<1> HIDE DEF A
<1>4. Nat \subseteq A
  BY <1>2, <1>3, NatInd
<1>5. b \in A /\ b <= c
  BY <1>4
<1> QED
  BY <1>5 DEF A

\* They stand for what they stood for, in the same order.
LEMMA PlacedCovers ==
  ASSUME NEW w, Messages(w), Ordered(w), NEW I, NEW v, Messages(v), NEW at, Placed(w, I, v, at)
  PROVE  /\ Ordered(v)
         /\ \A p : p \in Covers(v) <=> \E i \in 1 .. Len(w) : i \in I /\ p \in w[i].covers
<1>1. Len(w) \in Nat /\ at \in [1 .. Len(w) -> Nat] /\ DOMAIN v = 1 .. Len(v)
  BY MessageTypes DEF Placed
<1>2. \A p : p \in Covers(v) <=> \E k \in 1 .. Len(v) : p \in v[k].covers
  BY <1>1 DEF Covers
<1>3. ASSUME NEW p, NEW k \in 1 .. Len(v), p \in v[k].covers
      PROVE  \E i \in 1 .. Len(w) : i \in I /\ k = at[i] /\ p \in w[i].covers
  <2>1. PICK i \in 1 .. Len(w) : i \in I /\ k = at[i]
    BY DEF Placed
  <2>2. v[k] = w[i]
    BY <2>1 DEF Placed
  <2> QED
    BY <1>3, <2>1, <2>2
<1>4. ASSUME NEW p, NEW i \in 1 .. Len(w), i \in I, p \in w[i].covers PROVE p \in Covers(v)
  <2>1. at[i] \in 1 .. Len(v) /\ v[at[i]] = w[i]
    BY <1>4 DEF Placed
  <2> QED
    BY <1>2, <1>4, <2>1
<1>5. ASSUME NEW a \in 1 .. Len(v), NEW b \in 1 .. Len(v), a < b,
             NEW p \in v[a].covers, NEW q \in v[b].covers
      PROVE  p < q
  <2>1. PICK i \in 1 .. Len(w) : i \in I /\ a = at[i] /\ p \in w[i].covers
    BY <1>3
  <2>2. PICK j \in 1 .. Len(w) : j \in I /\ b = at[j] /\ q \in w[j].covers
    BY <1>3
  <2>3. i # j /\ ~(j < i)
    <3>1. ASSUME j < i PROVE FALSE
      <4>1. at[j] < at[i] /\ at[i] \in Nat /\ at[j] \in Nat
        BY <1>1, <2>1, <2>2, <3>1 DEF Placed
      <4> QED
        BY <1>5, <2>1, <2>2, <4>1
    <3>2. i # j
      BY <1>1, <1>5, <2>1, <2>2
    <3> QED
      BY <3>1, <3>2
  <2>4. i < j
    BY <1>1, <2>3
  <2> QED
    BY <2>1, <2>2, <2>4 DEF Ordered
<1>6. Ordered(v)
  BY <1>5 DEF Ordered
<1> QED
  BY <1>2, <1>3, <1>4, <1>6

\* I has whole groups: with a result, everything back to its decision; with a
\* decision, every result it has.
Whole(w, I) ==
  \A i \in 1 .. Len(w) : \A c \in Nat :
    (\A b \in 1 .. c : ResultAt(w, i + b, b)) /\ c \in w[i].calls =>
       (i \in I <=> i + c \in I)

\* The messages from a decision to one of its results, when I has one of them.
LEMMA WholeRun ==
  ASSUME NEW w, Messages(w), NEW I, Whole(w, I), NEW i \in 1 .. Len(w), NEW c \in w[i].calls,
         \A b \in 1 .. c : ResultAt(w, i + b, b), i \in I \/ i + c \in I
  PROVE  c \in Nat /\ Run(w, I, i, c)
<1>1. PICK n \in Id : w[i].calls = 1 .. n
  BY MessageTypes DEF Made
<1>2. n \in Nat /\ c \in 1 .. n /\ c \in Nat
  BY <1>1, ConversationAssumption DEF Id
<1>3. i \in I
  BY <1>2 DEF Whole
<1>4. ASSUME NEW b \in 1 .. c PROVE i + b \in I
  <2>1. b \in w[i].calls /\ b \in Nat /\ \A d \in 1 .. b : d \in 1 .. c
    BY <1>1, <1>2
  <2>2. \A d \in 1 .. b : ResultAt(w, i + d, d)
    BY <2>1
  <2> QED
    BY <1>3, <2>1, <2>2 DEF Whole
<1>5. ASSUME NEW b \in 0 .. c PROVE i + b \in 1 .. Len(w) /\ i + b \in I
  <2>1. CASE b = 0
    BY <1>3, <2>1
  <2>2. CASE b # 0
    <3>1. b \in 1 .. c
      BY <1>2, <2>2
    <3> QED
      BY <1>4, <3>1 DEF ResultAt
  <2> QED
    BY <2>1, <2>2
<1> QED
  BY <1>2, <1>5 DEF Run

\* Keeping whole groups keeps the pairing.
LEMMA PlacedPairs ==
  ASSUME NEW w, Messages(w), Grouped(w), NEW I, NEW v, Messages(v), NEW at,
         Placed(w, I, v, at), Whole(w, I)
  PROVE  Grouped(v) /\ (Closed(w) => Closed(v))
<1>1. /\ Len(w) \in Nat /\ at \in [1 .. Len(w) -> Nat] /\ Len(v) \in Nat
      /\ \A i \in 1 .. Len(w) : i \in I => at[i] \in 1 .. Len(v) /\ v[at[i]] = w[i]
      /\ \A k \in 1 .. Len(v) : \E i \in 1 .. Len(w) : i \in I /\ k = at[i]
  BY MessageTypes DEF Placed
\* What a decision and its result in w are in v.
<1>2. ASSUME NEW i \in 1 .. Len(w), NEW c \in w[i].calls,
             \A b \in 1 .. c : ResultAt(w, i + b, b), i \in I \/ i + c \in I
      PROVE  /\ c \in Nat /\ i \in I /\ i + c \in I /\ i + c \in 1 .. Len(w)
             /\ at[i + c] = at[i] + c /\ at[i] \in 1 .. Len(v) /\ v[at[i]] = w[i]
             /\ \A b \in 1 .. c : ResultAt(v, at[i] + b, b)
  <2>1. c \in Nat /\ Run(w, I, i, c)
    BY <1>2, WholeRun
  <2>2. \A b \in 0 .. c : at[i + b] = at[i] + b
    BY <2>1, PlacedRun
  <2>3. 0 \in 0 .. c /\ c \in 0 .. c /\ i + 0 = i
    BY <2>1
  <2>4. i \in I /\ i + c \in I /\ i + c \in 1 .. Len(w) /\ at[i + c] = at[i] + c
    BY <2>1, <2>2, <2>3 DEF Run
  <2>5. ASSUME NEW b \in 1 .. c PROVE ResultAt(v, at[i] + b, b)
    <3>1. b \in 0 .. c
      BY <2>1
    <3>2. at[i + b] = at[i] + b /\ i + b \in 1 .. Len(w) /\ i + b \in I
      BY <2>1, <2>2, <3>1 DEF Run
    <3>3. at[i] + b \in 1 .. Len(v) /\ v[at[i] + b] = w[i + b]
      BY <1>1, <3>2
    <3>4. ResultAt(w, i + b, b)
      BY <1>2
    <3> QED
      BY <3>3, <3>4 DEF ResultAt
  <2> QED
    BY <1>1, <2>1, <2>4, <2>5
<1>3. ASSUME NEW k \in 1 .. Len(v), v[k].role = "tool"
      PROVE  /\ v[k].id < k
             /\ v[k].id \in v[k - v[k].id].calls
             /\ \A c \in 1 .. v[k].id : ResultAt(v, k - v[k].id + c, c)
  <2>1. PICK j \in 1 .. Len(w) : j \in I /\ k = at[j]
    BY <1>1
  <2>2. v[k] = w[j]
    BY <1>1, <2>1
  <2>3. PICK h \in 1 .. Len(w) :
           /\ h < j /\ w[j].id = j - h /\ w[h].role = "assistant" /\ j - h \in w[h].calls
           /\ \A c \in 1 .. j - h : ResultAt(w, h + c, c)
    BY <1>3, <2>2, HeadOf
  <2> DEFINE d == j - h
  <2>4. d \in Nat /\ h + d = j /\ d >= 1
    BY <1>1, <2>3
  <2>5. d \in w[h].calls /\ \A c \in 1 .. d : ResultAt(w, h + c, c)
    BY <2>3
  <2>6. w[j].id = d
    BY <2>3
  <2> HIDE DEF d
  <2>7. /\ at[j] = at[h] + d /\ at[h] \in 1 .. Len(v) /\ v[at[h]] = w[h]
        /\ \A b \in 1 .. d : ResultAt(v, at[h] + b, b)
    BY <1>2, <2>1, <2>4, <2>5
  <2>8. k - d = at[h] /\ d < k
    BY <1>1, <2>1, <2>4, <2>7
  <2> QED
    BY <2>2, <2>5, <2>6, <2>7, <2>8
<1>4. Grouped(v)
  BY <1>3 DEF Grouped
<1>5. ASSUME Closed(w), NEW k \in 1 .. Len(v), NEW c \in v[k].calls
      PROVE  ResultAt(v, k + c, c)
  <2>1. PICK i \in 1 .. Len(w) : i \in I /\ k = at[i]
    BY <1>1
  <2>2. v[k] = w[i]
    BY <1>1, <2>1
  <2>3. PICK n \in Id : w[i].calls = 1 .. n
    BY <1>5, <2>2, MessageTypes DEF Made
  <2>4. c \in 1 .. n /\ n \in Nat
    BY <1>5, <2>2, <2>3, ConversationAssumption DEF Id
  <2>5. \A b \in 1 .. c : ResultAt(w, i + b, b)
    <3>1. \A b \in 1 .. c : b \in w[i].calls
      BY <2>3, <2>4
    <3> QED
      BY <1>5, <3>1 DEF Closed, Complete
  <2>6. c \in w[i].calls /\ c \in 1 .. c
    BY <2>3, <2>4
  <2>7. \A b \in 1 .. c : ResultAt(v, at[i] + b, b)
    BY <1>2, <2>1, <2>5, <2>6
  <2> QED
    BY <2>1, <2>6, <2>7
<1>6. Closed(w) => Closed(v)
  BY <1>5 DEF Closed, Complete
<1> QED
  BY <1>4, <1>6

-----------------------------------------------------------------------------
(* Rehydration of one decision.                                            *)

\* The fields of a plain message.
LEMMA PlainMessage ==
  ASSUME NEW r \in Role
  PROVE  /\ Plain(r) \in Msg /\ Plain(r).role = r /\ Plain(r).calls = {} /\ Plain(r).id = 0
         /\ ~Plain(r).noise /\ Plain(r).folds = {} /\ Plain(r).weight = 1 /\ Plain(r).covers = {}
BY DEF Plain, Msg

\* Marking a message as noise changes nothing else of it.
LEMMA MarkedMessage ==
  ASSUME NEW m \in Msg, NEW p \in BOOLEAN
  PROVE  /\ [m EXCEPT !.noise = p] \in Msg
         /\ [m EXCEPT !.noise = p].role = m.role /\ [m EXCEPT !.noise = p].calls = m.calls
         /\ [m EXCEPT !.noise = p].folds = m.folds
BY DEF Msg

\* What the messages of a session carry.
LEMMA MessagesMade ==
  /\ \A m \in {System, User, Stop, Reply} :
       m \in Msg /\ Made(m) /\ m.role # "tool" /\ m.calls = {} /\ m.folds = {}
  /\ User.role = "user" /\ System.role = "system"
  /\ \A m \in {User, Stop, Reply} : m.role # "system"
  /\ \A n \in Id, print \in {FALSE, On("drop_noise")} : LET m == Acts(1 .. n, print) IN
       /\ m \in Msg /\ Made(m) /\ m.role = "assistant" /\ m.calls = 1 .. n /\ m.folds = {}
  /\ \A D \in SUBSET Digest : LET m == Request(D) IN
       m \in Msg /\ Made(m) /\ m.role = "user" /\ m.calls = {} /\ m.folds = D
  /\ \A c \in Id : LET m == Result(c) IN
       /\ m \in Msg /\ Made(m) /\ m.role = "tool" /\ m.id = c /\ m.covers = {}
       /\ m.calls = {} /\ m.folds = {}
<1>1. \A r \in Role :
        /\ Plain(r) \in Msg /\ Plain(r).role = r /\ Plain(r).calls = {} /\ Plain(r).id = 0
        /\ ~Plain(r).noise /\ Plain(r).folds = {} /\ Plain(r).weight = 1 /\ Plain(r).covers = {}
  BY PlainMessage
<1>2. {"system", "user", "assistant", "tool"} = Role
  BY DEF Role
<1>3. \A m \in {System, User, Reply} :
       m \in Msg /\ Made(m) /\ m.role # "tool" /\ m.calls = {} /\ m.folds = {}
  BY <1>1, <1>2 DEF System, User, Reply, Made
<1>4. User.role = "user" /\ System.role = "system" /\ Reply.role = "assistant"
  BY <1>1, <1>2 DEF System, User, Reply
<1>5. PICK p \in BOOLEAN : p <=> On("drop_noise")
  BY DEF On
<1>6. /\ Stop \in Msg /\ Stop.role = "user" /\ Stop.calls = {} /\ Stop.folds = {}
  <2>1. \A q \in BOOLEAN : /\ [User EXCEPT !.noise = q] \in Msg
          /\ [User EXCEPT !.noise = q].role = "user" /\ [User EXCEPT !.noise = q].calls = {}
          /\ [User EXCEPT !.noise = q].folds = {}
    BY <1>3, <1>4, MarkedMessage
  <2>2. On("drop_noise") \in BOOLEAN
    BY DEF On
  <2> QED
    BY <2>1, <2>2, Zenon DEF Stop
<1>7. Made(Stop) /\ Stop.role # "tool"
  BY <1>6 DEF Made
<1>8. ASSUME NEW n \in Id, NEW q \in BOOLEAN
      PROVE  /\ Acts(1 .. n, q) \in Msg /\ Acts(1 .. n, q).role = "assistant"
             /\ Acts(1 .. n, q).calls = 1 .. n /\ Acts(1 .. n, q).folds = {}
  <2>1. 1 .. n \in SUBSET Id
    BY ConversationAssumption DEF Id
  <2>2. Reply \in Msg /\ Reply.role = "assistant" /\ Reply.folds = {}
    BY <1>3, <1>4
  <2> HIDE DEF Reply
  <2>3. Acts(1 .. n, q) = [Reply EXCEPT !.calls = 1 .. n, !.noise = q]
    BY DEF Acts
  <2> QED
    BY <2>1, <2>2, <2>3 DEF Msg
<1>9. ASSUME NEW n \in Id, NEW print \in {FALSE, On("drop_noise")}
      PROVE  LET m == Acts(1 .. n, print) IN
             m \in Msg /\ Made(m) /\ m.role = "assistant" /\ m.calls = 1 .. n /\ m.folds = {}
  <2>1. print \in BOOLEAN
    <3>1. On("drop_noise") \in BOOLEAN /\ FALSE \in BOOLEAN
      BY DEF On
    <3> QED
      BY <3>1, Zenon
  <2>2. /\ Acts(1 .. n, print) \in Msg /\ Acts(1 .. n, print).role = "assistant"
        /\ Acts(1 .. n, print).calls = 1 .. n /\ Acts(1 .. n, print).folds = {}
    BY <1>8, <2>1
  <2>3. Made(Acts(1 .. n, print))
    BY <2>2 DEF Made
  <2> QED
    BY <2>2, <2>3
<1>10. ASSUME NEW D \in SUBSET Digest
       PROVE  LET m == Request(D) IN
              m \in Msg /\ Made(m) /\ m.role = "user" /\ m.calls = {} /\ m.folds = D
  <2>1. User \in Msg /\ User.role = "user" /\ User.calls = {}
    BY <1>3, <1>4
  <2> HIDE DEF User
  <2>2. /\ Request(D) \in Msg /\ Request(D).role = "user" /\ Request(D).calls = {}
        /\ Request(D).folds = D
    BY <2>1 DEF Request, Msg
  <2>3. Made(Request(D))
    BY <2>2 DEF Made
  <2> QED
    BY <2>2, <2>3
<1>11. ASSUME NEW c \in Id
       PROVE  LET m == Result(c) IN
              /\ m \in Msg /\ Made(m) /\ m.role = "tool" /\ m.id = c /\ m.covers = {}
              /\ m.calls = {} /\ m.folds = {}
  <2> DEFINE t == Plain("tool")
  <2>1. /\ t \in Msg /\ t.role = "tool" /\ t.calls = {} /\ ~t.noise /\ t.folds = {}
        /\ t.covers = {}
    BY <1>1, <1>2
  <2>2. c \in Nat /\ c >= 1 /\ ToolWeight \in Nat
    BY ConversationAssumption DEF Id
  <2>3. Result(c) = [t EXCEPT !.id = c, !.weight = ToolWeight]
    BY DEF Result
  <2> HIDE DEF t
  <2>4. /\ Result(c) \in Msg /\ Result(c).role = "tool" /\ Result(c).id = c
        /\ Result(c).calls = {} /\ ~Result(c).noise /\ Result(c).folds = {}
        /\ Result(c).covers = {}
    BY <2>1, <2>2, <2>3 DEF Msg
  <2>5. Made(Result(c))
    BY <2>2, <2>4 DEF Made
  <2> QED
    BY <2>4, <2>5
<1>12. \A m \in {System, User, Stop, Reply} :
       m \in Msg /\ Made(m) /\ m.role # "tool" /\ m.calls = {} /\ m.folds = {}
  BY <1>3, <1>6, <1>7
<1>13. \A m \in {User, Stop, Reply} : m.role # "system"
  BY <1>4, <1>6
<1> HIDE DEF Msg, Made
<1> QED
  BY <1>4, <1>9, <1>10, <1>11, <1>12, <1>13


\* The stubs for the calls after the k-th.
LEMMA Stubs ==
  ASSUME NEW n \in 0 .. MaxCalls, NEW k \in 0 .. n
  PROVE  LET u == Among([c \in Id |-> Result(c)], k + 1 .. n) IN
         /\ Messages(u) /\ Len(u) = n - k
         /\ \A c \in 1 .. n - k : u[c] = Result(k + c)
<1> DEFINE R == [c \in Id |-> Result(c)]
           I == k + 1 .. n
           u == Among(R, I)
<1>1. MaxCalls \in Nat /\ Id = 1 .. MaxCalls
  BY ConversationAssumption DEF Id
<1>2. Messages(R) /\ Len(R) = MaxCalls /\ \A c \in 1 .. MaxCalls : R[c] = Result(c)
  <2>1. R \in [1 .. MaxCalls -> Msg]
    BY <1>1, MessagesMade
  <2>2. R \in Seq(Msg) /\ Len(R) = MaxCalls /\ \A c \in 1 .. MaxCalls : R[c] = Result(c)
    <3>1. \A c \in 1 .. MaxCalls : R[c] = Result(c)
      BY <1>1
    <3>2. DOMAIN R = 1 .. MaxCalls
      BY <1>1
    <3> HIDE DEF R
    <3> QED
      BY <1>1, <2>1, <3>1, <3>2
  <2> HIDE DEF R
  <2> QED
    BY <1>1, <2>2, MessagesMade DEF Messages
<1> HIDE DEF R
<1>3. Messages(u) /\ \E at : Placed(R, I, u, at)
  BY <1>2, AmongPlaced
<1>4. PICK at : Placed(R, I, u, at)
  BY <1>3
<1> HIDE DEF u
<1>5. /\ at \in [1 .. MaxCalls -> Nat] /\ Len(u) \in Nat
      /\ \A i \in 1 .. MaxCalls : i \in I => at[i] \in 1 .. Len(u) /\ u[at[i]] = R[i]
      /\ \A p \in 1 .. Len(u) : \E i \in 1 .. MaxCalls : i \in I /\ p = at[i]
      /\ \A i, j \in 1 .. MaxCalls : i \in I /\ j \in I /\ i < j => at[i] < at[j]
  BY <1>2, <1>3, <1>4, MessageTypes DEF Placed
<1>6. I \subseteq 1 .. MaxCalls
  BY <1>1
<1>7. CASE k = n
  <2>1. I = {}
    BY <1>7
  <2>2. ~(1 \in 1 .. Len(u))
    BY <1>5, <2>1
  <2>3. Len(u) = 0 /\ n - k = 0
    BY <1>5, <1>7, <2>2
  <2> QED
    BY <1>3, <2>3 DEF u, R
<1>8. CASE k # n
  <2>1. k + 1 \in I /\ k + 1 \in 1 .. MaxCalls /\ n \in I /\ n \in 1 .. MaxCalls
    BY <1>1, <1>8
  <2>2. at[k + 1] = 1
    <3>1. at[k + 1] \in 1 .. Len(u)
      BY <1>5, <2>1
    <3>2. 1 \in 1 .. Len(u)
      BY <1>5, <3>1
    <3>3. PICK i \in 1 .. MaxCalls : i \in I /\ 1 = at[i]
      BY <1>5, <3>2
    <3>4. i = k + 1 \/ k + 1 < i
      BY <3>3
    <3>5. CASE k + 1 < i
      <4>1. at[k + 1] < at[i]
        BY <1>5, <2>1, <3>3, <3>5
      <4> QED
        BY <1>5, <3>1, <3>3, <4>1
    <3> QED
      BY <3>3, <3>4, <3>5
  <2>3. Run(R, I, k + 1, n - (k + 1)) /\ n - (k + 1) \in Nat
    BY <1>1, <1>2, <1>8 DEF Run
  <2>4. ASSUME NEW b \in 0 .. n - (k + 1) PROVE at[(k + 1) + b] = 1 + b
    <3>1. at[(k + 1) + b] = at[k + 1] + b
      BY <1>2, <1>4, <2>1, <2>3, PlacedRun
    <3> QED
      BY <2>2, <3>1
  <2>5. ASSUME NEW i \in I PROVE at[i] = i - k
    <3>1. i - (k + 1) \in 0 .. n - (k + 1) /\ (k + 1) + (i - (k + 1)) = i
          /\ 1 + (i - (k + 1)) = i - k
      BY <1>1
    <3> QED
      BY <2>4, <3>1
  <2>6. Len(u) = n - k
    <3>1. n - k \in 1 .. Len(u)
      BY <1>5, <2>1, <2>5
    <3>2. Len(u) \in 1 .. Len(u)
      BY <1>5, <3>1
    <3>3. PICK i \in 1 .. MaxCalls : i \in I /\ Len(u) = at[i]
      BY <1>5, <3>2
    <3>4. Len(u) = i - k /\ i <= n
      BY <2>5, <3>3
    <3> QED
      BY <1>1, <1>5, <3>1, <3>4
  <2>7. ASSUME NEW c \in 1 .. n - k PROVE u[c] = Result(k + c)
    <3>1. k + c \in I /\ (k + c) - k = c /\ k + c \in 1 .. MaxCalls
      BY <1>1
    <3>2. at[k + c] = c
      BY <2>5, <3>1
    <3>3. u[at[k + c]] = R[k + c]
      BY <1>5, <3>1
    <3> QED
      BY <1>2, <3>1, <3>2, <3>3
  <2> QED
    BY <1>3, <2>6, <2>7 DEF u, R
<1> QED
  BY <1>7, <1>8

\* A decision at the end of w that lost results.
Lost(w, i) == Open(w, i) # {} /\ i + Cardinality(Results(w, i)) = Len(w)

Stays(w, i) == w[i].role # "tool" /\ ~Lost(w, i)

\* What sanitize_tail makes of the message at i and of its results.
Mended(w, i, b) ==
  /\ b \in Seq(Msg)
  /\ \E n \in Nat :
       /\ Len(b) = n + 1 /\ w[i].calls = 1 .. n
       /\ b[1] = w[i]
       /\ \A c \in 1 .. n :
            /\ b[c + 1].role = "tool" /\ b[c + 1].id = c /\ Made(b[c + 1])
            /\ b[c + 1].covers = IF i + c \in Results(w, i) THEN w[i + c].covers ELSE {}

\* The calls of a message are numbered from 1.
LEMMA CallsOf ==
  ASSUME NEW w, Messages(w), NEW i \in 1 .. Len(w)
  PROVE  \E n \in 0 .. MaxCalls : w[i].calls = 1 .. n
<1>1. MaxCalls \in Nat /\ Id = 1 .. MaxCalls
  BY ConversationAssumption DEF Id
<1>2. CASE w[i].calls = {}
  <2>1. 0 \in 0 .. MaxCalls /\ 1 .. 0 = {}
    BY <1>1
  <2> QED
    BY <1>2, <2>1
<1>3. CASE w[i].calls # {}
  <2>1. PICK n \in Id : w[i].calls = 1 .. n
    BY <1>3, MessageTypes DEF Made
  <2>2. n \in 0 .. MaxCalls
    BY <1>1, <2>1
  <2> QED
    BY <2>1, <2>2
<1> QED
  BY <1>2, <1>3

\* The calls that the results after a message leave open.
LEMMA OpenCalls ==
  ASSUME NEW w, Messages(w), Grouped(w), NEW i \in 1 .. Len(w), w[i].role # "tool"
  PROVE  \E n \in 0 .. MaxCalls : \E k \in 0 .. n :
           /\ w[i].calls = 1 .. n /\ i + k <= Len(w)
           /\ Results(w, i) = i + 1 .. i + k /\ Cardinality(Results(w, i)) = k
           /\ Open(w, i) = k + 1 .. n
           /\ \A c \in 1 .. k : ResultAt(w, i + c, c)
<1>1. PICK n \in 0 .. MaxCalls : w[i].calls = 1 .. n
  BY CallsOf
<1>2. PICK k \in Nat :
        /\ i + k <= Len(w)
        /\ Results(w, i) = i + 1 .. i + k /\ Cardinality(Results(w, i)) = k
        /\ \A c \in 1 .. k : ResultAt(w, i + c, c) /\ c \in w[i].calls
        /\ i + k = Len(w) \/ w[i + k + 1].role # "tool"
  BY GroupSpan
<1>3. Len(w) \in Nat /\ MaxCalls \in Nat /\ n \in Nat
  BY MessageTypes, ConversationAssumption
<1>4. k \in 0 .. n
  <2>1. CASE k = 0
    BY <1>3, <2>1
  <2>2. CASE k # 0
    <3>1. k \in 1 .. k
      BY <1>2, <2>2
    <3>2. k \in 1 .. n
      BY <1>1, <1>2, <3>1
    <3> QED
      BY <1>3, <3>2
  <2> QED
    BY <2>1, <2>2
<1>5. {w[j].id : j \in Results(w, i)} = 1 .. k
  <2>1. ASSUME NEW j \in i + 1 .. i + k PROVE w[j].id \in 1 .. k
    <3>1. j - i \in 1 .. k /\ i + (j - i) = j
      BY <1>2, <1>3
    <3> QED
      BY <1>2, <3>1 DEF ResultAt
  <2>2. ASSUME NEW c \in 1 .. k PROVE i + c \in i + 1 .. i + k /\ w[i + c].id = c
    BY <1>2, <1>3 DEF ResultAt
  <2> QED
    BY <1>2, <2>1, <2>2
<1>6. Open(w, i) = k + 1 .. n
  <2>1. Open(w, i) = (1 .. n) \ (1 .. k)
    BY <1>1, <1>5 DEF Open
  <2> QED
    BY <1>3, <1>4, <2>1
<1> QED
  BY <1>1, <1>2, <1>4, <1>6

\* Rehydrating a decision adds the stubs it lacks, or drops all of it.
LEMMA RehydrateMends ==
  ASSUME NEW w, Messages(w), Grouped(w), NEW i \in 1 .. Len(w)
  PROVE  /\ Rehydrate(w, i) \in Seq(Msg)
         /\ ~Stays(w, i) => Rehydrate(w, i) = <<>>
         /\ Stays(w, i) => Mended(w, i, Rehydrate(w, i))
<1>1. CASE ~Stays(w, i)
  <2>1. Rehydrate(w, i) = <<>>
    BY <1>1 DEF Stays, Lost, Rehydrate
  <2>2. <<>> \in Seq(Msg)
    OBVIOUS
  <2> QED
    BY <1>1, <2>1, <2>2
<1>2. CASE Stays(w, i)
  <2>1. PICK n \in 0 .. MaxCalls : \E k \in 0 .. n :
           /\ w[i].calls = 1 .. n /\ i + k <= Len(w)
           /\ Results(w, i) = i + 1 .. i + k /\ Cardinality(Results(w, i)) = k
           /\ Open(w, i) = k + 1 .. n
           /\ \A c \in 1 .. k : ResultAt(w, i + c, c)
    BY <1>2, OpenCalls DEF Stays
  <2>2. PICK k \in 0 .. n :
           /\ w[i].calls = 1 .. n /\ i + k <= Len(w)
           /\ Results(w, i) = i + 1 .. i + k /\ Cardinality(Results(w, i)) = k
           /\ Open(w, i) = k + 1 .. n
           /\ \A c \in 1 .. k : ResultAt(w, i + c, c)
    BY <2>1
  <2>3. Len(w) \in Nat /\ MaxCalls \in Nat /\ n \in Nat /\ k \in Nat /\ w \in Seq(Msg)
    BY MessageTypes, ConversationAssumption DEF Messages
  <2> DEFINE t == SubSeq(w, i, i + k)
             u == Among([c \in Id |-> Result(c)], k + 1 .. n)
             b == t \o u
  <2>4. Rehydrate(w, i) = b
    BY <1>2, <2>2 DEF Rehydrate, Stays, Lost
  <2>5. t \in Seq(Msg) /\ Len(t) = k + 1 /\ \A c \in 0 .. k : t[c + 1] = w[i + c]
    <3>1. i \in 1 .. Len(w) /\ i + k \in 1 .. Len(w) /\ i \in Nat
      BY <2>2, <2>3
    <3>2. t \in Seq(Msg) /\ Len(t) = k + 1
      BY <2>3, <3>1
    <3>3. \A c \in 1 .. k + 1 : t[c] = w[i + c - 1]
      BY <2>3, <3>1
    <3>4. \A c \in 0 .. k : c + 1 \in 1 .. k + 1 /\ i + (c + 1) - 1 = i + c
      BY <2>3, <3>1
    <3> HIDE DEF t
    <3> QED
      BY <3>2, <3>3, <3>4
  <2>6. Messages(u) /\ Len(u) = n - k /\ \A c \in 1 .. n - k : u[c] = Result(k + c)
    BY Stubs
  <2> HIDE DEF t, u
  <2>7. u \in Seq(Msg)
    BY <2>6 DEF Messages
  <2>8. /\ b \in Seq(Msg) /\ Len(b) = Len(t) + Len(u)
        /\ \A p \in 1 .. Len(t) : b[p] = t[p]
        /\ \A c \in 1 .. Len(u) : b[Len(t) + c] = u[c]
    <3>1. t \in Seq(Msg) /\ u \in Seq(Msg)
      BY <2>5, <2>7
    <3>2. t \o u \in Seq(Msg) /\ Len(t \o u) = Len(t) + Len(u)
      BY <3>1
    <3>3. \A p \in 1 .. Len(t) : (t \o u)[p] = t[p]
      BY <3>1
    <3>4. \A c \in 1 .. Len(u) : (t \o u)[Len(t) + c] = u[c]
      BY <3>1, Concatenated
    <3> QED
      BY <3>2, <3>3, <3>4
  <2> HIDE DEF b
  <2>9. Len(b) = n + 1
    BY <2>3, <2>5, <2>6, <2>8
  <2>10. \A c \in 0 .. k : b[c + 1] = w[i + c]
    <3> SUFFICES ASSUME NEW c \in 0 .. k PROVE b[c + 1] = w[i + c]
      OBVIOUS
    <3>1. c + 1 \in 1 .. Len(t)
      BY <2>3, <2>5
    <3> QED
      BY <2>5, <2>8, <3>1
  <2>11. \A c \in k + 1 .. n : b[c + 1] = Result(c)
    <3> SUFFICES ASSUME NEW c \in k + 1 .. n PROVE b[c + 1] = Result(c)
      OBVIOUS
    <3>1. c - k \in 1 .. n - k /\ k + (c - k) = c /\ (k + 1) + (c - k) = c + 1
      BY <2>3
    <3>2. u[c - k] = Result(c)
      BY <2>6, <3>1
    <3>3. b[(k + 1) + (c - k)] = u[c - k]
      BY <2>5, <2>6, <2>8, <3>1
    <3> QED
      BY <3>1, <3>2, <3>3
  <2>12. b[1] = w[i]
    <3>1. 0 \in 0 .. k /\ 0 + 1 = 1 /\ i + 0 = i
      BY <2>3
    <3> QED
      BY <2>10, <3>1
  <2>13. ASSUME NEW c \in 1 .. n
         PROVE  /\ b[c + 1].role = "tool" /\ b[c + 1].id = c /\ Made(b[c + 1])
                /\ b[c + 1].covers = IF i + c \in Results(w, i) THEN w[i + c].covers ELSE {}
    <3>1. CASE c \in 1 .. k
      <4>1. b[c + 1] = w[i + c] /\ i + c \in Results(w, i)
        <5>1. c \in 0 .. k /\ i + c \in i + 1 .. i + k
          BY <2>3, <3>1
        <5> QED
          BY <2>2, <2>10, <5>1
      <4>2. ResultAt(w, i + c, c)
        BY <2>2, <3>1
      <4> QED
        BY <4>1, <4>2 DEF ResultAt, Messages
    <3>2. CASE c \notin 1 .. k
      <4>1. c \in k + 1 .. n /\ c \in Id /\ i + c \notin i + 1 .. i + k
        BY <2>3, <3>2 DEF Id
      <4>2. b[c + 1] = Result(c) /\ i + c \notin Results(w, i)
        BY <2>2, <2>11, <4>1
      <4> QED
        BY <4>1, <4>2, MessagesMade
    <3> QED
      BY <3>1, <3>2
  <2>14. Mended(w, i, b)
    <3>1. /\ Len(b) = n + 1 /\ w[i].calls = 1 .. n /\ b[1] = w[i]
          /\ \A c \in 1 .. n :
               /\ b[c + 1].role = "tool" /\ b[c + 1].id = c /\ Made(b[c + 1])
               /\ b[c + 1].covers = IF i + c \in Results(w, i) THEN w[i + c].covers ELSE {}
      BY <2>2, <2>9, <2>12, <2>13
    <3>2. b \in Seq(Msg)
      BY <2>8
    <3> QED
      BY <2>3, <3>1, <3>2 DEF Mended
  <2> QED
    BY <1>2, <2>4, <2>8, <2>14
<1> QED
  BY <1>1, <1>2

-----------------------------------------------------------------------------
(* Rehydration of a record.                                                *)

\* off[i] + 1 is where the message of w at i is in v; its results, or the
\* stubs for them, follow it.
Restored(w, v, off) ==
  /\ off \in [1 .. Len(w) -> Nat]
  /\ \A i \in 1 .. Len(w) : Stays(w, i) => off[i] + 1 \in 1 .. Len(v) /\ v[off[i] + 1] = w[i]
  /\ \A i \in 1 .. Len(w) : Stays(w, i) => \A c \in w[i].calls :
       /\ ResultAt(v, off[i] + 1 + c, c)
       /\ v[off[i] + 1 + c].covers = IF i + c \in Results(w, i) THEN w[i + c].covers ELSE {}
  /\ \A p \in 1 .. Len(v) : \E i \in 1 .. Len(w) :
       Stays(w, i) /\ (p = off[i] + 1 \/ \E c \in w[i].calls : p = off[i] + 1 + c)
  /\ \A i, j \in 1 .. Len(w) : Stays(w, i) /\ Stays(w, j) /\ i < j =>
       off[i] + 1 < off[j] + 1 /\ \A c \in w[i].calls : off[i] + 1 + c < off[j] + 1

\* A sanitized context is made of what is left of each decision.
LEMMA SanitizeRestores ==
  ASSUME NEW w, Messages(w), Grouped(w)
  PROVE  Messages(Sanitize(w)) /\ \E off : Restored(w, Sanitize(w), off)
<1> DEFINE ss == [i \in DOMAIN w |-> Rehydrate(w, i)]
           v == FlattenSeq(ss)
           N == Len(w)
<1>1. N \in Nat /\ DOMAIN w = 1 .. N
  BY MessageTypes
<1>2. ss \in Seq(Seq(Msg)) /\ Len(ss) = N /\ \A i \in 1 .. N : ss[i] = Rehydrate(w, i)
  <2>1. \A i \in 1 .. N : Rehydrate(w, i) \in Seq(Msg)
    BY RehydrateMends
  <2>2. ss \in [1 .. N -> Seq(Msg)] /\ \A i \in 1 .. N : ss[i] = Rehydrate(w, i)
    BY <1>1, <2>1
  <2> HIDE DEF ss
  <2> QED
    BY <1>1, <2>2
<1>3. v = Sanitize(w)
  BY DEF Sanitize
<1>4. v \in Seq(Msg) /\ Len(v) \in Nat
  BY <1>2, FlatLaid
<1>5. PICK off : Laid(ss, off, v, N)
  BY <1>2, FlatLaid
<1> HIDE DEF ss, v, N
<1>6. /\ off \in [1 .. N + 1 -> Nat]
      /\ \A i \in 1 .. N : off[i + 1] = off[i] + Len(ss[i])
      /\ \A i \in 1 .. N : \A j \in 1 .. Len(ss[i]) :
           off[i] + j \in 1 .. Len(v) /\ v[off[i] + j] = ss[i][j]
      /\ \A k \in 1 .. Len(v) : \E i \in 1 .. N : \E j \in 1 .. Len(ss[i]) : k = off[i] + j
      /\ \A i, b \in 1 .. N + 1 : i <= b => off[i] <= off[b]
  BY <1>5 DEF Laid
<1>7. \A i \in 1 .. N : off[i] \in Nat /\ i + 1 \in 1 .. N + 1
  BY <1>1, <1>6
\* The block of a message that stays.
<1>8. ASSUME NEW i \in 1 .. N, Stays(w, i)
      PROVE  \E n \in Nat :
               /\ Len(ss[i]) = n + 1 /\ w[i].calls = 1 .. n /\ ss[i][1] = w[i]
               /\ \A c \in 1 .. n :
                    /\ ss[i][c + 1].role = "tool" /\ ss[i][c + 1].id = c /\ Made(ss[i][c + 1])
                    /\ ss[i][c + 1].covers =
                         IF i + c \in Results(w, i) THEN w[i + c].covers ELSE {}
  <2>1. Mended(w, i, ss[i])
    BY <1>2, <1>8, RehydrateMends DEF N
  <2> QED
    BY <2>1 DEF Mended
<1>9. ASSUME NEW i \in 1 .. N, ~Stays(w, i) PROVE Len(ss[i]) = 0
  <2>1. ss[i] = <<>>
    BY <1>2, <1>9, RehydrateMends DEF N
  <2> QED
    BY <2>1
<1>10. ASSUME NEW i \in 1 .. N, Stays(w, i)
       PROVE  off[i] + 1 \in 1 .. Len(v) /\ v[off[i] + 1] = w[i]
  <2>1. 1 \in 1 .. Len(ss[i]) /\ ss[i][1] = w[i]
    BY <1>8, <1>10
  <2> QED
    BY <1>6, <2>1
<1>11. ASSUME NEW i \in 1 .. N, Stays(w, i), NEW c \in w[i].calls
       PROVE  /\ ResultAt(v, off[i] + 1 + c, c) /\ Made(v[off[i] + 1 + c])
              /\ v[off[i] + 1 + c].covers = IF i + c \in Results(w, i) THEN w[i + c].covers ELSE {}
              /\ c + 1 \in 1 .. Len(ss[i])
  <2>1. PICK n \in Nat :
               /\ Len(ss[i]) = n + 1 /\ w[i].calls = 1 .. n /\ ss[i][1] = w[i]
               /\ \A b \in 1 .. n :
                    /\ ss[i][b + 1].role = "tool" /\ ss[i][b + 1].id = b /\ Made(ss[i][b + 1])
                    /\ ss[i][b + 1].covers =
                         IF i + b \in Results(w, i) THEN w[i + b].covers ELSE {}
    BY <1>8, <1>11
  <2>2. c \in 1 .. n /\ c + 1 \in 1 .. Len(ss[i]) /\ off[i] + (c + 1) = off[i] + 1 + c
    BY <1>7, <2>1
  <2>3. off[i] + (c + 1) \in 1 .. Len(v) /\ v[off[i] + (c + 1)] = ss[i][c + 1]
    BY <1>6, <2>2
  <2>4. off[i] + 1 + c \in 1 .. Len(v) /\ v[off[i] + 1 + c] = ss[i][c + 1]
    BY <2>2, <2>3
  <2> QED
    BY <2>1, <2>2, <2>4 DEF ResultAt
<1>12. ASSUME NEW p \in 1 .. Len(v)
       PROVE  \E i \in 1 .. N :
                Stays(w, i) /\ (p = off[i] + 1 \/ \E c \in w[i].calls : p = off[i] + 1 + c)
  <2>1. PICK i \in 1 .. N : \E j \in 1 .. Len(ss[i]) : p = off[i] + j
    BY <1>6
  <2>2. PICK j \in 1 .. Len(ss[i]) : p = off[i] + j
    BY <2>1
  <2>3. Stays(w, i)
    <3>1. CASE ~Stays(w, i)
      <4>1. Len(ss[i]) = 0
        BY <1>9, <3>1
      <4> QED
        BY <2>2, <4>1
    <3> QED
      BY <3>1
  <2>4. PICK n \in Nat : Len(ss[i]) = n + 1 /\ w[i].calls = 1 .. n
    BY <1>8, <2>3
  <2>5. CASE j = 1
    BY <2>2, <2>3, <2>5
  <2>6. CASE j # 1
    <3>1. j - 1 \in w[i].calls /\ p = off[i] + 1 + (j - 1)
      BY <1>7, <2>2, <2>4, <2>6
    <3> QED
      BY <2>3, <3>1
  <2> QED
    BY <2>5, <2>6
<1>13. ASSUME NEW i \in 1 .. N, NEW j \in 1 .. N, Stays(w, i), Stays(w, j), i < j
       PROVE  off[i] + 1 < off[j] + 1 /\ \A c \in w[i].calls : off[i] + 1 + c < off[j] + 1
  <2>1. PICK n \in Nat : Len(ss[i]) = n + 1 /\ w[i].calls = 1 .. n
    BY <1>8, <1>13
  <2>2. off[i + 1] = off[i] + (n + 1)
    BY <1>6, <2>1
  <2>3. i + 1 \in 1 .. N + 1 /\ j \in 1 .. N + 1 /\ i + 1 <= j
    BY <1>1, <1>13
  <2>4. off[i + 1] <= off[j]
    BY <1>6, <2>3
  <2> QED
    BY <1>7, <2>1, <2>2, <2>4
<1>14. ASSUME NEW p \in 1 .. Len(v) PROVE Made(v[p])
  <2>1. PICK i \in 1 .. N :
          Stays(w, i) /\ (p = off[i] + 1 \/ \E c \in w[i].calls : p = off[i] + 1 + c)
    BY <1>12
  <2>2. CASE p = off[i] + 1
    BY <1>10, <2>1, <2>2 DEF Messages, N
  <2>3. CASE \E c \in w[i].calls : p = off[i] + 1 + c
    BY <1>11, <2>1, <2>3
  <2> QED
    BY <2>1, <2>2, <2>3
<1>15. Messages(v)
  BY <1>4, <1>14 DEF Messages
<1> DEFINE at == [i \in 1 .. N |-> off[i]]
<1>16. at \in [1 .. N -> Nat] /\ \A i \in 1 .. N : at[i] = off[i]
  BY <1>7
<1> HIDE DEF at
<1>17. Restored(w, v, at)
  <2>1. \A i \in 1 .. N : Stays(w, i) => at[i] + 1 \in 1 .. Len(v) /\ v[at[i] + 1] = w[i]
    BY <1>10, <1>16
  <2>2. \A i \in 1 .. N : Stays(w, i) => \A c \in w[i].calls :
       /\ ResultAt(v, at[i] + 1 + c, c)
       /\ v[at[i] + 1 + c].covers = IF i + c \in Results(w, i) THEN w[i + c].covers ELSE {}
    BY <1>11, <1>16
  <2>3. \A p \in 1 .. Len(v) : \E i \in 1 .. N :
       Stays(w, i) /\ (p = at[i] + 1 \/ \E c \in w[i].calls : p = at[i] + 1 + c)
    BY <1>12, <1>16
  <2>4. \A i, j \in 1 .. N : Stays(w, i) /\ Stays(w, j) /\ i < j =>
       at[i] + 1 < at[j] + 1 /\ \A c \in w[i].calls : at[i] + 1 + c < at[j] + 1
    BY <1>13, <1>16
  <2> QED
    BY <1>16, <2>1, <2>2, <2>3, <2>4 DEF Restored, N
<1> QED
  BY <1>3, <1>15, <1>17

\* Every result is one of the results of one decision.
LEMMA ResultOf ==
  ASSUME NEW w, Messages(w), Grouped(w), NEW i \in 1 .. Len(w), w[i].role # "tool",
         NEW j \in Results(w, i)
  PROVE  /\ j \in 1 .. Len(w) /\ w[j].role = "tool" /\ w[j].id = j - i /\ i < j
         /\ j - i \in w[i].calls /\ i + (j - i) = j
         /\ \A c \in 1 .. j - i : ResultAt(w, i + c, c)
         /\ w[i].role = "assistant"
<1>1. PICK k \in Nat :
           /\ i + k <= Len(w)
           /\ Results(w, i) = i + 1 .. i + k
           /\ \A c \in 1 .. k : ResultAt(w, i + c, c) /\ c \in w[i].calls
  BY GroupSpan
<1>2. j - i \in 1 .. k /\ i + (j - i) = j /\ i < j /\ \A c \in 1 .. j - i : c \in 1 .. k
  BY <1>1
<1>3. ResultAt(w, j, j - i) /\ j - i \in w[i].calls
  BY <1>1, <1>2
<1>4. w[i].role = "assistant"
  BY <1>3, MessageTypes DEF Made
<1> QED
  BY <1>1, <1>2, <1>3, <1>4 DEF ResultAt

\* A message that follows its decision, with results in between, is its result.
LEMMA InResults ==
  ASSUME NEW w, Messages(w), NEW i \in 1 .. Len(w), NEW c \in Nat, c >= 1,
         \A b \in 1 .. c : ResultAt(w, i + b, b)
  PROVE  i + c \in Results(w, i)
<1>1. Len(w) \in Nat
  BY MessageTypes
<1>2. i + c \in i + 1 .. Len(w)
  <2>1. ResultAt(w, i + c, c)
    OBVIOUS
  <2> QED
    BY <1>1, <2>1 DEF ResultAt
<1>3. ASSUME NEW k \in i + 1 .. i + c PROVE w[k].role = "tool"
  <2>1. k - i \in 1 .. c /\ i + (k - i) = k
    OBVIOUS
  <2>2. ResultAt(w, i + (k - i), k - i)
    BY <2>1
  <2> QED
    BY <2>1, <2>2 DEF ResultAt
<1> QED
  BY <1>2, <1>3 DEF Results

\* Noise goes by the decision: a message is noise when the one it belongs to is.
LEMMA NoiseByDecision ==
  ASSUME NEW w, Messages(w), Grouped(w), NEW i \in 1 .. Len(w), w[i].role # "tool"
  PROVE  /\ i \in Noise(w) <=> w[i].noise
         /\ \A j \in Results(w, i) : j \in Noise(w) <=> w[i].noise
<1> DEFINE heads == {p \in DOMAIN w : w[p].noise}
<1>1. DOMAIN w = 1 .. Len(w)
  BY MessageTypes
<1>2. \A p : p \in Noise(w) <=>
        \/ p \in heads
        \/ \E h \in heads : w[h].role = "assistant" /\ p \in Results(w, h)
  BY DEF Noise
<1>3. ASSUME NEW h \in heads, w[h].role = "assistant", NEW p \in Results(w, h)
      PROVE  w[p].role = "tool" /\ p \in 1 .. Len(w) /\ w[p].id = p - h /\ h \in 1 .. Len(w) /\ h < p
  BY <1>1, <1>3, ResultOf
<1>4. i \in Noise(w) <=> w[i].noise
  BY <1>1, <1>2, <1>3
<1>5. ASSUME NEW j \in Results(w, i) PROVE j \in Noise(w) <=> w[i].noise
  <2>1. /\ j \in 1 .. Len(w) /\ w[j].role = "tool" /\ w[j].id = j - i /\ i < j
        /\ w[i].role = "assistant"
    BY ResultOf
  <2>2. j \notin heads
    BY <2>1, MessageTypes DEF Made
  <2>3. ASSUME NEW h \in heads, w[h].role = "assistant", j \in Results(w, h) PROVE h = i
    <3>1. w[j].id = j - h /\ h \in 1 .. Len(w) /\ Len(w) \in Nat
      BY <1>3, <2>3, MessageTypes
    <3> QED
      BY <2>1, <3>1
  <2> QED
    BY <1>1, <1>2, <2>1, <2>2, <2>3
<1> QED
  BY <1>4, <1>5

-----------------------------------------------------------------------------
(* What a resumed session stands for.                                      *)

\* A call is a number, and the calls before it are calls of the same message.
LEMMA CallNumbers ==
  ASSUME NEW w, Messages(w), NEW i \in 1 .. Len(w), NEW c \in w[i].calls
  PROVE  c \in Nat /\ c >= 1 /\ \A b \in 1 .. c : b \in w[i].calls
<1>1. PICK n \in 0 .. MaxCalls : w[i].calls = 1 .. n
  BY CallsOf
<1>2. MaxCalls \in Nat
  BY ConversationAssumption
<1> QED
  BY <1>1, <1>2

\* A restored context pairs every call with its result ...
LEMMA RestoredPairs ==
  ASSUME NEW w, Messages(w), Grouped(w), NEW v, Messages(v), NEW off, Restored(w, v, off)
  PROVE  Grouped(v) /\ Closed(v)
<1>1. /\ Len(w) \in Nat /\ Len(v) \in Nat /\ off \in [1 .. Len(w) -> Nat]
  BY MessageTypes DEF Restored
<1>2. ASSUME NEW i \in 1 .. Len(w), Stays(w, i), NEW c \in w[i].calls
      PROVE  /\ c \in Nat /\ c >= 1
             /\ \A b \in 1 .. c : b \in w[i].calls /\ ResultAt(v, off[i] + 1 + b, b)
  BY <1>2, CallNumbers DEF Restored
<1>3. ASSUME NEW p \in 1 .. Len(v), v[p].role = "tool"
      PROVE  /\ v[p].id < p
             /\ v[p].id \in v[p - v[p].id].calls
             /\ \A c \in 1 .. v[p].id : ResultAt(v, p - v[p].id + c, c)
  <2>1. PICK i \in 1 .. Len(w) :
       Stays(w, i) /\ (p = off[i] + 1 \/ \E c \in w[i].calls : p = off[i] + 1 + c)
    BY DEF Restored
  <2>2. off[i] + 1 \in 1 .. Len(v) /\ v[off[i] + 1] = w[i] /\ off[i] \in Nat
    BY <1>1, <2>1 DEF Restored
  <2>3. p # off[i] + 1
    BY <1>3, <2>1, <2>2 DEF Stays
  <2>4. PICK c \in w[i].calls : p = off[i] + 1 + c
    BY <2>1, <2>3
  <2>5. /\ c \in Nat /\ c >= 1
        /\ \A b \in 1 .. c : b \in w[i].calls /\ ResultAt(v, off[i] + 1 + b, b)
    BY <1>2, <2>1
  <2>6. ResultAt(v, off[i] + 1 + c, c)
    BY <2>5
  <2>7. v[p].id = c /\ p - c = off[i] + 1 /\ c < p
    BY <2>2, <2>4, <2>5, <2>6 DEF ResultAt
  <2> QED
    BY <2>2, <2>5, <2>7
<1>4. ASSUME NEW p \in 1 .. Len(v), NEW c \in v[p].calls PROVE ResultAt(v, p + c, c)
  <2>1. PICK i \in 1 .. Len(w) :
       Stays(w, i) /\ (p = off[i] + 1 \/ \E b \in w[i].calls : p = off[i] + 1 + b)
    BY DEF Restored
  <2>2. CASE p = off[i] + 1
    <3>1. v[p] = w[i]
      BY <2>1, <2>2 DEF Restored
    <3> QED
      BY <2>1, <2>2, <3>1 DEF Restored
  <2>3. CASE \E b \in w[i].calls : p = off[i] + 1 + b
    <3>1. v[p].role = "tool"
      BY <2>1, <2>3 DEF Restored, ResultAt
    <3>2. v[p].calls = {}
      BY <3>1, MessageTypes DEF Made
    <3> QED
      BY <1>4, <3>2
  <2> QED
    BY <2>1, <2>2, <2>3
<1> QED
  BY <1>3, <1>4 DEF Grouped, Closed, Complete

\* What the p-th message of a restored context stands for is what the message
\* it was stands for, or nothing.
LEMMA RestoredFrom ==
  ASSUME NEW w, Messages(w), Grouped(w), NEW v, Messages(v), NEW off, Restored(w, v, off),
         NEW p \in 1 .. Len(v), NEW x \in v[p].covers
  PROVE  \E i \in 1 .. Len(w) : Stays(w, i) /\
           \/ p = off[i] + 1 /\ x \in w[i].covers
           \/ \E c \in w[i].calls : /\ p = off[i] + 1 + c /\ i + c \in Results(w, i)
                                    /\ x \in w[i + c].covers
<1>1. PICK i \in 1 .. Len(w) :
       Stays(w, i) /\ (p = off[i] + 1 \/ \E b \in w[i].calls : p = off[i] + 1 + b)
  BY DEF Restored
<1>2. CASE p = off[i] + 1
  <2>1. v[p] = w[i]
    BY <1>1, <1>2 DEF Restored
  <2> QED
    BY <1>1, <1>2, <2>1
<1>3. CASE \E b \in w[i].calls : p = off[i] + 1 + b
  <2>1. PICK c \in w[i].calls : p = off[i] + 1 + c
    BY <1>3
  <2>2. v[p].covers = IF i + c \in Results(w, i) THEN w[i + c].covers ELSE {}
    BY <1>1, <2>1 DEF Restored
  <2>3. i + c \in Results(w, i) /\ x \in w[i + c].covers
    BY <2>2
  <2> QED
    BY <1>1, <2>1, <2>3
<1> QED
  BY <1>1, <1>2, <1>3

\* ... and stands for the record in its order.
LEMMA RestoredOrdered ==
  ASSUME NEW w, Messages(w), Grouped(w), Ordered(w), NEW v, Messages(v), NEW off,
         Restored(w, v, off)
  PROVE  Ordered(v)
<1>1. Len(w) \in Nat /\ off \in [1 .. Len(w) -> Nat]
  BY MessageTypes DEF Restored
\* The message of w that one of v comes from, as its decision and its number.
<1> DEFINE From(p, x, i, c) ==
             /\ Stays(w, i) /\ p = off[i] + 1 + c /\ i + c \in 1 .. Len(w) /\ x \in w[i + c].covers
             /\ c = 0 \/ (c \in w[i].calls /\ i + c \in Results(w, i))
<1>2. ASSUME NEW p \in 1 .. Len(v), NEW x \in v[p].covers
      PROVE  \E i \in 1 .. Len(w) : \E c \in Nat : From(p, x, i, c)
  <2>1. PICK i \in 1 .. Len(w) : Stays(w, i) /\
           \/ p = off[i] + 1 /\ x \in w[i].covers
           \/ \E c \in w[i].calls : /\ p = off[i] + 1 + c /\ i + c \in Results(w, i)
                                    /\ x \in w[i + c].covers
    BY RestoredFrom
  <2>2. CASE p = off[i] + 1 /\ x \in w[i].covers
    <3>1. From(p, x, i, 0)
      <4>1. off[i] + 1 + 0 = off[i] + 1 /\ i + 0 = i
        BY <1>1
      <4> QED
        BY <2>1, <2>2, <4>1
    <3> QED
      BY <3>1
  <2>3. CASE \E c \in w[i].calls : /\ p = off[i] + 1 + c /\ i + c \in Results(w, i)
                                   /\ x \in w[i + c].covers
    <3>1. PICK c \in w[i].calls : /\ p = off[i] + 1 + c /\ i + c \in Results(w, i)
                                  /\ x \in w[i + c].covers
      BY <2>3
    <3>2. c \in Nat
      BY CallNumbers
    <3>3. i + c \in 1 .. Len(w)
      BY <2>1, <3>1, ResultOf DEF Stays
    <3>4. From(p, x, i, c)
      BY <2>1, <3>1, <3>3
    <3> QED
      BY <3>2, <3>4
  <2> QED
    BY <2>1, <2>2, <2>3
<1>3. ASSUME NEW p \in 1 .. Len(v), NEW q \in 1 .. Len(v), p < q,
             NEW x \in v[p].covers, NEW y \in v[q].covers
      PROVE  x < y
  <2>1. PICK i \in 1 .. Len(w), c \in Nat : From(p, x, i, c)
    BY <1>2
  <2>2. PICK j \in 1 .. Len(w), d \in Nat : From(q, y, j, d)
    BY <1>2
  <2>3. off[i] \in Nat /\ off[j] \in Nat
    BY <1>1
  <2>4. CASE i = j
    <3>1. c < d
      BY <1>3, <2>1, <2>2, <2>3, <2>4
    <3>2. i + c < j + d
      BY <2>4, <3>1
    <3> QED
      BY <2>1, <2>2, <3>2 DEF Ordered
  <2>5. CASE i < j
    <3>1. i + c < j
      <4>1. CASE c = 0
        BY <2>5, <4>1
      <4>2. CASE c # 0
        <5>1. i + c \in Results(w, i)
          BY <2>1, <4>2
        <5>2. \A k \in i + 1 .. i + c : w[k].role = "tool"
          BY <5>1 DEF Results
        <5>3. j \notin i + 1 .. i + c
          BY <2>2, <5>2 DEF Stays
        <5> QED
          BY <2>5, <5>3
      <4> QED
        BY <4>1, <4>2
    <3>2. i + c < j + d
      BY <3>1
    <3> QED
      BY <2>1, <2>2, <3>2 DEF Ordered
  <2>6. CASE j < i
    <3>1. off[j] + 1 < off[i] + 1 /\ \A b \in w[j].calls : off[j] + 1 + b < off[i] + 1
      BY <2>1, <2>2, <2>6 DEF Restored
    <3>2. off[j] + 1 + d < off[i] + 1
      <4>1. CASE d = 0
        BY <2>3, <3>1, <4>1
      <4>2. CASE d # 0
        BY <2>2, <3>1, <4>2
      <4> QED
        BY <4>1, <4>2
    <3>3. q < p
      BY <2>1, <2>2, <2>3, <3>2
    <3> QED
      BY <1>3, <3>3
  <2> QED
    BY <2>4, <2>5, <2>6
<1> QED
  BY <1>3 DEF Ordered

\* What a resumed session keeps of w: the decisions with their results.
Retained(w, i) == Stays(w, i) /\ (On("drop_noise") => ~w[i].noise)

\* What a resumed session should stand for: the groups it retains.
LEMMA RestorableIs ==
  ASSUME NEW w, Messages(w), Grouped(w), NEW x
  PROVE  x \in Restorable(w) <=>
           \E i \in 1 .. Len(w) : /\ Retained(w, i)
                                  /\ \/ x \in w[i].covers
                                     \/ \E j \in Results(w, i) : x \in w[j].covers
<1> DEFINE last == {i \in DOMAIN w : /\ Open(w, i) # {}
                                     /\ i + Cardinality(Results(w, i)) = Len(w)}
           noise == IF On("drop_noise") THEN Noise(w) ELSE {}
           lost == UNION {Results(w, i) : i \in last}
           cut == last \cup noise \cup lost
<1>1. DOMAIN w = 1 .. Len(w) /\ Len(w) \in Nat
  BY MessageTypes
<1>2. x \in Restorable(w) <=> \E i \in 1 .. Len(w) : i \notin cut /\ x \in w[i].covers
  <2>1. Restorable(w) = UNION {w[i].covers : i \in DOMAIN w \ cut}
    BY Zenon DEF Restorable
  <2> HIDE DEF cut
  <2> QED
    BY <1>1, <2>1
<1>3. \A i \in 1 .. Len(w) : i \in last <=> Lost(w, i)
  BY <1>1 DEF Lost
<1>4. \A i \in last : i \in 1 .. Len(w) /\ w[i].role # "tool"
  <2> SUFFICES ASSUME NEW i \in last PROVE i \in 1 .. Len(w) /\ w[i].role # "tool"
    OBVIOUS
  <2>1. i \in 1 .. Len(w) /\ w[i].calls # {}
    BY <1>1 DEF Open
  <2> QED
    BY <2>1, MessageTypes DEF Made
<1> HIDE DEF last, noise
<1>5. \A p : p \in cut <=> p \in last \/ (\E i \in last : p \in Results(w, i)) \/ p \in noise
  <2>1. \A p : p \in lost <=> \E i \in last : p \in Results(w, i)
    OBVIOUS
  <2> HIDE DEF lost
  <2>2. \A p : p \in cut <=> p \in last \/ p \in lost \/ p \in noise
    OBVIOUS
  <2> QED
    BY <2>1, <2>2
<1> HIDE DEF cut, lost
\* A decision is cut with its results.
<1>6. ASSUME NEW i \in 1 .. Len(w), w[i].role # "tool"
      PROVE  i \notin cut <=> Retained(w, i)
  <2>1. ASSUME NEW h \in last PROVE i \notin Results(w, h)
    BY <1>4, <1>6, <2>1, ResultOf
  <2>2. i \in noise <=> On("drop_noise") /\ w[i].noise
    BY <1>6, NoiseByDecision DEF noise
  <2> QED
    BY <1>3, <1>5, <1>6, <2>1, <2>2 DEF Retained, Stays
<1>7. ASSUME NEW i \in 1 .. Len(w), w[i].role # "tool", NEW j \in Results(w, i)
      PROVE  j \notin cut <=> Retained(w, i)
  <2>1. j \in 1 .. Len(w) /\ w[j].role = "tool" /\ w[j].id = j - i
    BY <1>7, ResultOf
  <2>2. ASSUME NEW h \in last, j \in Results(w, h) PROVE h = i
    <3>1. h \in 1 .. Len(w) /\ w[j].id = j - h
      BY <1>4, <2>2, ResultOf
    <3> QED
      BY <1>1, <2>1, <3>1
  <2>3. j \notin last
    BY <1>4, <2>1
  <2>4. j \in noise <=> On("drop_noise") /\ w[i].noise
    BY <1>7, NoiseByDecision DEF noise
  <2> QED
    BY <1>3, <1>5, <1>7, <2>2, <2>3, <2>4 DEF Retained, Stays
<1>8. ASSUME NEW j \in 1 .. Len(w), w[j].role = "tool"
      PROVE  \E i \in 1 .. Len(w) : w[i].role # "tool" /\ j \in Results(w, i)
  <2>1. PICK h \in 1 .. Len(w) :
           /\ h < j /\ w[j].id = j - h /\ w[h].role = "assistant" /\ j - h \in w[h].calls
           /\ \A c \in 1 .. j - h : ResultAt(w, h + c, c)
    BY <1>8, HeadOf
  <2>2. j - h \in Nat /\ j - h >= 1 /\ h + (j - h) = j
    BY <1>1, <2>1
  <2>3. h + (j - h) \in Results(w, h)
    BY <2>1, <2>2, InResults
  <2> QED
    BY <2>1, <2>2, <2>3
<1>9. ASSUME x \in Restorable(w)
      PROVE  \E i \in 1 .. Len(w) : /\ Retained(w, i)
                                    /\ \/ x \in w[i].covers
                                       \/ \E j \in Results(w, i) : x \in w[j].covers
  <2>1. PICK p \in 1 .. Len(w) : p \notin cut /\ x \in w[p].covers
    BY <1>2, <1>9
  <2>2. CASE w[p].role = "tool"
    <3>1. PICK i \in 1 .. Len(w) : w[i].role # "tool" /\ p \in Results(w, i)
      BY <1>8, <2>2
    <3>2. Retained(w, i)
      BY <1>7, <2>1, <3>1
    <3> QED
      BY <2>1, <3>1, <3>2
  <2>3. CASE w[p].role # "tool"
    BY <1>6, <2>1, <2>3
  <2> QED
    BY <2>2, <2>3
<1>10. ASSUME NEW i \in 1 .. Len(w), Retained(w, i),
              x \in w[i].covers \/ \E j \in Results(w, i) : x \in w[j].covers
       PROVE  x \in Restorable(w)
  <2>1. w[i].role # "tool"
    BY <1>10 DEF Retained, Stays
  <2>2. CASE x \in w[i].covers
    BY <1>2, <1>6, <1>10, <2>1, <2>2
  <2>3. CASE \E j \in Results(w, i) : x \in w[j].covers
    <3>1. PICK j \in Results(w, i) : x \in w[j].covers
      BY <2>3
    <3>2. j \in 1 .. Len(w) /\ j \notin cut
      BY <1>7, <1>10, <2>1, ResultOf
    <3> QED
      BY <1>2, <3>1, <3>2
  <2> QED
    BY <1>10, <2>2, <2>3
<1> QED
  BY <1>9, <1>10

\* What is restored of w and of that kept, as the noise is dropped or not.
LEMMA ResumeSound ==
  ASSUME NEW w, Messages(w), Grouped(w), Ordered(w)
  PROVE  LET d == DropNoise(Sanitize(w)) IN
         Messages(d) /\ Grouped(d) /\ Closed(d) /\ Ordered(d) /\ Covers(d) = Restorable(w)
<1> DEFINE v == Sanitize(w)
           d == DropNoise(v)
<1>1. Messages(v) /\ \E off : Restored(w, v, off)
  BY SanitizeRestores
<1>2. PICK off : Restored(w, v, off)
  BY <1>1
<1> HIDE DEF v
<1>3. Grouped(v) /\ Closed(v) /\ Ordered(v)
  BY <1>1, <1>2, RestoredPairs, RestoredOrdered
<1>4. DOMAIN v = 1 .. Len(v) /\ Len(v) \in Nat /\ Len(w) \in Nat /\ off \in [1 .. Len(w) -> Nat]
  BY <1>1, <1>2, MessageTypes DEF Restored
\* A message of v is noise when its decision in w is.
<1>5. ASSUME NEW i \in 1 .. Len(w), Stays(w, i)
      PROVE  /\ off[i] + 1 \in 1 .. Len(v) /\ v[off[i] + 1] = w[i]
             /\ off[i] + 1 \in Noise(v) <=> w[i].noise
             /\ \A c \in w[i].calls : off[i] + 1 + c \in Noise(v) <=> w[i].noise
  <2> DEFINE h == off[i] + 1
  <2>1. h \in 1 .. Len(v) /\ v[h] = w[i] /\ w[i].role # "tool"
    BY <1>2, <1>5 DEF Restored, Stays
  <2> HIDE DEF h
  <2>2. h \in Noise(v) <=> w[i].noise
    BY <1>1, <1>3, <2>1, NoiseByDecision
  <2>3. ASSUME NEW c \in w[i].calls PROVE h + c \in Noise(v) <=> w[i].noise
    <3>1. c \in Nat /\ c >= 1 /\ \A b \in 1 .. c : b \in w[i].calls
      BY CallNumbers
    <3>2. \A b \in 1 .. c : ResultAt(v, h + b, b)
      BY <1>2, <1>5, <3>1 DEF Restored, h
    <3>3. h + c \in Results(v, h)
      BY <1>1, <2>1, <3>1, <3>2, InResults
    <3> QED
      BY <1>1, <1>3, <2>1, <3>3, NoiseByDecision
  <2> QED
    BY <2>1, <2>2, <2>3 DEF h
<1> DEFINE I == IF On("drop_noise") THEN DOMAIN v \ Noise(v) ELSE DOMAIN v
\* What the messages in I stand for.
<1>6. ASSUME NEW x
      PROVE  (\E p \in 1 .. Len(v) : p \in I /\ x \in v[p].covers) <=> x \in Restorable(w)
  <2>1. ASSUME NEW p \in 1 .. Len(v), p \in I, x \in v[p].covers PROVE x \in Restorable(w)
    <3>1. PICK i \in 1 .. Len(w) : Stays(w, i) /\
           \/ p = off[i] + 1 /\ x \in w[i].covers
           \/ \E c \in w[i].calls : /\ p = off[i] + 1 + c /\ i + c \in Results(w, i)
                                    /\ x \in w[i + c].covers
      BY <1>1, <1>2, <2>1, RestoredFrom
    <3>2. Retained(w, i)
      <4>1. ASSUME On("drop_noise") PROVE ~w[i].noise
        <5>1. p \notin Noise(v)
          BY <2>1, <4>1
        <5> QED
          BY <1>5, <3>1, <5>1
      <4> QED
        BY <3>1, <4>1 DEF Retained
    <3>3. x \in w[i].covers \/ \E j \in Results(w, i) : x \in w[j].covers
      BY <3>1
    <3> HIDE DEF I
    <3> QED
      BY <3>2, <3>3, RestorableIs
  <2>2. ASSUME x \in Restorable(w) PROVE \E p \in 1 .. Len(v) : p \in I /\ x \in v[p].covers
    <3>1. PICK i \in 1 .. Len(w) : /\ Retained(w, i)
                                   /\ \/ x \in w[i].covers
                                      \/ \E j \in Results(w, i) : x \in w[j].covers
      BY <2>2, RestorableIs
    <3>2. Stays(w, i) /\ (On("drop_noise") => ~w[i].noise) /\ w[i].role # "tool"
      BY <3>1 DEF Retained, Stays
    <3>3. CASE x \in w[i].covers
      <4>1. off[i] + 1 \in 1 .. Len(v) /\ v[off[i] + 1] = w[i] /\ off[i] + 1 \in I
        BY <1>4, <1>5, <3>2
      <4> QED
        BY <3>3, <4>1
    <3>4. CASE \E j \in Results(w, i) : x \in w[j].covers
      <4>1. PICK j \in Results(w, i) : x \in w[j].covers
        BY <3>4
      <4>2. j - i \in w[i].calls /\ i + (j - i) = j
        BY <3>2, ResultOf
      <4> DEFINE c == j - i
                 p == off[i] + 1 + c
      <4>3. c \in w[i].calls /\ i + c = j
        BY <4>2
      <4> HIDE DEF c
      <4>4. p \in 1 .. Len(v) /\ v[p].covers = w[j].covers
        <5>1. /\ ResultAt(v, off[i] + 1 + c, c)
              /\ v[off[i] + 1 + c].covers = IF i + c \in Results(w, i) THEN w[i + c].covers ELSE {}
          BY <1>2, <3>2, <4>3 DEF Restored
        <5> QED
          BY <4>1, <4>3, <5>1 DEF ResultAt
      <4>5. p \in I
        BY <1>4, <1>5, <3>2, <4>3, <4>4
      <4> HIDE DEF p, I
      <4> QED
        BY <4>1, <4>4, <4>5
    <3> QED
      BY <3>1, <3>3, <3>4
  <2> QED
    BY <2>1, <2>2
<1>7. CASE On("drop_noise")
  <2>1. d = Among(v, I)
    BY <1>7 DEF DropNoise
  <2>2. Whole(v, I)
    <3> SUFFICES ASSUME NEW i \in 1 .. Len(v), NEW c \in Nat,
                        \A b \in 1 .. c : ResultAt(v, i + b, b), c \in v[i].calls
                 PROVE  i \in I <=> i + c \in I
      BY DEF Whole
    <3>1. v[i].role # "tool" /\ c >= 1
      BY <1>1, CallNumbers, MessageTypes DEF Made
    <3>2. i + c \in Results(v, i)
      BY <1>1, <3>1, InResults
    <3>3. i + c \in 1 .. Len(v)
      BY <3>1 DEF ResultAt
    <3> QED
      BY <1>1, <1>3, <1>4, <1>7, <3>1, <3>2, <3>3, NoiseByDecision
  <2> HIDE DEF I, d
  <2>3. Messages(d) /\ \E at : Placed(v, I, d, at)
    BY <1>1, <2>1, AmongPlaced
  <2>4. PICK at : Placed(v, I, d, at)
    BY <2>3
  <2>5. Grouped(d) /\ Closed(d)
    BY <1>1, <1>3, <2>2, <2>3, <2>4, PlacedPairs
  <2>6. Ordered(d) /\ \A x : x \in Covers(d) <=> \E p \in 1 .. Len(v) : p \in I /\ x \in v[p].covers
    BY <1>1, <1>3, <2>3, <2>4, PlacedCovers
  <2>7. Covers(d) = Restorable(w)
    BY <1>6, <2>6
  <2> QED
    BY <2>3, <2>5, <2>6, <2>7 DEF d, v
<1>8. CASE ~On("drop_noise")
  <2>1. d = v /\ I = DOMAIN v
    BY <1>8 DEF DropNoise
  <2>2. \A x : x \in Covers(v) <=> \E p \in 1 .. Len(v) : x \in v[p].covers
    BY <1>4 DEF Covers
  <2>3. Covers(v) = Restorable(w)
    <3> HIDE DEF I
    <3> QED
      BY <1>4, <1>6, <2>1, <2>2
  <2> QED
    BY <1>1, <1>3, <2>1, <2>3 DEF d, v
<1> QED
  BY <1>7, <1>8

-----------------------------------------------------------------------------
(* Weights, and messages on record.                                        *)

\* h adds the weights of w up, message by message.
Sums(w, h) ==
  h[0] = 0 /\ \A n \in 1 .. Len(w) : h[n] = h[n - 1] + w[n].weight

\* The weight of a context is such a sum.
LEMMA WeightSums ==
  ASSUME NEW w, Messages(w)
  PROVE  \E h : Sums(w, h) /\ Weight(w) = h[Len(w)]
<1> DEFINE Body(f, n) == IF n = 0 THEN 0 ELSE f[n - 1] + w[n].weight
           A == {k \in Nat : k <= Len(w) =>
                   \E f \in [0 .. k -> Nat] : \A n \in 0 .. k : f[n] = Body(f, n)}
           N == Len(w)
<1>1. N \in Nat /\ \A n \in 1 .. N : w[n].weight \in Nat
  BY MessageTypes
<1>2. 0 \in A
  <2> DEFINE f == [n \in 0 .. 0 |-> 0]
  <2>1. f \in [0 .. 0 -> Nat] /\ \A n \in 0 .. 0 : f[n] = Body(f, n)
    OBVIOUS
  <2> HIDE DEF f, Body
  <2> QED
    BY <2>1
<1>3. ASSUME NEW k \in Nat, k \in A PROVE k + 1 \in A
  <2> SUFFICES ASSUME k + 1 <= N
               PROVE  \E f \in [0 .. k + 1 -> Nat] : \A n \in 0 .. k + 1 : f[n] = Body(f, n)
    <3> HIDE DEF Body
    <3> QED
      OBVIOUS
  <2>1. PICK f \in [0 .. k -> Nat] : \A n \in 0 .. k : f[n] = Body(f, n)
    <3>1. k <= Len(w)
      BY <1>1
    <3> HIDE DEF Body
    <3> QED
      BY <1>3, <3>1
  <2> DEFINE g == [n \in 0 .. k + 1 |-> IF n = k + 1 THEN f[k] + w[k + 1].weight ELSE f[n]]
  <2>2. g \in [0 .. k + 1 -> Nat]
    <3>1. w[k + 1].weight \in Nat /\ f[k] \in Nat
      BY <1>1
    <3>2. \A n \in 0 .. k + 1 : n = k + 1 \/ n \in 0 .. k
      OBVIOUS
    <3> QED
      BY <3>1, <3>2
  <2>3. ASSUME NEW n \in 0 .. k + 1 PROVE g[n] = Body(g, n)
    <3>1. CASE n = k + 1
      <4>1. n # 0 /\ n - 1 = k /\ k \in 0 .. k + 1 /\ k # k + 1
        BY <3>1
      <4>2. g[n - 1] = f[k] /\ g[n] = f[k] + w[k + 1].weight
        BY <3>1, <4>1
      <4> HIDE DEF g
      <4> QED
        BY <3>1, <4>1, <4>2
    <3>2. CASE n # k + 1
      <4>1. n \in 0 .. k /\ (n # 0 => n - 1 \in 0 .. k)
        BY <3>2
      <4>2. \A i \in 0 .. k : g[i] = f[i]
        OBVIOUS
      <4>3. f[n] = Body(f, n)
        BY <2>1, <4>1
      <4> HIDE DEF g
      <4> QED
        BY <4>1, <4>2, <4>3
    <3> QED
      BY <3>1, <3>2
  <2> HIDE DEF g, Body
  <2> QED
    BY <2>2, <2>3
<1>4. N \in A
  <2> HIDE DEF A
  <2> QED
    BY <1>1, <1>2, <1>3, NatInd
<1> DEFINE sum == CHOOSE sum : sum = [n \in 0 .. N |-> Body(sum, n)]
<1>5. PICK f \in [0 .. N -> Nat] : \A n \in 0 .. N : f[n] = Body(f, n)
  BY <1>1, <1>4
<1>6. f = [n \in 0 .. N |-> Body(f, n)]
  <2> HIDE DEF Body
  <2>1. f = [n \in 0 .. N |-> f[n]]
    OBVIOUS
  <2> QED
    BY <1>5, <2>1
<1>7. sum = [n \in 0 .. N |-> Body(sum, n)]
  <2> HIDE DEF Body
  <2> QED
    BY <1>6
<1>8. Weight(w) = sum[N]
  BY DEF Weight
<1>9. ASSUME NEW h, h = [n \in 0 .. N |-> Body(h, n)]
      PROVE  Sums(w, h)
  <2>1. h[0] = 0
    BY <1>1, <1>9
  <2>2. ASSUME NEW n \in 1 .. N PROVE h[n] = h[n - 1] + w[n].weight
    <3>1. n \in 0 .. N /\ n # 0
      BY <1>1
    <3> QED
      BY <1>9, <3>1
  <2> QED
    BY <2>1, <2>2 DEF Sums
<1> HIDE DEF sum, Body
<1> QED
  BY <1>7, <1>8, <1>9

\* Sums agree, and are numbers.
LEMMA SumsAgree ==
  ASSUME NEW w, Messages(w), NEW f, Sums(w, f), NEW h, Sums(w, h)
  PROVE  \A k \in 0 .. Len(w) : f[k] = h[k] /\ f[k] \in Nat
<1> DEFINE B == {k \in Nat : k <= Len(w) => f[k] = h[k] /\ f[k] \in Nat}
<1>1. Len(w) \in Nat /\ \A n \in 1 .. Len(w) : w[n].weight \in Nat
  BY MessageTypes
<1>2. 0 \in B
  BY DEF Sums
<1>3. ASSUME NEW k \in Nat, k \in B PROVE k + 1 \in B
  <2> SUFFICES ASSUME k + 1 <= Len(w) PROVE f[k + 1] = h[k + 1] /\ f[k + 1] \in Nat
    OBVIOUS
  <2>1. k + 1 \in 1 .. Len(w) /\ (k + 1) - 1 = k
    BY <1>1
  <2>2. f[k] = h[k] /\ f[k] \in Nat
    BY <1>1, <1>3
  <2>3. f[k + 1] = f[k] + w[k + 1].weight /\ h[k + 1] = h[k] + w[k + 1].weight
    BY <2>1 DEF Sums
  <2> QED
    BY <1>1, <2>1, <2>2, <2>3
<1> HIDE DEF B
<1>4. Nat \subseteq B
  BY <1>2, <1>3, NatInd
<1> QED
  BY <1>1, <1>4 DEF B

\* The weight of a context is a number, and an empty one weighs nothing.
LEMMA WeightType ==
  ASSUME NEW w, Messages(w)
  PROVE  Weight(w) \in Nat /\ (w = <<>> => Weight(w) = 0)
<1>1. PICK h : Sums(w, h) /\ Weight(w) = h[Len(w)]
  BY WeightSums
<1>2. Len(w) \in Nat /\ (w = <<>> => Len(w) = 0)
  BY MessageTypes
<1>3. h[Len(w)] \in Nat
  BY <1>1, <1>2, SumsAgree
<1> QED
  BY <1>1, <1>2, <1>3 DEF Sums

\* Whatever adds up the weights says what the context weighs.
LEMMA WeightIs ==
  ASSUME NEW w, Messages(w), NEW f, Sums(w, f)
  PROVE  Weight(w) = f[Len(w)]
<1>1. PICK h : Sums(w, h) /\ Weight(w) = h[Len(w)]
  BY WeightSums
<1>2. Len(w) \in 0 .. Len(w)
  BY MessageTypes
<1> QED
  BY <1>1, <1>2, SumsAgree

\* A cut divides the weight.
LEMMA CutWeight ==
  ASSUME NEW w, Messages(w), NEW c \in 0 .. Len(w)
  PROVE  /\ Messages(SubSeq(w, 1, c))
         /\ Weight(w) = Weight(SubSeq(w, 1, c)) + Weight(Cut(w, c))
<1> DEFINE u == SubSeq(w, 1, c)
           v == Cut(w, c)
           N == Len(w)
<1>1. PICK h : Sums(w, h) /\ Weight(w) = h[N]
  BY WeightSums
<1>2. \A k \in 0 .. N : h[k] \in Nat
  BY <1>1, SumsAgree
<1>3. /\ N \in Nat /\ c \in Nat /\ c <= N
      /\ \A i \in 1 .. N : w[i].weight \in Nat /\ Made(w[i])
  BY MessageTypes
<1>4. /\ u \in Seq(Msg) /\ Len(u) = c /\ \A i \in 1 .. c : u[i] = w[i]
      /\ Messages(v) /\ Len(v) = N - c
      /\ \A i \in 1 .. N - c : v[i] = w[i + c] /\ i + c \in 1 .. N
  BY CutShape
<1> HIDE DEF u, v
<1>5. Messages(u)
  <2>1. ASSUME NEW i \in 1 .. Len(u) PROVE Made(u[i])
    <3>1. i \in 1 .. N /\ u[i] = w[i]
      BY <1>3, <1>4
    <3> QED
      BY <1>3, <3>1
  <2> QED
    BY <1>4, <2>1 DEF Messages
<1>6. Sums(u, h)
  <2>1. ASSUME NEW n \in 1 .. c PROVE h[n] = h[n - 1] + u[n].weight
    <3>1. n \in 1 .. N /\ u[n] = w[n]
      BY <1>3, <1>4
    <3> QED
      BY <1>1, <3>1 DEF Sums
  <2> QED
    BY <1>1, <1>4, <2>1 DEF Sums
<1> DEFINE f == [n \in 0 .. N - c |-> h[n + c] - h[c]]
<1>7. Sums(v, f)
  <2>1. f[0] = 0
    BY <1>2, <1>3
  <2>2. ASSUME NEW n \in 1 .. N - c PROVE f[n] = f[n - 1] + v[n].weight
    <3>1. n + c \in 1 .. N /\ (n + c) - 1 = (n - 1) + c /\ n - 1 \in 0 .. N - c /\ n \in 0 .. N - c
      BY <1>3
    <3>2. h[n + c] = h[(n - 1) + c] + w[n + c].weight
      BY <1>1, <3>1 DEF Sums
    <3>3. {n + c, (n - 1) + c, c} \subseteq 0 .. N
      BY <1>3
    <3> QED
      BY <1>2, <1>3, <1>4, <3>1, <3>2, <3>3
  <2> HIDE DEF f
  <2> QED
    BY <1>4, <2>1, <2>2 DEF Sums
<1>8. N - c \in 0 .. N - c /\ (N - c) + c = N /\ h[N] \in Nat /\ h[c] \in Nat
  BY <1>2, <1>3
<1>9. f[N - c] = h[N] - h[c]
  BY <1>8
<1>10. Weight(u) = h[c] /\ Weight(v) = f[N - c]
  <2> HIDE DEF f
  <2> QED
    BY <1>4, <1>5, <1>6, <1>7, WeightIs
<1> QED
  BY <1>1, <1>2, <1>5, <1>8, <1>9, <1>10 DEF u, v

\* A message in front adds its own weight.
LEMMA PrependWeight ==
  ASSUME NEW w, Messages(w), NEW m \in Msg, Messages(<<m>> \o w)
  PROVE  /\ Weight(<<m>> \o w) = m.weight + Weight(w)
         /\ Len(<<m>> \o w) = Len(w) + 1
<1> DEFINE v == <<m>> \o w
           N == Len(w)
<1>1. PICK h : Sums(w, h) /\ Weight(w) = h[N]
  BY WeightSums
<1>2. \A k \in 0 .. N : h[k] \in Nat
  BY <1>1, SumsAgree
<1>3. N \in Nat /\ \A i \in 1 .. N : w[i].weight \in Nat
  BY MessageTypes
<1>4. /\ Len(v) = N + 1 /\ v[1] = m
      /\ \A i \in 1 .. N : v[i + 1] = w[i]
  BY DEF Messages
<1>5. m.weight \in Nat
  BY DEF Msg
<1> HIDE DEF v
<1> DEFINE f == [n \in 0 .. N + 1 |-> IF n = 0 THEN 0 ELSE m.weight + h[n - 1]]
<1>6. Sums(v, f)
  <2>1. f[0] = 0
    BY <1>3
  <2>2. ASSUME NEW n \in 1 .. N + 1 PROVE f[n] = f[n - 1] + v[n].weight
    <3>1. n \in 0 .. N + 1 /\ n # 0 /\ n - 1 \in 0 .. N + 1 /\ n - 1 \in 0 .. N
      BY <1>3
    <3>2. CASE n = 1
      BY <1>1, <1>4, <1>5, <3>1, <3>2 DEF Sums
    <3>3. CASE n # 1
      <4>1. n - 1 \in 1 .. N /\ n - 1 # 0 /\ (n - 1) + 1 = n
        BY <3>3, <3>1, <1>3
      <4>2. h[n - 1] = h[(n - 1) - 1] + w[n - 1].weight /\ v[n] = w[n - 1]
        BY <1>1, <1>4, <4>1 DEF Sums
      <4>3. h[n - 1] \in Nat /\ h[(n - 1) - 1] \in Nat /\ w[n - 1].weight \in Nat
        BY <1>2, <1>3, <4>1
      <4> QED
        BY <1>5, <3>1, <4>1, <4>2, <4>3
    <3> QED
      BY <3>2, <3>3
  <2> HIDE DEF f
  <2> QED
    BY <1>4, <2>1, <2>2 DEF Sums
<1>7. Weight(v) = f[N + 1]
  <2> HIDE DEF f
  <2> QED
    BY <1>4, <1>6, WeightIs DEF v
<1>8. f[N + 1] = m.weight + h[N]
  BY <1>3
<1> QED
  BY <1>1, <1>4, <1>7, <1>8 DEF v

\* A message on record at p.
At(m, p) == [m EXCEPT !.covers = {p}]

\* Putting a message on record changes only what it stands for.
LEMMA AtMessage ==
  ASSUME NEW m \in Msg, Made(m), NEW p \in Nat
  PROVE  LET x == At(m, p) IN
         /\ x \in Msg /\ Made(x) /\ x.role = m.role /\ x.calls = m.calls /\ x.id = m.id
         /\ x.folds = m.folds /\ x.covers = {p}
<1> DEFINE x == At(m, p)
<1>1. /\ x.role = m.role /\ x.calls = m.calls /\ x.id = m.id /\ x.noise = m.noise
      /\ x.folds = m.folds /\ x.covers = {p}
  BY DEF At, Msg
<1>2. \A c \in SUBSET Nat : [m EXCEPT !.covers = c] \in Msg
  BY DEF Msg
<1>3. x \in Msg
  BY <1>2 DEF At
<1> HIDE DEF x
<1>4. Made(x)
  BY <1>1 DEF Made
<1> QED
  BY <1>1, <1>3, <1>4 DEF x

\* The record, and a context that stands for the messages on it at l.
Recorded(r) == Messages(r) /\ Grouped(r) /\ \A p \in 1 .. Len(r) : r[p].covers = {p}
Holds(r, w, l) ==
  /\ Messages(w) /\ Grouped(w) /\ Ordered(w)
  /\ Covers(w) = l /\ l \subseteq 1 .. Len(r)

\* What Add does with one message ...
LEMMA AddOne ==
  ASSUME Messages(raw), Messages(working), NEW m \in Msg, Made(m), Add(<<m>>)
  PROVE  LET x == At(m, Len(raw) + 1) IN
         /\ raw' = Append(raw, x) /\ working' = Append(working, x)
         /\ live' = live \cup {Len(raw) + 1}
<1> DEFINE x == At(m, Len(raw) + 1)
           ms == <<m>>
           stamped == [k \in DOMAIN ms |-> [ms[k] EXCEPT !.covers = {Len(raw) + k}]]
<1>1. Len(raw) + 1 \in Nat /\ raw \in Seq(Msg) /\ working \in Seq(Msg)
  BY MessageTypes DEF Messages
<1>2. x \in Msg /\ x.covers = {Len(raw) + 1}
  BY <1>1, AtMessage
<1>3. stamped = <<x>>
  <2>1. DOMAIN ms = {1} /\ ms[1] = m
    OBVIOUS
  <2> HIDE DEF ms
  <2>2. stamped = [k \in {1} |-> [ms[k] EXCEPT !.covers = {Len(raw) + k}]]
    BY <2>1
  <2>3. \A k \in {1} : [ms[k] EXCEPT !.covers = {Len(raw) + k}] = x
    BY <2>1 DEF At
  <2> HIDE DEF x
  <2>4. stamped = [k \in {1} |-> x]
    BY <2>2, <2>3
  <2>5. <<x>> = [k \in {1} |-> x]
    OBVIOUS
  <2> QED
    BY <2>4, <2>5
<1>4. raw' = raw \o stamped /\ working' = working \o stamped /\ live' = live \cup Covers(stamped)
  BY DEF Add
<1> HIDE DEF stamped, x
<1>5. Covers(<<x>>) = {Len(raw) + 1}
  BY <1>2 DEF Covers
<1>6. \A w \in Seq(Msg) : w \o <<x>> = Append(w, x)
  BY <1>2
<1> QED
  BY <1>1, <1>3, <1>4, <1>5, <1>6 DEF x

-----------------------------------------------------------------------------
(* A message on record and in the context.                                 *)

\* ... and with two.
LEMMA AddTwo ==
  ASSUME Messages(raw), Messages(working), NEW m \in Msg, Made(m), NEW o \in Msg, Made(o),
         Add(<<m, o>>)
  PROVE  LET x == At(m, Len(raw) + 1)
             y == At(o, Len(raw) + 2) IN
         /\ raw' = Append(Append(raw, x), y) /\ working' = Append(Append(working, x), y)
         /\ live' = (live \cup {Len(raw) + 1}) \cup {Len(raw) + 2}
<1> DEFINE x == At(m, Len(raw) + 1)
           y == At(o, Len(raw) + 2)
           ms == <<m, o>>
           stamped == [k \in DOMAIN ms |-> [ms[k] EXCEPT !.covers = {Len(raw) + k}]]
<1>1. /\ Len(raw) + 1 \in Nat /\ Len(raw) + 2 \in Nat
      /\ raw \in Seq(Msg) /\ working \in Seq(Msg)
  BY MessageTypes DEF Messages
<1>2. /\ x \in Msg /\ x.covers = {Len(raw) + 1}
      /\ y \in Msg /\ y.covers = {Len(raw) + 2}
  BY <1>1, AtMessage
<1>3. stamped = <<x, y>>
  <2>1. DOMAIN ms = {1, 2} /\ ms[1] = m /\ ms[2] = o
    OBVIOUS
  <2> HIDE DEF ms
  <2>2. stamped = [k \in {1, 2} |-> [ms[k] EXCEPT !.covers = {Len(raw) + k}]]
    BY <2>1
  <2>3. \A k \in {1, 2} : [ms[k] EXCEPT !.covers = {Len(raw) + k}] = IF k = 1 THEN x ELSE y
    BY <2>1 DEF At
  <2> HIDE DEF x, y
  <2>4. stamped = [k \in {1, 2} |-> IF k = 1 THEN x ELSE y]
    BY <2>2, <2>3
  <2>5. <<x, y>> = [k \in {1, 2} |-> IF k = 1 THEN x ELSE y]
    OBVIOUS
  <2> QED
    BY <2>4, <2>5
<1>4. raw' = raw \o stamped /\ working' = working \o stamped /\ live' = live \cup Covers(stamped)
  BY DEF Add
<1> HIDE DEF stamped, x, y
<1>5. Covers(<<x, y>>) = {Len(raw) + 1} \cup {Len(raw) + 2}
  <2>1. DOMAIN <<x, y>> = {1, 2}
    OBVIOUS
  <2> QED
    BY <1>2, <2>1 DEF Covers
<1>6. \A w \in Seq(Msg) : w \o <<x, y>> = Append(Append(w, x), y)
  BY <1>2
<1>7. live' = (live \cup {Len(raw) + 1}) \cup {Len(raw) + 2}
  BY <1>3, <1>4, <1>5
<1> QED
  BY <1>1, <1>3, <1>4, <1>6, <1>7 DEF x, y

\* A message on record, and what is recorded before it.
LEMMA Grow ==
  ASSUME NEW r, Recorded(r), NEW m \in Msg, Made(m), m.role # "tool"
  PROVE  LET x == At(m, Len(r) + 1) IN
         /\ Recorded(Append(r, x)) /\ Len(Append(r, x)) = Len(r) + 1
         /\ \A n \in Id : m.calls = 1 .. n => Deciding(Append(r, x), n, 0)
<1> DEFINE x == At(m, Len(r) + 1)
<1>1. Messages(r) /\ Len(r) + 1 \in Nat /\ Len(r) \in Nat
  BY MessageTypes DEF Recorded
<1>2. /\ x \in Msg /\ Made(x) /\ x.role # "tool" /\ x.calls = m.calls /\ x.covers = {Len(r) + 1}
  BY <1>1, AtMessage
<1> HIDE DEF x
<1>3. Messages(Append(r, x)) /\ Grouped(Append(r, x))
  BY <1>1, <1>2, AppendMessage, GroupedAppend DEF Recorded
<1>4. /\ Len(Append(r, x)) = Len(r) + 1 /\ Append(r, x)[Len(r) + 1] = x
      /\ \A i \in 1 .. Len(r) : Append(r, x)[i] = r[i]
      /\ 1 .. Len(r) + 1 = 1 .. Len(r) \cup {Len(r) + 1}
  BY <1>1, <1>2, Appended
<1>5. \A p \in 1 .. Len(Append(r, x)) : Append(r, x)[p].covers = {p}
  BY <1>2, <1>4 DEF Recorded
<1>6. \A n \in Id : m.calls = 1 .. n => Deciding(Append(r, x), n, 0)
  <2>1. \A c \in 1 .. 0 : FALSE
    OBVIOUS
  <2> QED
    BY <1>1, <1>2, <1>4, <2>1 DEF Deciding
<1> QED
  BY <1>3, <1>4, <1>5, <1>6 DEF Recorded, x

\* The same message in the context.
LEMMA Hear ==
  ASSUME NEW r, Recorded(r), NEW w, NEW l, Holds(r, w, l), NEW m \in Msg, Made(m),
         m.role # "tool", NEW s, Len(s) = Len(r) + 1
  PROVE  LET x == At(m, Len(r) + 1) IN
         /\ Holds(s, Append(w, x), l \cup {Len(r) + 1})
         /\ Closed(w) /\ m.calls = {} => Closed(Append(w, x))
         /\ \A n \in Id : m.calls = 1 .. n => Deciding(Append(w, x), n, 0)
         /\ Closed(w) => \A i \in 1 .. Len(w) : Complete(Append(w, x), i)
         /\ Len(Append(w, x)) = Len(w) + 1
<1> DEFINE x == At(m, Len(r) + 1)
<1>1. Messages(r) /\ Len(r) + 1 \in Nat /\ Len(r) \in Nat /\ Messages(w) /\ Len(w) \in Nat
  BY MessageTypes DEF Recorded, Holds
<1>2. /\ x \in Msg /\ Made(x) /\ x.role # "tool" /\ x.calls = m.calls /\ x.covers = {Len(r) + 1}
  BY <1>1, AtMessage
<1> HIDE DEF x
<1>3. Messages(Append(w, x)) /\ Grouped(Append(w, x))
  BY <1>1, <1>2, AppendMessage, GroupedAppend DEF Holds
<1>4. /\ Len(Append(w, x)) = Len(w) + 1 /\ Append(w, x)[Len(w) + 1] = x
      /\ \A i \in 1 .. Len(w) : Append(w, x)[i] = w[i]
  BY <1>1, <1>2, Appended
<1>5. Ordered(Append(w, x)) /\ Covers(Append(w, x)) = l \cup {Len(r) + 1}
  BY <1>1, <1>2, OrderedAppend DEF Holds
<1>6. \A n \in Id : m.calls = 1 .. n => Deciding(Append(w, x), n, 0)
  <2>1. \A c \in 1 .. 0 : FALSE
    OBVIOUS
  <2> QED
    BY <1>1, <1>2, <1>4, <2>1 DEF Deciding
<1>7. Closed(w) /\ m.calls = {} => Closed(Append(w, x))
  BY <1>1, <1>2, ClosedAppend
<1>8. Closed(w) => \A i \in 1 .. Len(w) : Complete(Append(w, x), i)
  <2> SUFFICES ASSUME Closed(w), NEW i \in 1 .. Len(w) PROVE Complete(Append(w, x), i)
    OBVIOUS
  <2>1. Complete(w, i)
    BY DEF Closed
  <2> QED
    BY <1>1, <1>2, <2>1, CompleteStays
<1>9. l \cup {Len(r) + 1} \subseteq 1 .. Len(s)
  <2>1. l \subseteq 1 .. Len(r)
    BY DEF Holds
  <2>2. 1 .. Len(r) \cup {Len(r) + 1} \subseteq 1 .. Len(s)
    BY <1>1
  <2> QED
    BY <2>1, <2>2
<1> QED
  BY <1>3, <1>4, <1>5, <1>6, <1>7, <1>8, <1>9 DEF Holds, x

\* The next result of a decision.
LEMMA GrowResult ==
  ASSUME NEW r, Recorded(r), NEW n \in Id, NEW k \in Nat, k < n, Deciding(r, n, k),
         NEW w, NEW l, Holds(r, w, l), Deciding(w, n, k), k + 1 \in Id
  PROVE  LET x == At(Result(k + 1), Len(r) + 1) IN
         /\ Recorded(Append(r, x)) /\ Len(Append(r, x)) = Len(r) + 1
         /\ Deciding(Append(r, x), n, k + 1)
         /\ Holds(Append(r, x), Append(w, x), l \cup {Len(r) + 1})
         /\ Deciding(Append(w, x), n, k + 1)
         /\ \A i \in 1 .. Len(w) : Complete(w, i) => Complete(Append(w, x), i)
         /\ Len(Append(w, x)) = Len(w) + 1
<1> DEFINE m == Result(k + 1)
           x == At(m, Len(r) + 1)
<1>1. /\ Messages(r) /\ Len(r) + 1 \in Nat /\ Len(r) \in Nat /\ Messages(w) /\ Len(w) \in Nat
      /\ n \in Nat
  BY MessageTypes, ConversationAssumption DEF Recorded, Holds, Id
<1>2. m \in Msg /\ Made(m) /\ m.role = "tool" /\ m.id = k + 1
  BY MessagesMade
<1> HIDE DEF m
<1>3. x \in Msg /\ Made(x) /\ x.role = "tool" /\ x.id = k + 1 /\ x.covers = {Len(r) + 1}
  BY <1>1, <1>2, AtMessage
<1> HIDE DEF x
<1>4. /\ Messages(Append(r, x)) /\ Grouped(Append(r, x)) /\ Deciding(Append(r, x), n, k + 1)
      /\ Messages(Append(w, x)) /\ Grouped(Append(w, x)) /\ Deciding(Append(w, x), n, k + 1)
  BY <1>1, <1>3, AppendMessage, GroupedResult DEF Recorded, Holds
<1>5. /\ Len(Append(r, x)) = Len(r) + 1 /\ Append(r, x)[Len(r) + 1] = x
      /\ \A i \in 1 .. Len(r) : Append(r, x)[i] = r[i]
      /\ 1 .. Len(r) + 1 = 1 .. Len(r) \cup {Len(r) + 1}
      /\ Len(Append(w, x)) = Len(w) + 1
  BY <1>1, <1>3, Appended
<1>6. \A p \in 1 .. Len(Append(r, x)) : Append(r, x)[p].covers = {p}
  BY <1>3, <1>5 DEF Recorded
<1>7. Ordered(Append(w, x)) /\ Covers(Append(w, x)) = l \cup {Len(r) + 1}
  BY <1>1, <1>3, OrderedAppend DEF Holds
<1>8. \A i \in 1 .. Len(w) : Complete(w, i) => Complete(Append(w, x), i)
  BY <1>1, <1>3, CompleteStays
<1>9. l \cup {Len(r) + 1} \subseteq 1 .. Len(Append(r, x))
  BY <1>1, <1>5 DEF Holds
<1> QED
  BY <1>4, <1>5, <1>6, <1>7, <1>8, <1>9 DEF Recorded, Holds, x, m

\* What a context stands for stays on a record that grows.
LEMMA HoldsOn ==
  ASSUME NEW r, NEW w, NEW l, Holds(r, w, l), NEW s, Len(r) \in Nat, Len(s) \in Nat, Len(r) <= Len(s)
  PROVE  Holds(s, w, l)
BY DEF Holds

-----------------------------------------------------------------------------
(* Compaction, trimming and resumption.                                    *)

\* A summary is a message that calls nothing.
LEMMA SummaryMessage ==
  ASSUME NEW g \in Nat, NEW c \in SUBSET Nat
  PROVE  LET m == [User EXCEPT !.weight = g, !.covers = c] IN
         m \in Msg /\ Made(m) /\ m.role # "tool" /\ m.calls = {} /\ m.covers = c
<1> DEFINE m == [User EXCEPT !.weight = g, !.covers = c]
<1>1. User \in Msg /\ User.role = "user" /\ User.calls = {} /\ ~User.noise
  BY MessagesMade, PlainMessage DEF User, Role
<1>2. m.role = "user" /\ m.calls = {} /\ ~m.noise /\ m.covers = c
  BY <1>1 DEF Msg
<1>3. m \in Msg
  BY <1>1 DEF Msg
<1> HIDE DEF m
<1>4. Made(m)
  BY <1>2 DEF Made
<1> QED
  BY <1>2, <1>3, <1>4 DEF m

\* A compaction stands for what it replaced.
LEMMA CompactsHolds ==
  ASSUME NEW r, Holds(r, working, live), NEW g \in Nat, Compacts(g)
  PROVE  Holds(r, working', live') /\ (Closed(working) => Closed(working'))
<1> DEFINE w == working
           c == SafeCut(w)
           m == [User EXCEPT !.weight = g, !.covers = Covers(Old(w))]
<1>1. Messages(w) /\ Grouped(w) /\ Ordered(w) /\ Covers(w) = live
  BY DEF Holds
<1>2. c > 0 /\ working' = <<m>> \o Cut(w, c) /\ live' = live
  BY DEF Compacts, Compacted, Cut
<1>3. c \in 0 .. Len(w) /\ CutHere(w, c)
  BY <1>1, SafeCutSpec, MessageTypes, <1>2 DEF CutHere
<1>4. /\ Ordered(Cut(w, c)) /\ Covers(w) = Covers(Old(w)) \cup Covers(Cut(w, c))
      /\ \A p \in Covers(Old(w)), q \in Covers(Cut(w, c)) : p < q
  BY <1>1, <1>3, CutCovers DEF Old
<1>5. Messages(Cut(w, c)) /\ Grouped(Cut(w, c)) /\ (Closed(w) => Closed(Cut(w, c)))
  BY <1>1, <1>3, CutShape, CutGrouped, CutClosed
<1>6. Covers(w) \subseteq Nat
  <2>1. DOMAIN w = 1 .. Len(w) /\ \A i \in 1 .. Len(w) : w[i].covers \subseteq Nat
    BY <1>1, MessageTypes
  <2> QED
    BY <2>1 DEF Covers
<1>7. m \in Msg /\ Made(m) /\ m.role # "tool" /\ m.calls = {} /\ m.covers = Covers(Old(w))
  <2>1. Covers(Old(w)) \in SUBSET Nat
    BY <1>4, <1>6
  <2> QED
    BY <2>1, SummaryMessage
<1> HIDE DEF m, c, w
<1>8. /\ Messages(<<m>> \o Cut(w, c)) /\ Grouped(<<m>> \o Cut(w, c))
      /\ Closed(Cut(w, c)) => Closed(<<m>> \o Cut(w, c))
      /\ Covers(<<m>> \o Cut(w, c)) = Covers(w)
      /\ Ordered(<<m>> \o Cut(w, c))
  BY <1>4, <1>5, <1>7, PrependSound
<1>9. Holds(r, <<m>> \o Cut(w, c), live)
  BY <1>1, <1>8 DEF Holds, w
<1> QED
  BY <1>2, <1>5, <1>8, <1>9 DEF w

\* A trim takes a whole group.
LEMMA TrimsHolds ==
  ASSUME NEW r, Holds(r, working, live), working # <<>>, Trims
  PROVE  Holds(r, working', live') /\ (Closed(working) => Closed(working'))
<1> DEFINE w == working
<1>1. Messages(w) /\ Grouped(w) /\ Ordered(w) /\ Covers(w) = live /\ live \subseteq 1 .. Len(r)
  BY DEF Holds
<1>2. Len(w) \in Nat /\ 1 \in 1 .. Len(w)
  BY <1>1, MessageTypes DEF Messages
<1>3. PICK e \in 1 .. Len(w) : /\ Cardinality(Results(w, 1)) = e - 1
                               /\ e = Len(w) \/ w[e + 1].role # "tool"
  BY <1>1, <1>2, ResultsSpan
<1>4. 1 + Cardinality(Results(w, 1)) = e
  BY <1>2, <1>3
<1>5. working' = Cut(w, e) /\ live' = live \ Covers(SubSeq(w, 1, e))
  BY <1>4 DEF Trims, Cut
<1>6. e \in 0 .. Len(w) /\ CutHere(w, e)
  BY <1>2, <1>3 DEF CutHere
<1>7. Messages(Cut(w, e)) /\ Grouped(Cut(w, e)) /\ (Closed(w) => Closed(Cut(w, e)))
  BY <1>1, <1>6, CutShape, CutGrouped, CutClosed
<1>8. /\ Ordered(Cut(w, e)) /\ Covers(w) = Covers(SubSeq(w, 1, e)) \cup Covers(Cut(w, e))
      /\ \A p \in Covers(SubSeq(w, 1, e)), q \in Covers(Cut(w, e)) : p < q
  BY <1>1, <1>6, CutCovers
<1>9. Covers(Cut(w, e)) = live'
  <2>1. Covers(w) \subseteq Nat
    <3>1. DOMAIN w = 1 .. Len(w) /\ \A i \in 1 .. Len(w) : w[i].covers \subseteq Nat
      BY <1>1, MessageTypes
    <3> QED
      BY <3>1 DEF Covers
  <2>2. \A p \in Covers(SubSeq(w, 1, e)) : p \notin Covers(Cut(w, e))
    <3> HIDE DEF w
    <3> QED
      BY <1>8, <2>1
  <2> QED
    BY <1>1, <1>5, <1>8, <2>2
<1> QED
  BY <1>1, <1>5, <1>7, <1>8, <1>9 DEF Holds

\* The record stands for itself, in its order.
LEMMA RecordOrdered ==
  ASSUME NEW r, Recorded(r)
  PROVE  Ordered(r) /\ Len(r) \in Nat /\ DOMAIN r = 1 .. Len(r) /\ Messages(r)
<1>1. Messages(r) /\ Len(r) \in Nat /\ DOMAIN r = 1 .. Len(r)
  BY MessageTypes DEF Recorded
<1>2. \A p \in 1 .. Len(r) : r[p].covers = {p}
  BY DEF Recorded
<1> QED
  BY <1>1, <1>2 DEF Ordered

\* A resumed session is whole again, whatever was cut off in its record.
LEMMA ResumeHolds ==
  ASSUME NEW r, Recorded(r)
  PROVE  LET turns == Among(r, {p \in DOMAIN r : r[p].role # "system"})
             w == DropNoise(Sanitize(turns)) IN
         Holds(r, w, Restorable(turns)) /\ Closed(w)
<1> DEFINE I == {p \in DOMAIN r : r[p].role # "system"}
           turns == Among(r, I)
           w == DropNoise(Sanitize(turns))
<1>1. Messages(r) /\ Grouped(r) /\ Ordered(r) /\ Len(r) \in Nat /\ DOMAIN r = 1 .. Len(r)
  BY RecordOrdered DEF Recorded
<1>2. Whole(r, I)
  <2> SUFFICES ASSUME NEW i \in 1 .. Len(r), NEW c \in Nat,
                      \A b \in 1 .. c : ResultAt(r, i + b, b), c \in r[i].calls
               PROVE  i \in I /\ i + c \in I
    BY DEF Whole
  <2>1. r[i].role = "assistant"
    BY <1>1, MessageTypes DEF Made
  <2>2. c >= 1
    BY <1>1, CallNumbers
  <2>3. ResultAt(r, i + c, c)
    BY <2>2
  <2> QED
    BY <1>1, <2>1, <2>3 DEF ResultAt
<1> HIDE DEF I
<1>3. Messages(turns) /\ \E at : Placed(r, I, turns, at)
  BY <1>1, AmongPlaced
<1>4. PICK at : Placed(r, I, turns, at)
  BY <1>3
<1> HIDE DEF turns
<1>5. Grouped(turns)
  BY <1>1, <1>2, <1>3, <1>4, PlacedPairs
<1>6. Ordered(turns) /\ \A p : p \in Covers(turns) <=> \E i \in 1 .. Len(r) : i \in I /\ p \in r[i].covers
  BY <1>1, <1>3, <1>4, PlacedCovers
<1>7. Messages(w) /\ Grouped(w) /\ Closed(w) /\ Ordered(w) /\ Covers(w) = Restorable(turns)
  BY <1>3, <1>5, <1>6, ResumeSound
<1> HIDE DEF w
<1>8. Restorable(turns) \subseteq 1 .. Len(r)
  <2> SUFFICES ASSUME NEW x \in Restorable(turns) PROVE x \in 1 .. Len(r)
    OBVIOUS
  <2>1. PICK i \in 1 .. Len(turns) : \/ x \in turns[i].covers
                                     \/ \E j \in Results(turns, i) : x \in turns[j].covers
    BY <1>3, <1>5, RestorableIs
  <2>2. DOMAIN turns = 1 .. Len(turns) /\ \A j \in Results(turns, i) : j \in 1 .. Len(turns)
    BY <1>3, MessageTypes DEF Results
  <2>3. x \in Covers(turns)
    BY <2>1, <2>2 DEF Covers
  <2>4. PICK p \in 1 .. Len(r) : x \in r[p].covers
    BY <1>6, <2>3
  <2> QED
    BY <2>4 DEF Recorded
<1> QED
  BY <1>7, <1>8 DEF Holds, w, turns, I

-----------------------------------------------------------------------------
(* The inductive invariant.                                                *)

\* The record is sound, and so are the context and the snapshot over it.
Context ==
  /\ Recorded(raw)
  /\ Holds(raw, working, live)
  /\ Holds(raw, mark.working, mark.live)

\* The calls that are open are the last ones of the decision at the end of the
\* record, which is the one at the end of the context.
Deciders ==
  \E n \in Id : \E k \in 0 .. n :
    /\ todo = k + 1 .. n
    /\ Deciding(raw, n, k) /\ Deciding(working, n, k)
    /\ ~torn => \A i \in 1 .. Len(working) - k - 1 : Complete(working, i)

\* Between decisions, nothing is open but what this process tore.
Course ==
  /\ pc \in {"prompt", "off", "soft", "hard", "sent", "calls", "synthesis"}
  /\ torn \in BOOLEAN /\ pending \subseteq Digest
  /\ pc # "calls" => todo = {}
  /\ ~torn => Closed(mark.working)
  /\ pc # "calls" /\ ~torn => Closed(working)
  /\ pc = "calls" => Deciders

\* A message that is no result keeps the record and the context sound ...
LEMMA AddOneHolds ==
  ASSUME Context, NEW m \in Msg, Made(m), m.role # "tool", Add(<<m>>)
  PROVE  /\ Recorded(raw') /\ Holds(raw', working', live') /\ Holds(raw', mark.working, mark.live)
         /\ m.calls = {} /\ Closed(working) => Closed(working')
         /\ \A n \in Id : m.calls = 1 .. n => Deciding(raw', n, 0) /\ Deciding(working', n, 0)
         /\ Closed(working) => \A i \in 1 .. Len(working) : Complete(working', i)
         /\ Len(working') = Len(working) + 1
<1> DEFINE x == At(m, Len(raw) + 1)
<1>1. /\ Messages(raw) /\ Messages(working) /\ Len(raw) \in Nat /\ Recorded(raw)
      /\ Holds(raw, working, live)
  BY MessageTypes DEF Context, Recorded, Holds
<1>2. /\ raw' = Append(raw, x) /\ working' = Append(working, x)
      /\ live' = live \cup {Len(raw) + 1}
  BY <1>1, AddOne
<1>3. /\ Recorded(raw') /\ Len(raw') = Len(raw) + 1
      /\ \A n \in Id : m.calls = 1 .. n => Deciding(raw', n, 0)
  BY <1>1, <1>2, Grow
<1>4. /\ Holds(raw', Append(working, x), live \cup {Len(raw) + 1})
      /\ Closed(working) /\ m.calls = {} => Closed(Append(working, x))
      /\ \A n \in Id : m.calls = 1 .. n => Deciding(Append(working, x), n, 0)
      /\ Closed(working) => \A i \in 1 .. Len(working) : Complete(Append(working, x), i)
      /\ Len(Append(working, x)) = Len(working) + 1
  <2>1. Len(raw') = Len(raw) + 1
    BY <1>3
  <2>2. Holds(raw', Append(working, x), live \cup {Len(raw) + 1})
    BY <1>1, <2>1, Hear
  <2>3. Closed(working) /\ m.calls = {} => Closed(Append(working, x))
    BY <1>1, <2>1, Hear
  <2>4. \A n \in Id : m.calls = 1 .. n => Deciding(Append(working, x), n, 0)
    BY <1>1, <2>1, Hear
  <2>5. Closed(working) => \A i \in 1 .. Len(working) : Complete(Append(working, x), i)
    BY <1>1, <2>1, Hear
  <2>6. Len(Append(working, x)) = Len(working) + 1
    BY <1>1, <2>1, Hear
  <2> QED
    BY <2>2, <2>3, <2>4, <2>5, <2>6
<1>5. Holds(raw', mark.working, mark.live)
  <2>1. Len(raw') \in Nat /\ Len(raw) <= Len(raw')
    BY <1>1, <1>3
  <2> QED
    BY <1>1, <2>1, HoldsOn DEF Context
<1> HIDE DEF x
<1> QED
  BY <1>2, <1>3, <1>4, <1>5

\* ... and so do two.
LEMMA AddTwoHolds ==
  ASSUME Context, NEW m \in Msg, Made(m), m.role # "tool", m.calls = {},
         NEW o \in Msg, Made(o), o.role # "tool", o.calls = {}, Add(<<m, o>>)
  PROVE  /\ Recorded(raw') /\ Holds(raw', working', live') /\ Holds(raw', mark.working, mark.live)
         /\ Closed(working) => Closed(working')
<1> DEFINE x == At(m, Len(raw) + 1)
           y == At(o, Len(raw) + 2)
           r == Append(raw, x)
           w == Append(working, x)
           l == live \cup {Len(raw) + 1}
<1>1. /\ Messages(raw) /\ Messages(working) /\ Len(raw) \in Nat /\ Recorded(raw)
      /\ Holds(raw, working, live)
  BY MessageTypes DEF Context, Recorded, Holds
<1>2. raw' = Append(r, y) /\ working' = Append(w, y) /\ live' = l \cup {Len(raw) + 2}
  BY <1>1, AddTwo
<1>3. Recorded(r) /\ Len(r) = Len(raw) + 1
  BY <1>1, Grow
<1>4. Holds(r, w, l) /\ (Closed(working) => Closed(w))
  BY <1>1, <1>3, Hear
<1>5. Len(r) + 1 = Len(raw) + 2 /\ y = At(o, Len(r) + 1)
  <2>1. Len(r) + 1 = Len(raw) + 2
    BY <1>1, <1>3
  <2> QED
    BY <2>1
<1> HIDE DEF r, w, l, y
<1>6. Recorded(raw') /\ Len(raw') = Len(r) + 1
  BY <1>2, <1>3, <1>5, Grow
<1>7. Holds(raw', working', live') /\ (Closed(w) => Closed(working'))
  BY <1>2, <1>3, <1>4, <1>5, <1>6, Hear
<1>8. Holds(raw', mark.working, mark.live)
  <2>1. Len(raw') \in Nat /\ Len(raw) <= Len(raw')
    BY <1>1, <1>3, <1>6
  <2> QED
    BY <1>1, <2>1, HoldsOn DEF Context
<1> QED
  BY <1>4, <1>6, <1>7, <1>8

\* The request of a turn, and the record of its situation.
LEMMA RequestHolds ==
  ASSUME Context, NEW D \in SUBSET Digest, AddRequest(D)
  PROVE  /\ Recorded(raw') /\ Holds(raw', working', live') /\ Holds(raw', working, live)
         /\ Closed(working) => Closed(working')
<1> DEFINE m == Request(D)
           x == At(m, Len(raw) + 1)
           y == At(System, Len(raw) + 2)
           r == Append(raw, x)
           w == Append(working, x)
           l == live \cup {Len(raw) + 1}
<1>1. /\ Messages(raw) /\ Messages(working) /\ Len(raw) \in Nat /\ Recorded(raw)
      /\ Holds(raw, working, live) /\ raw \in Seq(Msg)
  BY MessageTypes DEF Context, Recorded, Holds, Messages
<1>2. m \in Msg /\ Made(m) /\ m.role # "tool" /\ m.calls = {}
  <2>1. m.role = "user" /\ m \in Msg /\ Made(m) /\ m.calls = {}
    BY MessagesMade
  <2> QED
    BY <2>1
<1>3. System \in Msg /\ Made(System) /\ System.role # "tool" /\ System.calls = {}
  BY MessagesMade
<1> HIDE DEF m
<1>4. x \in Msg /\ y \in Msg
  BY <1>1, <1>2, <1>3, AtMessage
<1>5. Recorded(r) /\ Len(r) = Len(raw) + 1
  BY <1>1, <1>2, Grow
<1>6. Holds(r, w, l) /\ (Closed(working) => Closed(w))
  BY <1>1, <1>2, <1>5, Hear
<1>7. /\ raw' = raw \o <<x>> \o (IF On("situational") THEN <<y>> ELSE <<>>)
      /\ working' = w /\ live' = l
  BY DEF AddRequest, At, m
<1>8. r \in Seq(Msg) /\ r = raw \o <<x>>
  BY <1>1, <1>4
<1>9. raw' = r \/ raw' = Append(r, y)
  <2>1. raw' = r \o <<y>> \/ raw' = r \o <<>>
    BY <1>7, <1>8
  <2>2. r \o <<y>> = Append(r, y) /\ r \o <<>> = r
    <3> HIDE DEF r
    <3> QED
      BY <1>4, <1>8
  <2> QED
    BY <2>1, <2>2
<1>10. Recorded(Append(r, y)) /\ Len(Append(r, y)) = Len(r) + 1
  <2>1. y = At(System, Len(r) + 1)
    <3>1. Len(r) + 1 = Len(raw) + 2
      BY <1>1, <1>5
    <3> QED
      BY <3>1
  <2> HIDE DEF r, y
  <2> QED
    BY <1>3, <1>5, <2>1, Grow
<1> HIDE DEF r, w, l, x, y
<1>11. Recorded(raw') /\ Len(raw') \in Nat /\ Len(r) \in Nat /\ Len(r) <= Len(raw')
  <2>1. CASE raw' = r
    BY <1>1, <1>5, <2>1
  <2>2. CASE raw' = Append(r, y)
    BY <1>1, <1>5, <1>10, <2>2
  <2> QED
    BY <1>9, <2>1, <2>2
<1>12. Holds(raw', w, l)
  BY <1>6, <1>11, HoldsOn
<1>13. Holds(raw', working, live)
  BY <1>1, <1>5, <1>11, HoldsOn
<1> QED
  BY <1>6, <1>7, <1>11, <1>12, <1>13

\* An empty context stands for nothing.
LEMMA NothingHeld ==
  ASSUME NEW r
  PROVE  /\ Holds(r, <<>>, {}) /\ Closed(<<>>) /\ Holds(r, NoMark.working, NoMark.live)
         /\ Closed(NoMark.working)
<1>1. Len(<<>>) = 0 /\ DOMAIN <<>> = {} /\ <<>> \in Seq(Msg) /\ \A i \in 1 .. 0 : FALSE
  OBVIOUS
<1>2. Messages(<<>>) /\ Grouped(<<>>) /\ Ordered(<<>>) /\ Closed(<<>>)
  BY <1>1 DEF Messages, Grouped, Ordered, Closed
<1>3. Covers(<<>>) = {}
  BY <1>1 DEF Covers
<1>4. NoMark.working = <<>> /\ NoMark.live = {}
  BY DEF NoMark
<1> QED
  BY <1>2, <1>3, <1>4 DEF Holds

\* With no call open, only what the process tore is open.
LEMMA NoneOpen ==
  ASSUME Context, Course, todo = {}, ~torn
  PROVE  Closed(working)
<1>1. CASE pc # "calls"
  BY <1>1 DEF Course
<1>2. CASE pc = "calls"
  <2>1. PICK n \in Id : \E k \in 0 .. n :
           /\ todo = k + 1 .. n /\ Deciding(working, n, k)
           /\ \A i \in 1 .. Len(working) - k - 1 : Complete(working, i)
    BY <1>2 DEF Course, Deciders
  <2>2. PICK k \in 0 .. n :
           /\ todo = k + 1 .. n /\ Deciding(working, n, k)
           /\ \A i \in 1 .. Len(working) - k - 1 : Complete(working, i)
    BY <2>1
  <2>3. n \in Nat /\ k \in Nat /\ k <= n
    BY ConversationAssumption DEF Id
  <2>4. k = n
    <3>1. k < n => k + 1 \in k + 1 .. n
      BY <2>3
    <3> QED
      BY <2>2, <2>3, <3>1
  <2>5. Messages(working)
    BY DEF Context, Holds
  <2> QED
    BY <2>2, <2>3, <2>4, <2>5, LastResult
<1> QED
  BY <1>1, <1>2

-----------------------------------------------------------------------------
(* The steps, one after another.                                           *)

\* The inductive invariant of the record and the context.
Sound == Context /\ Course

\* The first state is sound.
LEMMA SoundAtFirst ==
  ASSUME Init
  PROVE  Sound
<1> DEFINE x == [System EXCEPT !.covers = {1}]
<1>1. x \in Msg /\ Made(x) /\ x.role # "tool" /\ x.covers = {1}
  <2>1. System \in Msg /\ Made(System) /\ System.role # "tool"
    BY MessagesMade
  <2>2. x = At(System, 1)
    BY DEF At
  <2>3. 1 \in Nat
    OBVIOUS
  <2> HIDE DEF x
  <2> QED
    BY <2>1, <2>2, <2>3, AtMessage
<1>2. raw = <<x>> /\ Len(raw) = 1 /\ raw[1] = x /\ raw \in Seq(Msg)
  <2>1. raw = <<x>>
    BY DEF Init
  <2> HIDE DEF x
  <2> QED
    BY <1>1, <2>1
<1> HIDE DEF x
<1>3. Recorded(raw)
  <2>1. \A i \in 1 .. 1 : i = 1
    OBVIOUS
  <2> QED
    BY <1>1, <1>2, <2>1 DEF Recorded, Messages, Grouped
<1>4. /\ working = <<>> /\ mark = NoMark /\ live = {} /\ todo = {} /\ torn = FALSE
      /\ pc = "prompt" /\ pending = {}
  BY DEF Init
<1>5. Context
  BY <1>3, <1>4, NothingHeld DEF Context
<1>6. Course
  BY <1>4, NothingHeld DEF Course
<1> QED
  BY <1>5, <1>6 DEF Sound

\* Actions that leave the record, the context and the snapshot alone.
LEMMA SoundAround ==
  ASSUME Sound, raw' = raw, working' = working, live' = live, mark' = mark, torn' = torn,
         pending' \subseteq Digest, pc # "calls", pc' # "calls", todo' = todo,
         pc' \in {"prompt", "off", "soft", "hard", "sent", "calls", "synthesis"}
  PROVE  Sound'
BY DEF Sound, Context, Course

\* A turn that ends, with a message or without.
LEMMA SoundAfter ==
  ASSUME Sound, Recorded(raw'), Holds(raw', working', live'),
         todo = {} /\ Closed(working) => Closed(working'), pc' = "prompt",
         Leave, Closes, pending' \subseteq Digest
  PROVE  Sound'
<1>1. todo' = {} /\ mark' = NoMark /\ torn' = (torn \/ todo # {}) /\ torn \in BOOLEAN
  BY DEF Leave, Closes, Sound, Course
<1>2. torn' \in BOOLEAN
  BY <1>1
<1>3. ~torn' => Closed(working')
  <2> SUFFICES ASSUME ~torn' PROVE Closed(working')
    OBVIOUS
  <2>1. ~torn /\ todo = {}
    BY <1>1
  <2> QED
    BY <2>1, NoneOpen DEF Sound
<1>4. Holds(raw', mark'.working, mark'.live) /\ Closed(mark'.working)
  BY <1>1, NothingHeld
<1>5. Context'
  BY <1>4 DEF Context
<1>6. Course'
  BY <1>1, <1>2, <1>3, <1>4 DEF Course
<1> QED
  BY <1>5, <1>6 DEF Sound

\* A turn that goes on.
LEMMA SoundOn ==
  ASSUME Sound, Recorded(raw'), Holds(raw', working', live'), Holds(raw', mark.working, mark.live),
         todo = {}, Closed(working) => Closed(working'), mark' = mark, todo' = {},
         torn' = torn, pending' = pending,
         pc' \in {"prompt", "soft", "hard", "sent", "synthesis"}
  PROVE  Sound'
<1>1. ~torn => Closed(working')
  BY NoneOpen DEF Sound
<1>2. Context'
  BY DEF Context, Sound
<1>3. Course'
  BY <1>1 DEF Course, Sound
<1> QED
  BY <1>2, <1>3 DEF Sound

\* The next iteration of a turn.
LEMMA ContinueSound ==
  ASSUME Sound, Recorded(raw'), Holds(raw', working', live'), Holds(raw', mark.working, mark.live),
         todo = {}, Closed(working) => Closed(working'), Continue
  PROVE  Sound'
<1>1. /\ pc' \in {"soft", "synthesis"}
      /\ todo' = {} /\ mark' = mark /\ pending' = pending /\ torn' = torn
  BY DEF Continue
<1> QED
  BY <1>1, SoundOn

\* A turn that returns.
LEMMA FinishSound ==
  ASSUME Sound, Recorded(raw'), Holds(raw', working', live'),
         todo = {} /\ Closed(working) => Closed(working'), Finish
  PROVE  Sound'
<1>1. pc' = "prompt" /\ pending' = {} /\ Leave /\ Closes
  BY DEF Finish
<1> QED
  BY <1>1, SoundAfter

\* The passes over the context.
LEMMA PassSound ==
  ASSUME Sound, SoftPass \/ HardPass \/ Send
  PROVE  Sound'
<1>1. /\ raw' = raw /\ mark' = mark /\ todo' = todo /\ torn' = torn /\ pending' = pending
      /\ pc \in {"soft", "hard"} /\ pc' \in {"hard", "sent"}
  BY DEF SoftPass, HardPass, Send, Loaded
<1>2. Holds(raw, working, live) /\ todo = {}
  BY <1>1 DEF Sound, Context, Course
<1>3. \A g \in Gists : g \in Nat
  BY ConversationAssumption
<1>4. Holds(raw, working', live') /\ (Closed(working) => Closed(working'))
  <2>1. CASE UNCHANGED <<working, live>>
    BY <1>2, <2>1
  <2>2. ASSUME NEW g \in Gists, Compacts(g)
        PROVE  Holds(raw, working', live') /\ (Closed(working) => Closed(working'))
    BY <1>2, <1>3, <2>2, CompactsHolds
  <2>3. CASE working # <<>> /\ Trims
    BY <1>2, <2>3, TrimsHolds
  <2>4. \/ UNCHANGED <<working, live>> \/ \E g \in Gists : Compacts(g)
        \/ working # <<>> /\ Trims
    BY DEF SoftPass, HardPass, Send, Loaded
  <2> QED
    BY <2>1, <2>2, <2>3, <2>4
<1> QED
  BY <1>1, <1>2, <1>4, SoundOn DEF Sound, Context

\* A message of the user, and the request for a synthesis.
LEMMA PlainSound ==
  ASSUME Sound, Note \/ Synthesize
  PROVE  Sound'
<1>1. /\ Add(<<User>>) /\ mark' = mark /\ todo' = todo /\ torn' = torn /\ pending' = pending
      /\ pc \in {"prompt", "synthesis"} /\ pc' \in {"prompt", "soft"}
  BY DEF Note, Synthesize
<1>2. Context /\ todo = {}
  BY <1>1 DEF Sound, Course
<1>3. User \in Msg /\ Made(User) /\ User.role # "tool" /\ User.calls = {}
  BY MessagesMade
<1>4. /\ Recorded(raw') /\ Holds(raw', working', live') /\ Holds(raw', mark.working, mark.live)
      /\ Closed(working) => Closed(working')
  BY <1>1, <1>2, <1>3, AddOneHolds
<1> QED
  BY <1>1, <1>2, <1>4, SoundOn

\* The request of a turn, and its snapshot.
LEMMA StartSound ==
  ASSUME Sound, StartTurn
  PROVE  Sound'
<1>1. /\ AddRequest(pending) /\ pc = "prompt" /\ pc' = "soft" /\ todo' = todo /\ torn' = torn
      /\ pending' = pending
      /\ mark' = [working |-> working, live |-> live, at |-> Len(raw)]
  BY DEF StartTurn
<1>2. Context /\ todo = {} /\ pending \in SUBSET Digest /\ torn \in BOOLEAN
  BY <1>1 DEF Sound, Course
<1>3. /\ Recorded(raw') /\ Holds(raw', working', live') /\ Holds(raw', working, live)
      /\ Closed(working) => Closed(working')
  BY <1>1, <1>2, RequestHolds
<1>4. mark'.working = working /\ mark'.live = live
  BY <1>1
<1>5. ~torn => Closed(working)
  BY <1>1 DEF Sound, Course
<1>6. Context'
  BY <1>3, <1>4 DEF Context
<1>7. Course'
  BY <1>1, <1>2, <1>3, <1>4, <1>5 DEF Course
<1> QED
  BY <1>6, <1>7 DEF Sound

\* An answer, and a reply that is asked again.
LEMMA AnswerSound ==
  ASSUME Sound, Answer \/ Reask
  PROVE  Sound'
<1>1. pc = "sent" /\ Context /\ todo = {}
  BY DEF Answer, Reask, Asked, Sound, Course
<1>2. \A m \in {Reply, User} : m \in Msg /\ Made(m) /\ m.role # "tool" /\ m.calls = {}
  BY MessagesMade
<1>3. CASE Answer
  <2>1. Add(<<Reply>>) /\ Finish
    BY <1>3 DEF Answer
  <2>2. Recorded(raw') /\ Holds(raw', working', live') /\ (Closed(working) => Closed(working'))
    BY <1>1, <1>2, <2>1, AddOneHolds
  <2> QED
    BY <2>1, <2>2, FinishSound
<1>4. CASE Reask
  <2>1. Add(<<Reply, User>>) /\ Continue
    BY <1>4 DEF Reask
  <2>2. /\ Recorded(raw') /\ Holds(raw', working', live') /\ Holds(raw', mark.working, mark.live)
        /\ Closed(working) => Closed(working')
    BY <1>1, <1>2, <2>1, AddTwoHolds
  <2> QED
    BY <1>1, <2>1, <2>2, ContinueSound
<1> QED
  BY <1>3, <1>4

\* A decision opens its calls.
LEMMA ActSound ==
  ASSUME Sound, Act
  PROVE  Sound'
<1>1. PICK n \in Id, print \in {FALSE, On("drop_noise")} :
         Add(<<Acts(1 .. n, print)>>) /\ todo' = 1 .. n
  BY DEF Act
<1> DEFINE m == Acts(1 .. n, print)
<1>2. m \in Msg /\ Made(m) /\ m.role = "assistant" /\ m.calls = 1 .. n
  BY MessagesMade
<1> HIDE DEF m
<1>3. /\ pc = "sent" /\ pc' = "calls" /\ mark' = mark /\ pending' = pending /\ torn' = torn
      /\ Context /\ torn \in BOOLEAN /\ pending \subseteq Digest
      /\ ~torn => Closed(working) /\ Closed(mark.working)
  BY DEF Act, Asked, Sound, Course
<1>4. Add(<<m>>) /\ m.role # "tool"
  BY <1>1, <1>2 DEF m
<1>5. /\ Recorded(raw') /\ Holds(raw', working', live') /\ Holds(raw', mark.working, mark.live)
      /\ Deciding(raw', n, 0) /\ Deciding(working', n, 0)
      /\ Closed(working) => \A i \in 1 .. Len(working) : Complete(working', i)
      /\ Len(working') = Len(working) + 1
  <2>1. /\ Recorded(raw') /\ Holds(raw', working', live') /\ Holds(raw', mark.working, mark.live)
        /\ Len(working') = Len(working) + 1
    BY <1>2, <1>3, <1>4, AddOneHolds
  <2>2. \A h \in Id : m.calls = 1 .. h => Deciding(raw', h, 0) /\ Deciding(working', h, 0)
    BY <1>2, <1>3, <1>4, AddOneHolds
  <2>3. Closed(working) => \A i \in 1 .. Len(working) : Complete(working', i)
    BY <1>2, <1>3, <1>4, AddOneHolds
  <2> QED
    BY <1>2, <2>1, <2>2, <2>3
<1>6. n \in Nat /\ 0 \in 0 .. n /\ todo' = 0 + 1 .. n /\ Len(working) \in Nat
  <2>1. Messages(working)
    BY <1>3 DEF Context, Holds
  <2> QED
    BY <1>1, <2>1, MessageTypes, ConversationAssumption DEF Id
<1>7. Len(working') - 0 - 1 = Len(working)
  BY <1>5, <1>6
<1>8. Deciders'
  <2>1. ~torn' => \A i \in 1 .. Len(working') - 0 - 1 : Complete(working', i)
    BY <1>3, <1>5, <1>7
  <2> QED
    BY <1>5, <1>6, <2>1 DEF Deciders
<1>9. Context'
  BY <1>3, <1>5 DEF Context
<1>10. Course'
  BY <1>3, <1>8 DEF Course
<1> QED
  BY <1>9, <1>10 DEF Sound

\* The next call gets its result.
LEMMA AnsweredSound ==
  ASSUME Sound, Answered
  PROVE  Sound'
<1>1. /\ pc = "calls" /\ pc' = "calls" /\ mark' = mark /\ pending' = pending /\ torn' = torn
      /\ Context /\ torn \in BOOLEAN /\ pending \subseteq Digest
      /\ ~torn => Closed(mark.working)
  BY DEF Answered, Sound, Course
<1>2. PICK n \in Id : \E k \in 0 .. n :
        /\ todo = k + 1 .. n
        /\ Deciding(raw, n, k) /\ Deciding(working, n, k)
        /\ ~torn => \A i \in 1 .. Len(working) - k - 1 : Complete(working, i)
  BY <1>1 DEF Sound, Course, Deciders
<1>3. PICK k \in 0 .. n :
        /\ todo = k + 1 .. n
        /\ Deciding(raw, n, k) /\ Deciding(working, n, k)
        /\ ~torn => \A i \in 1 .. Len(working) - k - 1 : Complete(working, i)
  BY <1>2
<1>4. PICK c \in todo : (\A j \in todo : c <= j) /\ Add(<<Result(c)>>) /\ todo' = todo \ {c}
  BY DEF Answered
<1>5. n \in Nat /\ k \in Nat /\ n <= MaxCalls /\ MaxCalls \in Nat
  BY ConversationAssumption DEF Id
<1>6. c = k + 1 /\ k < n /\ k + 1 \in Id
  <2>1. c \in k + 1 .. n
    BY <1>3, <1>4
  <2>2. k + 1 \in todo
    BY <1>3, <1>5, <2>1
  <2> QED
    BY <1>4, <1>5, <2>1, <2>2 DEF Id
<1> DEFINE m == Result(k + 1)
           x == At(m, Len(raw) + 1)
<1>7. /\ Messages(raw) /\ Messages(working) /\ Len(working) \in Nat /\ Len(raw) \in Nat
      /\ Recorded(raw) /\ Holds(raw, working, live)
  BY <1>1, MessageTypes DEF Context, Recorded, Holds
<1>8. m \in Msg /\ Made(m)
  BY <1>6, MessagesMade
<1>9. raw' = Append(raw, x) /\ working' = Append(working, x) /\ live' = live \cup {Len(raw) + 1}
  BY <1>4, <1>6, <1>7, <1>8, AddOne
<1>10. /\ Recorded(raw') /\ Len(raw') = Len(raw) + 1 /\ Deciding(raw', n, k + 1)
       /\ Holds(raw', working', live') /\ Deciding(working', n, k + 1)
       /\ Len(working') = Len(working) + 1
  <2>1. Deciding(raw, n, k) /\ Deciding(working, n, k)
    BY <1>3
  <2>2. /\ Recorded(Append(raw, x)) /\ Len(Append(raw, x)) = Len(raw) + 1
        /\ Deciding(Append(raw, x), n, k + 1)
    BY <2>1, <1>5, <1>6, <1>7, GrowResult
  <2>3. /\ Holds(Append(raw, x), Append(working, x), live \cup {Len(raw) + 1})
        /\ Len(Append(working, x)) = Len(working) + 1
    BY <2>1, <1>5, <1>6, <1>7, GrowResult
  <2>4. Deciding(Append(working, x), n, k + 1)
    BY <2>1, <1>5, <1>6, <1>7, GrowResult
  <2> HIDE DEF x
  <2> QED
    BY <2>2, <2>3, <2>4, <1>9
<1>11. \A i \in 1 .. Len(working) : Complete(working, i) => Complete(working', i)
  BY <1>3, <1>5, <1>6, <1>7, <1>9, GrowResult
<1> HIDE DEF m, x
<1>12. Holds(raw', mark.working, mark.live)
  <2>1. Len(raw') \in Nat /\ Len(raw) <= Len(raw')
    BY <1>7, <1>10
  <2> QED
    BY <1>1, <1>7, <2>1, HoldsOn DEF Context
<1>13. todo' = (k + 1) + 1 .. n
  <2>1. (k + 1 .. n) \ {k + 1} = (k + 1) + 1 .. n
    BY <1>5
  <2>2. todo' = (k + 1 .. n) \ {k + 1}
    BY <1>3, <1>4, <1>6
  <2> QED
    BY <2>1, <2>2
<1>14. Deciders'
  <2>1. ASSUME ~torn, NEW i \in 1 .. Len(working') - (k + 1) - 1 PROVE Complete(working', i)
    <3>1. i \in 1 .. Len(working) /\ i \in 1 .. Len(working) - k - 1
      BY <1>5, <1>7, <1>10
    <3> QED
      BY <1>3, <1>11, <2>1, <3>1
  <2>2. k + 1 \in 0 .. n
    BY <1>5, <1>6
  <2> QED
    BY <1>1, <1>10, <1>13, <2>1, <2>2 DEF Deciders
<1>15. Context'
  BY <1>1, <1>10, <1>12 DEF Context
<1>16. Course'
  BY <1>1, <1>14 DEF Course
<1> QED
  BY <1>15, <1>16 DEF Sound

\* The breaker, the guards over a step and the synthesis.
LEMMA GuardSound ==
  ASSUME Sound, BreakOff \/ Guard \/ Synthesized
  PROVE  Sound'
<1>1. Context
  BY DEF Sound
<1>2. Recorded(raw) /\ Holds(raw, working, live) /\ Holds(raw, mark.working, mark.live)
  BY <1>1 DEF Context
<1>3. \A m \in {Reply, Stop} : m \in Msg /\ Made(m) /\ m.role # "tool" /\ m.calls = {}
  BY MessagesMade
<1>4. ASSUME UNCHANGED <<raw, working, live>>
      PROVE  /\ Recorded(raw') /\ Holds(raw', working', live')
             /\ Holds(raw', mark.working, mark.live)
             /\ Closed(working) => Closed(working')
  BY <1>2, <1>4
<1>5. ASSUME NEW m \in {Reply, Stop}, Add(<<m>>)
      PROVE  /\ Recorded(raw') /\ Holds(raw', working', live')
             /\ Holds(raw', mark.working, mark.live)
             /\ Closed(working) => Closed(working')
  BY <1>1, <1>3, <1>5, AddOneHolds
<1>6. \/ Finish /\ (UNCHANGED <<raw, working, live>> \/ Add(<<Reply>>))
      \/ Continue /\ todo = {} /\ (UNCHANGED <<raw, working, live>> \/ Add(<<Stop>>))
  BY DEF BreakOff, Guard, Synthesized
<1>7. CASE Finish /\ (UNCHANGED <<raw, working, live>> \/ Add(<<Reply>>))
  BY <1>4, <1>5, <1>7, FinishSound
<1>8. CASE Continue /\ todo = {} /\ (UNCHANGED <<raw, working, live>> \/ Add(<<Stop>>))
  BY <1>4, <1>5, <1>8, ContinueSound
<1> QED
  BY <1>6, <1>7, <1>8

\* Turns that do not return, and processes that end.
LEMMA EndSound ==
  ASSUME Sound, Raise \/ Interrupt \/ Stopped
  PROVE  Sound'
<1>1. /\ Recorded(raw) /\ Holds(raw, working, live) /\ Holds(raw, mark.working, mark.live)
      /\ torn \in BOOLEAN /\ pending \subseteq Digest /\ (~torn => Closed(mark.working))
  BY DEF Sound, Context, Course
<1>2. CASE Raise
  <2>1. /\ pc' = "prompt" /\ raw' = raw /\ working' = mark.working /\ live' = mark.live
        /\ mark' = NoMark /\ todo' = {} /\ torn' = torn /\ pending' = pending
    BY <1>2 DEF Raise, Rollback, Leave
  <2>2. Context'
    BY <1>1, <2>1, NothingHeld DEF Context
  <2>3. Course'
    BY <1>1, <2>1, NothingHeld DEF Course
  <2> QED
    BY <2>2, <2>3 DEF Sound
<1>3. CASE Interrupt
  <2>1. /\ pc' = "prompt" /\ raw' = raw /\ working' = working /\ live' = live
        /\ Leave /\ Closes /\ pending' = pending
    BY <1>3 DEF Interrupt
  <2> QED
    BY <1>1, <2>1, SoundAfter
<1>4. CASE Stopped
  <2>1. /\ pc' = "off" /\ raw' = raw /\ working' = <<>> /\ live' = {}
        /\ mark' = NoMark /\ todo' = {} /\ torn' = FALSE /\ pending' = {}
    BY <1>4 DEF Stopped, Leave
  <2>2. Context'
    BY <1>1, <2>1, NothingHeld DEF Context
  <2>3. Course'
    BY <2>1, NothingHeld DEF Course
  <2> QED
    BY <2>2, <2>3 DEF Sound
<1> QED
  BY <1>2, <1>3, <1>4

\* A resumed session.
LEMMA ResumeSoundly ==
  ASSUME Sound, Resume
  PROVE  Sound'
<1> DEFINE turns == Among(raw, {p \in DOMAIN raw : raw[p].role # "system"})
<1>1. /\ pc = "off" /\ pc' = "prompt" /\ raw' = raw /\ mark' = mark /\ todo' = todo
      /\ pending' = pending /\ torn' = torn
      /\ working' = DropNoise(Sanitize(turns)) /\ live' = Restorable(turns)
  BY DEF Resume
<1>2. Recorded(raw) /\ Holds(raw, mark.working, mark.live) /\ todo = {}
  BY <1>1 DEF Sound, Context, Course
<1>3. Holds(raw, working', live') /\ Closed(working')
  BY <1>1, <1>2, ResumeHolds
<1> QED
  BY <1>1, <1>2, <1>3, SoundOn

\* A result that is pulled.
LEMMA PullSound ==
  ASSUME Sound, Pull
  PROVE  Sound'
<1>1. PICK d \in Digest : pending' = pending \cup {d}
  BY DEF Pull
<1>2. /\ pc = "prompt" /\ pc' = pc /\ raw' = raw /\ working' = working /\ live' = live
      /\ mark' = mark /\ todo' = todo /\ torn' = torn
  BY DEF Pull
<1>3. pending' \subseteq Digest
  BY <1>1 DEF Sound, Course
<1> QED
  BY <1>2, <1>3, SoundAround

\* Every step keeps the record, the context and the snapshot sound.
LEMMA SoundKept ==
  ASSUME Sound, [Next]_vars
  PROVE  Sound'
<1>1. CASE UNCHANGED vars
  BY <1>1 DEF vars, Sound, Context, Course, Deciders
<1>2. CASE Next
  BY <1>2, PullSound, PlainSound, StartSound, PassSound, AnswerSound, ActSound, AnsweredSound,
     GuardSound, EndSound, ResumeSoundly DEF Next, Turn
<1> QED
  BY <1>1, <1>2

\* Whatever is sent is paired, unless this process cut a decision off
\* (SentPaired).
THEOREM SentIsPaired == Spec => []SentPaired
<1>1. Sound => SentPaired
  BY ClosedPairs DEF Sound, Context, Course, Holds, SentPaired
<1> QED
  BY <1>1, SoundAtFirst, SoundKept, PTL DEF Spec

\* The context stands for what it should, once and in order (Accounted).
THEOREM LiveIsAccounted == Spec => []Accounted
<1>1. Sound => Accounted
  <2> SUFFICES ASSUME Sound PROVE Accounted
    OBVIOUS
  <2>1. Messages(working) /\ Ordered(working) /\ Covers(working) = live
    BY DEF Sound, Context, Holds
  <2> QED
    BY <2>1, MessageTypes DEF Accounted, Ordered
<1> QED
  BY <1>1, SoundAtFirst, SoundKept, PTL DEF Spec

\* A summary that is applied makes the context smaller ...
LEMMA CompactShrinks ==
  ASSUME Holds(raw, working, live), NEW g \in Nat, Compacts(g)
  PROVE  Size \in Nat /\ Size' \in Nat /\ Size' < Size
<1> DEFINE w == working
           c == SafeCut(w)
           m == [User EXCEPT !.weight = g, !.covers = Covers(Old(w))]
<1>1. Messages(w) /\ Messages(working')
  BY CompactsHolds DEF Holds
<1>2. c > 0 /\ g < Weight(Old(w)) /\ working' = <<m>> \o Cut(w, c)
  BY DEF Compacts, Compacted, Cut
<1>3. c \in 0 .. Len(w) /\ Len(w) \in Nat
  BY <1>1, SafeCutSpec, MessageTypes
<1>4. /\ Messages(Cut(w, c)) /\ Len(Cut(w, c)) = Len(w) - c
      /\ Weight(w) = Weight(Old(w)) + Weight(Cut(w, c))
      /\ Weight(Old(w)) \in Nat /\ Weight(Cut(w, c)) \in Nat
  BY <1>1, <1>3, CutShape, CutWeight, WeightType DEF Old
<1>5. m \in Msg /\ m.weight = g
  <2>1. Covers(Old(w)) \subseteq Nat
    <3>1. Messages(Old(w))
      BY <1>1, <1>3, CutWeight DEF Old
    <3>2. /\ DOMAIN Old(w) = 1 .. Len(Old(w))
          /\ \A i \in 1 .. Len(Old(w)) : Old(w)[i].covers \subseteq Nat
      BY <3>1, MessageTypes
    <3> QED
      BY <3>2 DEF Covers
  <2>2. m \in Msg
    BY <2>1, SummaryMessage
  <2>3. User.weight = 1 /\ DOMAIN User = {"role", "calls", "id", "noise", "folds", "weight", "covers"}
    BY DEF User, Plain
  <2> QED
    BY <2>2, <2>3
<1> HIDE DEF m, c, w
<1>6. /\ Weight(working') = g + Weight(Cut(w, c))
      /\ Len(working') = Len(Cut(w, c)) + 1
  BY <1>1, <1>2, <1>4, <1>5, PrependWeight
<1>7. Size = Weight(w) + Len(w) /\ Size' = Weight(working') + Len(working')
  BY DEF Size, Weight, w
<1> QED
  BY <1>2, <1>3, <1>4, <1>6, <1>7

\* ... and so does a trim.
LEMMA TrimShrinks ==
  ASSUME Holds(raw, working, live), working # <<>>, Trims
  PROVE  Size \in Nat /\ Size' \in Nat /\ Size' < Size
<1> DEFINE w == working
<1>1. Messages(w) /\ Grouped(w)
  BY DEF Holds
<1>2. Len(w) \in Nat /\ 1 \in 1 .. Len(w)
  BY <1>1, MessageTypes DEF Messages
<1>3. PICK e \in 1 .. Len(w) : /\ Cardinality(Results(w, 1)) = e - 1
                               /\ e = Len(w) \/ w[e + 1].role # "tool"
  BY <1>1, <1>2, ResultsSpan
<1>4. e \in 0 .. Len(w) /\ working' = Cut(w, e)
  BY <1>2, <1>3 DEF Trims, Cut
<1>5. /\ Messages(Cut(w, e)) /\ Len(Cut(w, e)) = Len(w) - e
      /\ Messages(SubSeq(w, 1, e))
      /\ Weight(w) = Weight(SubSeq(w, 1, e)) + Weight(Cut(w, e))
  BY <1>1, <1>4, CutShape, CutWeight
<1>6. Weight(SubSeq(w, 1, e)) \in Nat /\ Weight(Cut(w, e)) \in Nat
  BY <1>5, WeightType
<1>7. Size = Weight(w) + Len(w) /\ Size' = Weight(working') + Len(working')
  BY DEF Size, Weight
<1> HIDE DEF w
<1> QED
  BY <1>2, <1>3, <1>4, <1>5, <1>6, <1>7

\* Where the loop over the hard cap is: each round has taken something off the
\* context, and a request leaves it within the window or after the last one.
Shrinking ==
  /\ rounds \in 0 .. MaxRounds /\ opening \in Nat
  /\ pc \in {"hard", "sent"} => Size + rounds <= opening
  /\ pc = "sent" /\ working # <<>> /\ Heavy(HardCap) => rounds = MaxRounds

\* Every step of the loop, and around it, keeps to that.
LEMMA ShrinkingKept ==
  ASSUME Sound, Shrinking, [Next]_vars
  PROVE  Shrinking'
<1>1. MaxRounds \in Nat /\ MaxRounds # 0 /\ Base \in Nat /\ HardCap \in Nat
      /\ \A g \in Gists : g \in Nat
  BY ConversationAssumption
<1>2. Holds(raw, working, live) /\ Messages(working)
  BY DEF Sound, Context, Holds
<1>3. Size \in Nat
  BY <1>2, WeightType, MessageTypes DEF Size
<1>4. CASE UNCHANGED vars
  <2>1. Size' = Size /\ Heavy(HardCap)' = Heavy(HardCap)
    BY <1>4 DEF vars, Size, Heavy, Weight
  <2> QED
    BY <1>4, <2>1 DEF vars, Shrinking
<1>5. CASE SoftPass
  <2>1. pc' = "hard" /\ rounds' = 0 /\ opening' = Size'
    BY <1>5 DEF SoftPass
  <2>2. Messages(working')
    BY <1>5, PassSound DEF Sound, Context, Holds
  <2>3. Weight(working') \in Nat /\ Len(working') \in Nat
    BY <2>2, WeightType, MessageTypes
  <2>4. Size' = Weight(working') + Len(working')
    BY DEF Size, Weight
  <2> QED
    BY <1>1, <2>1, <2>3, <2>4 DEF Shrinking
<1>6. CASE HardPass
  <2>1. /\ pc = "hard" /\ pc' = "hard" /\ working # <<>> /\ rounds < MaxRounds
        /\ rounds' = rounds + 1 /\ opening' = opening
    BY <1>6 DEF HardPass, Loaded
  <2>2. Size' \in Nat /\ Size' < Size
    <3>1. ASSUME NEW g \in Gists, Compacts(g) PROVE Size' \in Nat /\ Size' < Size
      BY <1>1, <1>2, <3>1, CompactShrinks
    <3>2. CASE Trims
      BY <1>2, <2>1, <3>2, TrimShrinks
    <3>3. Trims \/ \E g \in Gists : Compacts(g)
      BY <1>6 DEF HardPass
    <3> QED
      BY <3>1, <3>2, <3>3
  <2>3. Size + rounds <= opening /\ rounds \in Nat /\ opening \in Nat
    BY <1>1, <2>1 DEF Shrinking
  <2>4. rounds' \in 0 .. MaxRounds /\ opening' \in Nat /\ Size' + rounds' <= opening'
    <3> DEFINE x == Size
               y == Size'
    <3>1. x \in Nat /\ y \in Nat /\ y < x /\ x + rounds <= opening
      BY <1>3, <2>2, <2>3
    <3> HIDE DEF x, y
    <3>2. y + rounds' <= opening'
      BY <2>1, <2>3, <3>1
    <3> QED
      BY <1>1, <2>1, <2>3, <3>2 DEF y
  <2> QED
    BY <2>1, <2>4 DEF Shrinking
<1>7. CASE Send
  <2>1. /\ pc = "hard" /\ pc' = "sent" /\ working' = working
        /\ rounds' = rounds /\ opening' = opening
        /\ working # <<>> /\ Heavy(HardCap) => rounds = MaxRounds
    BY <1>7 DEF Send, Loaded
  <2>2. Size' = Size /\ Heavy(HardCap)' = Heavy(HardCap)
    BY <2>1 DEF Size, Heavy, Weight
  <2> QED
    BY <2>1, <2>2 DEF Shrinking
<1>8. CASE Next /\ ~SoftPass /\ ~HardPass /\ ~Send
  <2>1. pc' \notin {"hard", "sent"}
    BY <1>8 DEF Next, Turn, Pull, Note, StartTurn, Answer, Reask, Act,
       Answered, BreakOff, Guard, Synthesize, Synthesized, Raise, Interrupt, Stopped, Resume,
       Finish, Continue
  <2>2. Forget
    BY <1>8 DEF Next, Turn
  <2> QED
    BY <1>1, <2>1, <2>2 DEF Shrinking, Forget
<1> QED
  BY <1>4, <1>5, <1>6, <1>7, <1>8

\* What is sent fits the model's window, or every round there is was spent on
\* making it smaller (SentFits).
THEOREM SentIsBounded == Spec => []SentFits
<1>1. Init => Shrinking
  BY ConversationAssumption DEF Init, Shrinking
<1>2. Sound /\ Shrinking => SentFits
  <2> SUFFICES ASSUME Sound, Shrinking, pc = "sent", Base <= HardCap, Heavy(HardCap)
               PROVE  Size + MaxRounds <= opening
    BY DEF SentFits
  <2>1. Messages(working) /\ Base \in Nat /\ HardCap \in Nat
    BY ConversationAssumption DEF Sound, Context, Holds
  <2>2. working # <<>>
    BY <2>1, WeightType DEF Heavy
  <2> QED
    BY <2>2 DEF Shrinking
<1> QED
  BY <1>1, <1>2, SoundAtFirst, SoundKept, ShrinkingKept, PTL DEF Spec

-----------------------------------------------------------------------------
(* Results pulled at the prompt.                                           *)

\* The requests that hand d over, but for those of the turns in f.
Given(r, f, d) == {p \in 1 .. Len(r) : p \notin f /\ d \in r[p].folds}

InTurn == pc \notin {"prompt", "off"}

\* Between turns a result is pending and in no request that counts, or in one;
\* in a turn, what is pending is in its request.
Delivered ==
  /\ pending \subseteq pulled /\ failed \subseteq 1 .. Len(raw)
  /\ ~InTurn => \A d \in pulled :
       IF d \in pending THEN Given(raw, failed, d) = {}
       ELSE \E p \in 1 .. Len(raw) : Given(raw, failed, d) = {p}
  /\ InTurn =>
       /\ mark.at \in Nat /\ mark.at + 1 <= Len(raw)
       /\ \A d \in pulled :
            IF d \in pending THEN Given(raw, failed, d) = {mark.at + 1}
            ELSE \E p \in 1 .. mark.at : Given(raw, failed, d) = {p}

\* s is r and one message more, and the turns in f are on the record r.
Follows(s, r, m, f) == Messages(r) /\ m \in Msg /\ s = Append(r, m) /\ f \subseteq 1 .. Len(r)

\* What one more message hands over.
LEMMA GivenAppend ==
  ASSUME NEW r, NEW m, NEW s, NEW f, Follows(s, r, m, f), NEW d
  PROVE  Given(s, f, d) = Given(r, f, d) \cup (IF d \in m.folds THEN {Len(r) + 1} ELSE {})
<1>1. /\ Len(s) = Len(r) + 1 /\ s[Len(r) + 1] = m
      /\ \A i \in 1 .. Len(r) : s[i] = r[i]
      /\ 1 .. Len(r) + 1 = 1 .. Len(r) \cup {Len(r) + 1} /\ Len(r) \in Nat
  BY Appended, MessageTypes DEF Follows
<1>2. Len(r) + 1 \notin f /\ Len(r) + 1 \notin 1 .. Len(r)
  BY <1>1 DEF Follows
<1> QED
  BY <1>1, <1>2 DEF Given

\* A message that folds nothing in hands nothing over.
LEMMA QuietAppend ==
  ASSUME NEW r, NEW m, m.folds = {}, NEW s, NEW f, Follows(s, r, m, f)
  PROVE  Len(s) = Len(r) + 1 /\ \A d : Given(s, f, d) = Given(r, f, d)
<1>1. Len(s) = Len(r) + 1
  BY Appended DEF Follows
<1>2. ASSUME NEW d PROVE Given(s, f, d) = Given(r, f, d)
  <2>1. Given(s, f, d) = Given(r, f, d) \cup (IF d \in m.folds THEN {Len(r) + 1} ELSE {})
    BY GivenAppend
  <2> QED
    BY <2>1
<1> QED
  BY <1>1, <1>2

\* Nothing is handed over but by a request.
LEMMA QuietStep ==
  ASSUME Sound, failed \subseteq 1 .. Len(raw), Turn \/ Note
  PROVE  /\ Len(raw) \in Nat /\ Len(raw') \in Nat /\ Len(raw) <= Len(raw')
         /\ \A d : Given(raw', failed, d) = Given(raw, failed, d)
<1>1. Messages(raw) /\ Messages(working) /\ Len(raw) \in Nat /\ Recorded(raw) /\ Len(raw) + 1 \in Nat
  BY MessageTypes DEF Sound, Context, Recorded, Holds
<1>2. \/ raw' = raw
      \/ Add(<<Reply, User>>)
      \/ \E m \in {Reply, Stop, User} : Add(<<m>>)
      \/ \E n \in Id, print \in {FALSE, On("drop_noise")} : Add(<<Acts(1 .. n, print)>>)
      \/ \E c \in todo : Add(<<Result(c)>>)
  BY DEF Turn, Note, SoftPass, HardPass, Send, Answer, Reask, Act, Answered, BreakOff, Guard,
     Synthesize, Synthesized
<1>3. \A m \in {Reply, Stop, User} : m \in Msg /\ Made(m) /\ m.folds = {} /\ m.role # "tool"
  BY MessagesMade
<1>4. ASSUME NEW m \in Msg, Made(m), m.folds = {}, Add(<<m>>)
      PROVE  /\ Len(raw') = Len(raw) + 1
             /\ \A d : Given(raw', failed, d) = Given(raw, failed, d)
  <2> DEFINE x == At(m, Len(raw) + 1)
  <2>1. raw' = Append(raw, x)
    BY <1>1, <1>4, AddOne
  <2>2. x \in Msg /\ x.folds = {}
    BY <1>1, <1>4, AtMessage
  <2> HIDE DEF x
  <2>3. Follows(raw', raw, x, failed)
    BY <1>1, <2>1, <2>2 DEF Follows
  <2> QED
    BY <2>2, <2>3, QuietAppend
<1>5. CASE raw' = raw
  BY <1>1, <1>5
<1>6. CASE Add(<<Reply, User>>)
  <2> DEFINE x == At(Reply, Len(raw) + 1)
             y == At(User, Len(raw) + 2)
  <2>1. raw' = Append(Append(raw, x), y)
    BY <1>1, <1>3, <1>6, AddTwo
  <2>2. x \in Msg /\ x.folds = {} /\ Made(x)
    BY <1>1, <1>3, AtMessage
  <2>3. y \in Msg /\ y.folds = {}
    <3>1. Len(raw) + 2 \in Nat
      BY <1>1
    <3> QED
      BY <1>3, <3>1, AtMessage
  <2> HIDE DEF x, y
  <2> DEFINE r == Append(raw, x)
  <2>4. Messages(r)
    BY <1>1, <2>2, AppendMessage
  <2>5. Follows(r, raw, x, failed)
    BY <1>1, <2>2 DEF Follows
  <2>6. raw' = Append(r, y)
    BY <2>1
  <2> HIDE DEF r
  <2>7. Len(r) = Len(raw) + 1 /\ \A d : Given(r, failed, d) = Given(raw, failed, d)
    BY <2>2, <2>5, QuietAppend
  <2>8. failed \subseteq 1 .. Len(r)
    <3>1. 1 .. Len(raw) \subseteq 1 .. Len(raw) + 1
      BY <1>1
    <3> QED
      BY <2>7, <3>1
  <2>9. Follows(raw', r, y, failed)
    BY <2>3, <2>4, <2>8, <2>6 DEF Follows
  <2>10. Len(raw') = Len(r) + 1 /\ \A d : Given(raw', failed, d) = Given(r, failed, d)
    BY <2>3, <2>9, QuietAppend
  <2> QED
    BY <1>1, <2>7, <2>10
<1>7. CASE \E m \in {Reply, Stop, User} : Add(<<m>>)
  BY <1>1, <1>3, <1>4, <1>7
<1>8. CASE \E n \in Id, print \in {FALSE, On("drop_noise")} : Add(<<Acts(1 .. n, print)>>)
  <2>1. PICK n \in Id, print \in {FALSE, On("drop_noise")} : Add(<<Acts(1 .. n, print)>>)
    BY <1>8
  <2>2. LET m == Acts(1 .. n, print) IN m \in Msg /\ Made(m) /\ m.folds = {}
    BY MessagesMade
  <2> QED
    BY <1>1, <1>4, <2>1, <2>2
<1>9. CASE \E c \in todo : Add(<<Result(c)>>)
  <2>1. PICK c \in todo : Add(<<Result(c)>>)
    BY <1>9
  <2>2. c \in Id
    <3>1. PICK n \in Id : \E k \in 0 .. n : todo = k + 1 .. n
      BY <2>1 DEF Sound, Course, Deciders
    <3>2. PICK k \in 0 .. n : todo = k + 1 .. n
      BY <3>1
    <3> QED
      BY <2>1, <3>2, ConversationAssumption DEF Id
  <2>3. LET m == Result(c) IN m \in Msg /\ Made(m) /\ m.folds = {}
    BY <2>2, MessagesMade
  <2> QED
    BY <1>1, <1>4, <2>1, <2>3
<1> QED
  BY <1>2, <1>5, <1>6, <1>7, <1>8, <1>9

\* Nothing is pulled at first.
LEMMA DeliveredAtFirst ==
  ASSUME Init
  PROVE  Delivered
BY DEF Init, Delivered, InTurn

\* The steps of a turn: what it hands over counts when it returns.
LEMMA DeliveredByTurn ==
  ASSUME Sound, Delivered, Turn
  PROVE  Delivered'
<1>1. /\ failed \subseteq 1 .. Len(raw)
      /\ failed' = failed /\ pulled' = pulled /\ InTurn
      /\ \/ pc' = "prompt" /\ pending' = {}
         \/ pc' \notin {"prompt", "off"} /\ pending' = pending /\ mark' = mark
  <2>1. pc \notin {"prompt", "off"}
    BY DEF Turn, SoftPass, HardPass, Send, Loaded, Answer, Reask, Asked, Act, Answered, BreakOff,
       Guard, Synthesize, Synthesized
  <2>2. /\ failed' = failed /\ pulled' = pulled
        /\ \/ pc' = "prompt" /\ pending' = {}
           \/ pc' \notin {"prompt", "off"} /\ pending' = pending /\ mark' = mark
    BY <2>1 DEF Turn, SoftPass, HardPass, Send, Answer, Reask, Act, Answered, BreakOff,
       Guard, Synthesize, Synthesized, Finish, Continue
  <2> QED
    BY <2>1, <2>2 DEF Delivered, InTurn
<1>2. /\ Len(raw) \in Nat /\ Len(raw') \in Nat /\ Len(raw) <= Len(raw')
      /\ \A d : Given(raw', failed, d) = Given(raw, failed, d)
  BY <1>1, QuietStep
<1>3. /\ pending \subseteq pulled /\ mark.at \in Nat /\ mark.at + 1 <= Len(raw)
      /\ \A d \in pulled :
            IF d \in pending THEN Given(raw, failed, d) = {mark.at + 1}
            ELSE \E p \in 1 .. mark.at : Given(raw, failed, d) = {p}
  BY <1>1 DEF Delivered
<1>4. failed' \subseteq 1 .. Len(raw')
  <2>1. 1 .. Len(raw) \subseteq 1 .. Len(raw')
    BY <1>2
  <2> QED
    BY <1>1, <2>1
<1>5. CASE pc' = "prompt" /\ pending' = {}
  <2>1. \A p \in 1 .. mark.at : p \in 1 .. Len(raw')
    BY <1>2, <1>3
  <2>2. mark.at + 1 \in 1 .. Len(raw')
    BY <1>2, <1>3
  <2>3. \A d \in pulled : \E p \in 1 .. Len(raw') : Given(raw', failed, d) = {p}
    BY <1>2, <1>3, <2>1, <2>2
  <2> QED
    BY <1>1, <1>4, <1>5, <2>3 DEF Delivered, InTurn
<1>6. CASE pc' \notin {"prompt", "off"} /\ pending' = pending /\ mark' = mark
  <2>1. mark.at + 1 <= Len(raw')
    BY <1>2, <1>3
  <2> QED
    BY <1>1, <1>2, <1>3, <1>4, <1>6, <2>1 DEF Delivered, InTurn
<1> QED
  BY <1>1, <1>5, <1>6

\* A result that is pulled is pending.
LEMMA DeliveredByPull ==
  ASSUME Sound, Delivered, Pull
  PROVE  Delivered'
<1>1. PICK d \in Digest \ (pulled \cup UNION {m.folds : m \in Range(raw)}) :
        pulled' = pulled \cup {d} /\ pending' = pending \cup {d}
  BY DEF Pull
<1>2. pc = "prompt" /\ pc' = pc /\ raw' = raw /\ failed' = failed
  BY DEF Pull
<1>3. Given(raw, failed, d) = {}
  <2> SUFFICES ASSUME NEW p \in 1 .. Len(raw), d \in raw[p].folds PROVE FALSE
    BY DEF Given
  <2>1. DOMAIN raw = 1 .. Len(raw)
    BY MessageTypes DEF Sound, Context, Recorded
  <2>2. raw[p] \in Range(raw)
    BY <2>1 DEF Range
  <2>3. d \in UNION {m.folds : m \in Range(raw)}
    BY <2>2
  <2> QED
    BY <1>1, <2>3
<1> QED
  BY <1>1, <1>2, <1>3 DEF Delivered, InTurn

\* A note hands nothing over.
LEMMA DeliveredByNote ==
  ASSUME Sound, Delivered, Note
  PROVE  Delivered'
<1>1. /\ failed \subseteq 1 .. Len(raw) /\ failed' = failed /\ pulled' = pulled
      /\ pending' = pending /\ pc = "prompt" /\ pc' = pc
  BY DEF Delivered, Note
<1>2. /\ Len(raw) \in Nat /\ Len(raw') \in Nat /\ Len(raw) <= Len(raw')
      /\ \A d : Given(raw', failed, d) = Given(raw, failed, d)
  BY <1>1, QuietStep
<1>3. 1 .. Len(raw) \subseteq 1 .. Len(raw')
  BY <1>2
<1> QED
  BY <1>1, <1>2, <1>3 DEF Delivered, InTurn

\* A request hands over what is pending.
LEMMA RequestGives ==
  ASSUME Sound, failed \subseteq 1 .. Len(raw), AddRequest(pending)
  PROVE  /\ Len(raw) \in Nat /\ Len(raw') \in Nat /\ Len(raw) + 1 <= Len(raw')
         /\ \A d : Given(raw', failed, d)
                     = Given(raw, failed, d) \cup (IF d \in pending THEN {Len(raw) + 1} ELSE {})
<1> DEFINE m == Request(pending)
           x == At(m, Len(raw) + 1)
           y == At(System, Len(raw) + 2)
           r == Append(raw, x)
<1>1. /\ Messages(raw) /\ Len(raw) \in Nat /\ raw \in Seq(Msg)
      /\ Len(raw) + 1 \in Nat /\ Len(raw) + 2 \in Nat /\ pending \in SUBSET Digest
  BY MessageTypes DEF Sound, Context, Course, Recorded, Messages
<1>2. m \in Msg /\ Made(m) /\ m.folds = pending
  BY <1>1, MessagesMade
<1>3. System \in Msg /\ Made(System) /\ System.folds = {}
  BY MessagesMade
<1>4. raw' = raw \o <<x>> \o (IF On("situational") THEN <<y>> ELSE <<>>)
  BY DEF AddRequest, At
<1> HIDE DEF m
<1>5. x \in Msg /\ Made(x) /\ x.folds = pending /\ y \in Msg /\ y.folds = {}
  BY <1>1, <1>2, <1>3, AtMessage
<1> HIDE DEF x, y
<1>6. r \in Seq(Msg) /\ r = raw \o <<x>> /\ Len(r) = Len(raw) + 1
  BY <1>1, <1>5
<1>7. Messages(r)
  BY <1>1, <1>5, AppendMessage
<1>8. Follows(r, raw, x, failed)
  BY <1>1, <1>5 DEF Follows
<1> HIDE DEF r
<1>9. \A d : Given(r, failed, d)
               = Given(raw, failed, d) \cup (IF d \in pending THEN {Len(raw) + 1} ELSE {})
  <2> SUFFICES ASSUME NEW d
               PROVE  Given(r, failed, d)
                  = Given(raw, failed, d) \cup (IF d \in pending THEN {Len(raw) + 1} ELSE {})
    OBVIOUS
  <2>1. Given(r, failed, d)
          = Given(raw, failed, d) \cup (IF d \in x.folds THEN {Len(raw) + 1} ELSE {})
    BY <1>8, GivenAppend
  <2> QED
    BY <1>5, <2>1
<1>10. raw' = r \/ raw' = Append(r, y)
  <2>1. raw' = r \o <<y>> \/ raw' = r \o <<>>
    BY <1>4, <1>6
  <2>2. r \o <<y>> = Append(r, y) /\ r \o <<>> = r
    BY <1>5, <1>6
  <2> QED
    BY <2>1, <2>2
<1>11. failed \subseteq 1 .. Len(r)
  <2>1. 1 .. Len(raw) \subseteq 1 .. Len(raw) + 1
    BY <1>1
  <2> QED
    BY <1>6, <2>1
<1>12. CASE raw' = r
  BY <1>1, <1>6, <1>9, <1>12
<1>13. CASE raw' = Append(r, y)
  <2>1. Follows(raw', r, y, failed)
    BY <1>5, <1>7, <1>11, <1>13 DEF Follows
  <2>2. Len(raw') = Len(r) + 1 /\ \A d : Given(raw', failed, d) = Given(r, failed, d)
    BY <1>5, <2>1, QuietAppend
  <2> QED
    BY <1>1, <1>6, <1>9, <2>2
<1> QED
  BY <1>10, <1>12, <1>13

\* The request of a turn hands over what is pending.
LEMMA DeliveredByStart ==
  ASSUME Sound, Delivered, StartTurn
  PROVE  Delivered'
<1>1. /\ failed \subseteq 1 .. Len(raw) /\ failed' = failed /\ pulled' = pulled
      /\ pending' = pending /\ pc = "prompt" /\ pc' = "soft" /\ AddRequest(pending)
      /\ mark'.at = Len(raw)
  BY DEF Delivered, StartTurn
<1>2. /\ Len(raw) \in Nat /\ Len(raw') \in Nat /\ Len(raw) + 1 <= Len(raw')
      /\ \A d : Given(raw', failed, d)
                  = Given(raw, failed, d) \cup (IF d \in pending THEN {Len(raw) + 1} ELSE {})
  BY <1>1, RequestGives
<1>3. 1 .. Len(raw) \subseteq 1 .. Len(raw')
  BY <1>2
<1>4. /\ pending \subseteq pulled
      /\ \A d \in pulled :
           IF d \in pending THEN Given(raw, failed, d) = {}
           ELSE \E p \in 1 .. Len(raw) : Given(raw, failed, d) = {p}
  BY <1>1 DEF Delivered, InTurn
<1>5. \A d \in pulled :
        IF d \in pending THEN Given(raw', failed, d) = {Len(raw) + 1}
        ELSE \E p \in 1 .. Len(raw) : Given(raw', failed, d) = {p}
  BY <1>2, <1>4
<1> QED
  BY <1>1, <1>2, <1>3, <1>4, <1>5 DEF Delivered, InTurn

\* A turn that does not return takes back what it handed over.
LEMMA DeliveredByEnd ==
  ASSUME Sound, Delivered, Raise \/ Interrupt
  PROVE  Delivered'
<1>1. /\ failed \subseteq 1 .. Len(raw) /\ pulled' = pulled /\ pending' = pending /\ raw' = raw
      /\ pc \notin {"prompt", "off"} /\ pc' = "prompt"
      /\ failed' = failed \cup (mark.at + 1 .. Len(raw))
  BY DEF Delivered, Raise, Interrupt
<1>2. /\ pending \subseteq pulled /\ mark.at \in Nat /\ mark.at + 1 <= Len(raw)
      /\ \A d \in pulled :
            IF d \in pending THEN Given(raw, failed, d) = {mark.at + 1}
            ELSE \E p \in 1 .. mark.at : Given(raw, failed, d) = {p}
  BY <1>1 DEF Delivered, InTurn
<1>3. Len(raw) \in Nat
  BY MessageTypes DEF Sound, Context, Recorded
<1>4. failed' \subseteq 1 .. Len(raw')
  <2>1. mark.at + 1 .. Len(raw) \subseteq 1 .. Len(raw)
    BY <1>2, <1>3
  <2> QED
    BY <1>1, <2>1
<1>5. \A d : Given(raw', failed', d) = Given(raw, failed, d) \ (mark.at + 1 .. Len(raw))
  BY <1>1 DEF Given
<1>6. mark.at + 1 \in mark.at + 1 .. Len(raw)
  BY <1>2, <1>3
<1>7. \A p \in 1 .. mark.at : p \notin mark.at + 1 .. Len(raw) /\ p \in 1 .. Len(raw)
  BY <1>2, <1>3
<1>8. ASSUME NEW d \in pulled
      PROVE  IF d \in pending THEN Given(raw', failed', d) = {}
             ELSE \E p \in 1 .. Len(raw') : Given(raw', failed', d) = {p}
  <2>1. Given(raw', failed', d) = Given(raw, failed, d) \ (mark.at + 1 .. Len(raw))
    BY <1>5
  <2>2. CASE d \in pending
    <3>1. Given(raw, failed, d) = {mark.at + 1}
      BY <1>2, <2>2
    <3> QED
      BY <1>6, <2>1, <2>2, <3>1
  <2>3. CASE d \notin pending
    <3>1. PICK p \in 1 .. mark.at : Given(raw, failed, d) = {p}
      BY <1>2, <2>3
    <3>2. p \notin mark.at + 1 .. Len(raw) /\ p \in 1 .. Len(raw)
      BY <1>7
    <3>3. Given(raw', failed', d) = {p}
      BY <2>1, <3>1, <3>2
    <3> QED
      BY <1>1, <2>3, <3>2, <3>3
  <2> QED
    BY <2>2, <2>3
<1> QED
  BY <1>1, <1>2, <1>4, <1>8 DEF Delivered, InTurn

\* What is pending when the process ends is lost with it.
LEMMA DeliveredByStopped ==
  ASSUME Sound, Delivered, Stopped \/ Resume
  PROVE  Delivered'
<1>1. /\ failed \subseteq 1 .. Len(raw) /\ failed' = failed /\ raw' = raw /\ Len(raw) \in Nat
  BY MessageTypes DEF Delivered, Stopped, Resume, Sound, Context, Recorded
<1>2. CASE Stopped
  <2>1. pulled' = pulled \ pending /\ pending' = {} /\ pc' = "off"
    BY <1>2 DEF Stopped
  <2>2. ASSUME NEW d \in pulled, d \notin pending
        PROVE  \E p \in 1 .. Len(raw) : Given(raw, failed, d) = {p}
    <3>1. CASE ~InTurn
      BY <2>2, <3>1 DEF Delivered
    <3>2. CASE InTurn
      <4>1. mark.at \in Nat /\ mark.at + 1 <= Len(raw)
        BY <3>2 DEF Delivered
      <4>2. PICK p \in 1 .. mark.at : Given(raw, failed, d) = {p}
        BY <2>2, <3>2 DEF Delivered
      <4>3. p \in 1 .. Len(raw)
        BY <1>1, <4>1
      <4> QED
        BY <4>2, <4>3
    <3> QED
      BY <3>1, <3>2
  <2> QED
    BY <1>1, <2>1, <2>2 DEF Delivered, InTurn
<1>3. CASE Resume
  <2>1. pulled' = pulled /\ pending' = pending /\ pc = "off" /\ pc' = "prompt"
    BY <1>3 DEF Resume
  <2> QED
    BY <1>1, <2>1 DEF Delivered, InTurn
<1> QED
  BY <1>2, <1>3

\* Every step keeps it.
LEMMA DeliveredKept ==
  ASSUME Sound, Delivered, [Next]_vars
  PROVE  Delivered'
<1>1. CASE UNCHANGED vars
  BY <1>1 DEF vars, Delivered, InTurn
<1>2. CASE Next
  BY <1>2, DeliveredByPull, DeliveredByNote, DeliveredByStart, DeliveredByTurn, DeliveredByEnd,
     DeliveredByStopped DEF Next
<1> QED
  BY <1>1, <1>2

\* What one /result pulled is in the request of one turn that returned, or
\* still pending, and never both (DeliveredOnce).
THEOREM ResultsDeliveredOnce == Spec => []DeliveredOnce
<1>1. Sound /\ Delivered => DeliveredOnce
  <2> SUFFICES ASSUME Sound, Delivered, pc = "prompt", NEW d \in pulled
               PROVE  Cardinality({p \in DOMAIN raw \ failed : d \in raw[p].folds})
                        = IF d \in pending THEN 0 ELSE 1
    BY DEF DeliveredOnce
  <2>1. DOMAIN raw = 1 .. Len(raw)
    BY MessageTypes DEF Sound, Context, Recorded
  <2>2. {p \in DOMAIN raw \ failed : d \in raw[p].folds} = Given(raw, failed, d)
    BY <2>1 DEF Given
  <2>3. IF d \in pending THEN Given(raw, failed, d) = {}
        ELSE \E p \in 1 .. Len(raw) : Given(raw, failed, d) = {p}
    BY DEF Delivered, InTurn
  <2>4. Cardinality({}) = 0 /\ \A p : Cardinality({p}) = 1
    BY FS_EmptySet, FS_Singleton
  <2> QED
    BY <2>2, <2>3, <2>4
<1>2. Sound /\ Delivered /\ [Next]_vars => (Sound /\ Delivered)'
  BY SoundKept, DeliveredKept
<1>3. Init => Sound /\ Delivered
  BY SoundAtFirst, DeliveredAtFirst
<1> QED
  BY <1>1, <1>2, <1>3, PTL DEF Spec
-----------------------------------------------------------------------------
(* Background tasks: theorems about BackgroundTasks, for every set of      *)
(* tasks, every cap and every grace window.  The inductive invariant adds  *)
(* to the types what the polling relies on: a live worker belongs to a     *)
(* running task or outlived its cancelling, a good exit comes with a good  *)
(* result, and a task that is not known has no worker.  A second one,      *)
(* Told, follows the prompt loop: what a banner was printed for, and that  *)
(* no task is running once the session has ended.                          *)

Honest ==
  \A t \in Task : /\ proc[t] = "alive" => state[t] = "running" \/ t \in outlived
                  /\ t \in outlived => state[t] = "error" /\ t \in announced
                  /\ proc[t] = "ok" => file[t] = "done"
                  /\ state[t] = "none" => proc[t] = "none"

TasksInv == TypeOK /\ Honest /\ DoneIsGenuine

\* The initial states satisfy the invariant.
LEMMA TasksAtFirst == TasksInit => TasksInv
<1> SUFFICES ASSUME TasksInit PROVE TasksInv
  OBVIOUS
<1>1. TypeOK
  BY DEF TasksInit, TypeOK, Terminal
<1>2. Honest /\ DoneIsGenuine
  BY DEF TasksInit, Honest, DoneIsGenuine
<1> QED
  BY <1>1, <1>2 DEF TasksInv

\* What polling a task that has not ended yields.
LEMMA PolledRight ==
  ASSUME TasksInv, NEW t \in Task
  PROVE  /\ Polled(t) \in {"running", "done", "error"}
         /\ proc[t] = "alive" => Polled(t) = "running"
         /\ Polled(t) = "done" => proc[t] = "ok" /\ file[t] = "done" /\ t \in visible
BY DEF Polled, TasksInv, TypeOK, Honest, Terminal

\* A look at the tasks keeps the invariant, wherever the loop goes next.
LEMMA RefreshedInv ==
  ASSUME TasksInv, Refreshed,
         loop' \in {"refresh", "drain", "input", "turn", "teardown", "kept", "aborted", "ended"}
  PROVE  TasksInv'
<1>1. TypeOK'
  <2>1. state' \in [Task -> {"none", "running"} \cup Terminal]
    BY PolledRight DEF TasksInv, TypeOK, Refreshed, Terminal
  <2>2. result' \in [Task -> {"none"} \cup Terminal]
    BY DEF TasksInv, TypeOK, Refreshed
  <2>3. polls' \in [Task -> Nat]
    BY DEF TasksInv, TypeOK, Refreshed
  <2>4. announced' \in SUBSET {t \in Task : state'[t] \in Terminal}
    <3>1. ASSUME NEW t \in Task, state[t] \in Terminal
          PROVE  state'[t] = state[t]
      BY <3>1 DEF TasksInv, TypeOK, Refreshed, NonTerminal, Terminal
    <3> QED
      BY <3>1 DEF TasksInv, TypeOK, Refreshed
  <2> QED
    BY <2>1, <2>2, <2>3, <2>4 DEF TasksInv, TypeOK, Refreshed, worker
<1>2. Honest'
  BY PolledRight DEF TasksInv, TypeOK, Refreshed, Honest, worker, NonTerminal
<1>3. DoneIsGenuine'
  <2> SUFFICES ASSUME NEW t \in Task, state'[t] = "done"
               PROVE  proc'[t] = "ok" /\ file'[t] = "done" /\ result'[t] = "done"
    BY DEF DoneIsGenuine
  <2> USE DEF Refreshed, worker, TasksInv, TypeOK
  <2>1. CASE t \in NonTerminal
    <3>1. Polled(t) = "done"
      BY <2>1
    <3>2. proc[t] = "ok" /\ file[t] = "done" /\ t \in visible
      BY <3>1, PolledRight
    <3> QED
      BY <2>1, <3>2 DEF Alive
  <2>2. CASE t \notin NonTerminal
    BY <2>2 DEF DoneIsGenuine
  <2> QED
    BY <2>1, <2>2
<1> QED
  BY <1>1, <1>2, <1>3 DEF TasksInv

\* Every step keeps the invariant.
LEMMA TasksStep == TasksInv /\ [TasksNext]_tasks => TasksInv'
<1> SUFFICES ASSUME TasksInv, [TasksNext]_tasks
             PROVE  TasksInv'
  OBVIOUS
<1>1. ASSUME NEW t \in Task, Writes(t) PROVE TasksInv'
  BY <1>1 DEF Writes, TasksInv, TypeOK, Honest, DoneIsGenuine, registry, Terminal
<1>2. ASSUME NEW t \in Task, Appears(t) PROVE TasksInv'
  BY <1>2 DEF Appears, TasksInv, TypeOK, Honest, DoneIsGenuine, registry
<1>3. ASSUME NEW t \in Task, Exits(t) PROVE TasksInv'
  BY <1>3 DEF Exits, TasksInv, TypeOK, Honest, DoneIsGenuine, registry, Terminal
<1>4. ASSUME NEW t \in Task, Dies(t) PROVE TasksInv'
  BY <1>4 DEF Dies, TasksInv, TypeOK, Honest, DoneIsGenuine, registry
<1>5. ASSUME NEW t \in Task, Submit(t) PROVE TasksInv'
  BY <1>5 DEF Submit, TasksInv, TypeOK, Honest, DoneIsGenuine, Terminal
<1>6. CASE Refresh
  BY <1>6, RefreshedInv DEF Refresh
<1>7. CASE Exit
  BY <1>7, RefreshedInv DEF Exit
<1>8. CASE Drain
  <2>1. banners' \in [Task -> Nat]
    BY <1>8 DEF Drain, TasksInv, TypeOK
  <2>2. announced' \in SUBSET {t \in Task : state'[t] \in Terminal}
    BY <1>8 DEF Drain, TasksInv, TypeOK, Drained, Untold
  <2> QED
    BY <1>8, <2>1, <2>2 DEF Drain, TasksInv, TypeOK, Honest, DoneIsGenuine, worker
<1>9. CASE Command \/ BeginTurn \/ EndTurn \/ Keep \/ Abort \/ Close
  BY <1>9 DEF Command, BeginTurn, EndTurn, Keep, Abort, Close, Goto, TasksInv, TypeOK, Honest,
              DoneIsGenuine, registry, worker
<1>10. ASSUME NEW t \in Task, Cancel(t) PROVE TasksInv'
  BY <1>10 DEF Cancel, Cancelled, Outlives, NonTerminal, TasksInv, TypeOK, Honest, DoneIsGenuine, Terminal
<1>11. CASE UNCHANGED tasks
  BY <1>11 DEF tasks, registry, worker, TasksInv, TypeOK, Honest, DoneIsGenuine
<1> QED
  BY <1>1, <1>2, <1>3, <1>4, <1>5, <1>6, <1>7, <1>8, <1>9, <1>10, <1>11
     DEF TasksNext, Repl, Worker

\* The invariant holds in every state of every behavior.
LEMMA TasksSafe == TasksSpec => []TasksInv
BY TasksAtFirst, TasksStep, PTL DEF TasksSpec

\* Every variable keeps its type, and only tasks that ended are announced.
THEOREM TypeCorrect == TasksSpec => []TypeOK
<1>1. TasksInv => TypeOK
  BY DEF TasksInv
<1> QED
  BY <1>1, TasksSafe, PTL

\* A task the registry calls done had a worker that exited well and left the
\* result that /result hands out.
THEOREM DoneGenuine == TasksSpec => []DoneIsGenuine
<1>1. TasksInv => DoneIsGenuine
  BY DEF TasksInv
<1> QED
  BY <1>1, TasksSafe, PTL
-----------------------------------------------------------------------------
Prompting == {"refresh", "drain", "input", "turn"}

(* Until the teardown a banner is what announces a task, so the two count  *)
(* the same; at the prompt none is left untold; at the end none runs.      *)
Told ==
  /\ loop \in Prompting => \A t \in Task : banners[t] = IF t \in announced THEN 1 ELSE 0
  /\ loop = "input" => Untold = {}
  /\ loop = "ended" => NonTerminal = {}

\* No step of a worker, of the registry or of the prompt loop breaks Told.
LEMMA ToldNext == TasksInv /\ Told /\ [TasksNext]_tasks => Told'
<1> SUFFICES ASSUME TasksInv, Told, [TasksNext]_tasks
             PROVE  Told'
  OBVIOUS
<1> USE DEF Told, Prompting, Untold, NonTerminal
<1>1. ASSUME NEW t \in Task, Worker(t) PROVE Told'
  BY <1>1 DEF Worker, Writes, Appears, Exits, Dies, registry
<1>2. ASSUME NEW t \in Task, Submit(t) PROVE Told'
  BY <1>2 DEF Submit
<1>3. CASE Refresh \/ Exit
  BY <1>3 DEF Refresh, Exit, Refreshed
<1>4. CASE Drain
  <2>1. \A t \in Task : banners'[t] = IF t \in announced' THEN 1 ELSE 0
    BY <1>4 DEF Drain, Drained, TasksInv, TypeOK
  <2>2. Untold' = {}
    BY <1>4 DEF Drain, Drained
  <2> QED
    BY <1>4, <2>1, <2>2 DEF Drain
<1>5. CASE Command \/ BeginTurn \/ EndTurn \/ Keep \/ Abort \/ Close
  BY <1>5 DEF Command, BeginTurn, EndTurn, Keep, Abort, Close, Goto, registry
<1>6. ASSUME NEW t \in Task, Cancel(t) PROVE Told'
  BY <1>6 DEF Cancel, Outlives
<1>7. CASE UNCHANGED tasks
  BY <1>7 DEF tasks, registry
<1> QED
  BY <1>1, <1>2, <1>3, <1>4, <1>5, <1>6, <1>7 DEF TasksNext, Repl

LEMMA ToldInvariant == TasksSpec => []Told
<1>1. TasksInit => Told
  BY DEF TasksInit, Told, Prompting, Untold, NonTerminal, Terminal
<1> QED
  BY <1>1, ToldNext, TasksSafe, PTL DEF TasksSpec

\* When the user can type, each task that ended has had its one banner, and
\* no other task has had any (drain_finished).
THEOREM ToldAtThePrompt == TasksSpec => []PromptTold
<1>1. TasksInv /\ Told => PromptTold
  BY DEF TasksInv, TypeOK, Told, Prompting, Untold, PromptTold
<1> QED
  BY <1>1, TasksSafe, ToldInvariant, PTL

\* A session that ends without being asked to keep its tasks, and whose
\* teardown is not broken off, leaves no worker behind but one that outlived
\* its cancelling, whose task stays an error (_teardown_tasks, cancel).
THEOREM NoneLeftBehind == TasksSpec => []NoOrphans
<1>1. TasksInv /\ Told => NoOrphans
  BY DEF TasksInv, TypeOK, Honest, Told, NonTerminal, Alive, NoOrphans
<1> QED
  BY <1>1, TasksSafe, ToldInvariant, PTL
-----------------------------------------------------------------------------
Returned == {t \in Task : proc[t] = "ok"}

\* Looking at the tasks settles some of them.
LEMMA RefreshedSettles ==
  ASSUME TasksInv, Refreshed
  PROVE  Lifecycle!Settle
<1> USE DEF Refreshed, worker, Lifecycle!Settle, Lifecycle!Ended
<1>1. state' \in [Task -> {"none", "running"} \cup Lifecycle!Ended]
  BY PolledRight DEF TasksInv, TypeOK, Terminal
<1>2. ASSUME NEW t \in Task
      PROVE  \/ state'[t] = state[t]
             \/ state[t] = "running" /\ state'[t] = "done" /\ t \in Returned
             \/ state[t] = "running" /\ state'[t] = "error"
  BY PolledRight DEF TasksInv, TypeOK, NonTerminal, Returned
<1> QED
  BY <1>1, <1>2 DEF Returned

\* Every step of the runtime is a step of what it promises, or a stutter.
LEMMA StepImplements == TasksInv /\ [TasksNext]_tasks => [Lifecycle!Next]_(Lifecycle!vars)
<1> SUFFICES ASSUME TasksInv, [TasksNext]_tasks
             PROVE  Lifecycle!Next \/ UNCHANGED Lifecycle!vars
  OBVIOUS
<1> USE DEF Lifecycle!vars
<1>1. ASSUME NEW t \in Task, Writes(t) PROVE UNCHANGED Lifecycle!vars
  BY <1>1 DEF Writes, registry
<1>2. ASSUME NEW t \in Task, Appears(t) PROVE UNCHANGED Lifecycle!vars
  BY <1>2 DEF Appears, registry
<1>3. ASSUME NEW t \in Task, Exits(t)
      PROVE  Lifecycle!Deliver(t) \/ UNCHANGED Lifecycle!vars
  BY <1>3 DEF Exits, registry, Lifecycle!Deliver, TasksInv, TypeOK, Honest
<1>4. ASSUME NEW t \in Task, Dies(t) PROVE UNCHANGED Lifecycle!vars
  BY <1>4 DEF Dies, registry, TasksInv, TypeOK
<1>5. ASSUME NEW t \in Task, Submit(t)
      PROVE  Lifecycle!Start(t)
  BY <1>5 DEF Submit, Lifecycle!Start, TasksInv, TypeOK, Honest
<1>6. CASE Refresh \/ Exit
  BY <1>6, RefreshedSettles DEF Refresh, Exit, Lifecycle!Next
<1>7. CASE Drain
  BY <1>7 DEF Drain, Drained, Untold, worker, Terminal, TasksInv, TypeOK,
              Lifecycle!Tell, Lifecycle!Ended, Lifecycle!Next
<1>8. CASE Command \/ BeginTurn \/ EndTurn \/ Keep \/ Abort \/ Close
  BY <1>8 DEF Command, BeginTurn, EndTurn, Keep, Abort, Close, Goto, registry, worker
<1>9. ASSUME NEW t \in Task, Cancel(t)
      PROVE  Lifecycle!CallOff(t)
  BY <1>9 DEF Cancel, Cancelled, Outlives, NonTerminal, Lifecycle!CallOff, TasksInv, TypeOK
<1>10. CASE UNCHANGED tasks
  BY <1>10 DEF tasks, registry, worker
<1> QED
  BY <1>1, <1>2, <1>3, <1>4, <1>5, <1>6, <1>7, <1>8, <1>9, <1>10
     DEF TasksNext, Repl, Worker, Lifecycle!Next

\* The runtime implements the lifecycle it promises: a task starts once, ends
\* once, as done only if its worker delivered, and is told of at most once.
THEOREM LifecycleImplemented == TasksSpec => ImplementsLifecycle
<1>1. TasksInit => Lifecycle!Init
  BY DEF TasksInit, Lifecycle!Init
<1> QED
  BY <1>1, StepImplements, TasksSafe, PTL
     DEF TasksSpec, ImplementsLifecycle, Lifecycle!Spec
=============================================================================
