--------------------------- MODULE RecoveryProofs ---------------------------
(***************************************************************************)
(* What the two loops keep of what is on disk.                             *)
(*                                                                         *)
(* A mission: whenever it dies and however often it is picked up, the      *)
(* stream read back is the story of the run.  The numbering and the        *)
(* budgets go on, each answer stands behind the call it answers, and the   *)
(* results stay where the model was shown them.  The invariant relates     *)
(* three things at every step: the process, the records it has written,    *)
(* and what resume.py would make of those records if it died here.         *)
(*                                                                         *)
(* A kernel session, for every template of the shape TemplateAssumption    *)
(* describes and for every budget: it stays inside its budgets, completes  *)
(* only on a tree that was tested as it is, and reports only artifacts     *)
(* that are there, whatever it rolled back.                                *)
(***************************************************************************)
EXTENDS Rebuild, Kernel, FiniteSetTheorems, SequenceTheorems,
        WellFoundedInduction, TLAPS

-----------------------------------------------------------------------------
(* Lists: places and filters. *)

\* A list, whatever it is of.
IsList(s) == s \in Seq(Range(s))

\* What a list's places and elements are.
LEMMA ListFacts ==
    ASSUME NEW s, IsList(s)
    PROVE  /\ Len(s) \in Nat /\ DOMAIN s = 1..Len(s)
           /\ \A i \in DOMAIN s : i \in Nat /\ s[i] \in Range(s)
  BY DEF IsList, Range

\* A sequence of any sort is a list.
LEMMA ListOf ==
    ASSUME NEW T, NEW s \in Seq(T)
    PROVE  IsList(s)
  BY DEF IsList, Range

\* A list and one more.
LEMMA Appended ==
    ASSUME NEW s, IsList(s), NEW e
    PROVE  /\ Len(s) \in Nat /\ DOMAIN s = 1..Len(s)
           /\ DOMAIN Append(s, e) = 1..(Len(s) + 1)
           /\ \A i \in DOMAIN s : Append(s, e)[i] = s[i]
           /\ Append(s, e)[Len(s) + 1] = e
<1>. DEFINE T == Range(s) \cup {e}
<1>1. s \in Seq(T) /\ e \in T
  BY DEF IsList
<1>. HIDE DEF T
<1>2. Append(s, e) \in Seq(T)
  BY <1>1
<1>. QED  BY <1>1, <1>2

\* ... is a list.
LEMMA AppendedIsList ==
    ASSUME NEW s, IsList(s), NEW e
    PROVE  IsList(Append(s, e))
<1>. DEFINE T == Range(s) \cup {e}
<1>1. s \in Seq(T) /\ e \in T
  BY DEF IsList
<1>. HIDE DEF T
<1>2. Append(s, e) \in Seq(T)
  BY <1>1
<1>. QED  BY <1>2, ListOf

\* The empty list, and one of one element.
LEMMA ShortLists ==
    /\ IsList(<< >>) /\ Len(<< >>) = 0 /\ DOMAIN << >> = {}
    /\ \A e : IsList(<<e>>) /\ Len(<<e>>) = 1 /\ DOMAIN <<e>> = {1}
              /\ <<e>>[1] = e
<1>1. \A e : <<e>> \in Seq({e})
  OBVIOUS
<1>. QED  BY <1>1, ListOf DEF IsList, Range

\* One list after another.
LEMMA Joined ==
    ASSUME NEW s, IsList(s), NEW t, IsList(t)
    PROVE  /\ Len(s \o t) = Len(s) + Len(t)
           /\ DOMAIN (s \o t) = 1..(Len(s) + Len(t))
           /\ \A i \in DOMAIN s : (s \o t)[i] = s[i]
           /\ \A k \in DOMAIN t : (s \o t)[Len(s) + k] = t[k]
           /\ \A i \in DOMAIN (s \o t) :
                 i \in DOMAIN s \/ \E k \in DOMAIN t : i = Len(s) + k
<1>. DEFINE T == Range(s) \cup Range(t)
<1>1. s \in Seq(T) /\ t \in Seq(T)
  BY DEF IsList
<1>. HIDE DEF T
<1>2. s \o t \in Seq(T)
  BY <1>1
<1>4. \A i \in 1..(Len(s) + Len(t)) :
         i \in 1..Len(s) \/ \E k \in 1..Len(t) : i = Len(s) + k
  <2>1. Len(s) \in Nat /\ Len(t) \in Nat
    BY <1>1
  <2>2. ASSUME NEW i \in 1..(Len(s) + Len(t)), i \notin 1..Len(s)
        PROVE  \E k \in 1..Len(t) : i = Len(s) + k
    <3>1. i - Len(s) \in 1..Len(t) /\ i = Len(s) + (i - Len(s))
      BY <2>1, <2>2
    <3>. QED  BY <3>1
  <2>. QED  BY <2>2
<1>5. /\ Len(s) \in Nat /\ DOMAIN s = 1..Len(s)
      /\ Len(t) \in Nat /\ DOMAIN t = 1..Len(t)
      /\ Len(s \o t) = Len(s) + Len(t) /\ DOMAIN (s \o t) = 1..Len(s \o t)
  BY <1>1, <1>2
<1>6. ASSUME NEW i \in 1..Len(s)
      PROVE  (s \o t)[i] = s[i]
  BY <1>1, <1>5
<1>7. ASSUME NEW k \in 1..Len(t)
      PROVE  (s \o t)[Len(s) + k] = t[k]
  BY <1>1, <1>5
<1>. QED  BY <1>4, <1>5, <1>6, <1>7

\* ... is a list.
LEMMA JoinedIsList ==
    ASSUME NEW s, IsList(s), NEW t, IsList(t)
    PROVE  IsList(s \o t)
<1>. DEFINE T == Range(s) \cup Range(t)
<1>1. s \in Seq(T) /\ t \in Seq(T)
  BY DEF IsList
<1>. HIDE DEF T
<1>2. s \o t \in Seq(T)
  BY <1>1
<1>. QED  BY <1>2, ListOf

\* What is left of a list behind its first element.
LEMMA Rest ==
    ASSUME NEW s, IsList(s), s # << >>
    PROVE  /\ Len(s) > 0 /\ Len(Tail(s)) = Len(s) - 1
           /\ DOMAIN Tail(s) = 1..(Len(s) - 1)
           /\ Head(s) = s[1] /\ 1 \in DOMAIN s
           /\ \A i \in DOMAIN Tail(s) :
                 Tail(s)[i] = s[i + 1] /\ i + 1 \in DOMAIN s
<1>1. s \in Seq(Range(s))
  BY DEF IsList
<1>2. Len(s) \in Nat /\ Len(s) > 0 /\ DOMAIN s = 1..Len(s)
  BY <1>1
<1>. QED  BY <1>1, <1>2

\* ... is a list.
LEMMA RestIsList ==
    ASSUME NEW s, IsList(s), s # << >>
    PROVE  IsList(Tail(s))
<1>1. s \in Seq(Range(s))
  BY DEF IsList
<1>2. Tail(s) \in Seq(Range(s))
  BY <1>1
<1>. QED  BY <1>2, ListOf

\* A list written down place by place.
LEMMA Listed ==
    ASSUME NEW n \in Nat, NEW s, s = [k \in 1..n |-> s[k]]
    PROVE  IsList(s) /\ Len(s) = n /\ DOMAIN s = 1..n
<1>1. s \in [1..n -> Range(s)]
  BY DEF Range
<1>2. s \in Seq(Range(s)) /\ DOMAIN s = 1..n
  BY <1>1
<1>. QED  BY <1>2 DEF IsList

\* Two lists with the same elements are the same.
LEMMA SameList ==
    ASSUME NEW s, IsList(s), NEW t, IsList(t), Len(s) = Len(t),
           \A i \in DOMAIN s : s[i] = t[i]
    PROVE  s = t
<1>1. s \in Seq(Range(s) \cup Range(t)) /\ t \in Seq(Range(s) \cup Range(t))
  BY DEF IsList
<1>2. DOMAIN s = 1..Len(s) /\ DOMAIN t = 1..Len(t)
  BY <1>1
<1>. QED  BY <1>1, <1>2

\* A set of numbers has a least one.
LEMMA LeastNatural ==
    ASSUME NEW S \in SUBSET Nat, S # {}
    PROVE  \E m \in S : \A n \in S : m =< n
<1>1. PICK m \in S : \A n \in S : ~ (<<n, m>> \in OpToRel(<, Nat))
  BY WFMin, NatLessThanWellFounded
<1>2. \A n \in S : ~ (n < m)
  BY <1>1 DEF OpToRel
<1>. QED  BY <1>2

\* Places of a list of m elements.
Numbered(P, m) == m \in Nat /\ P \in SUBSET (1..m)

\* Counting them.
LEMMA UptoCounts ==
    ASSUME NEW m, NEW P, Numbered(P, m)
    PROVE  /\ IsFiniteSet(P) /\ Cardinality(P) \in Nat
           /\ \A i \in Nat : Upto(P, i) \in 0..Cardinality(P)
           /\ Upto(P, 0) = 0 /\ Upto(P, m) = Cardinality(P)
           /\ \A i \in Nat :
                 Upto(P, i + 1) = IF i + 1 \in P THEN Upto(P, i) + 1
                                  ELSE Upto(P, i)
<1>0. m \in Nat /\ P \in SUBSET (1..m)
      /\ \A j \in P : j \in Nat /\ 1 <= j /\ j <= m
  BY DEF Numbered
<1>1. IsFiniteSet(P) /\ Cardinality(P) \in Nat
  <2>1. IsFiniteSet(1..m)
    BY <1>0, FS_Interval
  <2>. QED  BY <1>0, <2>1, FS_Subset, FS_CardinalityType
<1>2. ASSUME NEW i \in Nat
      PROVE  Upto(P, i) \in 0..Cardinality(P)
  <2>1. {j \in P : j <= i} \in SUBSET P
    OBVIOUS
  <2>. QED  BY <1>1, <2>1, FS_Subset, FS_CardinalityType DEF Upto
<1>3. Upto(P, 0) = 0
  <2>1. ~ \E j \in P : j <= 0
    BY <1>0
  <2>2. {j \in P : j <= 0} = {}
    BY <2>1
  <2>. QED  BY <2>2, FS_EmptySet DEF Upto
<1>4. Upto(P, m) = Cardinality(P)
  <2>1. {j \in P : j <= m} = P
    BY <1>0
  <2>. QED  BY <2>1 DEF Upto
<1>5. ASSUME NEW i \in Nat
      PROVE  Upto(P, i + 1) = IF i + 1 \in P THEN Upto(P, i) + 1
                                              ELSE Upto(P, i)
  <2>. DEFINE T == {j \in P : j <= i}
  <2>1. IsFiniteSet(T) /\ i + 1 \notin T
    BY <1>1, FS_Subset
  <2>2. {j \in P : j <= i + 1} = IF i + 1 \in P THEN T \cup {i + 1} ELSE T
    <3>1. \A j \in P : j \in Nat /\ (j <= i + 1 <=> j <= i \/ j = i + 1)
      BY <1>0
    <3>. QED  BY <3>1
  <2>3. Cardinality(T \cup {i + 1}) = Cardinality(T) + 1
    BY <2>1, FS_AddElement
  <2>. QED  BY <2>2, <2>3 DEF Upto
<1>. QED  BY <1>1, <1>2, <1>3, <1>4, <1>5

\* A later place has more of them before it.
LEMMA UptoGrows ==
    ASSUME NEW m, NEW P, Numbered(P, m),
           NEW j \in P, NEW i \in Nat, i < j
    PROVE  Upto(P, i) < Upto(P, j)
<1>. DEFINE S == {k \in P : k <= i}
            T == {k \in P : k <= j}
<1>1. IsFiniteSet(T) /\ S \in SUBSET T /\ S # T
  <2>1. T \in SUBSET P /\ S \in SUBSET T
    <3>1. \A k \in P : k \in Nat
      BY DEF Numbered
    <3>2. j \in Nat
      BY <3>1
    <3>3. \A k \in P : k <= i => k <= j
      BY <3>1, <3>2
    <3>. QED  BY <3>3
  <2>2. j \in T /\ j \notin S
    BY DEF Numbered
  <2>3. IsFiniteSet(P)
    BY UptoCounts
  <2>. QED  BY <2>1, <2>2, <2>3, FS_Subset
<1>2. Cardinality(S) \in Nat /\ Cardinality(T) \in Nat
      /\ Cardinality(S) <= Cardinality(T) /\ Cardinality(S) # Cardinality(T)
  BY <1>1, FS_Subset, FS_CardinalityType
<1>. QED  BY <1>2 DEF Upto

\* The n-th of them is one of them, and the n-th.
LEMMA NthIsThere ==
    ASSUME NEW m, NEW P, Numbered(P, m),
           NEW n \in 1..Cardinality(P)
    PROVE  Nth(P, n) \in P /\ Upto(P, Nth(P, n)) = n
<1>. DEFINE Far == {i \in Nat : Upto(P, i) >= n}
<1>0. /\ Cardinality(P) \in Nat
      /\ \A i \in Nat : Upto(P, i) \in Nat
      /\ Upto(P, 0) = 0 /\ Upto(P, m) = Cardinality(P)
      /\ \A i \in Nat : Upto(P, i + 1) = IF i + 1 \in P THEN Upto(P, i) + 1
                                         ELSE Upto(P, i)
  BY UptoCounts
<1>1. m \in Far
  BY <1>0 DEF Numbered
<1>2. \E k \in Far : \A i \in Far : k <= i
  BY <1>1, LeastNatural, Far \subseteq Nat
<1>3. PICK k \in Nat : Upto(P, k) >= n /\ \A i \in Far : k <= i
  BY <1>2
<1>4. k # 0
  BY <1>0, <1>3
<1>5. PICK i \in Nat : k = i + 1
  BY <1>4
<1>6. i \notin Far
  BY <1>3, <1>5
<1>7. Upto(P, i) < n /\ Upto(P, i) \in Nat /\ n \in Nat
  BY <1>0, <1>6
<1>8. Upto(P, k) = IF k \in P THEN Upto(P, i) + 1 ELSE Upto(P, i)
  BY <1>0, <1>5
<1>9. k \in P /\ Upto(P, k) = n
  BY <1>3, <1>7, <1>8
<1>. QED  BY <1>9 DEF Nth

\* A filtered list: its elements are those at the places, each once, in order.
LEMMA AmongThese ==
    ASSUME NEW T, NEW s \in Seq(T), NEW P \in SUBSET (DOMAIN s)
    PROVE  /\ Among(s, P) \in Seq(T)
           /\ Len(Among(s, P)) = Cardinality(P) /\ Cardinality(P) \in Nat
           /\ \A n \in DOMAIN Among(s, P) :
                 /\ Nth(P, n) \in P /\ Upto(P, Nth(P, n)) = n
                 /\ Among(s, P)[n] = s[Nth(P, n)]
           /\ \A i \in P : /\ Upto(P, i) \in DOMAIN Among(s, P)
                           /\ Nth(P, Upto(P, i)) = i
                           /\ Among(s, P)[Upto(P, i)] = s[i]
           /\ \A a, b \in DOMAIN Among(s, P) : a < b => Nth(P, a) < Nth(P, b)
<1>1. Len(s) \in Nat /\ DOMAIN s = 1..Len(s) /\ P \in SUBSET (1..Len(s))
      /\ Numbered(P, Len(s))
  BY DEF Numbered
<1>2. Cardinality(P) \in Nat
  BY <1>1, UptoCounts
<1>3. \A n \in 1..Cardinality(P) : Nth(P, n) \in P /\ Upto(P, Nth(P, n)) = n
  BY <1>1, NthIsThere
<1>4. Among(s, P) \in Seq(T) /\ Len(Among(s, P)) = Cardinality(P)
      /\ DOMAIN Among(s, P) = 1..Cardinality(P)
      /\ \A n \in 1..Cardinality(P) : Among(s, P)[n] = s[Nth(P, n)]
  BY <1>1, <1>2, <1>3 DEF Among
<1>7. /\ \A i \in Nat : Upto(P, i) \in 0..Cardinality(P)
      /\ Upto(P, 0) = 0
  BY <1>1, UptoCounts
<1>8. \A j \in P, i \in Nat : i < j => Upto(P, i) < Upto(P, j)
  BY <1>1, UptoGrows
<1>5. ASSUME NEW i \in P
      PROVE  Upto(P, i) \in 1..Cardinality(P) /\ Nth(P, Upto(P, i)) = i
  <2>1. i \in Nat /\ i >= 1
    BY <1>1
  <2>2. Upto(P, i) \in 0..Cardinality(P) /\ 0 < Upto(P, i)
    BY <1>7, <1>8, <2>1
  <2>3. Upto(P, i) \in 1..Cardinality(P)
    BY <1>2, <2>2
  <2>. DEFINE j == Nth(P, Upto(P, i))
  <2>4. j \in P /\ Upto(P, j) = Upto(P, i)
    BY <1>3, <2>3
  <2>5. j \in Nat /\ ~(j < i) /\ ~(i < j)
    BY <1>1, <1>8, <2>1, <2>2, <2>4
  <2>. QED  BY <2>1, <2>3, <2>5
<1>6. ASSUME NEW a \in 1..Cardinality(P), NEW b \in 1..Cardinality(P), a < b
      PROVE  Nth(P, a) < Nth(P, b)
  <2>. DEFINE i == Nth(P, a)
              j == Nth(P, b)
  <2>1. i \in P /\ j \in P /\ Upto(P, i) = a /\ Upto(P, j) = b
    BY <1>3
  <2>2. i \in Nat /\ j \in Nat
    BY <1>1, <2>1
  <2>3. ~(j < i) /\ i # j
    BY <1>2, <1>6, <1>8, <2>1, <2>2
  <2>. QED  BY <2>2, <2>3
<1>. QED  BY <1>2, <1>3, <1>4, <1>5, <1>6

\* What holds of nothing, and of one more whenever it holds, holds up to m.
LEMMA CountUp ==
    ASSUME NEW A, NEW m \in Nat, 0 \in A,
           \A k \in Nat : (k < m /\ k \in A) => k + 1 \in A
    PROVE  \A k \in 0..m : k \in A
<1>. SUFFICES ASSUME NEW n \in 0..m, n \notin A
              PROVE  FALSE
  OBVIOUS
<1>. DEFINE Out == {k \in 0..m : k \notin A}
<1>1. Out \in SUBSET Nat /\ Out # {}
  OBVIOUS
<1>2. PICK k \in Out : \A j \in Out : k <= j
  BY <1>1, LeastNatural
<1>3. k \in Nat /\ k <= m /\ k # 0 /\ k \notin A
  BY <1>2
<1>4. k - 1 \in Nat /\ k - 1 < m /\ (k - 1) + 1 = k
  BY <1>3
<1>5. k - 1 \notin Out
  BY <1>2, <1>4
<1>6. k - 1 \in A
  BY <1>4, <1>5
<1>. QED  BY <1>3, <1>4, <1>6

\* The greatest place up to k is k.
LEMMA MaxUpto ==
    ASSUME NEW k \in Nat, k > 0
    PROVE  Max(1..k) = k /\ (1..k) \ {k} = 1..(k - 1) /\ 1..k # {}
<1>1. k \in 1..k /\ \A y \in 1..k : k >= y
  OBVIOUS
<1>2. \A x \in 1..k : (\A y \in 1..k : x >= y) => x = k
  BY <1>1
<1>. QED  BY <1>1, <1>2 DEF Max

\* Places of two lists, the second behind m places of the first.
Both(P, m, Q) == P \cup {m + k : k \in Q}

\* Counting them.
LEMMA UptoJoined ==
    ASSUME NEW m \in Nat, NEW n \in Nat,
           NEW P \in SUBSET (1..m), NEW Q \in SUBSET (1..n)
    PROVE  /\ Both(P, m, Q) \in SUBSET (1..(m + n))
           /\ \A i \in 0..m : Upto(Both(P, m, Q), i) = Upto(P, i)
           /\ \A k \in 0..n : Upto(Both(P, m, Q), m + k)
                              = Cardinality(P) + Upto(Q, k)
           /\ Cardinality(Both(P, m, Q)) = Cardinality(P) + Cardinality(Q)
<1>. DEFINE R == Both(P, m, Q)
<1>0. \A j : j \in R <=> j \in P \/ \E k \in Q : j = m + k
  BY DEF Both
<1>. HIDE DEF R
<1>1. R \in SUBSET (1..(m + n))
  <2>1. ASSUME NEW j \in R
        PROVE  j \in 1..(m + n)
    <3>1. CASE j \in P
      <4>1. j \in 1..m
        BY <3>1
      <4>. QED  BY <4>1
    <3>2. CASE \E k \in Q : j = m + k
      <4>1. PICK k \in Q : j = m + k
        BY <3>2
      <4>2. k \in 1..n
        OBVIOUS
      <4>. QED  BY <4>1, <4>2
    <3>. QED  BY <1>0, <3>1, <3>2
  <2>. QED  BY <2>1
<1>2. ASSUME NEW i \in 0..m
      PROVE  Upto(R, i) = Upto(P, i)
  <2>1. \A k \in Q : k \in Nat /\ k >= 1 /\ ~(m + k <= i)
    OBVIOUS
  <2>2. \A j : j \in R /\ j <= i <=> j \in P /\ j <= i
    BY <1>0, <2>1
  <2>3. {j \in R : j <= i} = {j \in P : j <= i}
    BY <2>2
  <2>. QED  BY <2>3 DEF Upto
<1>. Numbered(P, m) /\ Numbered(Q, n)
  BY DEF Numbered
<1>3. /\ \A k \in Nat : Upto(Q, k) \in 0..Cardinality(Q)
      /\ Cardinality(Q) \in Nat /\ Upto(Q, 0) = 0
      /\ Upto(Q, n) = Cardinality(Q)
      /\ \A k \in Nat : Upto(Q, k + 1) = IF k + 1 \in Q THEN Upto(Q, k) + 1
                                         ELSE Upto(Q, k)
  BY UptoCounts
<1>4. Cardinality(P) \in Nat /\ Upto(P, m) = Cardinality(P)
  BY UptoCounts
<1>5. m + n \in Nat
  OBVIOUS
<1>6. /\ \A i \in Nat : Upto(R, i + 1) = IF i + 1 \in R THEN Upto(R, i) + 1
                                         ELSE Upto(R, i)
      /\ Upto(R, m + n) = Cardinality(R)
  <2>. DEFINE l == m + n
  <2>1. Numbered(R, l)
    BY <1>1, <1>5 DEF Numbered
  <2>. HIDE DEF l
  <2>2. Upto(R, l) = Cardinality(R)
    BY <2>1, UptoCounts
  <2>3. ASSUME NEW i \in Nat
        PROVE  Upto(R, i + 1) = IF i + 1 \in R THEN Upto(R, i) + 1
                                ELSE Upto(R, i)
    BY <2>1, UptoCounts
  <2>. QED  BY <2>2, <2>3 DEF l
<1>7. ASSUME NEW k \in Nat
      PROVE  m + (k + 1) \in R <=> k + 1 \in Q
  <2>1. m + (k + 1) \notin P
    OBVIOUS
  <2>2. \A j \in Q : j \in Nat
    OBVIOUS
  <2>3. m + (k + 1) \in R <=> \E j \in Q : m + (k + 1) = m + j
    BY <1>0, <2>1
  <2>. QED  BY <2>2, <2>3
<1>. DEFINE A == {k \in 0..n : Upto(R, m + k) = Cardinality(P) + Upto(Q, k)}
<1>8. 0 \in A
  <2>1. m \in 0..m /\ m + 0 = m /\ 0 \in 0..n
    OBVIOUS
  <2>. QED  BY <1>2, <1>3, <1>4, <2>1
<1>9. ASSUME NEW k \in Nat, k < n, k \in A
      PROVE  k + 1 \in A
  <2>1. m + k \in Nat /\ (m + k) + 1 = m + (k + 1) /\ k + 1 \in 0..n
    BY <1>9
  <2>2. Upto(R, (m + k) + 1) = IF (m + k) + 1 \in R THEN Upto(R, m + k) + 1
                               ELSE Upto(R, m + k)
    BY <1>6, <2>1
  <2>3. Upto(Q, k + 1) = IF k + 1 \in Q THEN Upto(Q, k) + 1 ELSE Upto(Q, k)
    BY <1>3
  <2>4. Upto(Q, k) \in Nat /\ Upto(R, m + k) = Cardinality(P) + Upto(Q, k)
    BY <1>3, <1>9
  <2>5. Upto(R, m + (k + 1)) = Cardinality(P) + Upto(Q, k + 1)
    BY <1>4, <1>7, <2>1, <2>2, <2>3, <2>4
  <2>. QED  BY <2>1, <2>5
<1>. HIDE DEF A
<1>10. \A k \in 0..n : k \in A
  BY <1>8, <1>9, CountUp
<1>11. \A k \in 0..n : Upto(R, m + k) = Cardinality(P) + Upto(Q, k)
  BY <1>10 DEF A
<1>12. n \in 0..n
  OBVIOUS
<1>13. Cardinality(R) = Cardinality(P) + Cardinality(Q)
  BY <1>3, <1>6, <1>11, <1>12
<1>. QED  BY <1>1, <1>2, <1>11, <1>13 DEF R

\* Places of a list.
PlacesOf(P, s) == P \in SUBSET (DOMAIN s)

\* Filtering one list after another: what each of them keeps.
LEMMA AmongJoined ==
    ASSUME NEW s, IsList(s), NEW t, IsList(t),
           NEW P, PlacesOf(P, s), NEW Q, PlacesOf(Q, t)
    PROVE  Among(s \o t, Both(P, Len(s), Q))
             = Among(s, P) \o Among(t, Q)
<1>. DEFINE m == Len(s)
            n == Len(t)
            R == Both(P, m, Q)
            u == s \o t
            v == Among(u, R)
            x == Among(s, P)
            y == Among(t, Q)
<1>1. /\ m = Len(s) /\ n = Len(t) /\ R = Both(P, m, Q)
      /\ u = s \o t /\ v = Among(u, R) /\ x = Among(s, P) /\ y = Among(t, Q)
  OBVIOUS
<1>0. SUFFICES v = x \o y
  OBVIOUS
<1>. HIDE DEF m, n, R, u, v, x, y
<1>2. /\ m \in Nat /\ DOMAIN s = 1..m /\ n \in Nat /\ DOMAIN t = 1..n
      /\ IsList(u) /\ DOMAIN u = 1..(m + n)
      /\ \A i \in 1..m : u[i] = s[i]
      /\ \A k \in 1..n : u[m + k] = t[k]
  BY <1>1, ListFacts, Joined, JoinedIsList
<1>3. /\ R \in SUBSET (1..(m + n))
      /\ \A i \in 0..m : Upto(R, i) = Upto(P, i)
      /\ \A k \in 0..n : Upto(R, m + k) = Cardinality(P) + Upto(Q, k)
      /\ Cardinality(R) = Cardinality(P) + Cardinality(Q)
  <2>1. P \in SUBSET (1..m) /\ Q \in SUBSET (1..n)
        /\ m \in Nat /\ n \in Nat
    BY <1>2 DEF PlacesOf
  <2>2. R \in SUBSET (1..(m + n))
        /\ Cardinality(R) = Cardinality(P) + Cardinality(Q)
    BY <2>1, UptoJoined DEF R
  <2>3. \A i \in 0..m : Upto(R, i) = Upto(P, i)
    BY <2>1, UptoJoined DEF R
  <2>4. \A k \in 0..n : Upto(R, m + k) = Cardinality(P) + Upto(Q, k)
    BY <2>1, UptoJoined DEF R
  <2>. QED  BY <2>2, <2>3, <2>4
<1>4. /\ s \in Seq(Range(s)) /\ t \in Seq(Range(t)) /\ u \in Seq(Range(u))
  BY <1>2 DEF IsList
<1>5. /\ IsList(x) /\ Len(x) = Cardinality(P) /\ Cardinality(P) \in Nat
      /\ \A i \in DOMAIN x : /\ Nth(P, i) \in P /\ Upto(P, Nth(P, i)) = i
                             /\ x[i] = s[Nth(P, i)]
  <2>1. P \in SUBSET (DOMAIN s)
    BY DEF PlacesOf
  <2>. QED  BY <1>1, <1>4, <2>1, AmongThese, ListOf
<1>6. /\ IsList(y) /\ Len(y) = Cardinality(Q) /\ Cardinality(Q) \in Nat
      /\ \A k \in DOMAIN y : /\ Nth(Q, k) \in Q /\ Upto(Q, Nth(Q, k)) = k
                             /\ y[k] = t[Nth(Q, k)]
  <2>1. Q \in SUBSET (DOMAIN t)
    BY DEF PlacesOf
  <2>. QED  BY <1>1, <1>4, <2>1, AmongThese, ListOf
<1>7. R \in SUBSET (DOMAIN u)
  BY <1>2, <1>3
<1>8. /\ IsList(v) /\ Len(v) = Cardinality(R)
      /\ \A i \in R : v[Upto(R, i)] = u[i]
  <2>1. u \in Seq(Range(u)) /\ v = Among(u, R)
    BY <1>1, <1>4
  <2>2. v \in Seq(Range(u)) /\ Len(v) = Cardinality(R)
    BY <1>7, <2>1, AmongThese
  <2>3. \A i \in R : v[Upto(R, i)] = u[i]
    BY <1>7, <2>1, AmongThese
  <2>. QED  BY <2>2, <2>3, ListOf
<1>9. (\A i \in P : i \in R) /\ \A k \in Q : m + k \in R
  BY <1>1 DEF Both
<1>10. ASSUME NEW i \in DOMAIN x
       PROVE  v[i] = x[i]
  <2>1. Nth(P, i) \in 0..m /\ Nth(P, i) \in 1..m
    BY <1>2, <1>5 DEF PlacesOf
  <2>2. Upto(R, Nth(P, i)) = i /\ Nth(P, i) \in R
    BY <1>3, <1>5, <1>9, <2>1
  <2>. QED  BY <1>2, <1>5, <1>8, <2>1, <2>2
<1>11. ASSUME NEW k \in DOMAIN y
       PROVE  v[Len(x) + k] = y[k]
  <2>. DEFINE j == Nth(Q, k)
  <2>1. j \in 0..n /\ j \in 1..n /\ j \in Q /\ y[k] = t[j] /\ Upto(Q, j) = k
    BY <1>2, <1>6 DEF PlacesOf
  <2>. HIDE DEF j
  <2>2. Upto(R, m + j) = Len(x) + k
    BY <1>3, <1>5, <2>1
  <2>3. v[Upto(R, m + j)] = u[m + j]
    BY <1>8, <1>9, <2>1
  <2>4. u[m + j] = t[j]
    BY <1>2, <2>1
  <2>. QED  BY <2>1, <2>2, <2>3, <2>4
<1>12. /\ IsList(x \o y) /\ Len(x \o y) = Len(x) + Len(y)
       /\ \A i \in DOMAIN x : (x \o y)[i] = x[i]
       /\ \A k \in DOMAIN y : (x \o y)[Len(x) + k] = y[k]
       /\ \A i \in DOMAIN (x \o y) :
             i \in DOMAIN x \/ \E k \in DOMAIN y : i = Len(x) + k
  <2>1. IsList(x) /\ IsList(y)
    BY <1>5, <1>6
  <2>2. ASSUME NEW i \in DOMAIN x
        PROVE  (x \o y)[i] = x[i]
    BY <2>1, Joined
  <2>3. ASSUME NEW k \in DOMAIN y
        PROVE  (x \o y)[Len(x) + k] = y[k]
    BY <2>1, Joined
  <2>4. \A i \in DOMAIN (x \o y) :
           i \in DOMAIN x \/ \E k \in DOMAIN y : i = Len(x) + k
    BY <2>1, Joined
  <2>5. IsList(x \o y) /\ Len(x \o y) = Len(x) + Len(y)
    BY <2>1, Joined, JoinedIsList
  <2>. QED  BY <2>2, <2>3, <2>4, <2>5
<1>13. Len(x \o y) = Len(v)
  BY <1>3, <1>5, <1>6, <1>8, <1>12
<1>14. \A i \in DOMAIN (x \o y) : (x \o y)[i] = v[i]
  BY <1>10, <1>11, <1>12
<1>15. x \o y = v
  BY <1>8, <1>12, <1>13, <1>14, SameList
<1>. QED  BY <1>15

\* Filtering nothing, and one element.
LEMMA AmongShort ==
    /\ \A s : Among(s, {}) = << >>
    /\ \A e : Among(<<e>>, {1}) = <<e>>
<1>1. Cardinality({}) = 0
  BY FS_EmptySet
<1>2. \A s : Among(s, {}) = << >>
  BY <1>1 DEF Among
<1>3. ASSUME NEW e
      PROVE  Among(<<e>>, {1}) = <<e>>
  <2>. DEFINE a == Among(<<e>>, {1})
  <2>1. <<e>> \in Seq({e}) /\ DOMAIN <<e>> = {1}
    OBVIOUS
  <2>2. Cardinality({1}) = 1
    BY FS_Singleton
  <2>0. {1} \in SUBSET (DOMAIN <<e>>)
    BY <2>1
  <2>3. /\ a \in Seq({e}) /\ Len(a) = 1
        /\ \A n \in DOMAIN a : Nth({1}, n) \in {1} /\ a[n] = <<e>>[Nth({1}, n)]
    <3>1. ASSUME NEW s, s = <<e>>, NEW P, P = {1}
          PROVE  /\ Among(s, P) \in Seq({e}) /\ Len(Among(s, P)) = 1
                 /\ \A n \in DOMAIN Among(s, P) :
                       Nth(P, n) \in P /\ Among(s, P)[n] = s[Nth(P, n)]
      <4>1. s \in Seq({e}) /\ P \in SUBSET (DOMAIN s)
            /\ Cardinality(P) = 1
        BY <2>0, <2>1, <2>2, <3>1
      <4>. DEFINE T == {e}
      <4>2. s \in Seq(T)
        BY <4>1
      <4>. HIDE DEF T
      <4>3. /\ Among(s, P) \in Seq(T) /\ Len(Among(s, P)) = Cardinality(P)
            /\ \A n \in DOMAIN Among(s, P) :
                  Nth(P, n) \in P /\ Among(s, P)[n] = s[Nth(P, n)]
        BY ONLY <4>1, <4>2, AmongThese, ZenonT(40)
      <4>. QED  BY <4>1, <4>3 DEF T
    <3>. QED  BY <3>1
  <2>. HIDE DEF a
  <2>4. a[1] = e
    BY <2>3
  <2>5. a = <<e>>
    BY <2>3, <2>4
  <2>. QED  BY <2>5 DEF a
<1>. QED  BY <1>2, <1>3

\* Nothing behind a list.
LEMMA JoinedNothing ==
    ASSUME NEW s, IsList(s)
    PROVE  s \o << >> = s
<1>1. s \in Seq(Range(s))
  BY DEF IsList
<1>. QED  BY <1>1

\* Filtering a list with one more element.
LEMMA AmongOneMore ==
    ASSUME NEW s, IsList(s), NEW e, NEW P, PlacesOf(P, s)
    PROVE  /\ Among(s \o <<e>>, P) = Among(s, P)
           /\ Among(s \o <<e>>, P \cup {Len(s) + 1}) = Among(s, P) \o <<e>>
           /\ IsList(Among(s, P))
<1>. DEFINE t == <<e>>
<1>1. IsList(t) /\ PlacesOf({}, t) /\ PlacesOf({1}, t)
  BY ShortLists DEF PlacesOf
<1>. HIDE DEF t
<1>2. IsList(Among(s, P))
  BY AmongThese, ListOf DEF IsList, PlacesOf
<1>3. ASSUME NEW Q, PlacesOf(Q, t)
      PROVE  Among(s \o t, Both(P, Len(s), Q)) = Among(s, P) \o Among(t, Q)
  BY <1>1, <1>3, AmongJoined
<1>4. /\ Among(s \o t, Both(P, Len(s), {})) = Among(s, P) \o Among(t, {})
      /\ Among(s \o t, Both(P, Len(s), {1})) = Among(s, P) \o Among(t, {1})
  BY <1>1, <1>3
<1>5. /\ Both(P, Len(s), {}) = P
      /\ Both(P, Len(s), {1}) = P \cup {Len(s) + 1}
  BY DEF Both
<1>6. Among(t, {}) = << >> /\ Among(t, {1}) = t
  BY AmongShort DEF t
<1>. QED  BY <1>2, <1>4, <1>5, <1>6, JoinedNothing DEF t

(* The stream, read record by record. *)

\* One record more, under the protocol p.
ReadAs(p, r, e) == IF p = "native" THEN ReadNative(r, e) ELSE ReadJson(r, e)

\* What has been read of a stream, its open turn not flushed.
Told(p, l) == FoldLeft(LAMBDA r, e : ReadAs(p, r, e), Blank, l)

\* The reading of the first n records, as a recursive function of sets of
\* places: the form in which FoldLeft computes it.
Reads(g, p, l, n) ==
    g = [S \in SUBSET (1..n) |->
            IF S = {} THEN Blank
            ELSE ReadAs(p, g[S \ {Max(S)}], l[Max(S)])]

\* There is one.
LEMMA ReadsExists ==
    ASSUME NEW p, NEW l, NEW m \in Nat
    PROVE  \E g : Reads(g, p, l, m)
<1>. DEFINE A == {n \in 0..m : \E g : Reads(g, p, l, n)}
<1>1. 0 \in A
  <2>. DEFINE g == [S \in SUBSET (1..0) |-> Blank]
  <2>1. \A S \in SUBSET (1..0) : S = {}
    OBVIOUS
  <2>2. Reads(g, p, l, 0)
    <3>. HIDE DEF Blank
    <3>. QED  BY <2>1 DEF Reads
  <2>. QED  BY <2>2
<1>2. ASSUME NEW n \in Nat, n < m, n \in A
      PROVE  n + 1 \in A
  <2>1. PICK g : Reads(g, p, l, n)
    BY <1>2
  <2>. DEFINE h == [S \in SUBSET (1..(n + 1)) |->
                       IF n + 1 \in S
                       THEN ReadAs(p, g[S \ {n + 1}], l[n + 1])
                       ELSE g[S]]
  <2>2. \A S \in SUBSET (1..(n + 1)) :
           /\ S \ {n + 1} \in SUBSET (1..n)
           /\ n + 1 \notin S => S \in SUBSET (1..n)
           /\ n + 1 \in S => Max(S) = n + 1
    <3>1. \A x \in 1..(n + 1) : x = n + 1 \/ x \in 1..n
      BY <1>2
    <3>2. ASSUME NEW S \in SUBSET (1..(n + 1)), n + 1 \in S
          PROVE  Max(S) = n + 1
      <4>1. \A y \in S : y \in Nat /\ n + 1 >= y
        BY <1>2
      <4>2. \A x \in S : (\A y \in S : x >= y) => x = n + 1
        BY <3>2, <4>1
      <4>. QED  BY <3>2, <4>1, <4>2 DEF Max
    <3>. QED  BY <3>1, <3>2
  <2>3. \A S \in SUBSET (1..n) : S \in SUBSET (1..(n + 1)) /\ h[S] = g[S]
    <3>1. \A S \in SUBSET (1..n) : S \in SUBSET (1..(n + 1)) /\ n + 1 \notin S
      BY <1>2
    <3>. QED  BY <3>1
  <2>4. ASSUME NEW S \in SUBSET (1..(n + 1))
        PROVE  h[S] = IF S = {} THEN Blank
                      ELSE ReadAs(p, h[S \ {Max(S)}], l[Max(S)])
    <3>1. CASE n + 1 \in S
      <4>1. h[S] = ReadAs(p, g[S \ {n + 1}], l[n + 1])
        BY <3>1
      <4>2. g[S \ {n + 1}] = h[S \ {n + 1}] /\ Max(S) = n + 1 /\ S # {}
        BY <2>2, <2>3, <3>1
      <4>. HIDE DEF h
      <4>. QED  BY <4>1, <4>2
    <3>2. CASE n + 1 \notin S
      <4>1. S \in SUBSET (1..n) /\ h[S] = g[S]
        BY <2>2, <2>3, <3>2
      <4>2. S \ {Max(S)} \in SUBSET (1..n)
        BY <4>1
      <4>3. h[S \ {Max(S)}] = g[S \ {Max(S)}]
        BY <2>3, <4>2
      <4>4. g[S] = IF S = {} THEN Blank
                   ELSE ReadAs(p, g[S \ {Max(S)}], l[Max(S)])
        BY <2>1, <4>1 DEF Reads
      <4>. HIDE DEF h
      <4>. QED  BY <4>1, <4>3, <4>4
    <3>. QED  BY <3>1, <3>2
  <2>5. h = [S \in SUBSET (1..(n + 1)) |-> h[S]]
    OBVIOUS
  <2>. HIDE DEF h
  <2>6. Reads(h, p, l, n + 1)
    BY <2>4, <2>5 DEF Reads
  <2>7. n + 1 \in 0..m
    BY <1>2
  <2>. QED  BY <2>6, <2>7
<1>. HIDE DEF A
<1>3. m \in A
  <2>1. \A k \in 0..m : k \in A
    BY <1>1, <1>2, CountUp
  <2>. QED  BY <2>1
<1>. QED  BY <1>3 DEF A

\* The reading is such a function's value.
LEMMA ToldIsRead ==
    ASSUME NEW p, NEW l, IsList(l)
    PROVE  \E g : Reads(g, p, l, Len(l)) /\ Told(p, l) = g[1..Len(l)]
<1>. DEFINE m == Len(l)
            One(r, i) == ReadAs(p, r, l[i])
            Runs(f) == f = [s \in SUBSET (1..m) |->
                               IF s = {} THEN Blank
                               ELSE One(f[s \ {Max(s)}], Max(s))]
            iter == CHOOSE f : Runs(f)
            all == Told(p, l)
<1>1. m \in Nat /\ DOMAIN l = 1..m
  BY ListFacts
<1>2. all = iter[1..m]
  BY <1>1 DEF Told, FoldLeft, MapThenFoldSet
<1>3. \A f : Runs(f) <=> Reads(f, p, l, m)
  BY DEF Reads
<1>. HIDE DEF all, Runs, m
<1>4. \E f : Runs(f)
  BY <1>1, <1>3, ReadsExists
<1>5. Runs(iter)
  BY <1>4
<1>. HIDE DEF iter
<1>6. Reads(iter, p, l, m) /\ all = iter[1..m]
  BY <1>2, <1>3, <1>5
<1>. QED  BY <1>6 DEF all, m

\* The last place of 1..k, and what comes before it.
LEMMA ReadUpto ==
    ASSUME NEW g, NEW p, NEW l, NEW n \in Nat, Reads(g, p, l, n),
           NEW k \in Nat, k <= n
    PROVE  g[1..k] = IF k = 0 THEN Blank ELSE ReadAs(p, g[1..(k - 1)], l[k])
<1>1. 1..k \in SUBSET (1..n)
  OBVIOUS
<1>2. g[1..k] = IF 1..k = {} THEN Blank
                ELSE ReadAs(p, g[(1..k) \ {Max(1..k)}], l[Max(1..k)])
  BY <1>1 DEF Reads
<1>3. CASE k = 0
  <2>1. 1..k = {}
    BY <1>3
  <2>. QED  BY <1>2, <1>3, <2>1
<1>4. CASE k > 0
  <2>. DEFINE K == 1..k
              J == 1..(k - 1)
  <2>1. Max(K) = k /\ K \ {k} = J /\ K # {}
    BY <1>4, MaxUpto
  <2>2. g[K] = IF K = {} THEN Blank
               ELSE ReadAs(p, g[K \ {Max(K)}], l[Max(K)])
    BY <1>2
  <2>3. k # 0
    BY <1>4
  <2>. HIDE DEF K, J
  <2>4. g[K] = ReadAs(p, g[J], l[k])
    BY <2>1, <2>2
  <2>. QED  BY <2>3, <2>4 DEF K, J
<1>. QED  BY <1>3, <1>4

\* Nothing read; and one record more is read after all that came before it.
LEMMA ToldBlank == \A p : Told(p, << >>) = Blank
<1>. SUFFICES ASSUME NEW p
              PROVE  Told(p, << >>) = Blank
  OBVIOUS
<1>1. PICK g : Reads(g, p, << >>, 0) /\ Told(p, << >>) = g[1..0]
  BY ShortLists, ToldIsRead
<1>2. g[1..0] = Blank
  BY <1>1, ReadUpto
<1>. QED  BY <1>1, <1>2

LEMMA ToldGrows ==
    ASSUME NEW p, NEW l, IsList(l), NEW e
    PROVE  Told(p, l \o <<e>>) = ReadAs(p, Told(p, l), e)
<1>. DEFINE m == Len(l)
            u == l \o <<e>>
            t == <<e>>
<1>0. IsList(t) /\ Len(t) = 1 /\ DOMAIN t = {1} /\ t[1] = e /\ u = l \o t
  BY ShortLists
<1>. HIDE DEF t, u
<1>1. m \in Nat /\ DOMAIN l = 1..m
  BY ListFacts
<1>2. Len(u) = m + 1 /\ IsList(u)
  BY <1>0, Joined, JoinedIsList
<1>3. \A i \in 1..m : u[i] = l[i]
  BY <1>0, <1>1, Joined
<1>4. u[m + 1] = e
  <2>1. u[m + 1] = t[1]
    BY <1>0, Joined
  <2>. QED  BY <1>0, <2>1
<1>. HIDE DEF m
<1>5. PICK g : Reads(g, p, l, m) /\ Told(p, l) = g[1..m]
  BY ToldIsRead DEF m
<1>6. PICK h : Reads(h, p, u, m + 1) /\ Told(p, u) = h[1..(m + 1)]
  BY <1>2, ToldIsRead
<1>. DEFINE A == {k \in 0..m : g[1..k] = h[1..k]}
<1>7. 0 \in A
  BY <1>1, <1>5, <1>6, ReadUpto
<1>8. ASSUME NEW k \in Nat, k < m, k \in A
      PROVE  k + 1 \in A
  <2>1. k + 1 \in Nat /\ k + 1 <= m /\ k + 1 <= m + 1 /\ (k + 1) - 1 = k
        /\ k + 1 \in 1..m /\ m + 1 \in Nat /\ k + 1 # 0
    BY <1>1, <1>8
  <2>2. g[1..(k + 1)] = ReadAs(p, g[1..k], l[k + 1])
    BY <1>1, <1>5, <2>1, ReadUpto
  <2>3. h[1..(k + 1)] = ReadAs(p, h[1..k], u[k + 1])
    BY <1>1, <1>6, <2>1, ReadUpto
  <2>4. g[1..k] = h[1..k] /\ l[k + 1] = u[k + 1]
    BY <1>3, <1>8, <2>1
  <2>5. g[1..(k + 1)] = h[1..(k + 1)]
    BY <2>2, <2>3, <2>4
  <2>. QED  BY <1>1, <2>1, <2>5
<1>. HIDE DEF A
<1>9. m \in A
  <2>1. \A k \in 0..m : k \in A
    BY <1>1, <1>7, <1>8, CountUp
  <2>. QED  BY <1>1, <2>1
<1>10. g[1..m] = h[1..m]
  BY <1>9 DEF A
<1>11. h[1..(m + 1)] = ReadAs(p, h[1..m], u[m + 1])
  <2>1. m + 1 \in Nat /\ (m + 1) - 1 = m /\ m + 1 # 0 /\ m + 1 <= m + 1
    BY <1>1
  <2>. QED  BY <1>6, <2>1, ReadUpto
<1>. QED  BY <1>4, <1>5, <1>6, <1>10, <1>11 DEF u

(* Records of a kind, and the results a conversation reports. *)

\* One record more of a stream.
LEMMA OfMore ==
    ASSUME NEW l, IsList(l), NEW e, NEW event
    PROVE  /\ Of(event, l \o <<e>>) = IF e.event = event
                                      THEN Of(event, l) \o <<e>>
                                      ELSE Of(event, l)
           /\ IsList(Of(event, l))
<1>. DEFINE t == <<e>>
            u == l \o t
            P == {i \in DOMAIN l : l[i].event = event}
            R == {i \in DOMAIN u : u[i].event = event}
            n == Len(l) + 1
<1>1. IsList(t) /\ Len(t) = 1 /\ DOMAIN t = {1} /\ t[1] = e
  BY ShortLists
<1>. HIDE DEF t
<1>2. Len(l) \in Nat /\ DOMAIN l = 1..Len(l)
  BY ListFacts
<1>3. DOMAIN u = 1..n
  <2>1. DOMAIN u = 1..(Len(l) + Len(t))
    BY <1>1, Joined
  <2>. QED  BY <1>1, <2>1
<1>4. \A i \in DOMAIN l : u[i] = l[i]
  BY <1>1, Joined
<1>5. u[n] = e
  <2>1. u[Len(l) + 1] = t[1]
    BY <1>1, Joined
  <2>. QED  BY <1>1, <2>1
<1>. HIDE DEF u
<1>6. R = IF e.event = event THEN P \cup {n} ELSE P
  <2>1. \A i : i \in 1..n <=> i \in 1..Len(l) \/ i = n
    BY <1>2
  <2>2. n \notin 1..Len(l)
    BY <1>2
  <2>. HIDE DEF n
  <2>. QED  BY <1>2, <1>3, <1>4, <1>5, <2>1, <2>2
<1>7. PlacesOf(P, l)
  BY DEF PlacesOf
<1>8. Of(event, l) = Among(l, P) /\ Of(event, u) = Among(u, R)
  BY DEF Of
<1>. HIDE DEF P, R
<1>9. /\ Among(u, P) = Among(l, P)
      /\ Among(u, P \cup {n}) = Among(l, P) \o t
      /\ IsList(Among(l, P))
  BY <1>7, AmongOneMore DEF t, u
<1>. QED  BY <1>6, <1>8, <1>9 DEF t, u

\* What a list of records is about.
AboutOf(s) == [i \in DOMAIN s |-> s[i].about]

LEMMA AboutJoined ==
    ASSUME NEW s, IsList(s), NEW t, IsList(t)
    PROVE  /\ AboutOf(s \o t) = AboutOf(s) \o AboutOf(t)
           /\ IsList(AboutOf(s)) /\ Len(AboutOf(s)) = Len(s)
<1>. DEFINE a == AboutOf(s)
            b == AboutOf(t)
            u == s \o t
            c == AboutOf(u)
<1>1. /\ Len(s) \in Nat /\ DOMAIN s = 1..Len(s)
      /\ Len(t) \in Nat /\ DOMAIN t = 1..Len(t)
  BY ListFacts
<1>2. DOMAIN u = 1..(Len(s) + Len(t)) /\ Len(u) = Len(s) + Len(t)
  BY Joined
<1>3. \A i \in DOMAIN s : u[i] = s[i]
  BY Joined
<1>4. \A k \in DOMAIN t : u[Len(s) + k] = t[k]
  BY Joined
<1>. HIDE DEF u
<1>5. \A n \in Nat : \A x :
         x = [k \in 1..n |-> x[k]] =>
            IsList(x) /\ Len(x) = n /\ DOMAIN x = 1..n
  BY Listed
<1>6. IsList(a) /\ Len(a) = Len(s) /\ DOMAIN a = 1..Len(s)
  <2>1. a = [k \in 1..Len(s) |-> a[k]]
    BY <1>1 DEF AboutOf
  <2>. HIDE DEF a
  <2>. QED  BY <1>1, <1>5, <2>1
<1>7. IsList(b) /\ Len(b) = Len(t) /\ DOMAIN b = 1..Len(t)
  <2>1. b = [k \in 1..Len(t) |-> b[k]]
    BY <1>1 DEF AboutOf
  <2>. HIDE DEF b
  <2>. QED  BY <1>1, <1>5, <2>1
<1>8. IsList(c) /\ Len(c) = Len(s) + Len(t) /\ DOMAIN c = DOMAIN u
  <2>1. c = [k \in 1..(Len(s) + Len(t)) |-> c[k]]
    BY <1>2 DEF AboutOf
  <2>2. Len(s) + Len(t) \in Nat
    BY <1>1
  <2>. HIDE DEF c
  <2>. QED  BY <1>2, <1>5, <2>1, <2>2
<1>9. /\ \A i \in DOMAIN s : a[i] = s[i].about
      /\ \A k \in DOMAIN t : b[k] = t[k].about
      /\ \A i \in DOMAIN u : c[i] = u[i].about
  BY DEF AboutOf
<1>. HIDE DEF a, b, c
<1>17. IsList(a) /\ IsList(b)
  BY <1>6, <1>7
<1>10. Len(a \o b) = Len(c) /\ IsList(a \o b)
  <2>1. Len(a \o b) = Len(a) + Len(b)
    BY <1>17, Joined
  <2>. QED  BY <1>6, <1>7, <1>8, <1>17, <2>1, JoinedIsList
<1>11. DOMAIN (a \o b) = DOMAIN c
  <2>1. DOMAIN (a \o b) = 1..(Len(a) + Len(b))
    BY <1>17, Joined
  <2>. QED  BY <1>2, <1>6, <1>7, <1>8, <2>1
<1>12. ASSUME NEW i \in DOMAIN a
       PROVE  (a \o b)[i] = c[i]
  <2>1. (a \o b)[i] = a[i]
    BY <1>6, <1>7, Joined
  <2>2. i \in DOMAIN s /\ i \in DOMAIN u
    BY <1>1, <1>2, <1>6
  <2>. QED  BY <1>3, <1>9, <2>1, <2>2
<1>13. ASSUME NEW k \in DOMAIN b
       PROVE  (a \o b)[Len(a) + k] = c[Len(a) + k]
  <2>1. (a \o b)[Len(a) + k] = b[k]
    BY <1>6, <1>7, Joined
  <2>2. k \in DOMAIN t /\ Len(s) + k \in DOMAIN u
    BY <1>1, <1>2, <1>7
  <2>. QED  BY <1>4, <1>6, <1>9, <2>1, <2>2
<1>14. \A i \in DOMAIN (a \o b) :
          i \in DOMAIN a \/ \E k \in DOMAIN b : i = Len(a) + k
  BY <1>6, <1>7, Joined
<1>15. \A i \in DOMAIN (a \o b) : (a \o b)[i] = c[i]
  BY <1>12, <1>13, <1>14
<1>16. a \o b = c
  BY <1>8, <1>10, <1>15, SameList
<1>. QED  BY <1>6, <1>16 DEF a, b, c, u

\* The places of a conversation that report a result.
Reporting(ms) == {i \in DOMAIN ms : ms[i].role # "assistant"
                                    /\ ms[i].what = "result"}

LEMMA ReportsAre ==
    ASSUME NEW ms, IsList(ms)
    PROVE  /\ Reports(ms) = AboutOf(Among(ms, Reporting(ms)))
           /\ PlacesOf(Reporting(ms), ms)
           /\ IsList(Among(ms, Reporting(ms))) /\ IsList(Reports(ms))
<1>1. PlacesOf(Reporting(ms), ms)
  BY DEF PlacesOf, Reporting
<1>2. IsList(Among(ms, Reporting(ms)))
  BY <1>1, AmongOneMore
<1>3. Reports(ms) = AboutOf(Among(ms, Reporting(ms)))
  BY DEF Reports, AboutOf, Reporting
<1>4. IsList(AboutOf(Among(ms, Reporting(ms))))
  BY <1>2, AboutJoined
<1>. QED  BY <1>1, <1>2, <1>3, <1>4

\* The results of a conversation that goes on.
LEMMA ReportsJoined ==
    ASSUME NEW ms, IsList(ms), NEW new, IsList(new)
    PROVE  Reports(ms \o new) = Reports(ms) \o Reports(new)
<1>. DEFINE u == ms \o new
            P == Reporting(ms)
            Q == Reporting(new)
            x == Among(ms, P)
            y == Among(new, Q)
<1>1. IsList(u)
  BY JoinedIsList
<1>2. Reporting(u) = Both(P, Len(ms), Q)
  <2>1. \A i \in DOMAIN ms : u[i] = ms[i]
    BY Joined
  <2>2. \A k \in DOMAIN new : u[Len(ms) + k] = new[k]
    BY Joined
  <2>3. DOMAIN u = 1..(Len(ms) + Len(new))
    BY Joined
  <2>4. \A i \in DOMAIN u :
           i \in DOMAIN ms \/ \E k \in DOMAIN new : i = Len(ms) + k
    BY Joined
  <2>5. /\ Len(ms) \in Nat /\ DOMAIN ms = 1..Len(ms)
        /\ Len(new) \in Nat /\ DOMAIN new = 1..Len(new)
    BY ListFacts
  <2>. HIDE DEF u
  <2>6. /\ \A i \in DOMAIN ms : i \in DOMAIN u
        /\ \A k \in DOMAIN new : Len(ms) + k \in DOMAIN u
    BY <2>3, <2>5
  <2>7. ASSUME NEW i \in Reporting(u)
        PROVE  i \in Both(P, Len(ms), Q)
    <3>1. i \in DOMAIN u /\ u[i].role # "assistant" /\ u[i].what = "result"
      BY DEF Reporting
    <3>2. CASE i \in DOMAIN ms
      BY <2>1, <3>1, <3>2 DEF Reporting, Both
    <3>3. CASE \E k \in DOMAIN new : i = Len(ms) + k
      <4>1. PICK k \in DOMAIN new : i = Len(ms) + k
        BY <3>3
      <4>2. k \in Q
        BY <2>2, <3>1, <4>1 DEF Reporting
      <4>. QED  BY <4>1, <4>2 DEF Both
    <3>. QED  BY <2>4, <3>1, <3>2, <3>3
  <2>8. ASSUME NEW i \in Both(P, Len(ms), Q)
        PROVE  i \in Reporting(u)
    <3>1. CASE i \in P
      BY <2>1, <2>6, <3>1 DEF Reporting
    <3>2. CASE \E k \in Q : i = Len(ms) + k
      <4>1. PICK k \in Q : i = Len(ms) + k
        BY <3>2
      <4>2. k \in DOMAIN new /\ u[i] = new[k] /\ i \in DOMAIN u
        BY <2>2, <2>6, <4>1 DEF Reporting
      <4>3. new[k].role # "assistant" /\ new[k].what = "result"
        BY DEF Reporting
      <4>. QED  BY <4>2, <4>3 DEF Reporting
    <3>. QED  BY <3>1, <3>2 DEF Both
  <2>. QED  BY <2>7, <2>8
<1>3. /\ PlacesOf(P, ms) /\ IsList(x) /\ Reports(ms) = AboutOf(x)
      /\ PlacesOf(Q, new) /\ IsList(y) /\ Reports(new) = AboutOf(y)
  BY ReportsAre
<1>4. Reports(u) = AboutOf(Among(u, Reporting(u)))
  BY <1>1, ReportsAre
<1>. HIDE DEF u, P, Q
<1>5. Among(u, Both(P, Len(ms), Q)) = x \o y
  BY <1>3, AmongJoined DEF u
<1>. HIDE DEF x, y
<1>6. AboutOf(x \o y) = AboutOf(x) \o AboutOf(y)
  BY <1>3, AboutJoined
<1>. QED  BY <1>2, <1>3, <1>4, <1>5, <1>6 DEF u

\* A conversation that reports nothing, and a message that does.
LEMMA NothingReported ==
    ASSUME NEW ms, IsList(ms),
           \A i \in DOMAIN ms : ~(ms[i].role # "assistant"
                                  /\ ms[i].what = "result")
    PROVE  Reports(ms) = << >>
<1>1. Reporting(ms) = {}
  BY DEF Reporting
<1>2. Among(ms, Reporting(ms)) = << >>
  BY <1>1, AmongShort
<1>3. AboutOf(<< >>) = << >>
  BY DEF AboutOf
<1>4. Reports(ms) = AboutOf(Among(ms, Reporting(ms)))
  BY ReportsAre
<1>. QED  BY <1>2, <1>3, <1>4

LEMMA OneReported ==
    ASSUME NEW m, m.role # "assistant", m.what = "result"
    PROVE  Reports(<<m>>) = <<m.about>>
<1>. DEFINE t == <<m>>
<1>1. IsList(t) /\ DOMAIN t = {1} /\ t[1] = m
  BY ShortLists
<1>. HIDE DEF t
<1>2. Reporting(t) = {1}
  BY <1>1 DEF Reporting
<1>3. Among(t, {1}) = t
  BY AmongShort DEF t
<1>4. AboutOf(t) = <<m.about>>
  BY <1>1 DEF AboutOf
<1>5. Reports(t) = AboutOf(Among(t, Reporting(t)))
  BY <1>1, ReportsAre
<1>. QED  BY <1>2, <1>3, <1>4, <1>5 DEF t

\* The answers of the open turn that are results.
Heard(answers) ==
    AboutOf(Among(answers, {i \in DOMAIN answers :
                               answers[i].what = "result"}))

LEMMA HeardMore ==
    ASSUME NEW s, IsList(s), NEW a
    PROVE  /\ Heard(s \o <<a>>) = IF a.what = "result"
                                  THEN Heard(s) \o <<a.about>> ELSE Heard(s)
           /\ IsList(Heard(s))
<1>. DEFINE t == <<a>>
            u == s \o t
            P == {i \in DOMAIN s : s[i].what = "result"}
            R == {i \in DOMAIN u : u[i].what = "result"}
            n == Len(s) + 1
            x == Among(s, P)
<1>1. IsList(t) /\ Len(t) = 1 /\ DOMAIN t = {1} /\ t[1] = a
  BY ShortLists
<1>2. AboutOf(t) = <<a.about>>
  BY <1>1 DEF AboutOf
<1>. HIDE DEF t
<1>3. Len(s) \in Nat /\ DOMAIN s = 1..Len(s)
  BY ListFacts
<1>4. DOMAIN u = 1..n
  <2>1. DOMAIN u = 1..(Len(s) + Len(t))
    BY <1>1, Joined
  <2>. QED  BY <1>1, <2>1
<1>5. \A i \in DOMAIN s : u[i] = s[i]
  BY <1>1, Joined
<1>6. u[n] = a
  <2>1. u[Len(s) + 1] = t[1]
    BY <1>1, Joined
  <2>. QED  BY <1>1, <2>1
<1>. HIDE DEF u
<1>7. R = IF a.what = "result" THEN P \cup {n} ELSE P
  <2>1. \A i : i \in 1..n <=> i \in 1..Len(s) \/ i = n
    BY <1>3
  <2>2. n \notin 1..Len(s)
    BY <1>3
  <2>. HIDE DEF n
  <2>. QED  BY <1>3, <1>4, <1>5, <1>6, <2>1, <2>2
<1>8. PlacesOf(P, s)
  BY DEF PlacesOf
<1>9. Heard(s) = AboutOf(x) /\ Heard(u) = AboutOf(Among(u, R))
  BY DEF Heard
<1>. HIDE DEF P, R
<1>10. /\ Among(u, P) = x
       /\ Among(u, P \cup {n}) = x \o t
       /\ IsList(x)
  BY <1>8, AmongOneMore DEF t, u
<1>. HIDE DEF x
<1>11. AboutOf(x \o t) = AboutOf(x) \o AboutOf(t) /\ IsList(AboutOf(x))
  BY <1>1, <1>10, AboutJoined
<1>. QED  BY <1>2, <1>7, <1>9, <1>10, <1>11 DEF t, u

\* A turn that is flushed reports what was heard in it.
LEMMA PairedReports ==
    ASSUME NEW calls, IsList(calls), NEW answers, IsList(answers),
           Len(answers) <= Len(calls)
    PROVE  Reports(Paired(calls, answers)) = Heard(answers)
<1>. DEFINE ms == Paired(calls, answers)
            P == {i \in DOMAIN answers : answers[i].what = "result"}
            x == Among(ms, P)
            y == Among(answers, P)
<1>1. /\ Len(calls) \in Nat /\ Len(answers) \in Nat
      /\ DOMAIN answers = 1..Len(answers)
  BY ListFacts
<1>2. Min({Len(calls), Len(answers)}) = Len(answers)
  BY <1>1 DEF Min
<1>3. /\ ms = [k \in 1..Len(answers) |->
                  Tool(calls[k].id, answers[k].about, answers[k].what)]
  BY <1>2 DEF Paired
<1>4. IsList(ms) /\ DOMAIN ms = 1..Len(answers)
  <2>1. ms = [k \in 1..Len(answers) |-> ms[k]]
    BY <1>3
  <2>. HIDE DEF ms
  <2>. QED  BY <1>1, <2>1, Listed
<1>5. \A k \in DOMAIN answers :
         /\ ms[k].role # "assistant"
         /\ ms[k].about = answers[k].about /\ ms[k].what = answers[k].what
  BY <1>1, <1>3 DEF Tool
<1>. HIDE DEF ms
<1>6. Reporting(ms) = P
  BY <1>1, <1>4, <1>5 DEF Reporting
<1>7. P \in SUBSET (DOMAIN ms) /\ P \in SUBSET (DOMAIN answers)
  BY <1>1, <1>4
<1>. HIDE DEF P
<1>8. /\ DOMAIN x = 1..Cardinality(P) /\ DOMAIN y = 1..Cardinality(P)
      /\ \A i \in DOMAIN x : x[i] = ms[Nth(P, i)]
      /\ \A i \in DOMAIN y : y[i] = answers[Nth(P, i)]
  BY DEF Among
<1>9. \A i \in DOMAIN y : Nth(P, i) \in P
  <2>1. answers \in Seq(Range(answers))
    BY DEF IsList
  <2>. QED  BY <1>7, <2>1, AmongThese
<1>. HIDE DEF x, y
<1>10. \A i \in DOMAIN y : x[i].about = y[i].about
  BY <1>5, <1>7, <1>8, <1>9
<1>11. AboutOf(x) = AboutOf(y)
  BY <1>8, <1>10 DEF AboutOf
<1>12. Reports(ms) = AboutOf(Among(ms, Reporting(ms)))
  BY <1>4, ReportsAre
<1>13. Heard(answers) = AboutOf(y)
  BY DEF Heard, P, y
<1>. QED  BY <1>6, <1>11, <1>12, <1>13 DEF ms, x

(* What each record does to what has been read. *)

Reading(i, n, st, ms, calls, answers, notes) ==
    [index |-> i, repairs |-> n, store |-> st, messages |-> ms,
     calls |-> calls, answers |-> answers, notes |-> notes]

Reader(r) ==
    /\ r = Reading(r.index, r.repairs, r.store, r.messages, r.calls,
                   r.answers, r.notes)
    /\ r.index \in Nat /\ r.repairs \in Nat /\ r.notes \in Nat
    /\ IsList(r.store) /\ IsList(r.messages)
    /\ IsList(r.calls) /\ IsList(r.answers)

\* What a flush says.
Closing(r) == IF r.calls = << >> THEN EmptyTurns(r.notes)
              ELSE <<Turn(r.calls)>> \o Paired(r.calls, r.answers)
                                     \o Notes(r.notes)

\* One field of it written.
LEMMA Written ==
    ASSUME NEW i, NEW n, NEW st, NEW ms, NEW calls, NEW answers, NEW notes,
           NEW r, r = Reading(i, n, st, ms, calls, answers, notes), NEW v
    PROVE  /\ r.index = i /\ r.repairs = n /\ r.store = st /\ r.messages = ms
           /\ r.calls = calls /\ r.answers = answers /\ r.notes = notes
           /\ [r EXCEPT !.index = v]
                = Reading(v, n, st, ms, calls, answers, notes)
           /\ [r EXCEPT !.repairs = v]
                = Reading(i, v, st, ms, calls, answers, notes)
           /\ [r EXCEPT !.store = v]
                = Reading(i, n, v, ms, calls, answers, notes)
           /\ [r EXCEPT !.messages = v]
                = Reading(i, n, st, v, calls, answers, notes)
           /\ [r EXCEPT !.calls = v]
                = Reading(i, n, st, ms, v, answers, notes)
           /\ [r EXCEPT !.answers = v]
                = Reading(i, n, st, ms, calls, v, notes)
           /\ [r EXCEPT !.notes = v]
                = Reading(i, n, st, ms, calls, answers, v)
  BY DEF Reading

\* What the helpers of the reading do.
LEMMA Helped ==
    ASSUME NEW i, NEW n, NEW st, NEW ms, NEW calls, NEW answers, NEW notes,
           NEW r, r = Reading(i, n, st, ms, calls, answers, notes)
    PROVE  /\ \A new : Says(r, new) = Reading(i, n, st, ms \o new, calls,
                                              answers, notes)
           /\ \A c : Stores(r, c) = Reading(i, n, Append(st, c), ms, calls,
                                            answers, notes)
           /\ \A c : Buffers(r, c)
                       = Reading(i, n, st, ms,
                                 Append(calls, Declares(Id(i, Len(calls)), c)),
                                 answers, notes)
           /\ \A c, what : Answers(r, c, what)
                       = Reading(i, n, st, ms, calls,
                                 Append(answers, [about |-> c,
                                                  what |-> what]), notes)
<1>1. /\ r.index = i /\ r.repairs = n /\ r.store = st /\ r.messages = ms
      /\ r.calls = calls /\ r.answers = answers /\ r.notes = notes
  BY Written
<1>2. ASSUME NEW new
      PROVE  Says(r, new) = Reading(i, n, st, ms \o new, calls, answers,
                                    notes)
  <2>. DEFINE v == ms \o new
  <2>1. Says(r, new) = [r EXCEPT !.messages = v]
    BY <1>1 DEF Says
  <2>. HIDE DEF v
  <2>2. [r EXCEPT !.messages = v] = Reading(i, n, st, v, calls, answers, notes)
    BY Written
  <2>. QED  BY <2>1, <2>2 DEF v
<1>3. ASSUME NEW c
      PROVE  Stores(r, c) = Reading(i, n, Append(st, c), ms, calls, answers,
                                    notes)
  <2>. DEFINE v == Append(st, c)
  <2>1. Stores(r, c) = [r EXCEPT !.store = v]
    BY <1>1 DEF Stores
  <2>. HIDE DEF v
  <2>2. [r EXCEPT !.store = v] = Reading(i, n, v, ms, calls, answers, notes)
    BY Written
  <2>. QED  BY <2>1, <2>2 DEF v
<1>4. ASSUME NEW c
      PROVE  Buffers(r, c)
               = Reading(i, n, st, ms,
                         Append(calls, Declares(Id(i, Len(calls)), c)),
                         answers, notes)
  <2>. DEFINE v == Append(calls, Declares(Id(i, Len(calls)), c))
  <2>1. Buffers(r, c) = [r EXCEPT !.calls = v]
    BY <1>1 DEF Buffers
  <2>. HIDE DEF v
  <2>2. [r EXCEPT !.calls = v] = Reading(i, n, st, ms, v, answers, notes)
    BY Written
  <2>. QED  BY <2>1, <2>2 DEF v
<1>5. ASSUME NEW c, NEW what
      PROVE  Answers(r, c, what)
               = Reading(i, n, st, ms, calls,
                         Append(answers, [about |-> c, what |-> what]), notes)
  <2>. DEFINE v == Append(answers, [about |-> c, what |-> what])
  <2>1. Answers(r, c, what) = [r EXCEPT !.answers = v]
    BY <1>1 DEF Answers
  <2>. HIDE DEF v
  <2>2. [r EXCEPT !.answers = v] = Reading(i, n, st, ms, calls, v, notes)
    BY Written
  <2>. QED  BY <2>1, <2>2 DEF v
<1>. QED  BY <1>2, <1>3, <1>4, <1>5

\* ... of a reader's state.
LEMMA HelpedReader ==
    ASSUME NEW r, Reader(r)
    PROVE  /\ \A new : Says(r, new)
                = Reading(r.index, r.repairs, r.store, r.messages \o new,
                          r.calls, r.answers, r.notes)
           /\ \A c : Stores(r, c)
                = Reading(r.index, r.repairs, Append(r.store, c), r.messages,
                          r.calls, r.answers, r.notes)
           /\ \A c : Buffers(r, c)
                = Reading(r.index, r.repairs, r.store, r.messages,
                          Append(r.calls,
                                 Declares(Id(r.index, Len(r.calls)), c)),
                          r.answers, r.notes)
<1>. DEFINE i == r.index
            n == r.repairs
            st == r.store
            ms == r.messages
            calls == r.calls
            answers == r.answers
            notes == r.notes
<1>1. r = Reading(i, n, st, ms, calls, answers, notes)
  BY DEF Reader
<1>. HIDE DEF i, n, st, ms, calls, answers, notes
<1>2. /\ \A new : Says(r, new) = Reading(i, n, st, ms \o new, calls,
                                         answers, notes)
      /\ \A c : Stores(r, c) = Reading(i, n, Append(st, c), ms, calls,
                                       answers, notes)
      /\ \A c : Buffers(r, c)
                  = Reading(i, n, st, ms,
                            Append(calls, Declares(Id(i, Len(calls)), c)),
                            answers, notes)
  BY <1>1, Helped
<1>. QED  BY <1>2 DEF i, n, st, ms, calls, answers, notes

LEMMA BlankRead == Reader(Blank)
<1>1. Blank = Reading(0, 0, << >>, << >>, << >>, << >>, 0)
  BY DEF Blank, Reading
<1>. QED  BY <1>1, ShortLists DEF Reader, Reading

LEMMA FlushedIs ==
    ASSUME NEW r, Reader(r)
    PROVE  Flushed(r) = Reading(r.index, r.repairs, r.store,
                                r.messages \o Closing(r), << >>, << >>, 0)
<1>. DEFINE said == Closing(r)
            q == Says(r, said)
            ms == r.messages \o said
            nothing == << >>
<1>1. Flushed(r) = [q EXCEPT !.calls = nothing, !.answers = nothing,
                             !.notes = 0]
  BY DEF Flushed, Closing
<1>. HIDE DEF said
<1>2. q = Reading(r.index, r.repairs, r.store, ms, r.calls, r.answers,
                  r.notes)
  BY HelpedReader
<1>. HIDE DEF q, ms, nothing
<1>. DEFINE a == [q EXCEPT !.calls = nothing]
            b == [a EXCEPT !.answers = nothing]
<1>3. [q EXCEPT !.calls = nothing, !.answers = nothing, !.notes = 0]
        = [b EXCEPT !.notes = 0]
  BY <1>2 DEF Reading
<1>4. a = Reading(r.index, r.repairs, r.store, ms, nothing, r.answers,
                  r.notes)
  BY <1>2, Written
<1>. HIDE DEF a
<1>5. b = Reading(r.index, r.repairs, r.store, ms, nothing, nothing, r.notes)
  BY <1>4, Written
<1>. HIDE DEF b
<1>6. [b EXCEPT !.notes = 0]
        = Reading(r.index, r.repairs, r.store, ms, nothing, nothing, 0)
  BY <1>5, Written
<1>. QED  BY <1>1, <1>3, <1>6 DEF ms, said, nothing

LEMMA ReadStep ==
    ASSUME NEW r, Reader(r), NEW i, NEW said
    PROVE  /\ ReadAs("native", r, Step(i, said))
                = Reading(i, r.repairs, r.store, r.messages \o Closing(r),
                          << >>, << >>, 0)
           /\ \A p : p # "native" =>
                 ReadAs(p, r, Step(i, said))
                   = Reading(i, r.repairs, r.store, r.messages, r.calls,
                             r.answers, r.notes)
<1>. DEFINE e == Step(i, said)
<1>0. e.event = "step_started" /\ e.index = i
  BY DEF Step
<1>. HIDE DEF e
<1>1. ReadNative(r, e) = [Flushed(r) EXCEPT !.index = i]
  BY <1>0 DEF ReadNative
<1>2. ReadJson(r, e) = [r EXCEPT !.index = i]
  BY <1>0 DEF ReadJson
<1>3. [r EXCEPT !.index = i]
        = Reading(i, r.repairs, r.store, r.messages, r.calls, r.answers,
                  r.notes)
  BY DEF Reader, Reading
<1>4. [Flushed(r) EXCEPT !.index = i]
        = Reading(i, r.repairs, r.store, r.messages \o Closing(r),
                  << >>, << >>, 0)
  <2>. DEFINE q == Flushed(r)
              ms == r.messages \o Closing(r)
              nothing == << >>
  <2>1. q = Reading(r.index, r.repairs, r.store, ms, nothing, nothing, 0)
    BY FlushedIs
  <2>. HIDE DEF q, ms, nothing
  <2>2. [q EXCEPT !.index = i]
          = Reading(i, r.repairs, r.store, ms, nothing, nothing, 0)
    BY <2>1, Written
  <2>. QED  BY <2>2 DEF q, ms, nothing
<1>. QED  BY <1>1, <1>2, <1>3, <1>4 DEF ReadAs, e

LEMMA ReadRejection ==
    ASSUME NEW r, Reader(r)
    PROVE  /\ ReadAs("native", r, Rejection)
                = Reading(r.index, r.repairs, r.store, r.messages, r.calls,
                          r.answers, r.notes + 1)
           /\ \A p : p # "native" =>
                 ReadAs(p, r, Rejection)
                   = Reading(r.index, r.repairs, r.store,
                             r.messages \o <<Turn(<< >>), Said(0, "note")>>,
                             r.calls, r.answers, r.notes)
<1>0. Rejection.event = "reply_rejected"
  BY DEF Rejection
<1>1. ReadNative(r, Rejection) = [r EXCEPT !.notes = @ + 1]
  BY <1>0 DEF ReadNative
<1>2. ReadJson(r, Rejection) = Says(r, <<Turn(<< >>), Said(0, "note")>>)
  BY <1>0 DEF ReadJson
<1>3. [r EXCEPT !.notes = @ + 1]
        = Reading(r.index, r.repairs, r.store, r.messages, r.calls,
                  r.answers, r.notes + 1)
  BY DEF Reader, Reading
<1>4. ASSUME NEW new
      PROVE  Says(r, new) = Reading(r.index, r.repairs, r.store,
                                    r.messages \o new, r.calls, r.answers,
                                    r.notes)
  BY HelpedReader
<1>. QED  BY <1>1, <1>2, <1>3, <1>4 DEF ReadAs

LEMMA ReadCall ==
    ASSUME NEW r, Reader(r), NEW c
    PROVE  /\ ReadAs("native", r, Call(c))
                = Reading(r.index, r.repairs, r.store, r.messages,
                          Append(r.calls,
                                 Declares(Id(r.index, Len(r.calls)), c)),
                          r.answers, r.notes)
           /\ \A p : p # "native" =>
                 ReadAs(p, r, Call(c))
                   = Reading(r.index, r.repairs, r.store,
                             r.messages
                               \o <<Turn(<<Declares(Id(r.index, 1), c)>>)>>,
                             r.calls, r.answers, r.notes)
<1>. DEFINE e == Call(c)
<1>0. e.event = "tool_call" /\ e.call = c
  BY DEF Call
<1>. HIDE DEF e
<1>1. ReadNative(r, e) = Buffers(r, c)
  BY <1>0 DEF ReadNative
<1>2. ReadJson(r, e) = Says(r, <<Turn(<<Declares(Id(r.index, 1), c)>>)>>)
  BY <1>0 DEF ReadJson
<1>3. Buffers(r, c)
        = Reading(r.index, r.repairs, r.store, r.messages,
                  Append(r.calls, Declares(Id(r.index, Len(r.calls)), c)),
                  r.answers, r.notes)
  BY HelpedReader
<1>4. ASSUME NEW new
      PROVE  Says(r, new) = Reading(r.index, r.repairs, r.store,
                                    r.messages \o new, r.calls, r.answers,
                                    r.notes)
  BY HelpedReader
<1>. QED  BY <1>1, <1>2, <1>3, <1>4 DEF ReadAs, e

LEMMA ReadResult ==
    ASSUME NEW r, Reader(r), NEW c, NEW n
    PROVE  /\ r.calls # << >> =>
                ReadAs("native", r, Result(c, n))
                  = Reading(r.index, r.repairs, Append(r.store, c),
                            r.messages, r.calls,
                            Append(r.answers, [about |-> c,
                                               what |-> "result"]), r.notes)
           /\ \A p : p # "native" =>
                 ReadAs(p, r, Result(c, n))
                   = Reading(r.index, r.repairs, Append(r.store, c),
                             r.messages \o <<Said(c, "result")>>,
                             r.calls, r.answers, r.notes)
<1>. DEFINE e == Result(c, n)
            q == Stores(r, c)
<1>0. e.event = "tool_result" /\ e.call = c
  BY DEF Result
<1>. HIDE DEF e
<1>1. r.calls # << >> => ReadNative(r, e) = Answers(q, c, "result")
  BY <1>0 DEF ReadNative
<1>2. ReadJson(r, e) = Says(q, <<Said(c, "result")>>)
  BY <1>0 DEF ReadJson
<1>3. q = Reading(r.index, r.repairs, Append(r.store, c), r.messages,
                  r.calls, r.answers, r.notes)
  BY HelpedReader
<1>. HIDE DEF q
<1>4. Answers(q, c, "result")
        = Reading(r.index, r.repairs, Append(r.store, c), r.messages,
                  r.calls,
                  Append(r.answers, [about |-> c, what |-> "result"]),
                  r.notes)
  BY <1>3, Helped
<1>5. Says(q, <<Said(c, "result")>>)
        = Reading(r.index, r.repairs, Append(r.store, c),
                  r.messages \o <<Said(c, "result")>>, r.calls, r.answers,
                  r.notes)
  BY <1>3, Helped
<1>. QED  BY <1>1, <1>2, <1>4, <1>5 DEF ReadAs, e

LEMMA ReadGate ==
    ASSUME NEW r, Reader(r), NEW c
    PROVE  /\ ReadAs("native", r, Gate(c))
                = Reading(r.index, r.repairs, r.store, r.messages,
                          Append(r.calls,
                                 Declares(Id(r.index, Len(r.calls)), c)),
                          Append(r.answers, [about |-> c,
                                             what |-> "reason"]), r.notes)
           /\ \A p : p # "native" =>
                 ReadAs(p, r, Gate(c))
                   = Reading(r.index, r.repairs, r.store,
                             r.messages
                               \o <<Turn(<<Declares(Id(r.index, 1), c)>>),
                                    Said(c, "reason")>>,
                             r.calls, r.answers, r.notes)
<1>. DEFINE e == Gate(c)
            q == Buffers(r, c)
<1>0. e.event = "gate_requested" /\ e.call = c
  BY DEF Gate
<1>. HIDE DEF e
<1>1. ReadNative(r, e) = Answers(q, c, "reason")
  BY <1>0 DEF ReadNative
<1>2. ReadJson(r, e) = Says(r, <<Turn(<<Declares(Id(r.index, 1), c)>>),
                                 Said(c, "reason")>>)
  BY <1>0 DEF ReadJson
<1>3. q = Reading(r.index, r.repairs, r.store, r.messages,
                  Append(r.calls, Declares(Id(r.index, Len(r.calls)), c)),
                  r.answers, r.notes)
  BY HelpedReader
<1>. HIDE DEF q
<1>4. Answers(q, c, "reason")
        = Reading(r.index, r.repairs, r.store, r.messages,
                  Append(r.calls, Declares(Id(r.index, Len(r.calls)), c)),
                  Append(r.answers, [about |-> c, what |-> "reason"]),
                  r.notes)
  BY <1>3, Helped
<1>5. ASSUME NEW new
      PROVE  Says(r, new) = Reading(r.index, r.repairs, r.store,
                                    r.messages \o new, r.calls, r.answers,
                                    r.notes)
  BY HelpedReader
<1>. QED  BY <1>1, <1>2, <1>4, <1>5 DEF ReadAs, e

LEMMA ReadRepair ==
    ASSUME NEW r, Reader(r), NEW n \in Nat, r.repairs <= n, NEW p
    PROVE  ReadAs(p, r, Repair(n))
             = Reading(r.index, n, r.store, r.messages, r.calls, r.answers,
                       r.notes)
<1>. DEFINE e == Repair(n)
<1>0. e.event = "grounding" /\ e.repairs = n
  BY DEF Repair
<1>. HIDE DEF e
<1>1. ReadNative(r, e) = Repaired(r, n) /\ ReadJson(r, e) = Repaired(r, n)
  BY <1>0 DEF ReadNative, ReadJson
<1>2. Max({r.repairs, n}) = n
  BY DEF Max, Reader
<1>3. Repaired(r, n) = Reading(r.index, n, r.store, r.messages, r.calls,
                               r.answers, r.notes)
  BY <1>2 DEF Reader, Reading, Repaired
<1>. QED  BY <1>1, <1>3 DEF ReadAs, e

LEMMA ReadEnd ==
    ASSUME NEW r, NEW p, NEW outcome1
    PROVE  ReadAs(p, r, Answer) = r /\ ReadAs(p, r, Finished(outcome1)) = r
<1>1. /\ Answer.event = "answer"
      /\ Finished(outcome1).event = "mission_finished"
  BY DEF Answer, Finished
<1>2. ASSUME NEW e, e.event \in {"answer", "mission_finished"}
      PROVE  ReadNative(r, e) = r /\ ReadJson(r, e) = r
  BY <1>2 DEF ReadNative, ReadJson
<1>. QED  BY <1>1, <1>2 DEF ReadAs

(* Conversations: what a message answers. *)

\* The calls the next message may answer, and the ids that were quoted.
Open(ms) == Answered(ms, Len(ms) + 1)
OpenCalls(ms) == {d.call : d \in Open(ms)}
Quoted(ms) == {ms[i].to : i \in {j \in DOMAIN ms : ms[j].role = "tool"}}

Fits(ms, i) ==
    /\ ms[i].role = "tool" =>
          /\ Declares(ms[i].to, ms[i].about) \in Answered(ms, i)
          /\ \A j \in 1..i - 1 :
                ms[j].role = "tool" => ms[j].to # ms[i].to
    /\ (ms[i].role = "user" /\ ms[i].about # 0) =>
          ms[i].about \in {d.call : d \in Answered(ms, i)}
WellPaired(ms) == \A i \in DOMAIN ms : Fits(ms, i)

\* The turn at j is the one that the message at i answers.
Before(ms, j, i) == /\ ms[j].role = "assistant"
                    /\ \A k \in j + 1..i - 1 : ms[k].role = "tool"

LEMMA AnsweredIs ==
    ASSUME NEW ms, NEW i, NEW d
    PROVE  d \in Answered(ms, i) <=>
              \E j \in 1..i - 1 : Before(ms, j, i) /\ d \in Range(ms[j].calls)
  BY DEF Answered, Before

\* It depends on what comes before i alone.
LEMMA AnsweredEarlier ==
    ASSUME NEW ms, NEW u, NEW i \in Nat, \A k \in 1..i - 1 : ms[k] = u[k]
    PROVE  Answered(ms, i) = Answered(u, i)
<1>1. \A j \in 1..i - 1 : Before(ms, j, i) <=> Before(u, j, i)
  <2>1. ASSUME NEW j \in 1..i - 1, NEW k \in j + 1..i - 1
        PROVE  ms[k] = u[k] /\ ms[j] = u[j]
    <3>1. k \in 1..i - 1
      OBVIOUS
    <3>. QED  BY <3>1
  <2>. QED  BY <2>1 DEF Before
<1>2. \A d : d \in Answered(ms, i) <=> d \in Answered(u, i)
  <2>1. \A d : d \in Answered(ms, i) <=>
            \E j \in 1..i - 1 : Before(ms, j, i) /\ d \in Range(ms[j].calls)
    BY AnsweredIs
  <2>2. \A d : d \in Answered(u, i) <=>
            \E j \in 1..i - 1 : Before(u, j, i) /\ d \in Range(u[j].calls)
    BY AnsweredIs
  <2>. QED  BY <1>1, <2>1, <2>2
<1>3. \A d : d \in Answered(ms, i) => d \in UNION {Range(ms[j].calls) :
                                                    j \in 1..i - 1}
  BY DEF Answered
<1>. QED  BY <1>2 DEF Answered

\* One conversation behind another, place by place.
LEMMA Behind ==
    ASSUME NEW ms, IsList(ms), NEW new, IsList(new)
    PROVE  /\ Len(ms) \in Nat /\ DOMAIN ms = 1..Len(ms)
           /\ Len(new) \in Nat /\ DOMAIN new = 1..Len(new)
           /\ Len(ms \o new) = Len(ms) + Len(new)
           /\ DOMAIN (ms \o new) = 1..(Len(ms) + Len(new))
           /\ \A i \in 1..Len(ms) : (ms \o new)[i] = ms[i]
           /\ \A k \in 1..Len(new) : (ms \o new)[Len(ms) + k] = new[k]
<1>1. /\ Len(ms) \in Nat /\ DOMAIN ms = 1..Len(ms)
      /\ Len(new) \in Nat /\ DOMAIN new = 1..Len(new)
  BY ListFacts
<1>2. \A i \in DOMAIN ms : (ms \o new)[i] = ms[i]
  BY Joined
<1>3. \A k \in DOMAIN new : (ms \o new)[Len(ms) + k] = new[k]
  BY Joined
<1>4. Len(ms \o new) = Len(ms) + Len(new)
      /\ DOMAIN (ms \o new) = 1..(Len(ms) + Len(new))
  BY Joined
<1>. QED  BY <1>1, <1>2, <1>3, <1>4

\* Where there is such a turn, its calls are answered.
LEMMA AnsweredThere ==
    ASSUME NEW ms, NEW i \in Nat, NEW j \in 1..i - 1,
           ms[j].role = "assistant",
           \A k \in Nat : (j < k /\ k < i) => ms[k].role = "tool",
           NEW d \in Range(ms[j].calls)
    PROVE  d \in Answered(ms, i)
<1>1. \A k \in j + 1..i - 1 : k \in Nat /\ j < k /\ k < i
  OBVIOUS
<1>2. Before(ms, j, i)
  BY <1>1 DEF Before
<1>. QED  BY <1>2, AnsweredIs

\* Where a call is answered, there is such a turn.
LEMMA AnsweredOnce ==
    ASSUME NEW ms, NEW i \in Nat, NEW d \in Answered(ms, i)
    PROVE  \E j \in Nat : /\ 1 <= j /\ j < i /\ ms[j].role = "assistant"
                          /\ d \in Range(ms[j].calls)
                          /\ \A k \in Nat : (j < k /\ k < i) =>
                                                ms[k].role = "tool"
<1>1. PICK j \in 1..i - 1 : Before(ms, j, i) /\ d \in Range(ms[j].calls)
  BY AnsweredIs
<1>2. j \in Nat /\ 1 <= j /\ j < i
  BY <1>1
<1>3. ASSUME NEW k \in Nat, j < k, k < i
      PROVE  ms[k].role = "tool"
  <2>1. k \in j + 1..i - 1
    BY <1>2, <1>3
  <2>. QED  BY <1>1, <2>1 DEF Before
<1>. QED  BY <1>1, <1>2, <1>3 DEF Before

\* A turn answers from its place on, as long as tools speak.
LEMMA TurnAnswered ==
    ASSUME NEW ms, IsList(ms), NEW new, IsList(new),
           NEW k \in 1..Len(new) + 1, NEW j \in 1..k - 1,
           new[j].role = "assistant",
           \A h \in Nat : (j < h /\ h < k) => new[h].role = "tool",
           NEW d \in Range(new[j].calls)
    PROVE  d \in Answered(ms \o new, Len(ms) + k)
<1>. DEFINE u == ms \o new
            m == Len(ms)
            a == m + j
            b == m + k
<1>1. m \in Nat /\ Len(new) \in Nat
      /\ \A h \in 1..Len(new) : u[m + h] = new[h]
  BY Behind
<1>. HIDE DEF u, m
<1>2. /\ a \in 1..b - 1 /\ b \in Nat /\ j \in 1..Len(new)
  BY <1>1
<1>3. ASSUME NEW i \in Nat, a < i, i < b
      PROVE  u[i].role = "tool"
  <2>1. i - m \in Nat /\ j < i - m /\ i - m < k /\ i - m \in 1..Len(new)
        /\ i = m + (i - m)
    BY <1>1, <1>3
  <2>. QED  BY <1>1, <2>1
<1>4. u[a] = new[j]
  BY <1>1, <1>2
<1>. HIDE DEF a, b
<1>5. d \in Answered(u, b)
  BY <1>2, <1>3, <1>4, AnsweredThere
<1>. QED  BY <1>5 DEF u, b, m

\* What was open stays open while tools speak.
LEMMA OpenAnswered ==
    ASSUME NEW ms, IsList(ms), NEW new, IsList(new),
           NEW k \in 1..Len(new) + 1,
           \A h \in Nat : (0 < h /\ h < k) => new[h].role = "tool",
           NEW d \in Open(ms)
    PROVE  d \in Answered(ms \o new, Len(ms) + k)
<1>. DEFINE u == ms \o new
            m == Len(ms)
            b == m + k
            a == m + 1
<1>1. m \in Nat /\ Len(new) \in Nat
      /\ \A h \in 1..Len(new) : u[m + h] = new[h]
  BY Behind
<1>2. \A i \in 1..m : u[i] = ms[i]
  BY Behind
<1>. HIDE DEF u
<1>0. d \in Answered(ms, a) /\ a \in Nat
  BY <1>1 DEF Open
<1>. HIDE DEF m, a
<1>3. PICK j \in Nat : /\ 1 <= j /\ j < a /\ ms[j].role = "assistant"
                       /\ d \in Range(ms[j].calls)
                       /\ \A i \in Nat : (j < i /\ i < a) =>
                                             ms[i].role = "tool"
  BY <1>0, AnsweredOnce
<1>4. j \in 1..m /\ j \in 1..b - 1 /\ b \in Nat
  BY <1>1, <1>3 DEF a
<1>5. ASSUME NEW i \in Nat, j < i, i < b
      PROVE  u[i].role = "tool"
  <2>1. CASE i < a
    <3>1. i \in 1..m
      BY <1>1, <1>3, <1>5, <2>1 DEF a
    <3>. QED  BY <1>2, <1>3, <1>5, <2>1, <3>1
  <2>2. CASE ~(i < a)
    <3>1. i - m \in Nat /\ 0 < i - m /\ i - m < k /\ i - m \in 1..Len(new)
          /\ i = m + (i - m)
      BY <1>1, <1>5, <2>2 DEF a
    <3>. QED  BY <1>1, <3>1
  <2>. QED  BY <2>1, <2>2
<1>6. u[j] = ms[j]
  BY <1>2, <1>4
<1>. HIDE DEF b
<1>7. d \in Answered(u, b)
  BY <1>3, <1>4, <1>5, <1>6, AnsweredThere
<1>. QED  BY <1>7 DEF u, b, m

\* A conversation that goes on stays well paired if what is new fits.
LEMMA PairedMore ==
    ASSUME NEW ms, IsList(ms), WellPaired(ms), NEW new, IsList(new),
           \A k \in DOMAIN new :
              /\ new[k].role = "tool" =>
                    /\ Declares(new[k].to, new[k].about)
                          \in Answered(ms \o new, Len(ms) + k)
                    /\ new[k].to \notin Quoted(ms)
                    /\ \A j \in 1..k - 1 :
                          new[j].role = "tool" => new[j].to # new[k].to
              /\ (new[k].role = "user" /\ new[k].about # 0) =>
                    new[k].about \in {d.call : d \in
                                        Answered(ms \o new, Len(ms) + k)}
    PROVE  WellPaired(ms \o new)
<1>. DEFINE u == ms \o new
            m == Len(ms)
<1>1. /\ m \in Nat /\ DOMAIN ms = 1..m
      /\ Len(new) \in Nat /\ DOMAIN new = 1..Len(new)
      /\ DOMAIN u = 1..(m + Len(new))
  BY Behind
<1>2. \A i \in 1..m : u[i] = ms[i]
  BY Behind
<1>3. \A k \in 1..Len(new) : u[m + k] = new[k]
  BY Behind
<1>9. \A k \in DOMAIN new :
         /\ new[k].role = "tool" =>
               /\ Declares(new[k].to, new[k].about) \in Answered(u, m + k)
               /\ new[k].to \notin Quoted(ms)
               /\ \A j \in 1..k - 1 :
                     new[j].role = "tool" => new[j].to # new[k].to
         /\ (new[k].role = "user" /\ new[k].about # 0) =>
               new[k].about \in {d.call : d \in Answered(u, m + k)}
  OBVIOUS
<1>. HIDE DEF u, m
<1>4. ASSUME NEW i \in 1..m
      PROVE  Fits(u, i)
  <2>1. i \in Nat /\ \A k \in 1..i - 1 : k \in 1..m /\ ms[k] = u[k]
    BY <1>1, <1>2
  <2>2. Answered(ms, i) = Answered(u, i)
    BY <2>1, AnsweredEarlier
  <2>3. Fits(ms, i)
    BY <1>1 DEF WellPaired
  <2>4. u[i] = ms[i]
    BY <1>2
  <2>. QED  BY <2>1, <2>2, <2>3, <2>4 DEF Fits
<1>5. ASSUME NEW k \in 1..Len(new)
      PROVE  Fits(u, m + k)
  <2>1. u[m + k] = new[k] /\ k \in DOMAIN new
    BY <1>1, <1>3
  <2>2. ASSUME new[k].role = "tool", NEW j \in 1..m + k - 1,
               u[j].role = "tool"
        PROVE  u[j].to # new[k].to
    <3>1. CASE j <= m
      <4>1. j \in 1..m /\ u[j] = ms[j] /\ j \in DOMAIN ms
        BY <1>1, <1>2, <3>1
      <4>2. u[j].to \in Quoted(ms)
        BY <2>2, <4>1 DEF Quoted
      <4>. QED  BY <1>9, <2>1, <2>2, <4>2
    <3>2. CASE ~(j <= m)
      <4>1. j - m \in 1..k - 1 /\ j - m \in 1..Len(new) /\ j = m + (j - m)
        BY <1>1, <3>2
      <4>2. u[j] = new[j - m]
        BY <1>3, <4>1
      <4>. QED  BY <1>9, <2>1, <2>2, <4>1, <4>2
    <3>. QED  BY <3>1, <3>2
  <2>3. /\ new[k].role = "tool" =>
              Declares(new[k].to, new[k].about) \in Answered(u, m + k)
        /\ (new[k].role = "user" /\ new[k].about # 0) =>
              new[k].about \in {d.call : d \in Answered(u, m + k)}
    BY <1>9, <2>1
  <2>. DEFINE i == m + k
  <2>4. u[i] = new[k]
    BY <2>1
  <2>6. ASSUME new[k].role = "tool", NEW j \in 1..i - 1, u[j].role = "tool"
        PROVE  u[j].to # new[k].to
    <3>1. j \in 1..m + k - 1
      BY <1>1
    <3>. QED  BY <2>2, <2>6, <3>1
  <2>7. /\ new[k].role = "tool" =>
              Declares(new[k].to, new[k].about) \in Answered(u, i)
        /\ (new[k].role = "user" /\ new[k].about # 0) =>
              new[k].about \in {d.call : d \in Answered(u, i)}
    BY <2>3
  <2>. HIDE DEF i
  <2>5. Fits(u, i)
    BY <2>4, <2>6, <2>7 DEF Fits
  <2>. QED  BY <2>5 DEF i
<1>6. ASSUME NEW i \in DOMAIN u
      PROVE  Fits(u, i)
  <2>1. CASE i <= m
    <3>1. i \in 1..m
      BY <1>1, <2>1
    <3>. QED  BY <1>4, <3>1
  <2>2. CASE ~(i <= m)
    <3>1. i - m \in 1..Len(new) /\ i = m + (i - m)
      BY <1>1, <2>2
    <3>. QED  BY <1>5, <3>1
  <2>. QED  BY <2>1, <2>2
<1>. QED  BY <1>6 DEF WellPaired, u

\* What it has quoted.
LEMMA QuotedMore ==
    ASSUME NEW ms, IsList(ms), NEW new, IsList(new)
    PROVE  Quoted(ms \o new) = Quoted(ms) \cup Quoted(new)
<1>. DEFINE u == ms \o new
            m == Len(ms)
<1>1. /\ m \in Nat /\ DOMAIN ms = 1..m
      /\ Len(new) \in Nat /\ DOMAIN new = 1..Len(new)
      /\ DOMAIN u = 1..(m + Len(new))
  BY Behind
<1>2. \A i \in 1..m : u[i] = ms[i]
  BY Behind
<1>3. \A k \in 1..Len(new) : u[m + k] = new[k]
  BY Behind
<1>. HIDE DEF u, m
<1>4. ASSUME NEW q \in Quoted(u)
      PROVE  q \in Quoted(ms) \cup Quoted(new)
  <2>1. PICK i \in DOMAIN u : u[i].role = "tool" /\ q = u[i].to
    BY DEF Quoted
  <2>2. CASE i <= m
    <3>1. i \in 1..m
      BY <1>1, <2>2
    <3>. QED  BY <1>1, <1>2, <2>1, <3>1 DEF Quoted
  <2>3. CASE ~(i <= m)
    <3>1. i - m \in 1..Len(new) /\ i = m + (i - m)
      BY <1>1, <2>3
    <3>2. u[i] = new[i - m]
      BY <1>3, <3>1
    <3>. QED  BY <1>1, <2>1, <3>1, <3>2 DEF Quoted
  <2>. QED  BY <2>2, <2>3
<1>5. ASSUME NEW q \in Quoted(ms)
      PROVE  q \in Quoted(u)
  <2>1. PICK i \in DOMAIN ms : ms[i].role = "tool" /\ q = ms[i].to
    BY DEF Quoted
  <2>2. u[i] = ms[i] /\ i \in DOMAIN u
    BY <1>1, <1>2
  <2>. QED  BY <2>1, <2>2 DEF Quoted
<1>6. ASSUME NEW q \in Quoted(new)
      PROVE  q \in Quoted(u)
  <2>1. PICK k \in DOMAIN new : new[k].role = "tool" /\ q = new[k].to
    BY DEF Quoted
  <2>2. u[m + k] = new[k] /\ m + k \in DOMAIN u
    BY <1>1, <1>3
  <2>. QED  BY <2>1, <2>2 DEF Quoted
<1>7. Quoted(u) = Quoted(ms) \cup Quoted(new)
  BY <1>4, <1>5, <1>6
<1>. QED  BY <1>7 DEF u

(* ... and the ways in which a conversation goes on. *)

\* One message more.
LEMMA OneMore ==
    ASSUME NEW ms, IsList(ms), WellPaired(ms), NEW m,
           m.role = "tool" => /\ Declares(m.to, m.about) \in Open(ms)
                              /\ m.to \notin Quoted(ms),
           (m.role = "user" /\ m.about # 0) =>
              m.about \in {d.call : d \in Open(ms)}
    PROVE  /\ IsList(ms \o <<m>>) /\ WellPaired(ms \o <<m>>)
           /\ Quoted(ms \o <<m>>)
                = IF m.role = "tool" THEN Quoted(ms) \cup {m.to}
                  ELSE Quoted(ms)
           /\ m.role = "tool" =>
                 \A d \in Open(ms) : d \in Open(ms \o <<m>>)
           /\ m.role = "assistant" =>
                 \A d \in Range(m.calls) : d \in Open(ms \o <<m>>)
<1>. DEFINE t == <<m>>
            u == ms \o t
            l == Len(ms)
<1>1. IsList(t) /\ Len(t) = 1 /\ DOMAIN t = {1} /\ t[1] = m
  BY ShortLists
<1>. HIDE DEF t
<1>2. IsList(u)
  BY <1>1, JoinedIsList
<1>3. l \in Nat /\ Len(u) = l + 1
  <2>1. Len(u) = Len(ms) + Len(t) /\ Len(ms) \in Nat
    BY <1>1, Behind
  <2>. QED  BY <1>1, <2>1
<1>4. ASSUME NEW d \in Open(ms)
      PROVE  d \in Answered(u, l + 1)
  <2>1. 1 \in 1..Len(t) + 1 /\ \A h \in Nat : ~(0 < h /\ h < 1)
    BY <1>1
  <2>. QED  BY <1>1, <1>4, <2>1, OpenAnswered
<1>5. WellPaired(u)
  <2>1. \A k \in DOMAIN t :
           /\ t[k].role = "tool" =>
                 /\ Declares(t[k].to, t[k].about) \in Answered(u, l + k)
                 /\ t[k].to \notin Quoted(ms)
                 /\ \A j \in 1..k - 1 :
                       t[j].role = "tool" => t[j].to # t[k].to
           /\ (t[k].role = "user" /\ t[k].about # 0) =>
                 t[k].about \in {d.call : d \in Answered(u, l + k)}
    BY <1>1, <1>4
  <2>. QED  BY <1>1, <2>1, PairedMore
<1>6. Quoted(t) = IF m.role = "tool" THEN {m.to} ELSE {}
  BY <1>1 DEF Quoted
<1>7. Quoted(u) = Quoted(ms) \cup Quoted(t)
  BY <1>1, QuotedMore
<1>8. ASSUME m.role = "tool", NEW d \in Open(ms)
      PROVE  d \in Open(u)
  <2>1. 2 \in 1..Len(t) + 1
    BY <1>1
  <2>2. \A h \in Nat : (0 < h /\ h < 2) => t[h].role = "tool"
    <3>1. \A h \in Nat : (0 < h /\ h < 2) => h = 1
      OBVIOUS
    <3>. QED  BY <1>1, <1>8, <3>1
  <2>3. d \in Answered(u, l + 2)
    BY <1>1, <1>8, <2>1, <2>2, OpenAnswered
  <2>4. l + 2 = Len(u) + 1
    BY <1>3
  <2>. QED  BY <2>3, <2>4 DEF Open
<1>9. ASSUME m.role = "assistant", NEW d \in Range(m.calls)
      PROVE  d \in Open(u)
  <2>1. 2 \in 1..Len(t) + 1 /\ 1 \in 1..2 - 1
    BY <1>1
  <2>2. \A h \in Nat : ~(1 < h /\ h < 2)
    OBVIOUS
  <2>3. t[1].role = "assistant" /\ d \in Range(t[1].calls)
    BY <1>1, <1>9
  <2>4. d \in Answered(u, l + 2)
    BY <1>1, <2>1, <2>2, <2>3, TurnAnswered
  <2>5. l + 2 = Len(u) + 1
    BY <1>3
  <2>. QED  BY <2>4, <2>5 DEF Open
<1>. HIDE DEF u
<1>. QED  BY <1>2, <1>5, <1>6, <1>7, <1>8, <1>9 DEF u, t

\* Two messages more.
LEMMA TwoMore ==
    ASSUME NEW ms, IsList(ms), NEW a, NEW b
    PROVE  ms \o <<a, b>> = (ms \o <<a>>) \o <<b>>
<1>. DEFINE T == Range(ms) \cup {a, b}
<1>1. ms \in Seq(T) /\ a \in T /\ b \in T
  BY DEF IsList
<1>. HIDE DEF T
<1>2. <<a>> \in Seq(T) /\ <<b>> \in Seq(T)
  BY <1>1
<1>3. <<a, b>> = <<a>> \o <<b>>
  <2>. DEFINE x == <<a>>
              y == <<b>>
              z == <<a, b>>
  <2>1. /\ IsList(x) /\ Len(x) = 1 /\ DOMAIN x = {1} /\ x[1] = a
        /\ IsList(y) /\ Len(y) = 1 /\ DOMAIN y = {1} /\ y[1] = b
    BY ShortLists
  <2>2. z \in Seq(T) /\ Len(z) = 2 /\ z[1] = a /\ z[2] = b
    BY <1>1
  <2>. HIDE DEF x, y, z
  <2>3. IsList(z) /\ DOMAIN z = {1, 2}
    BY <2>2, ListOf
  <2>4. IsList(x \o y)
    BY <2>1, JoinedIsList
  <2>5. Len(x \o y) = Len(x) + Len(y)
    BY <2>1, Joined
  <2>6. \A i \in DOMAIN x : (x \o y)[i] = x[i]
    BY <2>1, Joined
  <2>7. \A k \in DOMAIN y : (x \o y)[Len(x) + k] = y[k]
    BY <2>1, Joined
  <2>8. (x \o y)[1] = a /\ (x \o y)[2] = b /\ Len(x \o y) = 2
    BY <2>1, <2>5, <2>6, <2>7
  <2>9. z = x \o y
    BY <2>2, <2>3, <2>4, <2>8, SameList
  <2>. QED  BY <2>9 DEF x, y, z
<1>. QED  BY <1>1, <1>2, <1>3, ConcatAssociative

\* A turn and what is said to it.
LEMMA TurnAndSaid ==
    ASSUME NEW ms, IsList(ms), WellPaired(ms), NEW calls, NEW c, NEW what,
           c # 0 => c \in {d.call : d \in Range(calls)}
    PROVE  /\ IsList(ms \o <<Turn(calls), Said(c, what)>>)
           /\ WellPaired(ms \o <<Turn(calls), Said(c, what)>>)
           /\ Quoted(ms \o <<Turn(calls), Said(c, what)>>) = Quoted(ms)
<1>. DEFINE a == Turn(calls)
            b == Said(c, what)
            u == ms \o <<a>>
<1>1. /\ a.role = "assistant" /\ a.calls = calls
      /\ b.role = "user" /\ b.about = c
  BY DEF Turn, Said
<1>2. ms \o <<a, b>> = u \o <<b>>
  BY TwoMore
<1>. HIDE DEF a, b
<1>3. /\ IsList(u) /\ WellPaired(u) /\ Quoted(u) = Quoted(ms)
      /\ \A d \in Range(calls) : d \in Open(u)
  BY <1>1, OneMore
<1>. HIDE DEF u
<1>4. b.about # 0 => b.about \in {d.call : d \in Open(u)}
  BY <1>1, <1>3
<1>5. /\ IsList(u \o <<b>>) /\ WellPaired(u \o <<b>>)
      /\ Quoted(u \o <<b>>) = Quoted(u)
  BY <1>1, <1>3, <1>4, OneMore
<1>. QED  BY <1>2, <1>3, <1>5 DEF a, b

\* One message that reports nothing, and a turn with what is said to it.
LEMMA OneSilent ==
    ASSUME NEW m, m.role = "assistant" \/ m.what # "result"
    PROVE  IsList(<<m>>) /\ Reports(<<m>>) = << >>
<1>. DEFINE t == <<m>>
<1>1. IsList(t) /\ DOMAIN t = {1} /\ t[1] = m
  BY ShortLists
<1>. HIDE DEF t
<1>2. Reports(t) = << >>
  BY <1>1, NothingReported
<1>. QED  BY <1>1, <1>2 DEF t

LEMMA TurnSilent ==
    ASSUME NEW calls, NEW c, NEW what, what # "result"
    PROVE  /\ IsList(<<Turn(calls), Said(c, what)>>)
           /\ Reports(<<Turn(calls), Said(c, what)>>) = << >>
<1>. DEFINE a == Turn(calls)
            b == Said(c, what)
            t == <<a, b>>
<1>1. a.role = "assistant" /\ b.what # "result"
  BY DEF Turn, Said
<1>. HIDE DEF a, b
<1>2. t \in Seq({a, b}) /\ DOMAIN t = {1, 2} /\ t[1] = a /\ t[2] = b
  OBVIOUS
<1>. HIDE DEF t
<1>3. IsList(t)
  BY <1>2, ListOf
<1>4. Reports(t) = << >>
  BY <1>1, <1>2, <1>3, NothingReported
<1>. QED  BY <1>3, <1>4 DEF a, b, t

\* What cancel_step says.
Replies(calls) == [k \in DOMAIN calls |-> Reply(calls[k], "note")]

\* A list of calls, each answered by a message of its own.
LEMMA AllReplied ==
    ASSUME NEW ms, IsList(ms), WellPaired(ms), NEW calls, IsList(calls),
           protocol = "native" \/ Len(calls) <= 1,
           \A k \in DOMAIN calls :
              /\ calls[k] = Declares(calls[k].id, calls[k].call)
              /\ calls[k] \in Open(ms) /\ calls[k].id \notin Quoted(ms)
              /\ \A j \in DOMAIN calls : calls[j].id = calls[k].id => j = k
    PROVE  /\ IsList(Replies(calls)) /\ WellPaired(ms \o Replies(calls))
           /\ \A q \in Quoted(ms \o Replies(calls)) :
                 q \in Quoted(ms) \/ \E k \in DOMAIN calls : q = calls[k].id
           /\ Reports(Replies(calls)) = << >>
<1>. DEFINE new == Replies(calls)
<1>1. Len(calls) \in Nat /\ DOMAIN calls = 1..Len(calls)
  BY ListFacts
<1>2. IsList(new) /\ DOMAIN new = 1..Len(calls) /\ Len(new) = Len(calls)
  <2>1. new = [k \in 1..Len(calls) |-> new[k]]
    BY <1>1 DEF Replies
  <2>. HIDE DEF new
  <2>. QED  BY <1>1, <2>1, Listed
<1>3. ASSUME NEW k \in DOMAIN calls
      PROVE  /\ new[k].role # "assistant" /\ new[k].what = "note"
             /\ new[k].about = calls[k].call
             /\ protocol = "native" => new[k].role = "tool"
             /\ new[k].role = "tool" => new[k].to = calls[k].id
  <2>1. new[k] = Reply(calls[k], "note")
    BY DEF Replies
  <2>. HIDE DEF new
  <2>. QED  BY <2>1 DEF Reply, Tool, Said
<1>. HIDE DEF new
<1>. DEFINE u == ms \o new
            l == Len(ms)
<1>4. ASSUME NEW k \in DOMAIN calls
      PROVE  calls[k] \in Answered(u, l + k)
  <2>1. k \in 1..Len(new) + 1
    BY <1>1, <1>2
  <2>2. \A h \in Nat : (0 < h /\ h < k) => new[h].role = "tool"
    <3>1. \A h \in Nat : (0 < h /\ h < k) => h \in DOMAIN calls
      BY <1>1
    <3>2. CASE protocol = "native"
      BY <1>3, <3>1, <3>2
    <3>3. CASE Len(calls) <= 1
      <4>1. k = 1
        BY <1>1, <3>3
      <4>. QED  BY <4>1
    <3>. QED  BY <3>2, <3>3
  <2>3. calls[k] \in Open(ms)
    OBVIOUS
  <2>. QED  BY <1>2, <2>1, <2>2, <2>3, OpenAnswered
<1>5. WellPaired(u)
  <2>1. \A k \in DOMAIN new :
           /\ new[k].role = "tool" =>
                 /\ Declares(new[k].to, new[k].about) \in Answered(u, l + k)
                 /\ new[k].to \notin Quoted(ms)
                 /\ \A j \in 1..k - 1 :
                       new[j].role = "tool" => new[j].to # new[k].to
           /\ (new[k].role = "user" /\ new[k].about # 0) =>
                 new[k].about \in {d.call : d \in Answered(u, l + k)}
    <3>. TAKE k \in DOMAIN new
    <3>1. k \in DOMAIN calls /\ calls[k] \in Answered(u, l + k)
          /\ new[k].about = calls[k].call
          /\ (new[k].role = "tool" => new[k].to = calls[k].id)
      BY <1>1, <1>2, <1>3, <1>4
    <3>2. /\ calls[k] = Declares(calls[k].id, calls[k].call)
          /\ calls[k].id \notin Quoted(ms)
      BY <3>1
    <3>3. ASSUME NEW j \in 1..k - 1, new[j].role = "tool"
          PROVE  new[j].to = calls[j].id /\ calls[j].id # calls[k].id
      <4>1. j \in DOMAIN calls /\ j # k
        BY <1>1, <3>1
      <4>. QED  BY <1>3, <3>1, <3>3, <4>1
    <3>. HIDE DEF u, l
    <3>. QED  BY <3>1, <3>2, <3>3
  <2>. QED  BY <1>2, <2>1, PairedMore
<1>6. ASSUME NEW q \in Quoted(u)
      PROVE  q \in Quoted(ms) \/ \E k \in DOMAIN calls : q = calls[k].id
  <2>1. Quoted(u) = Quoted(ms) \cup Quoted(new)
    BY <1>2, QuotedMore
  <2>2. ASSUME NEW p \in Quoted(new)
        PROVE  \E k \in DOMAIN calls : p = calls[k].id
    BY <1>1, <1>2, <1>3 DEF Quoted
  <2>. QED  BY <2>1, <2>2
<1>7. Reports(new) = << >>
  BY <1>1, <1>2, <1>3, NothingReported
<1>. QED  BY <1>2, <1>5, <1>6, <1>7 DEF new

(* A flush. *)

\* A native turn as it is buffered: its calls under their ids, and the
\* answers to the first of them.
Ready(r) ==
    /\ Reader(r) /\ WellPaired(r.messages)
    /\ \A q \in Quoted(r.messages) : q[1] \in Nat /\ q[1] < r.index
    /\ Len(r.answers) <= Len(r.calls)
    /\ \A k \in DOMAIN r.calls :
          r.calls[k] = Declares(Id(r.index, k - 1), r.calls[k].call)
    /\ \A k \in DOMAIN r.answers : r.answers[k].about = r.calls[k].call

LEMMA NotesAre ==
    ASSUME NEW n \in Nat
    PROVE  /\ IsList(Notes(n)) /\ Len(Notes(n)) = n /\ DOMAIN Notes(n) = 1..n
           /\ \A i \in DOMAIN Notes(n) : Notes(n)[i] = Said(0, "note")
           /\ IsList(EmptyTurns(n))
           /\ \A i \in DOMAIN EmptyTurns(n) :
                 EmptyTurns(n)[i] \in {Turn(<< >>), Said(0, "note")}
<1>. DEFINE a == Notes(n)
            b == EmptyTurns(n)
<1>1. a = [k \in 1..n |-> a[k]] /\ \A i \in DOMAIN a : a[i] = Said(0, "note")
  BY DEF Notes
<1>2. /\ b = [k \in 1..2 * n |-> b[k]] /\ 2 * n \in Nat
      /\ \A i \in DOMAIN b : b[i] \in {Turn(<< >>), Said(0, "note")}
  BY DEF EmptyTurns
<1>. HIDE DEF a, b
<1>3. IsList(a) /\ Len(a) = n /\ DOMAIN a = 1..n
  BY <1>1, Listed
<1>4. IsList(b)
  BY <1>2, Listed
<1>. QED  BY <1>1, <1>2, <1>3, <1>4 DEF a, b

LEMMA PairedIs ==
    ASSUME NEW calls, IsList(calls), NEW answers, IsList(answers),
           Len(answers) <= Len(calls)
    PROVE  /\ IsList(Paired(calls, answers))
           /\ Len(Paired(calls, answers)) = Len(answers)
           /\ \A k \in 1..Len(answers) : Paired(calls, answers)[k]
                 = Tool(calls[k].id, answers[k].about, answers[k].what)
<1>. DEFINE ms == Paired(calls, answers)
<1>1. /\ Len(calls) \in Nat /\ Len(answers) \in Nat
  BY ListFacts
<1>2. Min({Len(calls), Len(answers)}) = Len(answers)
  BY <1>1 DEF Min
<1>3. ms = [k \in 1..Len(answers) |->
               Tool(calls[k].id, answers[k].about, answers[k].what)]
  BY <1>2 DEF Paired
<1>4. IsList(ms) /\ Len(ms) = Len(answers)
  <2>1. ms = [k \in 1..Len(answers) |-> ms[k]]
    BY <1>3
  <2>. HIDE DEF ms
  <2>. QED  BY <1>1, <2>1, Listed
<1>. QED  BY <1>3, <1>4

\* The turn, its answers, and what was said to it besides.
LEMMA ClosingIs ==
    ASSUME NEW r, Ready(r), r.calls # << >>
    PROVE  /\ IsList(Closing(r)) /\ 1 \in DOMAIN Closing(r)
           /\ Closing(r)[1] = Turn(r.calls)
           /\ \A k \in 1..Len(r.answers) :
                 Closing(r)[1 + k] = Tool(r.calls[k].id, r.answers[k].about,
                                          r.answers[k].what)
           /\ \A i \in DOMAIN Closing(r) :
                 i > 1 + Len(r.answers) => Closing(r)[i] = Said(0, "note")
           /\ Reports(Closing(r)) = Heard(r.answers)
<1>. DEFINE t == <<Turn(r.calls)>>
            p == Paired(r.calls, r.answers)
            n == Notes(r.notes)
            a == Len(r.answers)
            x == t \o p
            y == x \o n
<1>1. IsList(t) /\ Len(t) = 1 /\ DOMAIN t = {1} /\ t[1] = Turn(r.calls)
  BY ShortLists
<1>0. /\ IsList(r.calls) /\ IsList(r.answers) /\ r.notes \in Nat
      /\ Len(r.answers) <= Len(r.calls) /\ a \in Nat
  BY ListFacts DEF Ready, Reader
<1>2. /\ IsList(p) /\ Len(p) = a
  BY <1>0, PairedIs
<1>3. \A k \in 1..a : p[k] = Tool(r.calls[k].id, r.answers[k].about,
                                 r.answers[k].what)
  BY <1>0, PairedIs
<1>4. IsList(n) /\ Len(n) = r.notes
      /\ \A i \in DOMAIN n : n[i] = Said(0, "note")
  BY <1>0, NotesAre
<1>5. Closing(r) = y
  BY DEF Closing
<1>6. Reports(p) = Heard(r.answers) /\ IsList(Heard(r.answers))
  BY <1>0, PairedReports, HeardMore
<1>7. Reports(t) = << >>
  <2>1. Turn(r.calls).role = "assistant"
    BY DEF Turn
  <2>. HIDE DEF t
  <2>. QED  BY <1>1, <2>1, NothingReported
<1>8. Reports(n) = << >>
  <2>1. Said(0, "note").what # "result"
    BY DEF Said
  <2>. HIDE DEF n
  <2>. QED  BY <1>4, <2>1, NothingReported
<1>. HIDE DEF t, p, n, a
<1>9. IsList(x) /\ Len(x) = 1 + a /\ DOMAIN x = 1..(1 + a)
  <2>1. Len(t \o p) = Len(t) + Len(p) /\ DOMAIN (t \o p) = 1..(Len(t) + Len(p))
    BY <1>1, <1>2, Behind
  <2>2. IsList(t \o p)
    BY <1>1, <1>2, JoinedIsList
  <2>. QED  BY <1>1, <1>2, <2>1, <2>2
<1>10. x[1] = Turn(r.calls) /\ \A k \in 1..a : x[1 + k] = p[k]
  <2>0. IsList(t) /\ IsList(p)
    BY <1>1, <1>2
  <2>1. \A i \in 1..Len(t) : (t \o p)[i] = t[i]
    BY ONLY <2>0, Behind
  <2>2. ASSUME NEW k \in 1..Len(p)
        PROVE  (t \o p)[Len(t) + k] = p[k]
    <3>. DEFINE u == t \o p
    <3>1. \A h \in 1..Len(p) : u[Len(t) + h] = p[h]
      BY ONLY <2>0, Behind
    <3>. HIDE DEF u
    <3>2. u[Len(t) + k] = p[k]
      BY <3>1
    <3>. QED  BY <3>2 DEF u
  <2>3. x[1] = Turn(r.calls)
    <3>1. 1 \in 1..Len(t) /\ t[1] = Turn(r.calls)
      BY <1>1
    <3>2. x[1] = t[1]
      BY ONLY <2>1, <3>1, ZenonT(40) DEF x
    <3>. QED  BY <3>1, <3>2
  <2>4. \A k \in 1..a : x[1 + k] = p[k]
    BY <1>1, <1>2, <2>2 DEF x
  <2>. QED  BY <2>3, <2>4
<1>11. Reports(x) = Reports(p)
  <2>1. Reports(t \o p) = Reports(t) \o Reports(p)
    BY <1>1, <1>2, ReportsJoined
  <2>2. IsList(Reports(p)) /\ Reports(p) \in Seq(Range(Reports(p)))
    BY <1>6 DEF IsList
  <2>3. << >> \o Reports(p) = Reports(p)
    BY <2>2
  <2>. QED  BY <1>7, <2>1, <2>3
<1>. HIDE DEF x
<1>12. IsList(y) /\ DOMAIN y = 1..(1 + a + r.notes)
  <2>1. DOMAIN (x \o n) = 1..(Len(x) + Len(n))
    BY <1>4, <1>9, Behind
  <2>2. IsList(x \o n)
    BY <1>4, <1>9, JoinedIsList
  <2>. QED  BY <1>4, <1>9, <2>1, <2>2
<1>13. \A i \in 1..(1 + a) : y[i] = x[i]
  <2>1. \A i \in 1..Len(x) : (x \o n)[i] = x[i]
    BY <1>4, <1>9, Behind
  <2>. QED  BY <1>9, <2>1
<1>14. \A k \in 1..r.notes : y[1 + a + k] = Said(0, "note")
  <2>1. \A k \in 1..Len(n) : (x \o n)[Len(x) + k] = n[k]
    BY <1>4, <1>9, Behind
  <2>2. DOMAIN n = 1..Len(n)
    BY <1>4, ListFacts
  <2>. QED  BY <1>4, <1>9, <2>1, <2>2
<1>15. Reports(y) = Heard(r.answers)
  <2>1. Reports(x \o n) = Reports(x) \o Reports(n)
    BY <1>4, <1>9, ReportsJoined
  <2>2. Heard(r.answers) \o << >> = Heard(r.answers)
    BY <1>6, JoinedNothing
  <2>. QED  BY <1>6, <1>8, <1>11, <2>1, <2>2
<1>. HIDE DEF y
<1>16. \A i \in DOMAIN y : i > 1 + a => y[i] = Said(0, "note")
  <2>. SUFFICES ASSUME NEW i \in DOMAIN y, i > 1 + a
                PROVE  y[i] = Said(0, "note")
    OBVIOUS
  <2>1. i - (1 + a) \in 1..r.notes /\ i = 1 + a + (i - (1 + a))
    BY <1>0, <1>12
  <2>. QED  BY <1>14, <2>1
<1>17. 1 \in 1..(1 + a) /\ \A k \in 1..a : 1 + k \in 1..(1 + a)
  BY <1>0
<1>18. /\ y[1] = Turn(r.calls) /\ 1 \in DOMAIN y
       /\ \A k \in 1..a : y[1 + k] = Tool(r.calls[k].id, r.answers[k].about,
                                          r.answers[k].what)
  BY <1>0, <1>3, <1>10, <1>12, <1>13, <1>17
<1>. QED  BY <1>5, <1>12, <1>15, <1>16, <1>18 DEF a

\* The conversation with the turn flushed.
LEMMA FlushKeeps ==
    ASSUME NEW r, Ready(r)
    PROVE  /\ IsList(Closing(r)) /\ WellPaired(r.messages \o Closing(r))
           /\ IsList(r.messages \o Closing(r))
           /\ \A q \in Quoted(r.messages \o Closing(r)) :
                 \/ q \in Quoted(r.messages)
                 \/ r.calls # << >> /\ q[1] = r.index
           /\ Reports(Closing(r)) = Heard(r.answers)
           /\ r.calls = << >> => r.answers = << >>
<1>. DEFINE ms == r.messages
            new == Closing(r)
            a == Len(r.answers)
            m == Len(ms)
<1>0. /\ IsList(ms) /\ WellPaired(ms) /\ IsList(r.calls) /\ IsList(r.answers)
      /\ r.notes \in Nat /\ a \in Nat /\ a <= Len(r.calls)
      /\ DOMAIN r.answers = 1..a /\ DOMAIN r.calls = 1..Len(r.calls)
      /\ Len(r.calls) \in Nat
  BY ListFacts DEF Ready, Reader
<1>1. CASE r.calls = << >>
  <2>1. r.answers = << >>
    <3>1. Len(r.answers) = 0 /\ r.answers \in Seq(Range(r.answers))
      BY <1>0, <1>1 DEF IsList
    <3>. QED  BY <3>1
  <2>2. new = EmptyTurns(r.notes)
    BY <1>1 DEF Closing
  <2>3. IsList(new) /\ \A i \in DOMAIN new :
                          new[i] \in {Turn(<< >>), Said(0, "note")}
    BY <1>0, <2>2, NotesAre
  <2>. HIDE DEF new
  <2>4. \A i \in DOMAIN new :
           /\ new[i].role # "tool"
           /\ new[i].role = "user" => new[i].about = 0
           /\ new[i].role # "assistant" => new[i].what # "result"
    BY <2>3 DEF Turn, Said
  <2>. HIDE DEF ms
  <2>5. WellPaired(ms \o new) /\ IsList(ms \o new)
    BY <1>0, <2>3, <2>4, PairedMore, JoinedIsList
  <2>6. Quoted(new) = {}
    BY <2>4 DEF Quoted
  <2>7. Quoted(ms \o new) = Quoted(ms) \cup Quoted(new)
    BY <1>0, <2>3, QuotedMore
  <2>8. Reports(new) = << >>
    BY <2>3, <2>4, NothingReported
  <2>9. Heard(<< >>) = << >>
    <3>1. {i \in DOMAIN << >> : << >>[i].what = "result"} = {}
      BY ShortLists
    <3>2. AboutOf(<< >>) = << >>
      BY DEF AboutOf
    <3>. QED  BY <3>1, <3>2, AmongShort DEF Heard
  <2>. QED  BY <2>1, <2>3, <2>5, <2>6, <2>7, <2>8, <2>9 DEF ms, new
<1>2. CASE r.calls # << >>
  <2>1. /\ IsList(new) /\ new[1] = Turn(r.calls) /\ 1 \in DOMAIN new
        /\ Reports(new) = Heard(r.answers)
    BY <1>2, ClosingIs
  <2>2. \A k \in 1..a : new[1 + k] = Tool(r.calls[k].id, r.answers[k].about,
                                         r.answers[k].what)
    BY <1>2, ClosingIs
  <2>3. \A i \in DOMAIN new : i > 1 + a => new[i] = Said(0, "note")
    BY <1>2, ClosingIs
  <2>4. /\ \A k \in 1..a : r.calls[k] = Declares(r.calls[k].id,
                                                 r.answers[k].about)
        /\ \A k \in 1..a : r.calls[k] \in Range(r.calls)
        /\ \A k \in 1..a : r.calls[k].id = Id(r.index, k - 1)
        /\ \A q \in Quoted(ms) : q[1] \in Nat /\ q[1] < r.index
        /\ r.index \in Nat
    <3>1. \A k \in 1..a : k \in DOMAIN r.calls /\ k \in DOMAIN r.answers
      BY <1>0
    <3>2. ASSUME NEW k \in 1..a
          PROVE  r.calls[k] = Declares(r.calls[k].id, r.answers[k].about)
                 /\ r.calls[k].id = Id(r.index, k - 1)
      <4>1. /\ r.calls[k] = Declares(Id(r.index, k - 1), r.calls[k].call)
            /\ r.answers[k].about = r.calls[k].call
        BY <3>1 DEF Ready
      <4>2. r.calls[k].id = Id(r.index, k - 1)
        BY <4>1 DEF Declares
      <4>. QED  BY <4>1, <4>2
    <3>3. \A k \in 1..a : r.calls[k] \in Range(r.calls)
      BY <3>1 DEF Range
    <3>. QED  BY <3>2, <3>3 DEF Ready, Reader
  <2>5. /\ new[1].role = "assistant" /\ new[1].calls = r.calls
        /\ \A k \in 1..a : /\ new[1 + k].role = "tool"
                           /\ new[1 + k].to = r.calls[k].id
                           /\ new[1 + k].about = r.answers[k].about
        /\ \A i \in DOMAIN new : i > 1 + a =>
              new[i].role = "user" /\ new[i].about = 0
    <3>. HIDE DEF new, a
    <3>1. new[1].role = "assistant" /\ new[1].calls = r.calls
      BY <2>1 DEF Turn
    <3>2. ASSUME NEW k \in 1..a
          PROVE  /\ new[1 + k].role = "tool"
                 /\ new[1 + k].to = r.calls[k].id
                 /\ new[1 + k].about = r.answers[k].about
      <4>. DEFINE e == new[1 + k]
      <4>1. e = Tool(r.calls[k].id, r.answers[k].about, r.answers[k].what)
        BY <2>2
      <4>. HIDE DEF e
      <4>2. /\ e.role = "tool" /\ e.to = r.calls[k].id
            /\ e.about = r.answers[k].about
        BY <4>1 DEF Tool
      <4>. QED  BY <4>2 DEF e
    <3>3. \A i \in DOMAIN new : i > 1 + a =>
             new[i].role = "user" /\ new[i].about = 0
      BY <2>3 DEF Said
    <3>. QED  BY <3>1, <3>2, <3>3
  <2>6. DOMAIN new = 1..Len(new) /\ Len(new) \in Nat
    BY <2>1, ListFacts
  <2>7. \A i \in DOMAIN new :
           i = 1 \/ (\E k \in 1..a : i = 1 + k) \/ i > 1 + a
    <3>. SUFFICES ASSUME NEW i \in DOMAIN new, i # 1, ~(i > 1 + a)
                  PROVE  \E k \in 1..a : i = 1 + k
      OBVIOUS
    <3>1. i - 1 \in 1..a /\ i = 1 + (i - 1)
      BY <1>0, <2>6
    <3>. QED  BY <3>1
  <2>. HIDE DEF new, ms, m, a
  <2>8. ASSUME NEW k \in 1..a, 1 + k \in DOMAIN new
        PROVE  r.calls[k] \in Answered(ms \o new, m + (1 + k))
    <3>1. 1 + k \in 1..Len(new) + 1 /\ 1 \in 1..(1 + k) - 1
      BY <1>0, <2>6, <2>8
    <3>2. \A h \in Nat : (1 < h /\ h < 1 + k) => new[h].role = "tool"
      <4>. SUFFICES ASSUME NEW h \in Nat, 1 < h, h < 1 + k
                    PROVE  new[h].role = "tool"
        OBVIOUS
      <4>1. h - 1 \in 1..a /\ h = 1 + (h - 1)
        BY <1>0
      <4>. QED  BY <2>5, <4>1
    <3>3. r.calls[k] \in Range(new[1].calls) /\ new[1].role = "assistant"
      BY <2>4, <2>5
    <3>. DEFINE b == 1 + k
    <3>4. /\ b \in 1..Len(new) + 1 /\ 1 \in 1..b - 1
          /\ \A h \in Nat : (1 < h /\ h < b) => new[h].role = "tool"
      BY <3>1, <3>2
    <3>. HIDE DEF b
    <3>5. r.calls[k] \in Answered(ms \o new, Len(ms) + b)
      BY <1>0, <2>1, <3>3, <3>4, TurnAnswered
    <3>. QED  BY <3>5 DEF b, m
  <2>9. \A i \in DOMAIN new :
           /\ new[i].role = "tool" =>
                 /\ Declares(new[i].to, new[i].about)
                       \in Answered(ms \o new, m + i)
                 /\ new[i].to \notin Quoted(ms)
                 /\ \A j \in 1..i - 1 :
                       new[j].role = "tool" => new[j].to # new[i].to
           /\ (new[i].role = "user" /\ new[i].about # 0) =>
                 new[i].about \in {d.call : d \in Answered(ms \o new, m + i)}
    <3>. TAKE i \in DOMAIN new
    <3>1. CASE i = 1 \/ i > 1 + a
      BY <2>5, <3>1
    <3>2. CASE \E k \in 1..a : i = 1 + k
      <4>1. PICK k \in 1..a : i = 1 + k
        BY <3>2
      <4>2. /\ new[i].role = "tool" /\ new[i].to = r.calls[k].id
            /\ new[i].about = r.answers[k].about
        BY <2>5, <4>1
      <4>3. Declares(new[i].to, new[i].about) \in Answered(ms \o new, m + i)
        <5>1. r.calls[k] \in Answered(ms \o new, m + i)
          BY <2>8, <4>1
        <5>2. Declares(new[i].to, new[i].about) = r.calls[k]
          BY <2>4, <4>1, <4>2
        <5>. QED  BY <5>1, <5>2
      <4>4. new[i].to = <<r.index, k - 1>>
        BY <2>4, <4>1, <4>2 DEF Id
      <4>5. new[i].to[1] = r.index
        BY <4>4
      <4>6. new[i].to \notin Quoted(ms)
        BY <2>4, <4>5
      <4>7. ASSUME NEW j \in 1..i - 1, new[j].role = "tool"
            PROVE  new[j].to # new[i].to
        <5>1. j # 1 /\ j \in DOMAIN new /\ ~(j > 1 + a)
          BY <1>0, <2>5, <2>6, <4>1, <4>7
        <5>2. PICK h \in 1..a : j = 1 + h
          BY <2>7, <5>1
        <5>3. new[j].to = <<r.index, h - 1>>
          BY <2>4, <2>5, <5>2 DEF Id
        <5>4. h - 1 # k - 1
          BY <1>0, <4>1, <4>7, <5>2
        <5>. QED  BY <4>4, <5>3, <5>4
      <4>. QED  BY <4>2, <4>3, <4>6, <4>7
    <3>. QED  BY <2>7, <3>1, <3>2
  <2>10. WellPaired(ms \o new)
    BY <1>0, <2>1, <2>9, PairedMore DEF m
  <2>11. IsList(ms \o new)
    BY <1>0, <2>1, JoinedIsList
  <2>12. ASSUME NEW q \in Quoted(new)
         PROVE  q[1] = r.index
    <3>1. PICK i \in DOMAIN new : new[i].role = "tool" /\ q = new[i].to
      BY DEF Quoted
    <3>2. PICK k \in 1..a : i = 1 + k
      BY <2>5, <2>7, <3>1
    <3>3. q = <<r.index, k - 1>>
      BY <2>4, <2>5, <3>1, <3>2 DEF Id
    <3>. QED  BY <3>3
  <2>13. Quoted(ms \o new) = Quoted(ms) \cup Quoted(new)
    BY <1>0, <2>1, QuotedMore
  <2>. QED  BY <1>2, <2>1, <2>10, <2>11, <2>12, <2>13 DEF ms, new
<1>. QED  BY <1>1, <1>2

(* A record read keeps what has been read in order. *)

\* The results that were read, in the order they were shown.
Aloud(r) == Reports(r.messages) \o Heard(r.answers)

\* The fields of a reading.
LEMMA ReadingReady ==
    ASSUME NEW i \in Nat, NEW n \in Nat, NEW st, IsList(st),
           NEW ms, IsList(ms), WellPaired(ms),
           \A q \in Quoted(ms) : q[1] \in Nat /\ q[1] < i,
           NEW calls, IsList(calls), NEW answers, IsList(answers),
           NEW notes \in Nat, Len(answers) <= Len(calls),
           \A k \in DOMAIN calls :
              calls[k] = Declares(Id(i, k - 1), calls[k].call),
           \A k \in DOMAIN answers : answers[k].about = calls[k].call,
           NEW r, r = Reading(i, n, st, ms, calls, answers, notes)
    PROVE  Ready(r)
<1>1. /\ r.index = i /\ r.repairs = n /\ r.store = st /\ r.messages = ms
      /\ r.calls = calls /\ r.answers = answers /\ r.notes = notes
  BY Written
<1>2. Reader(r)
  BY <1>1 DEF Reader
<1>. QED  BY <1>1, <1>2 DEF Ready

LEMMA ReadyFacts ==
    ASSUME NEW r, Ready(r)
    PROVE  /\ Reader(r) /\ r.index \in Nat /\ r.repairs \in Nat
           /\ IsList(r.store) /\ IsList(r.messages) /\ WellPaired(r.messages)
           /\ \A q \in Quoted(r.messages) : q[1] \in Nat /\ q[1] < r.index
           /\ IsList(r.calls) /\ IsList(r.answers) /\ r.notes \in Nat
           /\ Len(r.answers) <= Len(r.calls)
           /\ Len(r.answers) \in Nat /\ Len(r.calls) \in Nat
           /\ DOMAIN r.answers = 1..Len(r.answers)
           /\ DOMAIN r.calls = 1..Len(r.calls)
           /\ \A k \in DOMAIN r.calls :
                 r.calls[k] = Declares(Id(r.index, k - 1), r.calls[k].call)
           /\ \A k \in DOMAIN r.answers : r.answers[k].about = r.calls[k].call
<1>1. IsList(r.calls) /\ IsList(r.answers)
  BY DEF Ready, Reader
<1>. QED  BY <1>1, ListFacts DEF Ready, Reader

LEMMA BlankReady == Ready(Blank) /\ Aloud(Blank) = << >>
<1>1. Blank = Reading(0, 0, << >>, << >>, << >>, << >>, 0)
  BY DEF Blank, Reading
<1>2. WellPaired(<< >>) /\ Quoted(<< >>) = {}
  BY ShortLists DEF WellPaired, Quoted
<1>. DEFINE e == << >>
<1>3. IsList(e) /\ Len(e) = 0 /\ DOMAIN e = {}
  BY ShortLists
<1>4. Reports(e) = << >>
  BY <1>3, NothingReported
<1>5. Heard(e) = << >>
  <2>1. {i \in DOMAIN e : e[i].what = "result"} = {}
    BY <1>3
  <2>2. AboutOf(<< >>) = << >>
    BY DEF AboutOf
  <2>. QED  BY <2>1, <2>2, AmongShort DEF Heard
<1>6. Blank.messages = e /\ Blank.answers = e
  BY DEF Blank
<1>7. Aloud(Blank) = << >>
  <2>1. Aloud(Blank) = << >> \o << >>
    BY <1>4, <1>5, <1>6 DEF Aloud
  <2>. QED  BY <2>1, ShortLists, JoinedNothing
<1>. HIDE DEF e
<1>8. Blank = Reading(0, 0, e, e, e, e, 0) /\ WellPaired(e) /\ Quoted(e) = {}
  BY <1>1, <1>2 DEF e
<1>9. Ready(Blank)
  BY ONLY <1>3, <1>8, ReadingReady
<1>. QED  BY <1>7, <1>9

\* A step is announced.
LEMMA ReadyStep ==
    ASSUME NEW r, Ready(r), NEW p \in {"json", "native"},
           p = "json" => r.calls = << >> /\ r.answers = << >>,
           NEW i \in Nat, NEW said,
           r.index < i \/ (r.index = i /\ i = 0 /\ r.calls = << >>),
           NEW q, q = ReadAs(p, r, Step(i, said))
    PROVE  /\ Ready(q) /\ q.index = i /\ q.repairs = r.repairs
           /\ q.store = r.store /\ q.calls = << >> /\ q.answers = << >>
           /\ Aloud(q) = Aloud(r)
<1>0. /\ Reader(r) /\ r.index \in Nat /\ r.repairs \in Nat
      /\ IsList(r.store) /\ IsList(r.messages) /\ WellPaired(r.messages)
      /\ \A x \in Quoted(r.messages) : x[1] \in Nat /\ x[1] < r.index
      /\ r.notes \in Nat /\ IsList(r.answers)
  BY ReadyFacts
<1>. DEFINE e == << >>
            ms == r.messages \o Closing(r)
<1>1. IsList(e) /\ Len(e) = 0 /\ DOMAIN e = {}
  BY ShortLists
<1>2. /\ IsList(ms) /\ WellPaired(ms)
      /\ \A x \in Quoted(ms) :
            \/ x \in Quoted(r.messages)
            \/ r.calls # << >> /\ x[1] = r.index
      /\ IsList(Closing(r)) /\ Reports(Closing(r)) = Heard(r.answers)
  BY FlushKeeps
<1>3. Heard(<< >>) = << >>
  <2>1. {j \in DOMAIN e : e[j].what = "result"} = {}
    BY <1>1
  <2>2. AboutOf(<< >>) = << >>
    BY DEF AboutOf
  <2>. QED  BY <2>1, <2>2, AmongShort DEF Heard
<1>4. CASE p = "native"
  <2>1. q = Reading(i, r.repairs, r.store, ms, e, e, 0)
    BY <1>0, <1>4, ReadStep
  <2>2. Reports(ms) = Reports(r.messages) \o Heard(r.answers)
    BY <1>0, <1>2, ReportsJoined
  <2>3. IsList(Reports(ms))
    BY <1>2, ReportsAre
  <2>. HIDE DEF e, ms
  <2>4. q.index = i /\ q.repairs = r.repairs /\ q.store = r.store
        /\ q.messages = ms /\ q.calls = e /\ q.answers = e
    BY <2>1, Written
  <2>5. \A x \in Quoted(ms) : x[1] \in Nat /\ x[1] < i
    BY <1>0, <1>2
  <2>6. Ready(q)
    <3>. DEFINE z == 0
    <3>1. /\ r.repairs \in Nat /\ IsList(r.store) /\ z \in Nat
          /\ IsList(ms) /\ WellPaired(ms)
      BY <1>0, <1>2
    <3>2. q = Reading(i, r.repairs, r.store, ms, e, e, z)
      BY <2>1
    <3>. HIDE DEF z
    <3>. QED  BY ONLY <1>1, <2>5, <3>1, <3>2, ReadingReady
  <2>7. Aloud(q) = Reports(ms) \o << >>
    BY <1>3, <2>4 DEF Aloud, e
  <2>8. Aloud(q) = Aloud(r)
    BY <2>2, <2>3, <2>7, JoinedNothing DEF Aloud
  <2>. QED  BY <2>4, <2>6, <2>8 DEF e
<1>5. CASE p = "json"
  <2>1. q = Reading(i, r.repairs, r.store, r.messages, r.calls, r.answers,
                    r.notes)
    BY <1>0, <1>5, ReadStep
  <2>2. q = Reading(i, r.repairs, r.store, r.messages, e, e, r.notes)
    BY <1>5, <2>1
  <2>. HIDE DEF e, ms
  <2>4. q.index = i /\ q.repairs = r.repairs /\ q.store = r.store
        /\ q.messages = r.messages /\ q.calls = e /\ q.answers = e
    BY <2>2, Written
  <2>5. /\ \A x \in Quoted(r.messages) : x[1] \in Nat /\ x[1] < i
        /\ i \in Nat
    BY <1>0
  <2>6. Ready(q)
    BY ONLY <1>0, <1>1, <2>2, <2>5, ReadingReady
  <2>7. Aloud(q) = Aloud(r)
    BY <1>5, <2>4 DEF Aloud, e
  <2>. QED  BY <2>4, <2>6, <2>7 DEF e
<1>. QED  BY <1>4, <1>5

\* A reply, or a call of one, is sent back.
LEMMA ReadyRejection ==
    ASSUME NEW r, Ready(r), NEW p \in {"json", "native"},
           NEW q, q = ReadAs(p, r, Rejection)
    PROVE  /\ Ready(q) /\ q.index = r.index /\ q.repairs = r.repairs
           /\ q.store = r.store /\ q.calls = r.calls /\ q.answers = r.answers
           /\ Aloud(q) = Aloud(r)
<1>0. /\ Reader(r) /\ r.index \in Nat /\ r.repairs \in Nat
      /\ IsList(r.store) /\ IsList(r.messages) /\ WellPaired(r.messages)
      /\ r.notes \in Nat /\ IsList(r.answers) /\ IsList(r.calls)
      /\ Len(r.answers) <= Len(r.calls)
  BY ReadyFacts
<1>1. \A x \in Quoted(r.messages) : x[1] \in Nat /\ x[1] < r.index
  BY ReadyFacts
<1>2. /\ \A k \in DOMAIN r.calls :
            r.calls[k] = Declares(Id(r.index, k - 1), r.calls[k].call)
      /\ \A k \in DOMAIN r.answers : r.answers[k].about = r.calls[k].call
  BY ReadyFacts
<1>4. CASE p = "native"
  <2>. DEFINE n == r.notes + 1
  <2>1. q = Reading(r.index, r.repairs, r.store, r.messages, r.calls,
                    r.answers, n)
    BY <1>0, <1>4, ReadRejection
  <2>2. n \in Nat
    BY <1>0
  <2>. HIDE DEF n
  <2>3. q.index = r.index /\ q.repairs = r.repairs /\ q.store = r.store
        /\ q.messages = r.messages /\ q.calls = r.calls
        /\ q.answers = r.answers
    BY <2>1, Written
  <2>4. Ready(q)
    BY ONLY <1>0, <1>1, <1>2, <2>1, <2>2, ReadingReady
  <2>. QED  BY <2>3, <2>4 DEF Aloud
<1>5. CASE p = "json"
  <2>. DEFINE new == <<Turn(<< >>), Said(0, "note")>>
              ms == r.messages \o new
  <2>1. q = Reading(r.index, r.repairs, r.store, ms, r.calls, r.answers,
                    r.notes)
    BY <1>0, <1>5, ReadRejection
  <2>2. IsList(ms) /\ WellPaired(ms) /\ Quoted(ms) = Quoted(r.messages)
    BY <1>0, TurnAndSaid
  <2>3. IsList(new) /\ Reports(new) = << >>
    BY TurnSilent
  <2>4. Reports(ms) = Reports(r.messages) \o Reports(new)
    BY <1>0, <2>3, ReportsJoined
  <2>5. Reports(r.messages) \o << >> = Reports(r.messages)
    BY <1>0, ReportsAre, JoinedNothing
  <2>. HIDE DEF new, ms
  <2>6. q.index = r.index /\ q.repairs = r.repairs /\ q.store = r.store
        /\ q.messages = ms /\ q.calls = r.calls
        /\ q.answers = r.answers
    BY <2>1, Written
  <2>7. \A x \in Quoted(ms) : x[1] \in Nat /\ x[1] < r.index
    BY <1>1, <2>2
  <2>8. Ready(q)
    BY ONLY <1>0, <1>2, <2>1, <2>2, <2>7, ReadingReady
  <2>. QED  BY <2>3, <2>4, <2>5, <2>6, <2>8 DEF Aloud
<1>. QED  BY <1>4, <1>5

\* The open turn with one call more.
WithCall(r, c) == Append(r.calls, Declares(Id(r.index, Len(r.calls)), c))

LEMMA CallBuffered ==
    ASSUME NEW r, Ready(r), Len(r.answers) = Len(r.calls), NEW c
    PROVE  /\ IsList(WithCall(r, c)) /\ Len(WithCall(r, c)) = Len(r.calls) + 1
           /\ WithCall(r, c)[Len(r.calls) + 1].call = c
           /\ \A k \in DOMAIN WithCall(r, c) :
                 WithCall(r, c)[k]
                   = Declares(Id(r.index, k - 1), WithCall(r, c)[k].call)
           /\ \A k \in DOMAIN r.answers :
                 r.answers[k].about = WithCall(r, c)[k].call
<1>. DEFINE l == Len(r.calls)
            d == Declares(Id(r.index, l), c)
            calls == WithCall(r, c)
<1>0. IsList(r.calls) /\ l \in Nat /\ DOMAIN r.calls = 1..l
      /\ DOMAIN r.answers = 1..l
  BY ReadyFacts
<1>1. d.call = c /\ d = Declares(Id(r.index, l), d.call)
  BY DEF Declares
<1>2. calls = Append(r.calls, d)
  BY DEF WithCall
<1>. HIDE DEF d, calls
<1>3. DOMAIN calls = 1..(l + 1) /\ calls[l + 1] = d /\ IsList(calls)
  BY <1>0, <1>2, Appended, AppendedIsList
<1>4. \A k \in DOMAIN r.calls : calls[k] = r.calls[k]
  BY <1>0, <1>2, Appended
<1>5. Len(calls) = l + 1
  BY <1>0, <1>3, ListFacts
<1>6. ASSUME NEW k \in DOMAIN calls
      PROVE  calls[k] = Declares(Id(r.index, k - 1), calls[k].call)
  <2>1. CASE k = l + 1
    <3>1. k - 1 = l
      BY <1>0, <2>1
    <3>. QED  BY <1>1, <1>3, <2>1, <3>1
  <2>2. CASE k # l + 1
    <3>1. k \in DOMAIN r.calls
      BY <1>0, <1>3, <2>2
    <3>2. r.calls[k] = Declares(Id(r.index, k - 1), r.calls[k].call)
      BY <3>1, ReadyFacts
    <3>. QED  BY <1>4, <3>1, <3>2
  <2>. QED  BY <2>1, <2>2
<1>7. ASSUME NEW k \in DOMAIN r.answers
      PROVE  r.answers[k].about = calls[k].call
  <2>1. r.answers[k].about = r.calls[k].call /\ k \in DOMAIN r.calls
    BY <1>0, ReadyFacts
  <2>. QED  BY <1>4, <2>1
<1>8. calls[l + 1].call = c
  BY <1>1, <1>3
<1>. QED  BY <1>3, <1>5, <1>6, <1>7, <1>8 DEF calls

\* A call is announced.
LEMMA ReadyCall ==
    ASSUME NEW r, Ready(r), NEW p \in {"json", "native"},
           Len(r.answers) = Len(r.calls), NEW c,
           NEW q, q = ReadAs(p, r, Call(c))
    PROVE  /\ Ready(q) /\ q.index = r.index /\ q.repairs = r.repairs
           /\ q.store = r.store /\ q.answers = r.answers
           /\ p = "native" => /\ Len(q.calls) = Len(q.answers) + 1
                              /\ q.calls[Len(q.calls)].call = c
           /\ p = "json" => /\ q.calls = r.calls
                            /\ c \in OpenCalls(q.messages)
           /\ Aloud(q) = Aloud(r)
<1>0. /\ Reader(r) /\ r.index \in Nat /\ r.repairs \in Nat
      /\ IsList(r.store) /\ IsList(r.messages) /\ WellPaired(r.messages)
      /\ r.notes \in Nat /\ IsList(r.answers) /\ IsList(r.calls)
      /\ Len(r.calls) \in Nat
  BY ReadyFacts
<1>1. \A x \in Quoted(r.messages) : x[1] \in Nat /\ x[1] < r.index
  BY ReadyFacts
<1>4. CASE p = "native"
  <2>. DEFINE calls == WithCall(r, c)
  <2>1. q = Reading(r.index, r.repairs, r.store, r.messages, calls,
                    r.answers, r.notes)
    BY <1>0, <1>4, ReadCall DEF WithCall
  <2>2. /\ IsList(calls) /\ Len(calls) = Len(r.calls) + 1
        /\ calls[Len(r.calls) + 1].call = c
        /\ \A k \in DOMAIN calls :
              calls[k] = Declares(Id(r.index, k - 1), calls[k].call)
        /\ \A k \in DOMAIN r.answers : r.answers[k].about = calls[k].call
    BY CallBuffered
  <2>. HIDE DEF calls
  <2>3. q.index = r.index /\ q.repairs = r.repairs /\ q.store = r.store
        /\ q.messages = r.messages /\ q.calls = calls
        /\ q.answers = r.answers
    BY <2>1, Written
  <2>4. Len(r.answers) <= Len(calls)
    BY <1>0, <2>2
  <2>5. Ready(q)
    BY ONLY <1>0, <1>1, <2>1, <2>2, <2>4, ReadingReady
  <2>6. Aloud(q) = Aloud(r)
    BY <2>3 DEF Aloud
  <2>. QED  BY <1>4, <2>2, <2>3, <2>5, <2>6
<1>5. CASE p = "json"
  <2>. DEFINE d == Declares(Id(r.index, 1), c)
              m == Turn(<<d>>)
              ms == r.messages \o <<m>>
  <2>1. q = Reading(r.index, r.repairs, r.store, ms, r.calls, r.answers,
                    r.notes)
    BY <1>0, <1>5, ReadCall
  <2>2. m.role = "assistant" /\ d \in Range(m.calls) /\ d.call = c
    BY DEF Turn, Declares, Range
  <2>. HIDE DEF d, m
  <2>3. /\ IsList(ms) /\ WellPaired(ms) /\ Quoted(ms) = Quoted(r.messages)
        /\ d \in Open(ms)
    BY <1>0, <2>2, OneMore
  <2>4. Reports(<<m>>) = << >> /\ IsList(<<m>>)
    BY <2>2, ShortLists, OneSilent
  <2>5. Reports(ms) = Reports(r.messages) \o Reports(<<m>>)
    BY <1>0, <2>4, ReportsJoined
  <2>6. Reports(r.messages) \o << >> = Reports(r.messages)
    BY <1>0, ReportsAre, JoinedNothing
  <2>. HIDE DEF ms
  <2>7. q.index = r.index /\ q.repairs = r.repairs /\ q.store = r.store
        /\ q.messages = ms /\ q.calls = r.calls
        /\ q.answers = r.answers
    BY <2>1, Written
  <2>8. \A x \in Quoted(ms) : x[1] \in Nat /\ x[1] < r.index
    BY <1>1, <2>3
  <2>9. Len(r.answers) <= Len(r.calls)
    BY <1>0
  <2>10. /\ \A k \in DOMAIN r.calls :
               r.calls[k] = Declares(Id(r.index, k - 1), r.calls[k].call)
         /\ \A k \in DOMAIN r.answers : r.answers[k].about = r.calls[k].call
    BY ReadyFacts
  <2>11. Ready(q)
    BY ONLY <1>0, <2>1, <2>3, <2>8, <2>9, <2>10, ReadingReady
  <2>12. Aloud(q) = Aloud(r)
    BY <2>4, <2>5, <2>6, <2>7 DEF Aloud
  <2>13. c \in OpenCalls(q.messages)
    BY <2>2, <2>3, <2>7 DEF OpenCalls
  <2>. QED  BY <1>5, <2>7, <2>11, <2>12, <2>13
<1>. QED  BY <1>4, <1>5

\* A repair turn is counted; the last words are not read.
LEMMA ReadyRepair ==
    ASSUME NEW r, Ready(r), NEW p, NEW n \in Nat, r.repairs <= n,
           NEW q, q = ReadAs(p, r, Repair(n))
    PROVE  /\ Ready(q) /\ q.index = r.index /\ q.repairs = n
           /\ q.store = r.store /\ q.calls = r.calls /\ q.answers = r.answers
           /\ Aloud(q) = Aloud(r)
<1>0. /\ Reader(r) /\ r.index \in Nat
      /\ IsList(r.store) /\ IsList(r.messages) /\ WellPaired(r.messages)
      /\ r.notes \in Nat /\ IsList(r.answers) /\ IsList(r.calls)
      /\ Len(r.answers) <= Len(r.calls)
  BY ReadyFacts
<1>1. \A x \in Quoted(r.messages) : x[1] \in Nat /\ x[1] < r.index
  BY ReadyFacts
<1>2. /\ \A k \in DOMAIN r.calls :
            r.calls[k] = Declares(Id(r.index, k - 1), r.calls[k].call)
      /\ \A k \in DOMAIN r.answers : r.answers[k].about = r.calls[k].call
  BY ReadyFacts
<1>3. q = Reading(r.index, n, r.store, r.messages, r.calls, r.answers,
                  r.notes)
  BY <1>0, ReadRepair
<1>4. q.index = r.index /\ q.repairs = n /\ q.store = r.store
      /\ q.messages = r.messages /\ q.calls = r.calls
      /\ q.answers = r.answers
  BY <1>3, Written
<1>5. Ready(q)
  BY ONLY <1>0, <1>1, <1>2, <1>3, ReadingReady
<1>. QED  BY <1>4, <1>5 DEF Aloud

\* One more is one more behind the list.
LEMMA AppendJoined ==
    ASSUME NEW s, IsList(s), NEW e
    PROVE  Append(s, e) = s \o <<e>>
<1>. DEFINE T == Range(s) \cup {e}
<1>1. s \in Seq(T) /\ e \in T
  BY DEF IsList
<1>. HIDE DEF T
<1>. QED  BY <1>1, AppendIsConcat

\* Three lists.
LEMMA JoinedThrice ==
    ASSUME NEW s, IsList(s), NEW t, IsList(t), NEW u, IsList(u)
    PROVE  (s \o t) \o u = s \o (t \o u)
<1>. DEFINE T == Range(s) \cup Range(t) \cup Range(u)
<1>1. s \in Seq(T) /\ t \in Seq(T) /\ u \in Seq(T)
  BY DEF IsList
<1>. HIDE DEF T
<1>. QED  BY <1>1, ConcatAssociative

LEMMA NothingHeard == Heard(<< >>) = << >>
<1>. DEFINE e == << >>
<1>1. {i \in DOMAIN e : e[i].what = "result"} = {}
  BY ShortLists
<1>2. AboutOf(<< >>) = << >>
  BY DEF AboutOf
<1>. QED  BY <1>1, <1>2, AmongShort DEF Heard

\* The answers of the open turn with one more.
LEMMA AnswerBuffered ==
    ASSUME NEW t, NEW s, IsList(s), NEW a,
           \A k \in DOMAIN s : s[k].about = t[k].call,
           t[Len(s) + 1].call = a.about
    PROVE  /\ IsList(Append(s, a)) /\ Len(Append(s, a)) = Len(s) + 1
           /\ \A k \in DOMAIN Append(s, a) :
                 Append(s, a)[k].about = t[k].call
<1>. DEFINE u == Append(s, a)
            l == Len(s)
<1>1. /\ l \in Nat /\ DOMAIN s = 1..l /\ DOMAIN u = 1..(l + 1)
      /\ \A i \in DOMAIN s : u[i] = s[i]
      /\ u[l + 1] = a /\ IsList(u)
  BY Appended, AppendedIsList
<1>. HIDE DEF u
<1>2. Len(u) = l + 1
  BY <1>1, ListFacts
<1>3. ASSUME NEW k \in DOMAIN u
      PROVE  u[k].about = t[k].call
  <2>1. CASE k = l + 1
    BY <1>1, <2>1
  <2>2. CASE k \in 1..l
    BY <1>1, <2>2
  <2>. QED  BY <1>1, <2>1, <2>2
<1>. QED  BY <1>1, <1>2, <1>3 DEF u

\* The call whose result is read next.
Awaits(p, r, c) ==
    /\ p = "native" => /\ Len(r.calls) = Len(r.answers) + 1
                       /\ r.calls[Len(r.calls)].call = c
    /\ p = "json" => /\ r.calls = << >> /\ r.answers = << >>
                     /\ c \in OpenCalls(r.messages)

\* A result comes back.
LEMMA ReadyResult ==
    ASSUME NEW r, Ready(r), NEW p \in {"json", "native"}, NEW c, NEW n,
           Awaits(p, r, c), NEW q, q = ReadAs(p, r, Result(c, n))
    PROVE  /\ Ready(q) /\ q.index = r.index /\ q.repairs = r.repairs
           /\ q.store = Append(r.store, c) /\ q.calls = r.calls
           /\ Len(q.answers) = Len(q.calls)
           /\ p = "json" => q.answers = << >>
           /\ Aloud(q) = Append(Aloud(r), c)
<1>0. /\ Reader(r) /\ r.index \in Nat /\ r.repairs \in Nat
      /\ IsList(r.store) /\ IsList(r.messages) /\ WellPaired(r.messages)
      /\ r.notes \in Nat /\ IsList(r.answers) /\ IsList(r.calls)
      /\ Len(r.answers) \in Nat /\ Len(r.calls) \in Nat
      /\ Len(r.answers) <= Len(r.calls)
  BY ReadyFacts
<1>1. \A x \in Quoted(r.messages) : x[1] \in Nat /\ x[1] < r.index
  BY ReadyFacts
<1>2. /\ \A k \in DOMAIN r.calls :
            r.calls[k] = Declares(Id(r.index, k - 1), r.calls[k].call)
      /\ \A k \in DOMAIN r.answers : r.answers[k].about = r.calls[k].call
  BY ReadyFacts
<1>. DEFINE st == Append(r.store, c)
            said == Reports(r.messages)
            heard == Heard(r.answers)
<1>3. IsList(said) /\ IsList(heard) /\ IsList(<<c>>)
  BY <1>0, ReportsAre, HeardMore, ShortLists
<1>7. IsList(st)
  BY <1>0, AppendedIsList
<1>8. r.index \in Nat /\ r.repairs \in Nat /\ r.notes \in Nat
  BY <1>0
<1>4. Append(Aloud(r), c) = said \o (heard \o <<c>>)
  <2>1. IsList(said \o heard)
    BY <1>3, JoinedIsList
  <2>2. Append(said \o heard, c) = (said \o heard) \o <<c>>
    BY <2>1, AppendJoined
  <2>. QED  BY <1>3, <2>2, JoinedThrice DEF Aloud
<1>9. /\ p = "native" => /\ Len(r.calls) = Len(r.answers) + 1
                        /\ r.calls[Len(r.calls)].call = c
      /\ p = "json" => /\ r.calls = << >> /\ r.answers = << >>
                      /\ c \in OpenCalls(r.messages)
  BY DEF Awaits
<1>5. CASE p = "native"
  <2>. DEFINE a == [about |-> c, what |-> "result"]
              answers == Append(r.answers, a)
  <2>0. r.calls # << >>
    BY <1>0, <1>5, <1>9, ShortLists
  <2>1. q = Reading(r.index, r.repairs, st, r.messages, r.calls, answers,
                    r.notes)
    BY <1>0, <1>5, <2>0, ReadResult
  <2>2. a.about = c /\ a.what = "result"
    OBVIOUS
  <2>. HIDE DEF a, st
  <2>3. r.calls[Len(r.answers) + 1].call = a.about
    BY <1>0, <1>5, <1>9, <2>2
  <2>4. /\ IsList(answers) /\ Len(answers) = Len(r.answers) + 1
        /\ \A k \in DOMAIN answers : answers[k].about = r.calls[k].call
    <3>. DEFINE t == r.calls
                s == r.answers
    <3>1. IsList(s) /\ \A k \in DOMAIN s : s[k].about = t[k].call
      BY <1>0, <1>2
    <3>2. t[Len(s) + 1].call = a.about
      BY <2>3
    <3>. HIDE DEF t, s
    <3>3. /\ IsList(Append(s, a)) /\ Len(Append(s, a)) = Len(s) + 1
          /\ \A k \in DOMAIN Append(s, a) :
                Append(s, a)[k].about = t[k].call
      BY ONLY <3>1, <3>2, AnswerBuffered
    <3>. QED  BY <3>3 DEF s, t
  <2>5. answers = r.answers \o <<a>>
    BY <1>0, AppendJoined
  <2>6. Heard(answers) = heard \o <<c>>
    BY <1>0, <2>2, <2>5, HeardMore
  <2>. HIDE DEF answers
  <2>7. q.index = r.index /\ q.repairs = r.repairs /\ q.store = st
        /\ q.messages = r.messages /\ q.calls = r.calls
        /\ q.answers = answers
    BY <2>1, Written
  <2>8. Len(answers) <= Len(r.calls)
    BY <1>0, <1>5, <1>9, <2>4
  <2>12. IsList(r.calls) /\ IsList(r.messages) /\ WellPaired(r.messages)
    BY <1>0
  <2>9. Ready(q)
    BY ONLY <1>1, <1>2, <1>7, <1>8, <2>1, <2>4, <2>8, <2>12,
            ReadingReady
  <2>10. Len(q.answers) = Len(q.calls)
    BY <1>0, <1>5, <1>9, <2>4, <2>7
  <2>11. Aloud(q) = said \o (heard \o <<c>>)
    BY <2>6, <2>7 DEF Aloud
  <2>. QED  BY <1>4, <1>5, <2>7, <2>9, <2>10, <2>11 DEF st
<1>6. CASE p = "json"
  <2>. DEFINE m == Said(c, "result")
              ms == r.messages \o <<m>>
  <2>1. q = Reading(r.index, r.repairs, st, ms, r.calls, r.answers, r.notes)
    BY <1>0, <1>6, ReadResult
  <2>2. m.role = "user" /\ m.what = "result" /\ m.about = c
    BY DEF Said
  <2>. HIDE DEF m, st
  <2>3. IsList(ms) /\ WellPaired(ms) /\ Quoted(ms) = Quoted(r.messages)
    BY <1>0, <1>6, <1>9, <2>2, OneMore DEF OpenCalls
  <2>4. Reports(<<m>>) = <<c>> /\ IsList(<<m>>)
    BY <2>2, ShortLists, OneReported
  <2>5. Reports(ms) = said \o <<c>>
    BY <1>0, <2>4, ReportsJoined
  <2>. HIDE DEF ms
  <2>6. q.index = r.index /\ q.repairs = r.repairs /\ q.store = st
        /\ q.messages = ms /\ q.calls = r.calls
        /\ q.answers = r.answers
    BY <2>1, Written
  <2>7. \A x \in Quoted(ms) : x[1] \in Nat /\ x[1] < r.index
    BY <1>1, <2>3
  <2>14. IsList(r.calls) /\ IsList(r.answers)
         /\ Len(r.answers) <= Len(r.calls)
    BY <1>0
  <2>8. Ready(q)
    BY ONLY <1>2, <1>7, <1>8, <2>1, <2>3, <2>7, <2>14, ReadingReady
  <2>9. heard = << >>
    BY <1>6, <1>9, NothingHeard
  <2>10. Aloud(q) = (said \o <<c>>) \o << >>
    BY <2>5, <2>6, <2>9 DEF Aloud
  <2>11. << >> \o <<c>> = <<c>> \o << >>
    OBVIOUS
  <2>12. (said \o <<c>>) \o << >> = said \o (<<c>> \o << >>)
    BY <1>3, ShortLists, JoinedThrice
  <2>13. Aloud(q) = Append(Aloud(r), c)
    BY <1>4, <2>9, <2>10, <2>11, <2>12
  <2>. QED  BY <1>6, <1>9, <2>6, <2>8, <2>13 DEF st
<1>. QED  BY <1>5, <1>6

\* Nobody decided yet: the gate is announced, and the call is not made.
LEMMA ReadyGate ==
    ASSUME NEW r, Ready(r), NEW p \in {"json", "native"},
           Len(r.answers) = Len(r.calls), NEW c,
           NEW q, q = ReadAs(p, r, Gate(c))
    PROVE  /\ Ready(q) /\ q.index = r.index /\ q.repairs = r.repairs
           /\ q.store = r.store /\ Len(q.answers) = Len(q.calls)
           /\ p = "json" => q.calls = r.calls /\ q.answers = r.answers
           /\ Aloud(q) = Aloud(r)
<1>0. /\ Reader(r) /\ r.index \in Nat /\ r.repairs \in Nat
      /\ IsList(r.store) /\ IsList(r.messages) /\ WellPaired(r.messages)
      /\ r.notes \in Nat /\ IsList(r.answers) /\ IsList(r.calls)
      /\ Len(r.answers) \in Nat /\ Len(r.calls) \in Nat
  BY ReadyFacts
<1>1. \A x \in Quoted(r.messages) : x[1] \in Nat /\ x[1] < r.index
  BY ReadyFacts
<1>4. CASE p = "native"
  <2>. DEFINE calls == WithCall(r, c)
              a == [about |-> c, what |-> "reason"]
              answers == Append(r.answers, a)
  <2>1. q = Reading(r.index, r.repairs, r.store, r.messages, calls,
                    answers, r.notes)
    BY <1>0, <1>4, ReadGate DEF WithCall
  <2>2. a.about = c /\ a.what # "result"
    OBVIOUS
  <2>3. /\ IsList(calls) /\ Len(calls) = Len(r.calls) + 1
        /\ calls[Len(r.calls) + 1].call = c
        /\ \A k \in DOMAIN calls :
              calls[k] = Declares(Id(r.index, k - 1), calls[k].call)
        /\ \A k \in DOMAIN r.answers : r.answers[k].about = calls[k].call
    BY CallBuffered
  <2>. HIDE DEF calls, a
  <2>4. calls[Len(r.answers) + 1].call = a.about
    BY <2>2, <2>3
  <2>5. /\ IsList(answers) /\ Len(answers) = Len(r.answers) + 1
        /\ \A k \in DOMAIN answers : answers[k].about = calls[k].call
    <3>. DEFINE s == r.answers
    <3>1. IsList(s) /\ \A k \in DOMAIN s : s[k].about = calls[k].call
      BY <1>0, <2>3
    <3>2. calls[Len(s) + 1].call = a.about
      BY <2>4
    <3>. HIDE DEF s
    <3>3. /\ IsList(Append(s, a)) /\ Len(Append(s, a)) = Len(s) + 1
          /\ \A k \in DOMAIN Append(s, a) :
                Append(s, a)[k].about = calls[k].call
      BY ONLY <3>1, <3>2, AnswerBuffered
    <3>. QED  BY <3>3 DEF s
  <2>6. answers = r.answers \o <<a>>
    BY <1>0, AppendJoined
  <2>7. Heard(answers) = Heard(r.answers)
    BY <1>0, <2>2, <2>6, HeardMore
  <2>. HIDE DEF answers
  <2>8. q.index = r.index /\ q.repairs = r.repairs /\ q.store = r.store
        /\ q.messages = r.messages /\ q.calls = calls
        /\ q.answers = answers
    BY <2>1, Written
  <2>9. Len(answers) = Len(calls) /\ Len(answers) <= Len(calls)
    BY <1>0, <2>3, <2>5
  <2>10. Ready(q)
    BY ONLY <1>0, <1>1, <2>1, <2>3, <2>5, <2>9, ReadingReady
  <2>11. Aloud(q) = Aloud(r)
    BY <2>7, <2>8 DEF Aloud
  <2>. QED  BY <1>4, <2>8, <2>9, <2>10, <2>11
<1>5. CASE p = "json"
  <2>. DEFINE d == Declares(Id(r.index, 1), c)
              calls == <<d>>
              new == <<Turn(calls), Said(c, "reason")>>
              ms == r.messages \o new
  <2>1. q = Reading(r.index, r.repairs, r.store, ms, r.calls, r.answers,
                    r.notes)
    BY <1>0, <1>5, ReadGate
  <2>2. c \in {x.call : x \in Range(calls)}
    <3>1. d \in Range(calls) /\ d.call = c
      BY DEF Declares, Range
    <3>. QED  BY <3>1
  <2>. HIDE DEF d, calls
  <2>3. IsList(ms) /\ WellPaired(ms) /\ Quoted(ms) = Quoted(r.messages)
    BY <1>0, <2>2, TurnAndSaid
  <2>4. IsList(new) /\ Reports(new) = << >>
    BY TurnSilent
  <2>5. Reports(ms) = Reports(r.messages) \o Reports(new)
    BY <1>0, <2>4, ReportsJoined
  <2>6. Reports(r.messages) \o << >> = Reports(r.messages)
    BY <1>0, ReportsAre, JoinedNothing
  <2>. HIDE DEF new, ms
  <2>7. q.index = r.index /\ q.repairs = r.repairs /\ q.store = r.store
        /\ q.messages = ms /\ q.calls = r.calls
        /\ q.answers = r.answers
    BY <2>1, Written
  <2>8. \A x \in Quoted(ms) : x[1] \in Nat /\ x[1] < r.index
    BY <1>1, <2>3
  <2>9. /\ \A k \in DOMAIN r.calls :
              r.calls[k] = Declares(Id(r.index, k - 1), r.calls[k].call)
        /\ \A k \in DOMAIN r.answers : r.answers[k].about = r.calls[k].call
        /\ Len(r.answers) <= Len(r.calls)
    BY ReadyFacts
  <2>10. Ready(q)
    BY ONLY <1>0, <2>1, <2>3, <2>8, <2>9, ReadingReady
  <2>11. Aloud(q) = Aloud(r)
    BY <2>4, <2>5, <2>6, <2>7 DEF Aloud
  <2>. QED  BY <1>5, <2>7, <2>10, <2>11
<1>. QED  BY <1>4, <1>5

(* What holds of a run between two of its steps. *)

\* The stream as it would be read now, the open turn not flushed.
told == Told(protocol, log)

AtWork == {"calls", "calling", "gate"}

\* The records of n steps, numbered from 0, and of m repair turns.
Tallied(l, n, m) ==
    /\ IsList(l) /\ Len(Of("step_started", l)) = n
    /\ \A k \in DOMAIN Of("step_started", l) :
          Of("step_started", l)[k].index = k - 1
    /\ Len(Of("grounding", l)) = m

\* The numbers of the run and the records they are read from.
Counted ==
    /\ protocol \in {"json", "native"} /\ ceiling \in Nat
    /\ next \in Nat /\ total \in Nat /\ granted \in Nat /\ lifted \in BOOLEAN
    /\ repairs \in 0..MaxRepairs
    /\ Tallied(log, next, repairs)
    /\ (ceiling > 0 /\ ~lifted) =>
          total > 0 /\ total <= ceiling + granted /\ next <= ceiling + granted
    /\ pc \notin {"boundary", "over", "dead"} => next > 0

\* Calls of step i that the conversation still waits for.
Due(calls, ms, i) ==
    \A k \in DOMAIN calls :
        /\ calls[k] = Declares(calls[k].id, calls[k].call)
        /\ calls[k] \in Open(ms) /\ calls[k].id \notin Quoted(ms)
        /\ calls[k].id[1] = i
        /\ \A j \in DOMAIN calls : calls[j].id = calls[k].id => j = k

\* The conversation of the process, and what it has left to do in it.
Spoken ==
    /\ IsList(messages) /\ WellPaired(messages)
    /\ \A q \in Quoted(messages) :
          q[1] \in Nat /\ q[1] < next /\ (pc = "asked" => q[1] < next - 1)
    /\ IsList(todo)
    /\ pc \in AtWork => /\ todo # << >> /\ (protocol = "json" => Len(todo) = 1)
                        /\ Due(todo, messages, next - 1)

\* The stream: at the step and the repairs the process is at, an answer to
\* every call but the one being made.
Retold ==
    /\ Ready(told) /\ told.repairs = repairs
    /\ told.index = (IF next = 0 THEN 0 ELSE next - 1)
    /\ next = 0 => told.calls = << >>
    /\ pc \in {"asked", "calls", "gate"} =>
          Len(told.answers) = Len(told.calls)
    /\ protocol = "json" => told.calls = << >> /\ told.answers = << >>
    /\ (pc = "calling" /\ protocol = "native") =>
          /\ Len(told.calls) = Len(told.answers) + 1
          /\ told.calls[Len(told.calls)].call = Head(todo).call
    /\ (pc = "calling" /\ protocol = "json") =>
          Head(todo).call \in OpenCalls(told.messages)

\* The results: the store, the conversation and the stream have the same.
Shown ==
    /\ IsList(store) /\ Reports(messages) = store
    /\ told.store = store /\ Aloud(told) = store

-----------------------------------------------------------------------------
(* The numbers. *)

\* The next step number is read off the records.
LEMMA SpentIsNext ==
    ASSUME NEW l, NEW n \in Nat, IsList(Of("step_started", l)),
           Len(Of("step_started", l)) = n,
           \A k \in DOMAIN Of("step_started", l) :
              Of("step_started", l)[k].index = k - 1
    PROVE  SpentSteps(l) = n
<1>. DEFINE s == Of("step_started", l)
            S == {-1} \cup {s[i].index : i \in DOMAIN s}
<1>1. SpentSteps(l) = Max(S) + 1
  BY DEF SpentSteps
<1>2. DOMAIN s = 1..n
  BY ListFacts
<1>3. S = -1..(n - 1)
  <2>1. ASSUME NEW x \in S
        PROVE  x \in -1..(n - 1)
    BY <1>2
  <2>2. ASSUME NEW x \in -1..(n - 1)
        PROVE  x \in S
    <3>1. CASE x = -1
      BY <3>1
    <3>2. CASE x # -1
      <4>1. x + 1 \in DOMAIN s /\ s[x + 1].index = (x + 1) - 1
        BY <1>2, <3>2
      <4>2. x = s[x + 1].index
        BY <4>1
      <4>. QED  BY <4>1, <4>2
    <3>. QED  BY <3>1, <3>2
  <2>. QED  BY <2>1, <2>2
<1>. HIDE DEF S
<1>4. n - 1 \in S /\ \A x \in S : n - 1 >= x
  BY <1>3
<1>5. \A m \in S : (\A x \in S : m >= x) => m = n - 1
  BY <1>3
<1>6. Max(S) = n - 1
  BY <1>4, <1>5 DEF Max
<1>. QED  BY <1>1, <1>6

\* One record more: what it counts as.
LEMMA TalliedMore ==
    ASSUME NEW l, NEW n \in Nat, NEW m \in Nat, Tallied(l, n, m), NEW e
    PROVE  /\ (e.event # "step_started" /\ e.event # "grounding") =>
                 Tallied(l \o <<e>>, n, m)
           /\ (e.event = "step_started" /\ e.index = n) =>
                 Tallied(l \o <<e>>, n + 1, m)
           /\ e.event = "grounding" => Tallied(l \o <<e>>, n, m + 1)
<1>. DEFINE u == l \o <<e>>
            s == Of("step_started", l)
            g == Of("grounding", l)
<1>1. IsList(l) /\ IsList(<<e>>) /\ Len(s) = n /\ Len(g) = m
  BY ShortLists DEF Tallied
<1>2. \A k \in DOMAIN s : s[k].index = k - 1
  BY DEF Tallied
<1>3. IsList(u)
  BY <1>1, JoinedIsList
<1>4. /\ Of("step_started", u) = IF e.event = "step_started" THEN s \o <<e>>
                                 ELSE s
      /\ Of("grounding", u) = IF e.event = "grounding" THEN g \o <<e>> ELSE g
      /\ IsList(s) /\ IsList(g)
  BY <1>1, OfMore
<1>. HIDE DEF u, s, g
<1>5. s \o <<e>> = Append(s, e) /\ g \o <<e>> = Append(g, e)
  BY <1>4, AppendJoined
<1>6. /\ DOMAIN s = 1..n /\ DOMAIN Append(s, e) = 1..(n + 1)
      /\ \A k \in DOMAIN s : Append(s, e)[k] = s[k]
      /\ Append(s, e)[n + 1] = e
  BY <1>1, <1>4, Appended
<1>7. DOMAIN Append(g, e) = 1..(m + 1)
  BY <1>1, <1>4, Appended
<1>8. Len(Append(s, e)) = n + 1 /\ Len(Append(g, e)) = m + 1
  BY <1>4, <1>6, <1>7, AppendedIsList, ListFacts
<1>9. ASSUME e.event # "step_started", e.event # "grounding"
      PROVE  Tallied(u, n, m)
  BY <1>1, <1>2, <1>3, <1>4, <1>9 DEF Tallied
<1>10. ASSUME e.event = "grounding"
       PROVE  Tallied(u, n, m + 1)
  BY <1>1, <1>2, <1>3, <1>4, <1>5, <1>8, <1>10 DEF Tallied
<1>11. ASSUME e.event = "step_started", e.index = n
       PROVE  Tallied(u, n + 1, m)
  <2>1. \A k \in DOMAIN Append(s, e) : Append(s, e)[k].index = k - 1
    <3>1. ASSUME NEW k \in DOMAIN Append(s, e)
          PROVE  Append(s, e)[k].index = k - 1
      <4>1. CASE k = n + 1
        BY <1>6, <1>11, <4>1
      <4>2. CASE k \in DOMAIN s
        BY <1>2, <1>6, <4>2
      <4>. QED  BY <1>6, <4>1, <4>2
    <3>. QED  BY <3>1
  <2>2. Of("step_started", u) = Append(s, e) /\ Of("grounding", u) = g
    BY <1>4, <1>5, <1>11
  <2>. QED  BY <1>1, <1>3, <1>8, <2>1, <2>2 DEF Tallied
<1>. QED  BY <1>9, <1>10, <1>11 DEF u

LEMMA TalliedFacts ==
    ASSUME NEW l, NEW n \in Nat, NEW m, Tallied(l, n, m)
    PROVE  IsList(l) /\ SpentSteps(l) = n
<1>1. IsList(l) /\ IsList(Of("step_started", l))
  BY OfMore DEF Tallied
<1>. QED  BY <1>1, SpentIsNext DEF Tallied

LEMMA CountedStart == Init => Counted
<1>. SUFFICES ASSUME Init PROVE Counted
  OBVIOUS
<1>. DEFINE e == << >>
<1>1. log = e /\ IsList(e) /\ Len(e) = 0 /\ DOMAIN e = {}
  BY ShortLists DEF Init
<1>2. ASSUME NEW event
      PROVE  Of(event, e) = e
  <2>1. {i \in DOMAIN e : e[i].event = event} = {}
    BY ShortLists
  <2>. QED  BY <2>1, AmongShort DEF Of
<1>3. /\ protocol \in {"json", "native"} /\ ceiling \in Nat
      /\ next = 0 /\ total = ceiling /\ repairs = 0 /\ granted = 0
      /\ lifted = FALSE /\ pc = "boundary" /\ MaxRepairs \in Nat
  BY RebuildAssumption DEF Init
<1>. HIDE DEF e
<1>4. Tallied(e, 0, 0)
  BY <1>1, <1>2 DEF Tallied
<1>5. Tallied(log, next, repairs)
  BY <1>1, <1>3, <1>4
<1>6. /\ protocol \in {"json", "native"} /\ ceiling \in Nat
      /\ next \in Nat /\ total \in Nat /\ granted \in Nat
  BY <1>3
<1>9. lifted \in BOOLEAN /\ repairs \in 0..MaxRepairs
  <2>1. 0 \in 0..MaxRepairs
    BY RebuildAssumption
  <2>. QED  BY <1>3, <2>1
<1>7. ceiling > 0 =>
          total > 0 /\ total <= ceiling + granted /\ next <= ceiling + granted
  BY <1>3
<1>8. pc \in {"boundary", "over", "dead"}
  BY <1>3
<1>. QED  BY <1>5, <1>6, <1>7, <1>8, <1>9 DEF Counted

\* What a resume makes of a reading: it flushes the open turn.
Back(p, r) == IF p = "native" THEN Flushed(r) ELSE r

LEMMA BackReady ==
    ASSUME NEW r, Ready(r), NEW p \in {"json", "native"},
           p = "json" => r.calls = << >> /\ r.answers = << >>
    PROVE  /\ Back(p, r).repairs = r.repairs /\ Back(p, r).store = r.store
           /\ IsList(Back(p, r).messages) /\ WellPaired(Back(p, r).messages)
           /\ \A q \in Quoted(Back(p, r).messages) :
                 \/ q \in Quoted(r.messages)
                 \/ r.calls # << >> /\ q[1] = r.index
           /\ Reports(Back(p, r).messages) = Aloud(r)
<1>. DEFINE ms == r.messages \o Closing(r)
<1>0. Reader(r) /\ IsList(r.messages) /\ WellPaired(r.messages)
  BY ReadyFacts
<1>1. CASE p = "native"
  <2>1. Back(p, r) = Reading(r.index, r.repairs, r.store, ms, << >>, << >>, 0)
    BY <1>0, <1>1, FlushedIs DEF Back
  <2>2. /\ Back(p, r).repairs = r.repairs /\ Back(p, r).store = r.store
        /\ Back(p, r).messages = ms
    BY <2>1 DEF Reading
  <2>3. /\ IsList(ms) /\ WellPaired(ms) /\ IsList(Closing(r))
        /\ \A q \in Quoted(ms) :
              \/ q \in Quoted(r.messages)
              \/ r.calls # << >> /\ q[1] = r.index
        /\ Reports(Closing(r)) = Heard(r.answers)
    BY FlushKeeps
  <2>4. Reports(ms) = Aloud(r)
    BY <1>0, <2>3, ReportsJoined DEF Aloud
  <2>. QED  BY <2>2, <2>3, <2>4
<1>2. CASE p = "json"
  <2>1. Back(p, r) = r
    BY <1>2 DEF Back
  <2>2. IsList(Reports(r.messages))
    BY <1>0, ReportsAre
  <2>3. Aloud(r) = Reports(r.messages)
    BY <1>2, <2>2, NothingHeard, JoinedNothing DEF Aloud
  <2>. QED  BY <1>0, <2>1, <2>3
<1>. QED  BY <1>1, <1>2

LEMMA RebuiltIs == Rebuilt(log) = Back(protocol, told)
  BY DEF Rebuilt, Back, told, Told, Read, ReadAs

\* A step or a repair turn is counted by its record; nothing else is.
LEMMA CountedStep == Counted /\ Retold /\ [Next]_vars => Counted'
<1>. SUFFICES ASSUME Counted, Retold, [Next]_vars
              PROVE  Counted'
  OBVIOUS
<1>0. /\ protocol \in {"json", "native"} /\ ceiling \in Nat /\ next \in Nat
      /\ total \in Nat /\ granted \in Nat /\ lifted \in BOOLEAN
      /\ repairs \in Nat /\ repairs \in 0..MaxRepairs
      /\ Tallied(log, next, repairs)
  BY RebuildAssumption DEF Counted
<1>1. (ceiling > 0 /\ ~lifted) =>
          total > 0 /\ total <= ceiling + granted /\ next <= ceiling + granted
  BY DEF Counted
<1>2. pc \notin {"boundary", "over", "dead"} => next > 0
  BY DEF Counted
<1>. DEFINE Same == UNCHANGED <<run, next, total, granted, lifted>>
            On == pc' \in {"boundary", "over", "dead"} \/ next > 0
\* A record that counts for nothing.
<1>3. ASSUME NEW e, e.event # "step_started", e.event # "grounding",
             log' = log \o <<e>>, UNCHANGED repairs, Same, On
      PROVE  Counted'
  <2>1. Tallied(log', next, repairs)
    BY <1>0, <1>3, TalliedMore
  <2>. QED  BY <1>0, <1>1, <1>3, <2>1 DEF Counted, run
<1>4. ASSUME UNCHANGED <<log, repairs>>, Same, On
      PROVE  Counted'
  BY <1>0, <1>1, <1>4 DEF Counted, run
<1>5. ASSUME NEW said \in BOOLEAN, Asks(said)
      PROVE  Counted'
  <2>1. log' = log \o <<Step(next, said)>>
    BY <1>5 DEF Asks, Emits
  <2>2. Step(next, said).event = "step_started"
        /\ Step(next, said).index = next
    BY DEF Step
  <2>3. Tallied(log', next + 1, repairs)
    BY <1>0, <2>1, <2>2, TalliedMore
  <2>4. /\ next' = next + 1
        /\ UNCHANGED <<run, total, repairs, granted, lifted>>
        /\ total = 0 \/ next < total
    BY <1>5 DEF Asks, history
  <2>. QED  BY <1>0, <1>1, <2>3, <2>4 DEF Counted, run
<1>6. CASE RejectsReply
  <2>1. Rejection.event = "reply_rejected"
    BY DEF Rejection
  <2>2. log' = log \o <<Rejection>> /\ UNCHANGED repairs /\ Same /\ On
    BY <1>6 DEF RejectsReply, Emits, carried, history
  <2>. QED  BY <1>3, <2>1, <2>2
<1>7. ASSUME NEW n \in 1..MaxCalls, Decides(n)
      PROVE  Counted'
  <2>1. UNCHANGED <<log, repairs>> /\ Same /\ On
    BY <1>2, <1>7 DEF Decides, carried
  <2>. QED  BY <1>4, <2>1
<1>8. CASE RejectsCall
  <2>1. Rejection.event = "reply_rejected"
    BY DEF Rejection
  <2>2. log' = log \o <<Rejection>> /\ UNCHANGED repairs /\ Same /\ On
    BY <1>2, <1>8 DEF RejectsCall, Emits, carried, history
  <2>. QED  BY <1>3, <2>1, <2>2
<1>9. CASE CancelsStep
  <2>1. UNCHANGED <<log, repairs>> /\ Same /\ On
    BY <1>9 DEF CancelsStep, carried, history
  <2>. QED  BY <1>4, <2>1
<1>10. ASSUME NEW place \in {"calls", "gate"}, Dispatches(place)
       PROVE  Counted'
  <2>1. Call(Head(todo).call).event = "tool_call"
    BY DEF Call
  <2>2. /\ log' = log \o <<Call(Head(todo).call)>>
        /\ UNCHANGED repairs /\ Same /\ On
    BY <1>2, <1>10 DEF Dispatches, Emits, carried, history
  <2>. QED  BY <1>3, <2>1, <2>2
<1>11. CASE Returns
  <2>1. Result(Head(todo).call, Len(store')).event = "tool_result"
    BY DEF Result
  <2>2. /\ log' = log \o <<Result(Head(todo).call, Len(store'))>>
        /\ UNCHANGED repairs /\ Same /\ On
    BY <1>2, <1>11 DEF Returns, Emits, carried, history
  <2>. QED  BY <1>3, <2>1, <2>2
<1>12. CASE Gates
  <2>1. Gate(Head(todo).call).event = "gate_requested"
    BY DEF Gate
  <2>2. /\ log' = log \o <<Gate(Head(todo).call)>>
        /\ UNCHANGED repairs /\ Same /\ On
    BY <1>2, <1>12 DEF Gates, Emits, carried, history
  <2>. QED  BY <1>3, <2>1, <2>2
<1>13. CASE GateRefused
  <2>1. UNCHANGED <<log, repairs>> /\ Same /\ On
    BY <1>2, <1>13 DEF GateRefused, carried, history
  <2>. QED  BY <1>4, <2>1
<1>14. CASE RepairsAnswer
  <2>1. Repair(repairs').event = "grounding"
    BY DEF Repair
  <2>2. /\ log' = log \o <<Repair(repairs')>> /\ repairs' = repairs + 1
        /\ repairs < MaxRepairs /\ Same /\ On
    BY <1>14 DEF RepairsAnswer, Emits, history
  <2>3. Tallied(log', next, repairs + 1)
    BY <1>0, <2>1, <2>2, TalliedMore
  <2>4. repairs' \in 0..MaxRepairs
    BY <1>0, <2>2, RebuildAssumption
  <2>. QED  BY <1>0, <1>1, <2>2, <2>3, <2>4 DEF Counted, run
<1>15. CASE Concludes
  <2>1. Answer.event = "answer"
    BY DEF Answer
  <2>2. log' = log \o <<Answer>> /\ UNCHANGED repairs /\ Same /\ On
    BY <1>2, <1>15 DEF Concludes, Emits, carried, history
  <2>. QED  BY <1>3, <2>1, <2>2
<1>16. ASSUME NEW word, Finishes(word)
       PROVE  Counted'
  <2>1. Finished(word).event = "mission_finished"
    BY DEF Finished
  <2>2. log' = log \o <<Finished(word)>> /\ UNCHANGED repairs /\ Same /\ On
    BY <1>16 DEF Finishes, Emits, carried, history
  <2>. QED  BY <1>3, <2>1, <2>2
<1>17. CASE Dies
  <2>1. UNCHANGED <<log, repairs>> /\ Same /\ On
    BY <1>17 DEF Dies, carried, history
  <2>. QED  BY <1>4, <2>1
<1>18. ASSUME NEW more \in Further \cup {Unsaid}, Resumes(more)
       PROVE  Counted'
  <2>1. /\ next' = SpentSteps(log) /\ total' = TotalSteps(log, more)
        /\ repairs' = Rebuilt(log).repairs /\ pc' = "boundary"
        /\ granted' = granted + (IF more = Unsaid THEN 0 ELSE more)
        /\ lifted' = (lifted \/ more = 0) /\ UNCHANGED <<run, log>>
    BY <1>18 DEF Resumes
  <2>2. SpentSteps(log) = next
    BY <1>0, TalliedFacts
  <2>3. Rebuilt(log).repairs = repairs
    <3>1. /\ Ready(told) /\ told.repairs = repairs
          /\ protocol = "json" => told.calls = << >> /\ told.answers = << >>
      BY DEF Retold
    <3>2. Back(protocol, told).repairs = told.repairs
      BY <1>0, <3>1, BackReady
    <3>. QED  BY <3>1, <3>2, RebuiltIs
  <2>4. CASE more = Unsaid
    <3>1. more # 0 /\ total' = IF ceiling = 0 THEN 0 ELSE Max({ceiling, next})
      BY <2>1, <2>2, <2>4, RebuildAssumption DEF TotalSteps
    <3>2. Max({ceiling, next}) = IF ceiling >= next THEN ceiling ELSE next
      BY <1>0 DEF Max
    <3>. QED  BY <1>0, <1>1, <2>1, <2>2, <2>3, <2>4, <3>1, <3>2
              DEF Counted, run
  <2>5. CASE more # Unsaid
    <3>1. more \in Nat /\ total' = IF more = 0 THEN 0 ELSE next + more
      BY <2>1, <2>2, <2>5, RebuildAssumption DEF TotalSteps
    <3>2. /\ total' \in Nat /\ granted' \in Nat /\ lifted' \in BOOLEAN
          /\ granted' = granted + more
      BY <1>0, <2>1, <2>5, <3>1
    <3>3. (ceiling > 0 /\ ~lifted') =>
              /\ total' > 0 /\ total' <= ceiling + granted'
              /\ next <= ceiling + granted'
      <4>1. ~lifted' => ~lifted /\ more # 0
        BY <2>1
      <4>2. more # 0 => total' = next + more /\ more > 0
        BY <3>1
      <4>3. ASSUME ceiling > 0, ~lifted, more # 0
            PROVE  /\ total' > 0 /\ total' <= ceiling + granted'
                   /\ next <= ceiling + granted'
        <5>1. next <= ceiling + granted
          BY <1>1, <4>3
        <5>2. total' = next + more /\ more > 0 /\ granted' = granted + more
          BY <3>2, <4>2, <4>3
        <5>. QED  BY <1>0, <3>1, <5>1, <5>2
      <4>. QED  BY <4>1, <4>3
    <3>4. /\ protocol' = protocol /\ ceiling' = ceiling /\ log' = log
          /\ next' = next /\ repairs' = repairs /\ pc' = "boundary"
      BY <2>1, <2>2, <2>3 DEF run
    <3>. QED  BY <1>0, <3>2, <3>3, <3>4 DEF Counted
  <2>. QED  BY <2>4, <2>5
<1>19. CASE UNCHANGED vars
  <2>1. UNCHANGED <<log, repairs>> /\ Same /\ UNCHANGED pc
    BY <1>19 DEF vars, carried, history
  <2>2. On
    BY <1>0, <1>2, <2>1
  <2>. QED  BY <1>4, <2>1, <2>2
<1>20. CASE Ends
  BY <1>16, <1>20 DEF Ends
<1>. QED  BY <1>5, <1>6, <1>7, <1>8, <1>9, <1>10, <1>11, <1>12, <1>13, <1>14,
            <1>15, <1>17, <1>18, <1>19, <1>20 DEF Next

-----------------------------------------------------------------------------
(* The conversation. *)

\* A list without elements.
LEMMA NoneLeft ==
    ASSUME NEW s, IsList(s), Len(s) = 0
    PROVE  s = << >>
  BY EmptySeq DEF IsList

\* The first call of those that are due is replied to.
LEMMA Replied ==
    ASSUME NEW ms, IsList(ms), WellPaired(ms), NEW i,
           NEW calls, IsList(calls), calls # << >>, Due(calls, ms, i),
           protocol = "native" \/ Len(calls) = 1, NEW what
    PROVE  /\ IsList(ms \o <<Reply(Head(calls), what)>>)
           /\ WellPaired(ms \o <<Reply(Head(calls), what)>>)
           /\ \A q \in Quoted(ms \o <<Reply(Head(calls), what)>>) :
                 q \in Quoted(ms) \/ q[1] = i
           /\ IsList(Tail(calls))
           /\ Tail(calls) # << >> =>
                 /\ protocol = "native"
                 /\ Due(Tail(calls), ms \o <<Reply(Head(calls), what)>>, i)
<1>. DEFINE d == Head(calls)
            m == Reply(d, what)
            u == ms \o <<m>>
            rest == Tail(calls)
<1>1. /\ Len(calls) > 0 /\ Len(rest) = Len(calls) - 1
      /\ DOMAIN rest = 1..(Len(calls) - 1)
      /\ d = calls[1] /\ 1 \in DOMAIN calls
      /\ \A k \in DOMAIN rest :
            rest[k] = calls[k + 1] /\ k + 1 \in DOMAIN calls
  BY Rest
<1>2. IsList(rest)
  BY RestIsList
<1>3. /\ d = Declares(d.id, d.call) /\ d \in Open(ms)
      /\ d.id \notin Quoted(ms) /\ d.id[1] = i
  BY <1>1 DEF Due
<1>4. /\ m.role = IF protocol = "native" THEN "tool" ELSE "user"
      /\ m.about = d.call /\ m.what = what
      /\ protocol = "native" => m.to = d.id
  BY DEF Reply, Tool, Said
<1>. HIDE DEF d, m, rest
<1>5. /\ m.role = "tool" => /\ Declares(m.to, m.about) \in Open(ms)
                            /\ m.to \notin Quoted(ms)
      /\ (m.role = "user" /\ m.about # 0) =>
            m.about \in {x.call : x \in Open(ms)}
  BY <1>3, <1>4
<1>6. /\ IsList(u) /\ WellPaired(u)
      /\ Quoted(u) = IF m.role = "tool" THEN Quoted(ms) \cup {m.to}
                     ELSE Quoted(ms)
      /\ m.role = "tool" => \A x \in Open(ms) : x \in Open(u)
  BY <1>5, OneMore
<1>7. ASSUME NEW q \in Quoted(u)
      PROVE  q \in Quoted(ms) \/ q[1] = i
  BY <1>3, <1>4, <1>6, <1>7
<1>8. ASSUME rest # << >>
      PROVE  protocol = "native" /\ Due(rest, u, i)
  <2>1. protocol = "native"
    <3>1. Len(calls) # 1
      BY <1>1, <1>2, <1>8, NoneLeft
    <3>. QED  BY <3>1
  <2>2. Quoted(u) = Quoted(ms) \cup {d.id} /\ \A x \in Open(ms) : x \in Open(u)
    BY <1>4, <1>6, <2>1
  <2>3. ASSUME NEW k \in DOMAIN rest
        PROVE  /\ rest[k] = Declares(rest[k].id, rest[k].call)
               /\ rest[k] \in Open(u) /\ rest[k].id \notin Quoted(u)
               /\ rest[k].id[1] = i
               /\ \A j \in DOMAIN rest : rest[j].id = rest[k].id => j = k
    <3>1. /\ rest[k] = calls[k + 1] /\ k + 1 \in DOMAIN calls
          /\ k \in Nat /\ k + 1 # 1
      BY <1>1
    <3>2. /\ calls[k + 1] = Declares(calls[k + 1].id, calls[k + 1].call)
          /\ calls[k + 1] \in Open(ms) /\ calls[k + 1].id \notin Quoted(ms)
          /\ calls[k + 1].id[1] = i
          /\ \A j \in DOMAIN calls :
                calls[j].id = calls[k + 1].id => j = k + 1
      BY <3>1 DEF Due
    <3>3. calls[k + 1].id # d.id
      BY <1>1, <3>1, <3>2
    <3>4. ASSUME NEW j \in DOMAIN rest, rest[j].id = rest[k].id
          PROVE  j = k
      <4>1. rest[j] = calls[j + 1] /\ j + 1 \in DOMAIN calls /\ j \in Nat
        BY <1>1
      <4>2. j + 1 = k + 1
        BY <3>1, <3>2, <3>4, <4>1
      <4>. QED  BY <3>1, <4>1, <4>2
    <3>. QED  BY <2>2, <3>1, <3>2, <3>3, <3>4
  <2>4. Due(rest, u, i)
    BY <2>3 DEF Due
  <2>. QED  BY <2>1, <2>4
<1>. QED  BY <1>2, <1>6, <1>7, <1>8 DEF d, m, rest

\* What a reply reports.
LEMMA ReplyReported ==
    ASSUME NEW ms, IsList(ms), NEW d, NEW what
    PROVE  Reports(ms \o <<Reply(d, what)>>)
             = IF what = "result" THEN Append(Reports(ms), d.call)
               ELSE Reports(ms)
<1>. DEFINE m == Reply(d, what)
            u == ms \o <<m>>
<1>1. m.role # "assistant" /\ m.about = d.call /\ m.what = what
  BY DEF Reply, Tool, Said
<1>. HIDE DEF m
<1>2. IsList(<<m>>) /\ IsList(Reports(ms))
  BY ShortLists, ReportsAre
<1>3. Reports(u) = Reports(ms) \o Reports(<<m>>)
  BY <1>2, ReportsJoined
<1>. HIDE DEF u
<1>4. CASE what = "result"
  <2>1. Reports(<<m>>) = <<d.call>>
    BY <1>1, <1>4, OneReported
  <2>. QED  BY <1>2, <1>3, <1>4, <2>1, AppendJoined DEF m, u
<1>5. CASE what # "result"
  <2>1. Reports(<<m>>) = << >>
    BY <1>1, <1>5, OneSilent
  <2>. QED  BY <1>2, <1>3, <1>5, <2>1, JoinedNothing DEF m, u
<1>. QED  BY <1>4, <1>5

LEMMA SpokenStart == Init => Spoken
<1>. SUFFICES ASSUME Init PROVE Spoken
  OBVIOUS
<1>1. messages = << >> /\ todo = << >> /\ pc = "boundary"
  BY DEF Init
<1>2. IsList(<< >>) /\ WellPaired(<< >>) /\ Quoted(<< >>) = {}
  BY ShortLists DEF WellPaired, Quoted
<1>. QED  BY <1>1, <1>2 DEF Spoken, AtWork

\* Whatever is said answers what is open, and what is due stays open.
LEMMA SpokenStep == Counted /\ Spoken /\ Retold /\ [Next]_vars => Spoken'
<1>. SUFFICES ASSUME Counted, Spoken, Retold, [Next]_vars
              PROVE  Spoken'
  OBVIOUS
<1>0. /\ protocol \in {"json", "native"} /\ next \in Nat
      /\ pc \notin {"boundary", "over", "dead"} => next > 0
  BY DEF Counted
<1>1. /\ IsList(messages) /\ WellPaired(messages) /\ IsList(todo)
      /\ \A q \in Quoted(messages) :
            q[1] \in Nat /\ q[1] < next /\ (pc = "asked" => q[1] < next - 1)
      /\ pc \in AtWork => /\ todo # << >>
                          /\ protocol = "json" => Len(todo) = 1
                          /\ Due(todo, messages, next - 1)
  BY DEF Spoken
<1>21. ASSUME pc \in AtWork
       PROVE  /\ todo # << >> /\ Due(todo, messages, next - 1)
              /\ protocol = "native" \/ Len(todo) = 1
  <2>1. protocol = "json" => Len(todo) = 1
    BY <1>21 DEF Spoken
  <2>2. protocol = "json" \/ protocol = "native"
    BY <1>0
  <2>. QED  BY <1>1, <1>21, <2>1, <2>2
\* Nothing is said, and nobody is asked.
<1>2. ASSUME UNCHANGED <<protocol, next, messages, todo>>, pc' # "asked",
             pc' \in AtWork => pc \in AtWork
      PROVE  Spoken'
  BY <1>1, <1>2 DEF Spoken
\* Something is said that quotes no id, and nothing is left to do.
<1>3. ASSUME NEW ms, messages' = ms, IsList(ms), WellPaired(ms),
             \A q \in Quoted(ms) :
                /\ q[1] \in Nat /\ q[1] < next'
                /\ pc' = "asked" => q[1] < next' - 1,
             IsList(todo'), pc' \notin AtWork
      PROVE  Spoken'
  BY <1>3 DEF Spoken
\* The first call that is left is replied to.
<1>4. ASSUME NEW what, pc \in AtWork, UNCHANGED <<protocol, next>>,
             messages' = messages \o <<Reply(Head(todo), what)>>, NextCall
      PROVE  Spoken'
  <2>. DEFINE u == messages \o <<Reply(Head(todo), what)>>
              i == next - 1
              rest == Tail(todo)
  <2>1. /\ IsList(u) /\ WellPaired(u)
        /\ \A q \in Quoted(u) : q \in Quoted(messages) \/ q[1] = i
        /\ IsList(rest)
        /\ rest # << >> => protocol = "native" /\ Due(rest, u, i)
    <3>1. /\ todo # << >> /\ Due(todo, messages, i)
          /\ protocol = "native" \/ Len(todo) = 1
      BY <1>4, <1>21
    <3>2. IsList(messages) /\ WellPaired(messages) /\ IsList(todo)
      BY <1>1
    <3>. HIDE DEF i
    <3>. QED  BY ONLY <3>1, <3>2, Replied
  <2>. HIDE DEF u
  <2>2. /\ messages' = u /\ todo' = rest
        /\ pc' = IF rest = << >> THEN "boundary" ELSE "calls"
    BY <1>4 DEF NextCall, Goes, u
  <2>3. next > 0
    BY <1>0, <1>4 DEF AtWork
  <2>4. \A q \in Quoted(u) : q[1] \in Nat /\ q[1] < next
    BY <1>0, <1>1, <2>1, <2>3
  <2>. HIDE DEF rest
  <2>5. CASE rest = << >>
    BY <1>4, <2>1, <2>2, <2>4, <2>5 DEF Spoken, AtWork
  <2>6. CASE rest # << >>
    <3>1. protocol' = "native" /\ next' - 1 = i /\ pc' = "calls"
      BY <1>4, <2>1, <2>2, <2>6
    <3>2. Due(rest, u, i)
      BY <2>1, <2>6
    <3>. HIDE DEF i
    <3>. QED  BY <1>4, <2>1, <2>2, <2>4, <2>6, <3>1, <3>2
              DEF Spoken, AtWork
  <2>. QED  BY <2>5, <2>6
<1>5. ASSUME NEW said \in BOOLEAN, Asks(said)
      PROVE  Spoken'
  <2>. DEFINE m == Said(0, "instruction")
              u == IF said THEN messages \o <<m>> ELSE messages
  <2>1. m.role = "user" /\ m.about = 0
    BY DEF Said
  <2>. HIDE DEF m
  <2>2. /\ IsList(messages \o <<m>>) /\ WellPaired(messages \o <<m>>)
        /\ Quoted(messages \o <<m>>) = Quoted(messages)
    BY <1>1, <2>1, OneMore
  <2>3. IsList(u) /\ WellPaired(u) /\ Quoted(u) = Quoted(messages)
    BY <1>1, <2>2
  <2>4. messages' = u
    BY <1>1, <1>5, JoinedNothing DEF Asks, Hears, m
  <2>. HIDE DEF u
  <2>5. next' = next + 1 /\ pc' = "asked" /\ todo' = todo
    BY <1>5 DEF Asks
  <2>6. \A q \in Quoted(u) :
           q[1] \in Nat /\ q[1] < next' /\ (pc' = "asked" => q[1] < next' - 1)
    BY <1>0, <1>1, <2>3, <2>5
  <2>7. IsList(todo') /\ pc' \notin AtWork
    BY <1>1, <2>5 DEF AtWork
  <2>. QED  BY <1>3, <2>3, <2>4, <2>6, <2>7
<1>6. ASSUME messages' = messages \o <<Turn(<< >>), Said(0, "note")>>,
             UNCHANGED <<protocol, next, todo>>, pc' = "boundary"
      PROVE  Spoken'
  <2>. DEFINE u == messages \o <<Turn(<< >>), Said(0, "note")>>
  <2>1. IsList(u) /\ WellPaired(u) /\ Quoted(u) = Quoted(messages)
    BY <1>1, TurnAndSaid
  <2>2. messages' = u
    BY <1>6
  <2>. HIDE DEF u
  <2>3. \A q \in Quoted(u) :
           q[1] \in Nat /\ q[1] < next' /\ (pc' = "asked" => q[1] < next' - 1)
    BY <1>1, <1>6, <2>1
  <2>4. IsList(todo') /\ pc' \notin AtWork
    BY <1>1, <1>6 DEF AtWork
  <2>. QED  BY <1>3, <2>1, <2>2, <2>3, <2>4
<1>7. ASSUME NEW n \in 1..MaxCalls, Decides(n)
      PROVE  Spoken'
  <2>. DEFINE calls == [k \in 1..n |-> Declares(Id(next - 1, k), made + k)]
              m == Turn(calls)
              u == messages \o <<m>>
  <2>0. n \in Nat /\ n > 0
    BY RebuildAssumption
  <2>1. /\ messages' = u /\ todo' = calls /\ pc' = "calls" /\ pc = "asked"
        /\ protocol = "json" => n = 1
        /\ UNCHANGED <<protocol, next>>
    BY <1>7 DEF Decides, Hears, run, carried
  <2>2. /\ DOMAIN calls = 1..n
        /\ \A k \in 1..n : /\ calls[k] = Declares(calls[k].id, calls[k].call)
                           /\ calls[k].id = <<next - 1, k>>
    BY DEF Declares, Id
  <2>3. IsList(calls) /\ Len(calls) = n
    BY <2>0, Listed
  <2>4. m.role = "assistant" /\ m.calls = calls
    BY DEF Turn
  <2>. HIDE DEF calls, m
  <2>5. /\ IsList(u) /\ WellPaired(u) /\ Quoted(u) = Quoted(messages)
        /\ \A d \in Range(calls) : d \in Open(u)
    BY <1>1, <2>4, OneMore
  <2>. HIDE DEF u
  <2>6. ASSUME NEW k \in DOMAIN calls
        PROVE  /\ calls[k] = Declares(calls[k].id, calls[k].call)
               /\ calls[k] \in Open(u) /\ calls[k].id \notin Quoted(u)
               /\ calls[k].id[1] = next - 1
               /\ \A j \in DOMAIN calls : calls[j].id = calls[k].id => j = k
    <3>1. calls[k] \in Range(calls)
      BY DEF Range
    <3>2. calls[k].id = <<next - 1, k>> /\ calls[k].id[1] = next - 1
      BY <2>2
    <3>3. calls[k].id \notin Quoted(u)
      BY <1>0, <1>1, <2>1, <2>5, <3>2
    <3>4. \A j \in DOMAIN calls : calls[j].id = calls[k].id => j = k
      BY <2>2
    <3>. QED  BY <2>2, <2>5, <3>1, <3>2, <3>3, <3>4
  <2>7. Due(calls, u, next - 1)
    BY <2>6 DEF Due
  <2>8. calls # << >>
    BY <2>0, <2>3, ShortLists
  <2>9. \A q \in Quoted(u) : q[1] \in Nat /\ q[1] < next
    BY <1>1, <2>5
  <2>. QED  BY <2>1, <2>3, <2>5, <2>7, <2>8, <2>9 DEF Spoken, AtWork
<1>8. CASE RejectsReply
  <2>1. /\ messages' = messages \o <<Turn(<< >>), Said(0, "note")>>
        /\ UNCHANGED <<protocol, next, todo>> /\ pc' = "boundary"
    BY <1>8 DEF RejectsReply, Hears, run, carried
  <2>. QED  BY <1>6, <2>1
<1>9. CASE RejectsCall
  <2>1. /\ pc \in AtWork /\ UNCHANGED <<protocol, next>>
        /\ messages' = messages \o <<Reply(Head(todo), "note")>> /\ NextCall
    BY <1>9 DEF RejectsCall, Hears, run, carried, AtWork
  <2>. QED  BY <1>4, <2>1
<1>10. CASE CancelsStep
  <2>. DEFINE u == messages \o Replies(todo)
  <2>1. /\ messages' = u /\ todo' = << >> /\ pc' = "boundary"
        /\ pc \in AtWork /\ UNCHANGED <<protocol, next>>
    BY <1>10 DEF CancelsStep, Hears, Replies, run, carried, AtWork
  <2>2. /\ \A k \in DOMAIN todo :
              /\ todo[k] = Declares(todo[k].id, todo[k].call)
              /\ todo[k] \in Open(messages)
              /\ todo[k].id \notin Quoted(messages)
              /\ \A j \in DOMAIN todo : todo[j].id = todo[k].id => j = k
        /\ \A k \in DOMAIN todo : todo[k].id[1] = next - 1
    BY <1>1, <2>1 DEF Due
  <2>3. protocol = "native" \/ Len(todo) <= 1
    <3>1. protocol = "native" \/ Len(todo) = 1
      BY <1>21, <2>1
    <3>. QED  BY <3>1
  <2>4. /\ IsList(Replies(todo)) /\ WellPaired(u)
        /\ \A q \in Quoted(u) :
              q \in Quoted(messages) \/ \E k \in DOMAIN todo : q = todo[k].id
    BY <1>1, <2>2, <2>3, AllReplied
  <2>5. IsList(u)
    BY <1>1, <2>4, JoinedIsList
  <2>. HIDE DEF u
  <2>6. next > 0
    BY <1>0, <2>1 DEF AtWork
  <2>7. \A q \in Quoted(u) : q[1] \in Nat /\ q[1] < next
    BY <1>0, <1>1, <2>2, <2>4, <2>6
  <2>. QED  BY <2>1, <2>4, <2>5, <2>7, ShortLists DEF Spoken, AtWork
<1>11. ASSUME NEW place \in {"calls", "gate"}, Dispatches(place)
       PROVE  Spoken'
  <2>1. /\ UNCHANGED <<protocol, next, messages, todo>> /\ pc' # "asked"
        /\ pc \in AtWork
    BY <1>11 DEF Dispatches, run, carried, AtWork
  <2>. QED  BY <1>2, <2>1
<1>12. CASE Returns
  <2>1. /\ pc \in AtWork /\ UNCHANGED <<protocol, next>>
        /\ messages' = messages \o <<Reply(Head(todo), "result")>> /\ NextCall
    BY <1>12 DEF Returns, Hears, run, carried, AtWork
  <2>. QED  BY <1>4, <2>1
<1>13. CASE Gates
  <2>1. /\ UNCHANGED <<protocol, next, messages, todo>> /\ pc' # "asked"
        /\ pc \in AtWork
    BY <1>13 DEF Gates, run, carried, AtWork
  <2>. QED  BY <1>2, <2>1
<1>14. CASE GateRefused
  <2>1. /\ pc \in AtWork /\ UNCHANGED <<protocol, next>>
        /\ messages' = messages \o <<Reply(Head(todo), "note")>> /\ NextCall
    BY <1>14 DEF GateRefused, Hears, run, carried, AtWork
  <2>. QED  BY <1>4, <2>1
<1>15. CASE RepairsAnswer
  <2>1. /\ messages' = messages \o <<Turn(<< >>), Said(0, "note")>>
        /\ UNCHANGED <<protocol, next, todo>> /\ pc' = "boundary"
    BY <1>15 DEF RepairsAnswer, Hears, run
  <2>. QED  BY <1>6, <2>1
<1>16. CASE Concludes
  <2>1. /\ UNCHANGED <<protocol, next, messages, todo>>
        /\ pc' # "asked" /\ pc' \notin AtWork
    BY <1>16 DEF Concludes, run, carried, AtWork
  <2>. QED  BY <1>2, <2>1
<1>17. CASE Ends
  <2>1. /\ UNCHANGED <<protocol, next, messages, todo>>
        /\ pc' # "asked" /\ pc' \notin AtWork
    BY <1>17 DEF Ends, Finishes, run, carried, AtWork
  <2>. QED  BY <1>2, <2>1
<1>18. CASE Dies
  <2>1. /\ UNCHANGED <<protocol, next, messages, todo>>
        /\ pc' # "asked" /\ pc' \notin AtWork
    BY <1>18 DEF Dies, run, carried, AtWork
  <2>. QED  BY <1>2, <2>1
<1>19. ASSUME NEW more \in Further \cup {Unsaid}, Resumes(more)
       PROVE  Spoken'
  <2>. DEFINE u == Back(protocol, told).messages
  <2>1. /\ messages' = u /\ todo' = << >> /\ pc' = "boundary"
        /\ next' = SpentSteps(log)
    BY <1>19, RebuiltIs DEF Resumes
  <2>2. next' = next
    BY <2>1, TalliedFacts DEF Counted
  <2>3. /\ Ready(told)
        /\ next = 0 => told.calls = << >>
        /\ told.index = IF next = 0 THEN 0 ELSE next - 1
        /\ protocol = "json" => told.calls = << >> /\ told.answers = << >>
    BY DEF Retold
  <2>4. /\ IsList(u) /\ WellPaired(u)
        /\ \A q \in Quoted(u) :
              \/ q \in Quoted(told.messages)
              \/ told.calls # << >> /\ q[1] = told.index
    BY <1>0, <2>3, BackReady
  <2>5. \A q \in Quoted(told.messages) : q[1] \in Nat /\ q[1] < told.index
    BY <2>3, ReadyFacts
  <2>. HIDE DEF u
  <2>6. \A q \in Quoted(u) : q[1] \in Nat /\ q[1] < next'
    BY <1>0, <2>2, <2>3, <2>4, <2>5
  <2>. QED  BY <2>1, <2>4, <2>6, ShortLists DEF Spoken, AtWork
<1>20. CASE UNCHANGED vars
  <2>1. UNCHANGED <<protocol, next, messages, todo, pc>>
    BY <1>20 DEF vars, run, carried
  <2>. QED  BY <1>1, <2>1 DEF Spoken
<1>. QED  BY <1>5, <1>7, <1>8, <1>9, <1>10, <1>11, <1>12, <1>13, <1>14, <1>15,
            <1>16, <1>17, <1>18, <1>19, <1>20 DEF Next

-----------------------------------------------------------------------------
(* The stream, and the results. *)

LEMMA RetoldStart == Init => Retold /\ Shown
<1>. SUFFICES ASSUME Init PROVE Retold /\ Shown
  OBVIOUS
<1>. DEFINE e == << >>
<1>1. /\ log = e /\ next = 0 /\ repairs = 0 /\ pc = "boundary"
      /\ store = e /\ messages = e
  BY DEF Init
<1>2. told = Blank
  BY <1>1, ToldBlank DEF told
<1>3. Ready(Blank) /\ Aloud(Blank) = e
  BY BlankReady
<1>4. /\ Blank.index = 0 /\ Blank.repairs = 0 /\ Blank.calls = e
      /\ Blank.answers = e /\ Blank.store = e
  BY DEF Blank
<1>5. IsList(e) /\ Len(e) = 0 /\ DOMAIN e = {}
  BY ShortLists
<1>6. Reports(e) = e
  BY <1>5, NothingReported
<1>. HIDE DEF e
<1>7. Retold
  BY <1>1, <1>2, <1>3, <1>4 DEF Retold, e
<1>8. Shown
  BY <1>1, <1>2, <1>3, <1>4, <1>5, <1>6 DEF Shown
<1>. QED  BY <1>7, <1>8

\* Every record keeps the stream and the process telling the same story.
LEMMA RetoldStep ==
    Counted /\ Spoken /\ Retold /\ Shown /\ [Next]_vars => Retold' /\ Shown'
<1>. SUFFICES ASSUME Counted, Spoken, Retold, Shown, [Next]_vars
              PROVE  Retold' /\ Shown'
  OBVIOUS
<1>0. /\ protocol \in {"json", "native"} /\ next \in Nat /\ repairs \in Nat
      /\ IsList(log)
      /\ pc \notin {"boundary", "over", "dead"} => next > 0
  BY TalliedFacts, RebuildAssumption DEF Counted
<1>1. /\ IsList(messages) /\ WellPaired(messages) /\ IsList(todo)
  BY DEF Spoken
<1>2. ASSUME pc \in AtWork
      PROVE  /\ todo # << >> /\ Due(todo, messages, next - 1)
             /\ protocol = "native" \/ Len(todo) = 1
  <2>1. protocol = "json" => Len(todo) = 1
    BY <1>2 DEF Spoken
  <2>2. protocol = "json" \/ protocol = "native"
    BY <1>0
  <2>. QED  BY <1>2, <2>1, <2>2 DEF Spoken
<1>3. /\ Ready(told) /\ told.repairs = repairs
      /\ told.index = (IF next = 0 THEN 0 ELSE next - 1)
      /\ protocol = "json" => told.calls = << >> /\ told.answers = << >>
  BY DEF Retold
<1>4. pc \in {"asked", "calls", "gate"} => Len(told.answers) = Len(told.calls)
  BY DEF Retold
<1>5. next = 0 => told.calls = << >>
  BY DEF Retold
<1>6. /\ IsList(store) /\ Reports(messages) = store
      /\ told.store = store /\ Aloud(told) = store
  BY DEF Shown
<1>7. ASSUME NEW e, log' = log \o <<e>>, protocol' = protocol
      PROVE  told' = ReadAs(protocol, told, e)
  BY <1>0, <1>7, ToldGrows DEF told
<1>8. ASSUME log' = log, protocol' = protocol
      PROVE  told' = told
  BY <1>8 DEF told
\* Nothing is written, and the step goes on.
<1>9. ASSUME told' = told, UNCHANGED <<protocol, next, repairs>>,
             pc' \in {"asked", "calls", "gate"} =>
                pc \in {"asked", "calls", "gate"},
             pc' # "calling"
      PROVE  Retold'
  BY <1>3, <1>4, <1>5, <1>9 DEF Retold
\* What is said reports nothing.
<1>10. ASSUME NEW ms, messages' = ms, Reports(ms) = Reports(messages),
              store' = store,
              told'.store = told.store, Aloud(told') = Aloud(told)
       PROVE  Shown'
  BY <1>6, <1>10 DEF Shown
\* A call is replied to, and not with a result.
<1>11. ASSUME NEW d, messages' = messages \o <<Reply(d, "note")>>
       PROVE  Reports(messages') = Reports(messages)
  <2>1. Reports(messages \o <<Reply(d, "note")>>) = Reports(messages)
    BY <1>1, ReplyReported
  <2>. QED  BY <1>11, <2>1
<1>12. ASSUME NEW said \in BOOLEAN, Asks(said)
       PROVE  Retold' /\ Shown'
  <2>1. /\ log' = log \o <<Step(next, said)>> /\ protocol' = protocol
        /\ next' = next + 1 /\ pc' = "asked"
        /\ repairs' = repairs /\ store' = store
    BY <1>12 DEF Asks, Emits, run
  <2>2. told' = ReadAs(protocol, told, Step(next, said))
    BY <1>7, <2>1
  <2>. DEFINE q == ReadAs(protocol, told, Step(next, said))
  <2>3. \/ told.index < next
        \/ told.index = next /\ next = 0 /\ told.calls = << >>
    BY <1>0, <1>3, <1>5
  <2>4. /\ Ready(q) /\ q.index = next /\ q.repairs = told.repairs
        /\ q.store = told.store /\ q.calls = << >> /\ q.answers = << >>
        /\ Aloud(q) = Aloud(told)
    BY <1>0, <1>3, <2>3, ReadyStep
  <2>. HIDE DEF q
  <2>5. told' = q
    BY <2>2 DEF q
  <2>6. Retold'
    <3>1. next' # 0 /\ told'.index = next' - 1 /\ told'.repairs = repairs'
      BY <1>0, <1>3, <2>1, <2>4, <2>5
    <3>2. /\ Ready(told') /\ told'.calls = << >> /\ told'.answers = << >>
          /\ pc' # "calling"
      BY <2>1, <2>4, <2>5
    <3>. QED  BY <3>1, <3>2 DEF Retold
  <2>7. Reports(messages') = Reports(messages)
    <3>. DEFINE m == Said(0, "instruction")
    <3>1. m.what # "result"
      BY DEF Said
    <3>2. messages' = messages \o (IF said THEN <<m>> ELSE << >>)
      BY <1>12 DEF Asks, Hears
    <3>. HIDE DEF m
    <3>3. IsList(<<m>>) /\ Reports(<<m>>) = << >> /\ IsList(Reports(messages))
      BY <1>1, <3>1, OneSilent, ReportsAre
    <3>4. Reports(messages \o <<m>>) = Reports(messages) \o Reports(<<m>>)
      BY <1>1, <3>3, ReportsJoined
    <3>5. Reports(messages \o <<m>>) = Reports(messages)
      BY <3>3, <3>4, JoinedNothing
    <3>. QED  BY <1>1, <3>2, <3>5, JoinedNothing
  <2>8. Shown'
    BY <1>10, <2>1, <2>4, <2>5, <2>7
  <2>. QED  BY <2>6, <2>8
\* A reply, or a call of one, is rejected.
<1>13. ASSUME log' = log \o <<Rejection>>,
              UNCHANGED <<protocol, next, repairs>>,
              pc \in {"asked", "calls"}, pc' \in {"boundary", "calls"},
              store' = store, Reports(messages') = Reports(messages)
       PROVE  Retold' /\ Shown'
  <2>. DEFINE q == ReadAs(protocol, told, Rejection)
  <2>1. /\ Ready(q) /\ q.index = told.index /\ q.repairs = told.repairs
        /\ q.store = told.store /\ q.calls = told.calls
        /\ q.answers = told.answers /\ Aloud(q) = Aloud(told)
    BY <1>0, <1>3, ReadyRejection
  <2>2. told' = q
    BY <1>7, <1>13
  <2>. HIDE DEF q
  <2>3. Retold'
    BY <1>3, <1>4, <1>5, <1>13, <2>1, <2>2 DEF Retold
  <2>4. Shown'
    BY <1>10, <1>13, <2>1, <2>2
  <2>. QED  BY <2>3, <2>4
<1>14. ASSUME messages' = messages \o <<Turn(<< >>), Said(0, "note")>>
       PROVE  Reports(messages') = Reports(messages)
  <2>. DEFINE new == <<Turn(<< >>), Said(0, "note")>>
  <2>1. IsList(new) /\ Reports(new) = << >>
    BY TurnSilent
  <2>2. messages' = messages \o new
    BY <1>14
  <2>. HIDE DEF new
  <2>3. Reports(messages \o new) = Reports(messages) \o Reports(new)
    BY <1>1, <2>1, ReportsJoined
  <2>4. IsList(Reports(messages))
    BY <1>1, ReportsAre
  <2>. QED  BY <2>1, <2>2, <2>3, <2>4, JoinedNothing
<1>15. CASE RejectsReply
  <2>1. /\ log' = log \o <<Rejection>> /\ UNCHANGED <<protocol, next, repairs>>
        /\ pc = "asked" /\ pc' = "boundary" /\ store' = store
        /\ messages' = messages \o <<Turn(<< >>), Said(0, "note")>>
    BY <1>15 DEF RejectsReply, Emits, Hears, run, carried
  <2>. QED  BY <1>13, <1>14, <2>1
<1>16. ASSUME NEW n \in 1..MaxCalls, Decides(n)
       PROVE  Retold' /\ Shown'
  <2>. DEFINE calls == [k \in 1..n |-> Declares(Id(next - 1, k), made + k)]
              m == Turn(calls)
  <2>1. /\ messages' = messages \o <<m>> /\ pc = "asked" /\ pc' = "calls"
        /\ UNCHANGED <<protocol, log, next, repairs, store>>
    BY <1>16 DEF Decides, Hears, run, carried
  <2>2. m.role = "assistant"
    BY DEF Turn
  <2>. HIDE DEF m
  <2>3. IsList(<<m>>) /\ Reports(<<m>>) = << >> /\ IsList(Reports(messages))
    BY <1>1, <2>2, OneSilent, ReportsAre
  <2>4. Reports(messages \o <<m>>) = Reports(messages) \o Reports(<<m>>)
    BY <1>1, <2>3, ReportsJoined
  <2>5. Reports(messages') = Reports(messages)
    BY <2>1, <2>3, <2>4, JoinedNothing
  <2>6. told' = told
    BY <1>8, <2>1
  <2>. QED  BY <1>9, <1>10, <2>1, <2>5, <2>6
<1>17. CASE RejectsCall
  <2>1. /\ log' = log \o <<Rejection>> /\ UNCHANGED <<protocol, next, repairs>>
        /\ pc = "calls" /\ pc' \in {"boundary", "calls"} /\ store' = store
        /\ messages' = messages \o <<Reply(Head(todo), "note")>>
    BY <1>17 DEF RejectsCall, Emits, Hears, NextCall, Goes, run, carried
  <2>2. Reports(messages') = Reports(messages)
    BY <1>11, <2>1
  <2>. QED  BY <1>13, <2>1, <2>2
<1>18. CASE CancelsStep
  <2>1. /\ messages' = messages \o Replies(todo)
        /\ pc' = "boundary" /\ pc \in AtWork
        /\ UNCHANGED <<protocol, log, next, repairs, store>>
    BY <1>18 DEF CancelsStep, Hears, Replies, run, carried, AtWork
  <2>2. /\ \A k \in DOMAIN todo :
              /\ todo[k] = Declares(todo[k].id, todo[k].call)
              /\ todo[k] \in Open(messages)
              /\ todo[k].id \notin Quoted(messages)
              /\ \A j \in DOMAIN todo : todo[j].id = todo[k].id => j = k
    BY <1>2, <2>1 DEF Due
  <2>3. protocol = "native" \/ Len(todo) <= 1
    <3>0. pc \in AtWork
      BY <2>1
    <3>1. protocol = "native" \/ Len(todo) = 1
      BY <1>2, <3>0
    <3>2. \A n : n = 1 => n <= 1
      OBVIOUS
    <3>. QED  BY <3>1, <3>2
  <2>4. IsList(Replies(todo)) /\ Reports(Replies(todo)) = << >>
    BY <1>1, <2>2, <2>3, AllReplied
  <2>5. Reports(messages \o Replies(todo))
          = Reports(messages) \o Reports(Replies(todo))
    BY <1>1, <2>4, ReportsJoined
  <2>6. IsList(Reports(messages))
    BY <1>1, ReportsAre
  <2>7. Reports(messages') = Reports(messages)
    BY <2>1, <2>4, <2>5, <2>6, JoinedNothing
  <2>8. told' = told
    BY <1>8, <2>1
  <2>. QED  BY <1>9, <1>10, <2>1, <2>7, <2>8
<1>19. ASSUME NEW place \in {"calls", "gate"}, Dispatches(place)
       PROVE  Retold' /\ Shown'
  <2>. DEFINE c == Head(todo).call
              q == ReadAs(protocol, told, Call(c))
  <2>1. /\ log' = log \o <<Call(c)>> /\ pc = place /\ pc' = "calling"
        /\ UNCHANGED <<protocol, next, repairs, store, messages, todo>>
    BY <1>19 DEF Dispatches, Emits, run, carried
  <2>2. Len(told.answers) = Len(told.calls)
    BY <1>4, <2>1
  <2>3. /\ Ready(q) /\ q.index = told.index /\ q.repairs = told.repairs
        /\ q.store = told.store /\ q.answers = told.answers
        /\ protocol = "native" => /\ Len(q.calls) = Len(q.answers) + 1
                                  /\ q.calls[Len(q.calls)].call = c
        /\ protocol = "json" => /\ q.calls = told.calls
                                /\ c \in OpenCalls(q.messages)
        /\ Aloud(q) = Aloud(told)
    BY <1>0, <1>3, <2>2, ReadyCall
  <2>4. told' = q
    BY <1>7, <2>1
  <2>5. next > 0 /\ c = Head(todo').call
    BY <1>0, <2>1
  <2>. HIDE DEF q, c
  <2>6. Retold'
    BY <1>3, <2>1, <2>3, <2>4, <2>5 DEF Retold
  <2>7. Shown'
    BY <1>10, <2>1, <2>3, <2>4
  <2>. QED  BY <2>6, <2>7
<1>20. CASE Returns
  <2>. DEFINE c == Head(todo).call
              n == Len(store')
              q == ReadAs(protocol, told, Result(c, n))
              u == messages \o <<Reply(Head(todo), "result")>>
  <2>1. /\ log' = log \o <<Result(c, n)>> /\ pc = "calling"
        /\ pc' \in {"boundary", "calls"}
        /\ store' = Append(store, c) /\ messages' = u
        /\ UNCHANGED <<protocol, next, repairs>>
    BY <1>20 DEF Returns, Emits, Hears, NextCall, Goes, run, carried
  <2>2. Awaits(protocol, told, c)
    BY <2>1 DEF Retold, Awaits
  <2>3. /\ Ready(q) /\ q.index = told.index /\ q.repairs = told.repairs
        /\ q.store = Append(told.store, c) /\ q.calls = told.calls
        /\ Len(q.answers) = Len(q.calls)
        /\ protocol = "json" => q.answers = << >>
        /\ Aloud(q) = Append(Aloud(told), c)
    <3>. HIDE DEF c, n
    <3>1. protocol \in {"json", "native"} /\ Ready(told)
      BY <1>0, <1>3
    <3>. QED  BY ONLY <2>2, <3>1, ReadyResult
  <2>4. told' = q
    BY <1>7, <2>1
  <2>5. Reports(u) = Append(Reports(messages), c)
    BY <1>1, ReplyReported
  <2>. HIDE DEF q, n
  <2>7. Retold'
    BY <1>3, <1>5, <2>1, <2>3, <2>4 DEF Retold
  <2>. HIDE DEF c, u
  <2>8. IsList(store')
    BY <1>6, <2>1, AppendedIsList
  <2>9. Shown'
    BY <1>6, <2>1, <2>3, <2>4, <2>5, <2>8 DEF Shown
  <2>. QED  BY <2>7, <2>9
<1>21. CASE Gates
  <2>. DEFINE c == Head(todo).call
              q == ReadAs(protocol, told, Gate(c))
  <2>1. /\ log' = log \o <<Gate(c)>> /\ pc = "calls" /\ pc' = "gate"
        /\ UNCHANGED <<protocol, next, repairs, store, messages>>
    BY <1>21 DEF Gates, Emits, run, carried
  <2>2. Len(told.answers) = Len(told.calls)
    BY <1>4, <2>1
  <2>3. /\ Ready(q) /\ q.index = told.index /\ q.repairs = told.repairs
        /\ q.store = told.store /\ Len(q.answers) = Len(q.calls)
        /\ protocol = "json" =>
              q.calls = told.calls /\ q.answers = told.answers
        /\ Aloud(q) = Aloud(told)
    BY <1>0, <1>3, <2>2, ReadyGate
  <2>4. told' = q
    BY <1>7, <2>1
  <2>5. next > 0
    BY <1>0, <2>1
  <2>. HIDE DEF q, c
  <2>6. Retold'
    BY <1>3, <2>1, <2>3, <2>4, <2>5 DEF Retold
  <2>7. Shown'
    BY <1>10, <2>1, <2>3, <2>4
  <2>. QED  BY <2>6, <2>7
<1>22. CASE GateRefused
  <2>1. /\ pc = "gate" /\ pc' \in {"boundary", "calls"}
        /\ messages' = messages \o <<Reply(Head(todo), "note")>>
        /\ UNCHANGED <<protocol, log, next, repairs, store>>
    BY <1>22 DEF GateRefused, Hears, NextCall, Goes, run, carried
  <2>2. Reports(messages') = Reports(messages)
    BY <1>11, <2>1
  <2>3. told' = told
    BY <1>8, <2>1
  <2>. QED  BY <1>9, <1>10, <2>1, <2>2, <2>3
<1>23. CASE RepairsAnswer
  <2>. DEFINE n == repairs + 1
              q == ReadAs(protocol, told, Repair(n))
  <2>1. /\ log' = log \o <<Repair(n)>> /\ repairs' = n
        /\ pc = "asked" /\ pc' = "boundary"
        /\ UNCHANGED <<protocol, next, store>>
        /\ messages' = messages \o <<Turn(<< >>), Said(0, "note")>>
    BY <1>23 DEF RepairsAnswer, Emits, Hears, run
  <2>2. n \in Nat /\ told.repairs <= n
    BY <1>0, <1>3
  <2>. HIDE DEF n
  <2>3. /\ Ready(q) /\ q.index = told.index /\ q.repairs = n
        /\ q.store = told.store /\ q.calls = told.calls
        /\ q.answers = told.answers /\ Aloud(q) = Aloud(told)
    BY <1>3, <2>2, ReadyRepair
  <2>4. told' = q
    BY <1>7, <2>1
  <2>. HIDE DEF q
  <2>5. Reports(messages') = Reports(messages)
    BY <1>14, <2>1
  <2>6. Retold'
    BY <1>3, <1>5, <2>1, <2>3, <2>4 DEF Retold
  <2>7. Shown'
    BY <1>10, <2>1, <2>3, <2>4, <2>5
  <2>. QED  BY <2>6, <2>7
<1>24. CASE Concludes
  <2>1. /\ log' = log \o <<Answer>> /\ pc' = "answered"
        /\ UNCHANGED <<protocol, next, repairs, store, messages>>
    BY <1>24 DEF Concludes, Emits, run, carried
  <2>2. told' = told
    BY <1>7, <2>1, ReadEnd
  <2>. QED  BY <1>9, <1>10, <2>1, <2>2
<1>25. ASSUME NEW word, Finishes(word)
       PROVE  Retold' /\ Shown'
  <2>1. /\ log' = log \o <<Finished(word)>> /\ pc' = "over"
        /\ UNCHANGED <<protocol, next, repairs, store, messages>>
    BY <1>25 DEF Finishes, Emits, run, carried
  <2>2. told' = told
    BY <1>7, <2>1, ReadEnd
  <2>. QED  BY <1>9, <1>10, <2>1, <2>2
<1>26. CASE Ends
  BY <1>25, <1>26 DEF Ends
<1>27. CASE Dies
  <2>1. /\ pc' = "dead"
        /\ UNCHANGED <<protocol, log, next, repairs, store, messages>>
    BY <1>27 DEF Dies, run, carried
  <2>2. told' = told
    BY <1>8, <2>1
  <2>. QED  BY <1>9, <1>10, <2>1, <2>2
<1>28. ASSUME NEW more \in Further \cup {Unsaid}, Resumes(more)
       PROVE  Retold' /\ Shown'
  <2>. DEFINE b == Back(protocol, told)
  <2>1. /\ messages' = b.messages /\ store' = b.store /\ repairs' = b.repairs
        /\ pc' = "boundary" /\ next' = SpentSteps(log)
        /\ UNCHANGED <<protocol, log>>
    BY <1>28, RebuiltIs DEF Resumes, run
  <2>2. next' = next
    BY <2>1, TalliedFacts DEF Counted
  <2>3. /\ b.repairs = told.repairs /\ b.store = told.store
        /\ Reports(b.messages) = Aloud(told)
    BY <1>0, <1>3, BackReady
  <2>. HIDE DEF b
  <2>4. told' = told
    BY <1>8, <2>1
  <2>5. Retold'
    BY <1>3, <1>9, <2>1, <2>2, <2>3, <2>4
  <2>6. Shown'
    BY <1>6, <2>1, <2>3, <2>4 DEF Shown
  <2>. QED  BY <2>5, <2>6
<1>29. CASE UNCHANGED vars
  <2>1. UNCHANGED <<protocol, log, pc, next, repairs, store, messages, todo>>
    BY <1>29 DEF vars, run, carried
  <2>2. told' = told
    BY <1>8, <2>1
  <2>3. Shown'
    BY <1>6, <2>1, <2>2 DEF Shown
  <2>4. Retold'
    BY <2>1, <2>2 DEF Retold
  <2>. QED  BY <2>3, <2>4
<1>. QED  BY <1>12, <1>15, <1>16, <1>17, <1>18, <1>19, <1>20, <1>21, <1>22,
            <1>23, <1>24, <1>26, <1>27, <1>28, <1>29 DEF Next

-----------------------------------------------------------------------------
(* What a resumed run keeps. *)

Kept == Counted /\ Spoken /\ Retold /\ Shown

LEMMA KeptAlways == Spec => []Kept
<1>1. Init => Kept
  BY CountedStart, SpokenStart, RetoldStart DEF Kept
<1>2. Kept /\ [Next]_vars => Kept'
  BY CountedStep, SpokenStep, RetoldStep DEF Kept
<1>. QED  BY <1>1, <1>2, PTL DEF Spec

\* A budget bounds the run and not a process of it, however often it dies and
\* is resumed: its steps are numbered 0, 1, 2 ... with no number used twice,
\* they are no more than the recorded ceiling and what operators added to it,
\* and its repair turns are those of one run.
THEOREM RebuildOneRunOneBudget == Spec => []OneRunOneBudget
<1>1. Kept => OneRunOneBudget
  <2>. SUFFICES ASSUME Kept PROVE OneRunOneBudget
    OBVIOUS
  <2>. DEFINE s == Of("step_started", log)
  <2>1. /\ next \in Nat /\ repairs \in 0..MaxRepairs /\ ceiling \in Nat
        /\ IsList(log) /\ Len(s) = next
        /\ \A n \in DOMAIN s : s[n].index = n - 1
        /\ Len(Of("grounding", log)) = repairs
    BY DEF Kept, Counted, Tallied
  <2>2. (ceiling > 0 /\ ~lifted) => next <= ceiling + granted
    BY DEF Kept, Counted
  <2>3. IsList(s)
    BY <2>1, OfMore
  <2>. HIDE DEF s
  <2>4. Indices = [n \in DOMAIN s |-> s[n].index]
    BY DEF Indices, s
  <2>5. DOMAIN s = 1..next
    BY <2>1, <2>3, ListFacts
  <2>6. /\ DOMAIN Indices = 1..next
        /\ \A n \in DOMAIN Indices : Indices[n] = n - 1
    BY <2>1, <2>4, <2>5
  <2>7. Len(Indices) = next
    <3>1. Indices = [n \in 1..next |-> Indices[n]]
      BY <2>4, <2>5
    <3>. HIDE DEF Indices
    <3>. QED  BY <2>1, <3>1, Listed
  <2>. HIDE DEF Indices
  <2>8. Len(Of("grounding", log)) <= MaxRepairs
    BY <2>1, RebuildAssumption
  <2>. QED  BY <2>2, <2>6, <2>7, <2>8 DEF OneRunOneBudget
<1>. QED  BY <1>1, KeptAlways, PTL

\* Whatever process holds the conversation, the text about a call answers the
\* turn that made it, a tool message quotes the id of the very call it speaks
\* of, and no id is answered twice, although calls that died, were dropped or
\* were refused left gaps in the stream the conversation is rebuilt from.
THEOREM RebuildAnswersAreTheirCalls == Spec => []AnswersAreTheirCalls
<1>1. Kept => AnswersAreTheirCalls
  <2>. SUFFICES ASSUME Kept, NEW i \in DOMAIN messages
                PROVE  Fits(messages, i)
    BY DEF AnswersAreTheirCalls, Fits
  <2>. QED  BY DEF Kept, Spoken, WellPaired
<1>. QED  BY <1>1, KeptAlways, PTL

\* A list is a prefix of itself and of the list with one more.
LEMMA PrefixOfMore ==
    ASSUME NEW s, IsList(s), NEW c
    PROVE  IsPrefix(s, s) /\ IsPrefix(s, Append(s, c))
<1>. DEFINE u == Append(s, c)
            l == Len(s)
<1>1. /\ l \in Nat /\ DOMAIN s = 1..l /\ DOMAIN u = 1..(l + 1) /\ IsList(u)
      /\ \A i \in DOMAIN s : u[i] = s[i]
  BY Appended, AppendedIsList
<1>. HIDE DEF u
<1>2. Len(u) = l + 1
  BY <1>1, ListFacts
<1>3. SubSeq(s, 1, l) = SubSeq(u, 1, l)
  <2>. DEFINE T == Range(s)
              a == SubSeq(s, 1, l)
              b == SubSeq(u, 1, l)
  <2>1. \A i \in 1..l : s[i] \in T /\ u[i] \in T
    BY <1>1, ListFacts
  <2>. HIDE DEF T
  <2>2. /\ a \in Seq(T) /\ Len(a) = l /\ \A i \in 1..l : a[i] = s[i]
        /\ b \in Seq(T) /\ Len(b) = l /\ \A i \in 1..l : b[i] = u[i]
    <3>1. 1 \in Int /\ l \in Int /\ (l - 1) + 1 = l
          /\ (IF 1 <= l THEN (l - 1) + 1 ELSE 0) = l
      BY <1>1
    <3>2. /\ a \in Seq(T) /\ Len(a) = (IF 1 <= l THEN (l - 1) + 1 ELSE 0)
          /\ \A i \in 1..(l - 1) + 1 : a[i] = s[(1 + i) - 1]
      BY <2>1, <3>1, SubSeqProperties
    <3>3. /\ b \in Seq(T) /\ Len(b) = (IF 1 <= l THEN (l - 1) + 1 ELSE 0)
          /\ \A i \in 1..(l - 1) + 1 : b[i] = u[(1 + i) - 1]
      BY <2>1, <3>1, SubSeqProperties
    <3>4. \A i \in 1..l : (1 + i) - 1 = i
      BY <1>1
    <3>. HIDE DEF a, b
    <3>. QED  BY <3>1, <3>2, <3>3, <3>4
  <2>. HIDE DEF a, b
  <2>3. a = b
    BY <1>1, <2>2, SeqEqual
  <2>. QED  BY <2>3 DEF a, b
<1>. QED  BY <1>1, <1>2, <1>3 DEF IsPrefix, u

\* A handle the model was given addresses the same result for the rest of the
\* run, and the results it was shown are in the conversation in the order it
\* was shown them: over a death and a resume both only grow.
THEOREM RebuildResultsStay == Spec => ResultsStay
<1>1. Kept /\ Kept' /\ [Next]_vars =>
         [ /\ IsPrefix(store, store')
           /\ IsPrefix(Reports(messages), Reports(messages'))
         ]_<<store, messages>>
  <2>. SUFFICES ASSUME Kept, Kept', [Next]_vars
                PROVE  /\ IsPrefix(store, store')
                       /\ IsPrefix(Reports(messages), Reports(messages'))
    OBVIOUS
  <2>1. /\ IsList(store) /\ Reports(messages) = store
        /\ Reports(messages') = store'
    BY DEF Kept, Shown
  <2>2. store' = store \/ \E c : store' = Append(store, c)
    <3>1. ASSUME NEW said \in BOOLEAN, Asks(said)
          PROVE  store' = store
      BY <3>1 DEF Asks
    <3>2. ASSUME NEW n \in 1..MaxCalls, Decides(n)
          PROVE  store' = store
      BY <3>2 DEF Decides
    <3>3. ASSUME NEW place \in {"calls", "gate"}, Dispatches(place)
          PROVE  store' = store
      BY <3>3 DEF Dispatches
    <3>4. CASE Returns
      BY <3>4 DEF Returns
    <3>5. CASE RejectsReply \/ RejectsCall \/ CancelsStep \/ Gates
               \/ GateRefused \/ RepairsAnswer \/ Concludes \/ Dies
      BY <3>5 DEF RejectsReply, RejectsCall, CancelsStep, Gates,
                  GateRefused, RepairsAnswer, Concludes, Dies
    <3>6. CASE Ends
      BY <3>6 DEF Ends, Finishes
    <3>7. ASSUME NEW more \in Further \cup {Unsaid}, Resumes(more)
          PROVE  store' = store
      <4>1. store' = Back(protocol, told).store
        BY <3>7, RebuiltIs DEF Resumes
      <4>2. /\ Ready(told) /\ protocol \in {"json", "native"}
            /\ protocol = "json" => told.calls = << >> /\ told.answers = << >>
        BY DEF Kept, Retold, Counted
      <4>3. Back(protocol, told).store = told.store
        BY <4>2, BackReady
      <4>. QED  BY <4>1, <4>3 DEF Kept, Shown
    <3>8. CASE UNCHANGED vars
      BY <3>8 DEF vars
    <3>. QED  BY <3>1, <3>2, <3>3, <3>4, <3>5, <3>6, <3>7, <3>8 DEF Next
  <2>3. IsPrefix(store, store')
    BY <2>1, <2>2, PrefixOfMore
  <2>. QED  BY <2>1, <2>3
<1>. QED  BY <1>1, KeptAlways, PTL DEF Spec, ResultsStay

-----------------------------------------------------------------------------
(* A kernel session. *)

Tested == "RUN" \in PhasesOf(workflow)
Patched == {"PATCH", "CRITIQUE", "RUN"}

-----------------------------------------------------------------------------
\* The budgets.  A round that has begun has a retry and an iteration left, and
\* only what it takes is taken before the next check.
Budgets ==
  /\ workflow \in Workflows /\ managed \in BOOLEAN
  /\ result \in BOOLEAN
  /\ iterations \in Nat /\ iterations <= MaxTotalIterations
  /\ \A p \in DOMAIN retries : retries[p] \in Nat \ {0}
                               /\ retries[p] <= MaxPhaseRetries
  /\ at \in {"check", "dispatch", "record", "settle"}
  /\ at # "check" => phase \notin Terminal /\ iterations < MaxTotalIterations
                     /\ scopes = phase
  /\ at \in {"dispatch", "record"} => Retried(phase) < MaxPhaseRetries
  /\ at = "record" => result /\ managed

\* The names.
Naming ==
  /\ phase \in PhasesOf(workflow)
  /\ reason \in {"", "steps", "retries", "seconds", "transition"}
  /\ (reason = "") = (phase # "HALTED")
  /\ phase \in Terminal => scopes = ""
  /\ sequence \in Nat
  /\ \A p \in DOMAIN produced : produced[p] \in (0..sequence - 1) \X {p}
  /\ label = NoLabel \/ label \in DOMAIN checkpoints

LEMMA NothingYet == DOMAIN << >> = {}
  OBVIOUS

LEMMA BudgetsStart == KernelInit => Budgets /\ Naming
<1> SUFFICES ASSUME KernelInit PROVE Budgets /\ Naming
  OBVIOUS
<1>1. Head(workflow.order) \in PhasesOf(workflow) \ Terminal
  <2>1. /\ workflow.order \in Seq(STRING) /\ workflow.order # << >>
        /\ Head(workflow.order) \notin Terminal
    BY TemplateAssumption DEF KernelInit
  <2>2. /\ 1 \in DOMAIN workflow.order
        /\ Head(workflow.order) = workflow.order[1]
    BY <2>1
  <2> QED
    BY <2>1, <2>2 DEF PhasesOf
<1>2. DOMAIN retries = {} /\ DOMAIN produced = {}
  BY NothingYet DEF KernelInit
<1>3. Budgets
  <2>1. /\ workflow \in Workflows /\ managed \in BOOLEAN
        /\ at = "check" /\ result = FALSE /\ iterations = 0
    BY DEF KernelInit
  <2>2. MaxTotalIterations \in Nat
    BY KernelAssumption
  <2>3. iterations \in Nat /\ iterations <= MaxTotalIterations
    BY <2>1, <2>2
  <2> QED
    BY <1>2, <2>1, <2>3 DEF Budgets
<1>4. Naming
  BY <1>1, <1>2 DEF KernelInit, Naming, Terminal
<1> QED
  BY <1>3, <1>4

LEMMA EdgesStay ==
  ASSUME Budgets, <<phase, Selected>> \in workflow.follows
  PROVE  Selected \in PhasesOf(workflow) \ {"HALTED"}
<1>1. <<phase, Selected>>[2] \in PhasesOf(workflow) \ {"HALTED"}
  BY TemplateAssumption DEF Budgets
<1> QED
  BY <1>1

LEMMA BudgetsStep == Budgets /\ [KernelNext]_kvars => Budgets'
<1> SUFFICES ASSUME Budgets, [KernelNext]_kvars PROVE Budgets'
  OBVIOUS
<1>0. MaxTotalIterations \in Nat /\ MaxPhaseRetries \in Nat
  BY KernelAssumption
<1>1. CASE RunsOut
  BY <1>0, <1>1 DEF RunsOut, Halt, Budgets, Retried
<1>2. CASE Begins
  BY <1>0, <1>2 DEF Begins, Exhausted, Budgets, Retried
<1>3. ASSUME NEW ok \in BOOLEAN, Dispatched(ok) PROVE Budgets'
  <2>1. \A p \in DOMAIN retries' : retries'[p] \in Nat \ {0}
                                   /\ retries'[p] <= MaxPhaseRetries
    BY <1>0, <1>3 DEF Dispatched, RetryRecorded, Retried, Budgets
  <2> QED
    BY <1>0, <1>3, <2>1 DEF Dispatched, Budgets, Retried
<1>4. CASE Patches \/ Tests \/ Scores \/ Works
  BY <1>3, <1>4 DEF Patches, Tests, Scores, Works
<1>5. CASE Records
  <2>1. /\ at = "record" /\ at' = "settle" /\ UNCHANGED <<workflow, managed,
                                              phase, iterations, scopes>>
        /\ result' \in BOOLEAN /\ (UNCHANGED retries \/ RetryRecorded)
    BY <1>5 DEF Records, Budgets
  <2>2. \A p \in DOMAIN retries' : retries'[p] \in Nat \ {0}
                                   /\ retries'[p] <= MaxPhaseRetries
    BY <1>0, <2>1 DEF RetryRecorded, Retried, Budgets
  <2> QED
    BY <1>0, <2>1, <2>2 DEF Budgets
<1>6. CASE Settles
  <2>1. /\ at = "settle" /\ at' = "check"
        /\ iterations' \in {iterations, iterations + 1}
        /\ UNCHANGED <<workflow, managed, result, retries>>
    BY <1>6 DEF Settles, Halt
  <2> QED
    BY <1>0, <2>1 DEF Budgets
<1>7. CASE UNCHANGED kvars
  BY <1>7 DEF kvars, outcome, repository, session, Budgets, Retried
<1> QED
  BY <1>1, <1>2, <1>4, <1>5, <1>6, <1>7 DEF KernelNext

LEMMA NamingStep == Budgets /\ Naming /\ [KernelNext]_kvars => Naming'
<1> SUFFICES ASSUME Budgets, Naming, [KernelNext]_kvars PROVE Naming'
  OBVIOUS
<1>1. CASE RunsOut
  BY <1>1 DEF RunsOut, Halt, Naming, session, Terminal, PhasesOf
<1>2. CASE Begins
  BY <1>2 DEF Begins, Checkpoint, Naming, session
<1>3. ASSUME NEW ok \in BOOLEAN, Dispatched(ok) PROVE Naming'
  BY <1>3 DEF Dispatched, Naming, Budgets, session
<1>4. CASE Patches \/ Tests \/ Scores \/ Works
  BY <1>3, <1>4 DEF Patches, Tests, Scores, Works
<1>5. CASE Records
  <2>1. /\ at = "record" /\ at' = "settle"
        /\ UNCHANGED <<workflow, phase, reason, scopes, checkpoints, label>>
    BY <1>5 DEF Records
  <2>3. sequence \in Nat /\ sequence' \in {sequence, sequence + 1}
    BY <1>5 DEF Records, Naming
  <2>2. \A p \in DOMAIN produced' : produced'[p] \in (0..sequence' - 1) \X {p}
    <3>1. CASE UNCHANGED <<produced, sequence>>
      BY <3>1 DEF Naming
    <3>2. CASE /\ produced' = [p \in DOMAIN produced \cup {phase} |->
                                IF p = phase THEN <<sequence, phase>>
                                ELSE produced[p]]
               /\ sequence' = sequence + 1
      <4>1. produced'[phase] = <<sequence, phase>>
            /\ sequence \in 0..sequence' - 1
        BY <2>3, <3>2
      <4>2. ASSUME NEW p \in DOMAIN produced, p # phase
            PROVE  produced'[p] \in (0..sequence' - 1) \X {p}
        <5>1. produced'[p] = produced[p]
              /\ produced[p] \in (0..sequence - 1) \X {p}
          BY <3>2, <4>2 DEF Naming
        <5>2. 0..sequence - 1 \subseteq 0..sequence' - 1
          BY <2>3, <3>2
        <5> QED
          BY <5>1, <5>2
      <4> QED
        BY <3>2, <4>1, <4>2
    <3> QED
      BY <1>5, <3>1, <3>2 DEF Records
  <2> QED
    <3>1. /\ phase' \in PhasesOf(workflow')
          /\ (reason' = "") = (phase' # "HALTED")
          /\ phase' \in Terminal => scopes' = ""
          /\ label' = NoLabel \/ label' \in DOMAIN checkpoints'
      BY <2>1 DEF Naming
    <3>2. reason' \in {"", "steps", "retries", "seconds", "transition"}
      BY <2>1 DEF Naming
    <3>3. sequence' \in Nat
      BY <2>3
    <3> QED
      BY <2>2, <3>1, <3>2, <3>3 DEF Naming
<1>6. CASE Settles
  <2>1. <<phase, Selected>> \in workflow.follows =>
          Selected \in PhasesOf(workflow) \ {"HALTED"}
    BY EdgesStay
  <2>2. "HALTED" \in PhasesOf(workflow) /\ "HALTED" \in Terminal
    BY DEF PhasesOf, Terminal
  <2> QED
    BY <1>6, <2>1, <2>2 DEF Settles, Halt, Naming, Budgets
<1>7. CASE UNCHANGED kvars
  BY <1>7 DEF kvars, outcome, session, Naming
<1> QED
  BY <1>1, <1>2, <1>4, <1>5, <1>6, <1>7 DEF KernelNext

\* Every state of a session is well typed: no budget is overrun, and the bus
\* is narrowed to the phase that is working and to nothing when it is over.
THEOREM KernelTypeCorrect == KernelSpec => []KernelTypeOK
<1>1. Budgets /\ Naming => KernelTypeOK
  <2> SUFFICES ASSUME Budgets, Naming PROVE KernelTypeOK
    OBVIOUS
  <2>1. /\ iterations \in 0..MaxTotalIterations
        /\ \A p \in DOMAIN retries : retries[p] \in 1..MaxPhaseRetries
    BY KernelAssumption DEF Budgets
  <2> QED
    BY <2>1 DEF Budgets, Naming, KernelTypeOK
<1> QED
  BY <1>1, BudgetsStart, BudgetsStep, NamingStep, PTL DEF KernelSpec

-----------------------------------------------------------------------------
\* What the edges of a template that tests say about where a round goes.
LEMMA WayToTheEnd ==
  ASSUME workflow \in Workflows, Tested, Selected # phase,
         <<phase, Selected>> \in workflow.follows
  PROVE  /\ Selected = "CRITIQUE" => phase = "PATCH" /\ result
         /\ Selected = "RUN" => phase = "CRITIQUE" /\ result
         /\ Selected = "FINALIZE" => phase = "RUN" /\ (result \in BOOLEAN => result)
         /\ Selected = "COMPLETED" => phase = "FINALIZE"
<1> DEFINE e == <<phase, Selected>>
<1>1. /\ e[2] = "CRITIQUE" => e[1] = "PATCH"
      /\ e[2] = "RUN" => e[1] = "CRITIQUE"
      /\ e[2] = "FINALIZE" => e[1] = "RUN"
      /\ e[2] = "COMPLETED" => e[1] = "FINALIZE"
      /\ DOMAIN workflow.rules \cap {"PATCH", "CRITIQUE"} = {}
      /\ "RUN" \in DOMAIN workflow.rules
      /\ workflow.rules["RUN"].failed # "FINALIZE"
  BY TemplateAssumption DEF Tested
<1>2. e[1] = phase /\ e[2] = Selected
  OBVIOUS
<1>3. phase \in {"PATCH", "CRITIQUE"} => result
  BY <1>1 DEF Selected
<1>4. phase = "RUN" /\ result = FALSE => Selected # "FINALIZE"
  BY <1>1 DEF Selected
<1> QED
  BY <1>1, <1>2, <1>3, <1>4

\* CompletedIsTested is not inductive: the report is about the tree as it is
\* only from the RUN that passed, and there is something in the tree only from
\* the PATCH that went through.
TestedInv ==
  Tested =>
    /\ tree \in Nat
    /\ phase \in {"CRITIQUE", "RUN", "FINALIZE", "COMPLETED"} => tree > 0
    /\ phase = "PATCH" /\ at \in {"record", "settle"} /\ result => tree > 0
    /\ phase = "RUN" /\ at \in {"record", "settle"} /\ result
          => report = [tree |-> tree, passed |-> TRUE]
    /\ phase \in {"FINALIZE", "COMPLETED"}
          => report = [tree |-> tree, passed |-> TRUE]

LEMMA TestedStart == KernelInit => TestedInv
<1> SUFFICES ASSUME KernelInit, Tested PROVE TestedInv
  BY DEF TestedInv
<1>1. /\ phase \notin {"CRITIQUE", "RUN", "FINALIZE"}
      /\ phase \notin Terminal /\ at = "check" /\ tree = 0
  BY TemplateAssumption DEF KernelInit, Tested
<1> QED
  BY <1>1 DEF TestedInv, Terminal

LEMMA TestedStep == Budgets /\ TestedInv /\ [KernelNext]_kvars => TestedInv'
<1> SUFFICES ASSUME Budgets, TestedInv, [KernelNext]_kvars PROVE TestedInv'
  OBVIOUS
<1>0. UNCHANGED workflow
  BY DEF KernelNext, kvars, RunsOut, Begins, Patches, Tests, Scores, Works,
         Dispatched, Records, Settles
<1>1. CASE ~Tested
  BY <1>0, <1>1 DEF Tested, TestedInv
<1>2. CASE Tested
  <2>1. CASE RunsOut
    BY <1>2, <2>1 DEF RunsOut, Halt, TestedInv, repository
  <2>2. CASE Begins
    BY <1>2, <2>2 DEF Begins, TestedInv, repository
  <2>3. CASE Patches
    BY <1>2, <2>3 DEF Patches, Dispatched, TestedInv
  <2>4. CASE Tests
    BY <1>2, <2>4 DEF Tests, Dispatched, TestedInv
  <2>5. CASE Scores
    BY <1>2, <2>5 DEF Scores, Dispatched, TestedInv
  <2>6. CASE Works
    BY <1>2, <2>6 DEF Works, Dispatched, TestedInv, repository
  <2>7. CASE Records
    BY <1>2, <2>7 DEF Records, TestedInv, repository, Budgets
  <2>8. CASE Settles
    <3>1. CASE phase' = phase \/ phase' = "HALTED"
      BY <1>2, <2>8, <3>1 DEF Settles, Halt, TestedInv, repository
    <3>2. CASE ~(phase' = phase \/ phase' = "HALTED")
      <4>1. /\ Selected # phase /\ <<phase, Selected>> \in workflow.follows
            /\ phase' = Selected /\ at = "settle" /\ at' = "check"
            /\ UNCHANGED repository
        BY <2>8, <3>2 DEF Settles, Halt
      <4>2. result \in BOOLEAN /\ workflow \in Workflows
        BY DEF Budgets
      <4> QED
        BY <1>2, <4>1, <4>2, WayToTheEnd DEF TestedInv, repository
    <3> QED
      BY <3>1, <3>2
  <2>9. CASE UNCHANGED kvars
    BY <1>2, <2>9 DEF kvars, outcome, repository, TestedInv
  <2> QED
    BY <2>1, <2>2, <2>3, <2>4, <2>5, <2>6, <2>7, <2>8, <2>9 DEF KernelNext
<1> QED
  BY <1>1, <1>2

\* A session that completes has tested the tree it leaves behind, as it is, and
\* the tests passed: with any template that tests, nothing gets from PATCH to
\* COMPLETED round RUN (orchestrator.py, _select_next_phase and enter_phase).
THEOREM KernelCompletedIsTested == KernelSpec => []CompletedIsTested
<1>1. TestedInv => CompletedIsTested
  BY DEF TestedInv, CompletedIsTested, Tested
<1> QED
  BY <1>1, BudgetsStart, BudgetsStep, TestedStart, TestedStep, PTL DEF KernelSpec

-----------------------------------------------------------------------------
\* FinalReportIsOnDisk is not inductive either: a rollback takes from the
\* directory what was produced since its PATCH began, that is PATCH, CRITIQUE
\* and RUN, which are there again one by one as their phases pass.
OnDisk(p) == p \in DOMAIN produced => produced[p] \in artifacts
Passed(p) == phase = p /\ at = "settle" /\ result

Outside ==
  \A p \in DOMAIN produced : (Tested /\ p \in Patched) \/ OnDisk(p)
InTurn ==
  Tested =>
    /\ phase \in {"CRITIQUE", "RUN", "FINALIZE"} \/ Passed("PATCH")
          => OnDisk("PATCH")
    /\ phase \in {"RUN", "FINALIZE"} \/ Passed("CRITIQUE")
          => OnDisk("CRITIQUE")
    /\ phase = "FINALIZE" \/ Passed("RUN") => OnDisk("RUN")
PutBy ==
  (Tested /\ managed /\ (phase \in {"CRITIQUE", "RUN"}
                          \/ (phase = "PATCH" /\ at # "check")))
    => /\ label \in DOMAIN checkpoints
       /\ \A p \in DOMAIN produced \ Patched :
             produced[p] \in checkpoints[label]
DiskInv == (~managed => DOMAIN produced = {}) /\ Outside /\ InTurn /\ PutBy

LEMMA DiskStart == KernelInit => DiskInv
<1> SUFFICES ASSUME KernelInit PROVE DiskInv
  OBVIOUS
<1>1. DOMAIN produced = {} /\ at = "check"
  BY NothingYet DEF KernelInit
<1>2. Tested => phase \notin {"CRITIQUE", "RUN", "FINALIZE"}
  BY TemplateAssumption DEF KernelInit, Tested
<1> QED
  BY <1>1, <1>2 DEF DiskInv, Outside, InTurn, PutBy, OnDisk, Passed

\* A step that leaves the directory, its checkpoint and its names alone, and
\* does not end a phase in success, keeps the invariant; so does one that only
\* moves a round on.
LEMMA DiskKept ==
  ASSUME DiskInv, UNCHANGED <<workflow, managed, artifacts, produced,
                              checkpoints, label>>,
         phase' \in {phase, "HALTED"},
         Passed(phase)' => ~managed,
         managed /\ phase' = "PATCH" /\ at' # "check" => at # "check"
  PROVE  DiskInv'
<1>0. (Tested <=> Tested') /\ \A p : OnDisk(p) <=> OnDisk(p)'
  BY DEF Tested, OnDisk
<1>1. Outside' /\ (~managed => DOMAIN produced = {})'
  BY <1>0 DEF DiskInv, Outside
<1>2. InTurn'
  <2>1. CASE ~managed
    BY <2>1 DEF DiskInv, InTurn, OnDisk
  <2>2. CASE managed
    <3>1. ~Passed("PATCH")' /\ ~Passed("CRITIQUE")' /\ ~Passed("RUN")'
      BY <2>2 DEF Passed
    <3> QED
      BY <1>0, <3>1 DEF DiskInv, InTurn
  <2> QED
    BY <2>1, <2>2
<1>3. PutBy'
  <2>1. phase' \in {"CRITIQUE", "RUN", "PATCH"} => phase' = phase
    OBVIOUS
  <2>2. SUFFICES ASSUME PutBy, Tested, managed,
                        phase' \in {"CRITIQUE", "RUN"}
                        \/ (phase' = "PATCH" /\ at' # "check")
                 PROVE  /\ label \in DOMAIN checkpoints
                        /\ \A p \in DOMAIN produced \ Patched :
                              produced[p] \in checkpoints[label]
    BY <1>0 DEF DiskInv, PutBy
  <2>3. phase \in {"CRITIQUE", "RUN"} \/ (phase = "PATCH" /\ at # "check")
    BY <2>1, <2>2
  <2> QED
    BY <2>2, <2>3 DEF PutBy
<1> QED
  BY <1>1, <1>2, <1>3 DEF DiskInv

LEMMA DiskStep == Budgets /\ Naming /\ DiskInv /\ [KernelNext]_kvars => DiskInv'
<1> SUFFICES ASSUME Budgets, Naming, DiskInv, [KernelNext]_kvars PROVE DiskInv'
  OBVIOUS
<1>0. UNCHANGED <<workflow, managed>> /\ (Tested <=> Tested')
  BY DEF KernelNext, kvars, RunsOut, Begins, Patches, Tests, Scores, Works,
         Dispatched, Records, Settles, Tested
<1>1. CASE RunsOut
  <2>1. /\ UNCHANGED <<artifacts, produced, checkpoints, label>>
        /\ phase' = "HALTED" /\ at' = "check"
    BY <1>1 DEF RunsOut, Halt, session
  <2> QED
    BY <1>0, <2>1, DiskKept DEF Passed
<1>2. CASE Begins
  <2>1. UNCHANGED <<phase, artifacts, produced>> /\ at' = "dispatch"
    BY <1>2 DEF Begins, Checkpoint, session
  <2>2. CASE phase = "PATCH" /\ managed
    <3>1. label' \in DOMAIN checkpoints' /\ checkpoints'[label'] = artifacts
      BY <1>2, <2>2 DEF Begins, Checkpoint
    <3> QED
      BY <1>0, <2>1, <2>2, <3>1
      DEF DiskInv, Outside, InTurn, PutBy, OnDisk, Passed
  <2>3. CASE ~(phase = "PATCH" /\ managed)
    <3>1. UNCHANGED <<checkpoints, label>>
      BY <1>2, <2>3 DEF Begins, session
    <3> QED
      BY <1>0, <2>1, <2>3, <3>1, DiskKept DEF Passed
  <2> QED
    BY <2>2, <2>3
<1>3. ASSUME NEW ok \in BOOLEAN, Dispatched(ok) PROVE DiskInv'
  <2>1. /\ UNCHANGED <<phase, artifacts, produced, checkpoints, label>>
        /\ at = "dispatch" /\ (at' = "settle" /\ result' => ~managed)
    BY <1>3 DEF Dispatched, session, Budgets
  <2> QED
    BY <1>0, <2>1, DiskKept DEF Passed
<1>4. CASE Patches \/ Tests \/ Scores \/ Works
  BY <1>3, <1>4 DEF Patches, Tests, Scores, Works
<1>5. CASE Records
  <2>1. /\ at = "record" /\ UNCHANGED <<phase, checkpoints, label>> /\ managed
        /\ result
    BY <1>5 DEF Records, Budgets
  <2>2. CASE UNCHANGED <<artifacts, produced>> /\ result' = FALSE
    BY <1>0, <2>1, <2>2, DiskKept DEF Passed
  <2>3. CASE UNCHANGED <<artifacts, produced>> /\ phase \notin workflow.schemas
    <3>1. Tested => phase \notin Patched
      BY <2>3, TemplateAssumption DEF Budgets, Tested, Patched
    <3> QED
      BY <1>0, <2>1, <2>3, <3>1
      DEF DiskInv, Outside, InTurn, PutBy, OnDisk, Passed, Patched
  <2>4. CASE /\ artifacts' = artifacts \cup {<<sequence, phase>>}
             /\ produced' = [p \in DOMAIN produced \cup {phase} |->
                                IF p = phase THEN <<sequence, phase>>
                                ELSE produced[p]]
    <3>1. OnDisk(phase)' /\ \A p : OnDisk(p) => OnDisk(p)'
      BY <2>1, <2>4 DEF OnDisk
    <3>2. \A p \in DOMAIN produced' : p # phase =>
             p \in DOMAIN produced /\ produced'[p] = produced[p]
      BY <2>4
    <3>3. Outside'
      BY <1>0, <2>1, <3>1, <3>2 DEF DiskInv, Outside, OnDisk
    <3>4. InTurn'
      BY <1>0, <2>1, <3>1 DEF DiskInv, InTurn, Passed
    <3>5. PutBy'
      BY <1>0, <2>1, <3>2 DEF DiskInv, PutBy, Patched
    <3> QED
      BY <1>0, <2>1, <3>3, <3>4, <3>5 DEF DiskInv
  <2> QED
    BY <1>5, <2>2, <2>3, <2>4 DEF Records
<1>6. CASE Settles
  <2>1. /\ at = "settle" /\ at' = "check" /\ artifacts' = Restored
        /\ UNCHANGED <<checkpoints, label, produced>>
    BY <1>6 DEF Settles, Halt
  <2>2. result \in BOOLEAN /\ workflow \in Workflows
    BY DEF Budgets
  <2>3. \/ phase' \in {phase, "HALTED"}
        \/ /\ phase' = Selected /\ Selected # phase
           /\ <<phase, Selected>> \in workflow.follows
    BY <1>6 DEF Settles, Halt
  <2>4. CASE phase = "RUN" /\ ~result
    <3>0. Tested
      BY <2>4 DEF Naming, Tested
    <3>1. Selected \notin {"RUN", "FINALIZE", "CRITIQUE"}
          \/ <<phase, Selected>> \notin workflow.follows
      <4>1. Selected \notin {"RUN", "FINALIZE"}
        BY <2>2, <2>4, <3>0, TemplateAssumption DEF Selected, Tested
      <4> QED
        BY <2>2, <2>4, <3>0, <4>1, WayToTheEnd
    <3>2. phase' \notin {"RUN", "FINALIZE", "CRITIQUE"}
      <4>1. Selected # phase
        BY <2>2, <2>4, <3>0, TemplateAssumption DEF Selected, Tested
      <4>2. phase' # phase
        BY <1>6, <2>4, <4>1 DEF Settles, Halt
      <4> QED
        BY <2>3, <2>4, <3>1, <4>2
    <3>3. \A p \in DOMAIN produced' \ Patched : OnDisk(p)'
      BY <2>1, <2>4, <3>0 DEF Restored, DiskInv, Outside, PutBy, OnDisk
    <3> QED
      BY <1>0, <2>1, <3>0, <3>2, <3>3
      DEF DiskInv, Outside, InTurn, PutBy, Passed
  <2>5. CASE ~(phase = "RUN" /\ ~result)
    <3>1. UNCHANGED artifacts
      BY <2>1, <2>5 DEF Restored
    <3>2. CASE phase' \in {phase, "HALTED"}
      BY <1>0, <2>1, <3>1, <3>2, DiskKept DEF Passed
    <3>3. CASE /\ phase' = Selected /\ Selected # phase
               /\ <<phase, Selected>> \in workflow.follows
      <4>1. \A p : OnDisk(p) <=> OnDisk(p)'
        BY <2>1, <3>1 DEF OnDisk
      <4>2. Tested =>
              /\ phase' = "CRITIQUE" => phase = "PATCH" /\ result
              /\ phase' = "RUN" => phase = "CRITIQUE" /\ result
              /\ phase' = "FINALIZE" => phase = "RUN" /\ result
        BY <2>2, <3>3, WayToTheEnd
      <4>3. InTurn'
        BY <1>0, <2>1, <4>1, <4>2 DEF DiskInv, InTurn, Passed
      <4>4. Outside' /\ PutBy'
        BY <1>0, <2>1, <4>1, <4>2 DEF DiskInv, Outside, PutBy
      <4> QED
        BY <1>0, <2>1, <4>3, <4>4 DEF DiskInv
    <3> QED
      BY <2>3, <3>2, <3>3
  <2> QED
    BY <2>4, <2>5
<1>7. CASE UNCHANGED kvars
  BY <1>0, <1>7
  DEF kvars, outcome, session, DiskInv, Outside, InTurn, PutBy, OnDisk, Passed
<1> QED
  BY <1>1, <1>2, <1>4, <1>5, <1>6, <1>7 DEF KernelNext

\* When FINALIZE reports, every artifact it names is in the directory: what a
\* rollback took away (sessions/manager.py, rollback) has been produced again,
\* for every number of failed rounds and every template.
THEOREM KernelFinalReportIsOnDisk == KernelSpec => []FinalReportIsOnDisk
<1>1. DiskInv => FinalReportIsOnDisk
  BY DEF DiskInv, Outside, InTurn, OnDisk, Patched, FinalReportIsOnDisk
<1> QED
  BY <1>1, BudgetsStart, BudgetsStep, NamingStep, DiskStart, DiskStep, PTL
  DEF KernelSpec
=============================================================================
