--------------------------- MODULE RtThreadProof ---------------------------
(***************************************************************************)
(* Facts about the kernel of RtThread that hold for every number of        *)
(* threads, priorities and objects: what the operations on the queues of   *)
(* the ready table, on the lists of waiting threads and on the list of     *)
(* timers keep, and what rt_schedule establishes.                          *)
(***************************************************************************)
EXTENDS RtThread, SequenceTheorems, FiniteSetTheorems, WellFoundedInduction, TLAPS

-----------------------------------------------------------------------------
(* Sequences without repetition.                                           *)

\* A set of natural numbers that is not empty has a least member.
LEMMA LeastNatural ==
    ASSUME NEW S \in SUBSET Nat, S # {}
    PROVE  /\ \E x \in S : \A y \in S : x <= y
           /\ Min(S) \in S
           /\ \A y \in S : Min(S) <= y
<1> DEFINE R == {ss \in Nat \X Nat : ss[1] < ss[2]}
<1>0. IsWellFoundedOn(R, Nat)
  BY NatLessThanWellFounded DEF OpToRel
<1>1. \A x, y \in Nat : x < y => <<x, y>> \in R
  OBVIOUS
<1> HIDE DEF R
<1>2. \E x \in S : \A y \in S : x <= y
  <2>1. PICK x \in S : \A y \in S : ~ (<<y, x>> \in R)
    BY <1>0, WFMin
  <2>2. ASSUME NEW y \in S
        PROVE  x <= y
    <3>1. x \in Nat /\ y \in Nat /\ ~ (<<y, x>> \in R)  BY <2>1
    <3>2. ~ (y < x)  BY <3>1, <1>1
    <3> QED  BY <3>1, <3>2
  <2> QED  BY <2>2
<1>3. Min(S) \in S /\ \A y \in S : Min(S) <= y
  BY <1>2 DEF Min
<1> QED  BY <1>2, <1>3

\* r is s with e put in at place i.
Inserted(r, s, i, e) ==
    /\ Len(r) = Len(s) + 1
    /\ \A j \in 1..(Len(s) + 1) : r[j] = IF j < i THEN s[j] ELSE IF j = i THEN e ELSE s[j - 1]

\* InsertAt puts one element between two others.
LEMMA InsertAtFacts ==
    ASSUME NEW S, NEW s \in Seq(S), NEW i \in 1..(Len(s) + 1), NEW e \in S
    PROVE  InsertAt(s, i, e) \in Seq(S) /\ Inserted(InsertAt(s, i, e), s, i, e)
<1> DEFINE a == SubSeq(s, 1, i - 1)
           b == SubSeq(s, i, Len(s))
<1>0. Len(s) \in Nat /\ \A j \in 1..Len(s) : s[j] \in S
  BY LenProperties, ElementOfSeq
<1>1. a \in Seq(S) /\ Len(a) = i - 1 /\ \A j \in 1..(i - 1) : a[j] = s[j]
  <2>1. \A j \in 1..(i - 1) : s[j] \in S  BY <1>0
  <2> QED  BY <1>0, <2>1, SubSeqProperties
<1>2. /\ b \in Seq(S) /\ Len(b) = Len(s) - i + 1
      /\ \A j \in 1..(Len(s) - i + 1) : b[j] = s[i + j - 1]
  <2>1. \A j \in i..Len(s) : s[j] \in S  BY <1>0
  <2> QED  BY <1>0, <2>1, SubSeqProperties
<1>3. <<e>> \in Seq(S) /\ Len(<<e>>) = 1 /\ <<e>>[1] = e
  OBVIOUS
<1> HIDE DEF a, b
<1>4. /\ a \o <<e>> \in Seq(S) /\ Len(a \o <<e>>) = i
      /\ \A j \in 1..i : (a \o <<e>>)[j] = IF j < i THEN s[j] ELSE e
  <2>1. /\ a \o <<e>> \in Seq(S) /\ Len(a \o <<e>>) = i
        /\ \A j \in 1..i : (a \o <<e>>)[j] = IF j <= i - 1 THEN a[j] ELSE <<e>>[j - (i - 1)]
    BY <1>0, <1>1, <1>3, ConcatProperties
  <2> QED  BY <2>1, <1>0, <1>1, <1>3
<1>5. /\ (a \o <<e>>) \o b \in Seq(S) /\ Len((a \o <<e>>) \o b) = Len(s) + 1
      /\ \A j \in 1..(Len(s) + 1) :
            ((a \o <<e>>) \o b)[j] = IF j <= i THEN (a \o <<e>>)[j] ELSE b[j - i]
  <2> DEFINE c == a \o <<e>>
  <2>1. c \in Seq(S) /\ Len(c) = i  BY <1>4
  <2> HIDE DEF c
  <2>2. /\ c \o b \in Seq(S) /\ Len(c \o b) = Len(c) + Len(b)
        /\ \A j \in 1..(Len(c) + Len(b)) :
              (c \o b)[j] = IF j <= Len(c) THEN c[j] ELSE b[j - Len(c)]
    BY <2>1, <1>2, ConcatProperties
  <2>3. Len(c) + Len(b) = Len(s) + 1  BY <2>1, <1>0, <1>2
  <2> QED  BY <2>1, <2>2, <2>3 DEF c
<1>6. \A j \in 1..(Len(s) + 1) :
         ((a \o <<e>>) \o b)[j] = IF j < i THEN s[j] ELSE IF j = i THEN e ELSE s[j - 1]
  BY <1>0, <1>2, <1>4, <1>5
<1>7. (a \o <<e>>) \o b \in Seq(S) /\ Inserted((a \o <<e>>) \o b, s, i, e)
  BY <1>5, <1>6 DEF Inserted
<1> QED  BY <1>7 DEF InsertAt, a, b

\* RemoveAt closes the gap.
LEMMA RemoveAtFacts ==
    ASSUME NEW S, NEW s \in Seq(S), NEW i \in 1..Len(s)
    PROVE  /\ RemoveAt(s, i) \in Seq(S)
           /\ Len(RemoveAt(s, i)) = Len(s) - 1
           /\ \A j \in 1..(Len(s) - 1) : RemoveAt(s, i)[j] = IF j < i THEN s[j] ELSE s[j + 1]
<1> DEFINE a == SubSeq(s, 1, i - 1)
           b == SubSeq(s, i + 1, Len(s))
<1>0. Len(s) \in Nat /\ \A j \in 1..Len(s) : s[j] \in S
  BY LenProperties, ElementOfSeq
<1>1. a \in Seq(S) /\ Len(a) = i - 1 /\ \A j \in 1..(i - 1) : a[j] = s[j]
  <2>1. \A j \in 1..(i - 1) : s[j] \in S  BY <1>0
  <2> QED  BY <1>0, <2>1, SubSeqProperties
<1>2. /\ b \in Seq(S) /\ Len(b) = Len(s) - i
      /\ \A j \in 1..(Len(s) - i) : b[j] = s[i + j]
  <2>1. \A j \in (i + 1)..Len(s) : s[j] \in S  BY <1>0
  <2> QED  BY <1>0, <2>1, SubSeqProperties
<1> HIDE DEF a, b
<1>3. /\ a \o b \in Seq(S) /\ Len(a \o b) = Len(s) - 1
      /\ \A j \in 1..(Len(s) - 1) : (a \o b)[j] = IF j <= i - 1 THEN a[j] ELSE b[j - (i - 1)]
  <2>1. a \in Seq(S) /\ b \in Seq(S)  BY <1>1, <1>2
  <2>2. /\ a \o b \in Seq(S) /\ Len(a \o b) = Len(a) + Len(b)
        /\ \A j \in 1..(Len(a) + Len(b)) :
              (a \o b)[j] = IF j <= Len(a) THEN a[j] ELSE b[j - Len(a)]
    BY <2>1, ConcatProperties
  <2>3. Len(a) = i - 1 /\ Len(a) + Len(b) = Len(s) - 1  BY <1>0, <1>1, <1>2
  <2> QED  BY <2>2, <2>3
<1>4. \A j \in 1..(Len(s) - 1) : (a \o b)[j] = IF j < i THEN s[j] ELSE s[j + 1]
  <2> TAKE j \in 1..(Len(s) - 1)
  <2>1. CASE j < i
    BY <2>1, <1>0, <1>1, <1>3
  <2>2. CASE ~ (j < i)
    <3>1. j - (i - 1) \in 1..(Len(s) - i) /\ i + (j - (i - 1)) = j + 1  BY <2>2, <1>0
    <3>2. (a \o b)[j] = b[j - (i - 1)]  BY <2>2, <1>0, <1>3
    <3> QED  BY <3>1, <3>2, <2>2, <1>2
  <2> QED  BY <2>1, <2>2
<1> QED  BY <1>3, <1>4 DEF RemoveAt, a, b

\* A new element is put in: the sequence has it and what it had before.
LEMMA InsertAtKeeps ==
    ASSUME NEW S, NEW s \in Seq(S), NEW i \in 1..(Len(s) + 1), NEW e \in S
    PROVE  /\ ToSet(InsertAt(s, i, e)) = ToSet(s) \union {e}
           /\ IsInjective(s) /\ e \notin ToSet(s) => IsInjective(InsertAt(s, i, e))
<1> DEFINE r == InsertAt(s, i, e)
<1>0. Len(s) \in Nat /\ DOMAIN s = 1..Len(s) /\ i \in Int
  BY LenProperties
<1>1. /\ r \in Seq(S) /\ Len(r) = Len(s) + 1
      /\ \A j \in 1..(Len(s) + 1) : r[j] = IF j < i THEN s[j] ELSE IF j = i THEN e ELSE s[j - 1]
  <2>1. r \in Seq(S) /\ Inserted(r, s, i, e)  BY InsertAtFacts
  <2> HIDE DEF r
  <2> QED  BY <2>1 DEF Inserted
<1>2. DOMAIN r = 1..(Len(s) + 1)
  BY <1>1, LenProperties
<1> HIDE DEF r
<1>3. \A j \in DOMAIN r : r[j] \in ToSet(s) \union {e}
  <2> SUFFICES ASSUME NEW j \in DOMAIN r, j # i
               PROVE  r[j] \in ToSet(s)
    BY <1>0, <1>1, <1>2
  <2> DEFINE pj == IF j < i THEN j ELSE j - 1
  <2>1. pj \in DOMAIN s /\ r[j] = s[pj]  BY <1>0, <1>1, <1>2
  <2> HIDE DEF pj
  <2> QED  BY <2>1 DEF ToSet
<1>4. e \in ToSet(r)
  <2>1. i \in DOMAIN r /\ r[i] = e  BY <1>0, <1>1, <1>2
  <2> QED  BY <2>1 DEF ToSet
<1>5. \A j \in DOMAIN s : s[j] \in ToSet(r)
  <2> TAKE j \in DOMAIN s
  <2>1. CASE j < i
    <3>1. j \in DOMAIN r /\ r[j] = s[j]  BY <2>1, <1>0, <1>1, <1>2
    <3> QED  BY <3>1 DEF ToSet
  <2>2. CASE ~ (j < i)
    <3>1. j + 1 \in DOMAIN r /\ r[j + 1] = s[j]  BY <2>2, <1>0, <1>1, <1>2
    <3> QED  BY <3>1 DEF ToSet
  <2> QED  BY <2>1, <2>2
<1>6. ToSet(r) = ToSet(s) \union {e}
  BY <1>3, <1>4, <1>5 DEF ToSet
<1>7. ASSUME IsInjective(s), e \notin ToSet(s)
      PROVE  IsInjective(r)
  <2> SUFFICES ASSUME NEW a \in DOMAIN r, NEW b \in DOMAIN r, r[a] = r[b]
               PROVE  a = b
    BY DEF IsInjective
  <2>1. \A j \in DOMAIN s : s[j] # e  BY <1>7 DEF ToSet
  <2>2. \A j, k \in DOMAIN s : s[j] = s[k] => j = k  BY <1>7 DEF IsInjective
  <2>0. \A j \in DOMAIN r : r[j] = e => j = i
    <3> SUFFICES ASSUME NEW j \in DOMAIN r, j # i
                 PROVE  r[j] # e
      OBVIOUS
    <3> DEFINE pj == IF j < i THEN j ELSE j - 1
    <3>1. pj \in DOMAIN s /\ r[j] = s[pj]  BY <1>0, <1>1, <1>2
    <3> HIDE DEF pj
    <3> QED  BY <3>1, <2>1
  <2>00. r[i] = e  BY <1>0, <1>1
  <2>3. CASE a = i  BY <2>0, <2>00, <2>3
  <2>4. CASE b = i  BY <2>0, <2>00, <2>4
  <2>5. CASE a # i /\ b # i
    <3> DEFINE pa == IF a < i THEN a ELSE a - 1
               pb == IF b < i THEN b ELSE b - 1
    <3>1. pa \in DOMAIN s /\ pb \in DOMAIN s /\ r[a] = s[pa] /\ r[b] = s[pb]
      BY <2>5, <1>0, <1>1, <1>2
    <3>2. pa = pb  BY <3>1, <2>2
    <3> QED  BY <3>2, <2>5, <1>0, <1>2
  <2> QED  BY <2>3, <2>4, <2>5
<1> QED  BY <1>6, <1>7 DEF r

\* An element is taken out of its place.
LEMMA RemoveAtKeeps ==
    ASSUME NEW S, NEW s \in Seq(S), NEW i \in 1..Len(s), IsInjective(s)
    PROVE  /\ ToSet(RemoveAt(s, i)) = ToSet(s) \ {s[i]}
           /\ IsInjective(RemoveAt(s, i))
<1> DEFINE r == RemoveAt(s, i)
<1>0. Len(s) \in Nat /\ DOMAIN s = 1..Len(s) /\ i \in Int
  BY LenProperties
<1>1. /\ r \in Seq(S) /\ Len(r) = Len(s) - 1
      /\ \A j \in 1..(Len(s) - 1) : r[j] = IF j < i THEN s[j] ELSE s[j + 1]
  BY RemoveAtFacts
<1>2. DOMAIN r = 1..(Len(s) - 1)
  BY <1>1, LenProperties
<1>3. \A j, k \in DOMAIN s : s[j] = s[k] => j = k  BY DEF IsInjective
<1> HIDE DEF r
<1>4. \A j \in DOMAIN r : r[j] \in ToSet(s) \ {s[i]}
  <2> TAKE j \in DOMAIN r
  <2> DEFINE pj == IF j < i THEN j ELSE j + 1
  <2>1. pj \in DOMAIN s /\ pj # i /\ r[j] = s[pj]  BY <1>0, <1>1, <1>2
  <2> HIDE DEF pj
  <2> QED  BY <2>1, <1>0, <1>3 DEF ToSet
<1>5. \A j \in DOMAIN s : s[j] # s[i] => s[j] \in ToSet(r)
  <2> SUFFICES ASSUME NEW j \in DOMAIN s, s[j] # s[i]
               PROVE  s[j] \in ToSet(r)
    OBVIOUS
  <2>1. CASE j < i
    <3>1. j \in DOMAIN r /\ r[j] = s[j]  BY <2>1, <1>0, <1>1, <1>2
    <3> QED  BY <3>1 DEF ToSet
  <2>2. CASE j > i
    <3>1. j - 1 \in DOMAIN r /\ r[j - 1] = s[j]  BY <2>2, <1>0, <1>1, <1>2
    <3> QED  BY <3>1 DEF ToSet
  <2> QED  BY <2>1, <2>2, <1>0
<1>6. ToSet(r) = ToSet(s) \ {s[i]}
  BY <1>4, <1>5 DEF ToSet
<1>7. IsInjective(r)
  <2> SUFFICES ASSUME NEW a \in DOMAIN r, NEW b \in DOMAIN r, r[a] = r[b]
               PROVE  a = b
    BY DEF IsInjective
  <2> DEFINE pa == IF a < i THEN a ELSE a + 1
             pb == IF b < i THEN b ELSE b + 1
  <2>1. pa \in DOMAIN s /\ pb \in DOMAIN s /\ r[a] = s[pa] /\ r[b] = s[pb]
    BY <1>0, <1>1, <1>2
  <2>2. pa = pb  BY <2>1, <1>3
  <2> QED  BY <2>2, <1>0, <1>2
<1> QED  BY <1>6, <1>7 DEF r

\* The same for an element at either end, and for the first element taken away.
LEMMA AppendKeeps ==
    ASSUME NEW S, NEW s \in Seq(S), NEW e \in S
    PROVE  /\ Append(s, e) \in Seq(S)
           /\ ToSet(Append(s, e)) = ToSet(s) \union {e}
           /\ IsInjective(s) /\ e \notin ToSet(s) => IsInjective(Append(s, e))
<1> DEFINE r == Append(s, e)
<1>1. /\ r \in Seq(S) /\ Len(r) = Len(s) + 1 /\ r[Len(s) + 1] = e
      /\ \A j \in 1..Len(s) : r[j] = s[j]
  BY AppendProperties
<1>2. Len(s) \in Nat /\ DOMAIN s = 1..Len(s) /\ DOMAIN r = 1..(Len(s) + 1)
  BY <1>1, LenProperties
<1>3. DOMAIN r = DOMAIN s \union {Len(s) + 1} /\ Len(s) + 1 \notin DOMAIN s  BY <1>2
<1> HIDE DEF r
<1>4. ToSet(r) = ToSet(s) \union {e}  BY <1>1, <1>2, <1>3 DEF ToSet
<1>5. IsInjective(s) /\ e \notin ToSet(s) => IsInjective(r)
  BY <1>1, <1>2, <1>3 DEF ToSet, IsInjective
<1> QED  BY <1>1, <1>4, <1>5 DEF r

LEMMA ConsKeeps ==
    ASSUME NEW S, NEW s \in Seq(S), NEW e \in S
    PROVE  /\ <<e>> \o s \in Seq(S)
           /\ ToSet(<<e>> \o s) = ToSet(s) \union {e}
           /\ IsInjective(s) /\ e \notin ToSet(s) => IsInjective(<<e>> \o s)
<1>1. InsertAt(s, 1, e) = <<e>> \o s
  <2>1. Len(s) \in Nat  BY LenProperties
  <2>2. SubSeq(s, 1, 0) = <<>>  BY SubSeqEmpty
  <2>3. SubSeq(s, 1, Len(s)) = s  BY SubSeqFull
  <2>4. <<e>> \in Seq(S)  OBVIOUS
  <2>5. <<>> \o <<e>> = <<e>>  BY <2>4, ConcatEmptySeq
  <2>6. 1 - 1 = 0  OBVIOUS
  <2> QED  BY <2>2, <2>3, <2>5, <2>6 DEF InsertAt
<1>2. 1 \in 1..(Len(s) + 1)  BY LenProperties
<1>3. /\ InsertAt(s, 1, e) \in Seq(S)
      /\ ToSet(InsertAt(s, 1, e)) = ToSet(s) \union {e}
      /\ IsInjective(s) /\ e \notin ToSet(s) => IsInjective(InsertAt(s, 1, e))
  BY <1>2, InsertAtFacts, InsertAtKeeps
<1> QED  BY <1>1, <1>3

LEMMA TailIsRemoveAt ==
    ASSUME NEW S, NEW s \in Seq(S), s # <<>>
    PROVE  Tail(s) = RemoveAt(s, 1) /\ 1 \in 1..Len(s) /\ s[1] = Head(s)
<1>1. Len(s) \in Nat /\ Len(s) > 0  BY EmptySeq, LenProperties
<1>2. Tail(s) = SubSeq(s, 2, Len(s)) /\ Tail(s) \in Seq(S)  BY TailIsSubSeq, HeadTailProperties
<1>3. SubSeq(s, 1, 0) = <<>>  BY SubSeqEmpty
<1>4. 1 - 1 = 0 /\ 1 + 1 = 2  OBVIOUS
<1>5. <<>> \o Tail(s) = Tail(s)  BY <1>2, ConcatEmptySeq
<1>6. Tail(s) = RemoveAt(s, 1)  BY <1>2, <1>3, <1>4, <1>5 DEF RemoveAt
<1> QED  BY <1>1, <1>6

LEMMA TailKeeps ==
    ASSUME NEW S, NEW s \in Seq(S), s # <<>>, IsInjective(s)
    PROVE  /\ Tail(s) \in Seq(S)
           /\ ToSet(Tail(s)) = ToSet(s) \ {Head(s)} /\ Head(s) \in ToSet(s)
           /\ IsInjective(Tail(s))
<1>1. Len(s) \in Nat /\ Len(s) > 0 /\ DOMAIN s = 1..Len(s)  BY EmptySeq, LenProperties
<1>2. RemoveAt(s, 1) = Tail(s)  BY TailIsRemoveAt
<1>3. 1 \in 1..Len(s) /\ s[1] = Head(s)  BY TailIsRemoveAt
<1>4. Head(s) \in ToSet(s)  BY <1>1, <1>3 DEF ToSet
<1>5. /\ RemoveAt(s, 1) \in Seq(S)
      /\ ToSet(RemoveAt(s, 1)) = ToSet(s) \ {s[1]} /\ IsInjective(RemoveAt(s, 1))
  BY <1>3, RemoveAtFacts, RemoveAtKeeps
<1> QED  BY <1>2, <1>3, <1>4, <1>5

\* RemoveFirst takes an element out, if it is there.
LEMMA RemoveFirstKeeps ==
    ASSUME NEW S, NEW s \in Seq(S), IsInjective(s), NEW e
    PROVE  /\ RemoveFirst(s, e) \in Seq(S)
           /\ ToSet(RemoveFirst(s, e)) = ToSet(s) \ {e}
           /\ IsInjective(RemoveFirst(s, e))
           /\ \/ RemoveFirst(s, e) = s
              \/ \E i \in 1..Len(s) : RemoveFirst(s, e) = RemoveAt(s, i)
<1>0. Len(s) \in Nat /\ DOMAIN s = 1..Len(s)  BY LenProperties
<1>1. CASE e \notin ToSet(s)
  <2>1. RemoveFirst(s, e) = s  BY <1>0, <1>1 DEF RemoveFirst, ToSet
  <2> QED  BY <2>1, <1>1
<1>2. CASE e \in ToSet(s)
  <2>1. PICK i \in 1..Len(s) : s[i] = e  BY <1>0, <1>2 DEF ToSet
  <2>2. {j \in 1..Len(s) : s[j] = e} = {i}  BY <1>0, <2>1 DEF IsInjective
  <2>3. Min({i}) = i  BY <1>0 DEF Min
  <2>4. SelectInSeq(s, LAMBDA v : v = e) = i
    BY <2>2, <2>3 DEF SelectInSeq
  <2>5. RemoveFirst(s, e) = RemoveAt(s, i)  BY <2>1, <2>4 DEF RemoveFirst
  <2> QED  BY <2>1, <2>5, RemoveAtFacts, RemoveAtKeeps
<1> QED  BY <1>1, <1>2

\* SetToSeq lists a finite set.
LEMMA SetToSeqFacts ==
    ASSUME NEW S, IsFiniteSet(S)
    PROVE  /\ SetToSeq(S) \in Seq(S)
           /\ ToSet(SetToSeq(S)) = S
           /\ IsInjective(SetToSeq(S))
<1> DEFINE n == Cardinality(S)
           f == SetToSeq(S)
<1>1. n \in Nat /\ ExistsBijection(1..n, S)  BY FS_CardinalityType
<1>2. \E g \in [1..n -> S] : IsInjective(g)
  BY <1>1 DEF ExistsBijection, Bijection, Injection
<1>3. f \in [1..n -> S] /\ IsInjective(f)
  BY <1>2 DEF SetToSeq
<1> HIDE DEF f
<1>4. f \in Injection(1..n, S)  BY <1>3 DEF Injection
<1>5. IsFiniteSet(1..n) /\ Cardinality(1..n) = n
  BY <1>1, FS_Interval
<1>6. f \in Surjection(1..n, S)
  BY <1>4, <1>5, FS_Injection
<1>7. ToSet(f) = S
  BY <1>3, <1>6 DEF ToSet, Surjection
<1>8. f \in Seq(S)
  BY <1>1, <1>3, SeqDef
<1> QED  BY <1>3, <1>7, <1>8 DEF f

\* At the end of the sequence InsertAt is Append.
LEMMA InsertAtEnd ==
    ASSUME NEW S, NEW s \in Seq(S), NEW e \in S
    PROVE  InsertAt(s, Len(s) + 1, e) = Append(s, e) /\ Len(s) + 1 \in 1..(Len(s) + 1)
<1>1. Len(s) \in Nat  BY LenProperties
<1>2. Len(s) + 1 \in 1..(Len(s) + 1)  BY <1>1
<1> DEFINE a == InsertAt(s, Len(s) + 1, e)
           b == Append(s, e)
<1>3. /\ a \in Seq(S) /\ Len(a) = Len(s) + 1
      /\ \A j \in 1..(Len(s) + 1) : a[j] = IF j < Len(s) + 1 THEN s[j]
                                           ELSE IF j = Len(s) + 1 THEN e ELSE s[j - 1]
  <2> DEFINE i == Len(s) + 1
  <2>1. i \in 1..(Len(s) + 1)  BY <1>2
  <2> HIDE DEF i
  <2>2. InsertAt(s, i, e) \in Seq(S) /\ Inserted(InsertAt(s, i, e), s, i, e)
    BY <2>1, InsertAtFacts
  <2>3. a \in Seq(S) /\ Inserted(a, s, Len(s) + 1, e)  BY <2>2 DEF i
  <2> HIDE DEF a
  <2> QED  BY <2>3 DEF Inserted
<1>4. /\ b \in Seq(S) /\ Len(b) = Len(s) + 1 /\ b[Len(s) + 1] = e
      /\ \A j \in 1..Len(s) : b[j] = s[j]
  BY AppendProperties
<1> HIDE DEF a, b
<1>5. \A j \in 1..Len(a) : a[j] = b[j]  BY <1>1, <1>3, <1>4
<1>6. a = b  BY <1>3, <1>4, <1>5, SeqEqual
<1> QED  BY <1>2, <1>6 DEF a, b

-----------------------------------------------------------------------------
(* The list of timers.                                                     *)

TimerRec == [thread : Thread, at : 0..(TickMod - 1)]
ThreadsOf(list) == [k \in DOMAIN list |-> list[k].thread]

LEMMA ThreadsOfSeq ==
    ASSUME NEW list \in Seq(TimerRec)
    PROVE  /\ ThreadsOf(list) \in Seq(Thread) /\ Len(ThreadsOf(list)) = Len(list)
           /\ \A k \in 1..Len(list) : ThreadsOf(list)[k] = list[k].thread
<1>1. Len(list) \in Nat /\ DOMAIN list = 1..Len(list)  BY LenProperties
<1>2. \A k \in 1..Len(list) : list[k] \in TimerRec  BY ElementOfSeq
<1>3. \A k \in 1..Len(list) : list[k].thread \in Thread  BY <1>2 DEF TimerRec
<1>4. ThreadsOf(list) \in [1..Len(list) -> Thread]  BY <1>1, <1>3 DEF ThreadsOf
<1>5. ThreadsOf(list) \in Seq(Thread)  BY <1>1, <1>4, SeqDef
<1>6. DOMAIN ThreadsOf(list) = 1..Len(ThreadsOf(list)) /\ Len(ThreadsOf(list)) \in Nat
  BY <1>5, LenProperties
<1>7. DOMAIN ThreadsOf(list) = 1..Len(list)  BY <1>4
<1>8. Len(ThreadsOf(list)) = Len(list)
  <2> DEFINE m == Len(ThreadsOf(list))
             n == Len(list)
  <2>1. m \in Nat /\ n \in Nat /\ 1..m = 1..n  BY <1>1, <1>6, <1>7
  <2> HIDE DEF m, n
  <2>2. m <= n
    <3>1. CASE m = 0  BY <2>1, <3>1
    <3>2. CASE m # 0
      <4>1. m \in 1..n  BY <2>1, <3>2
      <4> QED  BY <4>1, <2>1
    <3> QED  BY <3>1, <3>2
  <2>3. n <= m
    <3>1. CASE n = 0  BY <2>1, <3>1
    <3>2. CASE n # 0
      <4>1. n \in 1..m  BY <2>1, <3>2
      <4> QED  BY <4>1, <2>1
    <3> QED  BY <3>1, <3>2
  <2> QED  BY <2>1, <2>2, <2>3 DEF m, n
<1> QED  BY <1>1, <1>5, <1>8 DEF ThreadsOf

LEMMA ThreadsOfRemove ==
    ASSUME NEW list \in Seq(TimerRec), NEW i \in 1..Len(list)
    PROVE  ThreadsOf(RemoveAt(list, i)) = RemoveAt(ThreadsOf(list), i)
<1> DEFINE r == RemoveAt(list, i)
           a == ThreadsOf(r)
           b == RemoveAt(ThreadsOf(list), i)
<1>0. Len(list) \in Nat /\ i \in Int  BY LenProperties
<1>1. /\ r \in Seq(TimerRec) /\ Len(r) = Len(list) - 1
      /\ \A j \in 1..(Len(list) - 1) : r[j] = IF j < i THEN list[j] ELSE list[j + 1]
  BY RemoveAtFacts
<1>2. /\ ThreadsOf(list) \in Seq(Thread) /\ Len(ThreadsOf(list)) = Len(list)
      /\ \A k \in 1..Len(list) : ThreadsOf(list)[k] = list[k].thread
  BY ThreadsOfSeq
<1>3. /\ b \in Seq(Thread) /\ Len(b) = Len(list) - 1
      /\ \A j \in 1..(Len(list) - 1) :
            b[j] = IF j < i THEN ThreadsOf(list)[j] ELSE ThreadsOf(list)[j + 1]
  BY <1>2, RemoveAtFacts
<1>4. a \in Seq(Thread) /\ Len(a) = Len(r) /\ \A k \in 1..Len(r) : a[k] = r[k].thread
  BY <1>1, ThreadsOfSeq
<1> HIDE DEF r, a, b
<1>5. \A j \in 1..Len(a) : a[j] = b[j]
  <2> TAKE j \in 1..Len(a)
  <2>1. j \in 1..(Len(list) - 1)  BY <1>1, <1>4
  <2>2. CASE j < i
    <3>1. j \in 1..Len(list)  BY <2>1, <1>0
    <3>2. a[j] = list[j].thread  BY <2>1, <2>2, <1>1, <1>4
    <3>3. b[j] = list[j].thread  BY <2>1, <2>2, <3>1, <1>2, <1>3
    <3> QED  BY <3>2, <3>3
  <2>3. CASE ~ (j < i)
    <3>1. j + 1 \in 1..Len(list)  BY <2>1, <1>0
    <3> QED  BY <3>1, <2>1, <2>3, <1>0, <1>1, <1>2, <1>3, <1>4
  <2> QED  BY <2>2, <2>3
<1>6. a = b  BY <1>1, <1>3, <1>4, <1>5, SeqEqual
<1> QED  BY <1>6 DEF a, b, r

LEMMA ThreadsOfInsert ==
    ASSUME NEW list \in Seq(TimerRec), NEW i \in 1..(Len(list) + 1), NEW tm \in TimerRec
    PROVE  ThreadsOf(InsertAt(list, i, tm)) = InsertAt(ThreadsOf(list), i, tm.thread)
<1> DEFINE r == InsertAt(list, i, tm)
           a == ThreadsOf(r)
           b == InsertAt(ThreadsOf(list), i, tm.thread)
<1>0. Len(list) \in Nat /\ i \in Int /\ tm.thread \in Thread  BY LenProperties DEF TimerRec
<1>1. /\ r \in Seq(TimerRec) /\ Len(r) = Len(list) + 1
      /\ \A j \in 1..(Len(list) + 1) :
            r[j] = IF j < i THEN list[j] ELSE IF j = i THEN tm ELSE list[j - 1]
  <2>1. r \in Seq(TimerRec) /\ Inserted(r, list, i, tm)  BY InsertAtFacts
  <2> HIDE DEF r
  <2> QED  BY <2>1 DEF Inserted
<1>2. /\ ThreadsOf(list) \in Seq(Thread) /\ Len(ThreadsOf(list)) = Len(list)
      /\ \A k \in 1..Len(list) : ThreadsOf(list)[k] = list[k].thread
  BY ThreadsOfSeq
<1>3. /\ b \in Seq(Thread) /\ Len(b) = Len(list) + 1
      /\ \A j \in 1..(Len(list) + 1) :
            b[j] = IF j < i THEN ThreadsOf(list)[j]
                   ELSE IF j = i THEN tm.thread ELSE ThreadsOf(list)[j - 1]
  <2> DEFINE th == ThreadsOf(list)
             e == tm.thread
  <2>1. th \in Seq(Thread) /\ Len(th) = Len(list) /\ e \in Thread  BY <1>0, <1>2
  <2> HIDE DEF th, e
  <2>2. th \in Seq(Thread) /\ e \in Thread /\ i \in 1..(Len(th) + 1)  BY <2>1
  <2>3. InsertAt(th, i, e) \in Seq(Thread) /\ Inserted(InsertAt(th, i, e), th, i, e)
    BY <2>2, InsertAtFacts
  <2>4. b \in Seq(Thread) /\ Inserted(b, th, i, e)  BY <2>3 DEF th, e
  <2> HIDE DEF b
  <2>5. /\ b \in Seq(Thread) /\ Len(b) = Len(list) + 1
        /\ \A j \in 1..(Len(list) + 1) :
              b[j] = IF j < i THEN th[j] ELSE IF j = i THEN e ELSE th[j - 1]
    BY <2>1, <2>4 DEF Inserted
  <2> QED  BY <2>5 DEF th, e
<1>4. a \in Seq(Thread) /\ Len(a) = Len(r) /\ \A k \in 1..Len(r) : a[k] = r[k].thread
  BY <1>1, ThreadsOfSeq
<1> HIDE DEF r, a, b
<1>5. \A j \in 1..Len(a) : a[j] = b[j]
  <2> TAKE j \in 1..Len(a)
  <2>1. j \in 1..(Len(list) + 1)  BY <1>1, <1>4
  <2>2. CASE j < i
    <3>1. j \in 1..Len(list)  BY <2>1, <2>2, <1>0
    <3>2. a[j] = list[j].thread  BY <2>1, <2>2, <1>1, <1>4
    <3>3. b[j] = list[j].thread  BY <2>1, <2>2, <3>1, <1>2, <1>3
    <3> QED  BY <3>2, <3>3
  <2>3. CASE j = i  BY <2>1, <2>3, <1>0, <1>1, <1>3, <1>4
  <2>4. CASE j > i
    <3>1. j - 1 \in 1..Len(list) /\ ~ (j < i) /\ j # i  BY <2>1, <2>4, <1>0
    <3>2. a[j] = list[j - 1].thread  BY <2>1, <3>1, <1>1, <1>4
    <3>3. b[j] = list[j - 1].thread  BY <2>1, <3>1, <1>2, <1>3
    <3> QED  BY <3>2, <3>3
  <2> QED  BY <2>1, <2>2, <2>3, <2>4, <1>0
<1>6. a = b  BY <1>1, <1>3, <1>4, <1>5, SeqEqual
<1> QED  BY <1>6 DEF a, b, r

\* rt_timer_stop takes the timer of a thread out, and only that.
LEMMA StopTimerKeeps ==
    ASSUME NEW list \in Seq(TimerRec), IsInjective(ThreadsOf(list)), NEW t
    PROVE  /\ StopTimer(list, t) \in Seq(TimerRec)
           /\ ToSet(ThreadsOf(StopTimer(list, t))) = ToSet(ThreadsOf(list)) \ {t}
           /\ IsInjective(ThreadsOf(StopTimer(list, t)))
           /\ \/ StopTimer(list, t) = list
              \/ \E i \in 1..Len(list) : StopTimer(list, t) = RemoveAt(list, i)
<1> DEFINE th == ThreadsOf(list)
<1>0. Len(list) \in Nat  BY LenProperties
<1>1. th \in Seq(Thread) /\ Len(th) = Len(list) /\ \A k \in 1..Len(list) : th[k] = list[k].thread
  BY ThreadsOfSeq
<1>2. DOMAIN th = 1..Len(list)  BY <1>1, LenProperties
<1>3. IsInjective(th)  OBVIOUS
<1> HIDE DEF th
<1>4. CASE t \notin ToSet(th)
  <2>1. ~ \E i \in 1..Len(list) : list[i].thread = t  BY <1>1, <1>2, <1>4 DEF ToSet
  <2>2. StopTimer(list, t) = list  BY <2>1 DEF StopTimer, RemoveFirstMatch
  <2> QED  BY <2>2, <1>3, <1>4 DEF th
<1>5. CASE t \in ToSet(th)
  <2>1. PICK i \in 1..Len(list) : list[i].thread = t  BY <1>1, <1>2, <1>5 DEF ToSet
  <2>2. {j \in 1..Len(list) : list[j].thread = t} = {i}
    BY <1>1, <1>2, <1>3, <2>1 DEF IsInjective
  <2>3. Min({i}) = i  BY <1>0 DEF Min
  <2>4. SelectInSeq(list, LAMBDA u : u.thread = t) = i
    BY <2>2, <2>3 DEF SelectInSeq
  <2>5. StopTimer(list, t) = RemoveAt(list, i)  BY <2>1, <2>4 DEF StopTimer, RemoveFirstMatch
  <2>6. ThreadsOf(RemoveAt(list, i)) = RemoveAt(th, i)  BY ThreadsOfRemove DEF th
  <2>7. th[i] = t /\ i \in 1..Len(th)  BY <1>1, <2>1
  <2>8. /\ RemoveAt(list, i) \in Seq(TimerRec)
        /\ ToSet(RemoveAt(th, i)) = ToSet(th) \ {t} /\ IsInjective(RemoveAt(th, i))
    BY <1>1, <1>3, <2>7, RemoveAtFacts, RemoveAtKeeps
  <2> QED  BY <2>5, <2>6, <2>8 DEF th
<1> QED  BY <1>4, <1>5

\* rt_timer_start puts a timer in before the first one that expires later.
LEMMA InsertTimerFacts ==
    ASSUME NEW list \in Seq(TimerRec), NEW tm \in TimerRec
    PROVE  \E i \in 1..(Len(list) + 1) :
              /\ InsertTimer(list, tm) = InsertAt(list, i, tm)
              /\ \A j \in 1..(i - 1) : ~ (Diff(list[j].at, tm.at) \in 1..(Half - 1))
              /\ i <= Len(list) => Diff(list[i].at, tm.at) \in 1..(Half - 1)
<1> DEFINE I == {j \in 1..Len(list) : Diff(list[j].at, tm.at) \in 1..(Half - 1)}
           later == SelectInSeq(list, LAMBDA u : Diff(u.at, tm.at) \in 1..(Half - 1))
<1>0. Len(list) \in Nat  BY LenProperties
<1>1. later = IF I # {} THEN Min(I) ELSE 0  BY DEF SelectInSeq
<1>2. CASE I = {}
  <2>1. later = 0  BY <1>1, <1>2
  <2>2. InsertTimer(list, tm) = Append(list, tm)  BY <2>1 DEF InsertTimer
  <2>3. InsertTimer(list, tm) = InsertAt(list, Len(list) + 1, tm)  BY <2>2, InsertAtEnd
  <2>4. \A j \in 1..((Len(list) + 1) - 1) : ~ (Diff(list[j].at, tm.at) \in 1..(Half - 1))
    BY <1>0, <1>2
  <2>5. ~ (Len(list) + 1 <= Len(list)) /\ Len(list) + 1 \in 1..(Len(list) + 1)  BY <1>0
  <2> QED  BY <2>3, <2>4, <2>5
<1>3. CASE I # {}
  <2>1. later = Min(I)  BY <1>1, <1>3
  <2>2. I \in SUBSET Nat  BY <1>0
  <2>3. Min(I) \in I /\ \A y \in I : Min(I) <= y  BY <1>3, <2>2, LeastNatural
  <2>4. later # 0 /\ later \in 1..(Len(list) + 1)  BY <1>0, <2>1, <2>3
  <2>5. InsertTimer(list, tm) = InsertAt(list, later, tm)  BY <2>4 DEF InsertTimer
  <2>6. \A j \in 1..(later - 1) : ~ (Diff(list[j].at, tm.at) \in 1..(Half - 1))
    <3> SUFFICES ASSUME NEW j \in 1..(later - 1), Diff(list[j].at, tm.at) \in 1..(Half - 1)
                 PROVE  FALSE
      OBVIOUS
    <3>0. later \in 1..Len(list)  BY <2>1, <2>3
    <3> HIDE DEF later
    <3>1. j \in Int /\ later \in Int /\ j < later /\ j \in 1..Len(list)
      BY <1>0, <3>0
    <3>2. j \in I  BY <3>1
    <3>3. later <= j  BY <3>2, <2>1, <2>3
    <3> QED  BY <3>1, <3>3
  <2>7. Diff(list[later].at, tm.at) \in 1..(Half - 1)  BY <2>1, <2>3
  <2> QED  BY <2>4, <2>5, <2>6, <2>7
<1> QED  BY <1>2, <1>3

LEMMA StartTimerKeeps ==
    ASSUME NEW list \in Seq(TimerRec), IsInjective(ThreadsOf(list)), NEW t \in Thread,
           rt_tick \in Int, NEW timeout \in Int
    PROVE  /\ StartTimer(list, t, timeout) \in Seq(TimerRec)
           /\ ToSet(ThreadsOf(StartTimer(list, t, timeout))) = ToSet(ThreadsOf(list)) \union {t}
           /\ IsInjective(ThreadsOf(StartTimer(list, t, timeout)))
<1> DEFINE tm == [thread |-> t, at |-> (rt_tick + timeout) % TickMod]
           l == StopTimer(list, t)
           r == InsertTimer(l, tm)
<1>1. /\ l \in Seq(TimerRec) /\ ToSet(ThreadsOf(l)) = ToSet(ThreadsOf(list)) \ {t}
      /\ IsInjective(ThreadsOf(l))
  BY StopTimerKeeps
<1>2. tm \in TimerRec /\ tm.thread = t  BY ThreadAssumption DEF TimerRec
<1> HIDE DEF tm, l
<1>3. PICK i \in 1..(Len(l) + 1) : r = InsertAt(l, i, tm)
  BY <1>1, <1>2, InsertTimerFacts
<1>4. r \in Seq(TimerRec) /\ ThreadsOf(r) = InsertAt(ThreadsOf(l), i, t)
  BY <1>1, <1>2, <1>3, InsertAtFacts, ThreadsOfInsert
<1>5. ThreadsOf(l) \in Seq(Thread) /\ Len(ThreadsOf(l)) = Len(l)
  BY <1>1, ThreadsOfSeq
<1>6. t \notin ToSet(ThreadsOf(l))  BY <1>1
<1> DEFINE th == ThreadsOf(l)
<1>7. ToSet(InsertAt(th, i, t)) = ToSet(th) \union {t} /\ IsInjective(InsertAt(th, i, t))
  <2>1. th \in Seq(Thread) /\ i \in 1..(Len(th) + 1) /\ IsInjective(th) /\ t \notin ToSet(th)
    BY <1>1, <1>5, <1>6
  <2> HIDE DEF th
  <2> QED  BY <2>1, InsertAtKeeps, SMTT(30)
<1> QED  BY <1>1, <1>4, <1>7 DEF StartTimer, tm, l

-----------------------------------------------------------------------------
(* The three places where a thread can stand.  The parameters are the      *)
(* values that an action gives to the variables.                           *)

Stat == {"RUNNING", "READY", "SUSPEND"}

\* The ready table holds the READY threads, each once and under its priority.
Queued(st, rd, cp) ==
    /\ rd \in [Prio -> Seq(Thread)]
    /\ \A p \in Prio : IsInjective(rd[p]) /\ ToSet(rd[p]) = {t \in Thread : st[t] = "READY" /\ cp[t] = p}

\* Only suspended threads wait, each in one list and once.
Waiting(st, sus) ==
    /\ sus \in [Object -> Seq(Thread)]
    /\ \A o \in Object :
          /\ IsInjective(sus[o])
          /\ \A t \in ToSet(sus[o]) :
                st[t] = "SUSPEND" /\ \A q \in Object \ {o} : t \notin ToSet(sus[q])

\* Only suspended threads have a timer, one each.
TimersOf(st, list) ==
    /\ list \in Seq(TimerRec)
    /\ IsInjective(ThreadsOf(list)) /\ \A t \in ToSet(ThreadsOf(list)) : st[t] = "SUSPEND"

\* Something will wake a suspended thread.
Wakeable(st, list, sus) ==
    \A t \in Thread : st[t] = "SUSPEND" =>
        t \in ToSet(ThreadsOf(list)) \/ \E o \in Object : t \in ToSet(sus[o])

\* The current thread is running or about to wait, no other one is running, and
\* the idle thread never waits.
Current(st, cur) ==
    /\ cur \in Thread /\ st \in [Thread -> Stat] /\ st[cur] # "READY" /\ st[Idle] # "SUSPEND"
    /\ \A t \in Thread : st[t] = "RUNNING" => t = cur

\* A thread that becomes READY is queued.
LEMMA EnqueueQueued ==
    ASSUME NEW st, NEW rd, NEW cp, Queued(st, rd, cp), st \in [Thread -> Stat],
           cp \in [Thread -> Prio],
           NEW t \in Thread, st[t] # "READY", NEW yielded
    PROVE  Queued([st EXCEPT ![t] = "READY"], Enqueue(rd, t, cp[t], yielded), cp)
<1> DEFINE p == cp[t]
           new == IF t \in yielded THEN Append(rd[p], t) ELSE <<t>> \o rd[p]
           r == Enqueue(rd, t, p, yielded)
<1>1. p \in Prio /\ rd[p] \in Seq(Thread) /\ IsInjective(rd[p]) /\ t \notin ToSet(rd[p])
  BY DEF Queued
<1>2. new \in Seq(Thread) /\ IsInjective(new) /\ ToSet(new) = ToSet(rd[p]) \union {t}
  BY <1>1, AppendKeeps, ConsKeeps
<1>3. r = [rd EXCEPT ![p] = new]  BY DEF Enqueue
<1> HIDE DEF p, new, r
<1>4. r \in [Prio -> Seq(Thread)]  BY <1>1, <1>2, <1>3 DEF Queued
<1>5. ASSUME NEW q \in Prio
      PROVE  /\ IsInjective(r[q])
             /\ ToSet(r[q]) = {u \in Thread : [st EXCEPT ![t] = "READY"][u] = "READY" /\ cp[u] = q}
  <2>1. CASE q = p
    <3>1. r[q] = new  BY <2>1, <1>1, <1>3 DEF Queued
    <3> QED  BY <3>1, <2>1, <1>1, <1>2 DEF Queued, p
  <2>2. CASE q # p
    <3>1. r[q] = rd[q]  BY <2>2, <1>3 DEF Queued
    <3> QED  BY <3>1, <2>2 DEF Queued, p
  <2> QED  BY <2>1, <2>2
<1> QED  BY <1>4, <1>5 DEF Queued, r, p

\* A thread that leaves the ready table runs or waits.
LEMMA DequeueQueued ==
    ASSUME NEW st, NEW rd, NEW cp, Queued(st, rd, cp), st \in [Thread -> Stat],
           NEW t \in Thread, NEW s, s # "READY"
    PROVE  Queued([st EXCEPT ![t] = s], Dequeue(rd, t), cp)
<1>1. \A p \in Prio : rd[p] \in Seq(Thread) /\ IsInjective(rd[p])  BY DEF Queued
<1>2. \A p \in Prio : /\ RemoveFirst(rd[p], t) \in Seq(Thread) /\ IsInjective(RemoveFirst(rd[p], t))
                      /\ ToSet(RemoveFirst(rd[p], t)) = ToSet(rd[p]) \ {t}
  BY <1>1, RemoveFirstKeeps
<1>3. Dequeue(rd, t) \in [Prio -> Seq(Thread)]  BY <1>2 DEF Dequeue
<1>4. ASSUME NEW p \in Prio
      PROVE  /\ IsInjective(Dequeue(rd, t)[p])
             /\ ToSet(Dequeue(rd, t)[p]) = {u \in Thread : [st EXCEPT ![t] = s][u] = "READY" /\ cp[u] = p}
  <2>1. Dequeue(rd, t)[p] = RemoveFirst(rd[p], t)  BY DEF Dequeue
  <2> QED  BY <2>1, <1>2 DEF Queued
<1> QED  BY <1>3, <1>4 DEF Queued

\* Highest is the least priority number in use.
LEMMA HighestFacts ==
    ASSUME NEW rd, \E p \in Prio : rd[p] # <<>>
    PROVE  /\ Highest(rd) \in Prio /\ rd[Highest(rd)] # <<>>
           /\ \A q \in Prio : rd[q] # <<>> => Highest(rd) <= q
<1> DEFINE S == {p \in Prio : rd[p] # <<>>}
<1>1. S \in SUBSET Nat /\ S # {}  BY ThreadAssumption DEF Prio
<1>2. PICK p \in S : \A q \in S : p <= q  BY <1>1, LeastNatural
<1> QED  BY <1>2 DEF Highest

\* Priorities are natural numbers.
LEMMA PrioNat == Prio \subseteq Nat
  BY ThreadAssumption DEF Prio

\* What rt_schedule leaves behind: the ready table is right again, one thread
\* runs, no READY thread has a higher priority, and no thread is suspended or
\* woken up by it.
LEMMA ScheduleFacts ==
    ASSUME NEW st, NEW rd, NEW yielded \in SUBSET Thread, current_priority \in [Thread -> Prio],
           Current(st, rt_current_thread), Queued(st, rd, current_priority),
           rt_schedule(st, rd, yielded)
    PROVE  /\ Queued(stat', ready', current_priority)
           /\ Current(stat', rt_current_thread') /\ stat'[rt_current_thread'] = "RUNNING"
           /\ \A t \in Thread : stat'[t] = "SUSPEND" <=> st[t] = "SUSPEND"
           /\ yield' \in SUBSET Thread /\ lowered' = FALSE
           /\ \A t \in Thread : stat'[t] = "READY" =>
                 current_priority[rt_current_thread'] <= current_priority[t]
<1> DEFINE from == rt_current_thread
           H == Highest(rd)
           to == Head(rd[H])
           flags == IF st[from] = "RUNNING" /\ \E p \in Prio : rd[p] # <<>> THEN yielded \ {from}
                    ELSE yielded
<1>0. from \in Thread /\ st \in [Thread -> Stat] /\ \A t \in Thread : current_priority[t] \in Prio
  BY DEF Current
<1>1. \A t \in Thread : st[t] = "READY" => rd[current_priority[t]] # <<>>
  <2> SUFFICES ASSUME NEW t \in Thread, st[t] = "READY", rd[current_priority[t]] = <<>>
               PROVE  FALSE
    OBVIOUS
  <2>1. t \in ToSet(rd[current_priority[t]])  BY <1>0 DEF Queued
  <2>2. ToSet(<<>>) = {}  BY DEF ToSet
  <2> QED  BY <2>1, <2>2
<1>2. yield' \in SUBSET Thread /\ lowered' = FALSE
  BY DEF rt_schedule
<1>3. CASE Stays(st, rd, yielded)
  <2>1. UNCHANGED rt_current_thread /\ stat' = st /\ ready' = rd
    BY <1>3 DEF rt_schedule
  <2>2. CASE \A p \in Prio : rd[p] = <<>>
    <3>1. \A t \in Thread : st[t] # "READY"  BY <1>0, <1>1, <2>2
    <3>2. st[Idle] = "RUNNING" /\ Idle = from  BY <1>0, <3>1, ThreadAssumption DEF Current, Stat
    <3> QED  BY <2>1, <3>1, <3>2, <1>2
  <2>3. CASE ~ \A p \in Prio : rd[p] = <<>>
    <3>1. /\ H \in Prio /\ rd[H] # <<>>
          /\ \A q \in Prio : rd[q] # <<>> => H <= q
      BY <2>3, HighestFacts
    <3> HIDE DEF H
    <3>2. st[from] = "RUNNING" /\ (current_priority[from] < H \/ current_priority[from] = H)
      BY <1>3, <2>3 DEF Stays, H
    <3>3. ASSUME NEW t \in Thread, st[t] = "READY"
          PROVE  current_priority[from] <= current_priority[t]
      <4>1. H <= current_priority[t]  BY <3>1, <3>3, <1>0, <1>1
      <4>2. H \in Nat /\ current_priority[from] \in Nat /\ current_priority[t] \in Nat
        BY <3>1, <1>0, PrioNat
      <4> QED  BY <4>1, <4>2, <3>2
    <3> QED  BY <2>1, <3>2, <3>3, <1>2
  <2> QED  BY <2>2, <2>3
<1>4. CASE ~ Stays(st, rd, yielded)
  <2>1. ~ \A p \in Prio : rd[p] = <<>>  BY <1>4 DEF Stays
  <2>2. H \in Prio /\ rd[H] # <<>> /\ \A q \in Prio : rd[q] # <<>> => H <= q
    BY <2>1, HighestFacts
  <2>3. rd[H] \in Seq(Thread) /\ ToSet(rd[H]) = {t \in Thread : st[t] = "READY" /\ current_priority[t] = H}
        /\ IsInjective(rd[H])
    BY <2>2 DEF Queued
  <2>4. to \in Thread /\ st[to] = "READY" /\ current_priority[to] = H
    BY <2>2, <2>3, TailKeeps
  <2>5. to # from  BY <2>4 DEF Current
  <2>6. st[from] = "RUNNING" => H <= current_priority[from]
    <3>1. st[from] = "RUNNING" => ~ (current_priority[from] < H)  BY <1>4 DEF Stays
    <3>2. H \in Nat /\ current_priority[from] \in Nat  BY <1>0, <2>2, PrioNat
    <3> HIDE DEF H
    <3> QED  BY <3>1, <3>2
  <2>7. /\ rt_current_thread' = to
        /\ stat' = [t \in Thread |-> CASE t = to -> "RUNNING"
                                       [] t = from /\ st[from] = "RUNNING" -> "READY"
                                       [] OTHER -> st[t]]
        /\ ready' = Dequeue(IF st[from] = "RUNNING"
                            THEN Enqueue(rd, from, current_priority[from], flags) ELSE rd, to)
    BY <1>4 DEF rt_schedule
  <2> HIDE DEF to, H, flags
  <2>8. \A t \in Thread : stat'[t] = IF t = to THEN "RUNNING"
                                     ELSE IF t = from /\ st[from] = "RUNNING" THEN "READY" ELSE st[t]
    <3> TAKE t \in Thread
    <3>1. stat'[t] = CASE t = to -> "RUNNING"
                       [] t = from /\ st[from] = "RUNNING" -> "READY"
                       [] OTHER -> st[t]
      BY <2>7
    <3>2. CASE t = to  BY <3>1, <3>2, <2>5
    <3>3. CASE t # to /\ t = from /\ st[from] = "RUNNING"  BY <3>1, <3>3
    <3>4. CASE t # to /\ ~ (t = from /\ st[from] = "RUNNING")  BY <3>1, <3>4
    <3> QED  BY <3>2, <3>3, <3>4
  <2>9. stat' \in [Thread -> Stat]
    BY <1>0, <2>7 DEF Stat
  <2>10. Queued(stat', ready', current_priority)
    <3>1. CASE st[from] = "RUNNING"
      <4> DEFINE s1 == [st EXCEPT ![from] = "READY"]
                 r1 == Enqueue(rd, from, current_priority[from], flags)
      <4>1. Queued(s1, r1, current_priority)  BY <3>1, <1>0, EnqueueQueued
      <4>2. s1 \in [Thread -> Stat]  BY <1>0 DEF Stat
      <4>3. stat' = [s1 EXCEPT ![to] = "RUNNING"]  BY <1>0, <2>4, <2>5, <2>7, <3>1
      <4>4. ready' = Dequeue(r1, to)  BY <2>7, <3>1
      <4> HIDE DEF s1, r1
      <4> QED  BY <4>1, <4>2, <4>3, <4>4, <2>4, DequeueQueued
    <3>2. CASE st[from] # "RUNNING"
      <4>1. stat' = [st EXCEPT ![to] = "RUNNING"]  BY <1>0, <2>4, <2>7, <3>2
      <4>2. ready' = Dequeue(rd, to)  BY <2>7, <3>2
      <4> QED  BY <1>0, <4>1, <4>2, <2>4, DequeueQueued
    <3> QED  BY <3>1, <3>2
  <2>11. Current(stat', rt_current_thread') /\ stat'[rt_current_thread'] = "RUNNING"
    BY <2>4, <2>5, <2>7, <2>8, <2>9, ThreadAssumption DEF Current
  <2>12. \A t \in Thread : stat'[t] = "SUSPEND" <=> st[t] = "SUSPEND"
    BY <2>4, <2>8
  <2>13. ASSUME NEW t \in Thread, stat'[t] = "READY"
         PROVE  current_priority[rt_current_thread'] <= current_priority[t]
    <3>1. CASE t = from /\ st[from] = "RUNNING"  BY <3>1, <2>4, <2>6, <2>7
    <3>2. CASE ~ (t = from /\ st[from] = "RUNNING")
      <4>1. st[t] = "READY"  BY <2>8, <2>13, <3>2
      <4> QED  BY <4>1, <1>0, <1>1, <2>2, <2>4, <2>7
    <3> QED  BY <3>1, <3>2
  <2> QED  BY <1>2, <2>10, <2>11, <2>12, <2>13
<1> QED  BY <1>3, <1>4

-----------------------------------------------------------------------------
(* The kernel's invariant and the steps of the kernel.                     *)

KernelScalars ==
    /\ rt_tick \in 0..(TickMod - 1) /\ yield \in SUBSET Thread
    /\ remaining_tick \in [Thread -> 1..TimeSlice] /\ current_priority \in [Thread -> Prio]
    /\ error \in [Thread -> {"RT_EOK", "RT_ETIMEOUT"}]
    /\ isr \in BOOLEAN /\ lowered \in BOOLEAN

KernelInv ==
    /\ KernelScalars
    /\ Current(stat, rt_current_thread)
    /\ Queued(stat, ready, current_priority)
    /\ Waiting(stat, suspend_thread)
    /\ TimersOf(stat, timer_list)
    /\ Wakeable(stat, timer_list, suspend_thread)

\* The current thread is RUNNING and no READY thread has a higher priority.
HighestIn(st, cur) ==
    st[cur] = "RUNNING" /\ \A t \in Thread : st[t] = "READY" => current_priority[cur] <= current_priority[t]

LEMMA KernelInvImplies == KernelInv => KernelTypeOK /\ NoThreadLost
<1> SUFFICES ASSUME KernelInv
             PROVE  KernelTypeOK /\ NoThreadLost
  OBVIOUS
<1>1. KernelTypeOK
  BY DEF KernelInv, KernelTypeOK, KernelScalars, Current, Queued, Waiting, TimersOf, TimerRec, Stat
<1>2. Timed = ThreadsOf(timer_list)  BY DEF Timed, ThreadsOf
<1>3. /\ \A p \in Prio :
            /\ IsInjective(ready[p])
            /\ ToSet(ready[p]) = {t \in Thread : stat[t] = "READY" /\ current_priority[t] = p}
      /\ \A o \in Object :
            /\ IsInjective(suspend_thread[o])
            /\ \A t \in ToSet(suspend_thread[o]) :
                  stat[t] = "SUSPEND" /\ \A q \in Object \ {o} : t \notin ToSet(suspend_thread[q])
  BY DEF KernelInv, Queued, Waiting
<1>4. IsInjective(Timed) /\ \A t \in ToSet(Timed) : stat[t] = "SUSPEND"
  BY <1>2 DEF KernelInv, TimersOf
<1>5. \A t \in Thread :
         /\ stat[t] = "SUSPEND" => \/ t \in ToSet(Timed)
                                   \/ \E o \in Object : t \in ToSet(suspend_thread[o])
         /\ stat[t] = "RUNNING" => t = rt_current_thread
  BY <1>2 DEF KernelInv, Wakeable, Current
<1>6. NoThreadLost  BY <1>3, <1>4, <1>5 DEF NoThreadLost
<1> QED  BY <1>1, <1>6

\* The priority of a thread that is not READY is not in the table.
LEMMA QueuedPrio ==
    ASSUME NEW st, NEW rd, NEW cp, Queued(st, rd, cp), cp \in [Thread -> Prio],
           NEW t \in Thread, st[t] # "READY", NEW p
    PROVE  Queued(st, rd, [cp EXCEPT ![t] = p])
  BY DEF Queued

\* A thread becomes RUNNING or SUSPEND that was not READY.
LEMMA QueuedStat ==
    ASSUME NEW st, NEW rd, NEW cp, Queued(st, rd, cp), st \in [Thread -> Stat],
           NEW t \in Thread, st[t] # "READY", NEW s, s # "READY"
    PROVE  Queued([st EXCEPT ![t] = s], rd, cp)
  BY DEF Queued

\* rt_schedule_insert_thread of a suspended thread.
LEMMA InsertThreadQueued ==
    ASSUME KernelInv, NEW t \in Thread, stat[t] = "SUSPEND"
    PROVE  /\ Queued([stat EXCEPT ![t] = InsertStat(t)], InsertThread(t), current_priority)
           /\ Current([stat EXCEPT ![t] = InsertStat(t)], rt_current_thread)
<1>1. /\ stat \in [Thread -> Stat] /\ current_priority \in [Thread -> Prio]
      /\ Queued(stat, ready, current_priority) /\ Current(stat, rt_current_thread)
  BY DEF KernelInv, KernelScalars, Current
<1>2. CASE t = rt_current_thread
  <2>1. InsertStat(t) = "RUNNING" /\ InsertThread(t) = ready  BY <1>2 DEF InsertStat, InsertThread
  <2>2. Queued([stat EXCEPT ![t] = "RUNNING"], ready, current_priority)  BY <1>1, QueuedStat
  <2>3. Current([stat EXCEPT ![t] = "RUNNING"], rt_current_thread)
    BY <1>1, <1>2, ThreadAssumption DEF Current, Stat
  <2> QED  BY <2>1, <2>2, <2>3
<1>3. CASE t # rt_current_thread
  <2>1. /\ InsertStat(t) = "READY"
        /\ InsertThread(t) = Enqueue(ready, t, current_priority[t], yield)
    BY <1>3 DEF InsertStat, InsertThread
  <2>2. Queued([stat EXCEPT ![t] = "READY"], Enqueue(ready, t, current_priority[t], yield), current_priority)
    BY <1>1, EnqueueQueued
  <2>3. Current([stat EXCEPT ![t] = "READY"], rt_current_thread)
    BY <1>1, <1>3, ThreadAssumption DEF Current, Stat
  <2> QED  BY <2>1, <2>2, <2>3
<1> QED  BY <1>2, <1>3

\* What _thread_timeout and rt_thread_resume do to the lists.
LEMMA LeftLists ==
    ASSUME Waiting(stat, suspend_thread), stat \in [Thread -> Stat], NEW t \in Thread, NEW s,
           suspend_thread' = [o \in Object |-> RemoveFirst(suspend_thread[o], t)]
    PROVE  /\ Waiting([stat EXCEPT ![t] = s], suspend_thread')
           /\ \A o \in Object : ToSet(suspend_thread'[o]) = ToSet(suspend_thread[o]) \ {t}
<1> DEFINE left == suspend_thread'
<1>1. \A o \in Object : suspend_thread[o] \in Seq(Thread) /\ IsInjective(suspend_thread[o])
  BY DEF Waiting
<1>2. \A o \in Object : RemoveFirst(suspend_thread[o], t) \in Seq(Thread)
  BY <1>1, RemoveFirstKeeps
<1>3. left \in [Object -> Seq(Thread)] /\ \A o \in Object : left[o] = RemoveFirst(suspend_thread[o], t)
  BY <1>2
<1> HIDE DEF left
<1>4. \A o \in Object : IsInjective(left[o]) /\ ToSet(left[o]) = ToSet(suspend_thread[o]) \ {t}
  BY <1>1, <1>3, RemoveFirstKeeps
<1>5. Waiting([stat EXCEPT ![t] = s], left)
  BY <1>3, <1>4 DEF Waiting
<1> QED  BY <1>4, <1>5 DEF left

\* Which lists and timers are right depends on which threads are suspended only.
LEMMA SameSuspended ==
    ASSUME NEW st, NEW st2, NEW sus, NEW list,
           \A t \in Thread : st2[t] = "SUSPEND" <=> st[t] = "SUSPEND"
    PROVE  /\ Waiting(st, sus) => Waiting(st2, sus)
           /\ TimersOf(st, list) => TimersOf(st2, list)
           /\ Wakeable(st, list, sus) => Wakeable(st2, list, sus)
<1>1. ASSUME NEW s \in Seq(Thread), NEW t \in ToSet(s)  PROVE t \in Thread
  BY LenProperties, ElementOfSeq DEF ToSet
<1>2. ASSUME Waiting(st, sus)  PROVE Waiting(st2, sus)
  <2>1. \A o \in Object : \A t \in ToSet(sus[o]) : t \in Thread  BY <1>1, <1>2 DEF Waiting
  <2> QED  BY <1>2, <2>1 DEF Waiting
<1>3. ASSUME TimersOf(st, list)  PROVE TimersOf(st2, list)
  <2>1. \A t \in ToSet(ThreadsOf(list)) : t \in Thread  BY <1>1, <1>3, ThreadsOfSeq DEF TimersOf
  <2> QED  BY <1>3, <2>1 DEF TimersOf
<1>4. ASSUME Wakeable(st, list, sus)  PROVE Wakeable(st2, list, sus)
  BY <1>4 DEF Wakeable
<1> QED  BY <1>2, <1>3, <1>4

\* Initially the scheduler has chosen a thread of the highest priority.
LEMMA KernelInitInv == KernelInit => KernelInv /\ HighestIn(stat, rt_current_thread)
<1> SUFFICES ASSUME KernelInit
             PROVE  KernelInv /\ HighestIn(stat, rt_current_thread)
  OBVIOUS
<1> USE DEF KernelInit
<1>1. KernelScalars
  <2>1. current_priority \in [Thread -> Prio]  BY ThreadAssumption DEF Prio
  <2>2. rt_tick \in 0..(TickMod - 1) /\ remaining_tick \in [Thread -> 1..TimeSlice]
    BY ThreadAssumption
  <2> QED  BY <2>1, <2>2 DEF KernelScalars
<1>2. /\ rt_current_thread \in Thread /\ stat \in [Thread -> Stat]
      /\ \A t \in Thread : stat[t] = IF t = rt_current_thread THEN "RUNNING" ELSE "READY"
  BY DEF Stat
<1>3. Current(stat, rt_current_thread)
  BY <1>2, ThreadAssumption DEF Current
<1>4. Queued(stat, ready, current_priority)
  <2> DEFINE S(p) == {t \in Thread \ {rt_current_thread} : Base[t] = p}
  <2>1. ASSUME NEW p \in Prio
        PROVE  /\ ready[p] \in Seq(Thread) /\ IsInjective(ready[p])
               /\ ToSet(ready[p]) = {t \in Thread : stat[t] = "READY" /\ current_priority[t] = p}
    <3>1. ready[p] = SetToSeq(S(p))  OBVIOUS
    <3>2. S(p) \in SUBSET Thread  OBVIOUS
    <3>3. IsFiniteSet(S(p))  BY <3>2, FS_Subset, ThreadAssumption
    <3>4. S(p) = {t \in Thread : stat[t] = "READY" /\ current_priority[t] = p}  BY <1>2
    <3> HIDE DEF S
    <3>5. ready[p] \in Seq(S(p)) /\ ToSet(ready[p]) = S(p) /\ IsInjective(ready[p])
      BY <3>1, <3>3, SetToSeqFacts
    <3>6. ready[p] \in Seq(Thread)  BY <3>2, <3>5, SeqMonotonic
    <3> QED  BY <3>4, <3>5, <3>6
  <2>2. DOMAIN ready = Prio /\ ready = [p \in Prio |-> ready[p]]  OBVIOUS
  <2>3. ready \in [Prio -> Seq(Thread)]  BY <2>1, <2>2
  <2> QED  BY <2>1, <2>3 DEF Queued
<1>5. ToSet(<<>>) = {} /\ IsInjective(<<>>)  BY DEF ToSet, IsInjective
<1>6. ThreadsOf(<<>>) = <<>>  BY DEF ThreadsOf
<1>7. Waiting(stat, suspend_thread)
  BY <1>5, EmptySeq DEF Waiting
<1>8. TimersOf(stat, timer_list)
  <2>1. <<>> \in Seq(TimerRec)  BY EmptySeq
  <2> QED  BY <1>5, <1>6, <2>1 DEF TimersOf
<1>9. Wakeable(stat, timer_list, suspend_thread)  BY <1>2 DEF Wakeable
<1>10. HighestIn(stat, rt_current_thread)  BY <1>2 DEF HighestIn
<1> QED  BY <1>1, <1>3, <1>4, <1>7, <1>8, <1>9, <1>10 DEF KernelInv

\* What a step of the tick interrupt does to the threads: it chooses anew or
\* leaves the scheduler alone, and the only threads it wakes up are those it
\* gives a timeout.
TickFrame ==
    /\ current_priority' = current_priority
    /\ \/ UNCHANGED schedVars
       \/ lowered' = FALSE /\ HighestIn(stat', rt_current_thread')
    /\ \A t \in Thread :
          /\ stat'[t] = "SUSPEND" => stat[t] = "SUSPEND"
          /\ IF stat[t] = "SUSPEND" /\ stat'[t] # "SUSPEND"
             THEN error'[t] = "RT_ETIMEOUT" ELSE error'[t] = error[t]
          /\ \A o \in Object : t \in ToSet(suspend_thread'[o])
                                  <=> t \in ToSet(suspend_thread[o]) /\ stat'[t] = "SUSPEND"
    /\ \A o \in Object : \/ suspend_thread'[o] = suspend_thread[o]
                         \/ \E i \in 1..Len(suspend_thread[o]) :
                               suspend_thread'[o] = RemoveAt(suspend_thread[o], i)

\* rt_schedule in a step that does nothing to the lists and timers.
LEMMA ScheduleKeeps ==
    ASSUME KernelInv, NEW yielded \in SUBSET Thread, rt_schedule(stat, ready, yielded),
           UNCHANGED <<current_priority, timer_list, suspend_thread>>
    PROVE  /\ Current(stat', rt_current_thread') /\ Queued(stat', ready', current_priority')
           /\ Waiting(stat', suspend_thread') /\ TimersOf(stat', timer_list')
           /\ Wakeable(stat', timer_list', suspend_thread')
           /\ yield' \in SUBSET Thread /\ lowered' = FALSE
           /\ HighestIn(stat', rt_current_thread')
           /\ \A t \in Thread : stat'[t] = "SUSPEND" <=> stat[t] = "SUSPEND"
<1>1. /\ current_priority \in [Thread -> Prio] /\ Current(stat, rt_current_thread)
      /\ Queued(stat, ready, current_priority)
  BY DEF KernelInv, KernelScalars
<1>2. /\ Queued(stat', ready', current_priority)
      /\ Current(stat', rt_current_thread') /\ stat'[rt_current_thread'] = "RUNNING"
      /\ \A t \in Thread : stat'[t] = "SUSPEND" <=> stat[t] = "SUSPEND"
      /\ yield' \in SUBSET Thread /\ lowered' = FALSE
      /\ \A t \in Thread : stat'[t] = "READY" =>
            current_priority[rt_current_thread'] <= current_priority[t]
  BY <1>1, ScheduleFacts
<1>3. /\ Waiting(stat', suspend_thread) /\ TimersOf(stat', timer_list)
      /\ Wakeable(stat', timer_list, suspend_thread)
  BY <1>2, SameSuspended DEF KernelInv
<1>4. HighestIn(stat', rt_current_thread')  BY <1>2 DEF HighestIn
<1> QED  BY <1>2, <1>3, <1>4

\* Waiting threads are threads that are suspended.
LEMMA WaitingSuspended ==
    ASSUME NEW st, NEW sus, Waiting(st, sus), NEW o \in Object, NEW t \in ToSet(sus[o])
    PROVE  t \in Thread /\ st[t] = "SUSPEND" /\ \A q \in Object \ {o} : t \notin ToSet(sus[q])
<1>1. sus[o] \in Seq(Thread)  BY DEF Waiting
<1>2. t \in Thread  BY <1>1, LenProperties, ElementOfSeq DEF ToSet
<1> QED  BY <1>2 DEF Waiting

LEMMA TickIncreaseKeeps == KernelInv /\ rt_tick_increase => KernelInv' /\ TickFrame
<1> SUFFICES ASSUME KernelInv, rt_tick_increase
             PROVE  KernelInv' /\ TickFrame
  OBVIOUS
<1> DEFINE me == rt_current_thread
<1>0. KernelScalars /\ me \in Thread /\ UNCHANGED <<current_priority, timer_list, suspend_thread, error>>
  BY DEF KernelInv, Current, rt_tick_increase
<1>1. KernelScalars /\ rt_tick' \in 0..(TickMod - 1) /\ isr' \in BOOLEAN
  BY <1>0, ThreadAssumption DEF rt_tick_increase, KernelScalars
<1>2. CASE UNCHANGED schedVars /\ remaining_tick[me] > 1
           /\ remaining_tick' = [remaining_tick EXCEPT ![me] = @ - 1]
  <2>1. remaining_tick' \in [Thread -> 1..TimeSlice]
    <3>1. remaining_tick[me] - 1 \in 1..TimeSlice
      BY <1>0, <1>2, ThreadAssumption DEF KernelScalars
    <3> QED  BY <1>0, <1>2, <3>1 DEF KernelScalars
  <2>2. KernelScalars'  BY <1>0, <1>1, <1>2, <2>1 DEF KernelScalars, schedVars
  <2>3. KernelInv'  BY <1>0, <1>2, <2>2 DEF KernelInv, schedVars
  <2>4. \A t \in Thread, o \in Object : t \in ToSet(suspend_thread[o]) => stat[t] = "SUSPEND"
    BY WaitingSuspended DEF KernelInv
  <2>5. TickFrame  BY <1>0, <1>2, <2>4 DEF TickFrame, schedVars
  <2> QED  BY <2>3, <2>5
<1>3. CASE remaining_tick' = [remaining_tick EXCEPT ![me] = TimeSlice]
           /\ rt_schedule(stat, ready, yield \union {me})
  <2>1. /\ Current(stat', rt_current_thread') /\ Queued(stat', ready', current_priority')
        /\ Waiting(stat', suspend_thread') /\ TimersOf(stat', timer_list')
        /\ Wakeable(stat', timer_list', suspend_thread')
        /\ yield' \in SUBSET Thread /\ lowered' = FALSE
        /\ HighestIn(stat', rt_current_thread')
        /\ \A t \in Thread : stat'[t] = "SUSPEND" <=> stat[t] = "SUSPEND"
    <3>1. yield \union {me} \in SUBSET Thread  BY <1>0 DEF KernelScalars
    <3> QED  BY <1>0, <1>3, <3>1, ScheduleKeeps
  <2>2. remaining_tick' \in [Thread -> 1..TimeSlice]
    BY <1>0, <1>3, ThreadAssumption DEF KernelScalars
  <2>3. KernelScalars'  BY <1>0, <1>1, <2>1, <2>2 DEF KernelScalars
  <2>4. KernelInv'  BY <2>1, <2>3 DEF KernelInv
  <2>5. \A t \in Thread, o \in Object : t \in ToSet(suspend_thread[o]) => stat[t] = "SUSPEND"
    BY WaitingSuspended DEF KernelInv
  <2>6. TickFrame  BY <1>0, <2>1, <2>5 DEF TickFrame
  <2> QED  BY <2>4, <2>6
<1> QED  BY <1>2, <1>3 DEF rt_tick_increase

LEMMA TimerCheckEndsKeeps == KernelInv /\ TimerCheckEnds => KernelInv' /\ TickFrame
<1> SUFFICES ASSUME KernelInv, TimerCheckEnds
             PROVE  KernelInv' /\ TickFrame
  OBVIOUS
<1>1. KernelInv'
  BY DEF TimerCheckEnds, KernelInv, KernelScalars, schedVars
<1>2. \A t \in Thread, o \in Object : t \in ToSet(suspend_thread[o]) => stat[t] = "SUSPEND"
  BY WaitingSuspended DEF KernelInv
<1> QED  BY <1>1, <1>2 DEF TimerCheckEnds, TickFrame, schedVars

\* The first timer of the list goes, and its thread is woken up.
LEMMA TimerExpiresKeeps == KernelInv /\ TimerExpires => KernelInv' /\ TickFrame
<1> SUFFICES ASSUME KernelInv, TimerExpires
             PROVE  KernelInv' /\ TickFrame
  OBVIOUS
<1> DEFINE t == Head(timer_list).thread
           th == ThreadsOf(timer_list)
           s1 == [stat EXCEPT ![t] = InsertStat(t)]
<1>0. /\ timer_list # <<>> /\ timer_list' = Tail(timer_list)
      /\ error' = [error EXCEPT ![t] = "RT_ETIMEOUT"]
      /\ suspend_thread' = [o \in Object |-> RemoveFirst(suspend_thread[o], t)]
      /\ rt_schedule(s1, InsertThread(t), yield)
      /\ UNCHANGED <<rt_tick, remaining_tick, current_priority, isr>>
  BY DEF TimerExpires, Expired
<1>1. /\ timer_list \in Seq(TimerRec) /\ IsInjective(th)
      /\ \A u \in ToSet(th) : stat[u] = "SUSPEND"
  BY DEF KernelInv, TimersOf
<1>2. /\ timer_list' = RemoveAt(timer_list, 1) /\ 1 \in 1..Len(timer_list)
      /\ timer_list[1] = Head(timer_list)
  BY <1>0, <1>1, TailIsRemoveAt
<1>3. /\ th \in Seq(Thread) /\ Len(th) = Len(timer_list)
      /\ th[1] = t
  BY <1>1, <1>2, ThreadsOfSeq
<1>4. timer_list' \in Seq(TimerRec) /\ ThreadsOf(timer_list') = RemoveAt(th, 1)
  BY <1>1, <1>2, RemoveAtFacts, ThreadsOfRemove
<1>5. ToSet(RemoveAt(th, 1)) = ToSet(th) \ {t} /\ IsInjective(RemoveAt(th, 1))
  <2>1. 1 \in 1..Len(th)  BY <1>2, <1>3
  <2> HIDE DEF th, t
  <2> QED  BY <1>1, <1>3, <2>1, RemoveAtKeeps, SMTT(30)
<1>6. t \in Thread /\ t \in ToSet(th) /\ stat[t] = "SUSPEND"
  <2>1. 1 \in DOMAIN th  BY <1>2, <1>3, LenProperties
  <2>2. t \in ToSet(th)  BY <1>3, <2>1 DEF ToSet
  <2>3. t \in Thread  BY <1>2, <1>3, ElementOfSeq
  <2> QED  BY <1>1, <2>2, <2>3
<1>7. stat \in [Thread -> Stat] /\ KernelScalars /\ Waiting(stat, suspend_thread)
  BY DEF KernelInv, Current
<1> HIDE DEF t, th
<1>8. Queued(s1, InsertThread(t), current_priority) /\ Current(s1, rt_current_thread)
  BY <1>6, InsertThreadQueued
<1>9. \A u \in Thread : s1[u] = "SUSPEND" <=> stat[u] = "SUSPEND" /\ u # t
  BY <1>6, <1>7 DEF InsertStat
<1>10. /\ Waiting(s1, suspend_thread')
       /\ \A o \in Object : ToSet(suspend_thread'[o]) = ToSet(suspend_thread[o]) \ {t}
  BY <1>0, <1>6, <1>7, LeftLists
<1>11. TimersOf(s1, timer_list')
  <2>1. \A u \in ToSet(th) : u \in Thread
    BY <1>3, LenProperties, ElementOfSeq DEF ToSet
  <2> QED  BY <1>1, <1>4, <1>5, <1>9, <2>1 DEF TimersOf
<1>12. Wakeable(s1, timer_list', suspend_thread')
  BY <1>4, <1>5, <1>9, <1>10 DEF Wakeable, KernelInv, th
<1> HIDE DEF s1
<1>13. /\ Queued(stat', ready', current_priority)
       /\ Current(stat', rt_current_thread') /\ stat'[rt_current_thread'] = "RUNNING"
       /\ \A u \in Thread : stat'[u] = "SUSPEND" <=> s1[u] = "SUSPEND"
       /\ yield' \in SUBSET Thread /\ lowered' = FALSE
       /\ \A u \in Thread : stat'[u] = "READY" =>
             current_priority[rt_current_thread'] <= current_priority[u]
  <2>1. yield \in SUBSET Thread /\ current_priority \in [Thread -> Prio]
    BY <1>7 DEF KernelScalars
  <2> QED  BY <1>0, <1>8, <2>1, ScheduleFacts
<1>14. /\ Waiting(stat', suspend_thread') /\ TimersOf(stat', timer_list')
       /\ Wakeable(stat', timer_list', suspend_thread')
  BY <1>10, <1>11, <1>12, <1>13, SameSuspended
<1>15. KernelScalars'
  BY <1>0, <1>6, <1>7, <1>13 DEF KernelScalars
<1>16. KernelInv'
  BY <1>0, <1>13, <1>14, <1>15 DEF KernelInv
<1>17. TickFrame
  <2>1. HighestIn(stat', rt_current_thread')  BY <1>13 DEF HighestIn
  <2>2. \A u \in Thread : stat'[u] = "SUSPEND" <=> stat[u] = "SUSPEND" /\ u # t
    BY <1>9, <1>13
  <2>3. \A u \in Thread : error'[u] = IF u = t THEN "RT_ETIMEOUT" ELSE error[u]
    BY <1>0, <1>6, <1>7 DEF KernelScalars
  <2>4. \A u \in Thread, o \in Object : u \in ToSet(suspend_thread[o]) => stat[u] = "SUSPEND"
    BY <1>7, WaitingSuspended
  <2>5. ASSUME NEW u \in Thread
        PROVE  /\ stat'[u] = "SUSPEND" => stat[u] = "SUSPEND"
               /\ IF stat[u] = "SUSPEND" /\ stat'[u] # "SUSPEND"
                  THEN error'[u] = "RT_ETIMEOUT" ELSE error'[u] = error[u]
               /\ \A o \in Object : u \in ToSet(suspend_thread'[o])
                                       <=> u \in ToSet(suspend_thread[o]) /\ stat'[u] = "SUSPEND"
    BY <1>6, <1>10, <2>2, <2>3, <2>4
  <2>6. ASSUME NEW o \in Object
        PROVE  \/ suspend_thread'[o] = suspend_thread[o]
               \/ \E i \in 1..Len(suspend_thread[o]) :
                     suspend_thread'[o] = RemoveAt(suspend_thread[o], i)
    <3>1. suspend_thread[o] \in Seq(Thread) /\ IsInjective(suspend_thread[o])
      BY <1>7 DEF Waiting
    <3>2. suspend_thread'[o] = RemoveFirst(suspend_thread[o], t)  BY <1>0
    <3> QED  BY <3>1, <3>2, RemoveFirstKeeps
  <2> QED  BY <1>0, <1>13, <2>1, <2>5, <2>6 DEF TickFrame
<1> QED  BY <1>16, <1>17

LEMMA SysTickKeeps == KernelInv /\ SysTick => KernelInv' /\ TickFrame
  BY TickIncreaseKeeps, TimerExpiresKeeps, TimerCheckEndsKeeps DEF SysTick

-----------------------------------------------------------------------------
(* What the calls of the threads are made of.                              *)

\* RT_THREAD_CTRL_CHANGE_PRIORITY of any thread keeps the ready table right.
LEMMA RequeueQueued ==
    ASSUME NEW st, NEW rd, NEW cp, Queued(st, rd, cp), st \in [Thread -> Stat],
           cp \in [Thread -> Prio], NEW u \in Thread, NEW p \in Prio, NEW yielded
    PROVE  Queued(st, IF st[u] = "READY" THEN Enqueue(Dequeue(rd, u), u, p, yielded) ELSE rd,
                  [cp EXCEPT ![u] = p])
<1>1. CASE st[u] # "READY"
  BY <1>1, QueuedPrio
<1>2. CASE st[u] = "READY"
  <2> DEFINE s1 == [st EXCEPT ![u] = "SUSPEND"]
             r1 == Dequeue(rd, u)
             c1 == [cp EXCEPT ![u] = p]
  <2>1. Queued(s1, r1, cp)  BY DequeueQueued
  <2>2. s1 \in [Thread -> Stat] /\ s1[u] = "SUSPEND"  BY DEF Stat
  <2>3. c1 \in [Thread -> Prio] /\ c1[u] = p  OBVIOUS
  <2>4. [s1 EXCEPT ![u] = "READY"] = st  BY <1>2
  <2> HIDE DEF s1, r1
  <2>5. Queued(s1, r1, c1)  BY <2>1, <2>2, QueuedPrio
  <2> HIDE DEF c1
  <2>6. Queued([s1 EXCEPT ![u] = "READY"], Enqueue(r1, u, c1[u], yielded), c1)
    BY <2>2, <2>3, <2>5, EnqueueQueued
  <2>7. Queued(st, Enqueue(r1, u, p, yielded), c1)  BY <2>3, <2>4, <2>6
  <2> QED  BY <2>7, <1>2 DEF r1, c1
<1> QED  BY <1>1, <1>2

\* The current thread suspends itself.
LEMMA SuspendFacts ==
    ASSUME KernelInv, NEW t \in Thread, t = rt_current_thread, t # Idle, stat[t] # "SUSPEND",
           NEW timeout \in Int, SuspendSelf(t, timeout)
    PROVE  /\ stat' = [stat EXCEPT ![t] = "SUSPEND"]
           /\ Current(stat', rt_current_thread)
           /\ Queued(stat', ready, current_priority)
           /\ TimersOf(stat', timer_list')
           /\ ToSet(ThreadsOf(timer_list')) = IF timeout > 0 THEN ToSet(ThreadsOf(timer_list)) \union {t}
                                              ELSE ToSet(ThreadsOf(timer_list)) \ {t}
           /\ error' = [error EXCEPT ![t] = "RT_EOK"]
           /\ \A o \in Object : t \notin ToSet(suspend_thread[o])
<1>0. /\ stat \in [Thread -> Stat] /\ Queued(stat, ready, current_priority) /\ rt_tick \in Int
      /\ Current(stat, rt_current_thread) /\ Waiting(stat, suspend_thread)
  BY DEF KernelInv, KernelScalars, Current
<1>1. stat' = [stat EXCEPT ![t] = "SUSPEND"] /\ error' = [error EXCEPT ![t] = "RT_EOK"]
  BY DEF SuspendSelf
<1>2. stat[t] # "READY"  BY <1>0 DEF Current
<1>3. Current(stat', rt_current_thread)
  BY <1>0, <1>1, ThreadAssumption DEF Current, Stat
<1>4. Queued(stat', ready, current_priority)
  BY <1>0, <1>1, <1>2, QueuedStat
<1>5. /\ timer_list \in Seq(TimerRec) /\ IsInjective(ThreadsOf(timer_list))
      /\ \A u \in ToSet(ThreadsOf(timer_list)) : stat[u] = "SUSPEND"
  BY DEF KernelInv, TimersOf
<1>6. /\ timer_list' \in Seq(TimerRec) /\ IsInjective(ThreadsOf(timer_list'))
      /\ ToSet(ThreadsOf(timer_list')) = IF timeout > 0 THEN ToSet(ThreadsOf(timer_list)) \union {t}
                                         ELSE ToSet(ThreadsOf(timer_list)) \ {t}
  <2>1. CASE timeout > 0
    <3>1. timer_list' = StartTimer(timer_list, t, timeout)  BY <2>1 DEF SuspendSelf
    <3> QED  BY <3>1, <2>1, <1>0, <1>5, StartTimerKeeps
  <2>2. CASE ~ (timeout > 0)
    <3>1. timer_list' = StopTimer(timer_list, t)  BY <2>2 DEF SuspendSelf
    <3> QED  BY <3>1, <2>2, <1>5, StopTimerKeeps
  <2> QED  BY <2>1, <2>2
<1>7. \A u \in ToSet(ThreadsOf(timer_list)) : u \in Thread
  BY <1>5, ThreadsOfSeq, LenProperties, ElementOfSeq DEF ToSet
<1>8. TimersOf(stat', timer_list')
  <2>1. \A u \in ToSet(ThreadsOf(timer_list')) : u \in Thread /\ stat'[u] = "SUSPEND"
    BY <1>0, <1>1, <1>5, <1>6, <1>7
  <2> QED  BY <1>6, <2>1 DEF TimersOf
<1>9. \A o \in Object : t \notin ToSet(suspend_thread[o])
  BY <1>0, WaitingSuspended
<1> QED  BY <1>1, <1>3, <1>4, <1>6, <1>8, <1>9

\* The thread that suspends itself joins a list.
LEMMA JoinList ==
    ASSUME KernelInv, NEW t \in Thread, stat' = [stat EXCEPT ![t] = "SUSPEND"],
           \A o \in Object : t \notin ToSet(suspend_thread[o]),
           NEW o \in Object, NEW r \in Seq(Thread), IsInjective(r),
           ToSet(r) = ToSet(suspend_thread[o]) \union {t},
           suspend_thread' = [suspend_thread EXCEPT ![o] = r]
    PROVE  /\ Waiting(stat', suspend_thread')
           /\ \A q \in Object : ToSet(suspend_thread'[q]) = IF q = o THEN ToSet(suspend_thread[q]) \union {t}
                                                            ELSE ToSet(suspend_thread[q])
<1>0. stat \in [Thread -> Stat] /\ Waiting(stat, suspend_thread)  BY DEF KernelInv, Current
<1>1. \A q \in Object : suspend_thread'[q] = IF q = o THEN r ELSE suspend_thread[q]
  BY <1>0 DEF Waiting
<1>2. suspend_thread' \in [Object -> Seq(Thread)]  BY <1>0 DEF Waiting
<1>3. \A q \in Object : ToSet(suspend_thread'[q]) = IF q = o THEN ToSet(suspend_thread[q]) \union {t}
                                                    ELSE ToSet(suspend_thread[q])
  <2> TAKE q \in Object
  <2>1. CASE q = o
    <3>1. suspend_thread'[q] = r  BY <1>1, <2>1
    <3> QED  BY <3>1, <2>1
  <2>2. CASE q # o
    <3>1. suspend_thread'[q] = suspend_thread[q]  BY <1>1, <2>2
    <3> QED  BY <3>1, <2>2
  <2> QED  BY <2>1, <2>2
<1>4. \A q \in Object : \A u \in ToSet(suspend_thread[q]) :
         u \in Thread /\ stat[u] = "SUSPEND" /\ \A q2 \in Object \ {q} : u \notin ToSet(suspend_thread[q2])
  BY <1>0, WaitingSuspended
<1>5. \A q \in Object : IsInjective(suspend_thread'[q])  BY <1>0, <1>1 DEF Waiting
<1>6. ASSUME NEW q \in Object, NEW u \in ToSet(suspend_thread'[q])
      PROVE  stat'[u] = "SUSPEND" /\ \A q2 \in Object \ {q} : u \notin ToSet(suspend_thread'[q2])
  <2>1. CASE u = t
    <3>1. q = o  BY <1>3, <2>1, <1>6
    <3>2. stat'[u] = "SUSPEND"  BY <2>1, <1>0
    <3> QED  BY <3>1, <3>2, <2>1, <1>3
  <2>2. CASE u # t
    <3>1. u \in ToSet(suspend_thread[q])  BY <1>3, <1>6, <2>2
    <3> QED  BY <3>1, <2>2, <1>0, <1>3, <1>4
  <2> QED  BY <2>1, <2>2
<1>7. Waiting(stat', suspend_thread')  BY <1>2, <1>5, <1>6 DEF Waiting
<1> QED  BY <1>3, <1>7

\* _ipc_list_suspend with RT_IPC_FLAG_PRIO: behind those of the same or a higher
\* priority.
LEMMA InsertByPriorityFacts ==
    ASSUME NEW list \in Seq(Thread), NEW t \in Thread
    PROVE  \E i \in 1..(Len(list) + 1) :
              /\ InsertByPriority(list, t) = InsertAt(list, i, t)
              /\ \A j \in 1..(i - 1) : ~ (current_priority[t] < current_priority[list[j]])
              /\ i <= Len(list) => current_priority[t] < current_priority[list[i]]
<1> DEFINE I == {j \in 1..Len(list) : current_priority[t] < current_priority[list[j]]}
           lower == SelectInSeq(list, LAMBDA u : current_priority[t] < current_priority[u])
<1>0. Len(list) \in Nat  BY LenProperties
<1>1. lower = IF I # {} THEN Min(I) ELSE 0  BY DEF SelectInSeq
<1>2. CASE I = {}
  <2>1. lower = 0  BY <1>1, <1>2
  <2>2. InsertByPriority(list, t) = Append(list, t)  BY <2>1 DEF InsertByPriority
  <2>3. InsertByPriority(list, t) = InsertAt(list, Len(list) + 1, t)  BY <2>2, InsertAtEnd
  <2>4. \A j \in 1..((Len(list) + 1) - 1) : ~ (current_priority[t] < current_priority[list[j]])
    BY <1>0, <1>2
  <2>5. ~ (Len(list) + 1 <= Len(list)) /\ Len(list) + 1 \in 1..(Len(list) + 1)  BY <1>0
  <2> QED  BY <2>3, <2>4, <2>5
<1>3. CASE I # {}
  <2>1. lower = Min(I)  BY <1>1, <1>3
  <2>2. I \in SUBSET Nat  BY <1>0
  <2>3. Min(I) \in I /\ \A y \in I : Min(I) <= y  BY <1>3, <2>2, LeastNatural
  <2>4. lower # 0 /\ lower \in 1..(Len(list) + 1)  BY <1>0, <2>1, <2>3
  <2>5. InsertByPriority(list, t) = InsertAt(list, lower, t)  BY <2>4 DEF InsertByPriority
  <2>6. \A j \in 1..(lower - 1) : ~ (current_priority[t] < current_priority[list[j]])
    <3> SUFFICES ASSUME NEW j \in 1..(lower - 1), current_priority[t] < current_priority[list[j]]
                 PROVE  FALSE
      OBVIOUS
    <3>1. j \in Int /\ lower \in Int /\ j < lower /\ j \in 1..Len(list)
      BY <1>0, <2>1, <2>3
    <3>2. j \in I  BY <3>1
    <3>3. lower <= j  BY <3>2, <2>1, <2>3
    <3> QED  BY <3>1, <3>3
  <2>7. current_priority[t] < current_priority[list[lower]]  BY <2>1, <2>3
  <2> QED  BY <2>4, <2>5, <2>6, <2>7
<1> QED  BY <1>2, <1>3

\* rt_thread_resume of a suspended thread.
LEMMA ResumeFacts ==
    ASSUME KernelInv, NEW w \in Thread, stat[w] = "SUSPEND", rt_thread_resume(w)
    PROVE  /\ stat' = [stat EXCEPT ![w] = InsertStat(w)]
           /\ Current(stat', rt_current_thread)
           /\ Queued(stat', ready', current_priority)
           /\ Waiting(stat', suspend_thread') /\ TimersOf(stat', timer_list')
           /\ Wakeable(stat', timer_list', suspend_thread')
           /\ \A u \in Thread : stat'[u] = "SUSPEND" <=> stat[u] = "SUSPEND" /\ u # w
           /\ \A o \in Object : ToSet(suspend_thread'[o]) = ToSet(suspend_thread[o]) \ {w}
<1>0. /\ stat \in [Thread -> Stat] /\ Waiting(stat, suspend_thread)
      /\ timer_list \in Seq(TimerRec) /\ IsInjective(ThreadsOf(timer_list))
      /\ \A u \in ToSet(ThreadsOf(timer_list)) : stat[u] = "SUSPEND"
      /\ Wakeable(stat, timer_list, suspend_thread)
  BY DEF KernelInv, Current, TimersOf
<1>1. /\ stat' = [stat EXCEPT ![w] = InsertStat(w)] /\ ready' = InsertThread(w)
      /\ suspend_thread' = [o \in Object |-> RemoveFirst(suspend_thread[o], w)]
      /\ timer_list' = StopTimer(timer_list, w)
  BY DEF rt_thread_resume
<1>2. Queued(stat', ready', current_priority) /\ Current(stat', rt_current_thread)
  BY <1>1, InsertThreadQueued
<1>3. \A u \in Thread : stat'[u] = "SUSPEND" <=> stat[u] = "SUSPEND" /\ u # w
  BY <1>0, <1>1 DEF InsertStat
<1>4. /\ Waiting(stat', suspend_thread')
      /\ \A o \in Object : ToSet(suspend_thread'[o]) = ToSet(suspend_thread[o]) \ {w}
  BY <1>0, <1>1, LeftLists
<1>5. /\ timer_list' \in Seq(TimerRec) /\ IsInjective(ThreadsOf(timer_list'))
      /\ ToSet(ThreadsOf(timer_list')) = ToSet(ThreadsOf(timer_list)) \ {w}
  BY <1>0, <1>1, StopTimerKeeps
<1>6. \A u \in ToSet(ThreadsOf(timer_list)) : u \in Thread
  BY <1>0, ThreadsOfSeq, LenProperties, ElementOfSeq DEF ToSet
<1>7. TimersOf(stat', timer_list')
  BY <1>0, <1>3, <1>5, <1>6 DEF TimersOf
<1>8. Wakeable(stat', timer_list', suspend_thread')
  BY <1>0, <1>3, <1>4, <1>5 DEF Wakeable
<1> QED  BY <1>1, <1>2, <1>3, <1>4, <1>7, <1>8

\* rt_schedule called by a thread, rt_thread_yield and rt_thread_sleep.
LEMMA CallScheduleKeeps ==
    ASSUME KernelInv, NEW t \in Thread, CallSchedule(t) \/ rt_thread_yield(t)
    PROVE  /\ KernelInv' /\ HighestIn(stat', rt_current_thread') /\ lowered' = FALSE
           /\ \A u \in Thread : stat'[u] = "SUSPEND" <=> stat[u] = "SUSPEND"
<1>0. KernelScalars  BY DEF KernelInv
<1>1. /\ UNCHANGED <<rt_tick, current_priority, timer_list, suspend_thread, error, isr>>
      /\ remaining_tick' \in [Thread -> 1..TimeSlice]
      /\ \E y \in SUBSET Thread : rt_schedule(stat, ready, y)
  <2>1. CASE CallSchedule(t)
    BY <1>0, <2>1 DEF CallSchedule, KernelScalars
  <2>2. CASE rt_thread_yield(t)
    <3>1. yield \union {t} \in SUBSET Thread  BY <1>0 DEF KernelScalars
    <3>2. remaining_tick' \in [Thread -> 1..TimeSlice]
      BY <1>0, <2>2, ThreadAssumption DEF rt_thread_yield, KernelScalars
    <3> QED  BY <2>2, <3>1, <3>2 DEF rt_thread_yield
  <2> QED  BY <2>1, <2>2
<1>2. PICK y \in SUBSET Thread : rt_schedule(stat, ready, y)  BY <1>1
<1>3. /\ Current(stat', rt_current_thread') /\ Queued(stat', ready', current_priority')
      /\ Waiting(stat', suspend_thread') /\ TimersOf(stat', timer_list')
      /\ Wakeable(stat', timer_list', suspend_thread')
      /\ yield' \in SUBSET Thread /\ lowered' = FALSE
      /\ HighestIn(stat', rt_current_thread')
      /\ \A u \in Thread : stat'[u] = "SUSPEND" <=> stat[u] = "SUSPEND"
  BY <1>1, <1>2, ScheduleKeeps
<1>4. KernelScalars'  BY <1>0, <1>1, <1>3 DEF KernelScalars
<1> QED  BY <1>3, <1>4 DEF KernelInv

LEMMA SleepKeeps ==
    ASSUME KernelInv, NEW t \in Thread, t # Idle, stat[t] # "SUSPEND",
           NEW delay \in Timeout, Sleep(t, delay)
    PROVE  KernelInv' /\ stat' = [stat EXCEPT ![t] = "SUSPEND"]
           /\ error' = [error EXCEPT ![t] = "RT_EOK"]
<1>0. /\ t = rt_current_thread /\ delay \in Int /\ delay > 0 /\ SuspendSelf(t, delay)
      /\ UNCHANGED <<rt_tick, rt_current_thread, yield, ready, lowered, remaining_tick,
                     current_priority, suspend_thread, isr>>
  BY ThreadAssumption DEF Sleep, Executes
<1>1. KernelScalars /\ stat \in [Thread -> Stat] /\ Waiting(stat, suspend_thread)
      /\ Wakeable(stat, timer_list, suspend_thread)
  BY DEF KernelInv, Current
<1>2. /\ stat' = [stat EXCEPT ![t] = "SUSPEND"]
      /\ Current(stat', rt_current_thread)
      /\ Queued(stat', ready, current_priority)
      /\ TimersOf(stat', timer_list')
      /\ ToSet(ThreadsOf(timer_list')) = ToSet(ThreadsOf(timer_list)) \union {t}
      /\ error' = [error EXCEPT ![t] = "RT_EOK"]
      /\ \A o \in Object : t \notin ToSet(suspend_thread[o])
  BY <1>0, SuspendFacts
<1>3. KernelScalars'  BY <1>0, <1>1, <1>2 DEF KernelScalars
<1>4. Waiting(stat', suspend_thread)
  <2>1. \A o \in Object : \A u \in ToSet(suspend_thread[o]) : u \in Thread
    BY <1>1, WaitingSuspended
  <2> QED  BY <1>1, <1>2, <2>1 DEF Waiting
<1>5. Wakeable(stat', timer_list', suspend_thread)
  BY <1>1, <1>2 DEF Wakeable
<1> QED  BY <1>0, <1>2, <1>3, <1>4, <1>5 DEF KernelInv
\* A step that leaves the kernel alone.
LEMMA KernelSame ==
    ASSUME KernelInv, UNCHANGED kernelVars
    PROVE  KernelInv' /\ (HighestIn(stat, rt_current_thread))' = HighestIn(stat, rt_current_thread)
<1>1. /\ UNCHANGED <<rt_tick, rt_current_thread, stat, yield, ready, lowered, remaining_tick>>
      /\ UNCHANGED <<current_priority, timer_list, suspend_thread, error, isr>>
  BY DEF kernelVars, schedVars
<1>2. KernelInv'  BY <1>1 DEF KernelInv, KernelScalars
<1> QED  BY <1>1, <1>2 DEF HighestIn

-----------------------------------------------------------------------------
(* Ticks.                                                                  *)

\* The remainder of a sum in normal form.
LEMMA ModUnique ==
    ASSUME NEW M \in Nat \ {0}, NEW q \in Int, NEW r \in 0..(M - 1), NEW x, x = M * q + r
    PROVE  x % M = r
  OBVIOUS

\* Numbers less than a turn away from the range of the counter.
LEMMA ModNear ==
    ASSUME NEW M \in Nat \ {0}, NEW x \in Int
    PROVE  /\ x \in 0..(M - 1) => x % M = x
           /\ x \in M..(2 * M - 1) => x % M = x - M
           /\ x \in (0 - M)..(-1) => x % M = x + M
<1>1. ASSUME x \in 0..(M - 1)  PROVE x % M = x
  <2>1. x = M * 0 + x  OBVIOUS
  <2> QED  BY <2>1, <1>1, ModUnique
<1>2. ASSUME x \in M..(2 * M - 1)  PROVE x % M = x - M
  <2>1. x = M * 1 + (x - M) /\ x - M \in 0..(M - 1) BY <1>2
  <2> QED  BY <2>1, ModUnique
<1>3. ASSUME x \in (0 - M)..(-1)  PROVE x % M = x + M
  <2>1. x = M * (-1) + (x + M) /\ x + M \in 0..(M - 1) BY <1>3
  <2> QED  BY <2>1, ModUnique
<1> QED  BY <1>1, <1>2, <1>3
\* The values of the tick counter.
Ticks == 0..(TickMod - 1)

\* The unsigned difference of two ticks.
LEMMA DiffIs ==
    ASSUME NEW a \in Ticks, NEW b \in Ticks
    PROVE  /\ Diff(a, b) = IF a >= b THEN a - b ELSE (a - b) + TickMod
           /\ Diff(a, b) \in Ticks
<1>1. CASE a >= b
  <2>1. a - b \in 0..(TickMod - 1)  BY <1>1, ThreadAssumption DEF Ticks
  <2>2. (a - b) % TickMod = a - b  BY <2>1, ThreadAssumption, ModNear
  <2> QED  BY <1>1, <2>1, <2>2 DEF Diff, Ticks
<1>2. CASE a < b
  <2>1. a - b \in (0 - TickMod)..(-1) /\ (a - b) + TickMod \in 0..(TickMod - 1)  BY <1>2, ThreadAssumption DEF Ticks
  <2>2. (a - b) % TickMod = (a - b) + TickMod  BY <2>1, ThreadAssumption, ModNear
  <2> QED  BY <1>2, <2>1, <2>2 DEF Diff, Ticks
<1> QED  BY <1>1, <1>2 DEF Ticks

\* The tick counter d ticks later.
LEMMA SumIs ==
    ASSUME NEW a \in Ticks, NEW d \in Ticks
    PROVE  /\ (a + d) % TickMod = IF a + d < TickMod THEN a + d ELSE (a + d) - TickMod
           /\ (a + d) % TickMod \in Ticks
<1>1. CASE a + d < TickMod
  <2>1. a + d \in 0..(TickMod - 1)  BY <1>1, ThreadAssumption DEF Ticks
  <2>2. (a + d) % TickMod = a + d  BY <2>1, ThreadAssumption, ModNear
  <2> QED  BY <1>1, <2>1, <2>2 DEF Ticks
<1>2. CASE ~(a + d < TickMod)
  <2>1. a + d \in TickMod..(2 * TickMod - 1) /\ (a + d) - TickMod \in 0..(TickMod - 1)  BY <1>2, ThreadAssumption DEF Ticks
  <2>2. (a + d) % TickMod = (a + d) - TickMod  BY <2>1, ThreadAssumption, ModNear
  <2> QED  BY <1>2, <2>1, <2>2 DEF Ticks
<1> QED  BY <1>1, <1>2

\* Half is less than half of a turn.
LEMMA HalfIs == Half \in Nat /\ Half >= 1 /\ Half \in Int /\ 2 * Half <= TickMod - 1 /\ 2 * Half >= TickMod - 2
  BY ThreadAssumption DEF Half

\* With every tick a timer comes one tick nearer.
LEMMA DiffAfterTick ==
    ASSUME NEW a \in Ticks, NEW now \in Ticks, Diff(a, now) >= 1
    PROVE Diff(a, (now + 1) % TickMod) = Diff(a, now) - 1
<1> DEFINE n1 == (now + 1) % TickMod
<1>0. TickMod > 1
   <2>1. Diff(a, now) \in Ticks  BY DiffIs
   <2> QED  BY <2>1, ThreadAssumption DEF Ticks
<1>1. /\ n1 = IF now + 1 < TickMod THEN now + 1 ELSE (now + 1) - TickMod
      /\ n1 \in Ticks
  <2>1. 1 \in Ticks  BY <1>0, ThreadAssumption DEF Ticks
  <2> QED  BY <2>1, SumIs
<1> HIDE DEF n1
<1>2. Diff(a, now) = IF a >= now THEN a - now ELSE (a - now) + TickMod  BY DiffIs
<1>3. Diff(a, n1) = IF a >= n1 THEN a - n1 ELSE (a - n1) + TickMod  BY <1>1, DiffIs
<1>4. Diff(a, n1) = Diff(a, now) - 1 BY <1>1, <1>2, <1>3, ThreadAssumption DEF Ticks
<1> QED  BY <1>4 DEF n1

\* A timer that is started now expires after its timeout; another timer expires
\* later if and only if rt_timer_start finds so.
LEMMA StartedAt ==
    ASSUME NEW now \in Ticks, NEW timeout \in 1..(Half - 1)
    PROVE  LET at == (now + timeout) % TickMod IN
           /\ at = IF now + timeout < TickMod THEN now + timeout ELSE (now + timeout) - TickMod
           /\ at \in Ticks /\ Diff(at, now) = timeout
<1> DEFINE at == (now + timeout) % TickMod
<1>0. Half \in Int /\ 2 * Half <= TickMod - 1  BY HalfIs
<1>1. at = (IF now + timeout < TickMod THEN now + timeout ELSE (now + timeout) - TickMod) /\ at \in Ticks
  <2>1. timeout \in Ticks  BY <1>0, ThreadAssumption DEF Ticks
  <2> QED  BY <2>1, SumIs
<1> HIDE DEF at
<1>2. Diff(at, now) = IF at >= now THEN at - now ELSE (at - now) + TickMod  BY <1>1, DiffIs
<1>3. Diff(at, now) = timeout  BY <1>0, <1>1, <1>2, ThreadAssumption DEF Ticks
<1> QED  BY <1>1, <1>3 DEF at

LEMMA ExpiresLater ==
    ASSUME NEW a \in Ticks, NEW now \in Ticks, NEW timeout \in 1..(Half - 1),
           Diff(a, now) \in 1..(Half - 1)
    PROVE  Diff(a, (now + timeout) % TickMod) \in 1..(Half - 1) <=> Diff(a, now) > timeout
<1> DEFINE at == (now + timeout) % TickMod
<1>0. Half \in Int /\ 2 * Half <= TickMod - 1  BY HalfIs
<1>1. at = (IF now + timeout < TickMod THEN now + timeout ELSE (now + timeout) - TickMod) /\ at \in Ticks
  BY StartedAt
<1> HIDE DEF at
<1>2. Diff(a, now) = IF a >= now THEN a - now ELSE (a - now) + TickMod  BY DiffIs
<1>3. Diff(a, at) = IF a >= at THEN a - at ELSE (a - at) + TickMod  BY <1>1, DiffIs
<1>4. Diff(a, at) \in 1..(Half - 1) <=> Diff(a, now) > timeout
  BY <1>0, <1>1, <1>2, <1>3, ThreadAssumption DEF Ticks
<1> QED  BY <1>4 DEF at

\* rt_timer_check finds a timer expired in its tick, and not before.
LEMMA DiffBack ==
    ASSUME NEW a \in Ticks, NEW now \in Ticks, Diff(a, now) \in 0..(Half - 1)
    PROVE  Diff(now, a) < Half <=> a = now
<1>0. Half \in Int /\ 2 * Half <= TickMod - 1  BY HalfIs
<1>2. Diff(a, now) = IF a >= now THEN a - now ELSE (a - now) + TickMod  BY DiffIs
<1>3. Diff(now, a) = IF now >= a THEN now - a ELSE (now - a) + TickMod  BY DiffIs
<1> QED  BY <1>0, <1>2, <1>3, ThreadAssumption DEF Ticks

-----------------------------------------------------------------------------
(* The list of timers across the wrap of the tick counter.                 *)

\* The timers of a list expire within Half ticks, least at the earliest, and in
\* the order of the list.
Due(list, now, least) ==
    \A j, k \in 1..Len(list) :
        /\ Diff(list[j].at, now) \in least..(Half - 1)
        /\ j <= k => Diff(list[j].at, now) <= Diff(list[k].at, now)

\* Inside the tick interrupt a timer may be due now.
OnTime == Due(timer_list, rt_tick, IF isr THEN 0 ELSE 1)

LEMMA RemoveAtDue ==
    ASSUME NEW list \in Seq(TimerRec), NEW now, NEW least, Due(list, now, least),
           NEW i \in 1..Len(list)
    PROVE  Due(RemoveAt(list, i), now, least)
<1> DEFINE r == RemoveAt(list, i)
<1>0. Len(list) \in Nat  BY LenProperties
<1>1. /\ Len(r) = Len(list) - 1
      /\ \A j \in 1..(Len(list) - 1) : r[j] = IF j < i THEN list[j] ELSE list[j + 1]
  BY RemoveAtFacts
<1> HIDE DEF r
<1>2. ASSUME NEW j \in 1..Len(r), NEW k \in 1..Len(r)
      PROVE  /\ Diff(r[j].at, now) \in least..(Half - 1)
             /\ j <= k => Diff(r[j].at, now) <= Diff(r[k].at, now)
  <2> DEFINE pj == IF j < i THEN j ELSE j + 1
             pk == IF k < i THEN k ELSE k + 1
  <2>1. pj \in 1..Len(list) /\ pk \in 1..Len(list) /\ (j <= k => pj <= pk)  BY <1>0, <1>1
  <2>2. r[j] = list[pj] /\ r[k] = list[pk]  BY <1>0, <1>1
  <2> HIDE DEF pj, pk
  <2> QED  BY <2>1, <2>2 DEF Due
<1> QED  BY <1>2 DEF Due, r

\* rt_timer_stop.
LEMMA StopTimerDue ==
    ASSUME NEW list \in Seq(TimerRec), IsInjective(ThreadsOf(list)), NEW t,
           NEW now, NEW least, Due(list, now, least)
    PROVE  Due(StopTimer(list, t), now, least)
<1>1. \/ StopTimer(list, t) = list
      \/ \E i \in 1..Len(list) : StopTimer(list, t) = RemoveAt(list, i)
  BY StopTimerKeeps
<1> QED  BY <1>1, RemoveAtDue

\* The members of a list of timers have a tick.
LEMMA TimerAt ==
    ASSUME NEW list \in Seq(TimerRec), NEW k \in 1..Len(list)
    PROVE  list[k].thread \in Thread /\ list[k].at \in Ticks
<1>1. list[k] \in TimerRec  BY ElementOfSeq
<1> QED  BY <1>1 DEF TimerRec, Ticks

\* rt_timer_start keeps the list in order.
LEMMA InsertTimerDue ==
    ASSUME NEW list \in Seq(TimerRec), NEW now \in Ticks, Due(list, now, 1),
           NEW t \in Thread, NEW timeout \in 1..(Half - 1)
    PROVE  Due(InsertTimer(list, [thread |-> t, at |-> (now + timeout) % TickMod]), now, 1)
<1> DEFINE tm == [thread |-> t, at |-> (now + timeout) % TickMod]
           r == InsertTimer(list, tm)
           d(j) == Diff(list[j].at, now)
<1>0. Len(list) \in Nat /\ Half \in Int  BY LenProperties, HalfIs
<1>1. tm.at \in Ticks /\ Diff(tm.at, now) = timeout /\ tm.at = (now + timeout) % TickMod  BY StartedAt
<1>2. tm \in TimerRec  BY <1>1 DEF TimerRec, Ticks
<1> HIDE DEF tm
<1>3. PICK i \in 1..(Len(list) + 1) :
              /\ r = InsertAt(list, i, tm)
              /\ \A j \in 1..(i - 1) : ~ (Diff(list[j].at, tm.at) \in 1..(Half - 1))
              /\ i <= Len(list) => Diff(list[i].at, tm.at) \in 1..(Half - 1)
  BY <1>2, InsertTimerFacts
<1>4. \A j \in 1..Len(list) : d(j) \in 1..(Half - 1)  BY DEF Due
<1>5. \A j, k \in 1..Len(list) : j <= k => d(j) <= d(k)  BY DEF Due
<1>6. \A j \in 1..Len(list) : Diff(list[j].at, tm.at) \in 1..(Half - 1) <=> d(j) > timeout
  <2> TAKE j \in 1..Len(list)
  <2>1. list[j].at \in Ticks  BY TimerAt
  <2> QED  BY <2>1, <1>1, <1>4, ExpiresLater
<1> HIDE DEF d
<1>7. \A j \in 1..Len(list) : d(j) \in 1..(Half - 1) /\ (j < i => d(j) <= timeout) /\ (j >= i => d(j) > timeout)
  <2> TAKE j \in 1..Len(list)
  <2>1. CASE j < i  BY <2>1, <1>0, <1>3, <1>4, <1>6
  <2>2. CASE j >= i
    <3>1. i \in 1..Len(list)  BY <2>2, <1>0
    <3>2. d(i) > timeout /\ d(i) <= d(j) /\ d(i) \in Int /\ d(j) \in Int
      BY <2>2, <3>1, <1>3, <1>4, <1>5, <1>6
    <3> QED  BY <2>2, <3>2, <1>0, <1>4
  <2> QED  BY <2>1, <2>2, <1>0
<1>8. /\ Len(r) = Len(list) + 1
      /\ \A j \in 1..(Len(list) + 1) :
            r[j] = IF j < i THEN list[j] ELSE IF j = i THEN tm ELSE list[j - 1]
  <2>1. Inserted(InsertAt(list, i, tm), list, i, tm)  BY <1>2, InsertAtFacts
  <2>2. r = InsertAt(list, i, tm)  BY <1>3
  <2> HIDE DEF r
  <2>3. Inserted(r, list, i, tm)  BY <2>1, <2>2
  <2> QED  BY <2>3 DEF Inserted
<1> HIDE DEF r
<1> DEFINE e(j) == IF j < i THEN d(j) ELSE IF j = i THEN timeout ELSE d(j - 1)
<1>9. \A j \in 1..Len(r) : Diff(r[j].at, now) = e(j)
  <2> TAKE j \in 1..Len(r)
  <2>0. j \in 1..(Len(list) + 1)  BY <1>8
  <2>1. CASE j < i  BY <2>0, <2>1, <1>8 DEF d
  <2>2. CASE j = i  BY <2>0, <2>2, <1>0, <1>1, <1>8
  <2>3. CASE j > i
    <3>1. ~ (j < i) /\ j # i  BY <2>0, <2>3, <1>0
    <3>2. r[j] = list[j - 1]  BY <2>0, <3>1, <1>8
    <3> QED  BY <3>1, <3>2 DEF d
  <2> QED  BY <2>0, <2>1, <2>2, <2>3, <1>0
<1>10. ASSUME NEW j \in 1..Len(r), NEW k \in 1..Len(r)
       PROVE  e(j) \in 1..(Half - 1) /\ (j <= k => e(j) <= e(k))
  <2>0. j \in 1..(Len(list) + 1) /\ k \in 1..(Len(list) + 1)  BY <1>8
  <2>1. ASSUME NEW x \in 1..(Len(list) + 1)
        PROVE  /\ x < i => x \in 1..Len(list)
               /\ x > i => x - 1 \in 1..Len(list) /\ x - 1 >= i
    BY <2>1, <1>0
  <2>2. e(j) \in 1..(Half - 1) /\ e(k) \in 1..(Half - 1)
    <3> SUFFICES ASSUME NEW x \in 1..(Len(list) + 1)
                 PROVE  e(x) \in 1..(Half - 1)
      BY <2>0
    <3>1. CASE x < i  BY <3>1, <2>1, <1>7
    <3>2. CASE x = i  BY <3>2, <1>0
    <3>3. CASE x > i
      <4>1. ~ (x < i) /\ x # i  BY <3>3, <1>0
      <4> QED  BY <3>3, <4>1, <2>1, <1>7
    <3> QED  BY <3>1, <3>2, <3>3, <1>0
  <2>3. ASSUME j <= k  PROVE e(j) <= e(k)
    <3>1. CASE k < i
      <4>1. j < i /\ j \in 1..Len(list) /\ k \in 1..Len(list)  BY <3>1, <2>0, <2>3, <1>0
      <4> QED  BY <4>1, <3>1, <2>3, <1>5
    <3>2. CASE k = i
      <4>1. CASE j < i
        <5>1. e(j) = d(j) /\ e(k) = timeout /\ d(j) <= timeout  BY <4>1, <3>2, <2>0, <2>1, <1>0, <1>7
        <5> QED  BY <5>1
      <4>2. CASE j = i  BY <4>2, <3>2, <1>0
      <4> QED  BY <4>1, <4>2, <3>2, <2>0, <2>3, <1>0
    <3>3. CASE k > i
      <4>0. /\ ~ (k < i) /\ k # i /\ k - 1 \in 1..Len(list) /\ k - 1 >= i /\ e(k) = d(k - 1)
            /\ d(k - 1) > timeout /\ d(k - 1) \in Int
        BY <3>3, <2>0, <2>1, <1>0, <1>7
      <4>1. CASE j < i
        <5>1. j \in 1..Len(list) /\ e(j) = d(j)  BY <4>1, <2>0, <2>1
        <5>2. d(j) <= timeout /\ d(j) \in Int  BY <4>1, <5>1, <1>7
        <5> QED  BY <4>0, <5>1, <5>2, <1>0
      <4>2. CASE j = i
        <5>1. e(j) = timeout  BY <4>2, <1>0
        <5> QED  BY <5>1, <4>0, <1>0
      <4>3. CASE j > i
        <5>1. ~ (j < i) /\ j # i /\ j - 1 \in 1..Len(list) /\ e(j) = d(j - 1)
          BY <4>3, <2>0, <2>1, <1>0
        <5>2. j - 1 <= k - 1  BY <2>0, <2>3, <1>0
        <5> QED  BY <4>0, <5>1, <5>2, <1>5
      <4> QED  BY <4>1, <4>2, <4>3, <2>0, <1>0
    <3> QED  BY <3>1, <3>2, <3>3, <2>0, <1>0
  <2> QED  BY <2>2, <2>3
<1> HIDE DEF e
<1> QED  BY <1>9, <1>10 DEF Due, r, tm

\* What a step of the system does to the timers: nothing, rt_timer_stop of some
\* thread, rt_timer_start of the current one, or a step of the tick interrupt.
TimerStep ==
    \/ UNCHANGED <<rt_tick, isr>> /\ UNCHANGED timer_list
    \/ UNCHANGED <<rt_tick, isr>> /\ \E t \in Thread : timer_list' = StopTimer(timer_list, t)
    \/ /\ UNCHANGED <<rt_tick, isr>> /\ ~ isr
       /\ \E t \in Thread, timeout \in 1..(Half - 1) : timer_list' = StartTimer(timer_list, t, timeout)
    \/ SysTick

\* rt_timer_check: the first timer has expired in its tick.
LEMMA ExpiredInTick ==
    ASSUME timer_list \in Seq(TimerRec), rt_tick \in Ticks, timer_list # <<>>,
           Due(timer_list, rt_tick, 0)
    PROVE  /\ Expired <=> timer_list[1].at = rt_tick
           /\ Expired <=> Diff(timer_list[1].at, rt_tick) = 0
<1>1. 1 \in 1..Len(timer_list) /\ timer_list[1] = Head(timer_list)  BY TailIsRemoveAt
<1>2. timer_list[1].at \in Ticks  BY <1>1, TimerAt
<1>3. Diff(timer_list[1].at, rt_tick) \in 0..(Half - 1)  BY <1>1 DEF Due
<1>4. Expired <=> Diff(rt_tick, timer_list[1].at) < Half  BY <1>1 DEF Expired
<1>5. Expired <=> timer_list[1].at = rt_tick  BY <1>2, <1>3, <1>4, DiffBack
<1>6. Diff(timer_list[1].at, rt_tick) = 0 <=> timer_list[1].at = rt_tick
  <2>1. Diff(timer_list[1].at, rt_tick) =
           IF timer_list[1].at >= rt_tick THEN timer_list[1].at - rt_tick
           ELSE (timer_list[1].at - rt_tick) + TickMod
    BY <1>2, DiffIs
  <2> QED  BY <2>1, <1>2, ThreadAssumption DEF Ticks
<1> QED  BY <1>5, <1>6

LEMMA TimerStepKeeps == KernelInv /\ OnTime /\ TimerStep => OnTime'
<1> SUFFICES ASSUME KernelInv, OnTime, TimerStep
             PROVE  OnTime'
  OBVIOUS
<1>0. /\ timer_list \in Seq(TimerRec) /\ IsInjective(ThreadsOf(timer_list))
      /\ rt_tick \in Ticks /\ isr \in BOOLEAN
  BY DEF KernelInv, TimersOf, KernelScalars, Ticks
<1>1. CASE UNCHANGED <<rt_tick, isr>> /\ UNCHANGED timer_list
  BY <1>1 DEF OnTime
<1>2. ASSUME UNCHANGED <<rt_tick, isr>>, NEW t \in Thread, timer_list' = StopTimer(timer_list, t)
      PROVE  OnTime'
  <2>1. Due(timer_list', rt_tick, IF isr THEN 0 ELSE 1)
    BY <1>0, <1>2, StopTimerDue DEF OnTime
  <2> QED  BY <2>1, <1>2 DEF OnTime
<1>3. ASSUME UNCHANGED <<rt_tick, isr>>, ~ isr, NEW t \in Thread, NEW timeout \in 1..(Half - 1),
             timer_list' = StartTimer(timer_list, t, timeout)
      PROVE  OnTime'
  <2> DEFINE l == StopTimer(timer_list, t)
  <2>1. l \in Seq(TimerRec)  BY <1>0, StopTimerKeeps
  <2>2. Due(l, rt_tick, 1)  BY <1>0, <1>3, StopTimerDue DEF OnTime
  <2> HIDE DEF l
  <2>3. Due(InsertTimer(l, [thread |-> t, at |-> (rt_tick + timeout) % TickMod]), rt_tick, 1)
    BY <2>1, <2>2, <1>0, InsertTimerDue
  <2>4. Due(timer_list', rt_tick, 1)  BY <2>3, <1>3 DEF StartTimer, l
  <2> QED  BY <2>4, <1>3 DEF OnTime
<1>4. CASE rt_tick_increase
  <2>1. ~ isr /\ rt_tick' = (rt_tick + 1) % TickMod /\ isr' = TRUE /\ timer_list' = timer_list
    BY <1>4 DEF rt_tick_increase
  <2>2. Due(timer_list, rt_tick, 1)  BY <2>1 DEF OnTime
  <2>3. Half \in Int  BY HalfIs
  <2>4. ASSUME NEW j \in 1..Len(timer_list)
        PROVE  /\ Diff(timer_list[j].at, rt_tick') = Diff(timer_list[j].at, rt_tick) - 1
               /\ Diff(timer_list[j].at, rt_tick) \in 1..(Half - 1)
    <3>1. timer_list[j].at \in Ticks  BY <1>0, TimerAt
    <3>2. Diff(timer_list[j].at, rt_tick) \in 1..(Half - 1)  BY <2>2 DEF Due
    <3> QED  BY <3>1, <3>2, <2>1, <2>3, <1>0, DiffAfterTick
  <2>5. ASSUME NEW j \in 1..Len(timer_list), NEW k \in 1..Len(timer_list)
        PROVE  /\ Diff(timer_list[j].at, rt_tick') \in 0..(Half - 1)
               /\ j <= k => Diff(timer_list[j].at, rt_tick') <= Diff(timer_list[k].at, rt_tick')
    <3>1. j <= k => Diff(timer_list[j].at, rt_tick) <= Diff(timer_list[k].at, rt_tick)
      BY <2>2 DEF Due
    <3> QED  BY <3>1, <2>3, <2>4
  <2>6. Due(timer_list, rt_tick', 0)  BY <2>5 DEF Due
  <2> QED  BY <2>1, <2>6 DEF OnTime
<1>5. CASE TimerExpires
  <2>1. /\ isr /\ timer_list # <<>> /\ timer_list' = Tail(timer_list) /\ UNCHANGED <<rt_tick, isr>>
    BY <1>5 DEF TimerExpires, Expired
  <2>2. timer_list' = RemoveAt(timer_list, 1) /\ 1 \in 1..Len(timer_list)
    BY <1>0, <2>1, TailIsRemoveAt
  <2>3. Due(timer_list', rt_tick, 0)  BY <1>0, <2>1, <2>2, RemoveAtDue DEF OnTime
  <2> QED  BY <2>1, <2>3 DEF OnTime
<1>6. CASE TimerCheckEnds
  <2>1. isr /\ ~ Expired /\ isr' = FALSE /\ UNCHANGED <<rt_tick, timer_list>>
    BY <1>6 DEF TimerCheckEnds
  <2>2. Due(timer_list, rt_tick, 0)  BY <2>1 DEF OnTime
  <2>3. ASSUME NEW j \in 1..Len(timer_list)
        PROVE  Diff(timer_list[j].at, rt_tick) \in 1..(Half - 1)
    <3>1. Len(timer_list) \in Nat /\ Half \in Int  BY <1>0, LenProperties, HalfIs
    <3>2. timer_list # <<>> /\ 1 \in 1..Len(timer_list) /\ 1 <= j  BY <3>1, <1>0, EmptySeq
    <3>3. Diff(timer_list[1].at, rt_tick) # 0  BY <1>0, <2>1, <2>2, <3>2, ExpiredInTick
    <3>4. /\ Diff(timer_list[1].at, rt_tick) \in 0..(Half - 1)
          /\ Diff(timer_list[j].at, rt_tick) \in 0..(Half - 1)
          /\ Diff(timer_list[1].at, rt_tick) <= Diff(timer_list[j].at, rt_tick)
      BY <2>2, <3>2 DEF Due
    <3> QED  BY <3>1, <3>3, <3>4
  <2>4. Due(timer_list, rt_tick, 1)  BY <2>2, <2>3 DEF Due
  <2> QED  BY <2>1, <2>4 DEF OnTime
<1> QED  BY <1>1, <1>2, <1>3, <1>4, <1>5, <1>6 DEF TimerStep, SysTick

LEMMA OnTimeImplies == KernelInv /\ OnTime => TimersOnTime
<1> SUFFICES ASSUME KernelInv, OnTime, ~ isr,
                    NEW j \in DOMAIN timer_list, NEW k \in DOMAIN timer_list
             PROVE  /\ Diff(timer_list[j].at, rt_tick) \in 1..(Half - 1)
                    /\ j <= k => Diff(timer_list[j].at, rt_tick) <= Diff(timer_list[k].at, rt_tick)
  BY DEF TimersOnTime
<1>1. j \in 1..Len(timer_list) /\ k \in 1..Len(timer_list)
  BY LenProperties DEF KernelInv, TimersOf
<1> QED  BY <1>1 DEF OnTime, Due

\* What a step of the system does to thread->error: only a timer that expires
\* sets it.
ErrorStep ==
    \/ TimerExpires
    \/ \A t \in Thread : error'[t] \in {error[t], "RT_EOK"}

\* The body of NeverEarly.
LEMMA NotEarly ==
    ASSUME KernelInv, OnTime, ErrorStep, NEW t \in Thread,
           error[t] = "RT_EOK", error'[t] = "RT_ETIMEOUT"
    PROVE  \E k \in DOMAIN timer_list : timer_list[k] = [thread |-> t, at |-> rt_tick]
<1>0. timer_list \in Seq(TimerRec) /\ rt_tick \in Ticks /\ error \in [Thread -> {"RT_EOK", "RT_ETIMEOUT"}]
  BY DEF KernelInv, TimersOf, KernelScalars, Ticks
<1>1. TimerExpires  BY DEF ErrorStep
<1>2. /\ timer_list # <<>> /\ Expired /\ isr
      /\ error' = [error EXCEPT ![Head(timer_list).thread] = "RT_ETIMEOUT"]
  BY <1>1 DEF TimerExpires, Expired
<1>3. Head(timer_list).thread = t  BY <1>0, <1>2
<1>4. 1 \in 1..Len(timer_list) /\ timer_list[1] = Head(timer_list)  BY <1>0, <1>2, TailIsRemoveAt
<1>5. Due(timer_list, rt_tick, 0)  BY <1>2 DEF OnTime
<1>6. timer_list[1].at = rt_tick  BY <1>0, <1>2, <1>5, ExpiredInTick
<1>7. timer_list[1] \in TimerRec  BY <1>0, <1>4, ElementOfSeq
<1>8. timer_list[1] = [thread |-> t, at |-> rt_tick]  BY <1>3, <1>4, <1>6, <1>7 DEF TimerRec
<1>9. 1 \in DOMAIN timer_list  BY <1>0, <1>4, LenProperties
<1> QED  BY <1>8, <1>9

\* Which timers are left in the list when the timer of a thread is stopped, and
\* when it is started anew.
LEMMA TimersLeft ==
    ASSUME NEW list \in Seq(TimerRec), IsInjective(ThreadsOf(list)), NEW t \in Thread
    PROVE  \A u \in ToSet(StopTimer(list, t)) : u \in ToSet(list) /\ u.thread # t
<1> DEFINE r == StopTimer(list, t)
<1>1. /\ r \in Seq(TimerRec) /\ t \notin ToSet(ThreadsOf(r))
      /\ r = list \/ \E i \in 1..Len(list) : r = RemoveAt(list, i)
  BY StopTimerKeeps
<1> HIDE DEF r
<1>2. Len(list) \in Nat /\ DOMAIN list = 1..Len(list) /\ DOMAIN r = 1..Len(r) /\ Len(r) \in Nat
  BY <1>1, LenProperties
<1>3. ASSUME NEW j \in DOMAIN r  PROVE r[j] \in ToSet(list)
  <2>1. CASE r = list  BY <2>1 DEF ToSet
  <2>2. ASSUME NEW i \in 1..Len(list), r = RemoveAt(list, i)  PROVE r[j] \in ToSet(list)
    <3>1. Len(r) = Len(list) - 1 /\ r[j] = IF j < i THEN list[j] ELSE list[j + 1]
      BY <2>2, <1>2, RemoveAtFacts
    <3>2. j \in DOMAIN list /\ j + 1 \in DOMAIN list  BY <3>1, <1>2
    <3> QED  BY <3>1, <3>2 DEF ToSet
  <2> QED  BY <1>1, <2>1, <2>2
<1>4. ASSUME NEW j \in DOMAIN r  PROVE r[j].thread # t
  <2>1. /\ ThreadsOf(r) \in Seq(Thread) /\ Len(ThreadsOf(r)) = Len(r)
        /\ ThreadsOf(r)[j] = r[j].thread
    BY <1>1, <1>2, ThreadsOfSeq
  <2>2. j \in DOMAIN ThreadsOf(r)  BY <2>1, <1>2, LenProperties
  <2> QED  BY <2>1, <2>2, <1>1 DEF ToSet
<1> QED  BY <1>3, <1>4 DEF ToSet, r

LEMMA TimersStarted ==
    ASSUME NEW list \in Seq(TimerRec), IsInjective(ThreadsOf(list)), NEW t \in Thread,
           rt_tick \in Int, NEW timeout \in Int
    PROVE  \A u \in ToSet(StartTimer(list, t, timeout)) :
              \/ u \in ToSet(list) /\ u.thread # t
              \/ u = [thread |-> t, at |-> (rt_tick + timeout) % TickMod]
<1> DEFINE tm == [thread |-> t, at |-> (rt_tick + timeout) % TickMod]
           l == StopTimer(list, t)
<1>1. l \in Seq(TimerRec) /\ \A u \in ToSet(l) : u \in ToSet(list) /\ u.thread # t
  BY StopTimerKeeps, TimersLeft
<1>2. tm \in TimerRec  BY ThreadAssumption DEF TimerRec
<1> HIDE DEF tm, l
<1>3. PICK i \in 1..(Len(l) + 1) : InsertTimer(l, tm) = InsertAt(l, i, tm)
  BY <1>1, <1>2, InsertTimerFacts
<1>4. ToSet(InsertAt(l, i, tm)) = ToSet(l) \union {tm}
  BY <1>1, <1>2, InsertAtKeeps
<1>5. StartTimer(list, t, timeout) = InsertAt(l, i, tm)  BY <1>3 DEF StartTimer, tm, l
<1>6. ASSUME NEW u \in ToSet(StartTimer(list, t, timeout))
      PROVE  (u \in ToSet(list) /\ u.thread # t) \/ u = tm
  BY <1>1, <1>4, <1>5, <1>6
<1> QED  BY <1>6 DEF tm
=============================================================================
