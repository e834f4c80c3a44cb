-------------------------- MODULE EntitySearchProofs --------------------------
(***************************************************************************)
(* Proofs about the paged search: what it may miss, what it may repeat and *)
(* where it ends, for an index, a page and a number of changes of any      *)
(* size.                                                                   *)
(*                                                                         *)
(* None of this is inductive as the properties state it, since they speak  *)
(* of the result and a change of the index moves hits that are not in it   *)
(* yet.  The invariant divides the hits at the offset of the next page: of *)
(* those before it, no more are missing from the result than hits went,    *)
(* and of those from it on, no more are in the result already than hits    *)
(* came.  Every change moves at most one hit across the offset in either   *)
(* direction, which is what the lemmas about the two parts say.            *)
(***************************************************************************)
EXTENDS EntitySearch, FiniteSetTheorems, SequenceTheorems, TLAPS

(* B has at most one element that A has not.                               *)
AtMostOneNew(B, A) == \E x : B \subseteq A \cup {x}

(* The hits at the first n positions, and those at the others.             *)
UpTo(s, n) == {s[k] : k \in {i \in DOMAIN s : i <= n}}
After(s, n) == {s[k] : k \in {i \in DOMAIN s : i > n}}

(* The changes account for the length of the index.                        *)
LengthIsCounted == Len(hits) = initially + inserted - removed

(* Hits that the pages should have brought so far, and did not.            *)
MissedSoFar == (steady \cap UpTo(hits, from)) \ ToSet(out)

(* Hits that the pages to come will bring once more.                       *)
ToBeRepeated == ToSet(out) \cap After(hits, from)

FewAreMissed == pc \in {"start", "fetch"} => Cardinality(MissedSoFar) <= removed

FewAreRepeated ==
  pc \in {"start", "fetch"} =>
    Len(out) - Cardinality(ToSet(out)) + Cardinality(ToBeRepeated) <= inserted

IInv ==
  /\ TypeOK
  /\ pc = "start" => from = 0 /\ out = <<>>
  /\ LengthIsCounted
  /\ ToSet(out) \subseteq Selected
  /\ OffsetWithinHits
  /\ FewAreMissed /\ MissesOnlyWhatShifted
  /\ FewAreRepeated /\ RepeatsOnlyWhatShifted

-----------------------------------------------------------------------------
(* Sequences: how a hit that comes or goes shifts the others.              *)

(* The elements of a sequence are no more than its places, and as many if  *)
(* none occurs twice.                                                      *)
LEMMA ElementsCounted ==
  ASSUME NEW S, NEW s \in Seq(S)
  PROVE  /\ ToSet(s) \subseteq S
         /\ IsFiniteSet(ToSet(s))
         /\ Cardinality(ToSet(s)) \in Nat
         /\ Cardinality(ToSet(s)) <= Len(s)
         /\ IsInjective(s) => Cardinality(ToSet(s)) = Len(s)
  <1>1. /\ Len(s) \in Nat
        /\ DOMAIN s = 1..Len(s)
        /\ s \in [1..Len(s) -> S]
    BY LenProperties
  <1>2. s \in [1..Len(s) -> ToSet(s)]
    BY <1>1 DEF ToSet
  <1>3. s \in Surjection(1..Len(s), ToSet(s))
    BY <1>1, <1>2 DEF Surjection, ToSet
  <1>4. IsFiniteSet(1..Len(s)) /\ Cardinality(1..Len(s)) = Len(s)
    BY <1>1, FS_Interval
  <1>5. /\ IsFiniteSet(ToSet(s))
        /\ Cardinality(ToSet(s)) <= Len(s)
        /\ s \in Injection(1..Len(s), ToSet(s))
             => Cardinality(ToSet(s)) = Len(s)
    BY <1>3, <1>4, FS_Surjection
  <1>6. IsInjective(s) => s \in Injection(1..Len(s), ToSet(s))
    BY <1>2 DEF Injection
  <1>7. ToSet(s) \subseteq S
    BY <1>1 DEF ToSet
  <1> QED
    BY <1>5, <1>6, <1>7, FS_CardinalityType

(* What is where after a hit came.                                         *)
LEMMA InsertPlaces ==
  ASSUME NEW S, NEW s \in Seq(S), NEW j \in 1..Len(s) + 1, NEW e \in S
  PROVE  /\ InsertAt(s, j, e) \in Seq(S)
         /\ Len(InsertAt(s, j, e)) = Len(s) + 1
         /\ InsertAt(s, j, e)[j] = e
         /\ \A k \in 1..Len(s) : k < j => InsertAt(s, j, e)[k] = s[k]
         /\ \A k \in 1..Len(s) : k >= j => InsertAt(s, j, e)[k + 1] = s[k]
  <1> DEFINE a == SubSeq(s, 1, j - 1)
             b == SubSeq(s, j, Len(s))
  <1>1. Len(s) \in Nat /\ \A k \in 1..Len(s) : s[k] \in S
    BY LenProperties, ElementOfSeq
  <1>2. /\ a \in Seq(S) /\ Len(a) = j - 1
        /\ \A k \in 1..j - 1 : a[k] = s[k]
    <2>1. \A k \in 1..j - 1 : s[k] \in S
      BY <1>1
    <2>2. /\ a \in Seq(S)
          /\ Len(a) = IF 1 <= j - 1 THEN j - 1 - 1 + 1 ELSE 0
          /\ \A k \in 1..j - 1 - 1 + 1 : a[k] = s[1 + k - 1]
      BY <1>1, <2>1, SubSeqProperties
    <2> QED
      BY <2>2, <1>1
  <1>3. /\ b \in Seq(S) /\ Len(b) = Len(s) - j + 1
        /\ \A k \in 1..Len(s) - j + 1 : b[k] = s[j + k - 1]
    <2>1. \A k \in j..Len(s) : s[k] \in S
      BY <1>1
    <2>2. /\ b \in Seq(S)
          /\ Len(b) = IF j <= Len(s) THEN Len(s) - j + 1 ELSE 0
          /\ \A k \in 1..Len(s) - j + 1 : b[k] = s[j + k - 1]
      BY <1>1, <2>1, SubSeqProperties
    <2> QED
      BY <2>2, <1>1
  <1> DEFINE d == <<e>>
             c == a \o d
  <1>d. d \in Seq(S) /\ Len(d) = 1 /\ d[1] = e
    OBVIOUS
  <1> HIDE DEF a, b, d
  <1>4. /\ c \in Seq(S) /\ Len(c) = j
        /\ \A k \in 1..j : c[k] = IF k < j THEN s[k] ELSE e
    <2>1. /\ c \in Seq(S)
          /\ Len(c) = Len(a) + Len(d)
          /\ \A k \in 1..Len(a) + Len(d) :
               c[k] = IF k <= Len(a) THEN a[k] ELSE d[k - Len(a)]
      BY <1>2, <1>d, ConcatProperties
    <2> HIDE DEF c
    <2>2. ASSUME NEW k \in 1..j, k < j
          PROVE  c[k] = s[k]
      BY <1>1, <1>2, <1>d, <2>1, <2>2
    <2>3. c[j] = e
      BY <1>1, <1>2, <1>d, <2>1
    <2>4. ASSUME NEW k \in 1..j
          PROVE  c[k] = IF k < j THEN s[k] ELSE e
      BY <1>1, <2>2, <2>3
    <2> QED
      BY <1>1, <1>2, <1>d, <2>1, <2>4
  <1> HIDE DEF c
  <1>5. /\ c \o b \in Seq(S)
        /\ Len(c \o b) = Len(c) + Len(b)
        /\ \A k \in 1..Len(c) + Len(b) :
             (c \o b)[k] = IF k <= Len(c) THEN c[k] ELSE b[k - Len(c)]
    BY <1>3, <1>4, ConcatProperties
  <1>6. InsertAt(s, j, e) = c \o b
    BY DEF InsertAt, a, b, c, d
  <1>7. ASSUME NEW k \in 1..Len(s), k >= j
        PROVE  (c \o b)[k + 1] = s[k]
    <2>1. PICK m \in 1..Len(s) - j + 1 : m = k + 1 - j
      BY <1>1, <1>7
    <2>2. b[m] = s[k]
      <3>1. b[m] = s[j + m - 1]
        BY <1>3
      <3>2. j + m - 1 = k
        BY <2>1, <1>1
      <3> QED
        BY <3>1, <3>2
    <2>3. PICK p \in 1..Len(c) + Len(b) : p = k + 1
      BY <1>1, <1>3, <1>4
    <2>4. (c \o b)[p] = b[m]
      <3>1. ~(p <= Len(c)) /\ p - Len(c) = m
        BY <2>1, <2>3, <1>1, <1>4, <1>7
      <3>2. (c \o b)[p] = IF p <= Len(c) THEN c[p] ELSE b[p - Len(c)]
        BY <1>5
      <3> QED
        BY <3>1, <3>2
    <2> QED
      BY <2>2, <2>3, <2>4
  <1> QED
    BY <1>1, <1>3, <1>4, <1>5, <1>6, <1>7

(* What is where after a hit went.                                         *)
LEMMA RemovePlaces ==
  ASSUME NEW S, NEW s \in Seq(S), NEW i \in 1..Len(s)
  PROVE  /\ RemoveAt(s, i) \in Seq(S)
         /\ Len(RemoveAt(s, i)) = Len(s) - 1
         /\ \A k \in 1..Len(s) - 1 :
              RemoveAt(s, i)[k] = IF k < i THEN s[k] ELSE s[k + 1]
  <1> DEFINE a == SubSeq(s, 1, i - 1)
             b == SubSeq(s, i + 1, Len(s))
  <1>1. Len(s) \in Nat /\ \A k \in 1..Len(s) : s[k] \in S
    BY LenProperties, ElementOfSeq
  <1>2. /\ a \in Seq(S) /\ Len(a) = i - 1
        /\ \A k \in 1..i - 1 : a[k] = s[k]
    <2>1. \A k \in 1..i - 1 : s[k] \in S
      BY <1>1
    <2>2. /\ a \in Seq(S)
          /\ Len(a) = IF 1 <= i - 1 THEN i - 1 - 1 + 1 ELSE 0
          /\ \A k \in 1..i - 1 - 1 + 1 : a[k] = s[1 + k - 1]
      BY <1>1, <2>1, SubSeqProperties
    <2> QED
      BY <2>2, <1>1
  <1>3. /\ b \in Seq(S) /\ Len(b) = Len(s) - i
        /\ \A k \in 1..Len(s) - i : b[k] = s[i + k]
    <2>1. \A k \in i + 1..Len(s) : s[k] \in S
      BY <1>1
    <2>2. /\ b \in Seq(S)
          /\ Len(b) = IF i + 1 <= Len(s) THEN Len(s) - (i + 1) + 1 ELSE 0
          /\ \A k \in 1..Len(s) - (i + 1) + 1 : b[k] = s[i + 1 + k - 1]
      BY <1>1, <2>1, SubSeqProperties
    <2> QED
      BY <2>2, <1>1
  <1> HIDE DEF a, b
  <1>4. /\ a \o b \in Seq(S)
        /\ Len(a \o b) = Len(a) + Len(b)
        /\ \A k \in 1..Len(a) + Len(b) :
             (a \o b)[k] = IF k <= Len(a) THEN a[k] ELSE b[k - Len(a)]
    BY <1>2, <1>3, ConcatProperties
  <1>5. RemoveAt(s, i) = a \o b
    BY DEF RemoveAt, a, b
  <1>6. ASSUME NEW k \in 1..Len(s) - 1
        PROVE  RemoveAt(s, i)[k] = IF k < i THEN s[k] ELSE s[k + 1]
    <2>1. CASE k < i
      BY <2>1, <1>1, <1>2, <1>3, <1>4, <1>5
    <2>2. CASE k >= i
      <3>1. k - Len(a) \in 1..Len(s) - i /\ i + (k - Len(a)) = k + 1
        BY <2>2, <1>1, <1>2
      <3> QED
        BY <3>1, <2>2, <1>1, <1>2, <1>3, <1>4, <1>5
    <2> QED
      BY <2>1, <2>2, <1>1
  <1> QED
    BY <1>1, <1>2, <1>3, <1>4, <1>5, <1>6

(* An element of a sequence is one that is at a place.                     *)
LEMMA Placed ==
  ASSUME NEW S, NEW s \in Seq(S)
  PROVE  /\ \A k \in 1..Len(s) : s[k] \in ToSet(s)
         /\ \A x \in ToSet(s) : \E k \in 1..Len(s) : x = s[k]
  BY LenProperties DEF ToSet

(* The empty sequence has no elements.                                     *)
LEMMA NoElements ==
  /\ Len(<<>>) = 0 /\ ToSet(<<>>) = {} /\ Cardinality(ToSet(<<>>)) = 0
  /\ \A S : <<>> \in Seq(S)
  <1>1. Len(<<>>) = 0 /\ \A S : <<>> \in Seq(S)
    BY EmptySeq
  <1>2. 1..0 = {}
    OBVIOUS
  <1>3. ToSet(<<>>) = {}
    <2> SUFFICES ASSUME NEW x \in ToSet(<<>>)
                 PROVE  FALSE
      OBVIOUS
    <2>1. \E k \in 1..Len(<<>>) : x = <<>>[k]
      BY <1>1, Placed
    <2> QED
      BY <2>1, <1>1, <1>2
  <1> QED
    BY <1>1, <1>3, FS_EmptySet

(* What is at a place is in the part the place is in, and the other way    *)
(* round.                                                                  *)
LEMMA InItsPart ==
  ASSUME NEW S, NEW s \in Seq(S), NEW n \in Int
  PROVE  /\ \A k \in 1..Len(s) : /\ k <= n => s[k] \in UpTo(s, n)
                                 /\ k > n => s[k] \in After(s, n)
         /\ \A x \in UpTo(s, n) : \E k \in 1..Len(s) : k <= n /\ x = s[k]
         /\ \A x \in After(s, n) : \E k \in 1..Len(s) : k > n /\ x = s[k]
  BY LenProperties DEF UpTo, After, ToSet

(* The two parts of a sequence, and what one more or one less place does.  *)
LEMMA PartsOf ==
  ASSUME NEW S, NEW s \in Seq(S), NEW n \in Int
  PROVE  /\ UpTo(s, n) \subseteq ToSet(s) /\ After(s, n) \subseteq ToSet(s)
         /\ UpTo(s, n + 1) \subseteq UpTo(s, n) \cup {s[n + 1]}
         /\ After(s, n - 1) \subseteq After(s, n) \cup {s[n]}
         /\ UpTo(s, n - 1) \subseteq UpTo(s, n)
         /\ After(s, n + 1) \subseteq After(s, n)
  <1>1. Len(s) \in Nat /\ DOMAIN s = 1..Len(s)
    BY LenProperties
  <1> QED
    BY <1>1 DEF UpTo, After, ToSet

(* A hit that comes in front of an offset moves the others there by one.   *)
LEMMA InsertParts ==
  ASSUME NEW S, NEW s \in Seq(S), IsInjective(s),
         NEW j \in 1..Len(s) + 1, NEW e \in S, e \notin ToSet(s)
  PROVE  LET t == InsertAt(s, j, e)
         IN  /\ IsInjective(t)
             /\ ToSet(t) = ToSet(s) \cup {e}
             /\ \A n \in Nat :
                  /\ j <= n => /\ UpTo(t, n) \subseteq UpTo(s, n - 1) \cup {e}
                               /\ After(t, n) \subseteq After(s, n - 1)
                  /\ j > n => /\ UpTo(t, n) \subseteq UpTo(s, n)
                              /\ After(t, n) \subseteq After(s, n) \cup {e}
  <1> DEFINE t == InsertAt(s, j, e)
  <1>1. /\ Len(s) \in Nat /\ DOMAIN s = 1..Len(s)
        /\ \A k \in 1..Len(s) : s[k] # e
    BY LenProperties DEF ToSet
  <1>2. /\ t \in Seq(S) /\ Len(t) = Len(s) + 1
        /\ t[j] = e
        /\ \A k \in 1..Len(s) : k < j => t[k] = s[k]
        /\ \A k \in 1..Len(s) : k >= j => t[k + 1] = s[k]
    BY InsertPlaces
  <1>3. DOMAIN t = 1..Len(s) + 1
    BY <1>2, LenProperties
  <1> HIDE DEF t
  <1>4. \A k \in 1..Len(t) :
          \/ k < j /\ k \in 1..Len(s) /\ t[k] = s[k]
          \/ k = j /\ t[k] = e
          \/ k > j /\ k - 1 \in 1..Len(s) /\ t[k] = s[k - 1]
    <2> SUFFICES ASSUME NEW k \in 1..Len(t), k > j
                 PROVE  k - 1 \in 1..Len(s) /\ t[k] = s[k - 1]
      BY <1>1, <1>2
    <2>1. k - 1 \in 1..Len(s) /\ k - 1 >= j /\ (k - 1) + 1 = k
      BY <1>1, <1>2
    <2> QED
      BY <2>1, <1>2
  <1>5. IsInjective(t)
    <2> SUFFICES ASSUME NEW k \in 1..Len(s) + 1, NEW m \in 1..Len(s) + 1,
                        t[k] = t[m]
                 PROVE  k = m
      BY <1>3 DEF IsInjective
    <2>1. \A p, q \in 1..Len(s) : s[p] = s[q] => p = q
      BY <1>1 DEF IsInjective
    <2>2. \A p \in 1..Len(s) : s[p] # e
      BY <1>1
    <2>3. k \in 1..Len(t) /\ m \in 1..Len(t)
      BY <1>2
    <2>4. CASE k < j
      BY <2>1, <2>2, <2>3, <2>4, <1>1, <1>4
    <2>5. CASE k = j
      BY <2>1, <2>2, <2>3, <2>5, <1>1, <1>4
    <2>6. CASE k > j
      <3>1. k - 1 \in 1..Len(s) /\ t[k] = s[k - 1]
        BY <2>3, <2>6, <1>1, <1>4
      <3>2. CASE m < j
        <4>1. t[m] = s[m] /\ m \in 1..Len(s)
          BY <2>3, <3>2, <1>1, <1>4
        <4>2. k - 1 = m
          BY <4>1, <3>1, <2>1
        <4> QED
          BY <4>2, <2>6, <3>2, <1>1
      <3>3. CASE m = j
        BY <3>1, <3>3, <2>2, <1>2
      <3>4. CASE m > j
        <4>1. m - 1 \in 1..Len(s) /\ t[m] = s[m - 1]
          BY <2>3, <3>4, <1>1, <1>4
        <4>2. k - 1 = m - 1
          BY <4>1, <3>1, <2>1
        <4> QED
          BY <4>2, <1>1
      <3> QED
        BY <3>2, <3>3, <3>4, <1>1
    <2> QED
      BY <2>4, <2>5, <2>6, <1>1
  <1>6. ToSet(t) = ToSet(s) \cup {e}
    <2>1. ASSUME NEW k \in 1..Len(t)
          PROVE  t[k] \in ToSet(s) \cup {e}
      BY <1>4, Placed
    <2>2. ASSUME NEW k \in 1..Len(s)
          PROVE  s[k] \in ToSet(t)
      <3>1. CASE k < j
        BY <3>1, <1>1, <1>2, <1>4, Placed
      <3>2. CASE k >= j
        <4>1. k + 1 \in 1..Len(t)
          BY <1>1, <1>2
        <4> QED
          BY <3>2, <4>1, <1>2, <1>4, Placed
      <3> QED
        BY <3>1, <3>2, <1>1
    <2>3. e \in ToSet(t)
      BY <1>1, <1>2, <1>4, Placed
    <2> QED
      BY <2>1, <2>2, <2>3, <1>2, Placed
  <1>7. ASSUME NEW n \in Nat
        PROVE  /\ j <= n => /\ UpTo(t, n) \subseteq UpTo(s, n - 1) \cup {e}
                            /\ After(t, n) \subseteq After(s, n - 1)
               /\ j > n => /\ UpTo(t, n) \subseteq UpTo(s, n)
                           /\ After(t, n) \subseteq After(s, n) \cup {e}
    <2>1. /\ n \in Int /\ n - 1 \in Int /\ j \in Int
          /\ \A k \in 1..Len(t) : k \in Int
      BY <1>1
    <2>2. ASSUME j <= n, NEW k \in 1..Len(t), k <= n
          PROVE  t[k] \in UpTo(s, n - 1) \cup {e}
      <3>1. CASE k < j
        <4>1. k <= n - 1 /\ k \in 1..Len(s) /\ t[k] = s[k]
          BY <2>1, <2>2, <3>1, <1>4
        <4>2. s[k] \in UpTo(s, n - 1)
          BY <4>1, <2>1, InItsPart
        <4> QED
          BY <4>1, <4>2
      <3>2. CASE k > j
        <4>1. k - 1 <= n - 1
          BY <2>1, <2>2
        <4> QED
          BY <3>2, <4>1, <2>1, <1>4, InItsPart
      <3> QED
        BY <3>1, <3>2, <1>4
    <2>3. ASSUME j <= n, NEW k \in 1..Len(t), k > n
          PROVE  t[k] \in After(s, n - 1)
      <3>1. k > j /\ k - 1 > n - 1
        BY <2>1, <2>3
      <3> QED
        BY <3>1, <2>1, <1>4, InItsPart
    <2>4. ASSUME j > n, NEW k \in 1..Len(t), k <= n
          PROVE  t[k] \in UpTo(s, n)
      <3>1. k < j /\ k \in 1..Len(s)
        BY <2>1, <2>4, <1>1, <1>2
      <3> QED
        BY <3>1, <2>1, <2>4, <1>4, InItsPart
    <2>5. ASSUME j > n, NEW k \in 1..Len(t), k > n
          PROVE  t[k] \in After(s, n) \cup {e}
      <3>1. CASE k < j
        BY <3>1, <2>1, <2>5, <1>4, InItsPart
      <3>2. CASE k > j
        <4>1. k - 1 > n /\ k - 1 \in 1..Len(s) /\ t[k] = s[k - 1]
          BY <2>1, <2>5, <3>2, <1>4
        <4>2. s[k - 1] \in After(s, n)
          BY <4>1, <2>1, InItsPart
        <4> QED
          BY <4>1, <4>2
      <3> QED
        BY <3>1, <3>2, <1>4
    <2>6. /\ \A x \in UpTo(t, n) : \E k \in 1..Len(t) : k <= n /\ x = t[k]
          /\ \A x \in After(t, n) : \E k \in 1..Len(t) : k > n /\ x = t[k]
      BY <1>2, <2>1, InItsPart
    <2> QED
      BY <2>2, <2>3, <2>4, <2>5, <2>6
  <1> QED
    BY <1>5, <1>6, <1>7 DEF t

(* A hit that goes in front of an offset moves the others there by one.    *)
LEMMA RemoveParts ==
  ASSUME NEW S, NEW s \in Seq(S), IsInjective(s), NEW i \in 1..Len(s)
  PROVE  LET t == RemoveAt(s, i)
         IN  /\ IsInjective(t)
             /\ ToSet(t) = ToSet(s) \ {s[i]}
             /\ \A n \in Nat :
                  /\ i <= n => /\ UpTo(t, n) \subseteq UpTo(s, n + 1)
                               /\ UpTo(t, n - 1) \subseteq UpTo(s, n)
                               /\ After(t, n) \subseteq After(s, n + 1)
                               /\ After(t, n - 1) \subseteq After(s, n)
                  /\ i > n => /\ UpTo(t, n) \subseteq UpTo(s, n)
                              /\ After(t, n) \subseteq After(s, n)
  <1> DEFINE t == RemoveAt(s, i)
  <1>1. Len(s) \in Nat /\ DOMAIN s = 1..Len(s)
    BY LenProperties
  <1>2. /\ t \in Seq(S) /\ Len(t) = Len(s) - 1
        /\ \A k \in 1..Len(s) - 1 : t[k] = IF k < i THEN s[k] ELSE s[k + 1]
    BY RemovePlaces
  <1>3. DOMAIN t = 1..Len(s) - 1
    BY <1>2, LenProperties
  <1> HIDE DEF t
  <1>0. \A p, q \in 1..Len(s) : s[p] = s[q] => p = q
    BY <1>1 DEF IsInjective
  <1>4. IsInjective(t)
    <2> SUFFICES ASSUME NEW k \in 1..Len(s) - 1, NEW m \in 1..Len(s) - 1,
                        t[k] = t[m]
                 PROVE  k = m
      BY <1>3 DEF IsInjective
    <2>1. /\ k < i \/ k >= i
          /\ m < i \/ m >= i
      BY <1>1
    <2> QED
      BY <2>1, <1>0, <1>1, <1>2
  <1>5. /\ \A k \in 1..Len(t) :
             \/ k < i /\ k \in 1..Len(s) /\ t[k] = s[k]
             \/ k >= i /\ k + 1 \in 1..Len(s) /\ t[k] = s[k + 1]
        /\ \A k \in 1..Len(s) : k < i => k \in 1..Len(t) /\ t[k] = s[k]
        /\ \A k \in 1..Len(s) :
             k > i => k - 1 \in 1..Len(t) /\ t[k - 1] = s[k]
    BY <1>1, <1>2
  <1>6. ToSet(t) = ToSet(s) \ {s[i]}
    <2>1. ASSUME NEW k \in 1..Len(t)
          PROVE  t[k] \in ToSet(s) \ {s[i]}
      <3>1. CASE k < i
        BY <3>1, <1>0, <1>1, <1>5, Placed
      <3>2. CASE k >= i
        BY <3>2, <1>0, <1>1, <1>5, Placed
      <3> QED
        BY <3>1, <3>2, <1>5
    <2>2. ASSUME NEW k \in 1..Len(s), s[k] # s[i]
          PROVE  s[k] \in ToSet(t)
      <3>1. k < i \/ k > i
        BY <2>2, <1>1
      <3> QED
        BY <3>1, <1>2, <1>5, Placed
    <2>3. ToSet(t) \subseteq ToSet(s) \ {s[i]}
      BY <2>1, <1>2, Placed
    <2>4. ToSet(s) \ {s[i]} \subseteq ToSet(t)
      <3> SUFFICES ASSUME NEW x \in ToSet(s), x # s[i]
                   PROVE  x \in ToSet(t)
        OBVIOUS
      <3>1. PICK k \in 1..Len(s) : x = s[k]
        BY Placed
      <3> QED
        BY <3>1, <2>2
    <2> QED
      BY <2>3, <2>4
  <1>7. ASSUME NEW n \in Nat
        PROVE  /\ i <= n => /\ UpTo(t, n) \subseteq UpTo(s, n + 1)
                            /\ UpTo(t, n - 1) \subseteq UpTo(s, n)
                            /\ After(t, n) \subseteq After(s, n + 1)
                            /\ After(t, n - 1) \subseteq After(s, n)
               /\ i > n => /\ UpTo(t, n) \subseteq UpTo(s, n)
                           /\ After(t, n) \subseteq After(s, n)
    <2>1. ASSUME NEW p \in Int, NEW k \in 1..Len(t), k <= p
          PROVE  t[k] \in UpTo(s, p + 1)
      <3>1. p + 1 \in Int /\ k <= p + 1 /\ k + 1 <= p + 1
        BY <2>1
      <3> QED
        BY <3>1, <1>5, InItsPart
    <2>2. ASSUME NEW p \in Int, i <= p + 1, NEW k \in 1..Len(t), k > p
          PROVE  t[k] \in After(s, p + 1)
      <3>1. p + 1 \in Int /\ k + 1 > p + 1 /\ ~(k < i)
        BY <2>2, <1>1
      <3> QED
        BY <3>1, <1>5, InItsPart
    <2>3. ASSUME i > n, NEW k \in 1..Len(t), k <= n
          PROVE  t[k] \in UpTo(s, n)
      <3>1. n \in Int /\ k < i
        BY <2>3, <1>1
      <3> QED
        BY <3>1, <2>3, <1>5, InItsPart
    <2>4. ASSUME NEW k \in 1..Len(t), k > n
          PROVE  t[k] \in After(s, n)
      <3>1. n \in Int /\ k + 1 > n
        BY <2>4
      <3> QED
        BY <3>1, <2>4, <1>5, InItsPart
    <2>5. ASSUME NEW p \in Int
          PROVE  /\ \A x \in UpTo(t, p) : \E k \in 1..Len(t) : k <= p /\ x = t[k]
                 /\ \A x \in After(t, p) : \E k \in 1..Len(t) : k > p /\ x = t[k]
      BY <1>2, InItsPart
    <2>6. ASSUME NEW p \in Int
          PROVE  /\ UpTo(t, p) \subseteq UpTo(s, p + 1)
                 /\ i <= p + 1 => After(t, p) \subseteq After(s, p + 1)
      BY <2>1, <2>2, <2>5
    <2>7. /\ n \in Int /\ n - 1 \in Int /\ n - 1 + 1 = n
          /\ i <= n => i <= n + 1
      BY <1>1
    <2>8. i > n => /\ UpTo(t, n) \subseteq UpTo(s, n)
                   /\ After(t, n) \subseteq After(s, n)
      BY <2>3, <2>4, <2>5, <2>7
    <2> QED
      BY <2>6, <2>7, <2>8
  <1> QED
    BY <1>4, <1>6, <1>7 DEF t

(* Where the hits are after one of them moved: no more than one of them is *)
(* new in either part.                                                     *)
LEMMA MovePlaces ==
  ASSUME NEW S, NEW s \in Seq(S), IsInjective(s),
         NEW i \in 1..Len(s), NEW j \in 1..Len(s),
         NEW t, t = InsertAt(RemoveAt(s, i), j, s[i]), NEW n \in Nat
  PROVE  /\ t \in Seq(S) /\ Len(t) = Len(s)
         /\ IsInjective(t) /\ ToSet(t) = ToSet(s)
         /\ AtMostOneNew(UpTo(t, n), UpTo(s, n))
         /\ AtMostOneNew(After(t, n), After(s, n))
  <1> DEFINE r == RemoveAt(s, i)
  <1>0. t = InsertAt(r, j, s[i])
    OBVIOUS
  <1>1. Len(s) \in Nat /\ s[i] \in S /\ s[i] \in ToSet(s)
    BY LenProperties, ElementOfSeq, Placed
  <1>2. /\ r \in Seq(S) /\ Len(r) = Len(s) - 1
        /\ IsInjective(r)
        /\ ToSet(r) = ToSet(s) \ {s[i]}
    BY RemovePlaces, RemoveParts
  <1>3. \A m \in Nat :
          /\ i <= m => /\ UpTo(r, m) \subseteq UpTo(s, m + 1)
                       /\ UpTo(r, m - 1) \subseteq UpTo(s, m)
                       /\ After(r, m) \subseteq After(s, m + 1)
                       /\ After(r, m - 1) \subseteq After(s, m)
          /\ i > m => /\ UpTo(r, m) \subseteq UpTo(s, m)
                      /\ After(r, m) \subseteq After(s, m)
    BY RemoveParts
  <1> HIDE DEF r
  <1>4. j \in 1..Len(r) + 1
    BY <1>1, <1>2
  <1>5. /\ t \in Seq(S) /\ Len(t) = Len(s)
        /\ IsInjective(t)
        /\ ToSet(t) = ToSet(s)
    <2>1. t \in Seq(S) /\ Len(t) = Len(r) + 1
      BY <1>0, <1>1, <1>2, <1>4, InsertPlaces
    <2>2. IsInjective(t) /\ ToSet(t) = ToSet(r) \cup {s[i]}
      BY <1>0, <1>1, <1>2, <1>4, InsertParts
    <2> QED
      BY <2>1, <2>2, <1>1, <1>2
  <1>6. /\ j <= n => /\ UpTo(t, n) \subseteq UpTo(r, n - 1) \cup {s[i]}
                       /\ After(t, n) \subseteq After(r, n - 1)
        /\ j > n => /\ UpTo(t, n) \subseteq UpTo(r, n)
                    /\ After(t, n) \subseteq After(r, n) \cup {s[i]}
    BY <1>0, <1>1, <1>2, <1>4, InsertParts
  <1>7. /\ AtMostOneNew(UpTo(t, n), UpTo(s, n))
        /\ AtMostOneNew(After(t, n), After(s, n))
    <2>1. /\ UpTo(s, n + 1) \subseteq UpTo(s, n) \cup {s[n + 1]}
          /\ After(s, n - 1) \subseteq After(s, n) \cup {s[n]}
          /\ After(s, n + 1) \subseteq After(s, n)
      BY PartsOf
    <2>2. /\ UpTo(r, n - 1) \subseteq UpTo(r, n)
          /\ After(r, n - 1) \subseteq After(r, n) \cup {r[n]}
      BY <1>2, PartsOf
    <2>3. CASE i <= n /\ j <= n
      <3>1. UpTo(t, n) \subseteq UpTo(s, n) \cup {s[i]}
        BY <2>3, <1>3, <1>6
      <3>2. After(t, n) \subseteq After(s, n) \cup {s[i]}
        BY <2>3, <1>3, <1>6
      <3> QED
        BY <3>1, <3>2 DEF AtMostOneNew
    <2>4. CASE i <= n /\ j > n
      <3>1. UpTo(t, n) \subseteq UpTo(s, n) \cup {s[n + 1]}
        BY <2>1, <2>4, <1>3, <1>6
      <3>2. After(t, n) \subseteq After(s, n) \cup {s[i]}
        BY <2>1, <2>4, <1>3, <1>6
      <3> QED
        BY <3>1, <3>2 DEF AtMostOneNew
    <2>5. CASE i > n /\ j <= n
      <3>1. UpTo(t, n) \subseteq UpTo(s, n) \cup {s[i]}
        BY <2>2, <2>5, <1>3, <1>6
      <3>2. After(t, n) \subseteq After(s, n) \cup {r[n]}
        BY <2>2, <2>5, <1>3, <1>6
      <3> QED
        BY <3>1, <3>2 DEF AtMostOneNew
    <2>6. CASE i > n /\ j > n
      <3>1. UpTo(t, n) \subseteq UpTo(s, n) \cup {s[i]}
        BY <2>6, <1>3, <1>6
      <3>2. After(t, n) \subseteq After(s, n) \cup {s[i]}
        BY <2>6, <1>3, <1>6
      <3> QED
        BY <3>1, <3>2 DEF AtMostOneNew
    <2>7. (i <= n \/ i > n) /\ (j <= n \/ j > n)
      BY <1>1
    <2> QED
      BY <2>3, <2>4, <2>5, <2>6, <2>7, Zenon
  <1> QED
    BY <1>5, <1>7

(* The elements of two sequences, one after the other.                     *)
LEMMA ConcatElements ==
  ASSUME NEW S, NEW s \in Seq(S), NEW t \in Seq(S)
  PROVE  /\ s \o t \in Seq(S)
         /\ Len(s \o t) = Len(s) + Len(t)
         /\ ToSet(s \o t) = ToSet(s) \cup ToSet(t)
  <1> DEFINE u == s \o t
  <1>1. Len(s) \in Nat /\ Len(t) \in Nat
    BY LenProperties
  <1>2. /\ u \in Seq(S) /\ Len(u) = Len(s) + Len(t)
        /\ \A k \in 1..Len(s) + Len(t) :
             u[k] = IF k <= Len(s) THEN s[k] ELSE t[k - Len(s)]
    BY ConcatProperties
  <1> HIDE DEF u
  <1>3. ASSUME NEW k \in 1..Len(u)
        PROVE  u[k] \in ToSet(s) \cup ToSet(t)
    <2>1. CASE k <= Len(s)
      BY <2>1, <1>1, <1>2, Placed
    <2>2. CASE k > Len(s)
      <3>1. k - Len(s) \in 1..Len(t) /\ u[k] = t[k - Len(s)]
        BY <2>2, <1>1, <1>2
      <3> QED
        BY <3>1, Placed
    <2> QED
      BY <2>1, <2>2, <1>1
  <1>4. ASSUME NEW k \in 1..Len(s)
        PROVE  s[k] \in ToSet(u)
    <2>1. k \in 1..Len(u) /\ u[k] = s[k]
      BY <1>1, <1>2
    <2> QED
      BY <2>1, <1>2, Placed
  <1>5. ASSUME NEW k \in 1..Len(t)
        PROVE  t[k] \in ToSet(u)
    <2>1. PICK m \in 1..Len(u) : m = Len(s) + k
      BY <1>1, <1>2
    <2>2. u[m] = t[k]
      BY <2>1, <1>1, <1>2
    <2> QED
      BY <2>2, <1>2, Placed
  <1>6. ToSet(u) \subseteq ToSet(s) \cup ToSet(t)
    BY <1>2, <1>3, Placed
  <1>7. ToSet(s) \subseteq ToSet(u)
    BY <1>4, Placed
  <1>8. ToSet(t) \subseteq ToSet(u)
    BY <1>5, Placed
  <1> QED
    BY <1>2, <1>6, <1>7, <1>8 DEF u

(* A set with at most one element that another has not is no larger than   *)
(* that by more than one.                                                  *)
LEMMA OneMore ==
  ASSUME NEW A, NEW B, IsFiniteSet(A), AtMostOneNew(B, A)
  PROVE  /\ IsFiniteSet(B)
         /\ Cardinality(A) \in Nat /\ Cardinality(B) \in Nat
         /\ Cardinality(B) <= Cardinality(A) + 1
  <1>0. PICK x : B \subseteq A \cup {x}
    BY DEF AtMostOneNew
  <1>1. /\ IsFiniteSet(A \cup {x})
        /\ Cardinality(A) \in Nat
        /\ Cardinality(A \cup {x}) <= Cardinality(A) + 1
    <2>1. Cardinality(A) \in Nat
      BY FS_CardinalityType
    <2>2. /\ IsFiniteSet(A \cup {x})
          /\ Cardinality(A \cup {x}) =
               IF x \in A THEN Cardinality(A) ELSE Cardinality(A) + 1
      BY FS_AddElement
    <2> QED
      BY <2>1, <2>2
  <1>2. /\ IsFiniteSet(B)
        /\ Cardinality(B) <= Cardinality(A \cup {x})
    BY <1>0, <1>1, FS_Subset
  <1> QED
    BY <1>1, <1>2, FS_CardinalityType

(* A part of a set is no larger than the set.                              *)
LEMMA NoMore ==
  ASSUME NEW A, NEW B, IsFiniteSet(A), B \subseteq A
  PROVE  /\ IsFiniteSet(B)
         /\ Cardinality(A) \in Nat /\ Cardinality(B) \in Nat
         /\ Cardinality(B) <= Cardinality(A)
  BY FS_Subset, FS_CardinalityType

-----------------------------------------------------------------------------
(* The search.                                                             *)

(* A page holds the hits from the offset on; the last one holds all that   *)
(* are left, any other one all up to the next offset.                      *)
LEMMA WhatAPageHolds ==
  ASSUME TypeOK
  PROVE  LET page == Page(from)
             next == from + PageSize
         IN  /\ page \in Seq(Selected)
             /\ IsInjective(page)
             /\ ToSet(page) \subseteq After(hits, from)
             /\ IsLast(page) =>
                  ToSet(hits) \subseteq UpTo(hits, from) \cup ToSet(page)
             /\ ~IsLast(page) =>
                  /\ next <= Len(hits)
                  /\ UpTo(hits, next) \subseteq UpTo(hits, from) \cup ToSet(page)
                  /\ After(hits, next) \subseteq After(hits, from) \ ToSet(page)
  <1> DEFINE page == Page(from)
             next == from + PageSize
             last == IF next < Len(hits) THEN next ELSE Len(hits)
  <1>0. /\ hits \in Seq(Selected)
        /\ DOMAIN hits = 1..Len(hits)
        /\ \A k \in 1..Len(hits) : hits[k] \in Selected
    BY LenProperties, ElementOfSeq DEF TypeOK
  <1>1. /\ from \in Nat /\ Len(hits) \in Nat
        /\ PageSize \in Nat /\ PageSize # 0
    BY SearchAssumption, LenProperties DEF TypeOK
  <1>2. \A p, q \in 1..Len(hits) : hits[p] = hits[q] => p = q
    BY <1>0, <1>1 DEF TypeOK, IsInjective
  <1>3. /\ last \in Nat /\ last <= next /\ last <= Len(hits)
        /\ next < Len(hits) => last = next
        /\ next >= Len(hits) => last = Len(hits)
    BY <1>1
  <1> HIDE DEF last
  <1>4. page = SubSeq(hits, from + 1, last)
    BY DEF Page, last
  <1> HIDE DEF page
  <1>5. /\ page \in Seq(Selected)
        /\ Len(page) = IF from + 1 <= last THEN last - from ELSE 0
        /\ \A k \in 1..last - from : page[k] = hits[from + k]
    <2>1. PICK first \in Int : first = from + 1
      BY <1>1
    <2>2. ASSUME NEW k \in first..last
          PROVE  hits[k] \in Selected
      <3>1. k \in 1..Len(hits)
        BY <2>1, <1>1, <1>3
      <3> QED
        BY <3>1, <1>0
    <2>3. last \in Int /\ page = SubSeq(hits, first, last)
      BY <2>1, <1>3, <1>4
    <2>4. /\ page \in Seq(Selected)
          /\ Len(page) = IF first <= last THEN last - first + 1 ELSE 0
          /\ \A k \in 1..last - first + 1 : page[k] = hits[first + k - 1]
      BY <2>1, <2>2, <2>3, SubSeqProperties
    <2>5. \A k \in 1..last - from : first + k - 1 = from + k
      BY <2>1, <1>1, <1>3
    <2>6. last - first + 1 = last - from
      BY <2>1, <1>1, <1>3
    <2> QED
      BY <2>1, <2>4, <2>5, <2>6, <1>1, <1>3
  <1>6. \A k \in 1..Len(page) :
          from + k \in 1..Len(hits) /\ page[k] = hits[from + k]
    BY <1>1, <1>3, <1>5
  <1>7. ASSUME NEW k \in 1..Len(hits), k > from, k <= last
        PROVE  hits[k] \in ToSet(page)
    <2>1. PICK m \in 1..Len(page) : m = k - from
      BY <1>1, <1>3, <1>5, <1>7
    <2>2. page[m] = hits[k]
      BY <2>1, <1>1, <1>6
    <2> QED
      BY <2>2, <1>5, Placed
  <1>8. IsInjective(page)
    <2> SUFFICES ASSUME NEW k \in 1..Len(page), NEW m \in 1..Len(page),
                        page[k] = page[m]
                 PROVE  k = m
      BY <1>5, LenProperties DEF IsInjective
    <2>1. from + k = from + m
      BY <1>2, <1>6
    <2> QED
      BY <2>1, <1>1, <1>5
  <1>9. ToSet(page) \subseteq After(hits, from)
    <2> SUFFICES ASSUME NEW k \in 1..Len(page)
                 PROVE  hits[from + k] \in After(hits, from)
      BY <1>5, <1>6, Placed
    <2>1. PICK p \in 1..Len(hits) : p = from + k
      BY <1>6
    <2>2. p > from /\ from \in Int
      BY <2>1, <1>1
    <2>3. hits[p] \in After(hits, from)
      BY <2>2, <1>0, InItsPart
    <2> QED
      BY <2>1, <2>3
  <1>10. ASSUME IsLast(page), NEW k \in 1..Len(hits)
         PROVE  hits[k] \in UpTo(hits, from) \cup ToSet(page)
    <2>1. k <= from \/ k <= last
      BY <1>1, <1>3, <1>5, <1>10 DEF IsLast
    <2>2. k <= from => hits[k] \in UpTo(hits, from)
      BY <1>0, <1>1, InItsPart
    <2> QED
      BY <2>1, <2>2, <1>1, <1>7
  <1>11. ASSUME ~IsLast(page)
         PROVE  /\ next <= Len(hits) /\ last = next
                /\ Len(page) = PageSize
    BY <1>1, <1>3, <1>5, <1>11 DEF IsLast
  <1>12. ASSUME ~IsLast(page)
         PROVE  UpTo(hits, next) \subseteq UpTo(hits, from) \cup ToSet(page)
    <2>1. next \in Int /\ last = next
      BY <1>1, <1>11, <1>12
    <2> SUFFICES ASSUME NEW k \in 1..Len(hits), k <= next
                 PROVE  hits[k] \in UpTo(hits, from) \cup ToSet(page)
      BY <2>1, <1>0, <1>1, InItsPart
    <2>2. k <= from => hits[k] \in UpTo(hits, from)
      BY <1>0, <1>1, InItsPart
    <2>3. k > from => hits[k] \in ToSet(page)
      BY <2>1, <1>7
    <2> QED
      BY <2>2, <2>3, <1>1
  <1>13. ASSUME ~IsLast(page)
         PROVE  After(hits, next) \subseteq After(hits, from) \ ToSet(page)
    <2>1. next \in Int /\ Len(page) = PageSize
      BY <1>1, <1>11, <1>13
    <2>0. \A x \in After(hits, next) :
            \E k \in 1..Len(hits) : k > next /\ x = hits[k]
      BY <2>1, <1>0, InItsPart
    <2> SUFFICES ASSUME NEW k \in 1..Len(hits), k > next
                 PROVE  hits[k] \in After(hits, from) \ ToSet(page)
      BY <2>0
    <2>2. hits[k] \in After(hits, from)
      BY <1>0, <1>1, InItsPart
    <2>3. ASSUME NEW m \in 1..Len(page)
          PROVE  page[m] # hits[k]
      <3>1. from + m # k
        BY <2>1, <1>1
      <3> QED
        BY <3>1, <1>2, <1>6
    <2> QED
      BY <2>2, <2>3, <1>5, Placed
  <1>14. IsLast(page) =>
           ToSet(hits) \subseteq UpTo(hits, from) \cup ToSet(page)
    BY <1>0, <1>1, <1>10, Placed
  <1> QED
    BY <1>5, <1>8, <1>9, <1>11, <1>12, <1>13, <1>14 DEF page

(* What the sets of the invariant are sets of.                             *)
LEMMA PartsAreFinite ==
  ASSUME TypeOK
  PROVE  /\ ToSet(hits) \subseteq Selected /\ IsFiniteSet(ToSet(hits))
         /\ IsFiniteSet(ToSet(out)) /\ Cardinality(ToSet(out)) \in Nat
         /\ Len(out) \in Nat
         /\ IsFiniteSet(MissedSoFar) /\ Cardinality(MissedSoFar) \in Nat
         /\ IsFiniteSet(ToBeRepeated) /\ Cardinality(ToBeRepeated) \in Nat
         /\ {initially, inserted, removed} \subseteq Nat
         /\ Len(hits) \in Nat /\ from \in Nat
  <1>1. /\ hits \in Seq(Selected) /\ out \in Seq(Entities)
        /\ {initially, inserted, removed} \subseteq Nat /\ from \in Nat
    BY DEF TypeOK
  <1>2. /\ ToSet(hits) \subseteq Selected /\ IsFiniteSet(ToSet(hits))
        /\ IsFiniteSet(ToSet(out)) /\ Cardinality(ToSet(out)) \in Nat
        /\ Len(out) \in Nat /\ Len(hits) \in Nat
    BY <1>1, ElementsCounted, LenProperties
  <1>3. MissedSoFar \subseteq ToSet(hits)
    BY <1>1, PartsOf DEF MissedSoFar
  <1>4. ToBeRepeated \subseteq ToSet(out)
    BY DEF ToBeRepeated
  <1> QED
    BY <1>1, <1>2, <1>3, <1>4, NoMore

(* The search starts with a history that is empty.                         *)
LEMMA InitHolds ==
  ASSUME Init
  PROVE  IInv
  <1>1. /\ hits \in Seq(Entities) /\ IsInjective(hits)
        /\ ToSet(hits) \subseteq Selected
        /\ PageSize \in Nat /\ MaxChanges \in Nat
    BY SearchAssumption DEF Init
  <1>2. /\ Len(hits) \in Nat /\ DOMAIN hits = 1..Len(hits)
        /\ hits \in [1..Len(hits) -> Entities]
    BY <1>1, LenProperties
  <1>3. hits \in Seq(Selected)
    <2>1. \A k \in 1..Len(hits) : hits[k] \in Selected
      BY <1>1, Placed
    <2>2. hits \in [1..Len(hits) -> Selected]
      BY <2>1, <1>2
    <2> QED
      BY <2>2, <1>2, SeqDef
  <1>4. /\ includes \subseteq Patterns /\ excludes \subseteq Patterns
        /\ pc = "start" /\ from = 0 /\ out = <<>> /\ steady = ToSet(hits)
        /\ initially = Len(hits) /\ inserted = 0 /\ removed = 0
    BY DEF Init
  <1>5. TypeOK
    <2>1. out \in Seq(Entities)
      BY <1>4, NoElements
    <2>2. \E n \in 0..from : from = PageSize * n
      BY <1>1, <1>4
    <2> QED
      BY <1>1, <1>2, <1>3, <1>4, <2>1, <2>2 DEF TypeOK
  <1>6. ToSet(out) = {} /\ Len(out) = 0 /\ Cardinality(ToSet(out)) = 0
    BY <1>4, NoElements
  <1>7. MissedSoFar = {} /\ ToBeRepeated = {}
    <2>1. UpTo(hits, from) = {}
      BY <1>2, <1>4 DEF UpTo
    <2> QED
      BY <2>1, <1>6 DEF MissedSoFar, ToBeRepeated
  <1>8. Cardinality(MissedSoFar) = 0 /\ Cardinality(ToBeRepeated) = 0
    BY <1>7, FS_EmptySet
  <1>9. LengthIsCounted /\ OffsetWithinHits
    BY <1>2, <1>4 DEF LengthIsCounted, OffsetWithinHits
  <1>10. FewAreMissed /\ FewAreRepeated /\ RepeatsOnlyWhatShifted
    BY <1>4, <1>6, <1>8 DEF FewAreMissed, FewAreRepeated,
                            RepeatsOnlyWhatShifted
  <1> QED
    BY <1>4, <1>5, <1>6, <1>9, <1>10 DEF IInv, MissesOnlyWhatShifted

(* Nothing is missing yet when the first page is about to be asked for,    *)
(* and nothing ever is when nothing is included.                           *)
LEMMA BeginKeeps ==
  ASSUME IInv, Begin
  PROVE  IInv'
  <1>1. /\ pc = "start" /\ out = <<>>
        /\ pc' = IF includes = {} THEN "done" ELSE "fetch"
        /\ UNCHANGED <<includes, excludes, hits, from, out, steady, initially,
                       inserted, removed>>
    BY DEF IInv, Begin, query, history
  <1>2. TypeOK /\ TypeOK'
    BY <1>1 DEF IInv, TypeOK, Selected
  <1>3. /\ LengthIsCounted' /\ OffsetWithinHits'
        /\ (ToSet(out) \subseteq Selected)'
        /\ FewAreMissed' /\ FewAreRepeated' /\ RepeatsOnlyWhatShifted'
    BY <1>1 DEF IInv, LengthIsCounted, OffsetWithinHits, Selected,
       FewAreMissed,
                FewAreRepeated, RepeatsOnlyWhatShifted, MissedSoFar, ToBeRepeated
  <1>4. MissesOnlyWhatShifted'
    <2> SUFFICES ASSUME includes = {}
                 PROVE  Cardinality(steady \ ToSet(out)) <= removed
      BY <1>1 DEF MissesOnlyWhatShifted
    <2>1. steady \ ToSet(out) = {}
      <3>1. steady \subseteq Selected
        BY <1>2, PartsAreFinite DEF TypeOK
      <3>2. UNION {Matches[p] : p \in includes} = {}
        OBVIOUS
      <3>3. Selected = {}
        BY <3>2 DEF Selected
      <3> QED
        BY <3>1, <3>3
    <2>2. removed \in Nat
      BY <1>2 DEF TypeOK
    <2> QED
      BY <2>1, <2>2, FS_EmptySet
  <1>5. (pc = "start" => from = 0 /\ out = <<>>)'
    BY <1>1
  <1> QED
    BY <1>2, <1>3, <1>4, <1>5 DEF IInv

(* A failing request leaves nothing to be judged but that the result is    *)
(* empty.                                                                  *)
LEMMA FetchFailsKeeps ==
  ASSUME IInv, FetchFails
  PROVE  IInv'
  <1>1. /\ pc' = "failed" /\ out' = <<>>
        /\ UNCHANGED <<includes, excludes, hits, from, steady, initially,
                       inserted, removed>>
    BY DEF FetchFails, query, history
  <1>2. out' \in Seq(Entities) /\ Len(out') = 0
    BY <1>1, NoElements
  <1>3. ToSet(out') = {} /\ Cardinality(ToSet(out')) = 0
    BY <1>1, NoElements
  <1>4. TypeOK'
    BY <1>1, <1>2 DEF IInv, TypeOK, Selected
  <1>5. RepeatsOnlyWhatShifted'
    BY <1>2, <1>3, <1>4 DEF RepeatsOnlyWhatShifted, TypeOK
  <1>6. LengthIsCounted' /\ OffsetWithinHits'
    BY <1>1 DEF IInv, LengthIsCounted, OffsetWithinHits
  <1> QED
    BY <1>1, <1>3, <1>4, <1>5, <1>6
       DEF IInv, FewAreMissed, FewAreRepeated, MissesOnlyWhatShifted

(* A page brings the hits up to the next offset; what it repeats was to be *)
(* repeated.                                                               *)
LEMMA FetchPageKeeps ==
  ASSUME IInv, FetchPage
  PROVE  IInv'
  <1> DEFINE page == Page(from)
             next == from + PageSize
             O == ToSet(out)
             P == ToSet(page)
             A == After(hits, from)
  <1>1. /\ pc = "fetch" /\ out' = out \o page
        /\ IF IsLast(page) THEN pc' = "done" /\ from' = from
                           ELSE from' = next /\ pc' = "fetch"
        /\ UNCHANGED <<includes, excludes, hits, steady, initially, inserted,
                       removed>>
    BY DEF FetchPage, query, history, NextOffset
  <1>2. /\ TypeOK
        /\ hits \in Seq(Selected) /\ out \in Seq(Entities)
        /\ Selected \subseteq Entities
        /\ O \subseteq Selected
        /\ steady \subseteq ToSet(hits)
    <2>1. Selected \subseteq Entities
      BY SearchAssumption DEF IInv, TypeOK, Selected
    <2> QED
      BY <2>1 DEF IInv, TypeOK
  <1>3. /\ page \in Seq(Selected) /\ IsInjective(page) /\ P \subseteq A
        /\ IsLast(page) => ToSet(hits) \subseteq UpTo(hits, from) \cup P
        /\ ~IsLast(page) => /\ next <= Len(hits)
                            /\ UpTo(hits, next) \subseteq UpTo(hits, from) \cup P
                            /\ After(hits, next) \subseteq A \ P
    BY <1>2, WhatAPageHolds
  <1>4. /\ IsFiniteSet(O) /\ Cardinality(O) \in Nat /\ Len(out) \in Nat
        /\ IsFiniteSet(MissedSoFar) /\ Cardinality(MissedSoFar) \in Nat
        /\ IsFiniteSet(O \cap A) /\ Cardinality(O \cap A) \in Nat
        /\ initially \in Nat /\ inserted \in Nat /\ removed \in Nat
        /\ Len(hits) \in Nat /\ from \in Nat
    BY <1>2, PartsAreFinite DEF ToBeRepeated
  <1> HIDE DEF page
  <1>5. /\ P \subseteq Selected /\ IsFiniteSet(P) /\ Cardinality(P) = Len(page)
        /\ Len(page) \in Nat
    BY <1>3, ElementsCounted, LenProperties
  <1>6. /\ out' \in Seq(Entities)
        /\ Len(out') = Len(out) + Len(page)
        /\ ToSet(out') = O \cup P
    <2>1. page \in Seq(Entities)
      BY <1>2, <1>3, SeqMonotonic
    <2> QED
      BY <2>1, <1>1, <1>2, ConcatElements
  <1> HIDE DEF O, P, A
  <1>7. TypeOK'
    <2>1. from' \in Nat /\ \E n \in 0..from' : from' = PageSize * n
      <3>1. PICK n \in 0..from : from = PageSize * n
        BY <1>2 DEF TypeOK
      <3>2. PageSize \in Nat \ {0}
        BY SearchAssumption
      <3>3. PageSize * (n + 1) = PageSize * n + PageSize
        BY <1>4, <3>1, <3>2
      <3>4. n + 1 \in 0..next /\ next = PageSize * (n + 1) /\ next \in Nat
        BY <1>4, <3>1, <3>2, <3>3
      <3> QED
        BY <1>1, <1>4, <3>1, <3>4
    <2> QED
      BY <2>1, <1>1, <1>2, <1>6 DEF TypeOK, Selected
  <1>8. (ToSet(out) \subseteq Selected)'
    BY <1>1, <1>2, <1>5, <1>6 DEF Selected
  <1>9. LengthIsCounted' /\ OffsetWithinHits'
    <2>1. LengthIsCounted /\ OffsetWithinHits
      BY DEF IInv
    <2>2. LengthIsCounted'
      BY <2>1, <1>1 DEF LengthIsCounted
    <2>3. next <= Len(hits) => next <= initially + inserted
      BY <2>1, <1>4, SearchAssumption DEF LengthIsCounted
    <2> QED
      BY <2>1, <2>2, <2>3, <1>1, <1>3 DEF OffsetWithinHits
  <1>10. FewAreMissed' /\ MissesOnlyWhatShifted'
    <2>1. Cardinality(MissedSoFar) <= removed
      BY <1>1 DEF IInv, FewAreMissed
    <2>2. CASE IsLast(page)
      <3>1. steady \ ToSet(out') \subseteq MissedSoFar
        BY <2>2, <1>2, <1>3, <1>6 DEF MissedSoFar, O
      <3>2. Cardinality(steady \ ToSet(out')) <= removed
        BY <3>1, <2>1, <1>4, NoMore
      <3> QED
        BY <3>2, <2>2, <1>1 DEF FewAreMissed, MissesOnlyWhatShifted
    <2>3. CASE ~IsLast(page)
      <3>1. MissedSoFar' \subseteq MissedSoFar
        BY <2>3, <1>1, <1>3, <1>6 DEF MissedSoFar, O
      <3>2. Cardinality(MissedSoFar') <= removed
        BY <3>1, <2>1, <1>4, NoMore
      <3>3. Cardinality(MissedSoFar)' <= removed'
        BY <3>2, <1>1
      <3> QED
        BY <3>3, <2>3, <1>1 DEF FewAreMissed, MissesOnlyWhatShifted
    <2> QED
      BY <2>2, <2>3
  <1>11. FewAreRepeated' /\ RepeatsOnlyWhatShifted'
    <2>1. Len(out) - Cardinality(O) + Cardinality(O \cap A) <= inserted
      BY <1>1 DEF IInv, FewAreRepeated, ToBeRepeated, O, A
    <2>2. /\ Cardinality(O \cup P) =
               Cardinality(O) + Cardinality(P) - Cardinality(O \cap P)
          /\ Cardinality(O \cup P) \in Nat
      BY <1>4, <1>5, FS_Union, FS_CardinalityType
    <2>3. /\ IsFiniteSet(O \cap P)
          /\ Cardinality(O \cap P) \in Nat
          /\ Cardinality(O \cap P) <= Cardinality(O \cap A)
      <3>1. O \cap P \subseteq O \cap A
        BY <1>3
      <3> QED
        BY <3>1, <1>4, NoMore
    <2>4. Len(out') - Cardinality(ToSet(out')) =
            Len(out) - Cardinality(O) + Cardinality(O \cap P)
      BY <2>2, <2>3, <1>4, <1>5, <1>6
    <2>5. Len(out') - Cardinality(ToSet(out')) <= inserted
      BY <2>1, <2>3, <2>4, <1>4
    <2>6. RepeatsOnlyWhatShifted'
      BY <2>5, <1>1 DEF RepeatsOnlyWhatShifted
    <2>7. ASSUME ~IsLast(page)
          PROVE  Len(out') - Cardinality(ToSet(out'))
                   + Cardinality(ToSet(out') \cap After(hits, next)) <= inserted
      <3>1. ToSet(out') \cap After(hits, next) \subseteq (O \cap A) \ (O \cap P)
        BY <2>7, <1>3, <1>6
      <3>2. (O \cap A) \cap (O \cap P) = O \cap P
        BY <1>3
      <3>3. /\ IsFiniteSet((O \cap A) \ (O \cap P))
            /\ Cardinality((O \cap A) \ (O \cap P)) =
                 Cardinality(O \cap A) - Cardinality(O \cap P)
        <4> DEFINE X == O \cap A
                   Y == O \cap P
        <4>1. X \cap Y = Y /\ IsFiniteSet(X)
          BY <3>2, <1>4
        <4> HIDE DEF X, Y
        <4>2. /\ IsFiniteSet(X \ Y)
              /\ Cardinality(X \ Y) = Cardinality(X) - Cardinality(X \cap Y)
          BY <4>1, FS_Difference
        <4>3. /\ IsFiniteSet(X \ Y)
              /\ Cardinality(X \ Y) = Cardinality(X) - Cardinality(Y)
          BY <4>1, <4>2
        <4> QED
          BY <4>3 DEF X, Y
      <3>4. /\ Cardinality(ToSet(out') \cap After(hits, next)) \in Nat
            /\ Cardinality(ToSet(out') \cap After(hits, next)) <=
                 Cardinality(O \cap A) - Cardinality(O \cap P)
        BY <3>1, <3>3, NoMore
      <3> QED
        BY <3>4, <2>1, <2>3, <2>4, <1>4
    <2>8. FewAreRepeated'
      <3>1. CASE IsLast(page)
        BY <3>1, <1>1 DEF FewAreRepeated
      <3>2. CASE ~IsLast(page)
        <4>1. ToBeRepeated' = ToSet(out') \cap After(hits, next)
          BY <3>2, <1>1 DEF ToBeRepeated
        <4>2. Len(out') - Cardinality(ToSet(out'))
                + Cardinality(ToBeRepeated') <= inserted'
          BY <4>1, <2>7, <3>2, <1>1
        <4> QED
          BY <4>2 DEF FewAreRepeated
      <3> QED
        BY <3>1, <3>2
    <2> QED
      BY <2>6, <2>8
  <1>12. (pc = "start" => from = 0 /\ out = <<>>)'
    BY <1>1
  <1> QED
    BY <1>7, <1>8, <1>9, <1>10, <1>11, <1>12 DEF IInv

(* A change of the index keeps the invariant if it counts as a hit that    *)
(* went what it brings in front of the offset, and as one that came what   *)
(* it brings behind it.                                                    *)
LEMMA ChangeKeeps ==
  ASSUME IInv, Shift,
         hits' \in Seq(Selected), IsInjective(hits'),
         steady' \subseteq ToSet(hits'),
         inserted' = inserted \/ inserted' = inserted + 1,
         removed' = removed \/ removed' = removed + 1,
         inserted + removed < MaxChanges,
         Len(hits') = Len(hits) + (inserted' - inserted) - (removed' - removed),
         removed' = removed => MissedSoFar' \subseteq MissedSoFar,
         AtMostOneNew(MissedSoFar', MissedSoFar),
         inserted' = inserted => ToBeRepeated' \subseteq ToBeRepeated,
         AtMostOneNew(ToBeRepeated', ToBeRepeated)
  PROVE  IInv'
  <1>1. /\ pc = "fetch" /\ pc' = "fetch"
        /\ UNCHANGED <<includes, excludes, from, out, initially>>
    BY DEF Shift, query
  <1>2. /\ TypeOK /\ MaxChanges \in Nat
        /\ from \in Nat /\ Len(hits) \in Nat /\ Len(out) \in Nat
        /\ Cardinality(ToSet(out)) \in Nat
        /\ initially \in Nat /\ inserted \in Nat /\ removed \in Nat
        /\ IsFiniteSet(MissedSoFar) /\ Cardinality(MissedSoFar) \in Nat
        /\ IsFiniteSet(ToBeRepeated) /\ Cardinality(ToBeRepeated) \in Nat
    BY PartsAreFinite, SearchAssumption DEF IInv
  <1>3. TypeOK'
    <2>1. {initially, inserted', removed'} \subseteq Nat
      BY <1>2
    <2>2. inserted' + removed' <= 2 * MaxChanges
      <3>1. inserted + removed + 2 <= MaxChanges + 1 /\ 1 <= MaxChanges
        BY <1>2
      <3> QED
        BY <3>1, <1>2
    <2> QED
      BY <2>1, <2>2, <1>1, <1>2 DEF TypeOK, Selected
  <1>4. (ToSet(out) \subseteq Selected)'
    BY <1>1 DEF IInv, Selected
  <1>5. LengthIsCounted' /\ OffsetWithinHits'
    <2>1. LengthIsCounted /\ OffsetWithinHits
      BY DEF IInv
    <2>2. LengthIsCounted'
      <3>1. inserted' \in Nat /\ removed' \in Nat
        BY <1>2
      <3>2. Len(hits) = initially + inserted - removed
        BY <2>1 DEF LengthIsCounted
      <3>3. Len(hits') = initially + inserted' - removed'
        <4> DEFINE a == inserted'
                   b == removed'
                   l == Len(hits')
        <4>1. /\ a \in Nat /\ b \in Nat /\ Len(hits) \in Nat
              /\ initially \in Nat /\ inserted \in Nat /\ removed \in Nat
          BY <3>1, <1>2
        <4>2. l = Len(hits) + (a - inserted) - (b - removed)
          OBVIOUS
        <4> HIDE DEF a, b, l
        <4>3. l = initially + a - b
          BY <4>1, <4>2, <3>2
        <4> QED
          BY <4>3 DEF a, b, l
      <3> QED
        BY <3>3, <1>1 DEF LengthIsCounted
    <2>3. OffsetWithinHits'
      BY <2>1, <1>1, <1>2 DEF OffsetWithinHits
    <2> QED
      BY <2>2, <2>3
  <1>6. FewAreMissed' /\ MissesOnlyWhatShifted'
    <2>1. Cardinality(MissedSoFar) <= removed
      BY <1>1 DEF IInv, FewAreMissed
    <2>2. CASE removed' = removed
      <3>1. /\ Cardinality(MissedSoFar') \in Nat
            /\ Cardinality(MissedSoFar') <= Cardinality(MissedSoFar)
        BY <2>2, <1>2, NoMore
      <3>2. Cardinality(MissedSoFar') <= removed'
        BY <3>1, <2>1, <2>2, <1>2
      <3> QED
        BY <3>2, <1>1 DEF FewAreMissed, MissesOnlyWhatShifted
    <2>3. CASE removed' = removed + 1
      <3>1. /\ Cardinality(MissedSoFar') \in Nat
            /\ Cardinality(MissedSoFar') <= Cardinality(MissedSoFar) + 1
        BY <1>2, OneMore
      <3>2. Cardinality(MissedSoFar') <= removed'
        BY <3>1, <2>1, <2>3, <1>2
      <3> QED
        BY <3>2, <1>1 DEF FewAreMissed, MissesOnlyWhatShifted
    <2> QED
      BY <2>2, <2>3
  <1>7. FewAreRepeated' /\ RepeatsOnlyWhatShifted'
    <2>1. Len(out) - Cardinality(ToSet(out)) + Cardinality(ToBeRepeated)
            <= inserted
      BY <1>1 DEF IInv, FewAreRepeated
    <2>2. Len(out) - Cardinality(ToSet(out)) <= inserted
      BY <2>1, <1>2
    <2>3. RepeatsOnlyWhatShifted'
      <3>1. Len(out) - Cardinality(ToSet(out)) <= inserted'
        BY <2>2, <1>2
      <3> QED
        BY <3>1, <1>1 DEF RepeatsOnlyWhatShifted
    <2>4. Len(out) - Cardinality(ToSet(out)) + Cardinality(ToBeRepeated')
            <= inserted'
      <3>1. CASE inserted' = inserted
        <4>1. /\ Cardinality(ToBeRepeated') \in Nat
              /\ Cardinality(ToBeRepeated') <= Cardinality(ToBeRepeated)
          BY <3>1, <1>2, NoMore
        <4> QED
          BY <4>1, <3>1, <2>1, <1>2
      <3>2. CASE inserted' = inserted + 1
        <4>1. /\ Cardinality(ToBeRepeated') \in Nat
              /\ Cardinality(ToBeRepeated') <= Cardinality(ToBeRepeated) + 1
          BY <1>2, OneMore
        <4> QED
          BY <4>1, <3>2, <2>1, <1>2
      <3> QED
        BY <3>1, <3>2
    <2>5. FewAreRepeated'
      BY <2>4, <1>1 DEF FewAreRepeated
    <2> QED
      BY <2>3, <2>5
  <1>8. (pc = "start" => from = 0 /\ out = <<>>)'
    BY <1>1
  <1> QED
    BY <1>3, <1>4, <1>5, <1>6, <1>7, <1>8 DEF IInv

(* A hit that comes is not among those that were there all the time, so it *)
(* cannot be missed; it, or the one it moves over the offset, may come     *)
(* once more.                                                              *)
LEMMA AddedKeeps ==
  ASSUME IInv, NEW e \in Entities, NEW j \in 1..Len(hits) + 1, Added(e, j)
  PROVE  IInv'
  <1>1. /\ Shift /\ inserted + removed < MaxChanges
        /\ e \in Selected /\ e \notin ToSet(hits)
        /\ hits' = InsertAt(hits, j, e)
        /\ inserted' = inserted + 1 /\ removed' = removed /\ steady' = steady
    BY DEF Added
  <1>2. /\ TypeOK /\ hits \in Seq(Selected) /\ IsInjective(hits)
        /\ steady \subseteq ToSet(hits)
        /\ from \in Nat /\ inserted \in Nat /\ removed \in Nat
        /\ Len(hits) \in Nat
    BY PartsAreFinite DEF IInv, TypeOK
  <1>3. hits' \in Seq(Selected) /\ Len(hits') = Len(hits) + 1
    <2>1. /\ InsertAt(hits, j, e) \in Seq(Selected)
          /\ Len(InsertAt(hits, j, e)) = Len(hits) + 1
      BY <1>1, <1>2, InsertPlaces
    <2> QED
      BY <2>1, <1>1
  <1>4. /\ IsInjective(hits')
        /\ ToSet(hits') = ToSet(hits) \cup {e}
        /\ j <= from => /\ UpTo(hits', from) \subseteq
                             UpTo(hits, from - 1) \cup {e}
                        /\ After(hits', from) \subseteq After(hits, from - 1)
        /\ j > from => /\ UpTo(hits', from) \subseteq UpTo(hits, from)
                       /\ After(hits', from) \subseteq
                            After(hits, from) \cup {e}
    BY <1>1, <1>2, InsertParts
  <1>5. /\ UpTo(hits, from - 1) \subseteq UpTo(hits, from)
        /\ After(hits, from - 1) \subseteq After(hits, from) \cup {hits[from]}
    BY <1>2, PartsOf
  <1>6. j <= from \/ j > from
    BY <1>2
  <1>7. from' = from /\ out' = out
    BY <1>1 DEF Shift
  <1>8. MissedSoFar' \subseteq MissedSoFar
    BY <1>1, <1>2, <1>4, <1>5, <1>6, <1>7 DEF MissedSoFar
  <1>9. AtMostOneNew(ToBeRepeated', ToBeRepeated)
    <2>1. CASE j <= from
      <3>1. ToBeRepeated' \subseteq ToBeRepeated \cup {hits[from]}
        BY <2>1, <1>4, <1>5, <1>7 DEF ToBeRepeated
      <3> QED
        BY <3>1 DEF AtMostOneNew
    <2>2. CASE j > from
      <3>1. ToBeRepeated' \subseteq ToBeRepeated \cup {e}
        BY <2>2, <1>4, <1>7 DEF ToBeRepeated
      <3> QED
        BY <3>1 DEF AtMostOneNew
    <2> QED
      BY <2>1, <2>2, <1>6
  <1>10. AtMostOneNew(MissedSoFar', MissedSoFar)
    BY <1>8 DEF AtMostOneNew
  <1>11. /\ Len(hits') =
              Len(hits) + (inserted' - inserted) - (removed' - removed)
         /\ inserted' # inserted
    BY <1>1, <1>2, <1>3
  <1>12. steady' \subseteq ToSet(hits')
    BY <1>1, <1>2, <1>4
  <1> QED
    BY <1>1, <1>3, <1>4, <1>8, <1>9, <1>10, <1>11, <1>12, ChangeKeeps

(* A hit that goes can only move one that was not fetched yet over the     *)
(* offset, which counts as missed.                                         *)
LEMMA DroppedKeeps ==
  ASSUME IInv, NEW i \in 1..Len(hits), Dropped(i)
  PROVE  IInv'
  <1>1. /\ Shift /\ inserted + removed < MaxChanges
        /\ hits' = RemoveAt(hits, i)
        /\ steady' = steady \ {hits[i]}
        /\ removed' = removed + 1 /\ inserted' = inserted
    BY DEF Dropped
  <1>2. /\ TypeOK /\ hits \in Seq(Selected) /\ IsInjective(hits)
        /\ steady \subseteq ToSet(hits)
        /\ from \in Nat /\ inserted \in Nat /\ removed \in Nat
        /\ Len(hits) \in Nat
    BY PartsAreFinite DEF IInv, TypeOK
  <1>3. hits' \in Seq(Selected) /\ Len(hits') = Len(hits) - 1
    BY <1>1, <1>2, RemovePlaces
  <1>4. /\ IsInjective(hits')
        /\ ToSet(hits') = ToSet(hits) \ {hits[i]}
        /\ i <= from => /\ UpTo(hits', from) \subseteq UpTo(hits, from + 1)
                        /\ After(hits', from) \subseteq After(hits, from + 1)
        /\ i > from => /\ UpTo(hits', from) \subseteq UpTo(hits, from)
                       /\ After(hits', from) \subseteq After(hits, from)
    BY <1>1, <1>2, RemoveParts
  <1>5. /\ UpTo(hits, from + 1) \subseteq UpTo(hits, from) \cup {hits[from + 1]}
        /\ After(hits, from + 1) \subseteq After(hits, from)
    BY <1>2, PartsOf
  <1>6. i <= from \/ i > from
    BY <1>2
  <1>7. from' = from /\ out' = out
    BY <1>1 DEF Shift
  <1>8. MissedSoFar' \subseteq MissedSoFar \cup {hits[from + 1]}
    BY <1>1, <1>4, <1>5, <1>6, <1>7 DEF MissedSoFar
  <1>9. ToBeRepeated' \subseteq ToBeRepeated
    BY <1>4, <1>5, <1>6, <1>7 DEF ToBeRepeated
  <1>10. /\ AtMostOneNew(MissedSoFar', MissedSoFar)
         /\ AtMostOneNew(ToBeRepeated', ToBeRepeated)
    BY <1>8, <1>9 DEF AtMostOneNew
  <1>11. /\ Len(hits') =
              Len(hits) + (inserted' - inserted) - (removed' - removed)
         /\ removed' # removed
    BY <1>1, <1>2, <1>3
  <1>12. steady' \subseteq ToSet(hits')
    BY <1>1, <1>2, <1>4
  <1> QED
    BY <1>1, <1>3, <1>4, <1>9, <1>10, <1>11, <1>12, ChangeKeeps

(* A hit that moves crosses the offset at most once, and pushes at most    *)
(* one other hit over it the other way.                                    *)
LEMMA ReindexedKeeps ==
  ASSUME IInv, NEW i \in 1..Len(hits), NEW j \in 1..Len(hits), Reindexed(i, j)
  PROVE  IInv'
  <1>1. /\ Shift /\ inserted + removed < MaxChanges
        /\ hits' = InsertAt(RemoveAt(hits, i), j, hits[i])
        /\ steady' = steady
        /\ removed' = removed + 1 /\ inserted' = inserted + 1
    BY DEF Reindexed
  <1>2. /\ TypeOK /\ hits \in Seq(Selected) /\ IsInjective(hits)
        /\ steady \subseteq ToSet(hits)
        /\ from \in Nat /\ inserted \in Nat /\ removed \in Nat
        /\ Len(hits) \in Nat
    BY PartsAreFinite DEF IInv, TypeOK
  <1>3. /\ hits' \in Seq(Selected) /\ Len(hits') = Len(hits)
        /\ IsInjective(hits') /\ ToSet(hits') = ToSet(hits)
        /\ AtMostOneNew(UpTo(hits', from), UpTo(hits, from))
        /\ AtMostOneNew(After(hits', from), After(hits, from))
    <2> DEFINE s == hits
               t == hits'
    <2>1. /\ s \in Seq(Selected) /\ IsInjective(s)
          /\ i \in 1..Len(s) /\ j \in 1..Len(s)
          /\ t = InsertAt(RemoveAt(s, i), j, s[i])
          /\ from \in Nat
      BY <1>1, <1>2
    <2> HIDE DEF s, t
    <2>2. t \in Seq(Selected) /\ Len(t) = Len(s)
      BY <2>1, MovePlaces
    <2>3. IsInjective(t) /\ ToSet(t) = ToSet(s)
      BY <2>1, MovePlaces
    <2>4. /\ AtMostOneNew(UpTo(t, from), UpTo(s, from))
          /\ AtMostOneNew(After(t, from), After(s, from))
      BY <2>1, MovePlaces
    <2> QED
      BY <2>2, <2>3, <2>4 DEF s, t
  <1>4. from' = from /\ out' = out
    BY <1>1 DEF Shift
  <1>5. AtMostOneNew(MissedSoFar', MissedSoFar)
    <2>1. PICK x : UpTo(hits', from) \subseteq UpTo(hits, from) \cup {x}
      BY <1>3 DEF AtMostOneNew
    <2>2. MissedSoFar' \subseteq MissedSoFar \cup {x}
      BY <2>1, <1>1, <1>4 DEF MissedSoFar
    <2> QED
      BY <2>2 DEF AtMostOneNew
  <1>6. AtMostOneNew(ToBeRepeated', ToBeRepeated)
    <2>1. PICK x : After(hits', from) \subseteq After(hits, from) \cup {x}
      BY <1>3 DEF AtMostOneNew
    <2>2. ToBeRepeated' \subseteq ToBeRepeated \cup {x}
      BY <2>1, <1>4 DEF ToBeRepeated
    <2> QED
      BY <2>2 DEF AtMostOneNew
  <1>7. /\ Len(hits') =
             Len(hits) + (inserted' - inserted) - (removed' - removed)
        /\ inserted' # inserted /\ removed' # removed
    BY <1>1, <1>2, <1>3
  <1>8. steady' \subseteq ToSet(hits')
    BY <1>1, <1>2, <1>3
  <1> QED
    BY <1>1, <1>3, <1>5, <1>6, <1>7, <1>8, ChangeKeeps

(* Nothing changes.                                                        *)
LEMMA StutterKeeps ==
  ASSUME IInv, UNCHANGED vars
  PROVE  IInv'
  <1>1. UNCHANGED <<includes, excludes, hits, pc, from, out, steady, initially,
                    inserted, removed>>
    BY DEF vars, query, history
  <1> QED
    BY <1>1 DEF IInv, TypeOK, Selected, LengthIsCounted, OffsetWithinHits,
                FewAreMissed, MissesOnlyWhatShifted, FewAreRepeated,
                RepeatsOnlyWhatShifted, MissedSoFar, ToBeRepeated

-----------------------------------------------------------------------------
(* The theorems.                                                           *)

(* The invariant: at any time no more is missing of what was asked for,    *)
(* and no more is to come again, than the index has shifted.               *)
THEOREM InductiveInvariant == Spec => []IInv
  <1>1. Init => IInv
    BY InitHolds
  <1>2. IInv /\ [Next]_vars => IInv'
    <2> SUFFICES ASSUME IInv, [Next]_vars
                 PROVE  IInv'
      OBVIOUS
    <2>1. CASE Begin
      BY <2>1, BeginKeeps
    <2>2. CASE FetchPage
      BY <2>2, FetchPageKeeps
    <2>3. CASE FetchFails
      BY <2>3, FetchFailsKeeps
    <2>4. ASSUME NEW e \in Entities, NEW j \in 1..Len(hits) + 1, Added(e, j)
          PROVE  IInv'
      BY <2>4, AddedKeeps
    <2>5. ASSUME NEW i \in 1..Len(hits), Dropped(i)
          PROVE  IInv'
      BY <2>5, DroppedKeeps
    <2>6. ASSUME NEW i \in 1..Len(hits), NEW j \in 1..Len(hits),
                 Reindexed(i, j)
          PROVE  IInv'
      BY <2>6, ReindexedKeeps
    <2>7. CASE UNCHANGED vars
      BY <2>7, StutterKeeps
    <2> QED
      BY <2>1, <2>2, <2>3, <2>4, <2>5, <2>6, <2>7 DEF Next, Others
  <1> QED
    BY <1>1, <1>2, PTL DEF Spec

(* The types of the search's state (SearchEntities).                       *)
THEOREM TypeCorrect == Spec => []TypeOK
  <1>1. IInv => TypeOK
    BY DEF IInv
  <1> QED
    BY <1>1, InductiveInvariant, PTL

(* "SearchEntities returns every entity" (entitytag.go:45), whatever the   *)
(* size of the index and the pages: of those that match during the whole   *)
(* search no more are missing than there were hits that went or moved      *)
(* meanwhile, and none is in an index that only grows.                     *)
THEOREM MissesAreBounded == Spec => []MissesOnlyWhatShifted
  <1>1. IInv => MissesOnlyWhatShifted
    BY DEF IInv
  <1> QED
    BY <1>1, InductiveInvariant, PTL

(* SearchEntities returns nothing twice but for the hits that came or      *)
(* moved during the search.                                                *)
THEOREM RepeatsAreBounded == Spec => []RepeatsOnlyWhatShifted
  <1>1. IInv => RepeatsOnlyWhatShifted
    BY DEF IInv
  <1> QED
    BY <1>1, InductiveInvariant, PTL

(* The loop of SearchEntities asks for no page beyond the hits there ever  *)
(* were, be their number a multiple of the page size or not.               *)
THEOREM OffsetIsBounded == Spec => []OffsetWithinHits
  <1>1. IInv => OffsetWithinHits
    BY DEF IInv
  <1> QED
    BY <1>1, InductiveInvariant, PTL

=============================================================================
