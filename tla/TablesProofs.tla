---------------------------- MODULE TablesProofs ----------------------------
(***************************************************************************)
(* Proofs about CordTables, for any number of cords, any hash function,    *)
(* any initial number of buckets and any threshold: the links of the       *)
(* handles are doubly linked lists, in the order of insertion and in each  *)
(* bucket, and the tables implement CordQueues.                            *)
(***************************************************************************)
EXTENDS CordTables, SequenceTheorems, FiniteSetTheorems, WellFoundedInduction, TLAPS

-----------------------------------------------------------------------------
(* Sequences. *)

(* A set of natural numbers that is not empty has a smallest element.      *)
LEMMA LeastNumber ==
  ASSUME NEW T \in SUBSET Nat, T # {}
  PROVE  \E n \in T : \A m \in T : n <= m
<1> DEFINE R == {ss \in Nat \X Nat : ss[1] < ss[2]}
<1>1. OpToRel(<, Nat) = R
  BY DEF OpToRel
<1>2. IsWellFoundedOn(R, Nat)
  BY <1>1, NatLessThanWellFounded
<1>3. \A x, y \in Nat : <<y, x>> \in R <=> y < x
  OBVIOUS
<1> HIDE DEF R
<1>4. PICK n \in T : \A m \in T : ~(<<m, n>> \in R)
  BY <1>2, WFMin
<1>5. \A m \in T : n \in Nat /\ m \in Nat /\ ~(m < n)
  BY <1>3, <1>4
<1> QED BY <1>5

(* Induction, for a set of natural numbers instead of a predicate.         *)
LEMMA SetInduction ==
  ASSUME NEW T \in SUBSET Nat, 0 \in T, \A n \in T : n + 1 \in T
  PROVE  \A n \in Nat : n \in T
<1> SUFFICES ASSUME Nat \ T # {} PROVE FALSE
  OBVIOUS
<1>1. PICK n \in Nat \ T : \A m \in Nat \ T : n <= m
  BY LeastNumber
<1>2. n - 1 \in Nat /\ ~(n <= n - 1)
  BY <1>1
<1>3. n - 1 \in T
  BY <1>1, <1>2
<1> QED BY <1>1, <1>2, <1>3

(* The elements of an appended list. *)
LEMMA AppendElements ==
  ASSUME NEW S, NEW s \in Seq(S), NEW e \in S
  PROVE  /\ Append(s, e) \in Seq(S)
         /\ ToSet(Append(s, e)) = ToSet(s) \cup {e}
         /\ IsInjective(s) /\ e \notin ToSet(s) => IsInjective(Append(s, e))
<1> DEFINE t == Append(s, e)
<1>1. /\ t \in Seq(S)
      /\ Len(t) = Len(s) + 1
      /\ \A i \in 1 .. Len(s) : t[i] = s[i]
      /\ t[Len(s) + 1] = e
  BY AppendProperties
<1>2. DOMAIN s = 1 .. Len(s) /\ DOMAIN t = 1 .. Len(t) /\ Len(s) \in Nat
  BY <1>1, LenProperties
<1> HIDE DEF t
<1>3. ToSet(t) \subseteq ToSet(s) \cup {e}
  BY <1>1, <1>2 DEF ToSet
<1>4. ToSet(s) \cup {e} \subseteq ToSet(t)
  BY <1>1, <1>2 DEF ToSet
<1>5. IsInjective(s) /\ e \notin ToSet(s) => IsInjective(t)
  BY <1>1, <1>2 DEF IsInjective, ToSet
<1> QED BY <1>1, <1>3, <1>4, <1>5 DEF t

(* A removed element leaves the others in their order, those behind it one *)
(* position further ahead.                                                 *)
LEMMA RemoveAtShape ==
  ASSUME NEW S, NEW s \in Seq(S), NEW i \in DOMAIN s
  PROVE  /\ RemoveAt(s, i) \in Seq(S)
         /\ Len(RemoveAt(s, i)) = Len(s) - 1
         /\ \A j \in 1 .. Len(s) - 1 :
              RemoveAt(s, i)[j] = IF j < i THEN s[j] ELSE s[j + 1]
<1> DEFINE a == SubSeq(s, 1, i - 1)
           b == SubSeq(s, i + 1, Len(s))
<1>1. Len(s) \in Nat /\ DOMAIN s = 1 .. Len(s) /\ s \in [1 .. Len(s) -> S]
  BY LenProperties
<1>2. i \in 1 .. Len(s)
  BY <1>1
<1>3. /\ a \in Seq(S)
      /\ Len(a) = i - 1
      /\ \A j \in 1 .. i - 1 : a[j] = s[j]
  <2>1. \A j \in 1 .. i - 1 : s[j] \in S
    BY <1>1, <1>2
  <2>2. /\ a \in Seq(S)
        /\ Len(a) = IF 1 <= i - 1 THEN i - 1 - 1 + 1 ELSE 0
        /\ \A j \in 1 .. i - 1 - 1 + 1 : a[j] = s[1 + j - 1]
    BY <1>2, <2>1, SubSeqProperties
  <2> QED BY <1>2, <2>2
<1>4. /\ b \in Seq(S)
      /\ Len(b) = Len(s) - i
      /\ \A j \in 1 .. Len(s) - i : b[j] = s[i + j]
  <2>1. \A j \in i + 1 .. Len(s) : s[j] \in S
    BY <1>1, <1>2
  <2>2. /\ b \in Seq(S)
        /\ Len(b) = IF i + 1 <= Len(s) THEN Len(s) - (i + 1) + 1 ELSE 0
        /\ \A j \in 1 .. Len(s) - (i + 1) + 1 : b[j] = s[(i + 1) + j - 1]
    BY <1>1, <1>2, <2>1, SubSeqProperties
  <2> QED BY <1>1, <1>2, <2>2
<1> HIDE DEF a, b
<1>5. /\ a \o b \in Seq(S)
      /\ Len(a \o b) = Len(a) + Len(b)
      /\ \A j \in 1 .. Len(a) + Len(b) :
           (a \o b)[j] = IF j <= Len(a) THEN a[j] ELSE b[j - Len(a)]
  BY <1>3, <1>4, ConcatProperties
<1>6. RemoveAt(s, i) = a \o b
  BY DEF RemoveAt, a, b
<1>7. \A j \in 1 .. Len(s) - 1 : (a \o b)[j] = IF j < i THEN s[j] ELSE s[j + 1]
  <2> SUFFICES ASSUME NEW j \in 1 .. Len(s) - 1
               PROVE  (a \o b)[j] = IF j < i THEN s[j] ELSE s[j + 1]
    OBVIOUS
  <2>1. CASE j < i
    BY <2>1, <1>1, <1>2, <1>3, <1>4, <1>5
  <2>2. CASE ~(j < i)
    <3>1. j - Len(a) \in 1 .. Len(s) - i /\ i + (j - Len(a)) = j + 1 /\ ~(j <= Len(a))
      BY <2>2, <1>1, <1>2, <1>3
    <3>2. b[j - Len(a)] = s[j + 1]
      BY <3>1, <1>4
    <3>3. j \in 1 .. Len(a) + Len(b)
      BY <1>1, <1>2, <1>3, <1>4
    <3>4. (a \o b)[j] = b[j - Len(a)]
      BY <3>1, <3>3, <1>5
    <3> QED BY <2>2, <3>2, <3>4
  <2> QED BY <2>1, <2>2
<1>8. Len(a) + Len(b) = Len(s) - 1
  BY <1>1, <1>2, <1>3, <1>4
<1> QED BY <1>5, <1>6, <1>7, <1>8

(* The elements that are left when one is removed. *)
LEMMA RemoveAtElements ==
  ASSUME NEW S, NEW s \in Seq(S), NEW i \in DOMAIN s, IsInjective(s)
  PROVE  /\ RemoveAt(s, i) \in Seq(S)
         /\ IsInjective(RemoveAt(s, i))
         /\ ToSet(RemoveAt(s, i)) = ToSet(s) \ {s[i]}
<1> DEFINE r == RemoveAt(s, i)
<1>1. /\ r \in Seq(S)
      /\ Len(r) = Len(s) - 1
      /\ \A j \in 1 .. Len(s) - 1 : r[j] = IF j < i THEN s[j] ELSE s[j + 1]
  BY RemoveAtShape
<1>2. /\ DOMAIN s = 1 .. Len(s)
      /\ DOMAIN r = 1 .. Len(s) - 1
      /\ Len(s) \in Nat
      /\ i \in 1 .. Len(s)
  BY <1>1, LenProperties
<1> HIDE DEF r
<1>3. IsInjective(r)
  <2> SUFFICES ASSUME NEW j \in 1 .. Len(s) - 1, NEW k \in 1 .. Len(s) - 1, r[j] = r[k]
               PROVE  j = k
    BY <1>2 DEF IsInjective
  <2> DEFINE to(m) == IF m < i THEN m ELSE m + 1
  <2>1. to(j) \in DOMAIN s /\ to(k) \in DOMAIN s
    BY <1>2
  <2>2. s[to(j)] = s[to(k)]
    BY <1>1
  <2>3. to(j) = to(k)
    <3> HIDE DEF to
    <3> QED BY <2>1, <2>2 DEF IsInjective
  <2> QED BY <2>3, <1>2
<1>4. ToSet(r) \subseteq ToSet(s) \ {s[i]}
  BY <1>1, <1>2 DEF IsInjective, ToSet
<1>5. ToSet(s) \ {s[i]} \subseteq ToSet(r)
  <2> SUFFICES ASSUME NEW k \in 1 .. Len(s), k # i
               PROVE  s[k] \in ToSet(r)
    BY <1>2 DEF ToSet
  <2>1. CASE k < i
    BY <2>1, <1>1, <1>2 DEF ToSet
  <2>2. CASE k > i
    <3>1. k - 1 \in 1 .. Len(s) - 1 /\ r[k - 1] = s[k]
      BY <2>2, <1>1, <1>2
    <3> QED BY <3>1, <1>2 DEF ToSet
  <2> QED BY <2>1, <2>2, <1>2
<1> QED BY <1>1, <1>3, <1>4, <1>5 DEF r

-----------------------------------------------------------------------------
(* Doubly linked lists. *)

(* The cords of s are linked in both directions, in their order; that is   *)
(* all that matters of links.                                              *)
DList(s, first, nxt, prv) ==
  /\ s \in Seq(Cords) /\ IsInjective(s)
  /\ first = IF s = << >> THEN NULL ELSE s[1]
  /\ \A i \in 1 .. Len(s) : nxt[s[i]] = IF i = Len(s) THEN NULL ELSE s[i + 1]
  /\ \A i \in 1 .. Len(s) : prv[s[i]] = IF i = 1 THEN NULL ELSE s[i - 1]

Link  == Cords \cup {NULL}
Links == [Cords -> Link]

(* The links of the cords in S are as before.                              *)
SameLinks(S, nxt, prv, nxt2, prv2) ==
  \A c \in S : nxt2[c] = nxt[c] /\ prv2[c] = prv[c]

(* Those of all others are. *)
OtherLinks(S, nxt, prv, nxt2, prv2) ==
  \A c \in Cords : c \notin S => nxt2[c] = nxt[c] /\ prv2[c] = prv[c]

(* c is linked before the cord first, if there is one.                     *)
Joined(nxt, prv, c, first, nxt2, prv2) ==
  /\ nxt2[c] = first /\ prv2[c] = NULL
  /\ first # NULL => prv2[first] = c
  /\ \A d \in Cords : /\ d # c => nxt2[d] = nxt[d]
                      /\ d # c /\ d # first => prv2[d] = prv[d]

(* The constants. *)
LEMMA Basics ==
  /\ IsFiniteSet(Cords) /\ NULL \notin Cords
  /\ InitialNum \in Nat \ {0}
BY CordTablesAssumption

(* What a doubly linked list says of its cords: there are no more in it   *)
(* than there are, and none is NULL.                                       *)
LEMMA DListFacts ==
  ASSUME NEW s, NEW first, NEW nxt, NEW prv, DList(s, first, nxt, prv)
  PROVE  /\ s \in Seq(Cords) /\ Len(s) \in Nat /\ DOMAIN s = 1 .. Len(s)
         /\ \A i \in 1 .. Len(s) : s[i] \in Cords /\ s[i] \in ToSet(s) /\ s[i] # NULL
         /\ \A i, j \in 1 .. Len(s) : s[i] = s[j] => i = j
         /\ s = << >> <=> Len(s) = 0
         /\ ToSet(s) \subseteq Cords
         /\ Len(s) <= Cardinality(Cords) /\ Cardinality(Cords) \in Nat
<1>1. s \in Seq(Cords) /\ IsInjective(s)
  BY DEF DList
<1>2. Len(s) \in Nat /\ DOMAIN s = 1 .. Len(s) /\ (s = << >> <=> Len(s) = 0)
  BY <1>1
<1>3. \A i \in 1 .. Len(s) : s[i] \in Cords /\ s[i] \in ToSet(s) /\ s[i] # NULL
  BY <1>1, <1>2, Basics DEF ToSet
<1>4. \A i, j \in 1 .. Len(s) : s[i] = s[j] => i = j
  BY <1>1, <1>2 DEF IsInjective
<1>5. ToSet(s) \subseteq Cords
  BY <1>2, <1>3 DEF ToSet
<1>6. Len(s) <= Cardinality(Cords) /\ Cardinality(Cords) \in Nat
  <2>1. s \in Injection(1 .. Len(s), Cords)
    BY <1>1, <1>2, <1>3, <1>4 DEF Injection, IsInjective
  <2>2. Cardinality(1 .. Len(s)) <= Cardinality(Cords)
    BY <2>1, Basics, FS_Injection
  <2>3. Cardinality(1 .. Len(s)) = Len(s)
    <3>1. 1 \in Int /\ Len(s) \in Int /\ (IF 1 > Len(s) THEN 0 ELSE Len(s) - 1 + 1) = Len(s)
      BY <1>2
    <3> QED BY <3>1, FS_Interval
  <2> QED BY <2>2, <2>3, Basics, FS_CardinalityType
<1> QED BY <1>1, <1>2, <1>3, <1>4, <1>5, <1>6

(* A prefix of a sequence, and the one that is longer by an element.       *)
LEMMA PrefixFacts ==
  ASSUME NEW s \in Seq(Cords), NEW k \in 0 .. Len(s)
  PROVE  /\ SubSeq(s, 1, k) \in Seq(Cords) /\ Len(SubSeq(s, 1, k)) = k
         /\ \A i \in 1 .. k : SubSeq(s, 1, k)[i] = s[i]
         /\ k < Len(s) => SubSeq(s, 1, k + 1) = Append(SubSeq(s, 1, k), s[k + 1])
<1>0. Len(s) \in Nat /\ k \in Nat /\ \A i \in 1 .. Len(s) : s[i] \in Cords
  OBVIOUS
<1>1. ASSUME NEW j \in 0 .. Len(s)
      PROVE  /\ SubSeq(s, 1, j) \in Seq(Cords) /\ Len(SubSeq(s, 1, j)) = j
             /\ \A i \in 1 .. j : SubSeq(s, 1, j)[i] = s[i]
  <2>1. \A i \in 1 .. j : s[i] \in Cords
    BY <1>0
  <2>2. /\ SubSeq(s, 1, j) \in Seq(Cords)
        /\ Len(SubSeq(s, 1, j)) = IF 1 <= j THEN j - 1 + 1 ELSE 0
        /\ \A i \in 1 .. j - 1 + 1 : SubSeq(s, 1, j)[i] = s[1 + i - 1]
    BY <2>1, SubSeqProperties
  <2>3. j \in Nat /\ (IF 1 <= j THEN j - 1 + 1 ELSE 0) = j /\ j - 1 + 1 = j
        /\ \A i \in 1 .. j : 1 + i - 1 = i
    BY <1>0
  <2> QED BY <2>2, <2>3
<1>2. ASSUME k < Len(s) PROVE SubSeq(s, 1, k + 1) = Append(SubSeq(s, 1, k), s[k + 1])
  <2> DEFINE a == SubSeq(s, 1, k)
             b == SubSeq(s, 1, k + 1)
             c == Append(a, s[k + 1])
  <2>1. a \in Seq(Cords) /\ Len(a) = k /\ \A i \in 1 .. k : a[i] = s[i]
    BY <1>1
  <2>2. b \in Seq(Cords) /\ Len(b) = k + 1 /\ \A i \in 1 .. k + 1 : b[i] = s[i]
    BY <1>0, <1>1, <1>2
  <2>3. s[k + 1] \in Cords
    BY <1>0, <1>2
  <2> HIDE DEF a, b
  <2>4. c \in Seq(Cords) /\ Len(c) = k + 1 /\ \A i \in 1 .. k + 1 : c[i] = s[i]
    BY <1>0, <2>1, <2>3
  <2> HIDE DEF c
  <2>5. b = c
    BY <2>2, <2>4, SeqEqual
  <2> QED BY <2>5 DEF a, b, c
<1> QED BY <1>1, <1>2

(* The path along the links is the sequence.                               *)
LEMMA PathIs ==
  ASSUME NEW s, NEW first, NEW nxt, NEW prv, DList(s, first, nxt, prv)
  PROVE  Path(first, nxt) = s
<1> DEFINE N == Cardinality(Cords) + 1
           Step(p, k) == IF k = 0 THEN << >>
                         ELSE LET r == p[k - 1]
                                  c == IF r = << >> THEN first ELSE nxt[Last(r)]
                              IN  IF c = NULL THEN r ELSE Append(r, c)
           Along(p) == p = [k \in 0 .. N |-> Step(p, k)]
           upto(k) == SubSeq(s, 1, IF k <= Len(s) THEN k ELSE Len(s))
           p0 == [k \in 0 .. N |-> upto(k)]
<1>1. /\ s \in Seq(Cords) /\ Len(s) \in Nat /\ N \in Nat /\ Len(s) < N
      /\ \A i \in 1 .. Len(s) : s[i] \in Cords /\ s[i] # NULL
      /\ s = << >> <=> Len(s) = 0
  BY DListFacts
<1>0. \A k \in 0 .. Len(s) :
        /\ SubSeq(s, 1, k) \in Seq(Cords) /\ Len(SubSeq(s, 1, k)) = k
        /\ \A i \in 1 .. k : SubSeq(s, 1, k)[i] = s[i]
        /\ k < Len(s) => SubSeq(s, 1, k + 1) = Append(SubSeq(s, 1, k), s[k + 1])
  <2>1. s \in Seq(Cords)
    BY <1>1
  <2> QED BY <2>1, PrefixFacts
<1>2. upto(0) = << >>
  <2>1. (IF 0 <= Len(s) THEN 0 ELSE Len(s)) = 0
    BY <1>1
  <2> QED BY <2>1, SubSeqEmpty
<1>3. ASSUME NEW k \in 1 .. N, NEW r, r = upto(k - 1)
      PROVE  upto(k) = LET c == IF r = << >> THEN first ELSE nxt[Last(r)]
                       IN  IF c = NULL THEN r ELSE Append(r, c)
  <2> DEFINE c == IF r = << >> THEN first ELSE nxt[Last(r)]
             m == k - 1
  <2>1. CASE k <= Len(s)
    <3>1. m \in 0 .. Len(s) /\ m < Len(s) /\ m + 1 = k /\ m <= Len(s) /\ m \in Nat
      BY <2>1, <1>1
    <3>2. r = SubSeq(s, 1, m) /\ upto(k) = SubSeq(s, 1, m + 1)
      BY <3>1, <2>1, <1>3
    <3> HIDE DEF m
    <3>3. /\ r \in Seq(Cords) /\ Len(r) = m /\ \A i \in 1 .. m : r[i] = s[i]
          /\ SubSeq(s, 1, m + 1) = Append(r, s[m + 1])
      <4>1. s \in Seq(Cords) /\ m \in 0 .. Len(s) /\ m < Len(s)
        BY <1>1, <3>1
      <4>2. /\ SubSeq(s, 1, m) \in Seq(Cords) /\ Len(SubSeq(s, 1, m)) = m
            /\ \A i \in 1 .. m : SubSeq(s, 1, m)[i] = s[i]
            /\ m < Len(s) => SubSeq(s, 1, m + 1) = Append(SubSeq(s, 1, m), s[m + 1])
        BY <4>1, <1>0
      <4> QED BY <4>1, <4>2, <3>2
    <3>4. c = s[m + 1]
      <4>1. CASE m = 0
        <5>1. r = << >>
          BY <3>3, <4>1
        <5>2. s # << >>
          BY <3>1, <4>1, <1>1
        <5> QED BY <5>1, <5>2, <4>1 DEF DList
      <4>2. CASE m # 0
        <5>1. r # << >> /\ Last(r) = s[m] /\ m \in 1 .. Len(s) /\ m # Len(s)
          BY <3>1, <3>3, <4>2 DEF Last
        <5> QED BY <5>1 DEF DList
      <4> QED BY <4>1, <4>2
    <3>5. s[m + 1] # NULL
      BY <3>1, <2>1, <1>1
    <3> QED BY <3>2, <3>3, <3>4, <3>5
  <2>2. CASE ~(k <= Len(s))
    <3>1. upto(k) = SubSeq(s, 1, Len(s)) /\ r = SubSeq(s, 1, Len(s))
      <4>1. k - 1 >= Len(s) /\ k - 1 \in Nat
        BY <2>2, <1>1
      <4> QED BY <4>1, <2>2, <1>1, <1>3
    <3>2. r = s /\ upto(k) = s
      BY <3>1, <1>1, SubSeqFull
    <3>3. c = NULL
      <4>1. CASE s = << >>
        BY <3>2, <4>1 DEF DList
      <4>2. CASE s # << >>
        <5>1. Last(r) = s[Len(s)] /\ Len(s) \in 1 .. Len(s)
          BY <3>2, <4>2, <1>1 DEF Last
        <5> QED BY <5>1, <3>2, <4>2 DEF DList
      <4> QED BY <4>1, <4>2
    <3> QED BY <3>2, <3>3
  <2> QED BY <2>1, <2>2
<1> HIDE DEF upto, N
<1>4. Along(p0)
  <2>1. \A k \in 0 .. N : p0[k] = Step(p0, k)
    <3> TAKE k \in 0 .. N
    <3>1. CASE k = 0
      BY <3>1, <1>2
    <3>2. CASE k # 0
      <4>1. k \in 1 .. N /\ k - 1 \in 0 .. N
        BY <3>2, <1>1
      <4>2. p0[k] = upto(k) /\ p0[k - 1] = upto(k - 1)
        BY <4>1
      <4> QED BY <4>1, <4>2, <3>2, <1>3
    <3> QED BY <3>1, <3>2
  <2> HIDE DEF Step
  <2> QED BY <2>1
<1> DEFINE p == CHOOSE p : Along(p)
<1>5. Along(p)
  <2> HIDE DEF Along, p0
  <2> QED BY <1>4
<1>6. Path(first, nxt) = p[N]
  BY DEF Path, N
<1> HIDE DEF p, p0
<1>7. \A k \in 0 .. N : p[k] = Step(p, k)
  <2> HIDE DEF Step
  <2> QED BY <1>5
<1> DEFINE T == {k \in Nat : k <= N => p[k] = upto(k)}
<1>8. \A k \in Nat : k \in T
  <2>1. 0 \in T
    BY <1>1, <1>2, <1>7
  <2>2. ASSUME NEW k \in T PROVE k + 1 \in T
    <3> SUFFICES ASSUME k + 1 <= N PROVE p[k + 1] = upto(k + 1)
      OBVIOUS
    <3>1. k + 1 \in 1 .. N /\ (k + 1) - 1 = k /\ k <= N /\ k + 1 \in 0 .. N /\ k + 1 # 0
      BY <1>1
    <3>2. p[k] = upto((k + 1) - 1)
      BY <3>1
    <3>3. p[k + 1] = Step(p, k + 1)
      BY <3>1, <1>7
    <3> QED BY <3>1, <3>2, <3>3, <1>3
  <2> HIDE DEF T
  <2>3. T \in SUBSET Nat
    BY DEF T
  <2> QED BY <2>1, <2>2, <2>3, SetInduction
<1>9. p[N] = upto(N)
  BY <1>1, <1>8
<1>10. upto(N) = s
  BY <1>1, SubSeqFull DEF upto
<1> QED BY <1>6, <1>9, <1>10

(* A list is left alone by whoever changes the links of others.            *)
LEMMA DListFrame ==
  ASSUME NEW s, NEW first, NEW nxt, NEW prv, DList(s, first, nxt, prv),
         NEW nxt2, NEW prv2, SameLinks(ToSet(s), nxt, prv, nxt2, prv2)
  PROVE  DList(s, first, nxt2, prv2)
<1>1. \A i \in 1 .. Len(s) : nxt2[s[i]] = nxt[s[i]] /\ prv2[s[i]] = prv[s[i]]
  BY DListFacts DEF SameLinks, OtherLinks
<1> QED BY <1>1 DEF DList

(* The list without a cord. *)
LEMMA DListEmpty ==
  ASSUME NEW nxt, NEW prv
  PROVE  DList(<< >>, NULL, nxt, prv)
<1>1. << >> \in Seq(Cords) /\ Len(<< >>) = 0 /\ IsInjective(<< >>)
  BY DEF IsInjective
<1> QED BY <1>1 DEF DList

(* The links when c comes after the last cord of s. *)
Appended(s, nxt, prv, c, nxt2, prv2) ==
  /\ nxt2[c] = NULL /\ prv2[c] = IF s = << >> THEN NULL ELSE s[Len(s)]
  /\ s # << >> => nxt2[s[Len(s)]] = c
  /\ \A d \in ToSet(s) : /\ d # s[Len(s)] => nxt2[d] = nxt[d]
                         /\ prv2[d] = prv[d]

(* A cord joins a list at its end.                                         *)
LEMMA DListAppend ==
  ASSUME NEW s, NEW first, NEW nxt \in Links, NEW prv \in Links, DList(s, first, nxt, prv),
         NEW c \in Cords, c \notin ToSet(s), NEW nxt2, NEW prv2,
         Appended(s, nxt, prv, c, nxt2, prv2)
  PROVE  DList(Append(s, c), IF s = << >> THEN c ELSE first, nxt2, prv2)
<1> DEFINE t == Append(s, c)
           n == Len(s)
<1>0. /\ nxt2[c] = NULL /\ prv2[c] = IF s = << >> THEN NULL ELSE s[Len(s)]
      /\ s # << >> => nxt2[s[Len(s)]] = c
      /\ \A d \in ToSet(s) : /\ d # s[Len(s)] => nxt2[d] = nxt[d]
                             /\ prv2[d] = prv[d]
  BY DEF Appended
<1>1. /\ s \in Seq(Cords) /\ n \in Nat /\ (s = << >> <=> n = 0)
      /\ \A i \in 1 .. n : s[i] \in Cords /\ s[i] \in ToSet(s)
      /\ \A i, j \in 1 .. n : s[i] = s[j] => i = j
  BY DListFacts
<1>2. /\ t \in Seq(Cords) /\ IsInjective(t)
      /\ Len(t) = n + 1 /\ t # << >>
      /\ \A i \in 1 .. n : t[i] = s[i]
      /\ t[n + 1] = c
  <2>1. IsInjective(s)
    BY DEF DList
  <2> QED BY <1>1, <2>1, AppendElements, AppendProperties
<1> HIDE DEF t, n
<1>3. (IF s = << >> THEN c ELSE first) = t[1]
  <2>1. CASE s = << >>
    BY <2>1, <1>1, <1>2
  <2>2. CASE s # << >>
    BY <2>2, <1>1, <1>2 DEF DList
  <2> QED BY <2>1, <2>2
<1>4. \A i \in 1 .. n + 1 : nxt2[t[i]] = IF i = n + 1 THEN NULL ELSE t[i + 1]
  <2> TAKE i \in 1 .. n + 1
  <2>1. CASE i = n + 1
    BY <2>1, <1>0, <1>2
  <2>2. CASE i = n /\ i # n + 1
    BY <2>2, <1>0, <1>1, <1>2 DEF n
  <2>3. CASE i < n
    <3>1. /\ i \in 1 .. n /\ n \in 1 .. n /\ i + 1 \in 1 .. n
          /\ i # n /\ i # n + 1 /\ s[i] # s[n] /\ s[i] \in ToSet(s)
      BY <2>3, <1>1
    <3>2. nxt2[s[i]] = nxt[s[i]]
      BY <3>1, <1>0 DEF n
    <3>3. nxt[s[i]] = s[i + 1]
      BY <3>1 DEF DList, n
    <3> QED BY <3>1, <3>2, <3>3, <1>2
  <2> QED BY <2>1, <2>2, <2>3, <1>1
<1>5. \A i \in 1 .. n + 1 : prv2[t[i]] = IF i = 1 THEN NULL ELSE t[i - 1]
  <2> TAKE i \in 1 .. n + 1
  <2>1. CASE i = n + 1
    <3>1. n = 0 \/ (n # 0 /\ n \in 1 .. n /\ i - 1 = n /\ i # 1)
      BY <2>1, <1>1
    <3> QED BY <3>1, <2>1, <1>0, <1>1, <1>2 DEF n
  <2>2. CASE i # n + 1
    <3>1. i \in 1 .. n /\ prv2[s[i]] = prv[s[i]] /\ (i # 1 => i - 1 \in 1 .. n)
      BY <2>2, <1>0, <1>1
    <3>2. prv[s[i]] = IF i = 1 THEN NULL ELSE s[i - 1]
      BY <3>1 DEF DList, n
    <3> QED BY <3>1, <3>2, <1>2
  <2> QED BY <2>1, <2>2
<1>6. DList(t, IF s = << >> THEN c ELSE first, nxt2, prv2)
  BY <1>2, <1>3, <1>4, <1>5 DEF DList
<1> QED BY <1>6 DEF t

(* A cord joins a list at its front.                                       *)
LEMMA DListPrepend ==
  ASSUME NEW s, NEW first, NEW nxt \in Links, NEW prv \in Links, DList(s, first, nxt, prv),
         NEW c \in Cords, c \notin ToSet(s), NEW nxt2, NEW prv2,
         Joined(nxt, prv, c, first, nxt2, prv2)
  PROVE  \E t : /\ DList(t, c, nxt2, prv2)
                /\ ToSet(t) = ToSet(s) \cup {c}
                /\ Len(t) = Len(s) + 1
<1>0. /\ nxt2[c] = first /\ prv2[c] = NULL
      /\ s # << >> => prv2[s[1]] = c
      /\ \A d \in ToSet(s) : /\ nxt2[d] = nxt[d]
                             /\ d # s[1] => prv2[d] = prv[d]
  <2>1. s # << >> => first = s[1] /\ first # NULL
    <3> SUFFICES ASSUME s # << >> PROVE first = s[1] /\ first # NULL
      OBVIOUS
    <3>1. 1 \in 1 .. Len(s)
      BY DListFacts
    <3> QED BY <3>1, DListFacts DEF DList
  <2>2. \A d \in ToSet(s) : d \in Cords /\ d # c /\ s # << >>
    BY DListFacts DEF ToSet
  <2> QED BY <2>1, <2>2 DEF Joined
<1> DEFINE t == <<c>> \o s
           n == Len(s)
<1>1. /\ s \in Seq(Cords) /\ n \in Nat /\ (s = << >> <=> n = 0)
      /\ \A i \in 1 .. n : s[i] \in Cords /\ s[i] \in ToSet(s)
      /\ \A i, j \in 1 .. n : s[i] = s[j] => i = j
      /\ DOMAIN s = 1 .. n
  BY DListFacts
<1>2. /\ t \in Seq(Cords) /\ Len(t) = n + 1
      /\ t[1] = c
      /\ \A i \in 1 .. n : t[i + 1] = s[i]
  <2>1. <<c>> \in Seq(Cords) /\ Len(<<c>>) = 1 /\ <<c>>[1] = c
    OBVIOUS
  <2>2. /\ t \in Seq(Cords) /\ Len(t) = 1 + n
        /\ \A i \in 1 .. 1 + n : t[i] = IF i <= 1 THEN <<c>>[i] ELSE s[i - 1]
    BY <2>1, <1>1, ConcatProperties
  <2> HIDE DEF t
  <2>3. 1 \in 1 .. 1 + n /\ \A i \in 1 .. n : i + 1 \in 1 .. 1 + n /\ ~(i + 1 <= 1) /\ (i + 1) - 1 = i
    BY <1>1
  <2>4. t[1] = c
    BY <2>1, <2>2, <2>3
  <2>5. \A i \in 1 .. n : t[i + 1] = s[i]
    BY <2>2, <2>3
  <2> QED BY <2>2, <2>4, <2>5, <1>1
<1> HIDE DEF t, n
<1>3. t # << >> /\ DOMAIN t = 1 .. n + 1
  BY <1>1, <1>2
<1>4. \A i \in 1 .. n + 1 : i = 1 \/ (i # 1 /\ i - 1 \in 1 .. n /\ (i - 1) + 1 = i /\ t[i] = s[i - 1])
  <2> TAKE i \in 1 .. n + 1
  <2>1. i = 1 \/ (i # 1 /\ i - 1 \in 1 .. n /\ (i - 1) + 1 = i)
    BY <1>1
  <2> QED BY <2>1, <1>2
<1>5. IsInjective(t)
  <2> SUFFICES ASSUME NEW i \in 1 .. n + 1, NEW j \in 1 .. n + 1, t[i] = t[j]
               PROVE  i = j
    BY <1>3 DEF IsInjective
  <2>1. CASE i = 1 /\ j = 1
    BY <2>1
  <2>2. CASE i # 1 /\ j # 1
    <3>1. i - 1 = j - 1
      BY <2>2, <1>1, <1>4
    <3> QED BY <3>1, <1>4, <2>2
  <2>3. CASE i = 1 /\ j # 1
    BY <2>3, <1>1, <1>2, <1>4
  <2>4. CASE i # 1 /\ j = 1
    BY <2>4, <1>1, <1>2, <1>4
  <2> QED BY <2>1, <2>2, <2>3, <2>4
<1>6. ToSet(t) = ToSet(s) \cup {c}
  <2>1. ASSUME NEW i \in 1 .. n + 1 PROVE t[i] \in ToSet(s) \cup {c}
    <3>1. CASE i = 1
      BY <3>1, <1>2
    <3>2. CASE i # 1
      <4>1. i - 1 \in 1 .. n /\ t[i] = s[i - 1]
        BY <3>2, <1>4
      <4> QED BY <4>1, <1>1
    <3> QED BY <3>1, <3>2
  <2>1a. ToSet(t) \subseteq ToSet(s) \cup {c}
    BY <2>1, <1>3 DEF ToSet
  <2>2. c \in ToSet(t)
    BY <1>1, <1>2, <1>3 DEF ToSet
  <2>3. ASSUME NEW i \in 1 .. n PROVE s[i] \in ToSet(t)
    <3>1. i + 1 \in 1 .. n + 1
      BY <1>1
    <3> QED BY <3>1, <1>2, <1>3 DEF ToSet
  <2>4. ToSet(s) \subseteq ToSet(t)
    BY <2>3, <1>1 DEF ToSet
  <2> QED BY <2>1a, <2>2, <2>4
<1>7. \A i \in 1 .. n + 1 : nxt2[t[i]] = IF i = n + 1 THEN NULL ELSE t[i + 1]
  <2> TAKE i \in 1 .. n + 1
  <2>1. CASE i = 1
    <3>1. CASE n = 0
      BY <3>1, <2>1, <1>0, <1>1, <1>2 DEF DList
    <3>2. CASE n # 0
      <4>1. 1 \in 1 .. n /\ i # n + 1 /\ i + 1 = 1 + 1
        BY <3>2, <2>1, <1>1
      <4>2. first = s[1] /\ t[i + 1] = s[1]
        BY <4>1, <3>2, <1>1, <1>2 DEF DList
      <4> QED BY <4>1, <4>2, <2>1, <1>0, <1>2
    <3> QED BY <3>1, <3>2, <1>0
  <2>2. CASE i # 1
    <3>1. i - 1 \in 1 .. n /\ (i - 1) + 1 = i /\ t[i] = s[i - 1]
      BY <2>2, <1>4
    <3>2. nxt2[t[i]] = nxt[s[i - 1]]
      BY <3>1, <1>0, <1>1
    <3>3. nxt[s[i - 1]] = IF i - 1 = n THEN NULL ELSE s[(i - 1) + 1]
      BY <3>1 DEF DList, n
    <3>4. i - 1 = n <=> i = n + 1
      BY <3>1, <1>1
    <3>5. i # n + 1 => i \in 1 .. n /\ t[i + 1] = s[i]
      BY <1>1, <1>2
    <3> QED BY <3>1, <3>2, <3>3, <3>4, <3>5
  <2> QED BY <2>1, <2>2
<1>8. \A i \in 1 .. n + 1 : prv2[t[i]] = IF i = 1 THEN NULL ELSE t[i - 1]
  <2> TAKE i \in 1 .. n + 1
  <2>1. CASE i = 1
    BY <2>1, <1>0, <1>2
  <2>2. CASE i = 2
    <3>1. 1 \in 1 .. n /\ i - 1 = 1 /\ t[i] = s[1] /\ s # << >>
      BY <2>2, <1>1, <1>4
    <3> QED BY <3>1, <2>2, <1>0, <1>2
  <2>3. CASE i # 1 /\ i # 2
    <3>1. /\ i - 1 \in 1 .. n /\ t[i] = s[i - 1] /\ i - 1 # 1
          /\ (i - 1) - 1 \in 1 .. n /\ ((i - 1) - 1) + 1 = i - 1 /\ 1 \in 1 .. n
      BY <2>3, <1>1, <1>4
    <3>2. s[i - 1] # s[1] /\ s[i - 1] \in ToSet(s)
      BY <3>1, <1>1
    <3>3. prv2[t[i]] = prv[s[i - 1]]
      BY <3>1, <3>2, <1>0
    <3>4. prv[s[i - 1]] = s[(i - 1) - 1]
      BY <3>1 DEF DList, n
    <3>5. t[i - 1] = s[(i - 1) - 1]
      BY <3>1, <1>2
    <3> QED BY <3>3, <3>4, <3>5, <2>3
  <2> QED BY <2>1, <2>2, <2>3
<1>9. DList(t, c, nxt2, prv2)
  BY <1>2, <1>3, <1>5, <1>7, <1>8 DEF DList
<1> QED BY <1>2, <1>6, <1>9 DEF n

(* A cord leaves a list: its neighbours get to know each other.            *)
LEMMA DListRemove ==
  ASSUME NEW s, NEW first, NEW nxt \in Links, NEW prv \in Links, DList(s, first, nxt, prv),
         NEW i \in 1 .. Len(s), NEW c, c = s[i]
  PROVE  /\ DList(RemoveAt(s, i), IF i = 1 THEN nxt[c] ELSE first,
                  Bypass(nxt, prv[c], nxt[c]), Bypass(prv, nxt[c], prv[c]))
         /\ Bypass(nxt, prv[c], nxt[c]) \in Links
         /\ Bypass(prv, nxt[c], prv[c]) \in Links
         /\ OtherLinks(ToSet(s), nxt, prv,
                      Bypass(nxt, prv[c], nxt[c]), Bypass(prv, nxt[c], prv[c]))
<1> DEFINE p == prv[c]
           m == nxt[c]
           nxt2 == Bypass(nxt, p, m)
           prv2 == Bypass(prv, m, p)
           t == RemoveAt(s, i)
           n == Len(s)
<1>1. /\ s \in Seq(Cords) /\ n \in Nat /\ (s = << >> <=> n = 0)
      /\ \A k \in 1 .. n : s[k] \in Cords /\ s[k] \in ToSet(s) /\ s[k] # NULL
      /\ \A k, l \in 1 .. n : s[k] = s[l] => k = l
      /\ DOMAIN s = 1 .. n
  BY DListFacts
<1>2. p = IF i = 1 THEN NULL ELSE s[i - 1]
  BY DEF DList
<1>3. m = IF i = n THEN NULL ELSE s[i + 1]
  BY DEF DList
<1>4. /\ i \in 1 .. n /\ i \in Int
      /\ i # 1 => i - 1 \in 1 .. n
      /\ i # n => i + 1 \in 1 .. n
  <2>1. i \in 1 .. n
    OBVIOUS
  <2> HIDE DEF n
  <2> QED BY <2>1, <1>1
<1>5. nxt2 \in Links /\ prv2 \in Links
  BY <1>1, <1>2, <1>3, <1>4 DEF Bypass, Links, Link
<1>6. \A d \in Cords : nxt2[d] = IF d = p THEN m ELSE nxt[d]
  BY Basics DEF Bypass, Links
<1>7. \A d \in Cords : prv2[d] = IF d = m THEN p ELSE prv[d]
  BY Basics DEF Bypass, Links
<1>8. OtherLinks(ToSet(s), nxt, prv, nxt2, prv2)
  <2> SUFFICES ASSUME NEW d \in Cords, d \notin ToSet(s)
               PROVE  nxt2[d] = nxt[d] /\ prv2[d] = prv[d]
    BY DEF SameLinks, OtherLinks
  <2>1. (p = NULL \/ p \in ToSet(s)) /\ (m = NULL \/ m \in ToSet(s))
    BY <1>1, <1>2, <1>3, <1>4
  <2>2. nxt2[d] = nxt[d]
    <3>1. CASE p = NULL
      BY <3>1 DEF Bypass
    <3>2. CASE p # NULL
      BY <2>1, <3>2 DEF Bypass, Links
    <3> QED BY <3>1, <3>2
  <2>3. prv2[d] = prv[d]
    <3>1. CASE m = NULL
      BY <3>1 DEF Bypass
    <3>2. CASE m # NULL
      BY <2>1, <3>2 DEF Bypass, Links
    <3> QED BY <3>1, <3>2
  <2> QED BY <2>2, <2>3
<1>9. /\ t \in Seq(Cords) /\ IsInjective(t) /\ Len(t) = n - 1
      /\ \A k \in 1 .. n - 1 : t[k] = IF k < i THEN s[k] ELSE s[k + 1]
  <2>1. s \in Seq(Cords) /\ IsInjective(s) /\ i \in DOMAIN s
    BY <1>1 DEF DList
  <2>2. t \in Seq(Cords) /\ IsInjective(t)
    BY <2>1, RemoveAtElements
  <2>3. /\ Len(t) = n - 1
        /\ \A k \in 1 .. n - 1 : t[k] = IF k < i THEN s[k] ELSE s[k + 1]
    BY <2>1, RemoveAtShape
  <2> QED BY <2>2, <2>3
<1> HIDE DEF t, n, p, m, nxt2, prv2
<1>10. t = << >> <=> n = 1
  BY <1>1, <1>4, <1>9
<1>11. (IF i = 1 THEN m ELSE first) = IF t = << >> THEN NULL ELSE t[1]
  <2>0. first = s[1] /\ (n # 1 => 1 \in 1 .. n - 1)
    BY <1>1, <1>4 DEF DList
  <2>1. CASE i = 1
    BY <2>0, <2>1, <1>3, <1>4, <1>9, <1>10
  <2>2. CASE i # 1
    <3>1. n # 1 /\ 1 < i
      BY <2>2, <1>1, <1>4
    <3> QED BY <2>0, <2>2, <3>1, <1>9, <1>10
  <2> QED BY <2>1, <2>2
<1>12. \A k \in 1 .. n - 1 : nxt2[t[k]] = IF k = n - 1 THEN NULL ELSE t[k + 1]
  <2> TAKE k \in 1 .. n - 1
  <2>0. k \in 1 .. n /\ k + 1 \in 1 .. n /\ (k # n - 1 => k + 1 \in 1 .. n - 1) /\ k # n
    BY <1>1
  <2>1. CASE k < i - 1
    <3>1. k < i /\ k + 1 < i /\ k # n - 1 /\ k # i - 1 /\ i # 1
      BY <2>0, <2>1, <1>1, <1>4
    <3>2. t[k] = s[k] /\ t[k + 1] = s[k + 1]
      BY <3>1, <2>0, <1>9
    <3>3. s[k] # p
      BY <3>1, <2>0, <1>1, <1>2, <1>4
    <3>4. nxt2[s[k]] = nxt[s[k]]
      BY <3>3, <2>0, <1>1, <1>6
    <3>5. nxt[s[k]] = s[k + 1]
      BY <2>0 DEF DList, n
    <3> QED BY <3>1, <3>2, <3>4, <3>5
  <2>2. CASE k = i - 1
    <3>1. k < i /\ i # 1 /\ ~(k + 1 < i) /\ k + 1 = i
      BY <2>0, <2>2, <1>1, <1>4
    <3>2. t[k] = s[k] /\ p = s[k]
      BY <3>1, <2>0, <2>2, <1>2, <1>9
    <3>3. nxt2[t[k]] = m
      BY <3>2, <2>0, <1>1, <1>6
    <3>4. CASE i = n
      BY <3>1, <3>3, <3>4, <1>1, <1>3
    <3>5. CASE i # n
      <4>1. k # n - 1 /\ t[k + 1] = s[i + 1]
        BY <3>1, <3>5, <2>0, <1>1, <1>9
      <4> QED BY <4>1, <3>3, <3>5, <1>3
    <3> QED BY <3>4, <3>5
  <2>3. CASE k >= i
    <3>1. ~(k < i) /\ ~(k + 1 < i) /\ (i # 1 => k + 1 # i - 1)
      BY <2>0, <2>3, <1>1, <1>4
    <3>2. t[k] = s[k + 1]
      BY <3>1, <1>9
    <3>3. s[k + 1] # p
      BY <3>1, <2>0, <1>1, <1>2, <1>4
    <3>4. nxt2[s[k + 1]] = nxt[s[k + 1]]
      BY <3>3, <2>0, <1>1, <1>6
    <3>5. nxt[s[k + 1]] = IF k + 1 = n THEN NULL ELSE s[(k + 1) + 1]
      BY <2>0 DEF DList, n
    <3>6. k # n - 1 => t[k + 1] = s[(k + 1) + 1]
      BY <3>1, <2>0, <1>9
    <3>7. k = n - 1 <=> k + 1 = n
      BY <2>0, <1>1
    <3> QED BY <3>2, <3>4, <3>5, <3>6, <3>7
  <2> QED BY <2>0, <2>1, <2>2, <2>3, <1>4
<1>13. \A k \in 1 .. n - 1 : prv2[t[k]] = IF k = 1 THEN NULL ELSE t[k - 1]
  <2> TAKE k \in 1 .. n - 1
  <2>0. /\ k \in 1 .. n /\ k + 1 \in 1 .. n /\ k \in Int
        /\ (k # 1 => k - 1 \in 1 .. n - 1) /\ k + 1 # 1 /\ (k + 1) - 1 = k
    BY <1>1
  <2>1. CASE k < i
    <3>1. k - 1 < i /\ (i # n => k # i + 1)
      BY <2>0, <2>1, <1>1, <1>4
    <3>2. t[k] = s[k] /\ (k # 1 => t[k - 1] = s[k - 1])
      BY <3>1, <2>0, <2>1, <1>9
    <3>3. s[k] # m
      BY <3>1, <2>0, <1>1, <1>3, <1>4
    <3>4. prv2[s[k]] = prv[s[k]]
      BY <3>3, <2>0, <1>1, <1>7
    <3>5. prv[s[k]] = IF k = 1 THEN NULL ELSE s[k - 1]
      BY <2>0 DEF DList, n
    <3> QED BY <3>2, <3>4, <3>5
  <2>2. CASE k = i
    <3>1. ~(k < i) /\ i # n /\ k - 1 < i
      BY <2>0, <2>2, <1>1, <1>4
    <3>2. t[k] = s[k + 1] /\ m = s[k + 1]
      BY <3>1, <2>2, <1>3, <1>9
    <3>3. prv2[t[k]] = p
      BY <3>2, <2>0, <1>1, <1>7
    <3>4. k # 1 => t[k - 1] = s[k - 1]
      BY <3>1, <2>0, <1>9
    <3> QED BY <3>3, <3>4, <2>2, <1>2
  <2>3. CASE k > i
    <3>1. ~(k < i) /\ ~(k - 1 < i) /\ k # 1 /\ (i # n => k + 1 # i + 1) /\ (k - 1) + 1 = k
      BY <2>0, <2>3, <1>1, <1>4
    <3>2. t[k] = s[k + 1] /\ t[k - 1] = s[k]
      BY <3>1, <2>0, <1>9
    <3>3. s[k + 1] # m
      BY <3>1, <2>0, <1>1, <1>3, <1>4
    <3>4. prv2[s[k + 1]] = prv[s[k + 1]]
      BY <3>3, <2>0, <1>1, <1>7
    <3>5. prv[s[k + 1]] = s[k]
      BY <2>0 DEF DList, n
    <3> QED BY <3>1, <3>2, <3>4, <3>5
  <2> QED BY <2>0, <2>1, <2>2, <2>3, <1>4
<1>14. DList(t, IF i = 1 THEN m ELSE first, nxt2, prv2)
  BY <1>9, <1>11, <1>12, <1>13 DEF DList
<1> QED BY <1>5, <1>8, <1>14 DEF t, p, m, nxt2, prv2

-----------------------------------------------------------------------------
(* The chains of the buckets. *)

Bucket == [hh_head : Link, count : Int, expand_mult : Int]

HashvType == hashv \in [Cords -> Nat]

(* The cords of S are in the n buckets, each in the chain of its hash.     *)
Chains(bkt, n, hn, hp, S) ==
  /\ n \in Nat \ {0}
  /\ bkt \in [0 .. n - 1 -> Bucket]
  /\ \A b \in 0 .. n - 1 : \E s :
       /\ DList(s, bkt[b].hh_head, hn, hp)
       /\ ToSet(s) = {c \in S : HASH_TO_BKT(c, n) = b}
       /\ bkt[b].count = Len(s)

(* There is a bucket for every cord. *)
LEMMA BucketOf ==
  ASSUME HashvType, NEW n \in Nat \ {0}, NEW c \in Cords
  PROVE  HASH_TO_BKT(c, n) \in 0 .. n - 1
<1>1. hashv[c] \in Nat
  BY DEF HashvType
<1> QED BY <1>1 DEF HASH_TO_BKT

(* Chains whose cords keep their links are as before.                      *)
LEMMA ChainsFrame ==
  ASSUME NEW S, NEW bkt, NEW n, NEW hn, NEW hp, Chains(bkt, n, hn, hp, S),
         NEW hn2, NEW hp2, SameLinks(S, hn, hp, hn2, hp2)
  PROVE  Chains(bkt, n, hn2, hp2, S)
<1>1. ASSUME NEW b \in 0 .. n - 1
      PROVE  \E s : /\ DList(s, bkt[b].hh_head, hn2, hp2)
                    /\ ToSet(s) = {c \in S : HASH_TO_BKT(c, n) = b}
                    /\ bkt[b].count = Len(s)
  <2>1. PICK s : /\ DList(s, bkt[b].hh_head, hn, hp)
                 /\ ToSet(s) = {c \in S : HASH_TO_BKT(c, n) = b}
                 /\ bkt[b].count = Len(s)
    BY DEF Chains
  <2>2. SameLinks(ToSet(s), hn, hp, hn2, hp2)
    BY <2>1 DEF SameLinks, OtherLinks
  <2>3. DList(s, bkt[b].hh_head, hn2, hp2)
    BY <2>1, <2>2, DListFrame
  <2> QED BY <2>1, <2>3
<1> QED BY <1>1 DEF Chains

(* New buckets are empty. *)
LEMMA ChainsEmpty ==
  ASSUME NEW n \in Nat \ {0}, NEW hn, NEW hp
  PROVE  Chains(Buckets(n), n, hn, hp, {})
<1>1. Buckets(n) \in [0 .. n - 1 -> Bucket]
  BY DEF Buckets, NewBucket, Bucket, Link
<1>2. ASSUME NEW b \in 0 .. n - 1
      PROVE  \E s : /\ DList(s, Buckets(n)[b].hh_head, hn, hp)
                    /\ ToSet(s) = {c \in {} : HASH_TO_BKT(c, n) = b}
                    /\ Buckets(n)[b].count = Len(s)
  <2>1. Buckets(n)[b].hh_head = NULL /\ Buckets(n)[b].count = 0
    BY DEF Buckets, NewBucket
  <2>2. ToSet(<< >>) = {} /\ Len(<< >>) = 0
    BY DEF ToSet
  <2>3. DList(<< >>, NULL, hn, hp)
    BY DListEmpty
  <2> QED BY <2>1, <2>2, <2>3
<1> QED BY <1>1, <1>2 DEF Chains

(* A cord joins the chain of its bucket, at the front.                     *)
LEMMA ChainsAdd ==
  ASSUME HashvType, NEW S \in SUBSET Cords,
         NEW bkt, NEW n, NEW hn \in Links, NEW hp \in Links, Chains(bkt, n, hn, hp, S),
         NEW c \in Cords, c \notin S, NEW b \in 0 .. n - 1, b = HASH_TO_BKT(c, n),
         NEW first, first = bkt[b].hh_head,
         NEW hn2, NEW hp2, Joined(hn, hp, c, first, hn2, hp2),
         NEW bkt2 \in [0 .. n - 1 -> Bucket],
         bkt2[b].hh_head = c, bkt2[b].count = bkt[b].count + 1,
         \A a \in 0 .. n - 1 : a # b => bkt2[a] = bkt[a]
  PROVE  Chains(bkt2, n, hn2, hp2, S \cup {c})
<1>1. n \in Nat \ {0}
  BY DEF Chains
<1>3. PICK s : /\ DList(s, first, hn, hp)
               /\ ToSet(s) = {d \in S : HASH_TO_BKT(d, n) = b}
               /\ bkt[b].count = Len(s)
  BY DEF Chains
<1>4. /\ c \notin ToSet(s)
      /\ \A i \in 1 .. Len(s) : s[i] \in Cords /\ s[i] \in ToSet(s) /\ s[i] # NULL
      /\ s = << >> <=> Len(s) = 0
      /\ Len(s) \in Nat /\ ToSet(s) \subseteq Cords
  BY <1>3, DListFacts
<1>5. first = IF s = << >> THEN NULL ELSE s[1]
  BY <1>3 DEF DList
<1>6. s # << >> => 1 \in 1 .. Len(s) /\ first \in Cords /\ first # NULL /\ first # c /\ first \in S
  BY <1>3, <1>4, <1>5
<1>12. ASSUME NEW a \in 0 .. n - 1
       PROVE  \E t : /\ DList(t, bkt2[a].hh_head, hn2, hp2)
                     /\ ToSet(t) = {d \in S \cup {c} : HASH_TO_BKT(d, n) = a}
                     /\ bkt2[a].count = Len(t)
  <2>1. CASE a = b
    <3>2. PICK t : /\ DList(t, c, hn2, hp2)
                   /\ ToSet(t) = ToSet(s) \cup {c}
                   /\ Len(t) = Len(s) + 1
      <4>1. DList(s, first, hn, hp)
        BY <1>3
      <4> QED BY <4>1, <1>4, DListPrepend
    <3>3. ToSet(t) = {d \in S \cup {c} : HASH_TO_BKT(d, n) = a}
      BY <2>1, <3>2, <1>3
    <3> QED BY <2>1, <3>2, <3>3, <1>3
  <2>2. CASE a # b
    <3>1. bkt2[a] = bkt[a]
      BY <2>2
    <3>2. PICK t : /\ DList(t, bkt[a].hh_head, hn, hp)
                   /\ ToSet(t) = {d \in S : HASH_TO_BKT(d, n) = a}
                   /\ bkt[a].count = Len(t)
      BY DEF Chains
    <3>3. SameLinks(ToSet(t), hn, hp, hn2, hp2)
      <4> SUFFICES ASSUME NEW d \in ToSet(t) PROVE hn2[d] = hn[d] /\ hp2[d] = hp[d]
        BY DEF SameLinks, OtherLinks
      <4>1. d \in S /\ d # c /\ HASH_TO_BKT(d, n) = a
        BY <3>2
      <4>2. s # << >> => HASH_TO_BKT(first, n) = b
        BY <1>3, <1>4, <1>5, <1>6
      <4>3. d # first
        BY <4>1, <4>2, <2>2, <1>5, Basics
      <4> QED BY <4>1, <4>3 DEF Joined
    <3>4. DList(t, bkt[a].hh_head, hn2, hp2)
      <4>1. DList(t, bkt[a].hh_head, hn, hp)
        BY <3>2
      <4> QED BY <4>1, <3>3, DListFrame
    <3>5. ToSet(t) = {d \in S \cup {c} : HASH_TO_BKT(d, n) = a}
      BY <2>2, <3>2
    <3> QED BY <3>1, <3>2, <3>4, <3>5
  <2> QED BY <2>1, <2>2
<1> QED BY <1>1, <1>12 DEF Chains

(* The first cord of a chain. *)
LEMMA ChainHead ==
  ASSUME NEW S \in SUBSET Cords, NEW bkt, NEW n, NEW hn, NEW hp, Chains(bkt, n, hn, hp, S),
         NEW b \in 0 .. n - 1
  PROVE  bkt[b].hh_head = NULL \/ bkt[b].hh_head \in S
<1>1. PICK s : DList(s, bkt[b].hh_head, hn, hp) /\ ToSet(s) = {d \in S : HASH_TO_BKT(d, n) = b}
  BY DEF Chains
<1>2. s # << >> => 1 \in 1 .. Len(s) /\ s[1] \in ToSet(s)
  BY <1>1, DListFacts
<1> QED BY <1>1, <1>2 DEF DList

(* The cords outside of the chain keep their links. *)
LEMMA JoinedOthers ==
  ASSUME NEW S \in SUBSET Cords, NEW hn, NEW hp, NEW c, NEW first, NEW hn2, NEW hp2,
         Joined(hn, hp, c, first, hn2, hp2), first = NULL \/ first \in S
  PROVE  OtherLinks(S \cup {c}, hn, hp, hn2, hp2)
BY Basics DEF OtherLinks, Joined

(* What Prepend does to the links. *)
LEMMA PrependJoins ==
  ASSUME NEW hn \in Links, NEW hp \in Links, NEW c \in Cords,
         NEW first \in Link, first # c
  PROVE  /\ Joined(hn, hp, c, first, [hn EXCEPT ![c] = first],
                   IF first = NULL THEN [hp EXCEPT ![c] = NULL]
                                   ELSE [hp EXCEPT ![c] = NULL, ![first] = c])
         /\ [hn EXCEPT ![c] = first] \in Links
         /\ (IF first = NULL THEN [hp EXCEPT ![c] = NULL]
                             ELSE [hp EXCEPT ![c] = NULL, ![first] = c]) \in Links
<1>1. hn \in [Cords -> Link] /\ hp \in [Cords -> Link] /\ NULL \in Link /\ c \in Link /\ NULL \notin Cords
  BY Basics DEF Links, Link
<1>2. first # NULL => first \in Cords
  BY DEF Link
<1>3. CASE first = NULL
  BY <1>1, <1>3 DEF Joined, Links
<1>4. CASE first # NULL
  BY <1>1, <1>2, <1>4 DEF Joined, Links
<1> QED BY <1>3, <1>4

(* The buckets without the cord c, which was in bucket b.                  *)
Shrunk(bkt, bkt2, n, hn, b, c) ==
  /\ bkt2 \in [0 .. n - 1 -> Bucket]
  /\ bkt2[b].hh_head = IF bkt[b].hh_head = c THEN hn[c] ELSE bkt[b].hh_head
  /\ bkt2[b].count = bkt[b].count - 1
  /\ \A a \in 0 .. n - 1 : a # b => bkt2[a] = bkt[a]

(* A cord leaves the chain of its bucket.                                  *)
LEMMA ChainsDelete ==
  ASSUME HashvType, NEW S \in SUBSET Cords,
         NEW bkt, NEW n, NEW hn \in Links, NEW hp \in Links, Chains(bkt, n, hn, hp, S),
         NEW c \in S, NEW b, b = HASH_TO_BKT(c, n),
         NEW bkt2, Shrunk(bkt, bkt2, n, hn, b, c)
  PROVE  /\ Chains(bkt2, n, Bypass(hn, hp[c], hn[c]), Bypass(hp, hn[c], hp[c]), S \ {c})
         /\ Bypass(hn, hp[c], hn[c]) \in Links /\ Bypass(hp, hn[c], hp[c]) \in Links
         /\ OtherLinks(S, hn, hp, Bypass(hn, hp[c], hn[c]), Bypass(hp, hn[c], hp[c]))
<1> DEFINE first == bkt[b].hh_head
           hn2 == Bypass(hn, hp[c], hn[c])
           hp2 == Bypass(hp, hn[c], hp[c])
<1>0. /\ bkt2 \in [0 .. n - 1 -> Bucket]
      /\ bkt2[b].hh_head = IF first = c THEN hn[c] ELSE first
      /\ bkt2[b].count = bkt[b].count - 1
      /\ \A a \in 0 .. n - 1 : a # b => bkt2[a] = bkt[a]
  BY DEF Shrunk
<1>1. n \in Nat \ {0} /\ bkt \in [0 .. n - 1 -> Bucket]
  BY DEF Chains
<1>2. b \in 0 .. n - 1
  BY <1>1, BucketOf
<1>3. PICK s : /\ DList(s, first, hn, hp)
               /\ ToSet(s) = {d \in S : HASH_TO_BKT(d, n) = b}
               /\ bkt[b].count = Len(s)
  BY <1>2 DEF Chains
<1>4. /\ s \in Seq(Cords) /\ DOMAIN s = 1 .. Len(s) /\ Len(s) \in Nat
      /\ \A i, j \in 1 .. Len(s) : s[i] = s[j] => i = j
      /\ s = << >> <=> Len(s) = 0
  BY <1>3, DListFacts
<1>5. PICK i \in 1 .. Len(s) : s[i] = c
  <2>1. c \in ToSet(s)
    BY <1>3
  <2> QED BY <2>1, <1>4 DEF ToSet
<1>6. /\ DList(RemoveAt(s, i), IF i = 1 THEN hn[c] ELSE first, hn2, hp2)
      /\ hn2 \in Links /\ hp2 \in Links
      /\ OtherLinks(ToSet(s), hn, hp, hn2, hp2)
  <2>1. DList(s, first, hn, hp)
    BY <1>3
  <2> QED BY <2>1, <1>5, DListRemove
<1>7. i = 1 <=> first = c
  <2>1. 1 \in 1 .. Len(s) /\ s # << >>
    BY <1>4, <1>5
  <2>2. first = s[1]
    BY <1>3, <2>1 DEF DList
  <2> QED BY <2>1, <2>2, <1>4, <1>5
<1>8. ToSet(RemoveAt(s, i)) = ToSet(s) \ {c} /\ Len(RemoveAt(s, i)) = Len(s) - 1
  <2>1. IsInjective(s) /\ i \in DOMAIN s
    BY <1>3, <1>4 DEF DList
  <2>2. s \in Seq(Cords)
    BY <1>4
  <2> QED BY <2>1, <2>2, <1>5, RemoveAtElements, RemoveAtShape
<1> HIDE DEF hn2, hp2
<1>9. ASSUME NEW a \in 0 .. n - 1
      PROVE  \E t : /\ DList(t, bkt2[a].hh_head, hn2, hp2)
                    /\ ToSet(t) = {d \in S \ {c} : HASH_TO_BKT(d, n) = a}
                    /\ bkt2[a].count = Len(t)
  <2>1. CASE a = b
    <3>1. DList(RemoveAt(s, i), bkt2[a].hh_head, hn2, hp2)
      BY <2>1, <1>0, <1>6, <1>7
    <3>2. ToSet(RemoveAt(s, i)) = {d \in S \ {c} : HASH_TO_BKT(d, n) = a}
      BY <2>1, <1>3, <1>8
    <3> QED BY <3>1, <3>2, <2>1, <1>0, <1>3, <1>8
  <2>2. CASE a # b
    <3>1. bkt2[a] = bkt[a]
      BY <2>2, <1>0
    <3>2. PICK t : /\ DList(t, bkt[a].hh_head, hn, hp)
                   /\ ToSet(t) = {d \in S : HASH_TO_BKT(d, n) = a}
                   /\ bkt[a].count = Len(t)
      BY DEF Chains
    <3>3. SameLinks(ToSet(t), hn, hp, hn2, hp2)
      <4>1. ToSet(t) \subseteq Cords \ ToSet(s)
        BY <3>2, <1>3, <2>2
      <4> QED BY <4>1, <1>6 DEF SameLinks, OtherLinks
    <3>4. DList(t, bkt[a].hh_head, hn2, hp2)
      <4>1. DList(t, bkt[a].hh_head, hn, hp)
        BY <3>2
      <4> QED BY <4>1, <3>3, DListFrame
    <3>5. ToSet(t) = {d \in S \ {c} : HASH_TO_BKT(d, n) = a}
      BY <2>2, <3>2
    <3> QED BY <3>1, <3>2, <3>4, <3>5
  <2> QED BY <2>1, <2>2
<1>10. OtherLinks(S, hn, hp, hn2, hp2)
  BY <1>3, <1>6 DEF SameLinks, OtherLinks
<1>11. Chains(bkt2, n, hn2, hp2, S \ {c})
  BY <1>0, <1>1, <1>9 DEF Chains
<1> QED BY <1>6, <1>10, <1>11 DEF hn2, hp2

-----------------------------------------------------------------------------
(* HASH_EXPAND_BUCKETS. *)

Spread(n) == [hh_prev : Links, hh_next : Links, bkt : [0 .. n - 1 -> Bucket], nonideal : Int]

(* A step of the loop adds the cord to the chains.                         *)
LEMMA RedistributeAdds ==
  ASSUME HashvType, NEW n \in Nat \ {0}, NEW ideal \in Int, NEW acc \in Spread(n),
         NEW S \in SUBSET Cords, Chains(acc.bkt, n, acc.hh_next, acc.hh_prev, S),
         NEW c \in Cords, c \notin S, NEW r, r = Redistribute(acc, c, n, ideal)
  PROVE  /\ r \in Spread(n)
         /\ Chains(r.bkt, n, r.hh_next, r.hh_prev, S \cup {c})
         /\ OtherLinks(S \cup {c}, acc.hh_next, acc.hh_prev, r.hh_next, r.hh_prev)
<1>1. PICK hp \in Links, hn \in Links, bk \in [0 .. n - 1 -> Bucket], x \in Int :
        acc = [hh_prev |-> hp, hh_next |-> hn, bkt |-> bk, nonideal |-> x]
  <2>1. acc = [hh_prev |-> acc.hh_prev, hh_next |-> acc.hh_next, bkt |-> acc.bkt, nonideal |-> acc.nonideal]
        /\ acc.hh_prev \in Links /\ acc.hh_next \in Links
        /\ acc.bkt \in [0 .. n - 1 -> Bucket] /\ acc.nonideal \in Int
    BY DEF Spread
  <2> QED BY <2>1
<1>2. acc.hh_prev = hp /\ acc.hh_next = hn /\ acc.bkt = bk /\ acc.nonideal = x
  BY <1>1
<1>3. Chains(bk, n, hn, hp, S)
  BY <1>2
<1> DEFINE b == HASH_TO_BKT(c, n)
           old == bk[b]
           first == old.hh_head
           hn2 == [hn EXCEPT ![c] = first]
           hp2 == IF first = NULL THEN [hp EXCEPT ![c] = NULL]
                                  ELSE [hp EXCEPT ![c] = NULL, ![first] = c]
           cnt == old.count + 1
           extra == IF cnt > ideal THEN 1 ELSE 0
           mult == IF cnt > ideal /\ cnt > old.expand_mult * ideal THEN 1 ELSE 0
           new == [hh_head |-> c, count |-> cnt, expand_mult |-> old.expand_mult + mult]
           bkt2 == [bk EXCEPT ![b] = new]
<1>4. b \in 0 .. n - 1
  BY BucketOf
<1>5. old \in Bucket /\ first \in Link /\ old.count \in Int /\ old.expand_mult \in Int
  BY <1>4 DEF Bucket
<1>6. first # c /\ c \in Link
  <2> HIDE DEF b
  <2>1. first = NULL \/ first \in S
    BY <1>3, <1>4, ChainHead
  <2> QED BY <2>1, Basics DEF Link
<1>7. new \in Bucket /\ new.hh_head = c /\ new.count = old.count + 1
  <2>1. mult \in Int /\ cnt \in Int
    BY <1>5
  <2> HIDE DEF mult, old, cnt
  <2>2. old.expand_mult + mult \in Int
    BY <1>5, <2>1
  <2>3. new.hh_head = c /\ new.count = cnt
    OBVIOUS
  <2> QED BY <1>6, <2>1, <2>2, <2>3 DEF Bucket, cnt
<1> DEFINE P == Prepend(acc, c, first)
<1>8. /\ P.hh_prev = hp2 /\ P.hh_next = hn2 /\ P.bkt = bk /\ P.nonideal = x
      /\ P = [hh_prev |-> P.hh_prev, hh_next |-> P.hh_next, bkt |-> P.bkt, nonideal |-> P.nonideal]
  <2> HIDE DEF first
  <2>1. P.bkt = acc.bkt /\ P.nonideal = acc.nonideal /\ P.hh_next = [acc.hh_next EXCEPT ![c] = first]
    BY DEF Prepend, Spread
  <2>2. P.hh_prev = IF first = NULL THEN [acc.hh_prev EXCEPT ![c] = NULL]
                                    ELSE [acc.hh_prev EXCEPT ![c] = NULL, ![first] = c]
    BY DEF Prepend, Spread
  <2>3. P = [hh_prev |-> P.hh_prev, hh_next |-> P.hh_next, bkt |-> P.bkt, nonideal |-> P.nonideal]
    <3>1. P \in Spread(n)
      BY <1>5 DEF Prepend, Spread, Links, Link
    <3> HIDE DEF P
    <3> QED BY <3>1 DEF Spread
  <2> HIDE DEF P
  <2> QED BY <1>2, <2>1, <2>2, <2>3
<1>9. r = [P EXCEPT !.bkt[b] = new, !.nonideal = @ + extra]
  BY <1>2 DEF Redistribute
<1>10. Joined(hn, hp, c, first, hn2, hp2) /\ hn2 \in Links /\ hp2 \in Links
  <2> HIDE DEF first
  <2> QED BY <1>5, <1>6, PrependJoins
<1>11. extra \in Int
  OBVIOUS
<1> HIDE DEF new, hn2, hp2, extra, b
<1>12. /\ r.hh_prev = hp2 /\ r.hh_next = hn2 /\ r.bkt = bkt2 /\ r.nonideal = x + extra
       /\ r = [hh_prev |-> r.hh_prev, hh_next |-> r.hh_next, bkt |-> r.bkt, nonideal |-> r.nonideal]
  <2> HIDE DEF P
  <2> QED BY <1>8, <1>9
<1>13. /\ bkt2 \in [0 .. n - 1 -> Bucket] /\ bkt2[b] = new
       /\ \A a \in 0 .. n - 1 : a # b => bkt2[a] = bk[a]
  BY <1>4, <1>7
<1> HIDE DEF bkt2
<1>15. r \in Spread(n)
  BY <1>10, <1>11, <1>12, <1>13 DEF Spread
<1>16. Chains(bkt2, n, hn2, hp2, S \cup {c})
  <2>1. bkt2[b].hh_head = c /\ bkt2[b].count = bk[b].count + 1
    BY <1>7, <1>13
  <2>2. b = HASH_TO_BKT(c, n)
    BY DEF b
  <2> QED BY <1>3, <1>4, <1>10, <1>13, <2>1, <2>2, ChainsAdd
<1>17. OtherLinks(S \cup {c}, hn, hp, hn2, hp2)
  <2>1. first = NULL \/ first \in S
    BY <1>3, <1>4, ChainHead
  <2> HIDE DEF first
  <2> QED BY <1>10, <2>1, JoinedOthers DEF first
<1> QED BY <1>2, <1>12, <1>15, <1>16, <1>17

(* The loop is a function of its number of steps.                          *)
LEMMA RedistributedFacts ==
  ASSUME NEW start, NEW s \in Seq(Cords), NEW n, NEW ideal
  PROVE  \E acc : /\ Redistributed(start, s, n, ideal) = acc[Len(s)]
                  /\ acc[0] = start
                  /\ \A k \in 1 .. Len(s) : acc[k] = Redistribute(acc[k - 1], s[k], n, ideal)
<1> DEFINE N == Len(s)
           Step(t, k) == IF k = 0 THEN start ELSE Redistribute(t[k - 1], s[k], n, ideal)
           Along(t, m) == t = [k \in 0 .. m |-> Step(t, k)]
           T == {m \in Nat : \E t : Along(t, m)}
<1>0. N \in Nat
  OBVIOUS
<1>1. 0 \in T
  <2> DEFINE t == [k \in 0 .. 0 |-> Step(<< >>, 0)]
  <2>1. \A k \in 0 .. 0 : Step(t, k) = Step(<< >>, 0)
    OBVIOUS
  <2> HIDE DEF Step
  <2>2. Along(t, 0)
    BY <2>1
  <2> HIDE DEF t, Along
  <2> QED BY <2>2
<1>2. ASSUME NEW m \in T PROVE m + 1 \in T
  <2>1. PICK t : Along(t, m)
    OBVIOUS
  <2> DEFINE u == [k \in 0 .. m + 1 |-> IF k = m + 1 THEN Step(t, k) ELSE t[k]]
  <2>2. ASSUME NEW k \in 0 .. m + 1 PROVE u[k] = Step(u, k)
    <3>1. CASE k = 0
      <4>1. 0 \in 0 .. m /\ k # m + 1
        BY <3>1
      <4>2. t[0] = Step(t, 0)
        <5> HIDE DEF Step
        <5> QED BY <2>1, <4>1
      <4> QED BY <3>1, <4>1, <4>2
    <3>2. CASE k # 0
      <4>1. k - 1 \in 0 .. m + 1 /\ k - 1 # m + 1 /\ k - 1 \in 0 .. m
        BY <3>2
      <4>2. u[k - 1] = t[k - 1]
        BY <4>1
      <4>3. u[k] = Step(t, k)
        <5> HIDE DEF Step
        <5>1. k \in 0 .. m \/ k = m + 1
          OBVIOUS
        <5> QED BY <5>1, <2>1
      <4> HIDE DEF u
      <4> QED BY <3>2, <4>2, <4>3
    <3> QED BY <3>1, <3>2
  <2>3. \E v : Along(v, m + 1)
    <3>1. u = [k \in 0 .. m + 1 |-> u[k]]
      OBVIOUS
    <3> HIDE DEF u, Step
    <3>2. Along(u, m + 1)
      BY <2>2, <3>1
    <3> QED BY <3>2
  <2> HIDE DEF Along
  <2> QED BY <2>3
<1>3. N \in T
  <2> HIDE DEF Along, N
  <2>1. T \in SUBSET Nat
    OBVIOUS
  <2> HIDE DEF T
  <2> QED BY <1>0, <1>1, <1>2, <2>1, SetInduction
<1>4. \E t : Along(t, N)
  <2> HIDE DEF Along, N
  <2> QED BY <1>3
<1> DEFINE acc == CHOOSE t : Along(t, N)
<1>5. Along(acc, N)
  <2> HIDE DEF Along, N
  <2> QED BY <1>4
<1>6. Redistributed(start, s, n, ideal) = acc[N]
  BY DEF Redistributed
<1> HIDE DEF acc, Step, N
<1>7. 0 \in 0 .. N /\ \A k \in 1 .. N : k \in 0 .. N /\ k # 0
  BY <1>0
<1>8. acc[0] = Step(acc, 0) /\ \A k \in 1 .. N : acc[k] = Step(acc, k)
  BY <1>5, <1>7
<1>9. acc[0] = start /\ \A k \in 1 .. N : acc[k] = Redistribute(acc[k - 1], s[k], n, ideal)
  BY <1>7, <1>8 DEF Step
<1> QED BY <1>6, <1>9 DEF N

(* All of the loop: the cords of s, each of them once, are in the chains.  *)
LEMMA RedistributedAll ==
  ASSUME HashvType, NEW n \in Nat \ {0}, NEW ideal \in Int, NEW start \in Spread(n),
         Chains(start.bkt, n, start.hh_next, start.hh_prev, {}),
         NEW s \in Seq(Cords), IsInjective(s),
         NEW r, r = Redistributed(start, s, n, ideal)
  PROVE  /\ r \in Spread(n)
         /\ Chains(r.bkt, n, r.hh_next, r.hh_prev, ToSet(s))
         /\ OtherLinks(ToSet(s), start.hh_next, start.hh_prev, r.hh_next, r.hh_prev)
<1>1. PICK acc : /\ r = acc[Len(s)]
                 /\ acc[0] = start
                 /\ \A k \in 1 .. Len(s) : acc[k] = Redistribute(acc[k - 1], s[k], n, ideal)
  BY RedistributedFacts
<1> DEFINE Done(k) == {s[i] : i \in 1 .. k}
           Right(k) == /\ acc[k] \in Spread(n)
                       /\ Chains(acc[k].bkt, n, acc[k].hh_next, acc[k].hh_prev, Done(k))
                       /\ OtherLinks(ToSet(s), start.hh_next, start.hh_prev,
                                    acc[k].hh_next, acc[k].hh_prev)
           T == {k \in Nat : k <= Len(s) => Right(k)}
<1>2. /\ Len(s) \in Nat /\ DOMAIN s = 1 .. Len(s)
      /\ \A i \in 1 .. Len(s) : s[i] \in Cords /\ s[i] \in ToSet(s)
      /\ \A i, j \in 1 .. Len(s) : s[i] = s[j] => i = j
  BY DEF IsInjective, ToSet
<1>3. 0 \in T
  <2>1. Done(0) = {}
    OBVIOUS
  <2> HIDE DEF Done
  <2> QED BY <1>1, <2>1 DEF SameLinks, OtherLinks
<1>4. ASSUME NEW k \in T PROVE k + 1 \in T
  <2> SUFFICES ASSUME k + 1 <= Len(s) PROVE Right(k + 1)
    OBVIOUS
  <2> DEFINE S == Done(k)
             c == s[k + 1]
             a == acc[k]
             b == acc[k + 1]
  <2>1. /\ k \in Nat /\ k <= Len(s) /\ k + 1 \in 1 .. Len(s) /\ (k + 1) - 1 = k
        /\ \A i \in 1 .. k : i \in 1 .. Len(s) /\ i # k + 1
    BY <1>2
  <2>2. Right(k)
    BY <2>1
  <2>3. b = Redistribute(a, c, n, ideal)
    BY <1>1, <2>1
  <2>4. S \in SUBSET Cords /\ S \subseteq ToSet(s) /\ c \in Cords /\ c \in ToSet(s) /\ c \notin S
    BY <1>2, <2>1
  <2>5. Done(k + 1) = S \cup {c}
    <3>1. \A i \in 1 .. k + 1 : i \in 1 .. k \/ i = k + 1
      BY <2>1
    <3>2. \A i \in 1 .. k : i \in 1 .. k + 1
      BY <2>1
    <3>3. k + 1 \in 1 .. k + 1
      BY <2>1
    <3> QED BY <3>1, <3>2, <3>3
  <2>6. /\ a \in Spread(n)
        /\ Chains(a.bkt, n, a.hh_next, a.hh_prev, S)
        /\ OtherLinks(ToSet(s), start.hh_next, start.hh_prev, a.hh_next, a.hh_prev)
    BY <2>2
  <2> HIDE DEF S, c, a, b, Done
  <2>7. /\ b \in Spread(n)
        /\ Chains(b.bkt, n, b.hh_next, b.hh_prev, S \cup {c})
        /\ OtherLinks(S \cup {c}, a.hh_next, a.hh_prev, b.hh_next, b.hh_prev)
    BY <2>3, <2>4, <2>6, RedistributeAdds
  <2>8. OtherLinks(ToSet(s), start.hh_next, start.hh_prev, b.hh_next, b.hh_prev)
    BY <2>4, <2>6, <2>7 DEF SameLinks, OtherLinks
  <2> QED BY <2>5, <2>7, <2>8 DEF b
<1>5. Right(Len(s))
  <2>1. T \in SUBSET Nat
    OBVIOUS
  <2> HIDE DEF T, Right
  <2>2. Len(s) \in T
    BY <1>2, <1>3, <1>4, <2>1, SetInduction
  <2>3. Len(s) \in T => (Len(s) <= Len(s) => Right(Len(s)))
    BY DEF T
  <2> QED BY <1>2, <2>2, <2>3
<1>6. Done(Len(s)) = ToSet(s)
  BY <1>2 DEF ToSet
<1> QED BY <1>1, <1>5, <1>6

(* One sequence after the other. *)
LEMMA ConcatElements ==
  ASSUME NEW s \in Seq(Cords), NEW t \in Seq(Cords), NEW u, u = s \o t
  PROVE  /\ u \in Seq(Cords)
         /\ ToSet(u) = ToSet(s) \cup ToSet(t)
         /\ IsInjective(s) /\ IsInjective(t) /\ ToSet(s) \cap ToSet(t) = {} => IsInjective(u)
<1>1. /\ Len(s) \in Nat /\ DOMAIN s = 1 .. Len(s)
      /\ Len(t) \in Nat /\ DOMAIN t = 1 .. Len(t)
  OBVIOUS
<1>2. /\ u \in Seq(Cords) /\ Len(u) = Len(s) + Len(t)
      /\ \A i \in 1 .. Len(s) + Len(t) : u[i] = IF i <= Len(s) THEN s[i] ELSE t[i - Len(s)]
  BY ConcatProperties
<1>3. DOMAIN u = 1 .. Len(s) + Len(t)
  BY <1>2
<1>4. ASSUME NEW i \in 1 .. Len(s) + Len(t)
      PROVE  \/ i \in 1 .. Len(s) /\ u[i] = s[i] /\ u[i] \in ToSet(s)
             \/ i > Len(s) /\ i - Len(s) \in 1 .. Len(t) /\ u[i] = t[i - Len(s)] /\ u[i] \in ToSet(t)
  <2>1. CASE i <= Len(s)
    <3>1. i \in 1 .. Len(s)
      BY <2>1, <1>1
    <3> QED BY <2>1, <3>1, <1>1, <1>2 DEF ToSet
  <2>2. CASE ~(i <= Len(s))
    <3>1. i > Len(s) /\ i - Len(s) \in 1 .. Len(t)
      BY <2>2, <1>1
    <3> QED BY <2>2, <3>1, <1>1, <1>2 DEF ToSet
  <2> QED BY <2>1, <2>2
<1>5. ASSUME NEW i \in 1 .. Len(s) PROVE s[i] \in ToSet(u)
  <2>1. i \in 1 .. Len(s) + Len(t) /\ i <= Len(s)
    BY <1>1
  <2> QED BY <2>1, <1>2, <1>3 DEF ToSet
<1>6. ASSUME NEW i \in 1 .. Len(t) PROVE t[i] \in ToSet(u)
  <2>1. i + Len(s) \in 1 .. Len(s) + Len(t) /\ ~(i + Len(s) <= Len(s)) /\ (i + Len(s)) - Len(s) = i
    BY <1>1
  <2>2. u[i + Len(s)] = t[i]
    BY <2>1, <1>2
  <2> QED BY <2>1, <2>2, <1>3 DEF ToSet
<1>7. ToSet(u) \subseteq ToSet(s) \cup ToSet(t)
  BY <1>3, <1>4 DEF ToSet
<1>8. ToSet(s) \cup ToSet(t) \subseteq ToSet(u)
  BY <1>1, <1>5, <1>6 DEF ToSet
<1>9. ASSUME IsInjective(s), IsInjective(t), ToSet(s) \cap ToSet(t) = {} PROVE IsInjective(u)
  <2> SUFFICES ASSUME NEW i \in 1 .. Len(s) + Len(t), NEW j \in 1 .. Len(s) + Len(t), u[i] = u[j]
               PROVE  i = j
    BY <1>3 DEF IsInjective
  <2>1. CASE i \in 1 .. Len(s) /\ u[i] = s[i] /\ u[i] \in ToSet(s)
    <3>1. j \in 1 .. Len(s) /\ u[j] = s[j]
      BY <2>1, <1>4, <1>9
    <3> QED BY <2>1, <3>1, <1>1, <1>9 DEF IsInjective
  <2>2. CASE i > Len(s) /\ i - Len(s) \in 1 .. Len(t) /\ u[i] = t[i - Len(s)] /\ u[i] \in ToSet(t)
    <3>1. j - Len(s) \in 1 .. Len(t) /\ u[j] = t[j - Len(s)]
      BY <2>2, <1>4, <1>9
    <3>2. i - Len(s) = j - Len(s)
      BY <2>2, <3>1, <1>1, <1>9 DEF IsInjective
    <3> QED BY <3>2, <1>1
  <2> QED BY <2>1, <2>2, <1>4
<1> QED BY <1>2, <1>7, <1>8, <1>9

(* FlattenSeq is a function of the number of sequences that it has taken.  *)
LEMMA FlattenFacts ==
  ASSUME NEW seqs, Len(seqs) \in Nat \ {0}
  PROVE  \E f : /\ FlattenSeq(seqs) = f[Len(seqs)]
                /\ f[1] = seqs[1]
                /\ \A i \in 2 .. Len(seqs) : f[i] = f[i - 1] \o seqs[i]
<1> DEFINE N == Len(seqs)
           Step(t, k) == IF k = 1 THEN seqs[k] ELSE t[k - 1] \o seqs[k]
           Along(t, m) == t = [k \in 1 .. m |-> Step(t, k)]
           T == {m \in Nat : \E t : Along(t, m)}
<1>1. 0 \in T
  <2> DEFINE t == [k \in 1 .. 0 |-> 0]
  <2> HIDE DEF Step
  <2>1. Along(t, 0)
    OBVIOUS
  <2> HIDE DEF t, Along
  <2> QED BY <2>1
<1>2. ASSUME NEW m \in T PROVE m + 1 \in T
  <2>1. PICK t : Along(t, m)
    OBVIOUS
  <2> DEFINE u == [k \in 1 .. m + 1 |-> IF k = m + 1 THEN Step(t, k) ELSE t[k]]
  <2>2. ASSUME NEW k \in 1 .. m + 1 PROVE u[k] = Step(u, k)
    <3>1. u[k] = Step(t, k)
      <4> HIDE DEF Step
      <4>1. k \in 1 .. m \/ k = m + 1
        OBVIOUS
      <4> QED BY <4>1, <2>1
    <3>2. k # 1 => u[k - 1] = t[k - 1]
      <4> SUFFICES ASSUME k # 1 PROVE u[k - 1] = t[k - 1]
        OBVIOUS
      <4>1. k - 1 \in 1 .. m + 1 /\ k - 1 # m + 1
        OBVIOUS
      <4> QED BY <4>1
    <3> HIDE DEF u
    <3> QED BY <3>1, <3>2
  <2>3. \E v : Along(v, m + 1)
    <3>1. u = [k \in 1 .. m + 1 |-> u[k]]
      OBVIOUS
    <3> HIDE DEF u, Step
    <3>2. Along(u, m + 1)
      BY <2>2, <3>1
    <3> QED BY <3>2
  <2> HIDE DEF Along
  <2> QED BY <2>3
<1>3. N \in T
  <2> HIDE DEF Along
  <2>1. T \in SUBSET Nat
    OBVIOUS
  <2> HIDE DEF T
  <2> QED BY <1>1, <1>2, <2>1, SetInduction
<1>4. \E t : Along(t, N)
  <2> HIDE DEF Along, N
  <2> QED BY <1>3
<1> DEFINE f == CHOOSE t : Along(t, N)
<1>5. Along(f, N)
  <2> HIDE DEF Along, N
  <2> QED BY <1>4
<1>6. FlattenSeq(seqs) = f[N]
  BY DEF FlattenSeq
<1>7. 1 \in 1 .. N /\ \A k \in 2 .. N : k \in 1 .. N /\ k # 1
  OBVIOUS
<1> HIDE DEF f, Step, N
<1>8. f[1] = Step(f, 1) /\ \A k \in 2 .. N : f[k] = Step(f, k)
  BY <1>5, <1>7
<1>9. f[1] = seqs[1] /\ \A k \in 2 .. N : f[k] = f[k - 1] \o seqs[k]
  BY <1>7, <1>8 DEF Step
<1> QED BY <1>6, <1>9 DEF N

(* The loops of HASH_EXPAND_BUCKETS reach every cord of the chains once.   *)
LEMMA BucketsReachAll ==
  ASSUME HashvType, NEW S \in SUBSET Cords,
         NEW bkt, NEW n, NEW hn, NEW hp, Chains(bkt, n, hn, hp, S),
         NEW x, x = FlattenSeq([i \in 1 .. n |-> Path(bkt[i - 1].hh_head, hn)])
  PROVE  x \in Seq(Cords) /\ IsInjective(x) /\ ToSet(x) = S
<1> DEFINE seqs == [i \in 1 .. n |-> Path(bkt[i - 1].hh_head, hn)]
           Below(k) == {c \in S : HASH_TO_BKT(c, n) < k}
<1>1. n \in Nat \ {0}
  BY DEF Chains
<1>2. Len(seqs) = n /\ \A i \in 1 .. n : seqs[i] = Path(bkt[i - 1].hh_head, hn)
  <2>1. n \in Nat
    BY <1>1
  <2> QED BY <2>1
<1>3. ASSUME NEW i \in 1 .. n
      PROVE  /\ seqs[i] \in Seq(Cords) /\ IsInjective(seqs[i])
             /\ ToSet(seqs[i]) = {c \in S : HASH_TO_BKT(c, n) = i - 1}
  <2>1. i - 1 \in 0 .. n - 1
    BY <1>1
  <2>2. PICK s : /\ DList(s, bkt[i - 1].hh_head, hn, hp)
                 /\ ToSet(s) = {c \in S : HASH_TO_BKT(c, n) = i - 1}
    BY <2>1 DEF Chains
  <2>3. Path(bkt[i - 1].hh_head, hn) = s
    BY <2>2, PathIs
  <2>4. seqs[i] = s
    BY <1>2, <2>3
  <2> QED BY <2>2, <2>4 DEF DList
<1> HIDE DEF seqs
<1>4. PICK f : /\ FlattenSeq(seqs) = f[n]
               /\ f[1] = seqs[1]
               /\ \A i \in 2 .. n : f[i] = f[i - 1] \o seqs[i]
  BY <1>1, <1>2, FlattenFacts
<1>5. \A c \in S : HASH_TO_BKT(c, n) \in 0 .. n - 1
  BY <1>1, BucketOf
<1> DEFINE Right(k) == f[k] \in Seq(Cords) /\ IsInjective(f[k]) /\ ToSet(f[k]) = Below(k)
           T == {k \in Nat : k + 1 <= n => Right(k + 1)}
<1>6. 0 \in T
  <2>1. 1 \in 1 .. n /\ 0 + 1 = 1 /\ 1 - 1 = 0
    BY <1>1
  <2>2. {c \in S : HASH_TO_BKT(c, n) = 0} = Below(1)
    BY <1>5
  <2> HIDE DEF Below
  <2> QED BY <2>1, <2>2, <1>3, <1>4
<1>7. ASSUME NEW k \in T PROVE k + 1 \in T
  <2> SUFFICES ASSUME (k + 1) + 1 <= n PROVE Right((k + 1) + 1)
    OBVIOUS
  <2>1. /\ k \in Nat /\ k + 1 <= n /\ (k + 1) + 1 \in 2 .. n /\ (k + 1) + 1 \in 1 .. n
        /\ ((k + 1) + 1) - 1 = k + 1
    BY <1>1
  <2>2. Right(k + 1)
    BY <2>1
  <2>3. f[(k + 1) + 1] = f[k + 1] \o seqs[(k + 1) + 1]
    BY <1>4, <2>1
  <2>4. /\ seqs[(k + 1) + 1] \in Seq(Cords) /\ IsInjective(seqs[(k + 1) + 1])
        /\ ToSet(seqs[(k + 1) + 1]) = {c \in S : HASH_TO_BKT(c, n) = k + 1}
    BY <1>3, <2>1
  <2>5. Below(k + 1) \cup {c \in S : HASH_TO_BKT(c, n) = k + 1} = Below((k + 1) + 1)
    BY <1>5, <2>1
  <2>6. Below(k + 1) \cap {c \in S : HASH_TO_BKT(c, n) = k + 1} = {}
    BY <1>5, <2>1
  <2> DEFINE a == f[k + 1]
             b == seqs[(k + 1) + 1]
             c == f[(k + 1) + 1]
  <2>7. /\ c = a \o b
        /\ a \in Seq(Cords) /\ IsInjective(a) /\ b \in Seq(Cords) /\ IsInjective(b)
        /\ ToSet(a) \cup ToSet(b) = Below((k + 1) + 1) /\ ToSet(a) \cap ToSet(b) = {}
    <3> HIDE DEF Below
    <3> QED BY <2>2, <2>3, <2>4, <2>5, <2>6
  <2> HIDE DEF Below, a, b, c
  <2>8. c \in Seq(Cords) /\ IsInjective(c) /\ ToSet(c) = Below((k + 1) + 1)
    BY <2>7, ConcatElements
  <2> QED BY <2>8 DEF c
<1>8. Right(n)
  <2>1. T \in SUBSET Nat
    OBVIOUS
  <2>2. n - 1 \in Nat /\ (n - 1) + 1 = n
    BY <1>1
  <2>3. n - 1 \in T => ((n - 1) + 1 <= n => Right((n - 1) + 1))
    OBVIOUS
  <2> HIDE DEF T, Right
  <2>4. n - 1 \in T
    BY <1>6, <1>7, <2>1, <2>2, SetInduction
  <2> QED BY <2>2, <2>3, <2>4
<1>9. Below(n) = S
  BY <1>1, <1>5
<1>10. x = f[n]
  BY <1>4 DEF seqs
<1> QED BY <1>8, <1>9, <1>10

-----------------------------------------------------------------------------
(* The memory. *)

Arrays == UNION {[0 .. n - 1 -> Bucket] : n \in Nat}

TableType ==
  [head : Link, tail : Link, num_items : Int, num_buckets : Nat, bkt : Arrays,
   ineff_expands : Int, noexpand : BOOLEAN]

Memory ==
  [table : [Tables -> TableType], prev : Links, next : Links, hh_prev : Links, hh_next : Links]

(* The table t of the memory g holds the cords of s in their order.        *)
Keeps(g, t, s) ==
  /\ DList(s, g.table[t].head, g.next, g.prev)
  /\ s # << >> => /\ g.table[t].tail = s[Len(s)]
                  /\ g.table[t].num_items = Len(s)
                  /\ Chains(g.table[t].bkt, g.table[t].num_buckets, g.hh_next, g.hh_prev, ToSet(s))

(* g became f by changes to the table t and the links of cords in D.       *)
Touches(g, f, t, D) ==
  /\ f \in Memory
  /\ \A u \in Tables : u # t => f.table[u] = g.table[u]
  /\ OtherLinks(D, g.next, g.prev, f.next, f.prev)
  /\ OtherLinks(D, g.hh_next, g.hh_prev, f.hh_next, f.hh_prev)

(* Two changes are one, *)
LEMMA TouchesTwice ==
  ASSUME NEW g, NEW f, NEW e, NEW t, NEW D, Touches(g, f, t, D), Touches(f, e, t, D)
  PROVE  Touches(g, e, t, D)
BY DEF Touches, SameLinks, OtherLinks

(* and a change to a part is one to the whole. *)
LEMMA TouchesMore ==
  ASSUME NEW g, NEW f, NEW t, NEW D, NEW E, D \subseteq E, Touches(g, f, t, D)
  PROVE  Touches(g, f, t, E)
BY DEF Touches, SameLinks, OtherLinks

(* The bucket that a cord has left. *)
LEMMA WithoutType ==
  ASSUME NEW old \in Bucket, NEW c, NEW n \in Link
  PROVE  /\ Without(old, c, n) \in Bucket
         /\ Without(old, c, n).count = old.count - 1
         /\ Without(old, c, n).hh_head = IF old.hh_head = c THEN n ELSE old.hh_head
<1> DEFINE less == [old EXCEPT !.count = @ - 1]
           hd == IF old.hh_head = c THEN n ELSE old.hh_head
           new == [less EXCEPT !.hh_head = hd]
<1>1. less \in Bucket /\ less.count = old.count - 1 /\ less.hh_head = old.hh_head
  BY DEF Bucket
<1>2. hd \in Link
  BY DEF Bucket
<1>3. Without(old, c, n) = new
  BY DEF Without, Bucket
<1> HIDE DEF less, hd
<1>4. new \in Bucket /\ new.count = old.count - 1 /\ new.hh_head = hd
  BY <1>1, <1>2 DEF Bucket
<1> QED BY <1>3, <1>4 DEF hd

(* The fields of f when c has left bucket b, one of n, of the table t of g. *)
OutOfBucket(g, f, t, c, b, n) ==
  /\ f.next = g.next /\ f.prev = g.prev
  /\ f.hh_next = Bypass(g.hh_next, g.hh_prev[c], g.hh_next[c])
  /\ f.hh_prev = Bypass(g.hh_prev, g.hh_next[c], g.hh_prev[c])
  /\ \A u \in Tables : u # t => f.table[u] = g.table[u]
  /\ f.table[t].head = g.table[t].head
  /\ f.table[t].tail = g.table[t].tail
  /\ f.table[t].num_items = g.table[t].num_items
  /\ f.table[t].num_buckets = g.table[t].num_buckets
  /\ f.table[t].bkt[b].count = g.table[t].bkt[b].count - 1
  /\ f.table[t].bkt[b].hh_head = IF g.table[t].bkt[b].hh_head = c THEN g.hh_next[c]
                                 ELSE g.table[t].bkt[b].hh_head
  /\ \A a \in 0 .. n - 1 : a # b => f.table[t].bkt[a] = g.table[t].bkt[a]
  /\ f.table[t].bkt \in [0 .. n - 1 -> Bucket]
  /\ f \in Memory

(* HASH_DEL_IN_BKT, field by field. *)
LEMMA DelInBktFields ==
  ASSUME NEW g \in Memory, NEW t \in Tables, NEW c \in Cords, NEW n \in Nat,
         g.table[t].bkt \in [0 .. n - 1 -> Bucket], NEW b \in 0 .. n - 1,
         NEW f, f = HASH_DEL_IN_BKT(g, t, c, b)
  PROVE  OutOfBucket(g, f, t, c, b, n)
<1> DEFINE bk == g.table[t].bkt
           old == bk[b]
           new == Without(old, c, g.hh_next[c])
           bk2 == [bk EXCEPT ![b] = new]
           tb2 == [g.table[t] EXCEPT !.bkt = bk2]
           hn2 == Bypass(g.hh_next, g.hh_prev[c], g.hh_next[c])
           hp2 == Bypass(g.hh_prev, g.hh_next[c], g.hh_prev[c])
<1>1. /\ g.table \in [Tables -> TableType] /\ g.table[t] \in TableType
      /\ old \in Bucket /\ g.hh_next[c] \in Link /\ g.hh_prev[c] \in Link
      /\ g.hh_next \in Links /\ g.hh_prev \in Links /\ g.next \in Links /\ g.prev \in Links
  BY DEF Memory, Links
<1>2. /\ new \in Bucket /\ new.count = old.count - 1
      /\ new.hh_head = IF old.hh_head = c THEN g.hh_next[c] ELSE old.hh_head
  BY <1>1, WithoutType
<1>3. /\ bk2 \in [0 .. n - 1 -> Bucket] /\ bk2[b] = new
      /\ \A a \in 0 .. n - 1 : a # b => bk2[a] = bk[a]
  <2> HIDE DEF new, bk
  <2> QED BY <1>2 DEF bk
<1>4. hn2 \in Links /\ hp2 \in Links
  BY <1>1 DEF Bypass, Links, Link
<1>5. f = [g EXCEPT !.hh_next = hn2, !.hh_prev = hp2, !.table[t].bkt[b] = new]
  BY <1>1 DEF HASH_DEL_IN_BKT, Memory
<1> HIDE DEF new, hn2, hp2, old
<1>6. /\ f.hh_next = hn2 /\ f.hh_prev = hp2 /\ f.next = g.next /\ f.prev = g.prev
      /\ f.table = [g.table EXCEPT ![t].bkt[b] = new]
  BY <1>5 DEF Memory
<1>7. f = [table |-> f.table, prev |-> f.prev, next |-> f.next,
           hh_prev |-> f.hh_prev, hh_next |-> f.hh_next]
  BY <1>5 DEF Memory
<1> HIDE DEF bk2
<1>8. f.table = [g.table EXCEPT ![t] = tb2]
  BY <1>1, <1>6 DEF TableType, bk2
<1>9. /\ tb2.head = g.table[t].head /\ tb2.tail = g.table[t].tail
      /\ tb2.num_items = g.table[t].num_items /\ tb2.num_buckets = g.table[t].num_buckets
      /\ tb2.bkt = bk2
  BY <1>1 DEF TableType
<1>10. tb2 \in TableType
  <2>1. bk2 \in Arrays
    BY <1>3 DEF Arrays
  <2> QED BY <1>1, <2>1 DEF TableType
<1> HIDE DEF tb2
<1>11. /\ f.table \in [Tables -> TableType] /\ f.table[t] = tb2
       /\ \A u \in Tables : u # t => f.table[u] = g.table[u]
  BY <1>1, <1>8, <1>10
<1>12. f \in Memory
  BY <1>1, <1>4, <1>6, <1>7, <1>11 DEF Memory
<1> QED BY <1>2, <1>3, <1>6, <1>9, <1>11, <1>12 DEF OutOfBucket, bk, old, hn2, hp2

(* A table with twice the buckets holds the same cords.                    *)
LEMMA ExpandKeeps ==
  ASSUME HashvType, NEW g \in Memory, NEW t \in Tables, NEW s, s # << >>, Keeps(g, t, s),
         NEW f, f = HASH_EXPAND_BUCKETS(g, t)
  PROVE  Keeps(f, t, s) /\ Touches(g, f, t, ToSet(s))
<1> DEFINE tb == g.table[t]
           m == tb.num_buckets
           n == 2 * m
           ideal == tb.num_items \div n + (IF tb.num_items % n # 0 THEN 1 ELSE 0)
           start == [hh_prev |-> g.hh_prev, hh_next |-> g.hh_next, bkt |-> Buckets(n), nonideal |-> 0]
           x == BucketByBucket(g, t)
           new == Redistributed(start, x, n, ideal)
           ineff == IF new.nonideal > tb.num_items \div 2 THEN tb.ineff_expands + 1 ELSE 0
           tb1 == [tb EXCEPT !.bkt = new.bkt]
           tb2 == [tb1 EXCEPT !.num_buckets = n]
           tb3 == [tb2 EXCEPT !.ineff_expands = ineff]
           tb4 == [tb3 EXCEPT !.noexpand = @ \/ ineff > 1]
<1>1. /\ DList(s, tb.head, g.next, g.prev)
      /\ tb.tail = s[Len(s)] /\ tb.num_items = Len(s)
      /\ Chains(tb.bkt, m, g.hh_next, g.hh_prev, ToSet(s))
  BY DEF Keeps
<1>2. /\ g.table \in [Tables -> TableType] /\ tb \in TableType
      /\ g.hh_next \in Links /\ g.hh_prev \in Links /\ g.next \in Links /\ g.prev \in Links
  BY DEF Memory
<1>3. m \in Nat \ {0} /\ n \in Nat \ {0} /\ tb.num_items \in Int
  <2>1. m \in Nat \ {0}
    BY <1>1 DEF Chains
  <2> HIDE DEF m
  <2>2. n \in Nat \ {0}
    BY <2>1
  <2> QED BY <1>2, <2>1, <2>2 DEF TableType, m
<1>4. ideal \in Int
  <2>1. \A k \in Int, l \in Nat \ {0} : k \div l \in Int
    OBVIOUS
  <2> HIDE DEF n
  <2> QED BY <1>2, <1>3, <2>1
<1>5. ToSet(s) \in SUBSET Cords
  BY <1>1, DListFacts
<1>6. x \in Seq(Cords) /\ IsInjective(x) /\ ToSet(x) = ToSet(s)
  <2>1. x = FlattenSeq([i \in 1 .. m |-> Path(tb.bkt[i - 1].hh_head, g.hh_next)])
    BY DEF BucketByBucket
  <2> DEFINE bk == tb.bkt
             hn == g.hh_next
  <2> HIDE DEF x, m, bk, hn
  <2>2. Chains(bk, m, hn, g.hh_prev, ToSet(s)) /\ x = FlattenSeq([i \in 1 .. m |-> Path(bk[i - 1].hh_head, hn)])
    BY <1>1, <2>1 DEF bk, hn
  <2> QED BY <1>5, <2>2, BucketsReachAll
<1>7. start \in Spread(n) /\ Chains(start.bkt, n, start.hh_next, start.hh_prev, {})
  <2> HIDE DEF n
  <2>1. Chains(Buckets(n), n, start.hh_next, start.hh_prev, {})
    BY <1>3, ChainsEmpty
  <2>2. Buckets(n) \in [0 .. n - 1 -> Bucket]
    BY <2>1 DEF Chains
  <2> QED BY <1>2, <2>1, <2>2 DEF Spread
<1>8. start.hh_next = g.hh_next /\ start.hh_prev = g.hh_prev
  OBVIOUS
<1>9. f = [g EXCEPT !.hh_prev = new.hh_prev, !.hh_next = new.hh_next, !.table[t] = tb4]
  <2>1. tb4 = [tb EXCEPT !.bkt = new.bkt, !.num_buckets = n, !.ineff_expands = ineff,
                         !.noexpand = @ \/ ineff > 1]
    <3> HIDE DEF new, n, ineff
    <3> QED BY <1>2 DEF TableType
  <2> HIDE DEF tb4
  <2> QED BY <2>1 DEF HASH_EXPAND_BUCKETS
<1> HIDE DEF start, x, ideal
<1>10. /\ new \in Spread(n)
       /\ Chains(new.bkt, n, new.hh_next, new.hh_prev, ToSet(s))
       /\ OtherLinks(ToSet(s), g.hh_next, g.hh_prev, new.hh_next, new.hh_prev)
  <2> HIDE DEF n
  <2>1. /\ new \in Spread(n)
        /\ Chains(new.bkt, n, new.hh_next, new.hh_prev, ToSet(x))
        /\ OtherLinks(ToSet(x), start.hh_next, start.hh_prev, new.hh_next, new.hh_prev)
    BY <1>3, <1>4, <1>6, <1>7, RedistributedAll
  <2> QED BY <1>6, <1>8, <2>1
<1>11. /\ new.hh_next \in Links /\ new.hh_prev \in Links /\ new.bkt \in [0 .. n - 1 -> Bucket]
       /\ new.nonideal \in Int
  <2> HIDE DEF new, n
  <2> QED BY <1>10 DEF Spread
<1>12. ineff \in Int
  <2> HIDE DEF new
  <2> QED BY <1>2 DEF TableType
<1> HIDE DEF new, n, ineff
<1>13. tb1 \in TableType /\ tb1.bkt = new.bkt
       /\ tb1.head = tb.head /\ tb1.tail = tb.tail /\ tb1.num_items = tb.num_items
  <2>1. new.bkt \in Arrays
    BY <1>3, <1>11 DEF Arrays
  <2> HIDE DEF tb
  <2> QED BY <1>2, <2>1 DEF TableType
<1> HIDE DEF tb1
<1>14. tb2 \in TableType /\ tb2.bkt = tb1.bkt /\ tb2.num_buckets = n
       /\ tb2.head = tb1.head /\ tb2.tail = tb1.tail /\ tb2.num_items = tb1.num_items
  BY <1>3, <1>13 DEF TableType
<1> HIDE DEF tb2
<1>15. tb3 \in TableType /\ tb3.bkt = tb2.bkt /\ tb3.num_buckets = n
       /\ tb3.head = tb2.head /\ tb3.tail = tb2.tail /\ tb3.num_items = tb2.num_items
  BY <1>12, <1>14 DEF TableType
<1> HIDE DEF tb3
<1>16. tb4 \in TableType /\ tb4.bkt = tb3.bkt /\ tb4.num_buckets = n
       /\ tb4.head = tb3.head /\ tb4.tail = tb3.tail /\ tb4.num_items = tb3.num_items
  BY <1>15 DEF TableType
<1> HIDE DEF tb4
<1>17. /\ f.next = g.next /\ f.prev = g.prev /\ f.hh_next = new.hh_next /\ f.hh_prev = new.hh_prev
       /\ f.table = [g.table EXCEPT ![t] = tb4]
  BY <1>9 DEF Memory
<1>18. f = [table |-> f.table, prev |-> f.prev, next |-> f.next,
            hh_prev |-> f.hh_prev, hh_next |-> f.hh_next]
  BY <1>9 DEF Memory
<1>19. /\ f.table \in [Tables -> TableType] /\ f.table[t] = tb4
       /\ \A u \in Tables : u # t => f.table[u] = g.table[u]
  BY <1>2, <1>16, <1>17
<1>20. f \in Memory
  BY <1>2, <1>11, <1>17, <1>18, <1>19 DEF Memory
<1>21. Keeps(f, t, s)
  BY <1>1, <1>10, <1>13, <1>14, <1>15, <1>16, <1>17, <1>19 DEF Keeps
<1>22. Touches(g, f, t, ToSet(s))
  BY <1>10, <1>17, <1>19, <1>20 DEF Touches, SameLinks, OtherLinks
<1> QED BY <1>21, <1>22

(* c is last in the list of the table t, which has the cords of s in its   *)
(* chains.                                                                 *)
Linked(g, t, s, c) ==
  /\ DList(Append(s, c), g.table[t].head, g.next, g.prev)
  /\ g.table[t].tail = c /\ g.table[t].num_items = Len(s)
  /\ Chains(g.table[t].bkt, g.table[t].num_buckets, g.hh_next, g.hh_prev, ToSet(s))

(* Such a cord joins the chains.                                           *)
LEMMA AddToTableKeeps ==
  ASSUME HashvType, NEW g \in Memory, NEW t \in Tables, NEW s \in Seq(Cords),
         NEW c \in Cords, c \notin ToSet(s), NEW u, u = Append(s, c),
         Linked(g, t, s, c), NEW f, f = AddToTable(g, t, c)
  PROVE  Keeps(f, t, u) /\ Touches(g, f, t, ToSet(u))
<1> DEFINE tb == g.table[t]
           m == tb.num_buckets
           bk == tb.bkt
           b == HASH_TO_BKT(c, m)
           first == bk[b].hh_head
           hn == g.hh_next
           hp == g.hh_prev
           hn2 == [hn EXCEPT ![c] = first]
           hp2 == IF first = NULL THEN [hp EXCEPT ![c] = NULL]
                                  ELSE [hp EXCEPT ![c] = NULL, ![first] = c]
           new1 == [bk[b] EXCEPT !.hh_head = c]
           new == [new1 EXCEPT !.count = @ + 1]
           bk2 == [bk EXCEPT ![b] = new]
           tb1 == [tb EXCEPT !.num_items = @ + 1]
           tb2 == [tb1 EXCEPT !.bkt = bk2]
           p == Prepend(g, c, first)
           a == [p EXCEPT !.table[t] = tb2]
<1>1. /\ g.table \in [Tables -> TableType] /\ tb \in TableType
      /\ hn \in Links /\ hp \in Links /\ g.next \in Links /\ g.prev \in Links
  BY DEF Memory
<1>2. /\ ToSet(u) = ToSet(s) \cup {c} /\ Len(u) = Len(s) + 1 /\ u[Len(u)] = c /\ u # << >>
      /\ ToSet(s) \in SUBSET Cords /\ Len(s) \in Nat
  <2>1. ToSet(u) = ToSet(s) \cup {c}
    BY AppendElements
  <2>2. Len(u) = Len(s) + 1 /\ u[Len(u)] = c /\ u # << >> /\ Len(s) \in Nat
    OBVIOUS
  <2>3. ToSet(s) \in SUBSET Cords
    BY DEF ToSet
  <2> QED BY <2>1, <2>2, <2>3
<1>3. Chains(bk, m, hn, hp, ToSet(s)) /\ m \in Nat \ {0} /\ bk \in [0 .. m - 1 -> Bucket]
  BY DEF Linked, Chains
<1>4. b \in 0 .. m - 1
  <2> HIDE DEF m
  <2> QED BY <1>3, BucketOf
<1>5. bk[b] \in Bucket
  <2> HIDE DEF m, bk, b
  <2> QED BY <1>3, <1>4
<1>6. first \in Link /\ first # c /\ c \in Link
  <2>1. first = NULL \/ first \in ToSet(s)
    <3> HIDE DEF m, bk, b, hn, hp
    <3> QED BY <1>2, <1>3, <1>4, ChainHead
  <2> QED BY <1>2, <2>1, Basics DEF Link
<1>7. new \in Bucket /\ new.hh_head = c /\ new.count = bk[b].count + 1
  <2>1. new1 \in Bucket /\ new1.hh_head = c /\ new1.count = bk[b].count
    <3> HIDE DEF m, bk, b
    <3> QED BY <1>5, <1>6 DEF Bucket
  <2> HIDE DEF new1, bk
  <2> QED BY <2>1 DEF Bucket
<1>8. Joined(hn, hp, c, first, hn2, hp2) /\ hn2 \in Links /\ hp2 \in Links
  <2> HIDE DEF first, hn, hp
  <2> QED BY <1>1, <1>6, PrependJoins
<1>9. f = IF TooLong(a.table[t], b) THEN HASH_EXPAND_BUCKETS(a, t) ELSE a
  <2> DEFINE new0 == [bk[b] EXCEPT !.hh_head = c, !.count = @ + 1]
             tb0 == [tb EXCEPT !.num_items = @ + 1, !.bkt[b] = new0]
             a0 == [p EXCEPT !.table[t] = tb0]
  <2>1. f = IF TooLong(a0.table[t], b) THEN HASH_EXPAND_BUCKETS(a0, t) ELSE a0
    BY DEF AddToTable
  <2>2. new0 = new
    <3> HIDE DEF m, bk, b
    <3> QED BY <1>5 DEF Bucket
  <2> HIDE DEF new0, new
  <2>3. tb0 = tb2
    <3> HIDE DEF b
    <3> QED BY <1>1, <2>2 DEF TableType
  <2> HIDE DEF tb0, tb2
  <2>4. a0 = a
    BY <2>3
  <2> HIDE DEF a0, a
  <2> QED BY <2>1, <2>4
<1>10. /\ p.hh_next = hn2 /\ p.hh_prev = hp2 /\ p.next = g.next /\ p.prev = g.prev
       /\ p.table = g.table /\ p \in Memory
  <2> HIDE DEF first
  <2>1. p.table = g.table /\ p.next = g.next /\ p.prev = g.prev
    BY DEF Prepend, Memory
  <2>2. p.hh_next = hn2
    BY DEF Prepend, Memory
  <2>3. p.hh_prev = hp2
    BY DEF Prepend, Memory
  <2>4. p \in Memory
    BY <1>6 DEF Prepend, Memory, Links, Link
  <2> QED BY <2>1, <2>2, <2>3, <2>4
<1> HIDE DEF new, p, hn2, hp2, b
<1>11. /\ bk2 \in [0 .. m - 1 -> Bucket] /\ bk2[b] = new
       /\ \A i \in 0 .. m - 1 : i # b => bk2[i] = bk[i]
  <2> HIDE DEF bk, m
  <2> QED BY <1>3, <1>4, <1>7
<1>12. tb1 \in TableType /\ tb1.num_items = Len(u) /\ tb1.head = tb.head /\ tb1.tail = tb.tail
       /\ tb1.num_buckets = m
  <2>1. tb.num_items = Len(s)
    BY DEF Linked
  <2> HIDE DEF tb
  <2>2. tb1 \in TableType /\ tb1.num_items = tb.num_items + 1 /\ tb1.head = tb.head
        /\ tb1.tail = tb.tail /\ tb1.num_buckets = tb.num_buckets
    BY <1>1 DEF TableType
  <2> QED BY <1>2, <2>1, <2>2
<1> HIDE DEF tb1, bk2
<1>13. tb2 \in TableType /\ tb2.bkt = bk2 /\ tb2.head = tb.head /\ tb2.tail = tb.tail
       /\ tb2.num_buckets = m /\ tb2.num_items = Len(u)
  <2>1. bk2 \in Arrays
    BY <1>3, <1>11 DEF Arrays
  <2> HIDE DEF tb, m
  <2> QED BY <1>12, <2>1 DEF TableType
<1> HIDE DEF tb2
<1>14. /\ a \in Memory
       /\ a.hh_next = hn2 /\ a.hh_prev = hp2 /\ a.next = g.next /\ a.prev = g.prev
       /\ a.table[t] = tb2
       /\ \A v \in Tables : v # t => a.table[v] = g.table[v]
  BY <1>10, <1>13 DEF Memory
<1>15. /\ Chains(bk2, m, hn2, hp2, ToSet(u))
       /\ OtherLinks(ToSet(u), hn, hp, hn2, hp2)
  <2>1. bk2[b].hh_head = c /\ bk2[b].count = bk[b].count + 1
    BY <1>7, <1>11
  <2>2. b = HASH_TO_BKT(c, m)
    BY DEF b
  <2> DEFINE S == ToSet(s)
  <2> HIDE DEF bk, m, hn, hp, S
  <2>3. /\ first = bk[b].hh_head /\ S \in SUBSET Cords /\ c \notin S /\ Chains(bk, m, hn, hp, S)
        /\ hn \in Links /\ hp \in Links /\ b \in 0 .. m - 1
        /\ Joined(hn, hp, c, first, hn2, hp2)
        /\ bk2 \in [0 .. m - 1 -> Bucket]
        /\ \A i \in 0 .. m - 1 : i # b => bk2[i] = bk[i]
    BY <1>1, <1>2, <1>3, <1>4, <1>8, <1>11 DEF S
  <2>4. Chains(bk2, m, hn2, hp2, S \cup {c})
    BY <2>1, <2>2, <2>3, ChainsAdd
  <2>5. OtherLinks(S \cup {c}, hn, hp, hn2, hp2)
    <3>1. first = NULL \/ first \in S
      BY <2>3, ChainHead
    <3> HIDE DEF first
    <3> QED BY <2>3, <3>1, JoinedOthers
  <2> QED BY <1>2, <2>4, <2>5 DEF S
<1> HIDE DEF a
<1>16. Keeps(a, t, u)
  <2>1. DList(u, tb.head, g.next, g.prev) /\ tb.tail = c
    BY DEF Linked
  <2> QED BY <2>1, <1>2, <1>13, <1>14, <1>15 DEF Keeps
<1>17. Touches(g, a, t, ToSet(u))
  BY <1>14, <1>15 DEF Touches, SameLinks, OtherLinks
<1>18. CASE TooLong(a.table[t], b)
  <2>1. f = HASH_EXPAND_BUCKETS(a, t)
    BY <1>9, <1>18
  <2>2. Keeps(f, t, u) /\ Touches(a, f, t, ToSet(u))
    BY <1>2, <1>14, <1>16, <2>1, ExpandKeeps
  <2> QED BY <1>17, <2>2, TouchesTwice
<1>19. CASE ~TooLong(a.table[t], b)
  <2>1. f = a
    BY <1>9, <1>19
  <2> QED BY <1>16, <1>17, <2>1
<1> QED BY <1>18, <1>19

(* HASH_ADD appends to the sequence. *)
LEMMA AddAppends ==
  ASSUME HashvType, NEW g \in Memory, NEW t \in Tables, NEW s, Keeps(g, t, s),
         NEW c \in Cords, c \notin ToSet(s), NEW f, f = HASH_ADD(g, t, c)
  PROVE  /\ Keeps(f, t, Append(s, c))
         /\ Touches(g, f, t, ToSet(s) \cup {c})
<1> DEFINE tb == g.table[t]
           u == Append(s, c)
           p1 == [g EXCEPT !.next[c] = NULL, !.prev[c] = NULL, !.table[t] = Table(c, InitialNum)]
           p2 == HASH_APPEND_LIST(g, t, c)
           p == IF tb.head = NULL THEN p1 ELSE p2
<1>1. /\ s \in Seq(Cords) /\ DList(s, tb.head, g.next, g.prev)
      /\ ToSet(s) \subseteq Cords /\ Len(s) \in Nat /\ (s = << >> <=> Len(s) = 0)
      /\ \A i \in 1 .. Len(s) : s[i] \in Cords /\ s[i] \in ToSet(s) /\ s[i] # NULL
  BY DListFacts DEF Keeps
<1>2. /\ ToSet(u) = ToSet(s) \cup {c}
  BY <1>1, AppendElements
<1>3. /\ g.table \in [Tables -> TableType] /\ tb \in TableType
      /\ g.hh_next \in Links /\ g.hh_prev \in Links /\ g.next \in Links /\ g.prev \in Links
      /\ c \in Link /\ NULL \in Link /\ NULL \notin Cords
  BY Basics DEF Memory, Link
<1>4. tb.head = IF s = << >> THEN NULL ELSE s[1]
  BY <1>1 DEF DList
<1>5. s # << >> => tb.head # NULL /\ Len(s) \in 1 .. Len(s)
  <2> SUFFICES ASSUME s # << >> PROVE tb.head # NULL /\ Len(s) \in 1 .. Len(s)
    OBVIOUS
  <2>1. 1 \in 1 .. Len(s) /\ Len(s) \in 1 .. Len(s)
    BY <1>1
  <2> QED BY <1>1, <1>4, <2>1
<1>6. f = AddToTable(p, t, c)
  BY DEF HASH_ADD
<1>7. /\ p \in Memory
      /\ Linked(p, t, s, c)
      /\ Touches(g, p, t, ToSet(u))
  <2>1. CASE s = << >>
    <3> DEFINE tb2 == Table(c, InitialNum)
               nx == [g.next EXCEPT ![c] = NULL]
               pv == [g.prev EXCEPT ![c] = NULL]
    <3>1. p = p1
      BY <2>1, <1>4
    <3>2. /\ tb2.head = c /\ tb2.tail = c /\ tb2.num_items = 0 /\ tb2.num_buckets = InitialNum
          /\ tb2.bkt = Buckets(InitialNum)
          /\ tb2 = [head |-> c, tail |-> c, num_items |-> 0, num_buckets |-> InitialNum,
                    bkt |-> Buckets(InitialNum), ineff_expands |-> 0, noexpand |-> FALSE]
      BY DEF Table
    <3> HIDE DEF tb2
    <3>3. Chains(Buckets(InitialNum), InitialNum, g.hh_next, g.hh_prev, {})
      BY Basics, ChainsEmpty
    <3>4. tb2 \in TableType
      <4>1. Buckets(InitialNum) \in Arrays
        BY <3>3, Basics DEF Chains, Arrays
      <4> QED BY <1>3, <3>2, <4>1, Basics DEF TableType
    <3>5. p1 = [g EXCEPT !.next[c] = NULL, !.prev[c] = NULL, !.table[t] = tb2]
      BY DEF tb2
    <3>5a. p1 = [g EXCEPT !.next = nx, !.prev = pv, !.table[t] = tb2]
      BY <3>5 DEF Memory
    <3> HIDE DEF nx, pv, p1
    <3>6. /\ p1.next = nx /\ p1.prev = pv /\ p1.hh_next = g.hh_next /\ p1.hh_prev = g.hh_prev
          /\ p1.table = [g.table EXCEPT ![t] = tb2]
      BY <3>5a DEF Memory
    <3>7. p1 = [table |-> p1.table, prev |-> p1.prev, next |-> p1.next,
                hh_prev |-> p1.hh_prev, hh_next |-> p1.hh_next]
      BY <3>5a DEF Memory
    <3>8. /\ p1.table \in [Tables -> TableType] /\ p1.table[t] = tb2
          /\ \A v \in Tables : v # t => p1.table[v] = g.table[v]
      BY <1>3, <3>4, <3>6
    <3>9. /\ nx \in Links /\ pv \in Links /\ nx[c] = NULL /\ pv[c] = NULL
          /\ \A d \in Cords : d # c => nx[d] = g.next[d] /\ pv[d] = g.prev[d]
      BY <1>3 DEF Links, nx, pv
    <3>10. p1 \in Memory
      BY <1>3, <3>6, <3>7, <3>8, <3>9 DEF Memory
    <3>11. DList(u, c, nx, pv)
      <4>1. \A d \in ToSet(s) : FALSE
        BY <2>1 DEF ToSet
      <4>2. DList(u, IF s = << >> THEN c ELSE tb.head, nx, pv)
        <5>1. Appended(s, g.next, g.prev, c, nx, pv)
          BY <2>1, <3>9, <4>1 DEF Appended
        <5> QED BY <1>1, <1>3, <5>1, DListAppend
      <4> QED BY <2>1, <4>2
    <3>12. ToSet(s) = {} /\ Len(s) = 0
      BY <1>1, <2>1 DEF ToSet
    <3>13. Touches(g, p1, t, ToSet(u))
      BY <1>2, <3>6, <3>8, <3>9, <3>10 DEF Touches, SameLinks, OtherLinks
    <3> QED BY <3>1, <3>2, <3>3, <3>6, <3>8, <3>10, <3>11, <3>12, <3>13 DEF Linked
  <2>2. CASE s # << >>
    <3> DEFINE last == s[Len(s)]
               tb2 == [tb EXCEPT !.tail = c]
               nx == [g.next EXCEPT ![c] = NULL, ![last] = c]
               pv == [g.prev EXCEPT ![c] = last]
    <3>1. p = p2
      BY <2>2, <1>5
    <3>2. /\ last \in Cords /\ last \in ToSet(s) /\ last # c /\ tb.tail = last /\ tb.num_items = Len(s)
          /\ Chains(tb.bkt, tb.num_buckets, g.hh_next, g.hh_prev, ToSet(s))
      BY <1>1, <1>5, <2>2 DEF Keeps
    <3> HIDE DEF last
    <3>3. /\ tb2 \in TableType /\ tb2.tail = c /\ tb2.head = tb.head
          /\ tb2.num_items = tb.num_items /\ tb2.bkt = tb.bkt /\ tb2.num_buckets = tb.num_buckets
      BY <1>3 DEF TableType
    <3>4. p2 = [g EXCEPT !.next = nx, !.prev = pv, !.table[t] = tb2]
      BY <1>3, <3>2 DEF HASH_APPEND_LIST, Memory
    <3> HIDE DEF tb2, nx, pv, p2
    <3>5. /\ p2.next = nx /\ p2.prev = pv /\ p2.hh_next = g.hh_next /\ p2.hh_prev = g.hh_prev
          /\ p2.table = [g.table EXCEPT ![t] = tb2]
      BY <3>4 DEF Memory
    <3>6. p2 = [table |-> p2.table, prev |-> p2.prev, next |-> p2.next,
                hh_prev |-> p2.hh_prev, hh_next |-> p2.hh_next]
      BY <3>4 DEF Memory
    <3>7. /\ p2.table \in [Tables -> TableType] /\ p2.table[t] = tb2
          /\ \A v \in Tables : v # t => p2.table[v] = g.table[v]
      BY <1>3, <3>3, <3>5
    <3>8. /\ nx \in Links /\ pv \in Links /\ nx[c] = NULL /\ pv[c] = last /\ nx[last] = c
          /\ \A d \in Cords : d # c /\ d # last => nx[d] = g.next[d]
          /\ \A d \in Cords : d # c => pv[d] = g.prev[d]
      BY <1>3, <3>2 DEF Links, Link, nx, pv
    <3>9. p2 \in Memory
      BY <1>3, <3>5, <3>6, <3>7, <3>8 DEF Memory
    <3>10. DList(u, tb.head, nx, pv)
      <4>1. \A d \in ToSet(s) : d \in Cords /\ d # c
        BY <1>1
      <4>2. Appended(s, g.next, g.prev, c, nx, pv)
        <5>1. /\ nx[c] = NULL /\ pv[c] = IF s = << >> THEN NULL ELSE s[Len(s)]
              /\ s # << >> => nx[s[Len(s)]] = c
              /\ \A d \in ToSet(s) : /\ d # s[Len(s)] => nx[d] = g.next[d]
                                     /\ pv[d] = g.prev[d]
          BY <2>2, <3>8, <4>1 DEF last
        <5> QED BY <5>1 DEF Appended
      <4>3. DList(u, IF s = << >> THEN c ELSE tb.head, nx, pv)
        <5>1. DList(s, tb.head, g.next, g.prev) /\ c \notin ToSet(s) /\ c \in Cords
          BY <1>1
        <5> DEFINE hd == tb.head
                   ox == g.next
                   ov == g.prev
        <5> HIDE DEF hd, ox, ov
        <5>2. DList(u, IF s = << >> THEN c ELSE hd, nx, pv)
          BY <1>3, <4>2, <5>1, DListAppend DEF hd, ox, ov
        <5> QED BY <5>2 DEF hd
      <4> QED BY <2>2, <4>3
    <3>11. Touches(g, p2, t, ToSet(u))
      BY <1>2, <3>2, <3>5, <3>7, <3>8, <3>9 DEF Touches, SameLinks, OtherLinks
    <3> QED BY <3>1, <3>2, <3>3, <3>5, <3>7, <3>9, <3>10, <3>11 DEF Linked
  <2> QED BY <2>1, <2>2
<1> HIDE DEF p, u
<1>8. u = Append(s, c)
  BY DEF u
<1>9. Keeps(f, t, u) /\ Touches(p, f, t, ToSet(u))
  BY <1>1, <1>6, <1>7, <1>8, AddToTableKeeps
<1>10. Touches(g, f, t, ToSet(u))
  BY <1>7, <1>9, TouchesTwice
<1> QED BY <1>2, <1>8, <1>9, <1>10

(* Links that go around a cord are links. *)
LEMMA BypassLinks ==
  ASSUME NEW link \in Links, NEW a \in Link, NEW b \in Link
  PROVE  Bypass(link, a, b) \in Links
BY DEF Bypass, Links, Link

(* HASH_DEL takes the cord out of the sequence. *)
LEMMA DelRemoves ==
  ASSUME HashvType, NEW g \in Memory, NEW t \in Tables, NEW s, Keeps(g, t, s),
         NEW i \in 1 .. Len(s), NEW c, c = s[i], NEW f, f = HASH_DEL(g, t, c)
  PROVE  Keeps(f, t, RemoveAt(s, i)) /\ Touches(g, f, t, ToSet(s))
<1> DEFINE r == RemoveAt(s, i)
           p == g.prev[c]
           n == g.next[c]
           tb == g.table[t]
<1>1. /\ s \in Seq(Cords) /\ IsInjective(s) /\ DList(s, tb.head, g.next, g.prev)
      /\ ToSet(s) \subseteq Cords /\ Len(s) \in Nat /\ DOMAIN s = 1 .. Len(s) /\ s # << >>
      /\ \A j \in 1 .. Len(s) : s[j] \in Cords /\ s[j] \in ToSet(s) /\ s[j] # NULL
  <2>1. DList(s, tb.head, g.next, g.prev)
    BY DEF Keeps
  <2>2. IsInjective(s)
    BY <2>1 DEF DList
  <2>3. /\ s \in Seq(Cords) /\ Len(s) \in Nat /\ DOMAIN s = 1 .. Len(s) /\ ToSet(s) \subseteq Cords
        /\ \A j \in 1 .. Len(s) : s[j] \in Cords /\ s[j] \in ToSet(s) /\ s[j] # NULL
        /\ s = << >> <=> Len(s) = 0
    BY <2>1, DListFacts
  <2>4. Len(s) # 0
    BY <2>3
  <2> QED BY <2>1, <2>2, <2>3, <2>4
<1>2. /\ tb.tail = s[Len(s)] /\ tb.num_items = Len(s)
      /\ Chains(tb.bkt, tb.num_buckets, g.hh_next, g.hh_prev, ToSet(s))
  BY <1>1 DEF Keeps
<1>3. /\ g.table \in [Tables -> TableType] /\ tb \in TableType
      /\ g.hh_next \in Links /\ g.hh_prev \in Links /\ g.next \in Links /\ g.prev \in Links
      /\ c \in Cords /\ c \in ToSet(s) /\ NULL \notin Cords /\ p \in Link /\ n \in Link
  BY <1>1, Basics DEF Memory, Links
<1>4. /\ r \in Seq(Cords) /\ Len(r) = Len(s) - 1 /\ ToSet(r) = ToSet(s) \ {c}
      /\ \A j \in 1 .. Len(s) - 1 : r[j] = IF j < i THEN s[j] ELSE s[j + 1]
  BY <1>1, RemoveAtShape, RemoveAtElements
<1>5. /\ p = IF i = 1 THEN NULL ELSE s[i - 1]
      /\ n = IF i = Len(s) THEN NULL ELSE s[i + 1]
  BY <1>1 DEF DList
<1>6. /\ i # 1 => i - 1 \in 1 .. Len(s)
      /\ i # Len(s) => i + 1 \in 1 .. Len(s)
      /\ i \in 1 .. Len(s) /\ i \in Int
  <2>1. i \in 1 .. Len(s) /\ Len(s) \in Nat
    BY <1>1
  <2> QED BY <2>1
<1>7. (p = NULL <=> i = 1) /\ (n = NULL <=> i = Len(s))
  BY <1>1, <1>5, <1>6
<1>8. CASE p = NULL /\ n = NULL
  <2>1. f = [g EXCEPT !.table[t] = NoTable]
    BY <1>8 DEF HASH_DEL
  <2>2. NoTable \in TableType /\ NoTable.head = NULL
    <3>1. Buckets(0) \in [0 .. 0 - 1 -> Bucket]
      BY DEF Buckets, NewBucket, Bucket, Link
    <3>2. Buckets(0) \in Arrays
      BY <3>1 DEF Arrays
    <3> QED BY <3>2 DEF NoTable, Table, TableType, Link
  <2>3. /\ f \in Memory /\ f.table[t] = NoTable
        /\ f.next = g.next /\ f.prev = g.prev /\ f.hh_next = g.hh_next /\ f.hh_prev = g.hh_prev
        /\ \A u \in Tables : u # t => f.table[u] = g.table[u]
    BY <2>1, <2>2 DEF Memory
  <2>4. r = << >>
    BY <1>1, <1>4, <1>6, <1>7, <1>8
  <2>5. Keeps(f, t, << >>)
    BY <2>2, <2>3, DListEmpty DEF Keeps
  <2>6. Touches(g, f, t, ToSet(s))
    BY <2>3 DEF Touches, OtherLinks
  <2> QED BY <2>4, <2>5, <2>6
<1>9. CASE ~(p = NULL /\ n = NULL)
  <2> DEFINE nx == Bypass(g.next, p, n)
             pv == Bypass(g.prev, n, p)
             hd == IF p = NULL THEN n ELSE tb.head
             tl == IF tb.tail = c THEN p ELSE tb.tail
             tb1 == [tb EXCEPT !.head = hd]
             tb2 == [tb1 EXCEPT !.tail = tl]
             tb3 == [tb2 EXCEPT !.num_items = @ - 1]
             a == [g EXCEPT !.next = nx, !.prev = pv, !.table[t] = tb3]
             m == tb.num_buckets
             b == HASH_TO_BKT(c, m)
             bk == tb.bkt
             hn == g.hh_next
             hp == g.hh_prev
  <2>1. nx \in Links /\ pv \in Links /\ hd \in Link /\ tl \in Link
    <3>1. tb.head \in Link /\ tb.tail \in Link
      BY <1>3 DEF TableType
    <3> QED BY <1>3, <3>1, BypassLinks
  <2>2. /\ DList(r, IF i = 1 THEN n ELSE tb.head, nx, pv)
        /\ OtherLinks(ToSet(s), g.next, g.prev, nx, pv)
    BY <1>1, <1>3, DListRemove
  <2>3. r # << >> /\ tl = r[Len(r)]
    <3>1. Len(s) # 1 /\ Len(r) \in 1 .. Len(s) - 1 /\ Len(s) - 1 \in 1 .. Len(s) /\ Len(r) + 1 = Len(s)
      <4>1. ~(i = 1 /\ i = Len(s))
        BY <1>7, <1>9
      <4>2. Len(s) \in Nat /\ i \in 1 .. Len(s) /\ Len(r) = Len(s) - 1
        BY <1>1, <1>4, <1>6
      <4> HIDE DEF r
      <4> QED BY <4>1, <4>2
    <3>2. r # << >>
      BY <3>1
    <3>3. CASE i = Len(s)
      <4>1. r[Len(r)] = s[Len(s) - 1]
        BY <1>4, <3>1, <3>3
      <4> QED BY <1>2, <1>5, <3>1, <3>2, <3>3, <4>1
    <3>4. CASE i # Len(s)
      <4>1. ~(Len(r) < i)
        BY <1>4, <1>6, <3>1, <3>4
      <4>2. r[Len(r)] = s[Len(s)]
        BY <1>4, <3>1, <4>1
      <4>3. s[Len(s)] # c
        <5>1. Len(s) \in 1 .. Len(s)
          BY <3>1
        <5> QED BY <1>1, <1>6, <3>4, <5>1 DEF IsInjective
      <4> QED BY <1>2, <3>2, <4>2, <4>3
    <3> QED BY <3>3, <3>4
  <2>4. /\ Chains(bk, m, hn, hp, ToSet(s)) /\ m \in Nat \ {0} /\ bk \in [0 .. m - 1 -> Bucket]
        /\ b \in 0 .. m - 1
    <3>1. Chains(bk, m, hn, hp, ToSet(s)) /\ m \in Nat \ {0} /\ bk \in [0 .. m - 1 -> Bucket]
      BY <1>2 DEF Chains
    <3> HIDE DEF m
    <3> QED BY <1>3, <3>1, BucketOf
  <2>5. f = HASH_DEL_IN_BKT(a, t, c, b)
    <3> DEFINE tb0 == [tb EXCEPT !.head = IF p = NULL THEN n ELSE @,
                                 !.tail = IF @ = c THEN p ELSE @,
                                 !.num_items = @ - 1]
               a0 == [g EXCEPT !.next = Bypass(@, p, n), !.prev = Bypass(@, n, p), !.table[t] = tb0]
    <3>1. f = HASH_DEL_IN_BKT(a0, t, c, b)
      BY <1>9 DEF HASH_DEL
    <3>2. tb0 = tb3
      BY <1>3 DEF TableType
    <3> HIDE DEF tb0, tb3
    <3>3. a0 = a
      BY <3>2, <1>3 DEF Memory
    <3> QED BY <3>1, <3>3
  <2> HIDE DEF nx, pv, hd, tl, b
  <2>6. tb1 \in TableType /\ tb1.head = hd /\ tb1.tail = tb.tail /\ tb1.num_items = tb.num_items
        /\ tb1.bkt = bk /\ tb1.num_buckets = m
    BY <1>3, <2>1 DEF TableType
  <2> HIDE DEF tb1
  <2>7. tb2 \in TableType /\ tb2.head = hd /\ tb2.tail = tl /\ tb2.num_items = tb.num_items
        /\ tb2.bkt = bk /\ tb2.num_buckets = m
    BY <2>1, <2>6 DEF TableType
  <2> HIDE DEF tb2
  <2>8. tb3 \in TableType /\ tb3.head = hd /\ tb3.tail = tl /\ tb3.num_items = tb.num_items - 1
        /\ tb3.bkt = bk /\ tb3.num_buckets = m
    BY <2>7 DEF TableType
  <2> HIDE DEF tb3
  <2>9. /\ a \in Memory /\ a.table[t] = tb3 /\ a.next = nx /\ a.prev = pv
        /\ a.hh_next = hn /\ a.hh_prev = hp
        /\ \A u \in Tables : u # t => a.table[u] = g.table[u]
    BY <2>1, <2>8 DEF Memory
  <2> HIDE DEF a
  <2> DEFINE hn2 == Bypass(hn, hp[c], hn[c])
             hp2 == Bypass(hp, hn[c], hp[c])
             ft == f.table[t]
  <2>10. /\ f.next = nx /\ f.prev = pv /\ f.hh_next = hn2 /\ f.hh_prev = hp2
         /\ \A u \in Tables : u # t => f.table[u] = g.table[u]
         /\ ft.head = hd /\ ft.tail = tl /\ ft.num_items = tb.num_items - 1 /\ ft.num_buckets = m
         /\ ft.bkt[b].count = bk[b].count - 1
         /\ ft.bkt[b].hh_head = IF bk[b].hh_head = c THEN hn[c] ELSE bk[b].hh_head
         /\ \A k \in 0 .. m - 1 : k # b => ft.bkt[k] = bk[k]
         /\ ft.bkt \in [0 .. m - 1 -> Bucket]
         /\ f \in Memory
    <3> DEFINE at == a.table[t]
    <3>1. m \in Nat /\ at.bkt \in [0 .. m - 1 -> Bucket] /\ at.head = hd /\ at.tail = tl
          /\ at.num_items = tb.num_items - 1 /\ at.num_buckets = m /\ at.bkt = bk
      BY <2>4, <2>8, <2>9
    <3> HIDE DEF m, bk
    <3>0. a.table[t].bkt \in [0 .. m - 1 -> Bucket]
      BY <2>4, <2>8, <2>9 DEF bk
    <3>2. OutOfBucket(a, f, t, c, b, m)
      BY <1>3, <2>4, <2>5, <2>9, <3>0, <3>1, DelInBktFields
    <3>3. /\ f.next = a.next /\ f.prev = a.prev
          /\ f.hh_next = Bypass(a.hh_next, a.hh_prev[c], a.hh_next[c])
          /\ f.hh_prev = Bypass(a.hh_prev, a.hh_next[c], a.hh_prev[c])
          /\ \A u \in Tables : u # t => f.table[u] = a.table[u]
          /\ ft.head = at.head /\ ft.tail = at.tail /\ ft.num_items = at.num_items
          /\ ft.num_buckets = at.num_buckets
          /\ ft.bkt[b].count = at.bkt[b].count - 1
          /\ ft.bkt[b].hh_head = IF at.bkt[b].hh_head = c THEN a.hh_next[c] ELSE at.bkt[b].hh_head
          /\ \A k \in 0 .. m - 1 : k # b => ft.bkt[k] = at.bkt[k]
          /\ ft.bkt \in [0 .. m - 1 -> Bucket]
          /\ f \in Memory
      BY <3>2 DEF OutOfBucket
    <3> HIDE DEF at, ft, hn, hp
    <3> QED BY <2>9, <3>1, <3>3
  <2>11. /\ Chains(ft.bkt, m, hn2, hp2, ToSet(r))
         /\ OtherLinks(ToSet(s), hn, hp, hn2, hp2)
    <3> DEFINE S == ToSet(s)
               fb == ft.bkt
    <3> HIDE DEF m, bk, hn, hp, ft, S, fb
    <3>1. b = HASH_TO_BKT(c, m)
      BY DEF b
    <3>2. /\ S \in SUBSET Cords /\ hn \in Links /\ hp \in Links /\ c \in S
          /\ Chains(bk, m, hn, hp, S)
          /\ fb \in [0 .. m - 1 -> Bucket]
          /\ fb[b].hh_head = IF bk[b].hh_head = c THEN hn[c] ELSE bk[b].hh_head
          /\ fb[b].count = bk[b].count - 1
          /\ \A k \in 0 .. m - 1 : k # b => fb[k] = bk[k]
      BY <1>1, <1>3, <2>4, <2>10 DEF S, fb, hn, hp
    <3>2a. Shrunk(bk, fb, m, hn, b, c)
      BY <3>2 DEF Shrunk
    <3>3. Chains(fb, m, hn2, hp2, S \ {c})
      BY <3>1, <3>2, <3>2a, ChainsDelete
    <3>4. OtherLinks(S, hn, hp, hn2, hp2)
      BY <3>1, <3>2, <3>2a, ChainsDelete
    <3> QED BY <1>4, <3>3, <3>4 DEF S, fb
  <2> HIDE DEF hn2, hp2
  <2>12. hd = IF i = 1 THEN n ELSE tb.head
    BY <1>7 DEF hd
  <2>13. Keeps(f, t, r)
    <3> HIDE DEF r, n, p, tb
    <3>1. DList(r, ft.head, f.next, f.prev)
      BY <2>2, <2>10, <2>12
    <3>2. ft.tail = r[Len(r)] /\ ft.num_items = Len(r)
      BY <1>2, <1>4, <2>3, <2>10
    <3>3. Chains(ft.bkt, ft.num_buckets, f.hh_next, f.hh_prev, ToSet(r))
      BY <2>10, <2>11
    <3> QED BY <3>1, <3>2, <3>3 DEF Keeps
  <2>14. Touches(g, f, t, ToSet(s))
    BY <2>2, <2>10, <2>11 DEF Touches
  <2> QED BY <2>13, <2>14
<1> QED BY <1>8, <1>9

(* The loop of HASH_ITER is one, too. *)
LEMMA DeleteAllFacts ==
  ASSUME NEW t, NEW s \in Seq(Cords), InOrder(t) = s
  PROVE  \E g : /\ DeleteAll(t) = g[Len(s)]
                /\ g[0] = h
                /\ \A k \in 1 .. Len(s) : g[k] = HASH_DEL(g[k - 1], t, s[k])
<1> DEFINE N == Len(s)
           Step(p, k) == IF k = 0 THEN h ELSE HASH_DEL(p[k - 1], t, s[k])
           Along(p, m) == p = [k \in 0 .. m |-> Step(p, k)]
           T == {m \in Nat : \E p : Along(p, m)}
<1>0. N \in Nat
  OBVIOUS
<1>1. 0 \in T
  <2> DEFINE p == [k \in 0 .. 0 |-> Step(<< >>, 0)]
  <2>1. \A k \in 0 .. 0 : Step(p, k) = Step(<< >>, 0)
    OBVIOUS
  <2> HIDE DEF Step
  <2>2. Along(p, 0)
    BY <2>1
  <2> HIDE DEF p, Along
  <2> QED BY <2>2
<1>2. ASSUME NEW m \in T PROVE m + 1 \in T
  <2>1. PICK p : Along(p, m)
    OBVIOUS
  <2> DEFINE u == [k \in 0 .. m + 1 |-> IF k = m + 1 THEN Step(p, k) ELSE p[k]]
  <2>2. ASSUME NEW k \in 0 .. m + 1 PROVE u[k] = Step(u, k)
    <3>1. CASE k = 0
      <4>1. 0 \in 0 .. m /\ k # m + 1
        BY <3>1
      <4>2. p[0] = Step(p, 0)
        <5> HIDE DEF Step
        <5> QED BY <2>1, <4>1
      <4> QED BY <3>1, <4>1, <4>2
    <3>2. CASE k # 0
      <4>1. k - 1 \in 0 .. m + 1 /\ k - 1 # m + 1 /\ k - 1 \in 0 .. m
        BY <3>2
      <4>2. u[k - 1] = p[k - 1]
        BY <4>1
      <4>3. u[k] = Step(p, k)
        <5> HIDE DEF Step
        <5>1. k \in 0 .. m \/ k = m + 1
          OBVIOUS
        <5> QED BY <5>1, <2>1
      <4> HIDE DEF u
      <4> QED BY <3>2, <4>2, <4>3
    <3> QED BY <3>1, <3>2
  <2>3. \E v : Along(v, m + 1)
    <3>1. u = [k \in 0 .. m + 1 |-> u[k]]
      OBVIOUS
    <3> HIDE DEF u, Step
    <3>2. Along(u, m + 1)
      BY <2>2, <3>1
    <3> QED BY <3>2
  <2> HIDE DEF Along
  <2> QED BY <2>3
<1>3. N \in T
  <2> HIDE DEF Along, N
  <2>1. T \in SUBSET Nat
    OBVIOUS
  <2> HIDE DEF T
  <2> QED BY <1>0, <1>1, <1>2, <2>1, SetInduction
<1>4. \E p : Along(p, N)
  <2> HIDE DEF Along, N
  <2> QED BY <1>3
<1> DEFINE g == CHOOSE p : Along(p, N)
<1>5. Along(g, N)
  <2> HIDE DEF Along, N
  <2> QED BY <1>4
<1>6. DeleteAll(t) = g[N]
  BY DEF DeleteAll
<1> HIDE DEF g, Step, N
<1>7. 0 \in 0 .. N /\ \A k \in 1 .. N : k \in 0 .. N /\ k # 0
  BY <1>0
<1>8. g[0] = Step(g, 0) /\ \A k \in 1 .. N : g[k] = Step(g, k)
  BY <1>5, <1>7
<1>9. g[0] = h /\ \A k \in 1 .. N : g[k] = HASH_DEL(g[k - 1], t, s[k])
  BY <1>7, <1>8 DEF Step
<1> QED BY <1>6, <1>9 DEF N

(* The cords of s but the first k. *)
Rest(s, k, u) ==
  /\ Len(u) = Len(s) - k
  /\ \A i \in 1 .. Len(s) - k : u[i] = s[k + i]

(* DeleteAll leaves an empty table. *)
LEMMA DeleteAllEmpties ==
  ASSUME HashvType, h \in Memory, NEW t \in Tables, NEW s, Keeps(h, t, s),
         NEW f, f = DeleteAll(t)
  PROVE  Keeps(f, t, << >>) /\ Touches(h, f, t, ToSet(s))
<1>1. DList(s, h.table[t].head, h.next, h.prev)
  BY DEF Keeps
<1>2. /\ s \in Seq(Cords) /\ Len(s) \in Nat /\ DOMAIN s = 1 .. Len(s)
      /\ \A i \in 1 .. Len(s) : s[i] \in Cords /\ s[i] \in ToSet(s)
  BY <1>1, DListFacts
<1>3. InOrder(t) = s
  BY <1>1, PathIs DEF InOrder
<1>4. PICK g : /\ f = g[Len(s)]
               /\ g[0] = h
               /\ \A k \in 1 .. Len(s) : g[k] = HASH_DEL(g[k - 1], t, s[k])
  BY <1>2, <1>3, DeleteAllFacts
<1> DEFINE Right(k) == \E u : /\ Keeps(g[k], t, u)
                              /\ Rest(s, k, u)
                              /\ ToSet(u) \subseteq ToSet(s)
                              /\ Touches(h, g[k], t, ToSet(s))
           T == {k \in Nat : k <= Len(s) => Right(k)}
<1>5. 0 \in T
  <2>1. Rest(s, 0, s)
    BY <1>2 DEF Rest
  <2>2. Touches(h, h, t, ToSet(s))
    BY DEF Touches, OtherLinks
  <2> QED BY <1>4, <2>1, <2>2
<1>6. ASSUME NEW k \in T PROVE k + 1 \in T
  <2> SUFFICES ASSUME k + 1 <= Len(s) PROVE Right(k + 1)
    OBVIOUS
  <2> DEFINE a == g[k]
             b == g[k + 1]
             c == s[k + 1]
  <2>1. k \in Nat /\ k <= Len(s) /\ k + 1 \in 1 .. Len(s) /\ (k + 1) - 1 = k /\ 1 \in 1 .. Len(s) - k
    BY <1>2
  <2>2. PICK u : /\ Keeps(a, t, u)
                 /\ Rest(s, k, u)
                 /\ ToSet(u) \subseteq ToSet(s)
                 /\ Touches(h, a, t, ToSet(s))
    BY <2>1
  <2>3. b = HASH_DEL(a, t, c)
    BY <1>4, <2>1
  <2>4. 1 \in 1 .. Len(u) /\ u[1] = c /\ Len(u) = Len(s) - k
    BY <2>1, <2>2 DEF Rest
  <2> DEFINE r == RemoveAt(u, 1)
  <2> HIDE DEF a, b, c
  <2>5. Keeps(b, t, r) /\ Touches(a, b, t, ToSet(u))
    <3>1. a \in Memory
      BY <2>2 DEF Touches
    <3> HIDE DEF r
    <3> QED BY <2>2, <2>3, <2>4, <3>1, DelRemoves DEF r
  <2>6. Touches(h, b, t, ToSet(s))
    BY <2>2, <2>5, TouchesMore, TouchesTwice
  <2>7. u \in Seq(Cords) /\ IsInjective(u)
    BY <2>2 DEF Keeps, DList
  <2>8. 1 \in DOMAIN u
    BY <2>4, <2>7
  <2>9. Len(r) = Len(u) - 1 /\ \A j \in 1 .. Len(u) - 1 : r[j] = u[j + 1]
    <3>1. Len(r) = Len(u) - 1 /\ \A j \in 1 .. Len(u) - 1 : r[j] = IF j < 1 THEN u[j] ELSE u[j + 1]
      BY <2>7, <2>8, RemoveAtShape
    <3> HIDE DEF r
    <3> QED BY <3>1
  <2>10. ToSet(r) \subseteq ToSet(s)
    <3>1. ToSet(r) = ToSet(u) \ {u[1]}
      BY <2>7, <2>8, RemoveAtElements
    <3> QED BY <2>2, <3>1
  <2> HIDE DEF r
  <2>11. Rest(s, k + 1, r)
    <3>1. Len(r) = Len(s) - (k + 1)
      BY <1>2, <2>1, <2>4, <2>9
    <3>2. ASSUME NEW i \in 1 .. Len(s) - (k + 1) PROVE r[i] = s[(k + 1) + i]
      <4>1. i \in 1 .. Len(u) - 1 /\ i + 1 \in 1 .. Len(s) - k /\ k + (i + 1) = (k + 1) + i
        BY <1>2, <2>1, <2>4
      <4> QED BY <4>1, <2>2, <2>9 DEF Rest
    <3> QED BY <3>1, <3>2 DEF Rest
  <2> QED BY <2>5, <2>6, <2>10, <2>11 DEF b
<1>7. Right(Len(s))
  <2>1. T \in SUBSET Nat
    OBVIOUS
  <2> HIDE DEF T, Right
  <2>2. Len(s) \in T
    BY <1>2, <1>5, <1>6, <2>1, SetInduction
  <2>3. Len(s) \in T => (Len(s) <= Len(s) => Right(Len(s)))
    BY DEF T
  <2> QED BY <1>2, <2>2, <2>3
<1>8. PICK u : Keeps(f, t, u) /\ Rest(s, Len(s), u) /\ Touches(h, f, t, ToSet(s))
  BY <1>4, <1>7
<1>9. u = << >>
  <2>1. u \in Seq(Cords)
    BY <1>8 DEF Keeps, DList
  <2>2. Len(u) = 0
    BY <1>2, <1>8 DEF Rest
  <2> QED BY <2>1, <2>2
<1> QED BY <1>8, <1>9

-----------------------------------------------------------------------------
(* All three tables. *)

(* The tables of the memory g are the sequences of q, and no cord is in    *)
(* two of them.                                                            *)
Holds(g, q) ==
  /\ g \in Memory
  /\ q \in [Tables -> Seq(Cords)]
  /\ \A t \in Tables : Keeps(g, t, q[t])
  /\ \A t, u \in Tables : t # u => ToSet(q[t]) \cap ToSet(q[u]) = {}

(* A table whose cords keep their links is as before. *)
LEMMA KeepsFrame ==
  ASSUME NEW g, NEW f, NEW t, NEW D, NEW u \in Tables, u # t, Touches(g, f, t, D),
         NEW s, Keeps(g, u, s), ToSet(s) \cap D = {}
  PROVE  Keeps(f, u, s)
<1>1. DList(s, g.table[u].head, g.next, g.prev) /\ ToSet(s) \subseteq Cords
  BY DListFacts DEF Keeps
<1>2. /\ f.table[u] = g.table[u]
      /\ SameLinks(ToSet(s), g.next, g.prev, f.next, f.prev)
      /\ SameLinks(ToSet(s), g.hh_next, g.hh_prev, f.hh_next, f.hh_prev)
  BY <1>1 DEF Touches, SameLinks, OtherLinks
<1>3. DList(s, f.table[u].head, f.next, f.prev)
  <2> DEFINE hd == g.table[u].head
             nx == g.next
             pv == g.prev
             nx2 == f.next
             pv2 == f.prev
  <2>1. DList(s, hd, nx, pv) /\ SameLinks(ToSet(s), nx, pv, nx2, pv2) /\ f.table[u].head = hd
    BY <1>1, <1>2
  <2> HIDE DEF hd, nx, pv, nx2, pv2
  <2>2. DList(s, hd, nx2, pv2)
    BY <2>1, DListFrame
  <2> QED BY <2>1, <2>2 DEF nx2, pv2
<1>4. ASSUME s # << >>
      PROVE  Chains(f.table[u].bkt, f.table[u].num_buckets, f.hh_next, f.hh_prev, ToSet(s))
  <2> DEFINE bk == g.table[u].bkt
             n == g.table[u].num_buckets
             hn == g.hh_next
             hp == g.hh_prev
             hn2 == f.hh_next
             hp2 == f.hh_prev
             S == ToSet(s)
  <2>1. /\ Chains(bk, n, hn, hp, S) /\ SameLinks(S, hn, hp, hn2, hp2)
        /\ f.table[u].bkt = bk /\ f.table[u].num_buckets = n
    BY <1>2, <1>4 DEF Keeps
  <2> HIDE DEF bk, n, hn, hp, hn2, hp2, S
  <2>2. Chains(bk, n, hn2, hp2, S)
    BY <2>1, ChainsFrame
  <2> QED BY <2>1, <2>2 DEF hn2, hp2, S
<1> QED BY <1>2, <1>3, <1>4 DEF Keeps

(* A change to one table and the links of cords that are in no other.      *)
LEMMA HoldsChange ==
  ASSUME NEW g, NEW q, Holds(g, q), NEW t \in Tables, NEW f, NEW s, Keeps(f, t, s),
         NEW D, Touches(g, f, t, D), ToSet(s) \subseteq D,
         \A u \in Tables : u # t => ToSet(q[u]) \cap D = {}
  PROVE  Holds(f, [q EXCEPT ![t] = s])
<1> DEFINE r == [q EXCEPT ![t] = s]
<1>1. f \in Memory
  BY DEF Touches
<1>2. q \in [Tables -> Seq(Cords)] /\ s \in Seq(Cords)
  BY DEF Holds, Keeps, DList
<1>3. r \in [Tables -> Seq(Cords)] /\ r[t] = s /\ \A u \in Tables : u # t => r[u] = q[u]
  BY <1>2
<1> HIDE DEF r
<1>4. ASSUME NEW u \in Tables PROVE Keeps(f, u, r[u])
  <2>1. CASE u = t
    BY <2>1, <1>3
  <2>2. CASE u # t
    <3>1. Keeps(g, u, q[u]) /\ r[u] = q[u]
      BY <2>2, <1>3 DEF Holds
    <3> QED BY <2>2, <3>1, KeepsFrame
  <2> QED BY <2>1, <2>2
<1>5. ASSUME NEW v \in Tables, NEW u \in Tables, v # u PROVE ToSet(r[v]) \cap ToSet(r[u]) = {}
  <2>1. CASE v = t
    BY <2>1, <1>3, <1>5
  <2>2. CASE u = t
    BY <2>2, <1>3, <1>5
  <2>3. CASE v # t /\ u # t
    BY <2>3, <1>3, <1>5 DEF Holds
  <2> QED BY <2>1, <2>2, <2>3
<1> QED BY <1>1, <1>3, <1>4, <1>5 DEF Holds, r

(* A cord that is in no table joins one.                                   *)
LEMMA AddHolds ==
  ASSUME HashvType, NEW g, NEW q, Holds(g, q), NEW t \in Tables, NEW c \in Cords,
         \A u \in Tables : c \notin ToSet(q[u])
  PROVE  Holds(HASH_ADD(g, t, c), [q EXCEPT ![t] = Append(q[t], c)])
<1> DEFINE s == q[t]
           f == HASH_ADD(g, t, c)
           D == ToSet(s) \cup {c}
<1>1. g \in Memory /\ Keeps(g, t, s) /\ c \notin ToSet(s) /\ s \in Seq(Cords)
  BY DEF Holds
<1>2. Keeps(f, t, Append(s, c)) /\ Touches(g, f, t, D)
  <2> HIDE DEF s, f
  <2>1. f = HASH_ADD(g, t, c)
    BY DEF f
  <2> QED BY <1>1, <2>1, AddAppends
<1>3. ToSet(Append(s, c)) \subseteq D
  BY <1>1, AppendElements
<1>4. \A u \in Tables : u # t => ToSet(q[u]) \cap D = {}
  BY DEF Holds
<1> HIDE DEF f, D
<1>5. Holds(f, [q EXCEPT ![t] = Append(s, c)])
  BY <1>2, <1>3, <1>4, HoldsChange
<1> QED BY <1>5 DEF f

(* A cord leaves its table. *)
LEMMA DelHolds ==
  ASSUME HashvType, NEW g, NEW q, Holds(g, q), NEW t \in Tables, NEW i \in 1 .. Len(q[t])
  PROVE  Holds(HASH_DEL(g, t, q[t][i]), [q EXCEPT ![t] = RemoveAt(q[t], i)])
<1> DEFINE s == q[t]
           f == HASH_DEL(g, t, s[i])
           D == ToSet(s)
           r == RemoveAt(s, i)
<1>1. g \in Memory /\ Keeps(g, t, s) /\ s \in Seq(Cords) /\ IsInjective(s) /\ i \in DOMAIN s
  BY DEF Holds, Keeps, DList
<1>2. Keeps(f, t, r) /\ Touches(g, f, t, D)
  <2> DEFINE c == s[i]
  <2>1. i \in 1 .. Len(s) /\ f = HASH_DEL(g, t, c) /\ c = s[i]
    OBVIOUS
  <2> HIDE DEF s, f, c
  <2> QED BY <1>1, <2>1, DelRemoves
<1>3. ToSet(r) \subseteq D
  BY <1>1, RemoveAtElements
<1>4. \A u \in Tables : u # t => ToSet(q[u]) \cap D = {}
  BY DEF Holds
<1> HIDE DEF f, D, r
<1>5. Holds(f, [q EXCEPT ![t] = r])
  BY <1>2, <1>3, <1>4, HoldsChange
<1> QED BY <1>5 DEF f, r

(* All cords leave a table. *)
LEMMA DeleteAllHolds ==
  ASSUME HashvType, NEW q, Holds(h, q), NEW t \in Tables
  PROVE  Holds(DeleteAll(t), [q EXCEPT ![t] = << >>])
<1> DEFINE s == q[t]
           f == DeleteAll(t)
           D == ToSet(s)
<1>1. h \in Memory /\ Keeps(h, t, s)
  BY DEF Holds
<1>2. Keeps(f, t, << >>) /\ Touches(h, f, t, D)
  <2>1. f = DeleteAll(t)
    OBVIOUS
  <2> HIDE DEF s, f
  <2> QED BY <1>1, <2>1, DeleteAllEmpties
<1>3. ToSet(<< >>) \subseteq D
  BY DEF ToSet
<1>4. \A u \in Tables : u # t => ToSet(q[u]) \cap D = {}
  BY DEF Holds
<1> HIDE DEF f, D
<1>5. Holds(f, [q EXCEPT ![t] = << >>])
  BY <1>2, <1>3, <1>4, HoldsChange
<1> QED BY <1>5 DEF f

(* A cord goes from one table to another. *)
LEMMA MovedHolds ==
  ASSUME HashvType, NEW q, Holds(h, q), NEW from \in Tables, NEW to \in Tables, from # to,
         NEW i \in 1 .. Len(q[from]), NEW c, c = q[from][i]
  PROVE  Holds(Moved(from, to, c),
               [q EXCEPT ![from] = RemoveAt(q[from], i), ![to] = Append(q[to], c)])
<1> DEFINE r == [q EXCEPT ![from] = RemoveAt(q[from], i)]
           f == HASH_DEL(h, from, c)
<1>1. Holds(f, r)
  BY DelHolds
<1>2. /\ q \in [Tables -> Seq(Cords)] /\ q[from] \in Seq(Cords) /\ IsInjective(q[from])
      /\ i \in DOMAIN q[from]
  BY DEF Holds, Keeps, DList
<1>3. r[from] = RemoveAt(q[from], i) /\ \A u \in Tables : u # from => r[u] = q[u]
  BY <1>2
<1>4. c \in Cords /\ c \in ToSet(q[from])
  BY <1>2 DEF ToSet
<1>5. \A u \in Tables : c \notin ToSet(r[u])
  <2> TAKE u \in Tables
  <2>1. CASE u = from
    BY <2>1, <1>2, <1>3, RemoveAtElements
  <2>2. CASE u # from
    BY <2>2, <1>3, <1>4 DEF Holds
  <2> QED BY <2>1, <2>2
<1>6. [r EXCEPT ![to] = Append(r[to], c)]
        = [q EXCEPT ![from] = RemoveAt(q[from], i), ![to] = Append(q[to], c)]
  BY <1>2, <1>3
<1> HIDE DEF r, f
<1>7. Holds(HASH_ADD(f, to, c), [r EXCEPT ![to] = Append(r[to], c)])
  BY <1>1, <1>4, <1>5, AddHolds
<1> QED BY <1>6, <1>7 DEF Moved, f

(* What braid.c reads of the tables. *)
LEMMA InOrderIs ==
  ASSUME NEW q, Holds(h, q), NEW t \in Tables
  PROVE  /\ InOrder(t) = q[t]
         /\ h.table[t].head = IF q[t] = << >> THEN NULL ELSE q[t][1]
         /\ h.table[t].head = NULL <=> q[t] = << >>
<1>1. DList(q[t], h.table[t].head, h.next, h.prev)
  BY DEF Holds, Keeps
<1>2. InOrder(t) = q[t]
  BY <1>1, PathIs DEF InOrder
<1>3. h.table[t].head = IF q[t] = << >> THEN NULL ELSE q[t][1]
  BY <1>1 DEF DList
<1>4. ASSUME q[t] # << >> PROVE q[t][1] # NULL
  <2>1. 1 \in 1 .. Len(q[t])
    BY <1>1, <1>4, DListFacts
  <2> QED BY <1>1, <2>1, DListFacts
<1> QED BY <1>2, <1>3, <1>4

(* s is the chain of bucket b of the table t, which holds the cords in D.  *)
ChainAt(D, t, b, s) ==
  /\ DList(s, h.table[t].bkt[b].hh_head, h.hh_next, h.hh_prev)
  /\ Path(h.table[t].bkt[b].hh_head, h.hh_next) = s
  /\ ToSet(s) = {c \in D : HASH_TO_BKT(c, h.table[t].num_buckets) = b}
  /\ h.table[t].bkt[b].count = Len(s)

(* Every bucket has its chain. *)
LEMMA ChainIs ==
  ASSUME NEW q, Holds(h, q), NEW t \in Tables, q[t] # << >>,
         NEW b \in 0 .. h.table[t].num_buckets - 1
  PROVE  \E s : ChainAt(ToSet(q[t]), t, b, s)
<1>1. Chains(h.table[t].bkt, h.table[t].num_buckets, h.hh_next, h.hh_prev, ToSet(q[t]))
  BY DEF Holds, Keeps
<1>2. PICK s : /\ DList(s, h.table[t].bkt[b].hh_head, h.hh_next, h.hh_prev)
               /\ ToSet(s) = {c \in ToSet(q[t]) : HASH_TO_BKT(c, h.table[t].num_buckets) = b}
               /\ h.table[t].bkt[b].count = Len(s)
  BY <1>1 DEF Chains
<1>3. Path(h.table[t].bkt[b].hh_head, h.hh_next) = s
  BY <1>2, PathIs
<1> QED BY <1>2, <1>3 DEF ChainAt

(* HASH_FIND finds the cords of the table. *)
LEMMA FindIs ==
  ASSUME HashvType, NEW q, Holds(h, q), NEW t \in Tables, NEW c \in Cords
  PROVE  HASH_FIND(t, c) <=> c \in ToSet(q[t])
<1> DEFINE n == h.table[t].num_buckets
           b == HASH_TO_BKT(c, n)
<1>1. CASE q[t] = << >>
  BY <1>1, InOrderIs DEF HASH_FIND, ToSet
<1>2. CASE q[t] # << >>
  <2>1. h.table[t].head # NULL
    BY <1>2, InOrderIs
  <2>2. b \in 0 .. n - 1
    <3>1. n \in Nat \ {0}
      BY <1>2 DEF Holds, Keeps, Chains
    <3> HIDE DEF n
    <3> QED BY <3>1, BucketOf
  <2>3. b = HASH_TO_BKT(c, n)
    OBVIOUS
  <2> HIDE DEF b
  <2>4. PICK s : ChainAt(ToSet(q[t]), t, b, s)
    BY <1>2, <2>2, ChainIs
  <2>5. c \in ToSet(s) <=> c \in ToSet(q[t])
    BY <2>3, <2>4 DEF ChainAt
  <2>6. HASH_FIND(t, c) <=> c \in ToSet(Path(h.table[t].bkt[b].hh_head, h.hh_next))
    BY <2>1, <2>3 DEF HASH_FIND
  <2> QED BY <2>4, <2>5, <2>6 DEF ChainAt
<1> QED BY <1>1, <1>2

(* The cords in no table are those in no sequence.                         *)
LEMMA OutsideIs ==
  ASSUME NEW q, Holds(h, q), NEW c \in Cords
  PROVE  c \in Outside <=> \A t \in Tables : c \notin ToSet(q[t])
<1>1. \A t \in Tables : InOrder(t) = q[t]
  BY InOrderIs
<1> QED BY <1>1 DEF Outside

-----------------------------------------------------------------------------
(* The invariant: the tables are some sequences. *)
TablesInv == HashvType /\ \E q : Holds(h, q)

(* Three empty tables. *)
LEMMA InitHolds ==
  ASSUME Init
  PROVE  HashvType /\ Holds(h, [t \in Tables |-> << >>])
<1> DEFINE q == [t \in Tables |-> << >>]
<1>1. HashvType
  BY CordTablesAssumption DEF Init, HashvType
<1>2. NoTable \in TableType /\ NoTable.head = NULL
  <2>1. Buckets(0) \in [0 .. 0 - 1 -> Bucket]
    BY DEF Buckets, NewBucket, Bucket, Link
  <2>2. Buckets(0) \in Arrays
    BY <2>1 DEF Arrays
  <2> QED BY <2>2 DEF NoTable, Table, TableType, Link
<1>3. h \in Memory /\ \A t \in Tables : h.table[t] = NoTable
  BY <1>2 DEF Init, Memory, Links, Link
<1>4. \A t \in Tables : Keeps(h, t, << >>)
  BY <1>2, <1>3, DListEmpty DEF Keeps
<1>5. q \in [Tables -> Seq(Cords)] /\ \A t \in Tables : q[t] = << >> /\ ToSet(q[t]) = {}
  BY DEF ToSet
<1> QED BY <1>1, <1>3, <1>4, <1>5 DEF Holds

(* The steps of the sequences.  A cord that is in none joins one, *)
Joins(q, r, t, c) ==
  /\ c \in Cords /\ \A u \in Tables : c \notin ToSet(q[u])
  /\ r = [q EXCEPT ![t] = Append(q[t], c)]

(* or goes from one to another. *)
Goes(q, r, from, to, c) ==
  \E i \in 1 .. Len(q[from]) :
    /\ c = q[from][i]
    /\ r = [q EXCEPT ![from] = RemoveAt(q[from], i), ![to] = Append(q[to], c)]

Steps(q, r) ==
  \/ \E c \in Cords :
       \/ \E t \in Tables : Joins(q, r, t, c)
       \/ Goes(q, r, "blocked", "runable", c)
       \/ Goes(q, r, "runable", "zombies", c)
       \/ Goes(q, r, "blocked", "zombies", c)
       \/ Joins([q EXCEPT !["runable"] = << >>], r, "zombies", c)
          /\ \A u \in Tables : c \notin ToSet(q[u])
  \/ /\ q["runable"] # << >>
     /\ r = [q EXCEPT !["runable"] = RemoveAt(q["runable"], 1)]
  \/ r = [q EXCEPT !["zombies"] = << >>]

(* A cord of a table has a place in it. *)
LEMMA FoundAt ==
  ASSUME NEW q, Holds(h, q), NEW t \in Tables, NEW c \in ToSet(q[t])
  PROVE  \E i \in 1 .. Len(q[t]) : c = q[t][i]
<1>1. q[t] \in Seq(Cords)
  BY DEF Holds
<1> QED BY <1>1 DEF ToSet

(* Every step of the tables is a step of the sequences. *)
LEMMA NextHolds ==
  ASSUME HashvType, NEW q, Holds(h, q), Next
  PROVE  \E r : Holds(h', r) /\ Steps(q, r)
<1>0. "runable" \in Tables /\ "blocked" \in Tables /\ "zombies" \in Tables
  BY DEF Tables
<1>a. ASSUME NEW c \in Cords, NEW t \in Tables, c \in Outside, Becomes(HASH_ADD(h, t, c))
      PROVE  \E r : Holds(h', r) /\ Steps(q, r)
  <2> DEFINE r == [q EXCEPT ![t] = Append(q[t], c)]
  <2>1. \A u \in Tables : c \notin ToSet(q[u])
    BY <1>a, OutsideIs
  <2>2. Holds(h', r)
    BY <1>a, <2>1, AddHolds DEF Becomes
  <2>3. Joins(q, r, t, c)
    BY <2>1 DEF Joins
  <2> QED BY <2>2, <2>3 DEF Steps
<1>b. ASSUME NEW c \in Cords, NEW from \in Tables, NEW to \in Tables, from # to,
             HASH_FIND(from, c), Becomes(Moved(from, to, c))
      PROVE  \E r : Holds(h', r) /\ Goes(q, r, from, to, c)
  <2>1. PICK i \in 1 .. Len(q[from]) : c = q[from][i]
    BY <1>b, FindIs, FoundAt
  <2> DEFINE r == [q EXCEPT ![from] = RemoveAt(q[from], i), ![to] = Append(q[to], c)]
  <2>2. Holds(h', r)
    BY <1>b, <2>1, MovedHolds DEF Becomes
  <2>3. Goes(q, r, from, to, c)
    BY <2>1 DEF Goes
  <2> QED BY <2>2, <2>3
<1>1. ASSUME NEW c \in Cords, Enter(c) PROVE \E r : Holds(h', r) /\ Steps(q, r)
  BY <1>0, <1>a, <1>1 DEF Enter
<1>2. ASSUME NEW c \in Cords, Block(c) PROVE \E r : Holds(h', r) /\ Steps(q, r)
  BY <1>0, <1>a, <1>2 DEF Block
<1>3. ASSUME NEW c \in Cords, Exit(c) PROVE \E r : Holds(h', r) /\ Steps(q, r)
  BY <1>0, <1>a, <1>3 DEF Exit
<1>4. ASSUME NEW c \in Cords, Unblock(c) PROVE \E r : Holds(h', r) /\ Steps(q, r)
  <2>1. \E r : Holds(h', r) /\ Goes(q, r, "blocked", "runable", c)
    BY <1>0, <1>b, <1>4 DEF Unblock
  <2> QED BY <2>1 DEF Steps
<1>5. ASSUME NEW c \in Cords, Halt(c) PROVE \E r : Holds(h', r) /\ Steps(q, r)
  <2>1. CASE HASH_FIND("runable", c) /\ Becomes(Moved("runable", "zombies", c))
    <3>1. \E r : Holds(h', r) /\ Goes(q, r, "runable", "zombies", c)
      BY <1>0, <1>b, <2>1
    <3> QED BY <3>1 DEF Steps
  <2>2. CASE HASH_FIND("blocked", c) /\ Becomes(Moved("blocked", "zombies", c))
    <3>1. \E r : Holds(h', r) /\ Goes(q, r, "blocked", "zombies", c)
      BY <1>0, <1>b, <2>2
    <3> QED BY <3>1 DEF Steps
  <2> QED BY <1>5, <2>1, <2>2 DEF Halt
<1>6. ASSUME NEW c \in Cords, Stop(c) PROVE \E r : Holds(h', r) /\ Steps(q, r)
  <2> DEFINE p == [q EXCEPT !["runable"] = << >>]
             r == [p EXCEPT !["zombies"] = Append(p["zombies"], c)]
             g == DeleteAll("runable")
  <2>1. \A u \in Tables : c \notin ToSet(q[u])
    BY <1>6, OutsideIs DEF Stop
  <2>2. Holds(g, p)
    BY <1>0, DeleteAllHolds
  <2>3. \A u \in Tables : c \notin ToSet(p[u])
    <3>1. q \in [Tables -> Seq(Cords)]
      BY DEF Holds
    <3>2. \A u \in Tables : p[u] = << >> \/ p[u] = q[u]
      BY <3>1
    <3> HIDE DEF p
    <3> QED BY <2>1, <3>2 DEF ToSet
  <2>4. h' = HASH_ADD(g, "zombies", c)
    BY <1>6 DEF Stop, Becomes
  <2> HIDE DEF g, p
  <2>5. Holds(h', r)
    BY <1>0, <2>2, <2>3, <2>4, AddHolds
  <2>6. Joins(p, r, "zombies", c)
    BY <2>3 DEF Joins
  <2> QED BY <2>1, <2>5, <2>6 DEF Steps, p
<1>7. ASSUME Pop PROVE \E r : Holds(h', r) /\ Steps(q, r)
  <2> DEFINE s == q["runable"]
             r == [q EXCEPT !["runable"] = RemoveAt(s, 1)]
  <2>1. s # << >> /\ h.table["runable"].head = s[1]
    BY <1>0, <1>7, InOrderIs DEF Pop
  <2>2. 1 \in 1 .. Len(s)
    <3>1. s \in Seq(Cords)
      BY <1>0 DEF Holds
    <3> QED BY <2>1, <3>1
  <2>3. h' = HASH_DEL(h, "runable", s[1])
    BY <1>7, <2>1 DEF Pop, Becomes
  <2>4. Holds(h', r)
    BY <1>0, <2>2, <2>3, DelHolds
  <2> QED BY <2>1, <2>4 DEF Steps
<1>8. ASSUME Reap PROVE \E r : Holds(h', r) /\ Steps(q, r)
  BY <1>0, <1>8, DeleteAllHolds DEF Reap, Becomes, Steps
<1> QED BY <1>1, <1>2, <1>3, <1>4, <1>5, <1>6, <1>7, <1>8 DEF Next

(* The sequences are those of the next state too. *)
LEMMA HoldsThen ==
  ASSUME hashv' = hashv, NEW r, Holds(h', r)
  PROVE  Holds(h, r)'
<1>1. /\ (h \in Memory)' /\ r \in [Tables -> Seq(Cords)]
      /\ \A t, u \in Tables : t # u => ToSet(r[t]) \cap ToSet(r[u]) = {}
  BY DEF Holds
<1>2. ASSUME NEW t \in Tables PROVE Keeps(h, t, r[t])'
  <2>1. Keeps(h', t, r[t])
    BY DEF Holds
  <2>2. DList(r[t], h.table[t].head, h.next, h.prev)'
    BY <2>1 DEF Keeps
  <2>3. r[t] # << >> =>
          /\ (h.table[t].tail = r[t][Len(r[t])])'
          /\ (h.table[t].num_items = Len(r[t]))'
          /\ Chains(h.table[t].bkt, h.table[t].num_buckets, h.hh_next, h.hh_prev, ToSet(r[t]))'
    BY <2>1 DEF Keeps, Chains, HASH_TO_BKT
  <2> QED BY <2>2, <2>3 DEF Keeps
<1> QED BY <1>1, <1>2 DEF Holds

-----------------------------------------------------------------------------
(* Whatever braid.c does with its tables, however often the buckets are    *)
(* doubled and whatever the hashes: every table is a sequence of cords,    *)
(* linked in both directions in the order of insertion, each cord is in    *)
(* the chain of its bucket, and no cord is in two tables.                  *)
THEOREM TablesInvariant == Spec => []TablesInv
<1>1. Init => TablesInv
  BY InitHolds DEF TablesInv
<1>2. TablesInv /\ [Next]_vars => TablesInv'
  <2> SUFFICES ASSUME HashvType, NEW q, Holds(h, q), [Next]_vars
               PROVE  TablesInv'
    BY DEF TablesInv
  <2>1. hashv' = hashv
    BY DEF vars, Next, Enter, Pop, Block, Exit, Unblock, Halt, Stop, Reap, Becomes
  <2>2. HashvType'
    BY <2>1 DEF HashvType
  <2>3. PICK r : Holds(h', r)
    <3>1. CASE Next
      BY <3>1, NextHolds
    <3>2. CASE UNCHANGED vars
      BY <3>2 DEF vars
    <3> QED BY <3>1, <3>2
  <2>4. Holds(h, r)'
    BY <2>1, <2>3, HoldsThen
  <2> QED BY <2>2, <2>4 DEF TablesInv
<1> QED BY <1>1, <1>2, PTL DEF Spec

(* Both directions of both lists agree in every table, the counts and the  *)
(* tail are right, and HASH_FIND finds a cord exactly when it is in the    *)
(* table.                                                                  *)
THEOREM TablesAlwaysAgree == Spec => []TablesAgree
<1>1. TablesInv => TablesAgree
  <2> SUFFICES ASSUME HashvType, NEW q, Holds(h, q), NEW t \in Tables, h.table[t].head # NULL
               PROVE  LET tb == h.table[t]
                          in == InOrder(t) IN
                        /\ tb.num_items = Len(in)
                        /\ tb.tail = Last(in)
                        /\ \A i \in DOMAIN in : h.prev[in[i]] = IF i = 1 THEN NULL ELSE in[i - 1]
                        /\ \A c \in Cords : HASH_FIND(t, c) <=> c \in ToSet(in)
                        /\ \A b \in DOMAIN tb.bkt :
                             LET chain == Path(tb.bkt[b].hh_head, h.hh_next) IN
                               /\ ToSet(chain) \subseteq ToSet(in)
                               /\ tb.bkt[b].count = Len(chain)
                               /\ \A i \in DOMAIN chain :
                                    h.hh_prev[chain[i]] = IF i = 1 THEN NULL ELSE chain[i - 1]
    BY DEF TablesInv, TablesAgree
  <2> DEFINE tb == h.table[t]
             s == q[t]
  <2>1. InOrder(t) = s /\ s # << >>
    BY InOrderIs
  <2>2. /\ DList(s, tb.head, h.next, h.prev) /\ tb.tail = s[Len(s)] /\ tb.num_items = Len(s)
        /\ tb.bkt \in [0 .. tb.num_buckets - 1 -> Bucket]
    BY <2>1 DEF Holds, Keeps, Chains
  <2>3. tb.tail = Last(s)
    BY <2>2 DEF Last
  <2>4. DOMAIN s = 1 .. Len(s)
    BY <2>2, DListFacts
  <2>5. \A i \in DOMAIN s : h.prev[s[i]] = IF i = 1 THEN NULL ELSE s[i - 1]
    BY <2>2, <2>4 DEF DList
  <2>6. \A c \in Cords : HASH_FIND(t, c) <=> c \in ToSet(s)
    BY FindIs
  <2>7. ASSUME NEW b \in DOMAIN tb.bkt
        PROVE  LET chain == Path(tb.bkt[b].hh_head, h.hh_next) IN
                 /\ ToSet(chain) \subseteq ToSet(s)
                 /\ tb.bkt[b].count = Len(chain)
                 /\ \A i \in DOMAIN chain :
                      h.hh_prev[chain[i]] = IF i = 1 THEN NULL ELSE chain[i - 1]
    <3>1. b \in 0 .. tb.num_buckets - 1
      BY <2>2
    <3>2. PICK chain : ChainAt(ToSet(s), t, b, chain)
      BY <2>1, <3>1, ChainIs
    <3>3. DList(chain, tb.bkt[b].hh_head, h.hh_next, h.hh_prev)
      BY <3>2 DEF ChainAt
    <3>4. DOMAIN chain = 1 .. Len(chain)
      BY <3>3, DListFacts
    <3>5. \A i \in DOMAIN chain : h.hh_prev[chain[i]] = IF i = 1 THEN NULL ELSE chain[i - 1]
      BY <3>3, <3>4 DEF DList
    <3> QED BY <3>2, <3>5 DEF ChainAt
  <2> HIDE DEF s, tb
  <2> QED BY <2>1, <2>2, <2>3, <2>5, <2>6, <2>7 DEF tb
<1> QED BY <1>1, TablesInvariant, PTL

(* The tables do what braid.c expects of them: HASH_ADD appends a cord,    *)
(* HASH_DEL takes it out wherever it stands, also from a table in the      *)
(* middle of which others come and go, and the order of the others stays.  *)
THEOREM TablesAreQueues == Spec => ImplementsQueues
<1>1. Init => Queues!Init
  <2> SUFFICES ASSUME Init PROVE Queues!Init
    OBVIOUS
  <2>1. Holds(h, [t \in Tables |-> << >>])
    BY InitHolds
  <2>2. \A t \in Tables : InOrder(t) = << >>
    BY <2>1, InOrderIs
  <2> QED BY <2>2 DEF Queues!Init, Tables
<1>a. \A q : Holds(h, q) => \A t \in Tables : InOrder(t) = q[t]
  BY InOrderIs
<1>b. (\A q : Holds(h, q) => \A t \in Tables : InOrder(t) = q[t])'
  BY <1>a, PTL
<1>2. TablesInv /\ [Next]_vars => [Queues!Next]_(Queues!vars)
  <2> SUFFICES ASSUME HashvType, NEW q, Holds(h, q), Next
               PROVE  Queues!Next
    <3>1. UNCHANGED vars => UNCHANGED Queues!vars
      BY DEF vars, Queues!vars, InOrder, Path
    <3> QED BY <3>1 DEF TablesInv
  <2>1. hashv' = hashv
    BY DEF Next, Enter, Pop, Block, Exit, Unblock, Halt, Stop, Reap, Becomes
  <2>2. PICK r : Holds(h', r) /\ Steps(q, r)
    BY NextHolds
  <2>3. Holds(h, r)'
    BY <2>1, <2>2, HoldsThen
  <2>4. /\ InOrder("runable") = q["runable"] /\ InOrder("blocked") = q["blocked"]
        /\ InOrder("zombies") = q["zombies"]
    BY InOrderIs DEF Tables
  <2>5. InOrder("runable")' = r["runable"] /\ InOrder("blocked")' = r["blocked"]
        /\ InOrder("zombies")' = r["zombies"]
    <3>1. \A t \in Tables : InOrder(t)' = r[t]
      BY <2>3, <1>b
    <3> QED BY <3>1 DEF Tables
  <2>6. q \in [Tables -> Seq(Cords)]
    BY DEF Holds
  <2>7. \A s, i : Queues!RemoveAt(s, i) = RemoveAt(s, i)
    BY DEF Queues!RemoveAt, RemoveAt
  <2>8. ASSUME NEW c \in Cords, \A u \in Tables : c \notin ToSet(q[u])
        PROVE  c \in Queues!Outside
    <3>1. \A s : Queues!ToSet(s) = ToSet(s)
      BY DEF Queues!ToSet, ToSet
    <3> QED BY <2>4, <2>8, <3>1 DEF Queues!Outside, Tables
  <2>9. ASSUME NEW c \in Cords, NEW t \in Tables, Joins(q, r, t, c)
        PROVE  Queues!Next
    <3>1. r[t] = Append(q[t], c) /\ \A u \in Tables : u # t => r[u] = q[u]
      BY <2>6, <2>9 DEF Joins
    <3>2. c \in Queues!Outside
      BY <2>8, <2>9 DEF Joins
    <3>3. CASE t = "runable"
      <4>1. Queues!Enter(c)
        BY <2>4, <2>5, <3>1, <3>2, <3>3 DEF Queues!Enter, Tables
      <4> QED BY <4>1 DEF Queues!Next
    <3>4. CASE t = "blocked"
      <4>1. Queues!Block(c)
        BY <2>4, <2>5, <3>1, <3>2, <3>4 DEF Queues!Block, Tables
      <4> QED BY <4>1 DEF Queues!Next
    <3>5. CASE t = "zombies"
      <4>1. Queues!Exit(c)
        BY <2>4, <2>5, <3>1, <3>2, <3>5 DEF Queues!Exit, Tables
      <4> QED BY <4>1 DEF Queues!Next
    <3> QED BY <3>3, <3>4, <3>5 DEF Tables
  <2>10. ASSUME NEW c \in Cords, NEW from \in Tables, NEW to \in Tables, from # to,
                Goes(q, r, from, to, c)
         PROVE  /\ Queues!Leaves(c, q[from], r[from])
                /\ r[to] = Append(q[to], c)
                /\ \A u \in Tables : u # from /\ u # to => r[u] = q[u]
    <3>1. PICK i \in 1 .. Len(q[from]) :
            /\ c = q[from][i]
            /\ r = [q EXCEPT ![from] = RemoveAt(q[from], i), ![to] = Append(q[to], c)]
      BY <2>10 DEF Goes
    <3>2. r[from] = RemoveAt(q[from], i) /\ r[to] = Append(q[to], c)
          /\ \A u \in Tables : u # from /\ u # to => r[u] = q[u]
      BY <2>6, <2>10, <3>1
    <3>3. i \in DOMAIN q[from]
      BY <2>6
    <3>4. Queues!Leaves(c, q[from], r[from])
      BY <2>7, <3>1, <3>2, <3>3 DEF Queues!Leaves
    <3> QED BY <3>2, <3>4
  <2>11. ASSUME NEW c \in Cords, Goes(q, r, "blocked", "runable", c) PROVE Queues!Next
    <3>1. /\ Queues!Leaves(c, q["blocked"], r["blocked"]) /\ r["runable"] = Append(q["runable"], c)
          /\ r["zombies"] = q["zombies"]
      BY <2>10, <2>11 DEF Tables
    <3>2. Queues!Unblock(c)
      BY <2>4, <2>5, <3>1 DEF Queues!Unblock
    <3> QED BY <3>2 DEF Queues!Next
  <2>12. ASSUME NEW c \in Cords, Goes(q, r, "runable", "zombies", c) PROVE Queues!Next
    <3>1. /\ Queues!Leaves(c, q["runable"], r["runable"]) /\ r["zombies"] = Append(q["zombies"], c)
          /\ r["blocked"] = q["blocked"]
      BY <2>10, <2>12 DEF Tables
    <3>2. Queues!Halt(c)
      BY <2>4, <2>5, <3>1 DEF Queues!Halt
    <3> QED BY <3>2 DEF Queues!Next
  <2>13. ASSUME NEW c \in Cords, Goes(q, r, "blocked", "zombies", c) PROVE Queues!Next
    <3>1. /\ Queues!Leaves(c, q["blocked"], r["blocked"]) /\ r["zombies"] = Append(q["zombies"], c)
          /\ r["runable"] = q["runable"]
      BY <2>10, <2>13 DEF Tables
    <3>2. Queues!Halt(c)
      BY <2>4, <2>5, <3>1 DEF Queues!Halt
    <3> QED BY <3>2 DEF Queues!Next
  <2>14. ASSUME NEW c \in Cords, Joins([q EXCEPT !["runable"] = << >>], r, "zombies", c),
                \A u \in Tables : c \notin ToSet(q[u])
         PROVE  Queues!Next
    <3>1. /\ r["runable"] = << >> /\ r["zombies"] = Append(q["zombies"], c)
          /\ r["blocked"] = q["blocked"]
      BY <2>6, <2>14 DEF Joins, Tables
    <3>2. Queues!Stop(c)
      BY <2>4, <2>5, <2>8, <2>14, <3>1 DEF Queues!Stop
    <3> QED BY <3>2 DEF Queues!Next
  <2>15. ASSUME q["runable"] # << >>, r = [q EXCEPT !["runable"] = RemoveAt(q["runable"], 1)]
         PROVE  Queues!Next
    <3> DEFINE s == q["runable"]
    <3>1. /\ r["runable"] = RemoveAt(s, 1) /\ r["blocked"] = q["blocked"]
          /\ r["zombies"] = q["zombies"] /\ s \in Seq(Cords)
      BY <2>6, <2>15 DEF Tables
    <3>2. RemoveAt(s, 1) = Tail(s)
      <4>1. s # << >> /\ s \in Seq(Cords) /\ 1 \in DOMAIN s /\ Len(s) \in Nat
        BY <2>15, <3>1
      <4> HIDE DEF s
      <4>2. /\ RemoveAt(s, 1) \in Seq(Cords) /\ Len(RemoveAt(s, 1)) = Len(s) - 1
            /\ \A j \in 1 .. Len(s) - 1 : RemoveAt(s, 1)[j] = IF j < 1 THEN s[j] ELSE s[j + 1]
        BY <4>1, RemoveAtShape
      <4>3. /\ Tail(s) \in Seq(Cords) /\ Len(Tail(s)) = Len(s) - 1
            /\ \A j \in 1 .. Len(s) - 1 : Tail(s)[j] = s[j + 1]
        BY <4>1
      <4> DEFINE x == RemoveAt(s, 1)
                 y == Tail(s)
      <4>4. \A j \in 1 .. Len(s) - 1 : x[j] = y[j]
        BY <4>1, <4>2, <4>3
      <4> HIDE DEF x, y
      <4>5. x = y
        BY <4>2, <4>3, <4>4, SeqEqual DEF x, y
      <4> QED BY <4>5 DEF x, y
    <3>3. Queues!Pop
      BY <2>4, <2>5, <2>15, <3>1, <3>2 DEF Queues!Pop
    <3> QED BY <3>3 DEF Queues!Next
  <2>16. ASSUME r = [q EXCEPT !["zombies"] = << >>] PROVE Queues!Next
    <3>1. r["runable"] = q["runable"] /\ r["blocked"] = q["blocked"] /\ r["zombies"] = << >>
      BY <2>6, <2>16 DEF Tables
    <3>2. Queues!Reap
      BY <2>4, <2>5, <3>1 DEF Queues!Reap
    <3> QED BY <3>2 DEF Queues!Next
  <2> QED BY <2>2, <2>9, <2>11, <2>12, <2>13, <2>14, <2>15, <2>16 DEF Steps
<1> QED BY <1>1, <1>2, TablesInvariant, PTL DEF Spec, ImplementsQueues, Queues!Spec
=============================================================================
