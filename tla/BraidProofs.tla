----------------------------- MODULE BraidProofs -----------------------------
(***************************************************************************)
(* Proofs about the scheduler, for every number of cords and every set of  *)
(* wake-up values: its invariant, the action properties of its lists, and  *)
(* that it implements CordLifecycle.                                       *)
(***************************************************************************)
EXTENDS BraidRefinement, SequenceTheorems, FiniteSetTheorems, WellFoundedInduction, TLAPS

(***************************************************************************)
(* Lists: append at the tail, remove the head, remove in the middle, put   *)
(* one list behind another; and induction for the operations that are      *)
(* loops.                                                                  *)
(***************************************************************************)

(* A set of natural numbers that is not empty has a smallest element.      *)
LEMMA LeastNumber ==
  ASSUME NEW T \in SUBSET Nat, T # {}
  PROVE  \E n \in T : \A m \in T : n <= m
<1> DEFINE R == {ss \in Nat \X Nat : ss[1] < ss[2]}
<1>1. OpToRel(<, Nat) = R
  BY DEF OpToRel
<1>2. IsWellFoundedOn(R, Nat)
  BY <1>1, NatLessThanWellFounded
<1>3. \A x, y \in Nat : <<y, x>> \in R <=> y < x
  OBVIOUS
<1> HIDE DEF R
<1>4. PICK n \in T : \A m \in T : ~(<<m, n>> \in R)
  BY <1>2, WFMin
<1>5. \A m \in T : n \in Nat /\ m \in Nat /\ ~(m < n)
  BY <1>3, <1>4
<1> QED BY <1>5

(* Min and Max of a set of numbers that is not empty and has a bound.      *)
LEMMA MinMax ==
  ASSUME NEW n \in Nat, NEW T \in SUBSET (0 .. n), T # {}
  PROVE  /\ Min(T) \in T /\ \A m \in T : Min(T) <= m
         /\ Max(T) \in T /\ \A m \in T : m <= Max(T)
<1>1. T \in SUBSET Nat
  OBVIOUS
<1>2. PICK x \in T : \A m \in T : x <= m
  BY <1>1, LeastNumber
<1>3. Min(T) \in T /\ \A m \in T : Min(T) <= m
  BY <1>2 DEF Min
<1> DEFINE U == {n - m : m \in T}
<1>4. U \in SUBSET Nat /\ U # {}
  OBVIOUS
<1>5. PICK u \in U : \A v \in U : u <= v
  <2> HIDE DEF U
  <2> QED BY <1>4, LeastNumber
<1>6. PICK y \in T : u = n - y
  BY <1>5
<1>7. \A m \in T : y >= m
  <2> TAKE m \in T
  <2>1. n - y <= n - m
    BY <1>5, <1>6
  <2> QED BY <1>1, <2>1
<1>8. Max(T) \in T /\ \A m \in T : Max(T) >= m
  BY <1>7 DEF Max
<1>9. \A m \in T : m <= Max(T)
  BY <1>1, <1>8
<1> QED BY <1>3, <1>8, <1>9

(* Induction, for a set of natural numbers instead of a predicate.         *)
LEMMA SetInduction ==
  ASSUME NEW T \in SUBSET Nat, 0 \in T, \A n \in T : n + 1 \in T
  PROVE  \A n \in Nat : n \in T
<1> SUFFICES ASSUME Nat \ T # {} PROVE FALSE
  OBVIOUS
<1>1. PICK n \in Nat \ T : \A m \in Nat \ T : n <= m
  BY LeastNumber
<1>2. n - 1 \in Nat /\ ~(n <= n - 1)
  BY <1>1
<1>3. n - 1 \in T
  BY <1>1, <1>2
<1> QED BY <1>1, <1>2, <1>3

(* The elements of an appended list. *)
LEMMA AppendElements ==
  ASSUME NEW S, NEW s \in Seq(S), NEW e \in S
  PROVE  /\ Append(s, e) \in Seq(S)
         /\ ToSet(Append(s, e)) = ToSet(s) \cup {e}
         /\ IsInjective(s) /\ e \notin ToSet(s) => IsInjective(Append(s, e))
<1> DEFINE t == Append(s, e)
<1>1. /\ t \in Seq(S)
      /\ Len(t) = Len(s) + 1
      /\ \A i \in 1 .. Len(s) : t[i] = s[i]
      /\ t[Len(s) + 1] = e
  BY AppendProperties
<1>2. DOMAIN s = 1 .. Len(s) /\ DOMAIN t = 1 .. Len(t) /\ Len(s) \in Nat
  BY <1>1, LenProperties
<1> HIDE DEF t
<1>3. ToSet(t) \subseteq ToSet(s) \cup {e}
  BY <1>1, <1>2 DEF ToSet
<1>4. ToSet(s) \cup {e} \subseteq ToSet(t)
  BY <1>1, <1>2 DEF ToSet
<1>5. IsInjective(s) /\ e \notin ToSet(s) => IsInjective(t)
  BY <1>1, <1>2 DEF IsInjective, ToSet
<1> QED BY <1>1, <1>3, <1>4, <1>5 DEF t

(* The elements that are left when the head is taken. *)
LEMMA TailElements ==
  ASSUME NEW S, NEW s \in Seq(S), s # << >>
  PROVE  /\ Head(s) \in S
         /\ Tail(s) \in Seq(S)
         /\ ToSet(s) = {Head(s)} \cup ToSet(Tail(s))
         /\ IsInjective(s) => IsInjective(Tail(s)) /\ Head(s) \notin ToSet(Tail(s))
<1> DEFINE t == Tail(s)
<1>1. /\ Head(s) \in S
      /\ t \in Seq(S)
      /\ Len(t) = Len(s) - 1
      /\ \A i \in 1 .. Len(t) : t[i] = s[i + 1]
  BY HeadTailProperties
<1>2. /\ DOMAIN s = 1 .. Len(s)
      /\ DOMAIN t = 1 .. Len(t)
      /\ Len(s) \in Nat \ {0}
  BY <1>1, LenProperties, EmptySeq
<1>3. Head(s) = s[1]
  OBVIOUS
<1> HIDE DEF t
<1>4. ToSet(s) \subseteq {Head(s)} \cup ToSet(t)
  <2> SUFFICES ASSUME NEW i \in 1 .. Len(s), i # 1
               PROVE  s[i] \in ToSet(t)
    BY <1>2, <1>3 DEF ToSet
  <2>1. i - 1 \in 1 .. Len(t) /\ t[i - 1] = s[i]
    BY <1>1, <1>2
  <2> QED BY <2>1, <1>2 DEF ToSet
<1>5. {Head(s)} \cup ToSet(t) \subseteq ToSet(s)
  BY <1>1, <1>2, <1>3 DEF ToSet
<1>6. ASSUME IsInjective(s) PROVE IsInjective(t)
  <2> SUFFICES ASSUME NEW i \in 1 .. Len(t), NEW j \in 1 .. Len(t), t[i] = t[j]
               PROVE  i = j
    BY <1>2 DEF IsInjective
  <2>1. i + 1 \in DOMAIN s /\ j + 1 \in DOMAIN s /\ s[i + 1] = s[j + 1]
    BY <1>1, <1>2
  <2>2. i + 1 = j + 1
    BY <1>6, <2>1 DEF IsInjective
  <2> QED BY <1>1, <2>2
<1>7. ASSUME IsInjective(s) PROVE Head(s) \notin ToSet(t)
  <2> SUFFICES ASSUME NEW i \in 1 .. Len(t), t[i] = s[1] PROVE FALSE
    BY <1>2, <1>3 DEF ToSet
  <2>1. i + 1 \in DOMAIN s /\ 1 \in DOMAIN s /\ s[i + 1] = s[1]
    BY <1>1, <1>2
  <2>2. i + 1 = 1
    BY <1>7, <2>1 DEF IsInjective
  <2> QED BY <2>2
<1> QED BY <1>1, <1>4, <1>5, <1>6, <1>7 DEF t

(* A removed element leaves the others in their order, those behind it one *)
(* position further ahead.                                                 *)
LEMMA RemoveAtShape ==
  ASSUME NEW S, NEW s \in Seq(S), NEW i \in DOMAIN s
  PROVE  /\ RemoveAt(s, i) \in Seq(S)
         /\ Len(RemoveAt(s, i)) = Len(s) - 1
         /\ \A j \in 1 .. Len(s) - 1 :
              RemoveAt(s, i)[j] = IF j < i THEN s[j] ELSE s[j + 1]
<1> DEFINE a == SubSeq(s, 1, i - 1)
           b == SubSeq(s, i + 1, Len(s))
<1>1. Len(s) \in Nat /\ DOMAIN s = 1 .. Len(s) /\ s \in [1 .. Len(s) -> S]
  BY LenProperties
<1>2. i \in 1 .. Len(s)
  BY <1>1
<1>3. /\ a \in Seq(S)
      /\ Len(a) = i - 1
      /\ \A j \in 1 .. i - 1 : a[j] = s[j]
  <2>1. \A j \in 1 .. i - 1 : s[j] \in S
    BY <1>1, <1>2
  <2>2. /\ a \in Seq(S)
        /\ Len(a) = IF 1 <= i - 1 THEN i - 1 - 1 + 1 ELSE 0
        /\ \A j \in 1 .. i - 1 - 1 + 1 : a[j] = s[1 + j - 1]
    BY <1>2, <2>1, SubSeqProperties
  <2> QED BY <1>2, <2>2
<1>4. /\ b \in Seq(S)
      /\ Len(b) = Len(s) - i
      /\ \A j \in 1 .. Len(s) - i : b[j] = s[i + j]
  <2>1. \A j \in i + 1 .. Len(s) : s[j] \in S
    BY <1>1, <1>2
  <2>2. /\ b \in Seq(S)
        /\ Len(b) = IF i + 1 <= Len(s) THEN Len(s) - (i + 1) + 1 ELSE 0
        /\ \A j \in 1 .. Len(s) - (i + 1) + 1 : b[j] = s[(i + 1) + j - 1]
    BY <1>1, <1>2, <2>1, SubSeqProperties
  <2> QED BY <1>1, <1>2, <2>2
<1> HIDE DEF a, b
<1>5. /\ a \o b \in Seq(S)
      /\ Len(a \o b) = Len(a) + Len(b)
      /\ \A j \in 1 .. Len(a) + Len(b) :
           (a \o b)[j] = IF j <= Len(a) THEN a[j] ELSE b[j - Len(a)]
  BY <1>3, <1>4, ConcatProperties
<1>6. RemoveAt(s, i) = a \o b
  BY DEF RemoveAt, a, b
<1>7. \A j \in 1 .. Len(s) - 1 : (a \o b)[j] = IF j < i THEN s[j] ELSE s[j + 1]
  <2> SUFFICES ASSUME NEW j \in 1 .. Len(s) - 1
               PROVE  (a \o b)[j] = IF j < i THEN s[j] ELSE s[j + 1]
    OBVIOUS
  <2>1. CASE j < i
    BY <2>1, <1>1, <1>2, <1>3, <1>4, <1>5
  <2>2. CASE ~(j < i)
    <3>1. j - Len(a) \in 1 .. Len(s) - i /\ i + (j - Len(a)) = j + 1 /\ ~(j <= Len(a))
      BY <2>2, <1>1, <1>2, <1>3
    <3>2. b[j - Len(a)] = s[j + 1]
      BY <3>1, <1>4
    <3>3. j \in 1 .. Len(a) + Len(b)
      BY <1>1, <1>2, <1>3, <1>4
    <3>4. (a \o b)[j] = b[j - Len(a)]
      BY <3>1, <3>3, <1>5
    <3> QED BY <2>2, <3>2, <3>4
  <2> QED BY <2>1, <2>2
<1>8. Len(a) + Len(b) = Len(s) - 1
  BY <1>1, <1>2, <1>3, <1>4
<1> QED BY <1>5, <1>6, <1>7, <1>8

(* The elements that are left when one is removed. *)
LEMMA RemoveAtElements ==
  ASSUME NEW S, NEW s \in Seq(S), NEW i \in DOMAIN s, IsInjective(s)
  PROVE  /\ RemoveAt(s, i) \in Seq(S)
         /\ IsInjective(RemoveAt(s, i))
         /\ ToSet(RemoveAt(s, i)) = ToSet(s) \ {s[i]}
<1> DEFINE r == RemoveAt(s, i)
<1>1. /\ r \in Seq(S)
      /\ Len(r) = Len(s) - 1
      /\ \A j \in 1 .. Len(s) - 1 : r[j] = IF j < i THEN s[j] ELSE s[j + 1]
  BY RemoveAtShape
<1>2. /\ DOMAIN s = 1 .. Len(s)
      /\ DOMAIN r = 1 .. Len(s) - 1
      /\ Len(s) \in Nat
      /\ i \in 1 .. Len(s)
  BY <1>1, LenProperties
<1> HIDE DEF r
<1>3. IsInjective(r)
  <2> SUFFICES ASSUME NEW j \in 1 .. Len(s) - 1, NEW k \in 1 .. Len(s) - 1, r[j] = r[k]
               PROVE  j = k
    BY <1>2 DEF IsInjective
  <2> DEFINE to(m) == IF m < i THEN m ELSE m + 1
  <2>1. to(j) \in DOMAIN s /\ to(k) \in DOMAIN s
    BY <1>2
  <2>2. s[to(j)] = s[to(k)]
    BY <1>1
  <2>3. to(j) = to(k)
    <3> HIDE DEF to
    <3> QED BY <2>1, <2>2 DEF IsInjective
  <2> QED BY <2>3, <1>2
<1>4. ToSet(r) \subseteq ToSet(s) \ {s[i]}
  BY <1>1, <1>2 DEF IsInjective, ToSet
<1>5. ToSet(s) \ {s[i]} \subseteq ToSet(r)
  <2> SUFFICES ASSUME NEW k \in 1 .. Len(s), k # i
               PROVE  s[k] \in ToSet(r)
    BY <1>2 DEF ToSet
  <2>1. CASE k < i
    BY <2>1, <1>1, <1>2 DEF ToSet
  <2>2. CASE k > i
    <3>1. k - 1 \in 1 .. Len(s) - 1 /\ r[k - 1] = s[k]
      BY <2>2, <1>1, <1>2
    <3> QED BY <3>1, <1>2 DEF ToSet
  <2> QED BY <2>1, <2>2, <1>2
<1> QED BY <1>1, <1>3, <1>4, <1>5 DEF r

(* The elements of two lists, one behind the other.                        *)
LEMMA ConcatElements ==
  ASSUME NEW S, NEW s \in Seq(S), NEW t \in Seq(S)
  PROVE  /\ s \o t \in Seq(S)
         /\ ToSet(s \o t) = ToSet(s) \cup ToSet(t)
         /\ IsInjective(s) /\ IsInjective(t) /\ ToSet(s) \cap ToSet(t) = {}
              => IsInjective(s \o t)
<1> DEFINE u == s \o t
<1>1. /\ u \in Seq(S)
      /\ Len(u) = Len(s) + Len(t)
      /\ \A i \in 1 .. Len(s) + Len(t) :
           u[i] = IF i <= Len(s) THEN s[i] ELSE t[i - Len(s)]
  BY ConcatProperties
<1>2. /\ DOMAIN s = 1 .. Len(s) /\ DOMAIN t = 1 .. Len(t) /\ DOMAIN u = 1 .. Len(u)
      /\ Len(s) \in Nat /\ Len(t) \in Nat
  BY <1>1, LenProperties
<1> HIDE DEF u
<1>3. ToSet(u) \subseteq ToSet(s) \cup ToSet(t)
  <2> SUFFICES ASSUME NEW i \in 1 .. Len(u) PROVE u[i] \in ToSet(s) \cup ToSet(t)
    BY <1>2 DEF ToSet
  <2>1. CASE i <= Len(s)
    <3>1. i \in DOMAIN s /\ u[i] = s[i]
      BY <2>1, <1>1, <1>2
    <3> QED BY <3>1 DEF ToSet
  <2>2. CASE ~(i <= Len(s))
    <3>1. i - Len(s) \in 1 .. Len(t) /\ u[i] = t[i - Len(s)]
      BY <2>2, <1>1, <1>2
    <3> QED BY <3>1, <1>2 DEF ToSet
  <2> QED BY <2>1, <2>2
<1>4. ToSet(s) \subseteq ToSet(u)
  <2> SUFFICES ASSUME NEW i \in 1 .. Len(s) PROVE s[i] \in ToSet(u)
    BY <1>2 DEF ToSet
  <2>1. i \in DOMAIN u /\ u[i] = s[i]
    BY <1>1, <1>2
  <2> QED BY <2>1 DEF ToSet
<1>5. ToSet(t) \subseteq ToSet(u)
  <2> SUFFICES ASSUME NEW i \in 1 .. Len(t) PROVE t[i] \in ToSet(u)
    BY <1>2 DEF ToSet
  <2>1. Len(s) + i \in 1 .. Len(u) /\ u[Len(s) + i] = t[i]
    <3>1. Len(s) + i \in 1 .. Len(s) + Len(t) /\ ~(Len(s) + i <= Len(s))
      BY <1>2
    <3>2. (Len(s) + i) - Len(s) = i
      BY <1>2
    <3> QED BY <3>1, <3>2, <1>1
  <2> QED BY <2>1, <1>2 DEF ToSet
<1>6. ASSUME IsInjective(s), IsInjective(t), ToSet(s) \cap ToSet(t) = {}
      PROVE  IsInjective(u)
  <2>1. \A i \in 1 .. Len(s), j \in 1 .. Len(t) : s[i] # t[j]
    BY <1>2, <1>6 DEF ToSet
  <2> SUFFICES ASSUME NEW i \in 1 .. Len(u), NEW j \in 1 .. Len(u), u[i] = u[j]
               PROVE  i = j
    BY <1>2 DEF IsInjective
  <2>2. CASE i <= Len(s) /\ j <= Len(s)
    BY <2>2, <1>1, <1>2, <1>6 DEF IsInjective
  <2>3. CASE ~(i <= Len(s)) /\ ~(j <= Len(s))
    <3>1. i - Len(s) \in 1 .. Len(t) /\ j - Len(s) \in 1 .. Len(t)
      BY <2>3, <1>1, <1>2
    <3>2. t[i - Len(s)] = t[j - Len(s)]
      BY <2>3, <1>1, <1>2
    <3> QED BY <3>1, <3>2, <1>2, <1>6 DEF IsInjective
  <2>4. CASE i <= Len(s) /\ ~(j <= Len(s))
    <3>1. j - Len(s) \in 1 .. Len(t)
      BY <2>4, <1>1, <1>2
    <3>2. u[j] = t[j - Len(s)] /\ u[i] = s[i] /\ i \in 1 .. Len(s)
      BY <2>4, <1>1, <1>2
    <3> QED BY <2>1, <3>1, <3>2
  <2>5. CASE ~(i <= Len(s)) /\ j <= Len(s)
    <3>1. i - Len(s) \in 1 .. Len(t)
      BY <2>5, <1>1, <1>2
    <3>2. u[i] = t[i - Len(s)] /\ u[j] = s[j] /\ j \in 1 .. Len(s)
      BY <2>5, <1>1, <1>2
    <3> QED BY <2>1, <3>1, <3>2
  <2> QED BY <2>2, <2>3, <2>4, <2>5
<1> QED BY <1>1, <1>3, <1>4, <1>5, <1>6 DEF u

(* A list cut in two.                                                      *)
LEMMA CutElements ==
  ASSUME NEW S, NEW s \in Seq(S), NEW k \in 0 .. Len(s)
  PROVE  /\ SubSeq(s, k + 1, Len(s)) \in Seq(S)
         /\ Len(SubSeq(s, k + 1, Len(s))) = Len(s) - k
         /\ \A i \in 1 .. Len(s) - k : SubSeq(s, k + 1, Len(s))[i] = s[k + i]
         /\ ToSet(SubSeq(s, 1, k)) = {s[i] : i \in 1 .. k}
         /\ ToSet(SubSeq(s, k + 1, Len(s))) = {s[i] : i \in k + 1 .. Len(s)}
         /\ IsInjective(s) => IsInjective(SubSeq(s, k + 1, Len(s)))
<1> DEFINE a == SubSeq(s, 1, k)
           b == SubSeq(s, k + 1, Len(s))
<1>1. Len(s) \in Nat /\ DOMAIN s = 1 .. Len(s) /\ \A j \in 1 .. Len(s) : s[j] \in S
  BY LenProperties
<1>2. /\ a \in Seq(S)
      /\ Len(a) = k
      /\ \A j \in 1 .. k : a[j] = s[j]
  <2>1. \A j \in 1 .. k : s[j] \in S
    BY <1>1
  <2>2. /\ a \in Seq(S)
        /\ Len(a) = IF 1 <= k THEN k - 1 + 1 ELSE 0
        /\ \A j \in 1 .. k - 1 + 1 : a[j] = s[1 + j - 1]
    BY <2>1, <1>1, SubSeqProperties
  <2> QED BY <2>2, <1>1
<1>3. /\ b \in Seq(S)
      /\ Len(b) = Len(s) - k
      /\ \A j \in 1 .. Len(s) - k : b[j] = s[k + j]
  <2>1. \A j \in k + 1 .. Len(s) : s[j] \in S
    BY <1>1
  <2>2. /\ b \in Seq(S)
        /\ Len(b) = IF k + 1 <= Len(s) THEN Len(s) - (k + 1) + 1 ELSE 0
        /\ \A j \in 1 .. Len(s) - (k + 1) + 1 : b[j] = s[(k + 1) + j - 1]
    BY <1>1, <2>1, SubSeqProperties
  <2> QED BY <1>1, <2>2
<1>4. DOMAIN a = 1 .. k /\ DOMAIN b = 1 .. Len(s) - k
  BY <1>2, <1>3, LenProperties
<1> HIDE DEF a, b
<1>5. ToSet(a) = {s[i] : i \in 1 .. k}
  BY <1>2, <1>4 DEF ToSet
<1>6. ToSet(b) = {s[i] : i \in k + 1 .. Len(s)}
  <2>1. ASSUME NEW i \in 1 .. Len(s) - k PROVE b[i] \in {s[j] : j \in k + 1 .. Len(s)}
    <3>1. k + i \in k + 1 .. Len(s) /\ b[i] = s[k + i]
      BY <1>1, <1>3
    <3> QED BY <3>1
  <2>2. ASSUME NEW i \in k + 1 .. Len(s) PROVE s[i] \in ToSet(b)
    <3>1. i - k \in 1 .. Len(s) - k /\ k + (i - k) = i
      BY <1>1
    <3> QED BY <3>1, <1>3, <1>4 DEF ToSet
  <2> QED BY <2>1, <2>2, <1>4 DEF ToSet
<1>7. ASSUME IsInjective(s) PROVE IsInjective(b)
  <2> SUFFICES ASSUME NEW i \in 1 .. Len(s) - k, NEW j \in 1 .. Len(s) - k, b[i] = b[j]
               PROVE  i = j
    BY <1>4 DEF IsInjective
  <2>1. k + i \in DOMAIN s /\ k + j \in DOMAIN s /\ s[k + i] = s[k + j]
    BY <1>1, <1>3
  <2>2. k + i = k + j
    BY <1>7, <2>1 DEF IsInjective
  <2> QED BY <1>1, <2>2
<1> QED BY <1>3, <1>5, <1>6, <1>7 DEF a, b

(* A list of all the elements of a finite set, in whatever order.          *)
LEMMA ListingElements ==
  ASSUME NEW A, NEW S \in SUBSET A, IsFiniteSet(S), NEW s \in SetToSeqs(S)
  PROVE  s \in Seq(A) /\ ToSet(s) = S /\ IsInjective(s)
<1> DEFINE D == 1 .. Cardinality(S)
<1>1. /\ s \in [D -> S]
      /\ \A i, j \in D : i # j => s[i] # s[j]
  BY DEF SetToSeqs
<1>2. Cardinality(S) \in Nat
  BY FS_CardinalityType
<1>3. Cardinality(D) = Cardinality(S)
  BY <1>2, FS_Interval
<1> HIDE DEF D
<1>4. s \in Injection(D, S)
  BY <1>1 DEF Injection, IsInjective
<1>5. s \in Surjection(D, S)
  BY <1>3, <1>4, FS_Injection
<1>6. ToSet(s) = S
  BY <1>1, <1>5 DEF Surjection, ToSet
<1>7. IsInjective(s)
  BY <1>1 DEF IsInjective
<1>8. s \in Seq(A)
  BY <1>1, <1>2 DEF D
<1> QED BY <1>6, <1>7, <1>8

-----------------------------------------------------------------------------
(***************************************************************************)
(* The scheduler.                                                          *)
(***************************************************************************)

(* Once braidstart has returned the lists are empty. *)
ClearedWhenDone == phase = "done" => runable = << >> /\ blocked = {} /\ zombies = {}

BraidInv == TypeOK /\ Accounted /\ ClearedWhenDone /\ ShutdownJustified

(* The lists that schedule() is given hold every cord exactly once. *)
Split(q, blk, zom, fre) ==
  /\ q \in Seq(Cords)
  /\ IsInjective(q)
  /\ blk \subseteq Cords /\ zom \subseteq Cords /\ fre \subseteq Cords
  /\ ToSet(q) \cup blk \cup zom \cup fre = 0 .. count - 1
  /\ ToSet(q) \cap (blk \cup zom \cup fre) = {}
  /\ blk \cap (zom \cup fre) = {}
  /\ zom \cap fre = {}

-----------------------------------------------------------------------------
(* The id that braidadd hands out is b->count: the loop that skips the ids *)
(* in the run queue never turns, because those are all smaller.            *)
LEMMA NextIdIsCount ==
  ASSUME TypeOK, Accounted
  PROVE  NextId = count
<1> DEFINE P(k) == /\ k \notin ToSet(runable)
                   /\ \A j \in count .. k - 1 : j \in ToSet(runable)
<1>1. count \in Nat /\ Len(runable) \in Nat
  BY MaxCordsAssumption, LenProperties DEF TypeOK
<1>2. ToSet(runable) \subseteq 0 .. count - 1
  BY DEF Accounted
<1>3. count \in count .. count + Len(runable) /\ P(count)
  BY <1>1, <1>2
<1>4. \A k \in count .. count + Len(runable) : P(k) => k = count
  BY <1>1, <1>2
<1>5. NextId = CHOOSE k \in count .. count + Len(runable) : P(k)
  BY DEF NextId
<1> HIDE DEF P
<1> QED BY <1>3, <1>4, <1>5

(* What Filter keeps of a list.                                            *)
LEMMA FilterElements ==
  ASSUME NEW A, NEW s \in Seq(A), NEW S
  PROVE  /\ Filter(s, S) \in Seq(A)
         /\ ToSet(Filter(s, S)) = ToSet(s) \cap S
         /\ Len(Filter(s, S)) <= Len(s)
         /\ IsInjective(s) => IsInjective(Filter(s, S))
<1> DEFINE Next1(f, i) == IF i = 0 THEN << >>
                          ELSE IF s[i] \in S THEN Append(f[i - 1], s[i])
                          ELSE f[i - 1]
           Loop(f, n) == f = [i \in 0 .. n |-> Next1(f, i)]
<1>1. Len(s) \in Nat /\ DOMAIN s = 1 .. Len(s) /\ \A i \in 1 .. Len(s) : s[i] \in A
  BY LenProperties
<1>2. \E f : Loop(f, Len(s))
  <2> DEFINE T == {n \in Nat : \E f : Loop(f, n)}
  <2>1. 0 \in T
    <3>1. Loop([i \in 0 .. 0 |-> << >>], 0)
      OBVIOUS
    <3> QED BY <3>1
  <2>2. ASSUME NEW n \in T PROVE n + 1 \in T
    <3>1. PICK f : Loop(f, n)
      OBVIOUS
    <3> DEFINE g == [i \in 0 .. n + 1 |-> IF i = n + 1 THEN Next1(f, i) ELSE f[i]]
    <3>2. ASSUME NEW i \in 0 .. n + 1 PROVE g[i] = Next1(g, i)
      <4>1. CASE i = 0
        BY <3>1, <4>1
      <4>2. CASE i \in 1 .. n
        <5>1. g[i] = f[i] /\ g[i - 1] = f[i - 1]
          BY <4>2
        <5>2. f[i] = Next1(f, i)
          <6>1. i \in 0 .. n
            BY <4>2
          <6> HIDE DEF Next1
          <6> QED BY <3>1, <6>1
        <5> HIDE DEF g
        <5> QED BY <5>1, <5>2
      <4>3. CASE i = n + 1
        BY <4>3
      <4> QED BY <4>1, <4>2, <4>3
    <3>3. \E h : Loop(h, n + 1)
      <4>1. g = [i \in 0 .. n + 1 |-> g[i]]
        OBVIOUS
      <4> HIDE DEF g, Next1
      <4>2. Loop(g, n + 1)
        BY <3>2, <4>1
      <4> QED BY <4>2
    <3> HIDE DEF Loop
    <3> QED BY <3>3
  <2> HIDE DEF T
  <2>3. \A n \in Nat : n \in T
    BY <2>1, <2>2, SetInduction DEF T
  <2> QED BY <1>1, <2>3 DEF T
<1>3. PICK w : Loop(w, Len(s)) /\ Filter(s, S) = w[Len(s)]
  BY <1>2 DEF Filter
<1> DEFINE Upto(n) == {s[j] : j \in 1 .. n}
           Good(n) == /\ w[n] \in Seq(A)
                      /\ ToSet(w[n]) = Upto(n) \cap S
                      /\ Len(w[n]) <= n
                      /\ IsInjective(s) => IsInjective(w[n])
           T == {n \in Nat : n <= Len(s) => Good(n)}
<1>4. 0 \in T
  <2>1. w[0] = << >>
    BY <1>1, <1>3
  <2>2. << >> \in Seq(A) /\ ToSet(<< >>) = {} /\ IsInjective(<< >>)
    BY DEF ToSet, IsInjective
  <2>3. Upto(0) = {}
    OBVIOUS
  <2> HIDE DEF Upto
  <2>4. Good(0)
    BY <2>1, <2>2, <2>3, EmptySeq
  <2> QED BY <2>4
<1>5. ASSUME NEW n \in T PROVE n + 1 \in T
  <2> SUFFICES ASSUME n + 1 <= Len(s) PROVE Good(n + 1)
    OBVIOUS
  <2>1. Good(n) /\ n + 1 \in 1 .. Len(s)
    BY <1>1
  <2>2. Upto(n + 1) = Upto(n) \cup {s[n + 1]}
    OBVIOUS
  <2>3. IsInjective(s) => s[n + 1] \notin Upto(n)
    BY <1>1, <2>1 DEF IsInjective
  <2>4. w[n + 1] = Next1(w, n + 1)
    <3>1. n + 1 \in 0 .. Len(s)
      BY <1>1, <2>1
    <3> HIDE DEF Next1
    <3> QED BY <1>3, <3>1
  <2> HIDE DEF Upto
  <2>5. CASE s[n + 1] \in S
    <3>1. w[n + 1] = Append(w[n], s[n + 1])
      BY <2>4, <2>5, n + 1 # 0, n + 1 - 1 = n
    <3>2. Len(Append(w[n], s[n + 1])) = Len(w[n]) + 1 /\ Len(w[n]) \in Nat
      BY <1>1, <2>1, AppendProperties, LenProperties
    <3> QED BY <3>1, <3>2, <1>1, <2>1, <2>2, <2>3, <2>5, AppendElements
  <2>6. CASE s[n + 1] \notin S
    <3>1. w[n + 1] = w[n]
      BY <2>4, <2>6, n + 1 # 0, n + 1 - 1 = n
    <3>2. Len(w[n]) \in Nat
      BY <2>1, LenProperties
    <3> QED BY <3>1, <3>2, <2>1, <2>2, <2>6
  <2> QED BY <2>5, <2>6
<1> HIDE DEF T
<1>6. Len(s) \in T
  BY <1>1, <1>4, <1>5, SetInduction DEF T
<1>7. Upto(Len(s)) = ToSet(s)
  BY <1>1 DEF ToSet
<1> QED BY <1>1, <1>3, <1>6, <1>7 DEF T

(* A row of braidunblock calls moves the blocked cords among those of the  *)
(* list, each once.                                                        *)
LEMMA WokenElements ==
  ASSUME NEW s \in Seq(Cords)
  PROVE  /\ Woken(s) \in Seq(Cords)
         /\ ToSet(Woken(s)) = ToSet(s) \cap blocked
         /\ IsInjective(s) => IsInjective(Woken(s))
BY FilterElements DEF Woken

(* Where the cords are, and where they are not.                            *)
LEMMA WhereCordsAre ==
  ASSUME BraidInv
  PROVE  /\ 0 .. count - 1 \subseteq Cords
         /\ runable \in Seq(Cords) /\ IsInjective(runable)
         /\ ToSet(runable) \subseteq Cords
         /\ blocked \subseteq Cords
         /\ blocked \cap (zombies \cup freed) = {}
         /\ ToSet(runable) \cap (blocked \cup zombies \cup freed) = {}
         /\ phase = "running" =>
              /\ curr \in Cords
              /\ curr \notin ToSet(runable) \cup blocked \cup zombies \cup freed
         /\ 0 \in Cords
         /\ NULL \notin Cords
<1>1. count \in 0 .. MaxCords
  BY DEF BraidInv, TypeOK
<1>2. 0 .. count - 1 \subseteq Cords /\ NULL \notin Cords /\ 0 \in Cords
  BY <1>1, NullAssumption, MaxCordsAssumption DEF Cords
<1>3. /\ runable \in Seq(Cords) /\ IsInjective(runable) /\ blocked \subseteq Cords
      /\ blocked \cap (zombies \cup freed) = {}
      /\ ToSet(runable) \cap (blocked \cup zombies \cup freed) = {}
  BY DEF BraidInv, TypeOK, Accounted
<1>4. ToSet(runable) \subseteq 0 .. count - 1
  BY DEF BraidInv, Accounted
<1>5. phase = "running" => /\ curr \in 0 .. count - 1
                           /\ curr \notin ToSet(runable) \cup blocked \cup zombies \cup freed
  BY DEF BraidInv, Accounted, Running
<1> QED BY <1>2, <1>3, <1>4, <1>5

(* A row of braidunblock calls puts those it wakes behind the run queue.   *)
LEMMA WokenJoin ==
  ASSUME BraidInv, NEW s \in Seq(Cords), IsInjective(s)
  PROVE  /\ runable \o Woken(s) \in Seq(Cords)
         /\ IsInjective(runable \o Woken(s))
         /\ ToSet(runable \o Woken(s)) = ToSet(runable) \cup (ToSet(s) \cap blocked)
         /\ ToSet(Woken(s)) = ToSet(s) \cap blocked
<1>1. /\ Woken(s) \in Seq(Cords) /\ IsInjective(Woken(s))
      /\ ToSet(Woken(s)) = ToSet(s) \cap blocked
  BY WokenElements
<1>2. runable \in Seq(Cords) /\ IsInjective(runable) /\ ToSet(runable) \cap blocked = {}
  BY WhereCordsAre
<1>3. ToSet(runable) \cap ToSet(Woken(s)) = {}
  BY <1>1, <1>2
<1> QED BY <1>1, <1>2, <1>3, ConcatElements

(* schedule() keeps every cord in exactly one place, whatever the caller   *)
(* has stored for the cords it woke.                                       *)
LEMMA ScheduleAccounts ==
  ASSUME TypeOK,
         NEW q, NEW blk, NEW zom, NEW fre,
         Split(q, blk, zom, fre),
         Schedule(q, blk, zom, fre),
         UNCHANGED <<flags, count>>,
         val' \in [Cords -> Vals]
  PROVE  BraidInv'
<1>1. CASE KeepsRunning(q, blk) /\ SwitchTo(Head(q), Tail(q), blk, zom, fre)
  <2> DEFINE h == Head(q)
             t == Tail(q)
  <2>1. q # << >>
    BY <1>1 DEF KeepsRunning
  <2>2. /\ h \in Cords
        /\ t \in Seq(Cords)
        /\ ToSet(q) = {h} \cup ToSet(t)
        /\ IsInjective(t)
        /\ h \notin ToSet(t)
    BY <2>1, TailElements DEF Split
  <2>3. /\ phase' = "running" /\ curr' = h /\ runable' = t /\ blocked' = blk
        /\ started' = started \cup {h}
        /\ \/ zombies' = {} /\ freed' = fre \cup zom
           \/ zombies' = zom /\ freed' = fre
    BY <1>1 DEF SwitchTo
  <2> HIDE DEF h, t
  <2>4. TypeOK'
    BY <2>2, <2>3 DEF TypeOK, Split
  <2>5. Running' = {h}
    BY <2>3 DEF Running
  <2>6. Accounted'
    BY <2>2, <2>3, <2>5 DEF Accounted, Split
  <2> QED BY <2>3, <2>4, <2>6 DEF BraidInv, ClearedWhenDone, ShutdownJustified
<1>2. CASE ~KeepsRunning(q, blk) /\ ReturnToStart(q, blk, zom, fre)
  <2>1. /\ phase' = "returning" /\ runable' = q /\ blocked' = blk
        /\ zombies' = zom /\ freed' = fre /\ UNCHANGED <<curr, started>>
    BY <1>2 DEF ReturnToStart
  <2>2. TypeOK'
    BY <2>1 DEF TypeOK, Split
  <2>3. Running' = {}
    BY <2>1 DEF Running
  <2>4. Accounted'
    BY <2>1, <2>3 DEF Accounted, Split
  <2>5. ShutdownJustified'
    <3>1. CASE q = << >>
      BY <2>1, <3>1 DEF ShutdownJustified, HasNormal, ToSet
    <3>2. CASE q # << >>
      <4>1. ~HasNormal(q)
        BY <1>2, <3>2 DEF KeepsRunning
      <4> QED BY <2>1, <4>1 DEF ShutdownJustified, HasNormal
    <3> QED BY <3>1, <3>2
  <2> QED BY <2>1, <2>2, <2>4, <2>5 DEF BraidInv, ClearedWhenDone
<1> QED BY <1>1, <1>2 DEF Schedule

(* What schedule() leaves as it was told: the blocked cords, and the dead   *)
(* ones, whether it reaps them or not.                                     *)
LEMMA ScheduleLists ==
  ASSUME NEW q, NEW blk, NEW zom, NEW fre, Schedule(q, blk, zom, fre)
  PROVE  /\ blocked' = blk
         /\ zombies' \cup freed' = zom \cup fre
         /\ phase' \in {"running", "returning"}
         /\ phase' = "returning" => runable' = << >> \/ blocked' = {}
BY DEF Schedule, KeepsRunning, SwitchTo, ReturnToStart

-----------------------------------------------------------------------------
(* Every call keeps the invariant. *)
LEMMA AddKeepsInv ==
  ASSUME BraidInv, NEW fl \in Flags, Add(fl)
  PROVE  BraidInv'
<1>1. NextId = count
  BY NextIdIsCount DEF BraidInv
<1>2. /\ phase \in {"init", "running"}
      /\ count \in Cords
      /\ runable' = Append(runable, count)
      /\ flags' = [flags EXCEPT ![count] = fl]
      /\ count' = count + 1
      /\ UNCHANGED <<phase, curr, blocked, zombies, freed, started, val>>
  BY <1>1 DEF Add, Usable
<1>3. /\ runable \in Seq(Cords)
      /\ count \notin ToSet(runable)
      /\ IsInjective(runable)
  BY <1>2 DEF BraidInv, TypeOK, Accounted, Cords
<1>4. /\ runable' \in Seq(Cords)
      /\ ToSet(runable') = ToSet(runable) \cup {count}
      /\ IsInjective(runable')
  BY <1>2, <1>3, AppendElements
<1>5. count \in Nat /\ 0 .. count = (0 .. count - 1) \cup {count} /\ count \notin 0 .. count - 1
  BY <1>2 DEF Cords
<1>6. TypeOK'
  BY <1>2, <1>4, MaxCordsAssumption DEF BraidInv, TypeOK, Cords
<1>7. Running' = Running
  BY <1>2 DEF Running
<1>8. Accounted'
  <2>1. 0 .. count' - 1 = 0 .. count
    BY <1>2, <1>5
  <2>2. Running' \cup ToSet(runable') \cup blocked' \cup zombies' \cup freed' = 0 .. count' - 1
    BY <2>1, <1>2, <1>4, <1>5, <1>7 DEF BraidInv, Accounted
  <2>3. count \notin Running \cup ToSet(runable) \cup blocked \cup zombies \cup freed
    BY <1>5 DEF BraidInv, Accounted
  <2> QED BY <2>2, <2>3, <1>2, <1>4, <1>7 DEF BraidInv, Accounted
<1> QED BY <1>2, <1>6, <1>8 DEF BraidInv, ClearedWhenDone, ShutdownJustified

LEMMA UnblockKeepsInv ==
  ASSUME BraidInv, NEW c \in Cords, NEW v \in Vals, Unblock(c, v)
  PROVE  BraidInv'
<1>1. /\ phase \in {"init", "running"}
      /\ c \in blocked
      /\ blocked' = blocked \ {c}
      /\ val' = [val EXCEPT ![c] = v]
      /\ runable' = Append(runable, c)
      /\ UNCHANGED <<phase, curr, zombies, freed, started, flags, count>>
  BY DEF Unblock, Usable
<1>2. runable \in Seq(Cords) /\ IsInjective(runable) /\ c \notin ToSet(runable)
  BY <1>1 DEF BraidInv, TypeOK, Accounted
<1>3. /\ runable' \in Seq(Cords)
      /\ ToSet(runable') = ToSet(runable) \cup {c}
      /\ IsInjective(runable')
  BY <1>1, <1>2, AppendElements
<1>4. TypeOK'
  BY <1>1, <1>3 DEF BraidInv, TypeOK
<1>5. Running' = Running
  BY <1>1 DEF Running
<1>6. Accounted'
  BY <1>1, <1>3, <1>5 DEF BraidInv, Accounted
<1> QED BY <1>1, <1>4, <1>6 DEF BraidInv, ClearedWhenDone, ShutdownJustified

LEMMA HaltKeepsInv ==
  ASSUME BraidInv, NEW c \in Cords, Halt(c)
  PROVE  BraidInv'
<1>1. /\ phase \in {"init", "running"}
      /\ zombies' = zombies \cup {c}
      /\ UNCHANGED <<phase, curr, freed, started, flags, val, count>>
  BY DEF Halt, Usable, HaltRunable, HaltBlocked
<1>2. Running' = Running
  BY <1>1 DEF Running
<1>3. CASE HaltRunable(c)
  <2>1. PICK i \in DOMAIN runable : /\ runable[i] = c
                                    /\ runable' = RemoveAt(runable, i)
                                    /\ UNCHANGED blocked
    BY <1>3 DEF HaltRunable
  <2>2. /\ runable' \in Seq(Cords)
        /\ IsInjective(runable')
        /\ ToSet(runable') = ToSet(runable) \ {c}
    BY <2>1, RemoveAtElements DEF BraidInv, TypeOK, Accounted
  <2>3. c \in ToSet(runable)
    BY <2>1 DEF ToSet
  <2>4. TypeOK'
    BY <1>1, <2>1, <2>2 DEF BraidInv, TypeOK
  <2>5. Accounted'
    BY <1>1, <1>2, <2>1, <2>2, <2>3 DEF BraidInv, Accounted
  <2> QED BY <1>1, <2>4, <2>5 DEF BraidInv, ClearedWhenDone, ShutdownJustified
<1>4. CASE HaltBlocked(c)
  <2>1. c \in blocked /\ blocked' = blocked \ {c} /\ UNCHANGED runable
    BY <1>4 DEF HaltBlocked
  <2>2. TypeOK'
    BY <1>1, <2>1 DEF BraidInv, TypeOK
  <2>3. Accounted'
    BY <1>1, <1>2, <2>1 DEF BraidInv, Accounted
  <2> QED BY <1>1, <2>2, <2>3 DEF BraidInv, ClearedWhenDone, ShutdownJustified
<1> QED BY <1>3, <1>4 DEF Halt

LEMMA ReturnKeepsInv ==
  ASSUME BraidInv, Return
  PROVE  BraidInv'
<1>1. /\ phase = "returning"
      /\ phase' = "done"
      /\ runable' = << >>
      /\ blocked' = {}
      /\ zombies' = {}
      /\ freed' = freed \cup zombies \cup ToSet(runable) \cup blocked
      /\ UNCHANGED <<curr, started, flags, val, count>>
  BY DEF Return
<1>2. ToSet(runable') = {} /\ IsInjective(runable') /\ runable' \in Seq(Cords)
  BY <1>1 DEF ToSet, IsInjective
<1>3. ToSet(runable) \subseteq Cords
  BY DEF BraidInv, TypeOK, ToSet
<1>4. TypeOK'
  BY <1>1, <1>2, <1>3 DEF BraidInv, TypeOK
<1>5. Running = {} /\ Running' = {}
  BY <1>1 DEF Running
<1>6. Accounted'
  BY <1>1, <1>2, <1>5 DEF BraidInv, Accounted
<1> QED BY <1>1, <1>4, <1>6 DEF BraidInv, ClearedWhenDone, ShutdownJustified

(* What each of the calls that end in schedule() hands to it: every cord   *)
(* once, the dead stay dead, and the run queue is either dropped or keeps  *)
(* its order in front.                                                     *)
Handed(q, blk, zom, fre) ==
  /\ Split(q, blk, zom, fre)
  /\ Schedule(q, blk, zom, fre)
  /\ UNCHANGED <<flags, val, count>>
  /\ zombies \cup freed \subseteq zom \cup fre
  /\ q = << >> \/ \A i \in DOMAIN runable : i \in DOMAIN q /\ q[i] = runable[i]

LEMMA SwitchHands ==
  ASSUME BraidInv, Start \/ Yield \/ Block \/ Exit \/ Stop
  PROVE  \E q, blk, zom, fre : Handed(q, blk, zom, fre)
<1> USE DEF BraidInv
<1>1. /\ runable \in Seq(Cords)
      /\ IsInjective(runable)
      /\ ToSet(runable) \subseteq Cords
      /\ phase = "running" => curr \in Cords /\ Running = {curr}
      /\ phase = "init" => Running = {}
  <2>1. count \in 0 .. MaxCords
    BY DEF TypeOK
  <2>2. 0 .. count - 1 \subseteq Cords
    BY <2>1, MaxCordsAssumption DEF Cords
  <2> QED BY <2>2 DEF TypeOK, Accounted, Running, ToSet
<1>2. CASE Start
  <2>1. Split(runable, blocked, zombies, freed)
    BY <1>1, <1>2 DEF Start, Split, TypeOK, Accounted
  <2>2. Handed(runable, blocked, zombies, freed)
    BY <1>2, <2>1 DEF Start, Handed
  <2> QED BY <2>2
<1>3. CASE Yield
  <2> DEFINE q == Append(runable, curr)
  <2>1. /\ q \in Seq(Cords)
        /\ ToSet(q) = ToSet(runable) \cup {curr}
        /\ IsInjective(q)
    BY <1>1, <1>3, AppendElements DEF Yield, Accounted
  <2>2. \A i \in DOMAIN runable : i \in DOMAIN q /\ q[i] = runable[i]
    BY <1>1, <1>3, AppendProperties, LenProperties DEF Yield
  <2>3. Schedule(q, blocked, zombies, freed) /\ UNCHANGED <<flags, val, count>>
    BY <1>3 DEF Yield
  <2> HIDE DEF q
  <2>4. Split(q, blocked, zombies, freed)
    BY <1>1, <1>3, <2>1 DEF Yield, Split, TypeOK, Accounted
  <2>5. Handed(q, blocked, zombies, freed)
    BY <2>2, <2>3, <2>4 DEF Handed
  <2> QED BY <2>5
<1>4. CASE Block
  <2>1. Split(runable, blocked \cup {curr}, zombies, freed)
    BY <1>1, <1>4 DEF Block, Split, TypeOK, Accounted
  <2>2. Handed(runable, blocked \cup {curr}, zombies, freed)
    BY <1>4, <2>1 DEF Block, Handed
  <2> QED BY <2>2
<1>5. CASE Exit
  <2>1. Split(runable, blocked, zombies \cup {curr}, freed)
    BY <1>1, <1>5 DEF Exit, Split, TypeOK, Accounted
  <2>2. Handed(runable, blocked, zombies \cup {curr}, freed)
    BY <1>5, <2>1 DEF Exit, Handed
  <2> QED BY <2>2
<1>6. CASE Stop
  <2>1. << >> \in Seq(Cords) /\ ToSet(<< >>) = {} /\ IsInjective(<< >>)
    BY DEF ToSet, IsInjective
  <2>2. Split(<< >>, blocked, zombies \cup {curr}, freed \cup ToSet(runable))
    BY <1>1, <1>6, <2>1 DEF Stop, Split, TypeOK, Accounted
  <2>3. Handed(<< >>, blocked, zombies \cup {curr}, freed \cup ToSet(runable))
    BY <1>6, <2>2 DEF Stop, Handed
  <2> QED BY <2>3
<1> QED BY <1>2, <1>3, <1>4, <1>5, <1>6

LEMMA SwitchKeepsInv ==
  ASSUME BraidInv, Start \/ Yield \/ Block \/ Exit \/ Stop
  PROVE  BraidInv'
<1>1. PICK q, blk, zom, fre : Handed(q, blk, zom, fre)
  BY SwitchHands
<1>2. TypeOK /\ val' \in [Cords -> Vals]
  BY <1>1 DEF BraidInv, TypeOK, Handed
<1>3. Split(q, blk, zom, fre) /\ Schedule(q, blk, zom, fre) /\ UNCHANGED <<flags, count>>
  BY <1>1 DEF Handed
<1> QED BY <1>2, <1>3, ScheduleAccounts

LEMMA BraidInvInit == Init => BraidInv
<1> SUFFICES ASSUME Init PROVE BraidInv
  OBVIOUS
<1>1. ToSet(<< >>) = {} /\ IsInjective(<< >>) /\ << >> \in Seq(Cords)
  BY DEF ToSet, IsInjective
<1>2. TypeOK
  BY <1>1, MaxCordsAssumption, ValsAssumption DEF Init, TypeOK, Flags
<1>3. Running = {} /\ 0 .. count - 1 = {}
  BY DEF Init, Running
<1>4. Accounted
  BY <1>1, <1>3 DEF Init, Accounted
<1> QED BY <1>2, <1>4 DEF Init, BraidInv, ClearedWhenDone, ShutdownJustified

LEMMA BraidInvStep == BraidInv /\ [Next]_vars => BraidInv'
<1> SUFFICES ASSUME BraidInv, [Next]_vars PROVE BraidInv'
  OBVIOUS
<1>1. ASSUME NEW fl \in Flags, Add(fl) PROVE BraidInv'
  BY <1>1, AddKeepsInv
<1>2. CASE Start \/ Yield \/ Block \/ Exit \/ Stop
  BY <1>2, SwitchKeepsInv
<1>3. ASSUME NEW c \in Cords, NEW v \in Vals, Unblock(c, v) PROVE BraidInv'
  BY <1>3, UnblockKeepsInv
<1>4. ASSUME NEW c \in Cords, Halt(c) PROVE BraidInv'
  BY <1>4, HaltKeepsInv
<1>5. CASE Return
  BY <1>5, ReturnKeepsInv
<1>6. CASE UNCHANGED vars
  BY <1>6 DEF vars, BraidInv, TypeOK, Accounted, Running, ClearedWhenDone,
              ShutdownJustified, HasNormal
<1> QED BY <1>1, <1>2, <1>3, <1>4, <1>5, <1>6 DEF Next, Terminated

(* The inductive invariant holds of every behaviour of the scheduler.      *)
THEOREM BraidInvariant == Spec => []BraidInv
<1> QED BY BraidInvInit, BraidInvStep, PTL DEF Spec

(* The scheduler's state is always well formed.                            *)
THEOREM TypeCorrect == Spec => []TypeOK
<1>1. BraidInv => TypeOK
  BY DEF BraidInv
<1> QED BY <1>1, BraidInvariant, PTL

(* A cord is never lost, duplicated, run after its release or released     *)
(* twice.                                                                  *)
THEOREM CordsAccounted == Spec => []Accounted
<1>1. BraidInv => Accounted
  BY DEF BraidInv
<1> QED BY <1>1, BraidInvariant, PTL

(* When braidstart returns, the memory of every cord has been released.    *)
THEOREM NothingLeaksEver == Spec => []NothingLeaks
<1>1. BraidInv => NothingLeaks
  <2> SUFFICES ASSUME BraidInv, phase = "done" PROVE freed = 0 .. count - 1
    BY DEF NothingLeaks
  <2>1. Running = {} /\ ToSet(runable) = {} /\ blocked = {} /\ zombies = {}
    BY DEF BraidInv, ClearedWhenDone, Running, ToSet
  <2> QED BY <2>1 DEF BraidInv, Accounted
<1> QED BY <1>1, BraidInvariant, PTL

(* The scheduler gives up only when no normal cord is runnable.            *)
THEOREM ShutdownIsJustified == Spec => []ShutdownJustified
<1>1. BraidInv => ShutdownJustified
  BY DEF BraidInv
<1> QED BY <1>1, BraidInvariant, PTL

-----------------------------------------------------------------------------
(* The action properties of the lists. *)

(* No step revives a dead cord or gives it the processor.                  *)
LEMMA DeathStep ==
  ASSUME BraidInv, [Next]_vars, NEW c \in zombies \cup freed
  PROVE  /\ c \in zombies' \cup freed'
         /\ phase' = "running" => curr' # c
<1> USE DEF BraidInv
<1>1. CASE Start \/ Yield \/ Block \/ Exit \/ Stop
  <2>1. PICK q, blk, zom, fre : Handed(q, blk, zom, fre)
    BY <1>1, SwitchHands
  <2>2. CASE KeepsRunning(q, blk) /\ SwitchTo(Head(q), Tail(q), blk, zom, fre)
    <3>1. Head(q) \in ToSet(q)
      BY <2>1, <2>2, TailElements DEF Handed, Split, KeepsRunning
    <3> QED BY <2>1, <2>2, <3>1 DEF Handed, Split, SwitchTo
  <2>3. CASE ReturnToStart(q, blk, zom, fre)
    BY <2>1, <2>3 DEF Handed, ReturnToStart
  <2> QED BY <2>1, <2>2, <2>3 DEF Handed, Schedule
<1>2. CASE \/ \E fl \in Flags : Add(fl)
           \/ \E d \in Cords, v \in Vals : Unblock(d, v)
           \/ \E d \in Cords : Halt(d)
  <2>1. /\ UNCHANGED <<phase, curr, freed>>
        /\ zombies \subseteq zombies'
    BY <1>2 DEF Add, Unblock, Halt, HaltRunable, HaltBlocked
  <2> QED BY <2>1 DEF Accounted, Running
<1>3. CASE Return
  BY <1>3 DEF Return
<1>4. CASE UNCHANGED vars
  BY <1>4 DEF vars, Accounted, Running
<1> QED BY <1>1, <1>2, <1>3, <1>4 DEF Next, Terminated

(* A cord that was halted, exited or was released never runs again.        *)
THEOREM DeathIsFinalEver == Spec => DeathIsFinal
<1>1. BraidInv /\ [Next]_vars =>
        [\A c \in zombies \cup freed :
           /\ c \in zombies' \cup freed'
           /\ phase' = "running" => curr' # c]_vars
  BY DeathStep
<1> QED BY <1>1, BraidInvariant, PTL DEF Spec, DeathIsFinal

(* Only the braidunblock that wakes a cord sets the value it wakes with.   *)
THEOREM FirstWakeWinsEver == Spec => FirstWakeWins
<1>1. BraidInv /\ [Next]_vars =>
        [\A c \in Cords : val'[c] # val[c] => c \in blocked /\ c \in ToSet(runable')]_vars
  <2> SUFFICES ASSUME BraidInv, [Next]_vars, NEW c \in Cords, val'[c] # val[c]
               PROVE  c \in blocked /\ c \in ToSet(runable')
    OBVIOUS
  <2> USE DEF BraidInv
  <2>1. PICK d \in Cords, v \in Vals : Unblock(d, v)
    BY DEF Next, vars, Terminated, Add, Start, Yield, Block, Exit, Stop, Halt, Return
  <2>2. d = c
    BY <2>1 DEF Unblock, TypeOK
  <2>3. c \in ToSet(runable')
    BY <2>1, <2>2, AppendElements DEF Unblock, TypeOK
  <2> QED BY <2>1, <2>2, <2>3 DEF Unblock
<1> QED BY <1>1, BraidInvariant, PTL DEF Spec, FirstWakeWins

(* A waiting cord is never pushed back, and advances at every switch.      *)
LEMMA QueueStep ==
  ASSUME BraidInv, [Next]_vars, NEW i \in DOMAIN runable,
         runable[i] \in ToSet(runable')
  PROVE  \E j \in 1 .. i : /\ runable'[j] = runable[i]
                           /\ curr' # curr => j < i
<1> USE DEF BraidInv
<1>1. /\ runable \in Seq(Cords)
      /\ IsInjective(runable)
      /\ DOMAIN runable = 1 .. Len(runable)
      /\ Len(runable) \in Nat
      /\ i \in 1 .. Len(runable)
  BY LenProperties DEF TypeOK, Accounted
<1>2. CASE Start \/ Yield \/ Block \/ Exit \/ Stop
  <2>1. PICK q, blk, zom, fre : Handed(q, blk, zom, fre)
    BY <1>2, SwitchHands
  <2>2. CASE KeepsRunning(q, blk) /\ SwitchTo(Head(q), Tail(q), blk, zom, fre)
    <3>1. q \in Seq(Cords) /\ q # << >> /\ runable' = Tail(q)
      BY <2>1, <2>2 DEF Handed, Split, KeepsRunning, SwitchTo
    <3>2. i \in DOMAIN q /\ q[i] = runable[i]
      BY <2>1, <3>1 DEF Handed
    <3>3. /\ Len(Tail(q)) = Len(q) - 1
          /\ \A j \in 1 .. Len(Tail(q)) : Tail(q)[j] = q[j + 1]
          /\ DOMAIN q = 1 .. Len(q)
          /\ Len(q) \in Nat
      BY <3>1, HeadTailProperties, LenProperties
    <3>4. i # 1
      <4>1. Head(q) \notin ToSet(Tail(q)) /\ Head(q) = q[1]
        BY <2>1, <3>1, TailElements DEF Handed, Split
      <4> QED BY <4>1, <3>1, <3>2
    <3>5. i - 1 \in 1 .. Len(Tail(q))
      BY <1>1, <3>2, <3>3, <3>4
    <3>6. runable'[i - 1] = runable[i]
      BY <1>1, <3>1, <3>2, <3>3, <3>5
    <3>7. i - 1 \in 1 .. i /\ i - 1 < i
      BY <1>1, <3>5
    <3> QED BY <3>6, <3>7
  <2>3. CASE ReturnToStart(q, blk, zom, fre)
    <3>1. q # << >>
      BY <2>3 DEF ReturnToStart, ToSet
    <3> QED BY <1>1, <2>1, <2>3, <3>1 DEF Handed, ReturnToStart
  <2> QED BY <2>1, <2>2, <2>3 DEF Handed, Schedule
<1>3. CASE \/ \E fl \in Flags : Add(fl)
           \/ \E d \in Cords, v \in Vals : Unblock(d, v)
  <2>1. PICK c \in Cords : runable' = Append(runable, c) /\ curr' = curr
    BY <1>3 DEF Add, Unblock
  <2>2. runable'[i] = runable[i]
    BY <1>1, <2>1, AppendProperties
  <2> QED BY <1>1, <2>1, <2>2
<1>4. CASE \E d \in Cords : Halt(d)
  <2>1. curr' = curr
    BY <1>4 DEF Halt
  <2>2. CASE UNCHANGED runable
    BY <1>1, <2>1, <2>2
  <2>3. CASE \E k \in DOMAIN runable : runable' = RemoveAt(runable, k)
    <3>1. PICK k \in DOMAIN runable : runable' = RemoveAt(runable, k)
      BY <2>3
    <3>2. \A j \in 1 .. Len(runable) - 1 :
            runable'[j] = IF j < k THEN runable[j] ELSE runable[j + 1]
      BY <1>1, <3>1, RemoveAtShape
    <3>3. i # k
      BY <1>1, <3>1, RemoveAtElements
    <3>4. CASE i < k
      <4>1. i \in 1 .. Len(runable) - 1
        BY <1>1, <3>1, <3>4
      <4> QED BY <1>1, <2>1, <3>2, <3>4, <4>1
    <3>5. CASE i > k
      <4>1. i - 1 \in 1 .. Len(runable) - 1 /\ ~(i - 1 < k) /\ i - 1 \in 1 .. i
        BY <1>1, <3>1, <3>5
      <4>2. runable'[i - 1] = runable[i]
        BY <1>1, <3>2, <4>1
      <4> QED BY <2>1, <4>1, <4>2
    <3> QED BY <1>1, <3>1, <3>3, <3>4, <3>5
  <2> QED BY <1>4, <2>2, <2>3 DEF Halt, HaltRunable, HaltBlocked
<1>5. CASE Return
  BY <1>5 DEF Return, ToSet
<1>6. CASE UNCHANGED vars
  BY <1>1, <1>6 DEF vars
<1> QED BY <1>2, <1>3, <1>4, <1>5, <1>6 DEF Next, Terminated

(* The run queue is first in, first out.                                   *)
THEOREM QueueAdvancesEver == Spec => QueueAdvances
<1>1. BraidInv /\ [Next]_vars =>
        [\A i \in DOMAIN runable :
           runable[i] \in ToSet(runable') =>
             \E j \in 1 .. i : /\ runable'[j] = runable[i]
                               /\ curr' # curr => j < i]_vars
  BY QueueStep
<1> QED BY <1>1, BraidInvariant, PTL DEF Spec, QueueAdvances

-----------------------------------------------------------------------------
(* The refinement of CordLifecycle. *)

(* schedule() passes the processor on to a cord of the queue it is given,  *)
(* or gives up.                                                            *)
LEMMA SchedulePassesOn ==
  ASSUME phase \in {"init", "running"},
         NEW q, NEW blk, NEW zom, NEW fre,
         Split(q, blk, zom, fre),
         Schedule(q, blk, zom, fre)
  PROVE  /\ Life!PassOn(ToSet(q))
         /\ blocked' = blk
         /\ zombies' \cup freed' = zom \cup fre
<1>1. CASE KeepsRunning(q, blk) /\ SwitchTo(Head(q), Tail(q), blk, zom, fre)
  <2>1. /\ ToSet(q) = {Head(q)} \cup ToSet(Tail(q))
        /\ Head(q) \notin ToSet(Tail(q))
    BY <1>1, TailElements DEF KeepsRunning, Split
  <2>2. /\ phase' = "running" /\ curr' = Head(q) /\ runable' = Tail(q)
        /\ blocked' = blk
        /\ zombies' \cup freed' = zom \cup fre
    BY <1>1 DEF SwitchTo
  <2>3. Running' = {Head(q)} /\ ToSet(runable)' = ToSet(q) \ {Head(q)} /\ Head(q) \in ToSet(q)
    BY <2>1, <2>2 DEF Running
  <2> QED BY <2>2, <2>3 DEF Life!PassOn
<1>2. CASE ReturnToStart(q, blk, zom, fre)
  <2>1. Running' = {}
    BY <1>2 DEF ReturnToStart, Running
  <2> QED BY <1>2, <2>1 DEF ReturnToStart, Life!PassOn
<1> QED BY <1>1, <1>2 DEF Schedule

LEMMA LifecycleStep ==
  ASSUME BraidInv, [Next]_vars
  PROVE  [Life!LifeNext]_Life!lifeVars
<1> USE DEF BraidInv
<1>1. /\ runable \in Seq(Cords)
      /\ phase = "running" => Running = {curr}
      /\ phase # "running" => Running = {}
      /\ phase = "running" => curr \in Cords
  BY MaxCordsAssumption DEF TypeOK, Accounted, Running, Cords
<1>2. ASSUME NEW fl \in Flags, Add(fl) PROVE Life!LifeNext
  <2>1. NextId = count /\ count \in Cords /\ runable' = Append(runable, count)
        /\ UNCHANGED <<phase, curr, blocked, zombies, freed>>
        /\ phase \in {"init", "running"}
    BY <1>2, NextIdIsCount DEF Add, Usable
  <2>2. ToSet(runable)' = ToSet(runable) \cup {count} /\ Running' = Running
    BY <1>1, <2>1, AppendElements DEF Running
  <2>3. count \notin 0 .. count - 1
    BY <2>1 DEF Cords
  <2>4. count \notin ToSet(runable) \cup Running \cup blocked \cup (zombies \cup freed)
    BY <2>3 DEF Accounted
  <2>5. Life!Born(count)
    BY <2>1, <2>2, <2>4 DEF Life!Born
  <2> QED BY <2>1, <2>5 DEF Life!LifeNext
<1>3. CASE Start
  <2>1. Split(runable, blocked, zombies, freed)
    BY <1>1, <1>3 DEF Start, Split, TypeOK, Accounted
  <2>2. Life!PassOn(ToSet(runable)) /\ blocked' = blocked /\ zombies' \cup freed' = zombies \cup freed
    BY <1>3, <2>1, SchedulePassesOn DEF Start
  <2>3. Running = {}
    BY <1>1, <1>3 DEF Start
  <2>4. Life!Yielded
    BY <2>2, <2>3 DEF Life!Yielded
  <2> QED BY <2>4 DEF Life!LifeNext
<1>4. CASE Yield
  <2>1. /\ Append(runable, curr) \in Seq(Cords)
        /\ ToSet(Append(runable, curr)) = ToSet(runable) \cup Running
        /\ IsInjective(Append(runable, curr))
    BY <1>1, <1>4, AppendElements DEF Yield, Accounted
  <2>2. Split(Append(runable, curr), blocked, zombies, freed)
    BY <1>1, <1>4, <2>1 DEF Yield, Split, TypeOK, Accounted
  <2>3. /\ Life!PassOn(ToSet(Append(runable, curr)))
        /\ blocked' = blocked
        /\ zombies' \cup freed' = zombies \cup freed
    BY <1>4, <2>2, SchedulePassesOn DEF Yield
  <2>4. Life!Yielded
    BY <2>1, <2>3 DEF Life!Yielded
  <2> QED BY <2>4 DEF Life!LifeNext
<1>5. CASE Block
  <2>1. Split(runable, blocked \cup {curr}, zombies, freed)
    BY <1>1, <1>5 DEF Block, Split, TypeOK, Accounted
  <2>2. /\ Life!PassOn(ToSet(runable))
        /\ blocked' = blocked \cup Running
        /\ zombies' \cup freed' = zombies \cup freed
    BY <1>1, <1>5, <2>1, SchedulePassesOn DEF Block
  <2>3. Life!Waits
    BY <2>2 DEF Life!Waits
  <2> QED BY <2>3 DEF Life!LifeNext
<1>6. CASE Exit
  <2>1. Split(runable, blocked, zombies \cup {curr}, freed)
    BY <1>1, <1>6 DEF Exit, Split, TypeOK, Accounted
  <2>2. /\ Life!PassOn(ToSet(runable))
        /\ blocked' = blocked
        /\ zombies' \cup freed' = (zombies \cup freed) \cup Running
    BY <1>1, <1>6, <2>1, SchedulePassesOn DEF Exit
  <2>3. Life!Dies
    BY <2>2 DEF Life!Dies
  <2> QED BY <2>3 DEF Life!LifeNext
<1>7. CASE Stop
  <2>1. << >> \in Seq(Cords) /\ ToSet(<< >>) = {} /\ IsInjective(<< >>)
    BY DEF ToSet, IsInjective
  <2>2. ToSet(runable) \subseteq Cords
    BY <1>1 DEF ToSet
  <2>3. Split(<< >>, blocked, zombies \cup {curr}, freed \cup ToSet(runable))
    BY <1>1, <1>7, <2>1, <2>2 DEF Stop, Split, TypeOK, Accounted
  <2>4. /\ Life!PassOn(ToSet(<< >>))
        /\ blocked' = blocked
        /\ zombies' \cup freed' = (zombies \cup {curr}) \cup (freed \cup ToSet(runable))
    BY <1>7, <2>3, SchedulePassesOn DEF Stop
  <2>5. Running = {curr}
    BY <1>1, <1>7 DEF Stop
  <2>6. Life!StopsAll
    BY <2>1, <2>4, <2>5 DEF Life!StopsAll
  <2> QED BY <2>6 DEF Life!LifeNext
<1>8. ASSUME NEW c \in Cords, NEW v \in Vals, Unblock(c, v) PROVE Life!LifeNext
  <2>1. /\ phase \in {"init", "running"} /\ c \in blocked /\ blocked' = blocked \ {c}
        /\ runable' = Append(runable, c)
        /\ UNCHANGED <<phase, curr, zombies, freed>>
    BY <1>8 DEF Unblock, Usable
  <2>2. ToSet(runable)' = ToSet(runable) \cup {c} /\ Running' = Running
    BY <1>1, <2>1, AppendElements DEF Running
  <2>3. Life!Wake(c)
    BY <2>1, <2>2 DEF Life!Wake
  <2> QED BY <2>3 DEF Life!LifeNext
<1>9. ASSUME NEW c \in Cords, Halt(c) PROVE Life!LifeNext
  <2>1. /\ phase \in {"init", "running"}
        /\ UNCHANGED <<phase, curr, freed>>
        /\ zombies' = zombies \cup {c}
    BY <1>9 DEF Halt, Usable, HaltRunable, HaltBlocked
  <2>2. /\ c \in ToSet(runable) \cup blocked
        /\ ToSet(runable)' = ToSet(runable) \ {c}
        /\ blocked' = blocked \ {c}
    <3>1. CASE HaltRunable(c)
      <4>1. PICK i \in DOMAIN runable : /\ runable[i] = c
                                        /\ runable' = RemoveAt(runable, i)
                                        /\ UNCHANGED blocked
        BY <3>1 DEF HaltRunable
      <4>2. c \in ToSet(runable) /\ c \notin blocked
        BY <4>1 DEF ToSet, Accounted
      <4>3. ToSet(runable') = ToSet(runable) \ {c}
        BY <1>1, <4>1, RemoveAtElements DEF Accounted
      <4> QED BY <4>1, <4>2, <4>3
    <3>2. CASE HaltBlocked(c)
      BY <3>2 DEF HaltBlocked
    <3> QED BY <1>9, <3>1, <3>2 DEF Halt
  <2>3. Running' = Running
    BY <2>1 DEF Running
  <2>4. Life!Kill(c)
    BY <2>1, <2>2, <2>3 DEF Life!Kill
  <2> QED BY <2>4 DEF Life!LifeNext
<1>10. CASE Return
  <2>1. /\ phase = "returning" /\ phase' = "done" /\ runable' = << >> /\ blocked' = {}
        /\ zombies' = {} /\ freed' = freed \cup zombies \cup ToSet(runable) \cup blocked
    BY <1>10 DEF Return
  <2>2. ToSet(runable)' = {} /\ Running' = Running
    BY <2>1 DEF ToSet, Running
  <2>3. Life!CleanUp
    BY <2>1, <2>2 DEF Life!CleanUp
  <2> QED BY <2>3 DEF Life!LifeNext
<1>11. CASE UNCHANGED vars
  BY <1>11 DEF vars, Life!lifeVars, Running
<1> QED BY <1>2, <1>3, <1>4, <1>5, <1>6, <1>7, <1>8, <1>9, <1>10, <1>11 DEF Next, Terminated

(* The scheduler implements the life of a cord.                            *)
THEOREM BraidImplementsLifecycle == Spec => ImplementsLifecycle
<1>1. Init => Life!LifeInit
  BY DEF Init, Life!LifeInit, Running, ToSet
<1>2. BraidInv /\ [Next]_vars => [Life!LifeNext]_Life!lifeVars
  BY LifecycleStep
<1> QED BY <1>1, <1>2, BraidInvariant, PTL DEF Spec, ImplementsLifecycle, Life!LifeSpec
=============================================================================
