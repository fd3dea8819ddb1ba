----------------------------- MODULE QueueLemmas -----------------------------
(***************************************************************************)
(* Facts about the lists and queues of the code: sequences without         *)
(* repetitions, the sets of their elements, and what joining sequences one *)
(* after the other yields.                                                 *)
(***************************************************************************)
EXTENDS Integers, Functions, SequenceTheorems, WellFoundedInduction, TLAPS

(* Putting a new element at the front of a list adds it and repeats        *)
(* nothing (lru_list_.push_front in RecordAccess).                         *)
LEMMA PushFrontProperties ==
  ASSUME NEW S, NEW s \in Seq(S), IsInjective(s), NEW f \in S, f \notin Range(s)
  PROVE  /\ <<f>> \o s \in Seq(S)
         /\ IsInjective(<<f>> \o s)
         /\ Range(<<f>> \o s) = Range(s) \cup {f}
<1> DEFINE e == <<f>> \o s
<1>1. Len(s) \in Nat /\ DOMAIN s = 1..Len(s)
  BY LenProperties
<1>2. <<f>> \in Seq(S) /\ Len(<<f>>) = 1 /\ <<f>>[1] = f
  OBVIOUS
<1>3. /\ e \in Seq(S) /\ Len(e) = 1 + Len(s)
      /\ \A i \in 1..(1 + Len(s)) : e[i] = IF i <= 1 THEN <<f>>[i] ELSE s[i - 1]
  BY <1>2, ConcatProperties
<1> HIDE DEF e
<1>4. e[1] = f /\ \A i \in 2..(1 + Len(s)) : e[i] = s[i - 1] /\ (i - 1) \in 1..Len(s)
  BY <1>1, <1>2, <1>3
<1>5. \A i \in 1..Len(s) : s[i] # f
  BY <1>1 DEF Range
<1>6. ASSUME NEW i \in 1..(1 + Len(s)), NEW j \in 1..(1 + Len(s)), e[i] = e[j]
      PROVE  i = j
  <2>1. CASE i = 1 \/ j = 1
    BY <1>1, <1>4, <1>5, <1>6, <2>1
  <2>2. CASE i \in 2..(1 + Len(s)) /\ j \in 2..(1 + Len(s))
    <3>1. i - 1 = j - 1
      BY <1>4, <1>6, <2>2 DEF IsInjective
    <3> QED BY <3>1, <2>2
  <2> QED BY <2>1, <2>2, <1>1
<1>7. DOMAIN e = 1..(1 + Len(s))
  BY <1>3, LenProperties
<1>8. Range(e) \subseteq Range(s) \cup {f}
  BY <1>1, <1>4, <1>7 DEF Range
<1>9. ASSUME NEW x \in Range(s) PROVE x \in Range(e)
  <2>1. PICK i \in 1..Len(s) : x = s[i]
    BY <1>1 DEF Range
  <2>2. (i + 1) \in 2..(1 + Len(s)) /\ (i + 1) - 1 = i
    BY <1>1
  <2>3. e[i + 1] = x /\ (i + 1) \in DOMAIN e
    BY <2>1, <2>2, <1>1, <1>4, <1>7
  <2> QED BY <2>3 DEF Range
<1>10. f \in Range(e)
  BY <1>1, <1>4, <1>7 DEF Range
<1> QED BY <1>3, <1>6, <1>8, <1>9, <1>10 DEF IsInjective, e

(* Popping the front of a list without repetitions removes that element    *)
(* (free_list_.pop_front in GetFreeFrame, tasks_.pop in the worker loop).  *)
LEMMA TailProperties ==
  ASSUME NEW S, NEW s \in Seq(S), s # << >>, IsInjective(s)
  PROVE  /\ Tail(s) \in Seq(S) /\ IsInjective(Tail(s)) /\ Len(Tail(s)) = Len(s) - 1
         /\ Range(Tail(s)) = Range(s) \ {Head(s)}
<1> DEFINE t == Tail(s)
<1>1. /\ t \in Seq(S) /\ Len(t) = Len(s) - 1
      /\ \A i \in 1..Len(t) : t[i] = s[i + 1]
  BY HeadTailProperties
<1>2. /\ Len(s) \in Nat \ {0} /\ DOMAIN s = 1..Len(s) /\ DOMAIN t = 1..Len(t)
      /\ Head(s) = s[1]
  BY <1>1, EmptySeq, LenProperties
<1> HIDE DEF t
<1>3. IsInjective(t)
  BY <1>1, <1>2 DEF IsInjective
<1>4. ASSUME NEW x \in Range(t) PROVE x \in Range(s) \ {Head(s)}
  <2>1. PICK i \in 1..Len(t) : x = t[i]
    BY <1>2 DEF Range
  <2>2. (i + 1) \in DOMAIN s /\ i + 1 # 1 /\ 1 \in DOMAIN s /\ x = s[i + 1]
    BY <2>1, <1>1, <1>2
  <2> QED BY <2>2, <1>2 DEF Range, IsInjective
<1>5. ASSUME NEW x \in Range(s) \ {Head(s)} PROVE x \in Range(t)
  <2>1. PICK i \in 2..Len(s) : x = s[i]
    BY <1>2 DEF Range
  <2>2. (i - 1) \in DOMAIN t /\ t[i - 1] = x
    BY <2>1, <1>1, <1>2
  <2> QED BY <2>2 DEF Range
<1> QED BY <1>1, <1>3, <1>4, <1>5 DEF t

(* Appending an element that does not occur keeps a list free of           *)
(* repetitions (free_list_.push_back in DeletePage, tasks_.push in Submit). *)
LEMMA AppendKeepsInjective ==
  ASSUME NEW S, NEW s \in Seq(S), NEW f \in S, f \notin Range(s), IsInjective(s)
  PROVE  /\ Append(s, f) \in Seq(S) /\ IsInjective(Append(s, f))
         /\ Len(Append(s, f)) = Len(s) + 1
         /\ Range(Append(s, f)) = Range(s) \cup {f}
<1> DEFINE t == Append(s, f)
<1>1. /\ t \in Seq(S) /\ Len(t) = Len(s) + 1
      /\ \A i \in 1..Len(s) : t[i] = s[i]
      /\ t[Len(s) + 1] = f
  BY AppendProperties
<1>2. Len(s) \in Nat /\ DOMAIN s = 1..Len(s) /\ DOMAIN t = 1..(Len(s) + 1)
  BY <1>1, LenProperties
<1> HIDE DEF t
<1>3. \A i \in 1..Len(s) : s[i] # f
  BY <1>2 DEF Range
<1>4. IsInjective(t)
  BY <1>1, <1>2, <1>3 DEF IsInjective
<1>5. Range(t) = Range(s) \cup {f}
  BY <1>1, <1>2 DEF Range
<1> QED BY <1>1, <1>4, <1>5 DEF t

(* Appending adds one element (inserted tuples, the results of Lookup).    *)
LEMMA AppendRange ==
  ASSUME NEW S, NEW s \in Seq(S), NEW f \in S
  PROVE  Range(Append(s, f)) = Range(s) \cup {f}
<1> DEFINE t == Append(s, f)
<1>1. /\ t \in Seq(S) /\ Len(t) = Len(s) + 1
      /\ \A i \in 1..Len(s) : t[i] = s[i]
      /\ t[Len(s) + 1] = f
  BY AppendProperties
<1>2. Len(s) \in Nat /\ DOMAIN s = 1..Len(s) /\ DOMAIN t = 1..(Len(s) + 1)
  BY <1>1, LenProperties
<1> HIDE DEF t
<1>3. Range(t) = Range(s) \cup {f}
  BY <1>1, <1>2 DEF Range
<1> QED BY <1>3 DEF t

(* The elements of a concatenation are those of its two parts, and it      *)
(* repeats none if neither part does and they have none in common.         *)
LEMMA ConcatRange ==
  ASSUME NEW S, NEW a \in Seq(S), NEW b \in Seq(S)
  PROVE  /\ a \o b \in Seq(S) /\ Range(a \o b) = Range(a) \cup Range(b)
         /\ IsInjective(a) /\ IsInjective(b) /\ Range(a) \cap Range(b) = {} => IsInjective(a \o b)
<1>1. /\ a \o b \in Seq(S) /\ Len(a \o b) = Len(a) + Len(b)
      /\ \A i \in 1..(Len(a) + Len(b)) : (a \o b)[i] = IF i <= Len(a) THEN a[i] ELSE b[i - Len(a)]
  BY ConcatProperties
<1>2. /\ Len(a) \in Nat /\ DOMAIN a = 1..Len(a) /\ Len(b) \in Nat /\ DOMAIN b = 1..Len(b)
      /\ DOMAIN (a \o b) = 1..(Len(a) + Len(b))
  BY <1>1, LenProperties
<1> DEFINE ab == a \o b
<1> HIDE DEF ab
<1>3. \A i \in DOMAIN a : i \in DOMAIN ab /\ ab[i] = a[i]
  BY <1>1, <1>2 DEF ab
<1>4. \A i \in DOMAIN b : i + Len(a) \in DOMAIN ab /\ ab[i + Len(a)] = b[i]
  BY <1>1, <1>2 DEF ab
<1>5. \A i \in DOMAIN ab : \/ i \in DOMAIN a /\ ab[i] = a[i]
                           \/ i \notin DOMAIN a /\ (i - Len(a)) \in DOMAIN b /\ ab[i] = b[i - Len(a)]
  BY <1>1, <1>2 DEF ab
<1>6. Range(ab) = Range(a) \cup Range(b)
  BY <1>3, <1>4, <1>5 DEF Range
<1>7. ASSUME IsInjective(a), IsInjective(b), Range(a) \cap Range(b) = {}
      PROVE  IsInjective(ab)
  <2> SUFFICES ASSUME NEW i \in DOMAIN ab, NEW j \in DOMAIN ab, ab[i] = ab[j] PROVE i = j
    BY DEF IsInjective
  <2>1. \A k \in DOMAIN a, l \in DOMAIN b : a[k] # b[l]
    BY <1>7 DEF Range
  <2>2. CASE i \in DOMAIN a <=> j \in DOMAIN a
    <3>1. CASE i \in DOMAIN a
      BY <1>5, <1>7, <2>2, <3>1 DEF IsInjective
    <3>2. CASE i \notin DOMAIN a
      <4>1. i - Len(a) = j - Len(a)
        BY <1>5, <1>7, <2>2, <3>2 DEF IsInjective
      <4>2. i \in Int /\ j \in Int
        BY <1>2 DEF ab
      <4> QED BY <4>1, <4>2, <1>2
    <3> QED BY <3>1, <3>2
  <2>3. CASE ~(i \in DOMAIN a <=> j \in DOMAIN a)
    BY <1>5, <2>1, <2>3
  <2> QED BY <2>2, <2>3
<1> QED BY <1>1, <1>6, <1>7 DEF ab

(* A sequence of elements of a set is a sequence over that set. *)
LEMMA RangeType ==
  ASSUME NEW S, NEW s \in Seq(S), NEW R, Range(s) \subseteq R
  PROVE  s \in Seq(R)
<1>1. \A i \in 1..Len(s) : s[i] \in R
  BY DEF Range
<1> QED BY <1>1

(* A set of natural numbers that is not empty has a least element.         *)
LEMMA LeastElement ==
  ASSUME NEW T \in SUBSET Nat, T # {}
  PROVE  \E m \in T : \A n \in T : m <= n
<1> DEFINE R == {ss \in Nat \X Nat : ss[1] < ss[2]}
<1>1. R = OpToRel(<, Nat)
  BY DEF OpToRel
<1>2. IsWellFoundedOn(R, Nat)
  BY <1>1, NatLessThanWellFounded
<1>3. PICK m \in T : \A n \in T : ~(<<n, m>> \in R)
  <2> HIDE DEF R
  <2> QED BY <1>2, WFMin
<1>4. \A n \in T : ~(n < m)
  BY <1>3
<1>5. m \in Nat /\ \A n \in T : n \in Nat
  OBVIOUS
<1> QED BY <1>4, <1>5

(* f[k] is the first k of the sequences ss, one after the other: how the   *)
(* results of the tasks are put together (Merged).                         *)
Joins(ss, n, f) == f = [k \in 0..n |-> IF k = 0 THEN << >> ELSE f[k - 1] \o ss[k]]

LEMMA JoinsExists ==
  ASSUME NEW n \in Nat, NEW ss
  PROVE  \E f : Joins(ss, n, f)
<1> DEFINE T == {k \in 0..n : ~ \E f : Joins(ss, k, f)}
<1> SUFFICES ASSUME T # {} PROVE FALSE
  OBVIOUS
<1>1. PICK k \in T : \A l \in T : k <= l
  <2>1. T \in SUBSET Nat
    OBVIOUS
  <2> HIDE DEF T
  <2> QED BY <2>1, LeastElement
<1>2. k \in 0..n /\ k \in Nat
  OBVIOUS
<1>3. CASE k = 0
  <2> DEFINE f == [i \in 0..0 |-> << >>]
  <2>1. Joins(ss, 0, f)
    BY DEF Joins
  <2> QED BY <2>1, <1>3
<1>4. CASE k # 0
  <2>1. k - 1 \in 0..n /\ ~(k <= k - 1)
    BY <1>2, <1>4
  <2>2. PICK g : Joins(ss, k - 1, g)
    BY <1>1, <2>1
  <2> DEFINE f == [i \in 0..k |-> IF i = k THEN g[k - 1] \o ss[k] ELSE g[i]]
  <2>3. ASSUME NEW i \in 0..k
        PROVE  f[i] = IF i = 0 THEN << >> ELSE f[i - 1] \o ss[i]
    <3>1. \A j \in 0..(k - 1) : g[j] = IF j = 0 THEN << >> ELSE g[j - 1] \o ss[j]
      BY <2>2 DEF Joins
    <3>2. CASE i = k
      <4>1. k \in 0..k /\ k - 1 \in 0..k /\ k - 1 # k
        BY <1>2, <1>4
      <4>2. f[k] = g[k - 1] \o ss[k] /\ f[k - 1] = g[k - 1]
        BY <4>1
      <4> HIDE DEF f
      <4> QED BY <4>2, <3>2, <1>4
    <3>3. CASE i # k /\ i # 0
      <4>1. i \in 0..(k - 1) /\ i - 1 \in 0..k /\ i - 1 # k
        BY <3>3, <1>2
      <4>2. f[i] = g[i] /\ f[i - 1] = g[i - 1]
        BY <4>1, <3>3
      <4> QED BY <4>1, <4>2, <3>1, <3>3
    <3>4. CASE i = 0
      <4>1. 0 \in 0..(k - 1) /\ f[0] = g[0]
        BY <3>4, <1>2, <1>4
      <4> QED BY <4>1, <3>1, <3>4
    <3> QED BY <3>2, <3>3, <3>4
  <2>4. f = [i \in 0..k |-> f[i]]
    OBVIOUS
  <2> HIDE DEF f
  <2>5. f = [i \in 0..k |-> IF i = 0 THEN << >> ELSE f[i - 1] \o ss[i]]
    BY <2>3, <2>4
  <2> QED BY <2>5, <1>1 DEF Joins
<1> QED BY <1>3, <1>4

(* Joining sequences adds and loses nothing, and repeats nothing if no two *)
(* of them have an element in common and none of them repeats any.         *)
LEMMA JoinsProperties ==
  ASSUME NEW S, NEW n \in Nat, NEW ss \in [1..n -> Seq(S)], NEW f, Joins(ss, n, f)
  PROVE  /\ f[n] \in Seq(S)
         /\ Range(f[n]) = UNION {Range(ss[i]) : i \in 1..n}
         /\ /\ \A i \in 1..n : IsInjective(ss[i])
            /\ \A i, j \in 1..n : i # j => Range(ss[i]) \cap Range(ss[j]) = {}
            => IsInjective(f[n])
<1> DEFINE Distinct == /\ \A i \in 1..n : IsInjective(ss[i])
                       /\ \A i, j \in 1..n : i # j => Range(ss[i]) \cap Range(ss[j]) = {}
<1> DEFINE All(k) == UNION {Range(ss[i]) : i \in 1..k}
<1> DEFINE P(k) == /\ f[k] \in Seq(S)
                   /\ Range(f[k]) = All(k)
                   /\ Distinct => IsInjective(f[k])
<1> DEFINE T == {k \in 0..n : ~P(k)}
<1>1. ASSUME T # {} PROVE FALSE
  <2>1. PICK k \in T : \A l \in T : k <= l
    <3>1. T \in SUBSET Nat
      OBVIOUS
    <3> HIDE DEF T
    <3> QED BY <3>1, <1>1, LeastElement
  <2>2. k \in 0..n /\ k \in Nat /\ ~P(k)
    OBVIOUS
  <2>3. \A i \in 0..n : f[i] = IF i = 0 THEN << >> ELSE f[i - 1] \o ss[i]
    BY DEF Joins
  <2>4. CASE k = 0
    <3>1. f[0] = << >> /\ 1..0 = {}
      BY <2>2, <2>3, <2>4
    <3>2. << >> \in Seq(S) /\ Range(<< >>) = {} /\ IsInjective(<< >>)
      BY DEF Range, IsInjective
    <3>3. All(0) = {}
      BY <3>1
    <3>4. P(0)
      BY <3>1, <3>2, <3>3
    <3> QED BY <3>4, <2>2, <2>4
  <2>5. CASE k # 0
    <3>1. k - 1 \in 0..n /\ ~(k <= k - 1) /\ k \in 1..n
      BY <2>2, <2>5
    <3>2. P(k - 1)
      BY <2>1, <3>1
    <3>3. f[k] = f[k - 1] \o ss[k]
      BY <2>2, <2>3, <2>5
    <3>4. All(k) = All(k - 1) \cup Range(ss[k])
      <4>1. 1..k = 1..(k - 1) \cup {k}
        BY <2>2, <3>1
      <4> QED BY <4>1
    <3>5. f[k - 1] \in Seq(S) /\ ss[k] \in Seq(S)
      BY <3>1, <3>2
    <3> HIDE DEF All
    <3>6. /\ f[k] \in Seq(S) /\ Range(f[k]) = Range(f[k - 1]) \cup Range(ss[k])
          /\ IsInjective(f[k - 1]) /\ IsInjective(ss[k]) /\ Range(f[k - 1]) \cap Range(ss[k]) = {}
               => IsInjective(f[k])
      BY <3>3, <3>5, ConcatRange
    <3>7. Range(f[k]) = All(k)
      BY <3>2, <3>4, <3>6
    <3>8. ASSUME Distinct PROVE IsInjective(f[k])
      <4>1. \A i \in 1..(k - 1) : i \in 1..n /\ i # k
        BY <3>1
      <4>2. \A i \in 1..(k - 1) : Range(ss[i]) \cap Range(ss[k]) = {}
        BY <4>1, <3>1, <3>8
      <4>3. Range(f[k - 1]) \cap Range(ss[k]) = {}
        BY <4>2, <3>2 DEF All
      <4>4. IsInjective(f[k - 1]) /\ IsInjective(ss[k])
        BY <3>1, <3>2, <3>8
      <4> QED BY <4>3, <4>4, <3>6
    <3> QED BY <2>2, <3>6, <3>7, <3>8
  <2> QED BY <2>4, <2>5
<1>2. n \in 0..n
  OBVIOUS
<1> QED BY <1>1, <1>2
==============================================================================
