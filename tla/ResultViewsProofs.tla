------------------------- MODULE ResultViewsProofs -------------------------
(***************************************************************************)
(* Theorems about MessageStore and ResultViews for any number of messages, *)
(* of milliseconds and of earlier runs.                                    *)
(***************************************************************************)
EXTENDS ResultViews, SequenceTheorems, WellFoundedInduction, TLAPS

-----------------------------------------------------------------------------
(* Induction and recursion, stated of sets and functions so that they can  *)
(* be cited for any of them.                                               *)

LEMMA LeastNat ==
  ASSUME NEW T \in SUBSET Nat, T # {}
  PROVE  \E n \in T : \A m \in T : n <= m
  <1>1. PICK n \in T : \A m \in T : <<m, n>> \notin OpToRel(<, Nat)
    BY NatLessThanWellFounded, WFMin
  <1>2. \A m \in T : ~(m < n)
    BY <1>1 DEF OpToRel
  <1>3. QED
    BY <1>2

(* What holds of 0, and of n + 1 when of n, holds up to N.                 *)
LEMMA UpTo ==
  ASSUME NEW N \in Nat, NEW T, 0 \in T, \A n \in 0..(N - 1) : n \in T => n + 1 \in T
  PROVE  \A n \in 0..N : n \in T
  <1> DEFINE Out == {n \in 0..N : n \notin T}
  <1>1. SUFFICES ASSUME Out # {} PROVE FALSE
    OBVIOUS
  <1>2. Out \in SUBSET Nat
    OBVIOUS
  <1>3. PICK n \in Out : \A m \in Out : n <= m
    <2> HIDE DEF Out
    <2>1. QED
      BY <1>1, <1>2, LeastNat
  <1>4. n # 0 /\ n - 1 \in 0..(N - 1) /\ n - 1 \notin Out
    BY <1>3
  <1>5. QED
    BY <1>3, <1>4

(* A value and a step for each index make a function.                      *)
Iterates(f, n, base, step) == f[0] = base /\ \A k \in 1..n : f[k] = step[k][f[k - 1]]
LEMMA Recursion ==
  ASSUME NEW N \in Nat, NEW T, NEW base \in T, NEW step \in [1..N -> [T -> T]]
  PROVE  \E f \in [0..N -> T] : Iterates(f, N, base, step)
  <1> DEFINE Fits(f, n) == Iterates(f, n, base, step)
             Good == {n \in 0..N : \E f \in [0..n -> T] : Fits(f, n)}
  <1>1. 0 \in Good
    <2>1. [k \in 0..0 |-> base] \in [0..0 -> T] /\ Fits([k \in 0..0 |-> base], 0)
      BY DEF Iterates
    <2>2. \E f \in [0..0 -> T] : Fits(f, 0)
      <3> HIDE DEF Fits
      <3>1. QED
        BY <2>1
    <2>3. QED
      BY <2>2
  <1>2. ASSUME NEW n \in 0..(N - 1), n \in Good PROVE n + 1 \in Good
    <2>1. PICK f \in [0..n -> T] : Fits(f, n)
      BY <1>2
    <2> DEFINE g == [k \in 0..(n + 1) |-> IF k <= n THEN f[k] ELSE step[n + 1][f[n]]]
    <2>2. n \in 0..n /\ n + 1 \in 1..N /\ n + 1 \in 0..N
      OBVIOUS
    <2>3. step[n + 1][f[n]] \in T
      BY <2>2
    <2>4. g \in [0..(n + 1) -> T]
      BY <2>3
    <2>5. g[0] = base
      BY <2>1 DEF Iterates
    <2>6. ASSUME NEW k \in 1..(n + 1) PROVE g[k] = step[k][g[k - 1]]
      <3>1. CASE k <= n
        BY <3>1, <2>1 DEF Iterates
      <3>2. CASE k = n + 1
        BY <3>2
      <3>3. QED
        BY <3>1, <3>2
    <2>7. Fits(g, n + 1)
      BY <2>5, <2>6 DEF Iterates
    <2>8. \E h \in [0..(n + 1) -> T] : Fits(h, n + 1)
      <3> HIDE DEF Fits, g
      <3>1. QED
        BY <2>4, <2>7
    <2>9. QED
      BY <2>8, <2>2
  <1>3. N \in Good
    <2> HIDE DEF Good
    <2>1. \A n \in 0..(N - 1) : n \in Good => n + 1 \in Good
      BY <1>2
    <2>2. \A n \in 0..N : n \in Good
      BY <1>1, <2>1, UpTo
    <2>3. QED
      BY <2>2
  <1>4. QED
    BY <1>3

-----------------------------------------------------------------------------
(* Array.prototype.filter, as In has it.                                   *)

(* The members looked at one after the other.                              *)
Filters(f, s, ids) ==
  /\ f[0] = << >>
  /\ \A n \in 1..Len(s) : f[n] = IF s[n] \in ids THEN Append(f[n - 1], s[n]) ELSE f[n - 1]
  /\ In(s, ids) = f[Len(s)]
LEMMA Filtering ==
  ASSUME NEW S, NEW s \in Seq(S), NEW ids
  PROVE  \E f \in [0..Len(s) -> Seq(S)] : Filters(f, s, ids)
  <1> DEFINE Body(f) == [n \in 0..Len(s) |->
                          IF n = 0 THEN << >>
                          ELSE IF s[n] \in ids THEN Append(f[n - 1], s[n]) ELSE f[n - 1]]
             kept == CHOOSE f : f = Body(f)
             step == [n \in 1..Len(s) |-> [t \in Seq(S) |->
                        IF s[n] \in ids THEN Append(t, s[n]) ELSE t]]
  <1>1. Len(s) \in Nat /\ << >> \in Seq(S) /\ \A n \in 1..Len(s) : s[n] \in S
    OBVIOUS
  <1>2. step \in [1..Len(s) -> [Seq(S) -> Seq(S)]]
    BY <1>1
  <1>3. PICK f \in [0..Len(s) -> Seq(S)] : Iterates(f, Len(s), << >>, step)
    <2> HIDE DEF step
    <2>1. QED
      BY <1>1, <1>2, Recursion
  <1>4. \A n \in 1..Len(s) :
          f[n] = IF s[n] \in ids THEN Append(f[n - 1], s[n]) ELSE f[n - 1]
    <2>1. ASSUME NEW n \in 1..Len(s)
          PROVE  f[n] = IF s[n] \in ids THEN Append(f[n - 1], s[n]) ELSE f[n - 1]
      <3>1. f[n - 1] \in Seq(S)
        BY <1>1
      <3>2. QED
        BY <3>1, <1>3 DEF Iterates
    <2>2. QED
      BY <2>1
  <1>5. f = Body(f)
    <2>1. ASSUME NEW n \in 0..Len(s) PROVE f[n] = Body(f)[n]
      <3>1. CASE n = 0
        BY <3>1, <1>1, <1>3 DEF Iterates
      <3>2. CASE n \in 1..Len(s)
        <4>1. n # 0 /\ n \in 0..Len(s)
          BY <3>2, <1>1
        <4>2. Body(f)[n] = IF s[n] \in ids THEN Append(f[n - 1], s[n]) ELSE f[n - 1]
          BY <4>1
        <4> HIDE DEF Body
        <4>3. QED
          BY <4>2, <3>2, <1>4
      <3>3. QED
        BY <3>1, <3>2, <1>1
    <2>2. f \in [0..Len(s) -> Seq(S)] /\ Body(f) = [n \in 0..Len(s) |-> Body(f)[n]]
      OBVIOUS
    <2> HIDE DEF Body
    <2>3. f = [n \in 0..Len(s) |-> f[n]]
      OBVIOUS
    <2>4. QED
      BY <2>1, <2>2, <2>3
  <1>6. kept = Body(kept)
    <2> HIDE DEF Body
    <2>1. QED
      BY <1>5
  <1>7. In(s, ids) = kept[Len(s)]
    BY DEF In
  <1>8. \A n \in 0..Len(s) : n \in {k \in 0..Len(s) : kept[k] = f[k]}
    <2> DEFINE Same == {k \in 0..Len(s) : kept[k] = f[k]}
    <2> HIDE DEF kept
    <2>1. 0 \in Same
      BY <1>1, <1>3, <1>6 DEF Iterates
    <2>2. ASSUME NEW n \in 0..(Len(s) - 1), n \in Same PROVE n + 1 \in Same
      <3>1. n + 1 \in 1..Len(s) /\ n + 1 # 0 /\ (n + 1) - 1 = n /\ kept[n] = f[n]
        BY <1>1, <2>2
      <3>2. kept[n + 1] = IF s[n + 1] \in ids THEN Append(kept[n], s[n + 1]) ELSE kept[n]
        <4>1. kept[n + 1] = Body(kept)[n + 1]
          BY <1>6
        <4>2. QED
          BY <4>1, <3>1, <1>1
      <3>3. f[n + 1] = IF s[n + 1] \in ids THEN Append(f[n], s[n + 1]) ELSE f[n]
        BY <3>1, <1>4
      <3>4. QED
        BY <1>1, <3>1, <3>2, <3>3
    <2>3. QED
      <3> HIDE DEF Same
      <3>1. \A n \in 0..Len(s) : n \in Same
        BY <2>1, <2>2, <1>1, UpTo
      <3>2. QED
        BY <3>1 DEF Same
  <1>9. In(s, ids) = f[Len(s)]
    <2> HIDE DEF kept
    <2>1. QED
      BY <1>1, <1>7, <1>8
  <1>10. QED
    BY <1>3, <1>4, <1>9 DEF Iterates, Filters

(* Who is kept was there and is in ids, and two that are kept stay in      *)
(* their order.                                                            *)
InOrder(t, s, n) ==
  \A i, j \in 1..Len(t) : i < j => \E k, l \in 1..n : k < l /\ t[i] = s[k] /\ t[j] = s[l]

LEMMA SetOfAppend ==
  ASSUME NEW S, NEW t \in Seq(S), NEW e \in S
  PROVE  ToSet(Append(t, e)) = ToSet(t) \cup {e}
  <1>1. /\ DOMAIN t = 1..Len(t) /\ Len(t) \in Nat
        /\ DOMAIN Append(t, e) = 1..(Len(t) + 1) /\ Append(t, e)[Len(t) + 1] = e
        /\ \A i \in 1..Len(t) : Append(t, e)[i] = t[i]
    BY AppendProperties, LenProperties
  <1>2. ToSet(Append(t, e)) = {Append(t, e)[i] : i \in 1..Len(t)} \cup {e}
    BY <1>1 DEF ToSet
  <1>3. {Append(t, e)[i] : i \in 1..Len(t)} = {t[i] : i \in 1..Len(t)}
    BY <1>1
  <1>4. QED
    BY <1>1, <1>2, <1>3 DEF ToSet

LEMMA OrderOfAppend ==
  ASSUME NEW S, NEW t \in Seq(S), NEW s, NEW n \in Nat, s[n + 1] \in S,
         InOrder(t, s, n), ToSet(t) \subseteq {s[k] : k \in 1..n}
  PROVE  InOrder(Append(t, s[n + 1]), s, n + 1)
  <1> DEFINE u == Append(t, s[n + 1])
  <1>1. /\ Len(u) = Len(t) + 1 /\ Len(t) \in Nat /\ u[Len(t) + 1] = s[n + 1]
        /\ \A i \in 1..Len(t) : u[i] = t[i]
    BY AppendProperties, LenProperties
  <1> HIDE DEF u
  <1>2. ASSUME NEW i \in 1..Len(u), NEW j \in 1..Len(u), i < j
        PROVE  \E k, l \in 1..(n + 1) : k < l /\ u[i] = s[k] /\ u[j] = s[l]
    <2>1. i \in 1..Len(t)
      BY <1>1, <1>2
    <2>2. CASE j \in 1..Len(t)
      <3>1. \E k, l \in 1..n : k < l /\ t[i] = s[k] /\ t[j] = s[l]
        BY <1>2, <2>1, <2>2 DEF InOrder
      <3>2. 1..n \subseteq 1..(n + 1)
        OBVIOUS
      <3>3. QED
        BY <3>1, <3>2, <1>1, <2>1, <2>2
    <2>3. CASE j = Len(t) + 1
      <3>1. t[i] \in ToSet(t)
        BY <2>1 DEF ToSet
      <3>2. PICK k \in 1..n : t[i] = s[k]
        BY <3>1
      <3>3. k \in 1..(n + 1) /\ n + 1 \in 1..(n + 1) /\ k < n + 1
        OBVIOUS
      <3>4. QED
        BY <3>2, <3>3, <2>1, <2>3, <1>1
    <2>4. QED
      BY <2>2, <2>3, <1>1
  <1>3. QED
    BY <1>2 DEF InOrder, u

LEMMA OrderStays ==
  ASSUME NEW t, NEW s, NEW n \in Nat, InOrder(t, s, n)
  PROVE  InOrder(t, s, n + 1)
  <1>1. 1..n \subseteq 1..(n + 1)
    OBVIOUS
  <1>2. ASSUME NEW i \in 1..Len(t), NEW j \in 1..Len(t), i < j
        PROVE  \E k, l \in 1..(n + 1) : k < l /\ t[i] = s[k] /\ t[j] = s[l]
    BY <1>1, <1>2 DEF InOrder
  <1>3. QED
    BY <1>2 DEF InOrder

LEMMA Filtered ==
  ASSUME NEW S, NEW s \in Seq(S), NEW ids
  PROVE  /\ In(s, ids) \in Seq(S)
         /\ ToSet(In(s, ids)) = ToSet(s) \cap ids
         /\ InOrder(In(s, ids), s, Len(s))
  <1>1. PICK f \in [0..Len(s) -> Seq(S)] : Filters(f, s, ids)
    BY Filtering
  <1> DEFINE First(n) == {s[k] : k \in 1..n}
             Good == {n \in 0..Len(s) : ToSet(f[n]) = First(n) \cap ids /\ InOrder(f[n], s, n)}
  <1>2. Len(s) \in Nat /\ \A n \in 1..Len(s) : s[n] \in S
    OBVIOUS
  <1>3. 0 \in Good
    BY <1>1, <1>2 DEF ToSet, InOrder, Filters
  <1>4. ASSUME NEW n \in 0..(Len(s) - 1), n \in Good PROVE n + 1 \in Good
    <2>1. /\ n + 1 \in 1..Len(s) /\ n + 1 \in 0..Len(s) /\ (n + 1) - 1 = n /\ n \in Nat
          /\ f[n] \in Seq(S) /\ s[n + 1] \in S
      BY <1>2
    <2>2. ToSet(f[n]) = First(n) \cap ids /\ InOrder(f[n], s, n)
      BY <1>4
    <2>3. First(n + 1) = First(n) \cup {s[n + 1]}
      BY <2>1
    <2>4. f[n + 1] = IF s[n + 1] \in ids THEN Append(f[n], s[n + 1]) ELSE f[n]
      BY <1>1, <2>1 DEF Filters
    <2>5. CASE s[n + 1] \in ids
      <3>1. ToSet(f[n + 1]) = ToSet(f[n]) \cup {s[n + 1]}
        BY <2>1, <2>4, <2>5, SetOfAppend
      <3>2. InOrder(f[n + 1], s, n + 1)
        BY <2>1, <2>2, <2>4, <2>5, OrderOfAppend
      <3>3. ToSet(f[n + 1]) = First(n + 1) \cap ids
        <4> HIDE DEF First
        <4>1. QED
          BY <2>2, <2>3, <2>5, <3>1
      <3>4. QED
        BY <2>1, <3>2, <3>3
    <2>6. CASE s[n + 1] \notin ids
      <3>1. f[n + 1] = f[n] /\ 1..n \subseteq 1..(n + 1)
        BY <2>1, <2>4, <2>6
      <3>2. InOrder(f[n + 1], s, n + 1)
        <4>1. InOrder(f[n], s, n + 1)
          BY <2>1, <2>2, OrderStays
        <4>2. QED
          BY <3>1, <4>1
      <3>3. ToSet(f[n + 1]) = First(n + 1) \cap ids
        <4> HIDE DEF First
        <4>1. QED
          BY <2>2, <2>3, <2>6, <3>1
      <3>4. QED
        BY <2>1, <3>2, <3>3
    <2>7. QED
      BY <2>5, <2>6
  <1>5. Len(s) \in Good
    <2> HIDE DEF Good
    <2>1. \A n \in 0..(Len(s) - 1) : n \in Good => n + 1 \in Good
      BY <1>4
    <2>2. \A n \in 0..Len(s) : n \in Good
      BY <1>2, <1>3, <2>1, UpTo
    <2>3. QED
      BY <1>2, <2>2
  <1>6. ToSet(s) = First(Len(s))
    BY <1>2 DEF ToSet
  <1>7. In(s, ids) = f[Len(s)] /\ f[Len(s)] \in Seq(S)
    BY <1>1, <1>2 DEF Filters
  <1>8. QED
    BY <1>5, <1>6, <1>7

(* A filter keeps a sequence without repetitions and an order of times.    *)
Sorted(time, s) == \A i, j \in 1..Len(s) : i < j => time[s[i]] <= time[s[j]]

LEMMA FilteredOnce ==
  ASSUME NEW S, NEW s \in Seq(S), NEW ids, IsInjective(s)
  PROVE  IsInjective(In(s, ids))
  <1> DEFINE t == In(s, ids)
  <1>1. t \in Seq(S) /\ InOrder(t, s, Len(s))
    BY Filtered
  <1> HIDE DEF t
  <1>2. DOMAIN t = 1..Len(t) /\ Len(t) \in Nat /\ DOMAIN s = 1..Len(s) /\ Len(s) \in Nat
    BY <1>1, LenProperties
  <1>3. ASSUME NEW i \in 1..Len(t), NEW j \in 1..Len(t), i < j PROVE t[i] # t[j]
    <2>1. PICK k \in 1..Len(s), l \in 1..Len(s) : k < l /\ t[i] = s[k] /\ t[j] = s[l]
      BY <1>1, <1>3 DEF InOrder
    <2>2. QED
      BY <2>1, <1>2 DEF IsInjective
  <1>4. \A i, j \in 1..Len(t) : i = j \/ i < j \/ j < i
    BY <1>2
  <1>5. IsInjective(t)
    BY <1>2, <1>3, <1>4 DEF IsInjective
  <1>6. QED
    BY <1>5 DEF t

LEMMA FilteredSorted ==
  ASSUME NEW S, NEW s \in Seq(S), NEW ids, NEW time, Sorted(time, s)
  PROVE  Sorted(time, In(s, ids))
  <1> DEFINE t == In(s, ids)
  <1>1. t \in Seq(S) /\ InOrder(t, s, Len(s))
    BY Filtered
  <1> HIDE DEF t
  <1>2. ASSUME NEW i \in 1..Len(t), NEW j \in 1..Len(t), i < j
        PROVE  time[t[i]] <= time[t[j]]
    <2>1. PICK k \in 1..Len(s), l \in 1..Len(s) : k < l /\ t[i] = s[k] /\ t[j] = s[l]
      BY <1>1, <1>2 DEF InOrder
    <2>2. QED
      BY <2>1 DEF Sorted
  <1>3. QED
    BY <1>2 DEF Sorted, t

-----------------------------------------------------------------------------
(* Sequences put together.                                                 *)

LEMMA SetOfConcat ==
  ASSUME NEW S, NEW s \in Seq(S), NEW t \in Seq(S)
  PROVE  ToSet(s \o t) = ToSet(s) \cup ToSet(t)
  <1>1. /\ DOMAIN s = 1..Len(s) /\ Len(s) \in Nat /\ DOMAIN t = 1..Len(t) /\ Len(t) \in Nat
        /\ DOMAIN (s \o t) = 1..(Len(s) + Len(t))
        /\ \A i \in 1..(Len(s) + Len(t)) :
             (s \o t)[i] = IF i <= Len(s) THEN s[i] ELSE t[i - Len(s)]
    BY ConcatProperties, LenProperties
  <1>2. ASSUME NEW e \in ToSet(s \o t) PROVE e \in ToSet(s) \cup ToSet(t)
    <2>1. PICK i \in 1..(Len(s) + Len(t)) : e = (s \o t)[i]
      BY <1>1 DEF ToSet
    <2>2. CASE i <= Len(s)
      <3>1. i \in 1..Len(s) /\ e = s[i]
        BY <1>1, <2>1, <2>2
      <3>2. QED
        BY <3>1, <1>1 DEF ToSet
    <2>3. CASE ~(i <= Len(s))
      <3>1. i - Len(s) \in 1..Len(t) /\ e = t[i - Len(s)]
        BY <1>1, <2>1, <2>3
      <3>2. QED
        BY <3>1, <1>1 DEF ToSet
    <2>4. QED
      BY <2>2, <2>3
  <1>3. ASSUME NEW e \in ToSet(s) PROVE e \in ToSet(s \o t)
    <2>1. PICK i \in 1..Len(s) : e = s[i]
      BY <1>1 DEF ToSet
    <2>2. i \in 1..(Len(s) + Len(t)) /\ e = (s \o t)[i]
      BY <1>1, <2>1
    <2>3. QED
      BY <2>2, <1>1 DEF ToSet
  <1>4. ASSUME NEW e \in ToSet(t) PROVE e \in ToSet(s \o t)
    <2>1. PICK i \in 1..Len(t) : e = t[i]
      BY <1>1 DEF ToSet
    <2>2. i + Len(s) \in 1..(Len(s) + Len(t)) /\ e = (s \o t)[i + Len(s)]
      BY <1>1, <2>1
    <2>3. QED
      BY <2>2, <1>1 DEF ToSet
  <1>5. QED
    BY <1>2, <1>3, <1>4

LEMMA OnceConcat ==
  ASSUME NEW S, NEW s \in Seq(S), NEW t \in Seq(S), IsInjective(s), IsInjective(t),
         ToSet(s) \cap ToSet(t) = {}
  PROVE  IsInjective(s \o t)
  <1>1. /\ DOMAIN s = 1..Len(s) /\ Len(s) \in Nat /\ DOMAIN t = 1..Len(t) /\ Len(t) \in Nat
        /\ DOMAIN (s \o t) = 1..(Len(s) + Len(t))
        /\ \A i \in 1..(Len(s) + Len(t)) :
             (s \o t)[i] = IF i <= Len(s) THEN s[i] ELSE t[i - Len(s)]
    BY ConcatProperties, LenProperties
  <1>2. \A i \in 1..Len(s), j \in 1..Len(t) : s[i] # t[j]
    BY <1>1 DEF ToSet
  <1>3. ASSUME NEW i \in 1..(Len(s) + Len(t)), NEW j \in 1..(Len(s) + Len(t)),
               (s \o t)[i] = (s \o t)[j]
        PROVE  i = j
    <2>1. CASE i <= Len(s) /\ j <= Len(s)
      <3>1. i \in 1..Len(s) /\ j \in 1..Len(s) /\ s[i] = s[j]
        BY <1>1, <1>3, <2>1
      <3>2. QED
        BY <3>1, <1>1 DEF IsInjective
    <2>2. CASE ~(i <= Len(s)) /\ ~(j <= Len(s))
      <3>1. i - Len(s) \in 1..Len(t) /\ j - Len(s) \in 1..Len(t) /\ t[i - Len(s)] = t[j - Len(s)]
        BY <1>1, <1>3, <2>2
      <3>2. i - Len(s) = j - Len(s)
        BY <3>1, <1>1 DEF IsInjective
      <3>3. QED
        BY <3>2, <1>1
    <2>3. CASE i <= Len(s) /\ ~(j <= Len(s))
      <3>1. i \in 1..Len(s) /\ j - Len(s) \in 1..Len(t) /\ s[i] = t[j - Len(s)]
        BY <1>1, <1>3, <2>3
      <3>2. QED
        BY <3>1, <1>2
    <2>4. CASE ~(i <= Len(s)) /\ j <= Len(s)
      <3>1. j \in 1..Len(s) /\ i - Len(s) \in 1..Len(t) /\ s[j] = t[i - Len(s)]
        BY <1>1, <1>3, <2>4
      <3>2. QED
        BY <3>1, <1>2
    <2>5. QED
      BY <2>1, <2>2, <2>3, <2>4
  <1>4. QED
    BY <1>1, <1>3 DEF IsInjective

LEMMA SortedConcat ==
  ASSUME NEW S, NEW s \in Seq(S), NEW t \in Seq(S), NEW time,
         Sorted(time, s), Sorted(time, t),
         \A m \in ToSet(s), n \in ToSet(t) : time[m] <= time[n]
  PROVE  Sorted(time, s \o t)
  <1>1. /\ DOMAIN s = 1..Len(s) /\ Len(s) \in Nat /\ DOMAIN t = 1..Len(t) /\ Len(t) \in Nat
        /\ Len(s \o t) = Len(s) + Len(t)
        /\ \A i \in 1..(Len(s) + Len(t)) :
             (s \o t)[i] = IF i <= Len(s) THEN s[i] ELSE t[i - Len(s)]
    BY ConcatProperties, LenProperties
  <1>2. \A i \in 1..Len(s), j \in 1..Len(t) : time[s[i]] <= time[t[j]]
    BY <1>1 DEF ToSet
  <1>3. ASSUME NEW i \in 1..(Len(s) + Len(t)), NEW j \in 1..(Len(s) + Len(t)), i < j
        PROVE  time[(s \o t)[i]] <= time[(s \o t)[j]]
    <2>1. CASE j <= Len(s)
      <3>1. /\ i \in 1..Len(s) /\ j \in 1..Len(s)
            /\ (s \o t)[i] = s[i] /\ (s \o t)[j] = s[j]
        BY <1>1, <1>3, <2>1
      <3>2. QED
        BY <3>1, <1>3 DEF Sorted
    <2>2. CASE ~(i <= Len(s))
      <3>1. /\ i - Len(s) \in 1..Len(t) /\ j - Len(s) \in 1..Len(t) /\ i - Len(s) < j - Len(s)
            /\ (s \o t)[i] = t[i - Len(s)] /\ (s \o t)[j] = t[j - Len(s)]
        BY <1>1, <1>3, <2>2
      <3>2. QED
        BY <3>1 DEF Sorted
    <2>3. CASE i <= Len(s) /\ ~(j <= Len(s))
      <3>1. /\ i \in 1..Len(s) /\ j - Len(s) \in 1..Len(t)
            /\ (s \o t)[i] = s[i] /\ (s \o t)[j] = t[j - Len(s)]
        BY <1>1, <1>3, <2>3
      <3>2. QED
        BY <3>1, <1>2
    <2>4. QED
      BY <2>1, <2>2, <2>3
  <1>4. QED
    BY <1>1, <1>3 DEF Sorted

-----------------------------------------------------------------------------
(* Array.prototype.sort, as ByCreation has it: every message is put behind *)
(* those that are not later.                                               *)

LEMMA Singleton ==
  ASSUME NEW S, NEW m \in S, NEW time
  PROVE  /\ <<m>> \in Seq(S) /\ ToSet(<<m>>) = {m}
         /\ IsInjective(<<m>>) /\ Sorted(time, <<m>>)
  <1>1. <<m>> \in Seq(S) /\ DOMAIN <<m>> = {1} /\ Len(<<m>>) = 1 /\ <<m>>[1] = m
    OBVIOUS
  <1>2. QED
    BY <1>1 DEF ToSet, IsInjective, Sorted

LEMMA Inserted ==
  ASSUME NEW S, \A n \in S : created[n] \in Nat, NEW s \in Seq(S), NEW m \in S
  PROVE  /\ Insert(s, m) \in Seq(S) /\ ToSet(Insert(s, m)) = ToSet(s) \cup {m}
         /\ Sorted(created, s) => Sorted(created, Insert(s, m))
         /\ IsInjective(s) /\ m \notin ToSet(s) => IsInjective(Insert(s, m))
  <1> DEFINE before == {n \in ToSet(s) : created[n] <= created[m]}
             after == {n \in ToSet(s) : created[n] > created[m]}
             a == In(s, before)
             b == In(s, after)
             am == a \o <<m>>
  <1>1. Insert(s, m) = am \o b
    BY DEF Insert
  <1>2. ToSet(s) \subseteq S
    BY LenProperties DEF ToSet
  <1>3. a \in Seq(S) /\ ToSet(a) = before /\ b \in Seq(S) /\ ToSet(b) = after
    BY Filtered
  <1>4. <<m>> \in Seq(S) /\ ToSet(<<m>>) = {m} /\ IsInjective(<<m>>) /\ Sorted(created, <<m>>)
    BY Singleton
  <1>5. before \cup after = ToSet(s) /\ before \cap after = {}
    BY <1>2
  <1> HIDE DEF a, b
  <1>6. am \in Seq(S) /\ ToSet(am) = before \cup {m}
    <2> DEFINE one == <<m>>
    <2>1. one \in Seq(S) /\ ToSet(one) = {m}
      BY <1>4
    <2> HIDE DEF before, after, one
    <2>2. a \o one \in Seq(S) /\ ToSet(a \o one) = before \cup {m}
      BY <1>3, <2>1, ConcatProperties, SetOfConcat
    <2>3. QED
      BY <2>2 DEF one
  <1>7. am \o b \in Seq(S) /\ ToSet(am \o b) = ToSet(s) \cup {m}
    <2> HIDE DEF am, before, after
    <2>1. QED
      BY <1>3, <1>5, <1>6, ConcatProperties, SetOfConcat
  <1>8. ASSUME Sorted(created, s) PROVE Sorted(created, am \o b)
    <2>1. Sorted(created, a) /\ Sorted(created, b)
      BY <1>8, FilteredSorted DEF a, b
    <2>2. \A n \in before, k \in {m} : created[n] <= created[k]
      OBVIOUS
    <2>3. \A n \in before \cup {m}, k \in after : created[n] <= created[k]
      BY <1>2
    <2> HIDE DEF before, after
    <2>4. Sorted(created, am)
      BY <1>3, <1>4, <2>1, <2>2, SortedConcat
    <2> HIDE DEF am
    <2>5. QED
      BY <1>3, <1>6, <2>1, <2>3, <2>4, SortedConcat
  <1>9. ASSUME IsInjective(s), m \notin ToSet(s) PROVE IsInjective(am \o b)
    <2>1. IsInjective(a) /\ IsInjective(b)
      BY <1>9, FilteredOnce DEF a, b
    <2>2. before \cap {m} = {} /\ (before \cup {m}) \cap after = {}
      BY <1>5, <1>9
    <2> HIDE DEF before, after
    <2>3. IsInjective(am)
      BY <1>3, <1>4, <2>1, <2>2, OnceConcat
    <2> HIDE DEF am
    <2>4. QED
      BY <1>3, <1>6, <2>1, <2>2, <2>3, OnceConcat
  <1>10. QED
    BY <1>1, <1>7, <1>8, <1>9

(* The messages sorted in one after the other.                             *)
Sorts(f, s) ==
  /\ f[0] = << >>
  /\ \A n \in 1..Len(s) : f[n] = Insert(f[n - 1], s[n])
  /\ ByCreation(s) = f[Len(s)]
LEMMA Sorting ==
  ASSUME NEW S, \A n \in S : created[n] \in Nat, NEW s \in Seq(S)
  PROVE  \E f \in [0..Len(s) -> Seq(S)] : Sorts(f, s)
  <1> DEFINE Body(f) == [n \in 0..Len(s) |-> IF n = 0 THEN << >> ELSE Insert(f[n - 1], s[n])]
             sorted == CHOOSE f : f = Body(f)
             step == [n \in 1..Len(s) |-> [t \in Seq(S) |-> Insert(t, s[n])]]
  <1>1. Len(s) \in Nat /\ << >> \in Seq(S) /\ \A n \in 1..Len(s) : s[n] \in S
    OBVIOUS
  <1>2. step \in [1..Len(s) -> [Seq(S) -> Seq(S)]]
    <2>1. \A n \in 1..Len(s), t \in Seq(S) : Insert(t, s[n]) \in Seq(S)
      BY <1>1, Inserted
    <2>2. QED
      BY <2>1
  <1>3. PICK f \in [0..Len(s) -> Seq(S)] : Iterates(f, Len(s), << >>, step)
    <2> HIDE DEF step
    <2>1. QED
      BY <1>1, <1>2, Recursion
  <1>4. ASSUME NEW n \in 1..Len(s) PROVE f[n] = Insert(f[n - 1], s[n])
    <2>1. f[n - 1] \in Seq(S)
      BY <1>1
    <2>2. QED
      BY <2>1, <1>3 DEF Iterates
  <1>5. f = Body(f)
    <2>1. ASSUME NEW n \in 0..Len(s) PROVE f[n] = Body(f)[n]
      <3>1. CASE n = 0
        BY <3>1, <1>1, <1>3 DEF Iterates
      <3>2. CASE n \in 1..Len(s)
        <4>1. n # 0 /\ n \in 0..Len(s)
          BY <3>2, <1>1
        <4>2. Body(f)[n] = Insert(f[n - 1], s[n])
          BY <4>1
        <4> HIDE DEF Body
        <4>3. QED
          BY <4>2, <3>2, <1>4
      <3>3. QED
        BY <3>1, <3>2, <1>1
    <2>2. f \in [0..Len(s) -> Seq(S)] /\ Body(f) = [n \in 0..Len(s) |-> Body(f)[n]]
      OBVIOUS
    <2> HIDE DEF Body
    <2>3. f = [n \in 0..Len(s) |-> f[n]]
      OBVIOUS
    <2>4. QED
      BY <2>1, <2>2, <2>3
  <1>6. sorted = Body(sorted)
    <2> HIDE DEF Body
    <2>1. QED
      BY <1>5
  <1>7. ByCreation(s) = sorted[Len(s)]
    BY DEF ByCreation
  <1> DEFINE Same == {k \in 0..Len(s) : sorted[k] = f[k]}
  <1>8. \A n \in 0..Len(s) : n \in Same
    <2> HIDE DEF sorted
    <2>1. 0 \in Same
      BY <1>1, <1>3, <1>6 DEF Iterates
    <2>2. ASSUME NEW n \in 0..(Len(s) - 1), n \in Same PROVE n + 1 \in Same
      <3>1. /\ n + 1 \in 1..Len(s) /\ n + 1 \in 0..Len(s) /\ n + 1 # 0 /\ (n + 1) - 1 = n
            /\ sorted[n] = f[n]
        BY <1>1, <2>2
      <3>2. sorted[n + 1] = Insert(sorted[n], s[n + 1])
        <4>1. sorted[n + 1] = Body(sorted)[n + 1]
          BY <1>6
        <4>2. QED
          BY <4>1, <3>1
      <3>3. QED
        BY <1>4, <3>1, <3>2
    <2> HIDE DEF Same
    <2>3. QED
      BY <2>1, <2>2, <1>1, UpTo
  <1>9. ByCreation(s) = f[Len(s)]
    <2> HIDE DEF sorted
    <2>1. QED
      BY <1>1, <1>7, <1>8
  <1>10. QED
    BY <1>3, <1>4, <1>9 DEF Iterates, Sorts

(* The same messages, each as often as before, in the order of their times.*)
LEMMA SortedByCreation ==
  ASSUME NEW S, \A n \in S : created[n] \in Nat, NEW s \in Seq(S)
  PROVE  /\ ByCreation(s) \in Seq(S) /\ ToSet(ByCreation(s)) = ToSet(s)
         /\ Sorted(created, ByCreation(s))
         /\ IsInjective(s) => IsInjective(ByCreation(s))
  <1>1. PICK f \in [0..Len(s) -> Seq(S)] : Sorts(f, s)
    BY Sorting
  <1> DEFINE First(n) == {s[k] : k \in 1..n}
             Good == {n \in 0..Len(s) :
                        /\ ToSet(f[n]) = First(n) /\ Sorted(created, f[n])
                        /\ IsInjective(s) => IsInjective(f[n])}
  <1>2. Len(s) \in Nat /\ DOMAIN s = 1..Len(s) /\ \A n \in 1..Len(s) : s[n] \in S
    BY LenProperties
  <1>3. 0 \in Good
    <2>1. 0 \in 0..Len(s) /\ f[0] = << >> /\ First(0) = {}
      BY <1>1, <1>2 DEF Sorts
    <2>2. QED
      BY <2>1 DEF ToSet, Sorted, IsInjective
  <1>4. ASSUME NEW n \in 0..(Len(s) - 1), n \in Good PROVE n + 1 \in Good
    <2>1. /\ n + 1 \in 1..Len(s) /\ n + 1 \in 0..Len(s) /\ (n + 1) - 1 = n /\ n \in Nat
          /\ f[n] \in Seq(S) /\ s[n + 1] \in S
      BY <1>2
    <2>2. /\ ToSet(f[n]) = First(n) /\ Sorted(created, f[n])
          /\ IsInjective(s) => IsInjective(f[n])
      BY <1>4
    <2>3. First(n + 1) = First(n) \cup {s[n + 1]}
      BY <2>1
    <2>4. f[n + 1] = Insert(f[n], s[n + 1])
      BY <1>1, <2>1 DEF Sorts
    <2>5. IsInjective(s) => s[n + 1] \notin First(n)
      <3>1. ASSUME IsInjective(s), NEW k \in 1..n PROVE s[n + 1] # s[k]
        <4>1. k \in 1..Len(s) /\ k # n + 1
          BY <2>1, <1>2
        <4>2. QED
          BY <4>1, <3>1, <2>1, <1>2 DEF IsInjective
      <3>2. QED
        BY <3>1
    <2> HIDE DEF First
    <2>6. /\ ToSet(f[n + 1]) = First(n + 1) /\ Sorted(created, f[n + 1])
          /\ IsInjective(s) => IsInjective(f[n + 1])
      <3>1. /\ ToSet(Insert(f[n], s[n + 1])) = ToSet(f[n]) \cup {s[n + 1]}
            /\ Sorted(created, f[n]) => Sorted(created, Insert(f[n], s[n + 1]))
            /\ IsInjective(f[n]) /\ s[n + 1] \notin ToSet(f[n])
                 => IsInjective(Insert(f[n], s[n + 1]))
        <4> DEFINE t == f[n]
                   m == s[n + 1]
        <4>1. t \in Seq(S) /\ m \in S
          BY <2>1
        <4> HIDE DEF t, m
        <4>2. /\ ToSet(Insert(t, m)) = ToSet(t) \cup {m}
              /\ Sorted(created, t) => Sorted(created, Insert(t, m))
              /\ IsInjective(t) /\ m \notin ToSet(t) => IsInjective(Insert(t, m))
          BY <4>1, Inserted
        <4>3. QED
          BY <4>2 DEF t, m
      <3>2. QED
        BY <3>1, <2>2, <2>3, <2>4, <2>5
    <2>7. QED
      BY <2>1, <2>6
  <1>5. Len(s) \in Good
    <2> HIDE DEF Good
    <2>1. \A n \in 0..(Len(s) - 1) : n \in Good => n + 1 \in Good
      BY <1>4
    <2>2. \A n \in 0..Len(s) : n \in Good
      BY <1>2, <1>3, <2>1, UpTo
    <2>3. QED
      BY <1>2, <2>2
  <1>6. ToSet(s) = First(Len(s))
    BY <1>2 DEF ToSet
  <1>7. ByCreation(s) = f[Len(s)] /\ f[Len(s)] \in Seq(S)
    BY <1>1, <1>2 DEF Sorts
  <1>8. QED
    BY <1>5, <1>6, <1>7

-----------------------------------------------------------------------------
(* The invariant of the store: the clock does not go back, so that a new   *)
(* message, put last, is in its place; and the properties of MessageStore. *)
TimeGoesOn == \A m, n \in Ids : m < n => created[m] <= created[n]
StoreTypes == StoreTypeOK /\ Len(created) <= MaxMessages
StoreInv == StoreTypes /\ TimeGoesOn /\ InOnePlace /\ Chronological /\ SelectionFollows

LEMMA StoreShape ==
  ASSUME StoreTypes
  PROVE  /\ Len(created) \in Nat /\ DOMAIN created = Ids
         /\ \A m \in Ids : created[m] \in 0..MaxTime /\ created[m] \in Nat
         /\ ToSet(messages) \subseteq Ids /\ ToSet(trash) \subseteq Ids
         /\ ToSet(messages) = {} <=> messages = << >>
  <1>1. created \in Seq(0..MaxTime) /\ messages \in Seq(Ids) /\ trash \in Seq(Ids)
    BY DEF StoreTypes, StoreTypeOK
  <1>2. Len(created) \in Nat /\ DOMAIN created = Ids /\ \A m \in Ids : created[m] \in 0..MaxTime
    BY <1>1, LenProperties DEF Ids
  <1>3. \A m \in Ids : created[m] \in Nat
    BY <1>2, MessageStoreAssumption
  <1>4. /\ DOMAIN messages = 1..Len(messages) /\ Len(messages) \in Nat
        /\ \A i \in 1..Len(messages) : messages[i] \in Ids
        /\ DOMAIN trash = 1..Len(trash) /\ \A i \in 1..Len(trash) : trash[i] \in Ids
    BY <1>1, LenProperties, ElementOfSeq
  <1>5. ToSet(messages) \subseteq Ids /\ ToSet(trash) \subseteq Ids
    BY <1>4 DEF ToSet
  <1>6. messages # << >> => messages[1] \in ToSet(messages)
    BY <1>1, <1>4, EmptySeq DEF ToSet
  <1>7. messages = << >> => ToSet(messages) = {}
    BY DEF ToSet
  <1>8. QED
    BY <1>2, <1>3, <1>5, <1>6, <1>7

(* What adding does to the numbers and the times.                          *)
LEMMA Adding ==
  ASSUME StoreTypes, NEW c \in BOOLEAN, AddMessage(c)
  PROVE  LET new == Len(created) + 1 IN
         /\ StoreTypes' /\ Len(created') = new
         /\ Ids' = Ids \cup {new} /\ new \notin Ids
         /\ \A m \in Ids : created'[m] = created[m] /\ comparison'[m] = comparison[m]
         /\ created'[new] \in Latest..MaxTime /\ comparison'[new] = c
         /\ ToSet(messages') = ToSet(messages) \cup {new}
  <1> DEFINE new == Len(created) + 1
  <1>1. created \in Seq(0..MaxTime) /\ Len(created) \in Nat /\ MaxMessages \in Nat /\ MaxTime \in Nat
    BY StoreShape, MessageStoreAssumption DEF StoreTypes, StoreTypeOK
  <1>2. PICK now \in Latest..MaxTime : created' = Append(created, now)
    BY DEF AddMessage
  <1>3. Latest \in Nat
    <2>1. CASE created = << >>
      BY <2>1 DEF Latest
    <2>2. CASE created # << >>
      <3>1. Last(created) = created[Len(created)] /\ Len(created) \in 1..Len(created)
        BY <2>2, <1>1, EmptySeq DEF Last
      <3>2. QED
        BY <3>1, <2>2, <1>1, ElementOfSeq DEF Latest
    <2>3. QED
      BY <2>1, <2>2
  <1>4. now \in 0..MaxTime
    BY <1>1, <1>2, <1>3
  <1>5. /\ created' \in Seq(0..MaxTime) /\ Len(created') = new /\ created'[new] = now
        /\ \A m \in 1..Len(created) : created'[m] = created[m]
    BY <1>1, <1>2, <1>4, AppendProperties
  <1>6. Ids' = Ids \cup {new} /\ new \notin Ids
    BY <1>1, <1>5 DEF Ids
  <1>7. comparison \in Seq(BOOLEAN) /\ Len(comparison) = Len(created)
    <2>1. comparison \in [1..Len(created) -> BOOLEAN]
      BY DEF StoreTypes, StoreTypeOK, Ids
    <2>2. QED
      BY <2>1, <1>1
  <1>8. /\ comparison' \in Seq(BOOLEAN) /\ Len(comparison') = new /\ comparison'[new] = c
        /\ \A m \in 1..Len(created) : comparison'[m] = comparison[m]
    BY <1>7, AppendProperties DEF AddMessage
  <1>9. comparison' \in [Ids' -> BOOLEAN]
    BY <1>5, <1>8, LenProperties DEF Ids
  <1>10. messages \in Seq(Ids') /\ trash \in Seq(Ids') /\ new \in Ids'
    <2>1. messages \in Seq(Ids) /\ trash \in Seq(Ids) /\ Ids \subseteq Ids'
      BY <1>6 DEF StoreTypes, StoreTypeOK
    <2>2. QED
      BY <2>1, <1>6, SeqMonotonic
  <1>11. messages' = Append(messages, new) /\ trash' = trash
    BY DEF AddMessage
  <1>12. messages' \in Seq(Ids') /\ ToSet(messages') = ToSet(messages) \cup {new}
    BY <1>10, <1>11, AppendProperties, SetOfAppend
  <1>13. StoreTypes'
    <2>1. Len(created') <= MaxMessages
      BY <1>1, <1>5 DEF AddMessage
    <2>2. /\ isDeleted' \subseteq Ids' /\ gone' \subseteq Ids' /\ selectedIds' \subseteq Ids'
          /\ selectedTrashIds' \subseteq Ids' /\ selectionMode' \in {"none", "single", "multi", "all"}
      BY <1>6 DEF AddMessage, selection, StoreTypes, StoreTypeOK
    <2>3. QED
      BY <2>1, <2>2, <1>5, <1>9, <1>10, <1>11, <1>12 DEF StoreTypes, StoreTypeOK
  <1>14. QED
    BY <1>2, <1>5, <1>6, <1>8, <1>12, <1>13 DEF Ids

LEMMA Latests ==
  ASSUME StoreTypes, TimeGoesOn, NEW m \in Ids
  PROVE  created[m] <= Latest
  <1>1. /\ created \in Seq(0..MaxTime) /\ Len(created) \in Nat /\ m \in 1..Len(created)
        /\ \A n \in Ids : created[n] \in Nat
    BY StoreShape DEF StoreTypes, StoreTypeOK, Ids
  <1>2. created # << >> /\ Latest = created[Len(created)] /\ Len(created) \in Ids
    BY <1>1 DEF Latest, Last, Ids
  <1>3. m < Len(created) \/ m = Len(created)
    BY <1>1
  <1>4. QED
    BY <1>1, <1>2, <1>3 DEF TimeGoesOn

(* Chronological says that the messages are sorted by their times.         *)
LEMMA SortedMessages == Chronological <=> Sorted(created, messages)
  BY DEF Chronological, Sorted

LEMMA AddKeeps ==
  ASSUME StoreInv, NEW c \in BOOLEAN, AddMessage(c)
  PROVE  StoreInv'
  <1> DEFINE new == Len(created) + 1
  <1>1. /\ StoreTypes'
        /\ Ids' = Ids \cup {new} /\ new \notin Ids
        /\ \A m \in Ids : created'[m] = created[m] /\ comparison'[m] = comparison[m]
        /\ created'[new] \in Latest..MaxTime /\ comparison'[new] = c
        /\ ToSet(messages') = ToSet(messages) \cup {new}
    BY Adding DEF StoreInv
  <1>2. /\ messages' = Append(messages, new) /\ trash' = trash /\ gone' = gone
        /\ selectedIds' = selectedIds /\ selectionMode' = selectionMode
    BY DEF AddMessage, selection
  <1>3. /\ messages \in Seq(Ids) /\ messages \in Seq(Ids') /\ new \in Ids'
        /\ ToSet(messages) \subseteq Ids /\ ToSet(trash) \subseteq Ids /\ gone \subseteq Ids
    <2>1. /\ messages \in Seq(Ids) /\ ToSet(messages) \subseteq Ids /\ ToSet(trash) \subseteq Ids
          /\ gone \subseteq Ids
      BY StoreShape DEF StoreInv, StoreTypes, StoreTypeOK
    <2>2. QED
      BY <2>1, <1>1, SeqMonotonic
  <1>4. \A m \in Ids : created'[m] \in Nat /\ created'[m] <= created'[new]
    <2>1. ASSUME NEW m \in Ids PROVE created'[m] \in Nat /\ created'[m] <= created'[new]
      <3>1. created[m] <= Latest /\ created[m] \in Nat
        BY Latests, StoreShape DEF StoreInv
      <3>2. created'[new] \in Int /\ Latest \in Int /\ Latest <= created'[new]
        <4>1. CASE created = << >>
          BY <4>1, <1>1 DEF Latest
        <4>2. CASE created # << >>
          <5>1. Latest = created[Len(created)] /\ Len(created) \in Ids
            BY <4>2, EmptySeq, LenProperties DEF Latest, Last, Ids, StoreInv, StoreTypes, StoreTypeOK
          <5>2. Latest \in Nat
            BY <5>1, StoreShape DEF StoreInv
          <5>3. QED
            BY <5>2, <1>1
        <4>3. QED
          BY <4>1, <4>2
      <3>3. QED
        BY <3>1, <3>2, <1>1
    <2>2. QED
      BY <2>1
  <1>5. TimeGoesOn'
    <2>1. ASSUME NEW m \in Ids', NEW n \in Ids', m < n PROVE created'[m] <= created'[n]
      <3>1. Ids = 1..Len(created) /\ Len(created) \in Nat
        BY StoreShape DEF Ids, StoreInv
      <3>2. m \in Ids
        BY <2>1, <3>1, <1>1
      <3>3. CASE n = new
        BY <3>2, <3>3, <1>4
      <3>4. CASE n \in Ids
        BY <3>2, <3>4, <2>1, <1>1 DEF StoreInv, TimeGoesOn
      <3>5. QED
        BY <3>3, <3>4, <1>1
    <2>2. QED
      BY <2>1 DEF TimeGoesOn
  <1> DEFINE one == <<new>>
  <1>6. one \in Seq(Ids') /\ ToSet(one) = {new} /\ IsInjective(one) /\ Sorted(created', one)
    BY <1>3, Singleton
  <1>7. messages' = messages \o one
    BY <1>2, <1>3, AppendIsConcat
  <1>8. InOnePlace'
    <2>1. /\ IsInjective(messages) /\ IsInjective(trash)
          /\ ToSet(messages) \cap ToSet(trash) = {}
          /\ gone \cap (ToSet(messages) \cup ToSet(trash)) = {}
          /\ ToSet(messages) \cup ToSet(trash) \cup gone = Ids
      BY DEF StoreInv, InOnePlace
    <2>2. ToSet(messages) \cap {new} = {}
      BY <1>1, <1>3
    <2> HIDE DEF one
    <2>3. IsInjective(messages')
      BY <2>1, <2>2, <1>3, <1>6, <1>7, OnceConcat
    <2> HIDE DEF new
    <2>4. QED
      BY <2>1, <2>3, <1>1, <1>2, <1>3 DEF InOnePlace
  <1>9. Chronological'
    <2>1. Sorted(created', messages)
      <3>1. \A i \in 1..Len(messages) : messages[i] \in Ids
        BY <1>3, ElementOfSeq
      <3>2. Sorted(created, messages)
        BY SortedMessages DEF StoreInv
      <3>3. QED
        BY <3>1, <3>2, <1>1 DEF Sorted
    <2>2. \A m \in ToSet(messages), n \in {new} : created'[m] <= created'[n]
      BY <1>3, <1>4
    <2> HIDE DEF one
    <2>3. Sorted(created', messages')
      BY <2>1, <2>2, <1>3, <1>6, <1>7, SortedConcat
    <2>4. QED
      BY <2>3 DEF Chronological, Sorted
  <1>10. SelectionFollows'
    BY <1>1, <1>2, <1>3 DEF StoreInv, SelectionFollows
  <1>11. QED
    BY <1>1, <1>5, <1>8, <1>9, <1>10 DEF StoreInv

-----------------------------------------------------------------------------
(* What is done to messages once they are there.                           *)

(* Only the messages, the trash and the selections change.                 *)
LEMMA Rearranged ==
  ASSUME StoreInv, UNCHANGED added,
         messages' \in Seq(Ids), trash' \in Seq(Ids),
         isDeleted' \subseteq Ids, gone' \subseteq Ids, selectedIds' \subseteq Ids,
         selectedTrashIds' \subseteq Ids, selectionMode' \in {"none", "single", "multi", "all"}
  PROVE  StoreTypes' /\ TimeGoesOn' /\ Ids' = Ids
  <1>1. created' = created /\ comparison' = comparison /\ Ids' = Ids
    BY DEF added, Ids
  <1>2. StoreTypes'
    BY <1>1 DEF StoreInv, StoreTypes, StoreTypeOK
  <1>3. QED
    BY <1>1, <1>2 DEF StoreInv, TimeGoesOn

LEMMA StoreSame ==
  ASSUME StoreInv, UNCHANGED <<messages, trash, isDeleted, added, gone>>,
         selectedIds' \subseteq Ids, selectedTrashIds' \subseteq Ids,
         selectionMode' \in {"none", "single", "multi", "all"}, SelectionFollows'
  PROVE  StoreInv'
  <1>1. StoreTypes' /\ TimeGoesOn' /\ Ids' = Ids
    BY Rearranged DEF StoreInv, StoreTypes, StoreTypeOK
  <1>2. InOnePlace' /\ Chronological'
    BY <1>1 DEF StoreInv, InOnePlace, Chronological, added
  <1>3. QED
    BY <1>1, <1>2 DEF StoreInv

LEMMA ModeFollows ==
  ASSUME NEW ids
  PROVE  /\ Mode(ids) \in {"none", "single", "multi", "all"}
         /\ Mode(ids) = "none" <=> ids = {}
  BY DEF Mode

LEMMA ToggleKeeps == StoreInv /\ ToggleSelection => StoreInv'
  <1> SUFFICES ASSUME StoreInv, ToggleSelection PROVE StoreInv'
    OBVIOUS
  <1>1. PICK m \in ToSet(messages) :
          /\ selectedIds' = IF m \in selectedIds THEN selectedIds \ {m} ELSE selectedIds \cup {m}
          /\ selectionMode' = Mode(selectedIds')
    BY DEF ToggleSelection
  <1>2. UNCHANGED <<messages, trash, isDeleted, selectedTrashIds, added, gone>>
    BY DEF ToggleSelection
  <1>3. selectedIds' \subseteq Ids /\ selectedTrashIds' \subseteq Ids
    BY <1>1, <1>2, StoreShape DEF StoreInv, StoreTypes, StoreTypeOK
  <1>4. SelectionFollows'
    BY <1>1, <1>2, ModeFollows DEF StoreInv, SelectionFollows, added
  <1>5. QED
    BY <1>1, <1>2, <1>3, <1>4, ModeFollows, StoreSame

LEMMA SelectKeeps == StoreInv /\ SelectAllOrNone => StoreInv'
  <1> SUFFICES ASSUME StoreInv, SelectAllOrNone PROVE StoreInv'
    OBVIOUS
  <1>1. /\ UNCHANGED <<messages, trash, isDeleted, selectedTrashIds, added, gone>>
        /\ ToSet(messages) # {} /\ ToSet(messages) \subseteq Ids
        /\ \/ selectedIds' = {} /\ selectionMode' = "none"
           \/ selectedIds' = ToSet(messages) /\ selectionMode' = "all"
    BY StoreShape DEF SelectAllOrNone, NoneLeft, StoreInv
  <1>2. selectedIds' \subseteq Ids /\ selectedTrashIds' \subseteq Ids
    BY <1>1 DEF StoreInv, StoreTypes, StoreTypeOK
  <1>3. SelectionFollows'
    BY <1>1 DEF SelectionFollows, added
  <1>4. QED
    BY <1>1, <1>2, <1>3, StoreSame

LEMMA ToggleTrashKeeps == StoreInv /\ ToggleTrash => StoreInv'
  <1> SUFFICES ASSUME StoreInv, ToggleTrash PROVE StoreInv'
    OBVIOUS
  <1>1. UNCHANGED <<messages, trash, isDeleted, selection, added, gone>>
    BY DEF ToggleTrash
  <1>2. selectedTrashIds' \subseteq Ids
    BY StoreShape DEF ToggleTrash, StoreInv, StoreTypes, StoreTypeOK
  <1>3. /\ selectedIds' \subseteq Ids /\ selectionMode' \in {"none", "single", "multi", "all"}
        /\ SelectionFollows'
    BY <1>1 DEF StoreInv, StoreTypes, StoreTypeOK, SelectionFollows, selection, added
  <1>4. QED
    BY <1>1, <1>2, <1>3, StoreSame

(* A part of the messages or of the trash is filtered away.                *)
LEMMA WithoutFacts ==
  ASSUME NEW S, NEW s \in Seq(S), NEW ids, NEW time
  PROVE  /\ Without(s, ids) \in Seq(S) /\ ToSet(Without(s, ids)) = ToSet(s) \ ids
         /\ IsInjective(s) => IsInjective(Without(s, ids))
         /\ Sorted(time, s) => Sorted(time, Without(s, ids))
  <1> DEFINE stay == ToSet(s) \ ids
  <1>1. Without(s, ids) = In(s, stay)
    BY DEF Without
  <1>2. ToSet(s) \cap stay = stay
    OBVIOUS
  <1> HIDE DEF stay
  <1>3. /\ In(s, stay) \in Seq(S) /\ ToSet(In(s, stay)) = stay
        /\ IsInjective(s) => IsInjective(In(s, stay))
        /\ Sorted(time, s) => Sorted(time, In(s, stay))
    BY <1>2, Filtered, FilteredOnce, FilteredSorted
  <1>4. QED
    BY <1>1, <1>3 DEF stay

LEMMA DeleteKeeps == StoreInv /\ DeleteSelected => StoreInv'
  <1> SUFFICES ASSUME StoreInv, DeleteSelected PROVE StoreInv'
    OBVIOUS
  <1> DEFINE kept == Without(messages, selectedIds)
             moved == In(messages, selectedIds)
  <1>1. /\ messages' = kept /\ trash' = trash \o moved /\ gone' = gone
        /\ selectedIds' = {} /\ selectionMode' = "none" /\ selectedTrashIds' = selectedTrashIds
        /\ isDeleted' = isDeleted \cup (ToSet(messages) \cap selectedIds)
        /\ created' = created /\ comparison' = comparison
    BY DEF DeleteSelected, AfterDelete, NoneLeft, added
  <1>2. /\ messages \in Seq(Ids) /\ trash \in Seq(Ids) /\ ToSet(messages) \subseteq Ids
        /\ isDeleted \subseteq Ids /\ gone \subseteq Ids /\ selectedTrashIds \subseteq Ids
    BY StoreShape DEF StoreInv, StoreTypes, StoreTypeOK
  <1>3. /\ IsInjective(messages) /\ IsInjective(trash)
        /\ ToSet(messages) \cap ToSet(trash) = {}
        /\ gone \cap (ToSet(messages) \cup ToSet(trash)) = {}
        /\ ToSet(messages) \cup ToSet(trash) \cup gone = Ids
    BY DEF StoreInv, InOnePlace
  <1>4. /\ kept \in Seq(Ids) /\ ToSet(kept) = ToSet(messages) \ selectedIds
        /\ IsInjective(kept) /\ Sorted(created, kept)
    BY <1>2, <1>3, WithoutFacts, SortedMessages DEF StoreInv
  <1>5. /\ moved \in Seq(Ids) /\ ToSet(moved) = ToSet(messages) \cap selectedIds
        /\ IsInjective(moved)
    BY <1>2, <1>3, Filtered, FilteredOnce
  <1> HIDE DEF kept, moved
  <1>6. /\ trash' \in Seq(Ids) /\ ToSet(trash') = ToSet(trash) \cup (ToSet(messages) \cap selectedIds)
    BY <1>1, <1>2, <1>5, ConcatProperties, SetOfConcat
  <1>7. IsInjective(trash')
    <2>1. ToSet(trash) \cap ToSet(moved) = {}
      BY <1>3, <1>5
    <2>2. QED
      BY <2>1, <1>1, <1>2, <1>3, <1>5, OnceConcat
  <1>8. StoreTypes' /\ TimeGoesOn' /\ Ids' = Ids
    BY <1>1, <1>2, <1>4, <1>6, Rearranged DEF added
  <1>9. InOnePlace'
    BY <1>1, <1>3, <1>4, <1>6, <1>7, <1>8 DEF InOnePlace
  <1>10. Chronological' /\ SelectionFollows'
    BY <1>1, <1>4 DEF Chronological, Sorted, SelectionFollows
  <1>11. QED
    BY <1>8, <1>9, <1>10 DEF StoreInv

LEMMA RestoreKeeps ==
  ASSUME StoreInv, NEW ids, RestoreMessages(ids), selectedTrashIds' \subseteq Ids
  PROVE  StoreInv'
  <1> DEFINE back == In(trash, ids)
             all == messages \o back
  <1>1. /\ messages' = ByCreation(all) /\ trash' = Without(trash, ids) /\ gone' = gone
        /\ selectedIds' = selectedIds /\ selectionMode' = selectionMode
        /\ isDeleted' = isDeleted \ (ToSet(trash) \cap ids)
        /\ created' = created /\ comparison' = comparison
    BY DEF RestoreMessages, LeftInTrash, selection, added
  <1>2. /\ messages \in Seq(Ids) /\ trash \in Seq(Ids)
        /\ isDeleted \subseteq Ids /\ gone \subseteq Ids /\ selectedIds \subseteq Ids
        /\ selectionMode \in {"none", "single", "multi", "all"}
        /\ \A m \in Ids : created[m] \in Nat
    BY StoreShape DEF StoreInv, StoreTypes, StoreTypeOK
  <1>3. /\ IsInjective(messages) /\ IsInjective(trash)
        /\ ToSet(messages) \cap ToSet(trash) = {}
        /\ gone \cap (ToSet(messages) \cup ToSet(trash)) = {}
        /\ ToSet(messages) \cup ToSet(trash) \cup gone = Ids
    BY DEF StoreInv, InOnePlace
  <1>4. back \in Seq(Ids) /\ ToSet(back) = ToSet(trash) \cap ids /\ IsInjective(back)
    BY <1>2, <1>3, Filtered, FilteredOnce
  <1>5. /\ trash' \in Seq(Ids) /\ ToSet(trash') = ToSet(trash) \ ids /\ IsInjective(trash')
    BY <1>1, <1>2, <1>3, WithoutFacts
  <1> HIDE DEF back
  <1>6. all \in Seq(Ids) /\ ToSet(all) = ToSet(messages) \cup (ToSet(trash) \cap ids)
    BY <1>2, <1>4, ConcatProperties, SetOfConcat
  <1>7. IsInjective(all)
    <2>1. ToSet(messages) \cap ToSet(back) = {}
      BY <1>3, <1>4
    <2>2. QED
      BY <2>1, <1>2, <1>3, <1>4, OnceConcat
  <1> HIDE DEF all
  <1>8. /\ messages' \in Seq(Ids) /\ ToSet(messages') = ToSet(all)
        /\ IsInjective(messages') /\ Sorted(created, messages')
    BY <1>1, <1>2, <1>6, <1>7, SortedByCreation
  <1>9. StoreTypes' /\ TimeGoesOn' /\ Ids' = Ids
    <2>1. isDeleted' \subseteq Ids /\ gone' \subseteq Ids /\ selectedIds' \subseteq Ids
          /\ selectionMode' \in {"none", "single", "multi", "all"}
      BY <1>1, <1>2
    <2>2. QED
      BY <2>1, <1>1, <1>5, <1>8, Rearranged DEF added
  <1>10. InOnePlace'
    BY <1>1, <1>3, <1>5, <1>6, <1>8, <1>9 DEF InOnePlace
  <1>11. Chronological'
    BY <1>1, <1>8 DEF Chronological, Sorted
  <1>12. SelectionFollows'
    BY <1>1, <1>6, <1>8 DEF StoreInv, SelectionFollows
  <1>13. QED
    BY <1>9, <1>10, <1>11, <1>12 DEF StoreInv

LEMMA DiscardKeeps == StoreInv /\ (PermanentlyDelete \/ ClearTrash) => StoreInv'
  <1> SUFFICES ASSUME StoreInv, PermanentlyDelete \/ ClearTrash PROVE StoreInv'
    OBVIOUS
  <1>1. /\ messages \in Seq(Ids) /\ trash \in Seq(Ids) /\ ToSet(trash) \subseteq Ids
        /\ isDeleted \subseteq Ids /\ gone \subseteq Ids /\ selectedIds \subseteq Ids
        /\ selectedTrashIds \subseteq Ids
        /\ selectionMode \in {"none", "single", "multi", "all"}
    BY StoreShape DEF StoreInv, StoreTypes, StoreTypeOK
  <1>2. /\ IsInjective(messages) /\ IsInjective(trash)
        /\ ToSet(messages) \cap ToSet(trash) = {}
        /\ gone \cap (ToSet(messages) \cup ToSet(trash)) = {}
        /\ ToSet(messages) \cup ToSet(trash) \cup gone = Ids
    BY DEF StoreInv, InOnePlace
  <1>3. /\ messages' = messages /\ isDeleted' = isDeleted /\ selectedIds' = selectedIds
        /\ selectionMode' = selectionMode /\ created' = created /\ comparison' = comparison
        /\ selectedTrashIds' \subseteq Ids
    BY <1>1 DEF PermanentlyDelete, ClearTrash, selection, added
  <1>4. PICK ids : /\ trash' \in Seq(Ids) /\ ToSet(trash') = ToSet(trash) \ ids
                   /\ IsInjective(trash') /\ gone' = gone \cup (ToSet(trash) \cap ids)
    <2>1. CASE PermanentlyDelete
      BY <2>1, <1>1, <1>2, WithoutFacts DEF PermanentlyDelete
    <2>2. CASE ClearTrash
      <3>1. trash' = << >> /\ gone' = gone \cup (ToSet(trash) \cap ToSet(trash))
        BY <2>2 DEF ClearTrash
      <3>2. /\ trash' \in Seq(Ids) /\ ToSet(trash') = ToSet(trash) \ ToSet(trash)
            /\ IsInjective(trash')
        BY <3>1 DEF ToSet, IsInjective
      <3>3. QED
        BY <3>1, <3>2
    <2>3. QED
      BY <2>1, <2>2
  <1>5. StoreTypes' /\ TimeGoesOn' /\ Ids' = Ids
    <2>1. gone' \subseteq Ids
      BY <1>1, <1>4
    <2>2. QED
      BY <2>1, <1>1, <1>3, <1>4, Rearranged DEF added
  <1>6. InOnePlace'
    BY <1>2, <1>3, <1>4, <1>5 DEF InOnePlace
  <1>7. Chronological' /\ SelectionFollows'
    BY <1>3, <1>4 DEF StoreInv, Chronological, SelectionFollows
  <1>8. QED
    BY <1>5, <1>6, <1>7 DEF StoreInv

LEMMA CompareClearKeeps == StoreInv /\ CompareClear => StoreInv'
  <1> SUFFICES ASSUME StoreInv, CompareClear PROVE StoreInv'
    OBVIOUS
  <1> DEFINE old == {m \in ToSet(messages) : comparison[m]}
  <1>1. /\ messages' = Without(messages, old) /\ gone' = gone \cup old
        /\ trash' = trash /\ isDeleted' = isDeleted /\ selectedIds' = selectedIds
        /\ selectionMode' = selectionMode /\ selectedTrashIds' = selectedTrashIds
        /\ created' = created /\ comparison' = comparison
    BY DEF CompareClear, selection, added
  <1>2. /\ messages \in Seq(Ids) /\ trash \in Seq(Ids) /\ ToSet(messages) \subseteq Ids
        /\ isDeleted \subseteq Ids /\ gone \subseteq Ids /\ selectedIds \subseteq Ids
        /\ selectedTrashIds \subseteq Ids
        /\ selectionMode \in {"none", "single", "multi", "all"}
    BY StoreShape DEF StoreInv, StoreTypes, StoreTypeOK
  <1>3. /\ IsInjective(messages) /\ IsInjective(trash)
        /\ ToSet(messages) \cap ToSet(trash) = {}
        /\ gone \cap (ToSet(messages) \cup ToSet(trash)) = {}
        /\ ToSet(messages) \cup ToSet(trash) \cup gone = Ids
    BY DEF StoreInv, InOnePlace
  <1>4. old \subseteq ToSet(messages) /\ \A m \in old : comparison[m]
    OBVIOUS
  <1>5. selectedIds \ ToSet(messages) \subseteq {m \in gone : comparison[m]}
    BY DEF StoreInv, SelectionFollows
  <1> HIDE DEF old
  <1>6. /\ messages' \in Seq(Ids) /\ ToSet(messages') = ToSet(messages) \ old
        /\ IsInjective(messages') /\ Sorted(created, messages')
    BY <1>1, <1>2, <1>3, WithoutFacts, SortedMessages DEF StoreInv
  <1>7. StoreTypes' /\ TimeGoesOn' /\ Ids' = Ids
    <2>1. gone' \subseteq Ids
      BY <1>1, <1>2, <1>4
    <2>2. QED
      BY <2>1, <1>1, <1>2, <1>6, Rearranged DEF added
  <1>8. InOnePlace'
    BY <1>1, <1>3, <1>4, <1>6, <1>7 DEF InOnePlace
  <1>9. Chronological'
    BY <1>1, <1>6 DEF Chronological, Sorted
  <1>10. SelectionFollows'
    <2>1. selectedIds \ (ToSet(messages) \ old) \subseteq {m \in gone \cup old : comparison[m]}
      BY <1>4, <1>5
    <2>2. selectionMode = "none" <=> selectedIds = {}
      BY DEF StoreInv, SelectionFollows
    <2>3. QED
      BY <2>1, <2>2, <1>1, <1>6 DEF SelectionFollows
  <1>11. QED
    BY <1>7, <1>8, <1>9, <1>10 DEF StoreInv

LEMMA ArrangeKeeps == StoreInv /\ Arrange => StoreInv'
  <1>1. StoreInv => Ids \subseteq Ids /\ selectedTrashIds \subseteq Ids
    BY DEF StoreInv, StoreTypes, StoreTypeOK
  <1>2. StoreInv /\ RestoreSelected => StoreInv'
    BY RestoreKeeps DEF RestoreSelected
  <1>3. StoreInv /\ TrashRestore => StoreInv'
    BY <1>1, RestoreKeeps DEF TrashRestore
  <1>4. QED
    BY <1>2, <1>3, ToggleKeeps, SelectKeeps, DeleteKeeps, ToggleTrashKeeps, DiscardKeeps,
       CompareClearKeeps DEF Arrange

LEMMA StutterKeeps == StoreInv /\ UNCHANGED storeVars => StoreInv'
  <1> SUFFICES ASSUME StoreInv, UNCHANGED storeVars PROVE StoreInv'
    OBVIOUS
  <1>1. UNCHANGED <<messages, trash, isDeleted, selectedIds, selectionMode, selectedTrashIds,
                    created, comparison, gone>>
    BY DEF storeVars
  <1>2. /\ selectedIds' \subseteq Ids /\ selectedTrashIds' \subseteq Ids
        /\ selectionMode' \in {"none", "single", "multi", "all"}
        /\ SelectionFollows'
    BY <1>1 DEF StoreInv, StoreTypes, StoreTypeOK, SelectionFollows
  <1>3. QED
    BY <1>1, <1>2, StoreSame DEF added

-----------------------------------------------------------------------------
(* The invariant of the result flow: no two messages draw the chart of one *)
(* run, so a plot that goes takes down no chart but its own; and the       *)
(* registered charts are those of the last rendering.                      *)
ViewTypes ==
  /\ draws \in [Ids -> Runs \cup {NoChart}] /\ runs \in Earlier..(Earlier + Len(created))
  /\ browsing \in BOOLEAN /\ mounted \subseteq Ids /\ charts \subseteq Runs
OwnRuns ==
  /\ \A m \in Ids : draws[m] <= runs
  /\ \A m, n \in Ids : draws[m] = draws[n] /\ draws[m] # NoChart => m = n
ChartsFollow == charts = Drawn(mounted)
ViewInv == StoreInv /\ ViewTypes /\ OwnRuns /\ ChartsFollow

LEMMA ViewInit == Init => ViewInv
  <1> SUFFICES ASSUME Init PROVE ViewInv
    OBVIOUS
  <1>1. /\ messages = << >> /\ trash = << >> /\ isDeleted = {} /\ selectedIds = {}
        /\ selectionMode = "none" /\ selectedTrashIds = {} /\ created = << >>
        /\ comparison = << >> /\ gone = {}
    BY DEF Init, InitStore
  <1>2. Ids = {} /\ Len(created) = 0
    BY <1>1 DEF Ids
  <1>3. ToSet(messages) = {} /\ ToSet(trash) = {} /\ Len(messages) = 0
    BY <1>1 DEF ToSet
  <1>4. StoreTypes
    <2>1. /\ messages \in Seq(Ids) /\ trash \in Seq(Ids) /\ created \in Seq(0..MaxTime)
      BY <1>1
    <2>2. comparison \in [Ids -> BOOLEAN]
      BY <1>1, <1>2
    <2>3. Len(created) <= MaxMessages
      BY <1>2, MessageStoreAssumption
    <2>4. QED
      BY <1>1, <2>1, <2>2, <2>3 DEF StoreTypes, StoreTypeOK
  <1>5. InOnePlace
    BY <1>1, <1>2, <1>3 DEF InOnePlace, IsInjective
  <1>6. TimeGoesOn /\ Chronological /\ SelectionFollows
    BY <1>1, <1>2, <1>3 DEF TimeGoesOn, Chronological, SelectionFollows
  <1>7. draws = << >> /\ runs = Earlier /\ browsing = FALSE /\ mounted = {} /\ charts = {}
    BY DEF Init
  <1>8. ViewTypes
    <2>1. draws \in [Ids -> Runs \cup {NoChart}]
      BY <1>2, <1>7
    <2>2. runs \in Earlier..(Earlier + Len(created))
      BY <1>2, <1>7, ResultViewsAssumption
    <2>3. browsing \in BOOLEAN /\ mounted \subseteq Ids /\ charts \subseteq Runs
      BY <1>7
    <2>4. QED
      BY <2>1, <2>2, <2>3 DEF ViewTypes
  <1>9. OwnRuns /\ ChartsFollow
    BY <1>2, <1>7 DEF OwnRuns, ChartsFollow, Drawn
  <1>10. QED
    BY <1>4, <1>5, <1>6, <1>8, <1>9 DEF ViewInv, StoreInv

(* A message that draws no chart, or that of a run nobody has drawn yet.   *)
LEMMA MessageAdded ==
  ASSUME ViewInv, NEW c \in BOOLEAN, AddMessage(c), NEW run,
         draws' = Append(draws, run), UNCHANGED <<mounted, charts>>, browsing' \in BOOLEAN,
         \/ run = NoChart /\ runs' = runs
         \/ run = runs + 1 /\ runs' = runs + 1
  PROVE  ViewInv'
  <1> DEFINE new == Len(created) + 1
  <1>1. StoreInv'
    BY AddKeeps DEF ViewInv
  <1>2. Ids' = Ids \cup {new} /\ new \notin Ids /\ Ids = 1..Len(created)
        /\ Len(created) \in Nat /\ Len(created') = new /\ new <= MaxMessages
    <2>1. Ids' = Ids \cup {new} /\ new \notin Ids /\ Len(created) \in Nat /\ Len(created') = new
      BY Adding, StoreShape DEF ViewInv, StoreInv
    <2>2. MaxMessages \in Nat /\ Len(created) < MaxMessages
      BY MessageStoreAssumption DEF AddMessage
    <2>3. QED
      BY <2>1, <2>2 DEF Ids
  <1>3. /\ draws \in [Ids -> Runs \cup {NoChart}] /\ runs \in Earlier..(Earlier + Len(created))
        /\ mounted \subseteq Ids /\ charts \subseteq Runs
        /\ Earlier \in Nat /\ MaxMessages \in Nat
    BY ResultViewsAssumption, MessageStoreAssumption DEF ViewInv, ViewTypes
  <1>4. run \in Runs \cup {NoChart} /\ runs' \in Earlier..(Earlier + Len(created'))
    BY <1>2, <1>3 DEF Runs
  <1> DEFINE Drawable == Runs \cup {NoChart}
  <1> HIDE DEF new, Drawable
  <1>5. draws \in Seq(Drawable) /\ Len(draws) = Len(created)
    <2>1. draws \in [1..Len(created) -> Drawable]
      BY <1>2, <1>3 DEF Drawable
    <2>2. QED
      BY <2>1, <1>2
  <1>6. /\ draws' \in [Ids' -> Drawable] /\ draws'[new] = run
        /\ \A m \in Ids : draws'[m] = draws[m]
    <2>1. run \in Drawable
      BY <1>4 DEF Drawable
    <2>2. /\ draws' \in Seq(Drawable) /\ Len(draws') = Len(draws) + 1
          /\ draws'[Len(draws) + 1] = run
          /\ \A m \in 1..Len(draws) : draws'[m] = draws[m]
      BY <2>1, <1>5, AppendProperties
    <2>3. draws' \in [1..Len(draws') -> Drawable] /\ Ids' = 1..Len(draws')
      BY <2>2, <1>2, <1>5, LenProperties DEF new, Ids
    <2>4. QED
      BY <2>2, <2>3, <1>2, <1>5 DEF new
  <1>7. ViewTypes'
    BY <1>2, <1>3, <1>4, <1>6 DEF ViewTypes, Drawable, Runs, NoChart
  <1>8. OwnRuns'
    <2>1. /\ \A m \in Ids : draws[m] <= runs /\ draws[m] \in Nat
          /\ \A m, n \in Ids : draws[m] = draws[n] /\ draws[m] # NoChart => m = n
      BY <1>3 DEF ViewInv, OwnRuns, Runs, NoChart
    <2>2. runs \in Nat /\ runs' \in Nat /\ runs <= runs' /\ run <= runs'
          /\ (run # NoChart => run > runs)
      BY <1>3 DEF NoChart
    <2>3. \A m \in Ids : draws[m] <= runs' /\ (run # NoChart => draws[m] # run)
      BY <2>1, <2>2
    <2>4. \A m \in Ids' : draws'[m] <= runs'
      BY <2>2, <2>3, <1>2, <1>6
    <2>5. ASSUME NEW m \in Ids', NEW n \in Ids', draws'[m] = draws'[n], draws'[m] # NoChart
          PROVE  m = n
      <3>1. CASE m \in Ids /\ n \in Ids
        BY <3>1, <2>1, <2>5, <1>6
      <3>2. CASE m \in Ids /\ n = new
        BY <3>2, <2>3, <2>5, <1>6
      <3>3. CASE m = new /\ n \in Ids
        BY <3>3, <2>3, <2>5, <1>6
      <3>4. QED
        BY <3>1, <3>2, <3>3, <1>2
    <2>6. NoChart' = NoChart
      BY DEF NoChart
    <2>7. QED
      BY <2>4, <2>5, <2>6 DEF OwnRuns
  <1>9. ChartsFollow'
    BY <1>3, <1>6 DEF ViewInv, ChartsFollow, Drawn, NoChart
  <1>10. QED
    BY <1>1, <1>7, <1>8, <1>9 DEF ViewInv

LEMMA RestKeeps ==
  ASSUME ViewInv, StoreInv', UNCHANGED <<created, draws, runs>>,
         browsing' \in BOOLEAN, mounted' \subseteq Ids, charts' \subseteq Runs, ChartsFollow'
  PROVE  ViewInv'
  <1>1. Ids' = Ids /\ ViewTypes' /\ OwnRuns'
    BY DEF ViewInv, ViewTypes, OwnRuns, Ids, Runs, NoChart
  <1>2. QED
    BY <1>1 DEF ViewInv

LEMMA RenderKeeps == ViewInv /\ Render => ViewInv'
  <1> SUFFICES ASSUME ViewInv, Render PROVE ViewInv'
    OBVIOUS
  <1> DEFINE left == mounted \ mounted'
             come == mounted' \ mounted
  <1>1. /\ mounted' = Shown /\ browsing' = browsing /\ charts' = (charts \ Drawn(left)) \cup Drawn(come)
        /\ UNCHANGED storeVars /\ UNCHANGED <<created, draws, runs>>
    BY DEF Render, Registry, storeVars
  <1>2. mounted \subseteq Ids /\ mounted' \subseteq Ids /\ browsing' \in BOOLEAN
    BY <1>1, StoreShape DEF ViewInv, ViewTypes, StoreInv, Shown
  <1>3. \A m, n \in Ids : draws[m] = draws[n] /\ draws[m] # NoChart => m = n
    BY DEF ViewInv, OwnRuns
  <1>4. charts = Drawn(mounted) /\ \A m \in Ids : draws[m] \in Runs \cup {NoChart}
    BY DEF ViewInv, ChartsFollow, ViewTypes
  <1>5. Drawn(mounted) \ Drawn(left) = Drawn(mounted \cap mounted')
    <2>1. ASSUME NEW run PROVE run \in Drawn(mounted) \ Drawn(left)
                              <=> run \in Drawn(mounted \cap mounted')
      BY <1>2, <1>3 DEF Drawn
    <2>2. QED
      BY <2>1
  <1>6. Drawn(mounted \cap mounted') \cup Drawn(come) = Drawn(mounted')
    BY DEF Drawn
  <1>7. charts' = Drawn(mounted') /\ charts' \subseteq Runs
    BY <1>1, <1>2, <1>4, <1>5, <1>6 DEF Drawn
  <1>8. ChartsFollow'
    BY <1>1, <1>7 DEF ChartsFollow, Drawn, NoChart
  <1>9. StoreInv'
    BY <1>1, StutterKeeps DEF ViewInv
  <1>10. QED
    BY <1>1, <1>2, <1>7, <1>8, <1>9, RestKeeps

(* Steps that touch the messages alone, or what is browsed, or nothing.    *)
LEMMA ArrangedKeeps ==
  ASSUME ViewInv, Arrange \/ UNCHANGED storeVars, UNCHANGED <<draws, runs, mounted, charts>>,
         browsing' \in BOOLEAN
  PROVE  ViewInv'
  <1>1. StoreInv'
    BY ArrangeKeeps, StutterKeeps DEF ViewInv
  <1>2. created' = created
    BY DEF Arrange, storeVars, added, ToggleSelection, SelectAllOrNone, DeleteSelected,
           RestoreSelected, TrashRestore, RestoreMessages, ToggleTrash, PermanentlyDelete,
           ClearTrash, CompareClear
  <1>3. /\ mounted' \subseteq Ids /\ charts' \subseteq Runs /\ ChartsFollow'
    BY DEF ViewInv, ViewTypes, ChartsFollow, Drawn, NoChart
  <1>4. QED
    BY <1>1, <1>2, <1>3, RestKeeps

LEMMA ViewNext == ViewInv /\ [Next]_vars => ViewInv'
  <1> SUFFICES ASSUME ViewInv, [Next]_vars PROVE ViewInv'
    OBVIOUS
  <1> browsing \in BOOLEAN
    BY DEF ViewInv, ViewTypes
  <1>1. CASE Fitted
    BY <1>1, MessageAdded DEF Fitted, view
  <1>2. CASE Reran
    BY <1>2, MessageAdded DEF Reran, RunOfMessage, view
  <1>3. CASE Compared
    BY <1>3, MessageAdded DEF Compared, Note, view
  <1>4. CASE ExportedPlot
    BY <1>4, MessageAdded DEF ExportedPlot, Note, view
  <1>5. CASE OtherAnswer
    BY <1>5, MessageAdded DEF OtherAnswer, Note, view
  <1>6. CASE Arranged
    BY <1>6, ArrangedKeeps DEF Arranged, view
  <1>7. CASE Browse
    BY <1>7, ArrangedKeeps DEF Browse
  <1>8. CASE LeaveBrowsing
    <2>1. CASE Note(FALSE)
      BY <1>8, <2>1, MessageAdded DEF LeaveBrowsing, Note
    <2>2. CASE UNCHANGED <<storeVars, draws, runs>>
      BY <1>8, <2>2, ArrangedKeeps DEF LeaveBrowsing
    <2>3. QED
      BY <1>8, <2>1, <2>2 DEF LeaveBrowsing
  <1>9. CASE Render
    BY <1>9, RenderKeeps
  <1>10. CASE UNCHANGED vars
    BY <1>10, ArrangedKeeps DEF vars
  <1>11. QED
    BY <1>1, <1>2, <1>3, <1>4, <1>5, <1>6, <1>7, <1>8, <1>9, <1>10 DEF Next

-----------------------------------------------------------------------------
(* The inductive invariant of the result flow and of the store under it:   *)
(* stores/messageStore.ts with every command that adds a message, every    *)
(* operation on messages, and the chart registry.                          *)
THEOREM ViewInvariance == Spec => []ViewInv
  BY ViewInit, ViewNext, PTL DEF Spec

(* Types of the store and of the registry.                                 *)
THEOREM TypeCorrect == Spec => []TypeOK
  <1>1. ViewInv => TypeOK
    <2> SUFFICES ASSUME ViewInv PROVE TypeOK
      OBVIOUS
    <2>1. Len(created) \in Nat /\ Len(created) <= MaxMessages
      BY StoreShape DEF ViewInv, StoreInv, StoreTypes
    <2>2. runs \in Runs \cup {Earlier}
      BY <2>1, ResultViewsAssumption, MessageStoreAssumption DEF ViewInv, ViewTypes, Runs
    <2>3. QED
      BY <2>2 DEF ViewInv, ViewTypes, StoreInv, StoreTypes, TypeOK
  <1>2. QED
    BY <1>1, ViewInvariance, PTL

(* deleteMessages, restoreMessages, permanentlyDeleteMessages, clearTrash  *)
(* and compare clear, in any order and with selections long out of date,   *)
(* lose no message and double none.                                        *)
THEOREM EachInOnePlace == Spec => []InOnePlace
  <1>1. ViewInv => InOnePlace
    BY DEF ViewInv, StoreInv
  <1>2. QED
    BY <1>1, ViewInvariance, PTL

(* The stable sort of restoreMessages puts messages back among those that  *)
(* came meanwhile: the flow is in the order of created_at at all times.    *)
THEOREM InOrderOfTime == Spec => []Chronological
  <1>1. ViewInv => Chronological
    BY DEF ViewInv, StoreInv
  <1>2. QED
    BY <1>1, ViewInvariance, PTL

(* The toolbar's mode and the ids it acts on agree, and what is selected   *)
(* is in the flow unless compare clear took it.                            *)
THEOREM SelectionIsReal == Spec => []SelectionFollows
  <1>1. ViewInv => SelectionFollows
    BY DEF ViewInv, StoreInv
  <1>2. QED
    BY <1>1, ViewInvariance, PTL

(* chartExport.ts and App.tsx: although the plot that goes deletes by run  *)
(* and not by message, what is registered once all is rendered are the     *)
(* charts of the event studies in the flow, and none while data is browsed *)
(* in its place; also when the flow has come back.                         *)
THEOREM ChartsOfTheFlow == Spec => []ChartsAreShown
  <1>1. ViewInv => ChartsAreShown
    BY DEF ViewInv, ChartsFollow, ChartsAreShown, Shown, Drawn
  <1>2. QED
    BY <1>1, ViewInvariance, PTL

=============================================================================
