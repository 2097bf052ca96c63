-------------------------- MODULE TimerQueueProofs --------------------------
(* Proofs about TimerQueue, for any set of timers, objects and intervals:    *)
(* the vector holds every registered timer once, its front is the earliest   *)
(* whenever poll looks at it, and a poll calls a timer once.                 *)
EXTENDS TimerQueue, FiniteSetTheorems, SequenceTheorems, WellFoundedInduction, TLAPS

-----------------------------------------------------------------------------
(* The heap algorithms.                                                      *)

(* The first m places of the vector form a heap. *)
HeapUpTo(h, m, time) == \A i \in 2..m : time[h[i \div 2]] <= time[h[i]]

(* A nonempty set of natural numbers has a least element. *)
LEMMA LeastElement ==
    ASSUME NEW T \in SUBSET Nat, T # {}
    PROVE  \E x \in T : \A y \in T : x <= y
<1>1. \E R : IsWellFoundedOn(R, Nat) /\ \A x, y \in Nat : <<y, x>> \in R <=> y < x
    <2>1. IsWellFoundedOn(OpToRel(<, Nat), Nat)
        BY NatLessThanWellFounded
    <2>2. \A x, y \in Nat : <<y, x>> \in OpToRel(<, Nat) <=> y < x
        BY Zenon DEF OpToRel
    <2> QED BY <2>1, <2>2, Zenon
<1>2. PICK R : IsWellFoundedOn(R, Nat) /\ \A x, y \in Nat : <<y, x>> \in R <=> y < x
    BY <1>1
<1>3. PICK x \in T : \A y \in T : ~ (<<y, x>> \in R)
    BY <1>2, WFMin
<1>4. ASSUME NEW y \in T PROVE x <= y
    <2>1. x \in Nat /\ y \in Nat
        OBVIOUS
    <2>2. ~(y < x)
        BY <1>2, <1>3, <2>1, Zenon
    <2> QED BY <2>1, <2>2
<1> QED BY <1>4

(* Halving a position leads to an earlier one. *)
LEMMA Halving ==
    /\ \A i \in Nat : i >= 2 => i \div 2 \in 1..(i - 1)
    /\ 1 \div 2 = 0
OBVIOUS

(* The front of a heap is no later than any of its elements. *)
LEMMA HeapFront ==
    ASSUME NEW S, NEW h \in Seq(S), NEW time \in [S -> Nat], IsHeap(h, time)
    PROVE  \A i \in 1..Len(h) : time[h[1]] <= time[h[i]]
<1> SUFFICES ASSUME NEW i0 \in 1..Len(h), ~(time[h[1]] <= time[h[i0]]) PROVE FALSE
    OBVIOUS
<1> DEFINE T == {i \in 1..Len(h) : ~(time[h[1]] <= time[h[i]])}
<1>1. T \in SUBSET Nat /\ T # {}
    OBVIOUS
<1>2. PICK x \in T : \A y \in T : x <= y
    BY <1>1, LeastElement
<1>3. \A i \in 1..Len(h) : time[h[i]] \in Nat
    OBVIOUS
<1>4. x \in 1..Len(h) /\ ~(time[h[1]] <= time[h[x]])
    OBVIOUS
<1>5. x >= 2
    BY <1>3, <1>4
<1>6. x \div 2 \in 1..(x - 1)
    BY <1>4, <1>5, Halving
<1>7. x \div 2 \in 1..Len(h)
    BY <1>4, <1>6
<1>8. time[h[x \div 2]] <= time[h[x]]
    BY <1>4, <1>5 DEF IsHeap
<1>9. x \div 2 \notin T
    <2> HIDE DEF T
    <2> QED BY <1>2, <1>4, <1>6
<1>10. time[h[1]] <= time[h[x \div 2]]
    BY <1>7, <1>9
<1>11. 1 \in 1..Len(h)
    BY <1>4
<1> QED BY <1>3, <1>4, <1>7, <1>8, <1>10, <1>11

(* The path of push_heap: it starts at the last place, every other place on  *)
(* it holds a later element and lies above one on the path, and it goes on   *)
(* as long as the place above holds a later element.                         *)
LEMMA PathFacts ==
    ASSUME NEW S, NEW h \in Seq(S), NEW time \in [S -> Nat], Len(h) # 0
    PROVE  /\ Path(h, time) \in SUBSET (1..Len(h))
           /\ Len(h) \in Path(h, time)
           /\ \A p \in Path(h, time) \ {Len(h)} :
                 /\ time[h[Len(h)]] < time[h[p]]
                 /\ \E q \in Path(h, time) : q \div 2 = p
           /\ \A p \in Path(h, time) :
                 p >= 2 /\ time[h[Len(h)]] < time[h[p \div 2]] => p \div 2 \in Path(h, time)
<1> DEFINE n == Len(h)
<1> DEFINE Climbs(P) == /\ n \in P
                        /\ \A p \in P \ {n} : /\ time[h[n]] < time[h[p]]
                                              /\ \E q \in P : q \div 2 = p
<1> DEFINE All == {P \in SUBSET (1..n) : Climbs(P)}
<1> DEFINE U == Path(h, time)
<1>1. U = UNION All
    BY DEF Path
<1>2. n \in Nat /\ n \in 1..n
    OBVIOUS
<1>3. {n} \in All
    BY <1>2
<1>4. U \in SUBSET (1..n) /\ n \in U
    BY <1>1, <1>3
<1>5. ASSUME NEW p \in U \ {n}
      PROVE  time[h[n]] < time[h[p]] /\ \E q \in U : q \div 2 = p
    <2>1. PICK P \in All : p \in P
        BY <1>1, <1>5
    <2>2. P \subseteq U
        BY <1>1
    <2> QED BY <1>5, <2>1, <2>2
<1>6. ASSUME NEW p \in U, p >= 2, time[h[n]] < time[h[p \div 2]]
      PROVE  p \div 2 \in U
    <2> DEFINE V == U \cup {p \div 2}
    <2>1. p \div 2 \in 1..n
        BY <1>2, <1>4, <1>6, Halving
    <2>2. V \in SUBSET (1..n) /\ n \in V
        BY <1>4, <2>1
    <2>3. ASSUME NEW r \in V \ {n}
          PROVE  time[h[n]] < time[h[r]] /\ \E q \in V : q \div 2 = r
        <3>1. CASE r \in U
            BY <1>5, <2>3, <3>1
        <3>2. CASE r = p \div 2
            BY <1>6, <3>2
        <3> QED BY <3>1, <3>2
    <2>4. V \in All
        BY <2>2, <2>3
    <2> HIDE DEF All
    <2> QED BY <1>1, <2>4
<1> HIDE DEF U
<1>7. /\ U \in SUBSET (1..n) /\ n \in U
      /\ \A p \in U \ {n} : time[h[n]] < time[h[p]] /\ \E q \in U : q \div 2 = p
      /\ \A p \in U : p >= 2 /\ time[h[n]] < time[h[p \div 2]] => p \div 2 \in U
    BY <1>4, <1>5, <1>6
<1> QED BY <1>7 DEF U

(* push_heap keeps the elements, and makes a heap of a vector whose places   *)
(* but the last are one.                                                     *)
LEMMA PushHeapFacts ==
    ASSUME NEW S, NEW h \in Seq(S), NEW time \in [S -> Nat], Len(h) # 0
    PROVE  /\ PushHeap(h, time) \in Seq(S)
           /\ Len(PushHeap(h, time)) = Len(h)
           /\ Elements(PushHeap(h, time)) = Elements(h)
           /\ HeapUpTo(h, Len(h) - 1, time) => IsHeap(PushHeap(h, time), time)
<1> DEFINE n == Len(h)
<1>0. n \in Nat /\ n >= 1 /\ n \in 1..n
    OBVIOUS
<1>1. PICK U : U = Path(h, time)
    OBVIOUS
<1>2. U \in SUBSET (1..n) /\ n \in U
    BY <1>1, PathFacts
<1>3. \A p \in U \ {n} : time[h[n]] < time[h[p]] /\ \E q \in U : q \div 2 = p
    BY <1>1, PathFacts
<1>4. \A p \in U : p >= 2 /\ time[h[n]] < time[h[p \div 2]] => p \div 2 \in U
    BY <1>1, PathFacts
<1>5. PICK g : g = [i \in 1..n |-> IF i \notin U THEN h[i]
                                  ELSE IF i \div 2 \in U THEN h[i \div 2] ELSE h[n]]
    OBVIOUS
<1>6. PushHeap(h, time) = g
    BY <1>1, <1>5 DEF PushHeap
<1>7. \A i \in 1..n : h[i] \in S /\ time[h[i]] \in Nat
    OBVIOUS
<1>8. \A i \in 1..n : i \notin U => g[i] = h[i]
    BY <1>5
<1>9. \A i \in U : i \div 2 \in U => g[i] = h[i \div 2]
    BY <1>2, <1>5
<1>10. \A i \in U : i \div 2 \notin U => g[i] = h[n]
    BY <1>2, <1>5
<1>11. \A i \in 1..n : g[i] \in S
    BY <1>0, <1>2, <1>7, <1>8, <1>9, <1>10
<1>12. g \in Seq(S) /\ Len(g) = n
    <2>1. g \in [1..n -> S]
        BY <1>5, <1>11
    <2>2. g \in Seq(S)
        BY <1>0, <2>1
    <2> QED BY <1>0, <2>1, <2>2
<1>13. Elements(g) = Elements(h)
    <2>1. ASSUME NEW i \in 1..n PROVE \E j \in 1..n : g[i] = h[j]
        BY <1>0, <1>2, <1>8, <1>9, <1>10
    <2>2. ASSUME NEW j \in 1..n PROVE \E i \in 1..n : g[i] = h[j]
        <3>1. CASE j \notin U
            BY <1>8, <3>1
        <3>2. CASE j \in U /\ j # n
            <4>1. PICK q \in U : q \div 2 = j
                BY <1>3, <3>2
            <4> QED BY <1>2, <1>9, <3>2, <4>1
        <3>3. CASE j = n
            <4>1. U \in SUBSET Nat /\ U # {}
                BY <1>2
            <4>2. PICK x \in U : \A y \in U : x <= y
                BY <4>1, LeastElement
            <4>3. x \in 1..n
                BY <1>2
            <4>4. x \div 2 \notin U
                <5>1. CASE x = 1
                    <6>1. x \div 2 = 0
                        BY <5>1, Halving
                    <6> QED BY <1>2, <6>1
                <5>2. CASE x >= 2
                    <6>1. x \div 2 \in 1..(x - 1)
                        BY <4>3, <5>2, Halving
                    <6> QED BY <4>2, <4>3, <6>1
                <5> QED BY <4>3, <5>1, <5>2
            <4> QED BY <1>10, <3>3, <4>3, <4>4
        <3> QED BY <3>1, <3>2, <3>3
    <2>3. Elements(g) = {g[i] : i \in 1..n} /\ Elements(h) = {h[i] : i \in 1..n}
        BY <1>12 DEF Elements
    <2> QED BY <2>1, <2>2, <2>3, ZenonT(40)
<1>14. ASSUME HeapUpTo(h, n - 1, time) PROVE IsHeap(g, time)
    <2> SUFFICES ASSUME NEW i \in 2..n PROVE time[g[i \div 2]] <= time[g[i]]
        BY <1>12 DEF IsHeap
    <2> DEFINE j == i \div 2
    <2>1. i \in 1..n /\ i \in Nat /\ i >= 2 /\ j \in 1..n /\ j \in 1..(n - 1) /\ j < i
        BY <1>0, Halving
    <2>2. \A k \in 2..(n - 1) : time[h[k \div 2]] <= time[h[k]]
        BY <1>14 DEF HeapUpTo
    <2> HIDE DEF j
    <2>3. j \in U => \/ g[j] = h[n] /\ time[h[n]] < time[h[j]]
                     \/ g[j] = h[j \div 2] /\ j >= 2 /\ time[h[j \div 2]] <= time[h[j]]
        <3>1. j # n
            BY <2>1
        <3>2. j \in U => time[h[n]] < time[h[j]]
            BY <1>3, <3>1
        <3>3. j \div 2 \in U => j >= 2
            <4>1. j = 1 => j \div 2 = 0
                BY Halving
            <4> QED BY <1>2, <2>1, <4>1
        <3>4. j >= 2 => time[h[j \div 2]] <= time[h[j]]
            BY <2>1, <2>2
        <3> QED BY <1>9, <1>10, <3>2, <3>3, <3>4
    <2>4. j \in U => time[g[j]] <= time[h[j]] /\ time[g[j]] \in Nat
        <3>1. j >= 2 => j \div 2 \in 1..n
            BY <2>1, Halving
        <3>2. time[h[n]] \in Nat /\ time[h[j]] \in Nat
            BY <1>0, <1>7, <2>1
        <3>3. j >= 2 => time[h[j \div 2]] \in Nat
            BY <1>7, <3>1
        <3> QED BY <2>3, <3>2, <3>3
    <2>5. CASE i \in U /\ j \in U
        <3>1. g[i] = h[j]
            BY <1>9, <2>5 DEF j
        <3> QED BY <2>4, <2>5, <3>1 DEF j
    <2>6. CASE i \in U /\ j \notin U
        <3>1. g[i] = h[n] /\ g[j] = h[j]
            BY <1>8, <1>10, <2>1, <2>6 DEF j
        <3>2. ~(time[h[n]] < time[h[j]])
            BY <1>4, <2>1, <2>6 DEF j
        <3>3. time[h[n]] \in Nat /\ time[h[j]] \in Nat
            BY <1>0, <1>7, <2>1
        <3> QED BY <3>1, <3>2, <3>3 DEF j
    <2>7. CASE i \notin U
        <3>1. i \in 2..(n - 1)
            BY <1>2, <2>1, <2>7
        <3>2. time[h[j]] <= time[h[i]] /\ g[i] = h[i]
            BY <1>8, <2>1, <2>2, <2>7, <3>1 DEF j
        <3>3. time[h[i]] \in Nat /\ time[h[j]] \in Nat
            BY <1>7, <2>1
        <3>4. time[g[j]] <= time[h[j]] /\ time[g[j]] \in Nat
            BY <1>8, <2>1, <2>4, <3>3
        <3> QED BY <3>2, <3>3, <3>4 DEF j
    <2> QED BY <2>5, <2>6, <2>7
<1> QED BY <1>6, <1>12, <1>13, <1>14

(* pop_heap and make_heap only rearrange the elements. *)
LEMMA RearrangementFacts ==
    ASSUME NEW S, NEW h \in Seq(S), NEW g \in Rearrangements(h)
    PROVE  g \in Seq(S) /\ Len(g) = Len(h) /\ Elements(g) = Elements(h)
<1> DEFINE n == Len(h)
<1>1. n \in Nat /\ \A i \in 1..n : h[i] \in S
    OBVIOUS
<1>2. Elements(h) \subseteq S
    BY DEF Elements
<1>3. g \in [1..n -> Elements(h)]
    BY DEF Rearrangements
<1>4. g \in Seq(S) /\ Len(g) = n
    <2>1. g \in [1..n -> S]
        BY <1>2, <1>3
    <2> QED BY <1>1, <2>1
<1>5. ASSUME NEW x \in Elements(h) PROVE \E i \in 1..n : g[i] = x
    <2> DEFINE A == {i \in 1..n : g[i] = x}
    <2> DEFINE B == {i \in 1..n : h[i] = x}
    <2>1. Cardinality(A) = Cardinality(B)
        BY DEF Rearrangements
    <2>2. IsFiniteSet(1..n)
        BY <1>1, FS_Interval
    <2>3. IsFiniteSet(A) /\ IsFiniteSet(B)
        BY <2>2, FS_Subset
    <2>4. B # {}
        BY DEF Elements
    <2>5. A # {}
        <3> HIDE DEF A, B
        <3> QED BY <2>1, <2>3, <2>4, FS_EmptySet
    <2> QED BY <2>5
<1>6. \A i \in 1..n : g[i] \in Elements(h)
    BY <1>3
<1> QED BY <1>4, <1>5, <1>6 DEF Elements

-----------------------------------------------------------------------------
(* The vector as a set of timers.                                            *)

Distinct(h) == \A i, j \in 1..Len(h) : h[i] = h[j] => i = j

(* A vector is as long as it has elements exactly when it has none twice. *)
LEMMA CountElements ==
    ASSUME NEW S, NEW h \in Seq(S)
    PROVE  /\ IsFiniteSet(Elements(h))
           /\ Len(h) = Cardinality(Elements(h)) <=> Distinct(h)
<1> DEFINE n == Len(h)
<1>0. n \in Nat
    OBVIOUS
<1>1. IsFiniteSet(1..n) /\ Cardinality(1..n) = n
    BY <1>0, FS_Interval, SMTT(30)
<1>2. h \in [1..n -> Elements(h)]
    BY DEF Elements
<1>3. h \in Surjection(1..n, Elements(h))
    BY <1>2 DEF Surjection, Elements
<1>4. /\ IsFiniteSet(Elements(h))
      /\ Cardinality(Elements(h)) = Cardinality(1..n) <=> h \in Injection(1..n, Elements(h))
    BY <1>1, <1>3, FS_Surjection
<1>5. h \in Injection(1..n, Elements(h)) <=> Distinct(h)
    BY <1>2 DEF Injection, IsInjective, Distinct
<1> QED BY <1>1, <1>4, <1>5

(* push_back of a timer that is not in the vector. *)
LEMMA AppendElements ==
    ASSUME NEW S, NEW h \in Seq(S), NEW t \in S, t \notin Elements(h), Distinct(h)
    PROVE  /\ Append(h, t) \in Seq(S) /\ Len(Append(h, t)) = Len(h) + 1
           /\ Elements(Append(h, t)) = Elements(h) \cup {t}
           /\ Distinct(Append(h, t))
<1> DEFINE g == Append(h, t)
<1>1. /\ g \in Seq(S) /\ Len(g) = Len(h) + 1 /\ g[Len(h) + 1] = t
      /\ \A i \in 1..Len(h) : g[i] = h[i]
      /\ Len(h) \in Nat
    OBVIOUS
<1> HIDE DEF g
<1>2. \A i \in 1..Len(g) : i \in 1..Len(h) \/ i = Len(h) + 1
    BY <1>1
<1>3. \A i \in 1..Len(h) : h[i] # t
    BY DEF Elements
<1>4. \A i \in 1..Len(h) : i \in 1..Len(g)
    BY <1>1
<1>5. Len(h) + 1 \in 1..Len(g)
    BY <1>1
<1>6. Elements(g) = Elements(h) \cup {t}
    BY <1>1, <1>2, <1>4, <1>5 DEF Elements
<1>7. Distinct(g)
    BY <1>1, <1>2, <1>3 DEF Distinct
<1> QED BY <1>1, <1>6, <1>7 DEF g

(* Deleting the timer at place i: the last one takes its place. *)
SwapAndPop(h, i) == SubSeq([h EXCEPT ![i] = h[Len(h)]], 1, Len(h) - 1)

(* removeTimer: only the timer at i goes, and no timer is in the vector      *)
(* twice.                                                                    *)
LEMMA SwapAndPopElements ==
    ASSUME NEW S, NEW h \in Seq(S), NEW i \in 1..Len(h)
    PROVE  /\ SwapAndPop(h, i) \in Seq(S)
           /\ Distinct(h) => /\ Elements(SwapAndPop(h, i)) = Elements(h) \ {h[i]}
                             /\ Distinct(SwapAndPop(h, i))
<1>0. PICK g : g = SwapAndPop(h, i)
    OBVIOUS
<1> DEFINE n == Len(h)
<1> DEFINE e == [h EXCEPT ![i] = h[n]]
<1>1. n \in Nat /\ n >= 1 /\ n \in 1..n /\ n - 1 \in Nat
    OBVIOUS
<1>2. e \in Seq(S) /\ Len(e) = n
    OBVIOUS
<1>3. \A k \in 1..n : e[k] = IF k = i THEN h[n] ELSE h[k]
    OBVIOUS
<1> HIDE DEF e
<1>4. g = SubSeq(e, 1, n - 1)
    BY <1>0 DEF e, SwapAndPop
<1>5. g \in Seq(S) /\ Len(g) = n - 1 /\ \A k \in 1..(n - 1) : g[k] = e[k]
    BY <1>1, <1>2, <1>4
<1>6. \A k \in 1..(n - 1) : k \in 1..n /\ k # n /\ g[k] = IF k = i THEN h[n] ELSE h[k]
    BY <1>1, <1>3, <1>5
<1>7. ASSUME Distinct(h) PROVE Elements(g) = Elements(h) \ {h[i]} /\ Distinct(g)
    <2>1. \A k, l \in 1..n : h[k] = h[l] => k = l
        BY <1>7 DEF Distinct
    <2>2. ASSUME NEW k \in 1..(n - 1) PROVE g[k] \in Elements(h) /\ g[k] # h[i]
        <3>1. g[k] \in Elements(h)
            BY <1>1, <1>6 DEF Elements
        <3>2. k = i => i # n
            BY <1>6
        <3> QED BY <1>1, <1>6, <2>1, <3>1, <3>2
    <2>3. ASSUME NEW k \in 1..n, k # i PROVE \E l \in 1..(n - 1) : g[l] = h[k]
        <3>1. CASE k = n
            <4>1. i \in 1..(n - 1)
                BY <1>1, <2>3, <3>1
            <4> QED BY <1>6, <3>1, <4>1
        <3>2. CASE k # n
            <4>1. k \in 1..(n - 1)
                BY <1>1, <3>2
            <4> QED BY <1>6, <2>3, <4>1
        <3> QED BY <3>1, <3>2
    <2>4. Elements(g) = {g[k] : k \in 1..(n - 1)} /\ Elements(h) = {h[k] : k \in 1..n}
        BY <1>5 DEF Elements
    <2>5. Elements(g) = Elements(h) \ {h[i]}
        <3>1. ASSUME NEW x \in Elements(g) PROVE x \in Elements(h) \ {h[i]}
            BY <2>2, <2>4
        <3>2. ASSUME NEW x \in Elements(h), x # h[i] PROVE x \in Elements(g)
            <4>1. PICK k \in 1..n : x = h[k]
                BY <2>4
            <4>2. k # i
                BY <3>2, <4>1
            <4>3. PICK l \in 1..(n - 1) : g[l] = h[k]
                BY <2>3, <4>2
            <4> QED BY <2>4, <4>1, <4>3
        <3> QED BY <3>1, <3>2
    <2>6. \A k, l \in 1..(n - 1) : g[k] = g[l] => k = l
        BY <1>1, <1>6, <2>1
    <2> QED BY <1>5, <2>5, <2>6 DEF Distinct
<1> QED BY <1>0, <1>5, <1>7

(* The vector after removeObjTimers(o). *)
Remaining(h, o) == CloseUp(h, {i \in 1..Len(h) : obj[h[i]] # o})

(* Each place that is left after the pass is filled from one of the places   *)
(* whose timer stays, and from each of them once: two such places have as    *)
(* many before them only if they are the same, so none is missed.            *)
LEMMA NthKeptOnto ==
    ASSUME NEW I \in SUBSET Nat, IsFiniteSet(I), NEW m \in Nat, m = Cardinality(I)
    PROVE  /\ \A k \in 1..m : NthKept(I, k) \in I
           /\ \A k, l \in 1..m : NthKept(I, k) = NthKept(I, l) => k = l
           /\ \A i \in I : \E k \in 1..m : NthKept(I, k) = i
<1> DEFINE U(i) == {j \in I : j <= i}
<1> DEFINE rank == [i \in I |-> Cardinality(U(i))]
<1>1. ASSUME NEW i \in I PROVE rank[i] \in 1..m
    <2>1. IsFiniteSet(U(i)) /\ Cardinality(U(i)) <= m /\ U(i) # {}
        BY FS_Subset
    <2>2. Cardinality(U(i)) \in Nat /\ Cardinality(U(i)) # 0
        BY <2>1, FS_CardinalityType, FS_EmptySet
    <2> QED BY <2>1, <2>2
<1>2. ASSUME NEW i \in I, NEW j \in I, i < j PROVE rank[i] # rank[j]
    <2>1. U(i) \in SUBSET U(j) /\ j \in U(j) /\ j \notin U(i)
        <3>1. j \in U(j) /\ j \notin U(i)
            BY <1>2
        <3>2. ASSUME NEW l \in U(i) PROVE l \in U(j)
            <4>1. l \in Nat /\ i \in Nat /\ j \in Nat
                OBVIOUS
            <4> QED BY <1>2, <4>1
        <3> QED BY <3>1, <3>2
    <2>2. IsFiniteSet(U(j)) /\ U(i) # U(j)
        BY <2>1, FS_Subset
    <2>3. Cardinality(U(i)) # Cardinality(U(j))
        BY <2>1, <2>2, FS_Subset
    <2> QED BY <2>3
<1>3. \A i, j \in I : rank[i] = rank[j] => i = j
    <2>1. \A i, j \in I : i < j \/ j < i \/ i = j
        OBVIOUS
    <2> HIDE DEF rank
    <2> QED BY <1>2, <2>1
<1>4. rank \in Injection(I, 1..m)
    <2>1. rank \in [I -> 1..m]
        BY <1>1
    <2> QED BY <1>3, <2>1 DEF Injection, IsInjective
<1>5. rank \in Surjection(I, 1..m)
    <2>1. IsFiniteSet(1..m) /\ Cardinality(1..m) = m
        BY FS_Interval
    <2> QED BY <1>4, <2>1, FS_Injection
<1>6. \A k \in 1..m : \E i \in I : rank[i] = k
    <2> HIDE DEF rank
    <2> QED BY <1>5 DEF Surjection
<1>7. \A k : NthKept(I, k) = CHOOSE i \in I : rank[i] = k
    BY DEF NthKept
<1> HIDE DEF rank
<1>8. \A k \in 1..m : NthKept(I, k) \in I /\ rank[NthKept(I, k)] = k
    BY <1>6, <1>7
<1>9. \A i \in I : NthKept(I, rank[i]) = i
    BY <1>1, <1>3, <1>8
<1> QED BY <1>1, <1>8, <1>9

(* removeObjTimers: exactly the timers of the object go.                     *)
LEMMA RemainingElements ==
    ASSUME NEW h \in Seq(Timers), NEW o
    PROVE  /\ Remaining(h, o) \in Seq(Timers)
           /\ Elements(Remaining(h, o)) = {t \in Elements(h) : obj[t] # o}
           /\ Distinct(h) => Distinct(Remaining(h, o))
<1> DEFINE n == Len(h)
<1>1. PICK I : I = {i \in 1..n : obj[h[i]] # o}
    OBVIOUS
<1>2. n \in Nat /\ I \in SUBSET (1..n) /\ I \in SUBSET Nat
    BY <1>1
<1>3. IsFiniteSet(I) /\ Cardinality(I) \in Nat
    <2>1. IsFiniteSet(1..n)
        BY <1>2, FS_Interval
    <2> QED BY <1>2, <2>1, FS_Subset, FS_CardinalityType
<1>4. PICK m \in Nat : m = Cardinality(I)
    BY <1>3
<1>5. /\ \A k \in 1..m : NthKept(I, k) \in I
      /\ \A k, l \in 1..m : NthKept(I, k) = NthKept(I, l) => k = l
      /\ \A i \in I : \E k \in 1..m : NthKept(I, k) = i
    BY <1>2, <1>3, <1>4, NthKeptOnto
<1>6. PICK g : g = [k \in 1..m |-> h[NthKept(I, k)]]
    OBVIOUS
<1>7. Remaining(h, o) = g
    BY <1>1, <1>4, <1>6 DEF Remaining, CloseUp
<1>8. \A k \in 1..m : g[k] = h[NthKept(I, k)] /\ NthKept(I, k) \in 1..n
    BY <1>2, <1>5, <1>6
<1>9. \A i \in 1..n : h[i] \in Timers
    OBVIOUS
<1>10. g \in Seq(Timers) /\ Len(g) = m
    <2>1. g \in [1..m -> Timers]
        BY <1>6, <1>8, <1>9
    <2> QED BY <1>4, <2>1
<1>11. Elements(g) = {t \in Elements(h) : obj[t] # o}
    <2>1. \A k \in 1..m : g[k] \in Elements(h) /\ obj[g[k]] # o
        BY <1>1, <1>5, <1>8, ZenonT(40) DEF Elements
    <2>2. ASSUME NEW i \in 1..n, obj[h[i]] # o PROVE \E k \in 1..m : g[k] = h[i]
        <3>1. i \in I
            BY <1>1, <2>2
        <3>2. PICK k \in 1..m : NthKept(I, k) = i
            BY <1>5, <3>1
        <3> QED BY <1>8, <3>2
    <2>3. Elements(g) = {g[k] : k \in 1..m} /\ Elements(h) = {h[i] : i \in 1..n}
        BY <1>10 DEF Elements
    <2> QED BY <2>1, <2>2, <2>3
<1>12. ASSUME Distinct(h) PROVE Distinct(g)
    <2>1. \A k, l \in 1..m : g[k] = g[l] => NthKept(I, k) = NthKept(I, l)
        BY <1>8, <1>12 DEF Distinct
    <2> QED BY <1>5, <1>10, <2>1 DEF Distinct
<1> QED BY <1>7, <1>10, <1>11, <1>12

-----------------------------------------------------------------------------
(* The inductive invariant.                                                  *)

(* While callbacks leave the timers alone, the vector holds each registered  *)
(* timer once, and during a callback the timer being called is at its back,  *)
(* where poll will write it.                                                 *)
VectorExact ==
    ~meddled =>
        /\ pc # "crashed"
        /\ Elements(timerCallbacks) = registered
        /\ Distinct(timerCallbacks)
        /\ pc = "callback" =>
              Len(timerCallbacks) # 0 /\ timerCallbacks[Len(timerCallbacks)] = to

(* The vector is a heap, without its last place during a callback. *)
HeapKept ==
    ~meddled /\ ~compacted =>
        HeapUpTo(timerCallbacks, IF pc = "callback" THEN Len(timerCallbacks) - 1
                                 ELSE Len(timerCallbacks), timeout)

(* A timer that this poll has called, and that is still registered, has not  *)
(* expired at the time the poll goes by.                                     *)
FiredAreLater ==
    /\ pc = "app" => fired = {}
    /\ \A t \in fired \cap registered : tv <= timeout[t]

IInv == TypeOK /\ VectorExact /\ HeapKept /\ FiredAreLater

(* When the times of the timers in a heap do not change, it stays one. *)
LEMMA HeapUnchanged ==
    ASSUME NEW h \in Seq(Timers), NEW m \in 0..Len(h), NEW time, NEW time2,
           \A i \in 1..m : time2[h[i]] = time[h[i]], HeapUpTo(h, m, time)
    PROVE  HeapUpTo(h, m, time2)
<1> SUFFICES ASSUME NEW i \in 2..m PROVE time2[h[i \div 2]] <= time2[h[i]]
    BY DEF HeapUpTo
<1>1. m \in Nat
    OBVIOUS
<1>2. i \in 1..m /\ i \div 2 \in 1..m
    BY <1>1, Halving
<1>3. time[h[i \div 2]] <= time[h[i]]
    BY DEF HeapUpTo
<1> QED BY <1>2, <1>3

(* Intervals are numbers. *)
LEMMA IntervalsNat == \A x \in Intervals \cup {0} : x \in Nat
BY TimerAssumption

(* Types, and with them the time of a poll, are kept by every step. *)
LEMMA TypeStep == TypeOK /\ [Next]_vars => TypeOK'
<1> SUFFICES ASSUME TypeOK, [Next]_vars PROVE TypeOK'
    OBVIOUS
<1>0. /\ Intervals \subseteq Nat /\ MaxNow \in Nat
      /\ now \in Nat /\ tv \in Nat /\ tv <= now /\ now <= MaxNow
    BY TimerAssumption DEF TypeOK
<1>1. CASE Tick
    BY <1>0, <1>1 DEF Tick, TypeOK
<1>2. ASSUME NEW t \in Timers, NEW interval \in Intervals, AddTimer(t, interval)
      PROVE  TypeOK'
    <2>1. milliInter' \in [Timers -> Intervals \cup {0}] /\ timeout' \in [Timers -> Nat]
        BY <1>0, <1>2 DEF AddTimer, TypeOK
    <2>2. timerCallbacks \in Seq(Timers)
        BY DEF TypeOK
    <2>3. Append(timerCallbacks, t) \in Seq(Timers) /\ Len(Append(timerCallbacks, t)) # 0
        BY <2>2
    <2>4. timerCallbacks' \in Seq(Timers)
        <3>1. PushHeap(Append(timerCallbacks, t), timeout') \in Seq(Timers)
            BY <2>1, <2>3, PushHeapFacts
        <3> QED BY <1>2, <3>1 DEF AddTimer
    <2> QED BY <1>2, <2>1, <2>4 DEF AddTimer, Meddles, TypeOK
<1>3. ASSUME NEW t \in Timers, RemoveTimer(t) PROVE TypeOK'
    <2>1. timerCallbacks \in Seq(Timers)
        BY DEF TypeOK
    <2>2. PICK i \in 1..Len(timerCallbacks) :
              timerCallbacks' \in MakeHeap(SwapAndPop(timerCallbacks, i), timeout)
        BY <1>3 DEF RemoveTimer, SwapAndPop
    <2>3. timerCallbacks' \in Seq(Timers)
        BY <2>1, <2>2, SwapAndPopElements, RearrangementFacts DEF MakeHeap
    <2>4. milliInter' \in [Timers -> Intervals \cup {0}] /\ timeout' \in [Timers -> Nat]
        BY <1>0, <1>3 DEF RemoveTimer, ClearFields, TypeOK
    <2> QED BY <1>3, <2>3, <2>4 DEF RemoveTimer, Meddles, TypeOK
<1>4. ASSUME NEW o \in Objs, RemoveObjTimers(o) PROVE TypeOK'
    <2>1. timerCallbacks' = Remaining(timerCallbacks, o)
        BY <1>4 DEF RemoveObjTimers, Remaining
    <2>2. timerCallbacks' \in Seq(Timers)
        BY <2>1, RemainingElements DEF TypeOK
    <2>3. milliInter' \in [Timers -> Intervals \cup {0}] /\ timeout' \in [Timers -> Nat]
        BY <1>0, <1>4 DEF RemoveObjTimers, ClearFields, TypeOK
    <2> QED BY <1>4, <2>2, <2>3 DEF RemoveObjTimers, Meddles, TypeOK
<1>5. CASE DestroyIoqueue
    <2>1. milliInter' \in [Timers -> Intervals \cup {0}] /\ timeout' \in [Timers -> Nat]
        BY <1>0, <1>5 DEF DestroyIoqueue, ClearFields, TypeOK
    <2>2. timerCallbacks' \in Seq(Timers)
        BY <1>5 DEF DestroyIoqueue
    <2> QED BY <1>5, <2>1, <2>2 DEF DestroyIoqueue, TypeOK
<1>6. CASE Poll
    BY <1>0, <1>6 DEF Poll, TypeOK
<1>7. CASE FireTimer
    <2>1. timerCallbacks' \in Seq(Timers)
        BY <1>7, RearrangementFacts DEF FireTimer, PopHeap, TypeOK
    <2>2. timerCallbacks[1] \in Timers
        BY <1>7 DEF FireTimer, Due, TypeOK
    <2> QED BY <1>7, <2>1, <2>2 DEF FireTimer, TypeOK
<1>8. CASE CallbackReturns
    <2>1. CASE to \in registered /\ timerCallbacks # <<>>
        <3>1. timeout' \in [Timers -> Nat]
            <4>1. milliInter[to] \in Nat
                <5>1. milliInter[to] \in Intervals \cup {0}
                    BY <2>1 DEF TypeOK
                <5> QED BY <5>1, IntervalsNat, Zenon
            <4>2. timeout' = [timeout EXCEPT ![to] = now + milliInter[to]]
                BY <1>8, <2>1 DEF CallbackReturns
            <4>3. now + milliInter[to] \in Nat
                BY <1>0, <4>1
            <4> QED BY <4>2, <4>3 DEF TypeOK
        <3>2. PICK h : h = [timerCallbacks EXCEPT ![Len(timerCallbacks)] = to]
            OBVIOUS
        <3>3. h \in Seq(Timers) /\ Len(h) # 0
            BY <2>1, <3>2 DEF TypeOK
        <3>4. timerCallbacks' = PushHeap(h, timeout')
            BY <1>8, <2>1, <3>2 DEF CallbackReturns
        <3>5. timerCallbacks' \in Seq(Timers)
            BY <3>1, <3>3, <3>4, PushHeapFacts
        <3> QED BY <1>8, <2>1, <3>1, <3>5 DEF CallbackReturns, TypeOK
    <2>2. CASE ~(to \in registered /\ timerCallbacks # <<>>)
        BY <1>8, <2>2 DEF CallbackReturns, TypeOK
    <2> QED BY <2>1, <2>2
<1>9. CASE LoopEnds
    BY <1>0, <1>9 DEF LoopEnds, TypeOK
<1>10. CASE UNCHANGED vars
    BY <1>10 DEF vars, TypeOK
<1> QED BY <1>1, <1>2, <1>3, <1>4, <1>5, <1>6, <1>7, <1>8, <1>9, <1>10 DEF Next

(* The vector stays exact. *)
LEMMA VectorStep == IInv /\ [Next]_vars => VectorExact'
<1> SUFFICES ASSUME IInv, [Next]_vars, ~meddled' PROVE VectorExact'
    BY DEF VectorExact
<1> DEFINE h == timerCallbacks
<1>0. h \in Seq(Timers) /\ timeout \in [Timers -> Nat]
    BY DEF IInv, TypeOK
<1>1. CASE ~meddled
    <2>0. /\ pc # "crashed" /\ Elements(h) = registered /\ Distinct(h)
          /\ pc = "callback" => Len(h) # 0 /\ h[Len(h)] = to
        BY <1>1 DEF IInv, VectorExact
    <2>1. CASE Tick
        BY <2>0, <2>1 DEF Tick, VectorExact
    <2>2. ASSUME NEW t \in Timers, NEW interval \in Intervals, AddTimer(t, interval)
          PROVE  VectorExact'
        <3>1. pc = "app" /\ pc' = pc /\ t \notin registered
            BY <1>1, <2>2 DEF AddTimer, Meddles, May
        <3>2. timeout' \in [Timers -> Nat]
            BY TypeStep DEF IInv, TypeOK
        <3>3. PICK g : g = Append(h, t)
            OBVIOUS
        <3>4. /\ g \in Seq(Timers) /\ Len(g) # 0
              /\ Elements(g) = registered \cup {t} /\ Distinct(g)
            <4>1. g \in Seq(Timers) /\ Len(g) = Len(h) + 1
                BY <1>0, <2>0, <3>1, <3>3, AppendElements
            <4>2. Elements(g) = registered \cup {t} /\ Distinct(g)
                BY <1>0, <2>0, <3>1, <3>3, AppendElements
            <4> QED BY <1>0, <4>1, <4>2
        <3>5. timerCallbacks' = PushHeap(g, timeout')
            BY <2>2, <3>3 DEF AddTimer
        <3>6. /\ timerCallbacks' \in Seq(Timers) /\ Len(timerCallbacks') = Len(g)
              /\ Elements(timerCallbacks') = Elements(g)
            BY <3>2, <3>4, <3>5, PushHeapFacts
        <3>7. Distinct(timerCallbacks')
            BY <3>4, <3>6, CountElements
        <3>8. registered' = registered \cup {t}
            BY <2>2 DEF AddTimer
        <3> QED BY <3>1, <3>4, <3>6, <3>7, <3>8 DEF VectorExact, Elements, Distinct
    <2>3. ASSUME NEW t \in Timers, RemoveTimer(t) PROVE VectorExact'
        <3>1. pc = "app" /\ pc' = pc
            BY <1>1, <2>3 DEF RemoveTimer, Meddles, May
        <3>2. PICK i \in 1..Len(h) :
                 /\ h[i] = t
                 /\ timerCallbacks' \in MakeHeap(SwapAndPop(h, i), timeout)
            BY <2>3 DEF RemoveTimer, SwapAndPop
        <3>3. PICK g : g = SwapAndPop(h, i)
            OBVIOUS
        <3>4. g \in Seq(Timers) /\ Elements(g) = registered \ {t} /\ Distinct(g)
            <4>1. /\ g \in Seq(Timers)
                  /\ Distinct(h) => Elements(g) = Elements(h) \ {h[i]} /\ Distinct(g)
                BY <1>0, <3>3, SwapAndPopElements
            <4> QED BY <2>0, <3>2, <4>1
        <3>5. timerCallbacks' \in Rearrangements(g)
            BY <3>2, <3>3 DEF MakeHeap
        <3>6. /\ timerCallbacks' \in Seq(Timers) /\ Len(timerCallbacks') = Len(g)
              /\ Elements(timerCallbacks') = Elements(g)
            BY <3>4, <3>5, RearrangementFacts
        <3>7. Distinct(timerCallbacks')
            BY <3>4, <3>6, CountElements
        <3>8. registered' = registered \ {t}
            BY <2>3 DEF RemoveTimer
        <3> QED BY <3>1, <3>4, <3>6, <3>7, <3>8 DEF VectorExact, Elements, Distinct
    <2>4. ASSUME NEW o \in Objs, RemoveObjTimers(o) PROVE VectorExact'
        <3>1. pc = "app" /\ pc' = pc
            BY <1>1, <2>4 DEF RemoveObjTimers, Meddles, May
        <3>2. timerCallbacks' = Remaining(h, o)
            BY <2>4 DEF RemoveObjTimers, Remaining
        <3>3. Elements(timerCallbacks') = {t \in registered : obj[t] # o} /\ Distinct(timerCallbacks')
            BY <1>0, <2>0, <3>2, RemainingElements
        <3>4. registered' = {t \in registered : obj[t] # o}
            BY <2>4 DEF RemoveObjTimers
        <3> QED BY <3>1, <3>3, <3>4 DEF VectorExact, Elements, Distinct
    <2>5. CASE DestroyIoqueue
        BY <2>5 DEF DestroyIoqueue, VectorExact, Elements, Distinct
    <2>6. CASE Poll
        BY <2>0, <2>6 DEF Poll, VectorExact, Elements, Distinct
    <2>7. CASE FireTimer
        <3>1. timerCallbacks' \in Rearrangements(h) /\ timerCallbacks'[Len(h)] = h[1]
            BY <2>7 DEF FireTimer, PopHeap
        <3>2. /\ timerCallbacks' \in Seq(Timers) /\ Len(timerCallbacks') = Len(h)
              /\ Elements(timerCallbacks') = Elements(h)
            BY <1>0, <3>1, RearrangementFacts
        <3>3. Distinct(timerCallbacks')
            BY <1>0, <2>0, <3>2, CountElements
        <3>4. Len(h) # 0
            BY <1>0, <2>7 DEF FireTimer, Due
        <3>5. to' = h[1] /\ registered' = registered /\ pc' = "callback"
            BY <2>7 DEF FireTimer
        <3> QED BY <2>0, <3>1, <3>2, <3>3, <3>4, <3>5 DEF VectorExact, Elements, Distinct
    <2>8. CASE CallbackReturns
        <3>1. pc = "callback" /\ Len(h) # 0 /\ h[Len(h)] = to
            BY <2>0, <2>8 DEF CallbackReturns
        <3>2. to \in registered /\ h # <<>>
            BY <1>0, <2>0, <3>1 DEF Elements
        <3>3. [h EXCEPT ![Len(h)] = to] = h
            BY <1>0, <3>1
        <3>4. timerCallbacks' = PushHeap(h, timeout')
            BY <2>8, <3>2, <3>3 DEF CallbackReturns
        <3>5. timeout' \in [Timers -> Nat]
            BY TypeStep DEF IInv, TypeOK
        <3>6. /\ timerCallbacks' \in Seq(Timers) /\ Len(timerCallbacks') = Len(h)
              /\ Elements(timerCallbacks') = Elements(h)
            BY <1>0, <3>1, <3>4, <3>5, PushHeapFacts
        <3>7. Distinct(timerCallbacks')
            BY <1>0, <2>0, <3>6, CountElements
        <3>8. registered' = registered /\ pc' = "loop"
            BY <2>8, <3>2 DEF CallbackReturns
        <3> QED BY <2>0, <3>6, <3>7, <3>8 DEF VectorExact, Elements, Distinct
    <2>9. CASE LoopEnds
        BY <2>0, <2>9 DEF LoopEnds, VectorExact, Elements, Distinct
    <2>10. CASE UNCHANGED vars
        BY <2>0, <2>10 DEF vars, VectorExact, Elements, Distinct
    <2> QED BY <2>1, <2>2, <2>3, <2>4, <2>5, <2>6, <2>7, <2>8, <2>9, <2>10 DEF Next
<1>2. CASE meddled
    <2>1. meddled' = meddled \/ meddled' = (meddled \/ pc = "callback")
        BY DEF Next, vars, Tick, AddTimer, RemoveTimer, RemoveObjTimers, DestroyIoqueue,
               Poll, FireTimer, CallbackReturns, LoopEnds, Meddles
    <2> QED BY <1>2, <2>1
<1> QED BY <1>1, <1>2

(* The front stays the earliest. *)
LEMMA HeapStep == IInv /\ [Next]_vars => HeapKept'
<1> SUFFICES ASSUME IInv, [Next]_vars, ~meddled', ~compacted' PROVE HeapKept'
    BY DEF HeapKept
<1> DEFINE h == timerCallbacks
<1>0. h \in Seq(Timers) /\ timeout \in [Timers -> Nat] /\ Len(h) \in Nat
    BY DEF IInv, TypeOK
<1>1. ~meddled
    BY DEF Next, vars, Tick, AddTimer, RemoveTimer, RemoveObjTimers, DestroyIoqueue,
           Poll, FireTimer, CallbackReturns, LoopEnds, Meddles
<1>2. /\ pc # "crashed" /\ Elements(h) = registered /\ Distinct(h)
      /\ pc = "callback" => Len(h) # 0 /\ h[Len(h)] = to
    BY <1>1 DEF IInv, VectorExact
<1>3. ~compacted => HeapUpTo(h, IF pc = "callback" THEN Len(h) - 1 ELSE Len(h), timeout)
    BY <1>1 DEF IInv, HeapKept
<1>4. timeout' \in [Timers -> Nat] /\ timerCallbacks' \in Seq(Timers)
    BY TypeStep DEF IInv, TypeOK
<1>5. IsHeap(timerCallbacks', timeout') /\ pc' # "callback" => HeapKept'
    BY DEF IsHeap, HeapKept, HeapUpTo
<1>6. CASE timerCallbacks' = h /\ timeout' = timeout /\ pc' = pc /\ compacted' = compacted
    BY <1>3, <1>6 DEF HeapKept, HeapUpTo
<1>7. ASSUME NEW t \in Timers, NEW interval \in Intervals, AddTimer(t, interval)
      PROVE  HeapKept'
    <2>1. pc = "app" /\ pc' = pc /\ t \notin registered /\ compacted' = compacted
        BY <1>1, <1>7 DEF AddTimer, Meddles, May
    <2>2. PICK g : g = Append(h, t)
        OBVIOUS
    <2>3. /\ g \in Seq(Timers) /\ Len(g) = Len(h) + 1 /\ Len(g) # 0
          /\ \A i \in 1..Len(h) : g[i] = h[i]
        BY <1>0, <2>2
    <2>4. timerCallbacks' = PushHeap(g, timeout')
        BY <1>7, <2>2 DEF AddTimer
    <2>5. HeapUpTo(h, Len(h), timeout)
        BY <1>3, <2>1
    <2>6. \A i \in 1..Len(h) : timeout'[h[i]] = timeout[h[i]]
        <3>1. \A i \in 1..Len(h) : h[i] \in Timers /\ h[i] # t
            BY <1>0, <1>2, <2>1 DEF Elements
        <3>2. timeout' = [timeout EXCEPT ![t] = now + interval]
            BY <1>7 DEF AddTimer
        <3> QED BY <1>0, <3>1, <3>2
    <2>7. HeapUpTo(h, Len(h), timeout')
        BY <1>0, <2>5, <2>6, HeapUnchanged
    <2>8. HeapUpTo(g, Len(g) - 1, timeout')
        <3>1. Len(g) - 1 = Len(h)
            BY <1>0, <2>3
        <3>2. \A i \in 2..Len(h) : g[i] = h[i] /\ g[i \div 2] = h[i \div 2]
            <4>1. \A i \in 2..Len(h) : i \in 1..Len(h) /\ i \div 2 \in 1..Len(h)
                BY <1>0, Halving
            <4> QED BY <2>3, <4>1
        <3> QED BY <2>7, <3>1, <3>2 DEF HeapUpTo
    <2>9. IsHeap(timerCallbacks', timeout')
        BY <1>4, <2>3, <2>4, <2>8, PushHeapFacts
    <2> QED BY <1>5, <2>1, <2>9
<1>8. ASSUME NEW t \in Timers, RemoveTimer(t) PROVE HeapKept'
    <2>1. pc = "app" /\ pc' = pc /\ registered' = registered \ {t}
        BY <1>1, <1>8 DEF RemoveTimer, Meddles, May
    <2>2. IsHeap(timerCallbacks', timeout)
        BY <1>8 DEF RemoveTimer, MakeHeap
    <2>3. VectorExact'
        BY VectorStep
    <2>4. {timerCallbacks'[i] : i \in 1..Len(timerCallbacks')} = registered'
        BY <2>3 DEF VectorExact, Elements
    <2>5. PICK g : g = timerCallbacks'
        OBVIOUS
    <2>6. g \in Seq(Timers) /\ Len(g) \in Nat /\ \A i \in 1..Len(g) : g[i] \in Timers /\ g[i] # t
        <3>1. {g[i] : i \in 1..Len(g)} = registered \ {t}
            BY <2>1, <2>4, <2>5
        <3>2. ASSUME NEW i \in 1..Len(g) PROVE g[i] # t
            BY <3>1
        <3> QED BY <1>4, <2>5, <3>2
    <2>7. \A i \in 1..Len(g) : timeout'[g[i]] = timeout[g[i]]
        BY <1>0, <1>8, <2>6 DEF RemoveTimer, ClearFields
    <2>8. HeapUpTo(g, Len(g), timeout)
        BY <2>2, <2>5 DEF IsHeap, HeapUpTo
    <2>9. HeapUpTo(g, Len(g), timeout')
        BY <2>6, <2>7, <2>8, HeapUnchanged
    <2>10. IsHeap(timerCallbacks', timeout')
        BY <2>5, <2>9 DEF IsHeap, HeapUpTo
    <2> QED BY <1>5, <2>1, <2>10
<1>9. ASSUME NEW o \in Objs, RemoveObjTimers(o) PROVE HeapKept'
    BY <1>9 DEF RemoveObjTimers
<1>10. CASE DestroyIoqueue
    <2>1. timerCallbacks' = <<>> /\ pc' = "app"
        BY <1>10 DEF DestroyIoqueue
    <2> QED BY <1>5, <2>1 DEF IsHeap
<1>11. CASE FireTimer
    <2>1. pc = "loop" /\ pc' = "callback" /\ timeout' = timeout /\ compacted' = compacted
        BY <1>11 DEF FireTimer
    <2>2. IsHeap(h, timeout)
        BY <1>3, <2>1 DEF IsHeap, HeapUpTo
    <2>3. PICK g : g = timerCallbacks'
        OBVIOUS
    <2>4. g \in Rearrangements(h) /\ IsHeap(SubSeq(g, 1, Len(h) - 1), timeout)
        BY <1>11, <2>2, <2>3 DEF FireTimer, PopHeap
    <2>5. g \in Seq(Timers) /\ Len(g) = Len(h)
        BY <1>0, <2>4, RearrangementFacts
    <2>6. Len(h) # 0
        BY <1>0, <1>11 DEF FireTimer, Due
    <2>7. PICK s : s = SubSeq(g, 1, Len(h) - 1)
        OBVIOUS
    <2>8. Len(s) = Len(h) - 1 /\ \A i \in 1..(Len(h) - 1) : s[i] = g[i]
        BY <1>0, <2>5, <2>6, <2>7
    <2>9. HeapUpTo(g, Len(g) - 1, timeout)
        <3> SUFFICES ASSUME NEW i \in 2..(Len(h) - 1)
                     PROVE  timeout[g[i \div 2]] <= timeout[g[i]]
            BY <2>5 DEF HeapUpTo
        <3>1. i \in 1..(Len(h) - 1) /\ i \div 2 \in 1..(Len(h) - 1)
            BY <1>0, Halving
        <3>2. timeout[s[i \div 2]] <= timeout[s[i]]
            BY <2>4, <2>7, <2>8 DEF IsHeap
        <3> QED BY <2>8, <3>1, <3>2
    <2> QED BY <2>1, <2>3, <2>9 DEF HeapKept, HeapUpTo
<1>12. CASE CallbackReturns
    <2>1. pc = "callback" /\ Len(h) # 0 /\ h[Len(h)] = to
        BY <1>2, <1>12 DEF CallbackReturns
    <2>2. to \in registered /\ h # <<>>
        BY <1>0, <1>2, <2>1 DEF Elements
    <2>3. [h EXCEPT ![Len(h)] = to] = h
        BY <1>0, <2>1
    <2>4. timerCallbacks' = PushHeap(h, timeout') /\ compacted' = compacted /\ pc' = "loop"
        BY <1>12, <2>2, <2>3 DEF CallbackReturns
    <2>5. HeapUpTo(h, Len(h) - 1, timeout)
        BY <1>3, <2>1, <2>4
    <2>6. \A i \in 1..(Len(h) - 1) : timeout'[h[i]] = timeout[h[i]]
        <3>1. \A i \in 1..(Len(h) - 1) : h[i] \in Timers /\ h[i] # to
            BY <1>0, <1>2, <2>1 DEF Distinct
        <3>2. timeout' = [timeout EXCEPT ![to] = now + milliInter[to]]
            BY <1>12, <2>2 DEF CallbackReturns
        <3> QED BY <1>0, <3>1, <3>2
    <2>7. HeapUpTo(h, Len(h) - 1, timeout')
        <3>1. Len(h) - 1 \in 0..Len(h)
            BY <1>0, <2>1
        <3> QED BY <1>0, <2>5, <2>6, <3>1, HeapUnchanged
    <2>8. IsHeap(timerCallbacks', timeout')
        BY <1>0, <1>4, <2>1, <2>4, <2>7, PushHeapFacts
    <2> QED BY <1>5, <2>4, <2>8
<1>13. CASE Poll \/ LoopEnds
    <2>1. /\ timerCallbacks' = h /\ timeout' = timeout /\ compacted' = compacted
          /\ pc # "callback" /\ pc' # "callback"
        BY <1>13 DEF Poll, LoopEnds
    <2>2. HeapUpTo(h, Len(h), timeout)
        BY <1>3, <2>1
    <2> QED BY <2>1, <2>2 DEF HeapKept, HeapUpTo
<1>14. CASE Tick \/ UNCHANGED vars
    BY <1>6, <1>14 DEF Tick, vars
<1> QED BY <1>7, <1>8, <1>9, <1>10, <1>11, <1>12, <1>13, <1>14 DEF Next

(* A timer that was called stays out of this poll. *)
LEMMA FiredStep == IInv /\ [Next]_vars => FiredAreLater'
<1> SUFFICES ASSUME IInv, [Next]_vars PROVE FiredAreLater'
    OBVIOUS
<1>0. /\ Intervals \subseteq Nat /\ now \in Nat /\ tv \in Nat /\ tv <= now
      /\ timeout \in [Timers -> Nat] /\ milliInter \in [Timers -> Intervals \cup {0}]
      /\ registered \subseteq Timers
    BY TimerAssumption DEF IInv, TypeOK
<1>1. (pc = "app" => fired = {}) /\ \A t \in fired \cap registered : tv <= timeout[t]
    BY DEF IInv, FiredAreLater
<1>2. ASSUME NEW t \in Timers, NEW interval \in Intervals, AddTimer(t, interval)
      PROVE  FiredAreLater'
    <2>1. /\ timeout' = [timeout EXCEPT ![t] = now + interval] /\ registered' = registered \cup {t}
          /\ fired' = fired /\ tv' = tv /\ pc' = pc
        BY <1>2 DEF AddTimer
    <2>2. tv <= now + interval
        BY <1>0
    <2>3. \A u \in Timers : timeout'[u] = IF u = t THEN now + interval ELSE timeout[u]
        BY <1>0, <2>1
    <2>4. ASSUME NEW u \in fired \cap registered' PROVE tv <= timeout'[u]
        BY <1>0, <1>1, <2>1, <2>2, <2>3
    <2> QED BY <1>1, <2>1, <2>4 DEF FiredAreLater
<1>3. ASSUME NEW t \in Timers, RemoveTimer(t) PROVE FiredAreLater'
    BY <1>0, <1>1, <1>3 DEF RemoveTimer, ClearFields, FiredAreLater
<1>4. ASSUME NEW o \in Objs, RemoveObjTimers(o) PROVE FiredAreLater'
    BY <1>0, <1>1, <1>4 DEF RemoveObjTimers, ClearFields, FiredAreLater
<1>5. CASE DestroyIoqueue
    BY <1>1, <1>5 DEF DestroyIoqueue, FiredAreLater
<1>6. CASE CallbackReturns
    <2>1. CASE to \in registered /\ timerCallbacks # <<>>
        <3>1. /\ timeout' = [timeout EXCEPT ![to] = now + milliInter[to]]
              /\ fired' = fired \cup {to} /\ registered' = registered /\ tv' = tv /\ pc' = "loop"
            BY <1>6, <2>1 DEF CallbackReturns
        <3>2. milliInter[to] \in Nat
            <4>1. milliInter[to] \in Intervals \cup {0}
                BY <1>0, <2>1
            <4> QED BY <4>1, IntervalsNat, Zenon
        <3>3. tv <= now + milliInter[to]
            BY <1>0, <3>2
        <3>4. \A u \in Timers : timeout'[u] = IF u = to THEN now + milliInter[to] ELSE timeout[u]
            BY <1>0, <3>1
        <3>5. ASSUME NEW u \in fired' \cap registered PROVE tv <= timeout'[u]
            BY <1>0, <1>1, <3>1, <3>3, <3>4
        <3> QED BY <3>1, <3>5 DEF FiredAreLater
    <2>2. CASE ~(to \in registered /\ timerCallbacks # <<>>)
        BY <1>1, <1>6, <2>2 DEF CallbackReturns, FiredAreLater
    <2> QED BY <2>1, <2>2
<1>7. CASE Tick \/ FireTimer \/ UNCHANGED vars
    BY <1>1, <1>7 DEF Tick, FireTimer, vars, FiredAreLater
<1>8. CASE Poll
    BY <1>1, <1>8 DEF Poll, FiredAreLater
<1>9. CASE LoopEnds
    BY <1>9 DEF LoopEnds, FiredAreLater
<1> QED BY <1>2, <1>3, <1>4, <1>5, <1>6, <1>7, <1>8, <1>9 DEF Next

-----------------------------------------------------------------------------
(* For every set of timers and every sequence of calls and polls the         *)
(* invariant holds.                                                          *)
THEOREM QueueInvariant == Spec => []IInv
<1>1. Init => IInv
    <2> SUFFICES ASSUME Init PROVE IInv
        OBVIOUS
    <2>1. TypeOK
        <3>1. timerCallbacks \in Seq(Timers) /\ fired \subseteq Timers /\ registered \subseteq Timers
            BY DEF Init
        <3>2. now \in 0..MaxNow /\ tv \in 0..now
            BY TimerAssumption DEF Init
        <3>3. milliInter \in [Timers -> Intervals \cup {0}] /\ timeout \in [Timers -> Nat]
            BY DEF Init
        <3> QED BY <3>1, <3>2, <3>3 DEF Init, TypeOK
    <2>2. VectorExact
        BY DEF Init, VectorExact, Elements, Distinct
    <2>3. HeapKept
        BY DEF Init, HeapKept, HeapUpTo
    <2>4. FiredAreLater
        BY DEF Init, FiredAreLater
    <2> QED BY <2>1, <2>2, <2>3, <2>4 DEF IInv
<1>2. IInv /\ [Next]_vars => IInv'
    BY TypeStep, VectorStep, HeapStep, FiredStep DEF IInv
<1> QED BY <1>1, <1>2, PTL DEF Spec

(* Timers are neither lost nor missed while their callbacks leave them       *)
(* alone: the vector of BlmIoqueue holds exactly the registered ones, and    *)
(* when poll turns to the sockets all that had expired have been called.     *)
THEOREM QueueTimersKept == Spec => []TimersKept
<1>1. IInv => TimersKept
    <2> SUFFICES ASSUME IInv PROVE TimersKept
        OBVIOUS
    <2> DEFINE h == timerCallbacks
    <2>0. h \in Seq(Timers) /\ timeout \in [Timers -> Nat] /\ tv \in Nat
        BY TimerAssumption DEF IInv, TypeOK
    <2>1. RegisteredKept
        <3>1. ~meddled => Len(h) = Cardinality(Elements(h))
            BY <2>0, CountElements DEF IInv, VectorExact
        <3> QED BY <3>1 DEF IInv, VectorExact, RegisteredKept
    <2>2. AllExpiredFired
        <3> SUFFICES ASSUME pc = "loop", ~Due(h), ~meddled, ~compacted,
                            NEW t \in registered
                     PROVE  ~(timeout[t] < tv)
            BY DEF AllExpiredFired
        <3>1. IsHeap(h, timeout)
            BY DEF IInv, HeapKept, HeapUpTo, IsHeap
        <3>2. PICK i \in 1..Len(h) : h[i] = t
            BY DEF IInv, VectorExact, Elements
        <3>3. h # <<>> /\ 1 \in 1..Len(h)
            BY <2>0
        <3>4. ~(timeout[h[1]] < tv)
            BY <3>3 DEF Due
        <3>5. timeout[h[1]] <= timeout[h[i]]
            BY <2>0, <3>1, HeapFront
        <3>6. timeout[h[1]] \in Nat /\ timeout[h[i]] \in Nat
            BY <2>0, <3>3
        <3> QED BY <2>0, <3>2, <3>4, <3>5, <3>6
    <2> QED BY <2>1, <2>2 DEF IInv, TimersKept
<1> QED BY <1>1, QueueInvariant, PTL

(* A poll calls a registered timer at most once, whatever its callbacks      *)
(* register and unregister: resetTimer puts it past the time the loop of     *)
(* poll compares with.                                                       *)
THEOREM QueueFiresOncePerPoll == Spec => FiredOncePerPoll
<1>1. IInv /\ [Next]_vars =>
         [pc = "loop" /\ pc' = "callback" /\ to' \in registered => to' \notin fired]_vars
    <2> SUFFICES ASSUME IInv, [Next]_vars, pc = "loop", pc' = "callback",
                        to' \in registered, to' \in fired
                 PROVE  FALSE
        OBVIOUS
    <2>1. FireTimer
        BY DEF Next, vars, Tick, AddTimer, RemoveTimer, RemoveObjTimers, DestroyIoqueue,
               Poll, CallbackReturns, LoopEnds, May
    <2>2. to' = timerCallbacks[1] /\ timeout[timerCallbacks[1]] < tv
        BY <2>1 DEF FireTimer, Due
    <2>3. tv <= timeout[timerCallbacks[1]]
        BY <2>2 DEF IInv, FiredAreLater
    <2>4. tv \in Nat /\ timeout[timerCallbacks[1]] \in Nat
        BY <2>2, TimerAssumption DEF IInv, TypeOK
    <2> QED BY <2>2, <2>3, <2>4
<1> QED BY <1>1, QueueInvariant, PTL DEF Spec, FiredOncePerPoll
=============================================================================
