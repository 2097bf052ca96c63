--------------------------- MODULE SendPathProofs ---------------------------
(* Proofs about SendPath for every header size, every set of body sizes and  *)
(* any number of messages: write_bufs keeps the buffer a pending write       *)
(* refers to, and the socket gets the data in order.                         *)
EXTENDS SendPath, SequenceTheorems, TLAPS

Pairs == Nat \X Nat

(* The step from unit x to unit y on the wire.                               *)
Follows(x, y) ==
    \/ y[1] = x[1] /\ y[2] = x[2] + 1
    \/ y[1] > x[1] /\ y[2] = 1

(* The last unit on the wire.                                                *)
Last(w) == IF w = <<>> THEN <<0, 0>> ELSE w[Len(w)]

Ordered(w) ==
    \A i \in 1..Len(w) : Follows(IF i = 1 THEN <<0, 0>> ELSE w[i - 1], w[i])

(* A pending write keeps write_op busy, so it is never replaced, and its     *)
(* written units are the end of the wire; everything on the wire comes from  *)
(* buffers that exist.                                                       *)
PendingOK ==
    pending # 0 =>
        /\ op
        /\ popped < pending
        /\ \/ written = 0 /\ Last(wire)[1] < pending
           \/ written > 0 /\ Last(wire) = <<pending, written>>

LastOK == Last(wire)[1] <= Len(sizes)

IInv ==
    /\ TypeOK
    /\ LastOK
    /\ PendingOK
    /\ Ordered(wire)

-----------------------------------------------------------------------------
(* Lemma: Ordered is WireInOrder.                                            *)
LEMMA OrderedIsInOrder == Ordered(wire) <=> WireInOrder
BY DEF Ordered, Follows, WireInOrder

(* Lemma: what Units returns.                                                *)
LEMMA UnitsAre ==
    ASSUME NEW b \in Nat, NEW from \in Nat \ {0}, NEW to \in Nat, from <= to + 1
    PROVE  /\ Units(b, from, to) \in Seq(Pairs)
           /\ Len(Units(b, from, to)) = to + 1 - from
           /\ \A i \in 1..(to + 1 - from) : Units(b, from, to)[i] = <<b, from + i - 1>>
<1>1. to + 1 - from \in Nat
  OBVIOUS
<1>2. \A i \in 1..(to + 1 - from) : <<b, from + i - 1>> \in Pairs
  BY DEF Pairs
<1> QED
  BY <1>1, <1>2 DEF Units

(* Lemma: what the wire is after it has taken units.                         *)
LEMMA UnitsAppended ==
    ASSUME NEW w \in Seq(Pairs), NEW b \in Nat \ {0}, NEW from \in Nat \ {0}, NEW to \in Nat,
           from <= to + 1
    PROVE  /\ w \o Units(b, from, to) \in Seq(Pairs)
           /\ Len(w \o Units(b, from, to)) = Len(w) + (to + 1 - from)
           /\ \A i \in 1..Len(w) : (w \o Units(b, from, to))[i] = w[i]
           /\ \A i \in 1..(to + 1 - from) :
                 (w \o Units(b, from, to))[Len(w) + i] = <<b, from + i - 1>>
<1> DEFINE u == Units(b, from, to)
           x == w \o u
           n == to + 1 - from
<1>1. /\ u \in Seq(Pairs)
      /\ Len(u) = n
      /\ \A i \in 1..n : u[i] = <<b, from + i - 1>>
  BY UnitsAre
<1>2. n \in Nat /\ Len(w) \in Nat
  OBVIOUS
<1> HIDE DEF u, n
<1>3. /\ x \in Seq(Pairs)
      /\ Len(x) = Len(w) + n
      /\ \A i \in 1..Len(w) : x[i] = w[i]
      /\ \A i \in 1..n : x[Len(w) + i] = <<b, from + i - 1>>
  <2>1. /\ x \in Seq(Pairs)
        /\ Len(x) = Len(w) + Len(u)
        /\ \A i \in 1..(Len(w) + Len(u)) :
              x[i] = IF i <= Len(w) THEN w[i] ELSE u[i - Len(w)]
    BY <1>1, ConcatProperties
  <2>3. ASSUME NEW i \in 1..n PROVE x[Len(w) + i] = <<b, from + i - 1>>
    <3>1. Len(w) + i \in 1..(Len(w) + n) /\ ~(Len(w) + i <= Len(w)) /\ (Len(w) + i) - Len(w) = i
      BY <1>2
    <3> QED
      BY <1>1, <2>1, <3>1
  <2>4. ASSUME NEW i \in 1..Len(w) PROVE x[i] = w[i]
    BY <1>1, <1>2, <2>1
  <2> QED
    BY <1>1, <2>1, <2>3, <2>4
<1> QED
  BY <1>3 DEF x, u, n

(* Lemma: appending units that continue the last one, or that start a later  *)
(* buffer, keeps the wire in order.                                          *)
LEMMA AppendKeepsOrder ==
    ASSUME NEW w \in Seq(Pairs), Ordered(w),
           NEW b \in Nat \ {0}, NEW from \in Nat \ {0}, NEW to \in Nat, from <= to + 1,
           \/ from = 1 /\ Last(w)[1] < b
           \/ Last(w) = <<b, from - 1>>
    PROVE  /\ w \o Units(b, from, to) \in Seq(Pairs)
           /\ Ordered(w \o Units(b, from, to))
           /\ Last(w \o Units(b, from, to)) =
                 IF from = to + 1 THEN Last(w) ELSE <<b, to>>
<1> DEFINE u == Units(b, from, to)
           x == w \o u
           n == to + 1 - from
<1>2. n \in Nat /\ Len(w) \in Nat
  OBVIOUS
<1>3. /\ x \in Seq(Pairs)
      /\ Len(x) = Len(w) + n
      /\ \A j \in 1..Len(w) : x[j] = w[j]
      /\ \A j \in 1..n : x[Len(w) + j] = <<b, from + j - 1>>
  BY UnitsAppended, ZenonT(40)
<1> HIDE DEF u, n, x
<1>4. Ordered(x)
  <2> SUFFICES ASSUME NEW i \in 1..Len(x)
               PROVE  Follows(IF i = 1 THEN <<0, 0>> ELSE x[i - 1], x[i])
    BY DEF Ordered
  <2>1. CASE i <= Len(w)
    BY <1>2, <1>3, <2>1, SMTT(30) DEF Ordered
  <2>2. CASE i = Len(w) + 1
    <3>1. 1 \in 1..n /\ x[i] = <<b, from>>
      <4>1. 1 \in 1..n
        BY <1>2, <1>3, <2>2
      <4>2. x[Len(w) + 1] = <<b, from + 1 - 1>>
        BY <1>3, <4>1
      <4> QED
        BY <4>1, <4>2, <2>2
    <3>2. (IF i = 1 THEN <<0, 0>> ELSE x[i - 1]) = Last(w)
      <4>1. CASE w = <<>>
        BY <4>1, <2>2 DEF Last
      <4>2. CASE w # <<>>
        <5>1. Len(w) # 0 /\ Len(w) \in 1..Len(w) /\ i - 1 = Len(w)
          BY <4>2, <2>2, <1>2
        <5> QED
          BY <5>1, <4>2, <1>3, <2>2 DEF Last
      <4> QED
        BY <4>1, <4>2
    <3>3. Follows(Last(w), <<b, from>>)
      BY DEF Follows
    <3> QED
      BY <3>1, <3>2, <3>3
  <2>3. CASE i > Len(w) + 1
    <3> DEFINE j == i - Len(w)
    <3>1. j \in 1..n /\ j - 1 \in 1..n /\ i = Len(w) + j /\ i - 1 = Len(w) + (j - 1) /\ i # 1
      BY <1>2, <1>3, <2>3
    <3>2. x[i] = <<b, from + j - 1>> /\ x[i - 1] = <<b, from + (j - 1) - 1>>
      BY <3>1, <1>3
    <3>3. Follows(<<b, from + (j - 1) - 1>>, <<b, from + j - 1>>)
      BY <3>1, <1>2 DEF Follows
    <3> QED
      BY <3>1, <3>2, <3>3
  <2> QED
    BY <2>1, <2>2, <2>3, <1>2, <1>3
<1>5. Last(x) = IF from = to + 1 THEN Last(w) ELSE <<b, to>>
  <2>1. CASE n = 0
    <3>1. Len(x) = Len(w) /\ from = to + 1
      BY <1>2, <1>3, <2>1 DEF n
    <3>2. CASE w = <<>>
      BY <3>1, <3>2, <1>3 DEF Last
    <3>3. CASE w # <<>>
      <4>1. Len(w) \in 1..Len(w) /\ x # <<>>
        BY <3>1, <3>3, <1>2, <1>3, EmptySeq
      <4> QED
        BY <3>1, <3>3, <4>1, <1>3 DEF Last
    <3> QED
      BY <3>2, <3>3
  <2>2. CASE n # 0
    <3>1. n \in 1..n /\ x # <<>> /\ from # to + 1 /\ from + n - 1 = to
      BY <1>2, <1>3, <2>2 DEF n
    <3>2. x[Len(w) + n] = <<b, from + n - 1>>
      BY <3>1, <1>3
    <3> QED
      BY <3>1, <3>2, <1>3 DEF Last
  <2> QED
    BY <2>1, <2>2
<1> QED
  BY <1>3, <1>4, <1>5 DEF x, u

-----------------------------------------------------------------------------
(* Lemma: the last unit is a pair of numbers.                                *)
LEMMA LastIsPair ==
    ASSUME NEW w \in Seq(Pairs)
    PROVE  Last(w) \in Pairs /\ Last(w)[1] \in Nat
<1>1. CASE w = <<>>
  BY <1>1 DEF Last, Pairs
<1>2. CASE w # <<>>
  <2>1. Len(w) \in 1..Len(w)
    BY <1>2, EmptySeq
  <2>2. w[Len(w)] \in Pairs
    BY <2>1, ElementOfSeq
  <2> QED
    BY <1>2, <2>2 DEF Last, Pairs
<1> QED
  BY <1>1, <1>2

(* Lemma: a pj_ioqueue_send of the new buffer Len(sizes) + 1 keeps the       *)
(* invariant, whether the socket takes it, fails, blocks or write_op is busy.*)
LEMMA SendDataKeeps ==
    ASSUME IInv, NEW n \in Nat, SendData(n), half' \in BOOLEAN
    PROVE  IInv'
<1>0. TypeOK /\ LastOK /\ PendingOK /\ Ordered(wire)
  BY DEF IInv
<1>1. /\ sizes' \in Seq(Nat)
      /\ Len(sizes') = Len(sizes) + 1
      /\ Len(sizes) \in Nat
  BY <1>0 DEF SendData, TypeOK
<1>2. popped' = popped /\ short' \in BOOLEAN
  BY <1>0 DEF SendData, SendNow, SendFails, SendQueued, SendBusy, TypeOK
<1>3. wire \in Seq(Pairs) /\ Last(wire)[1] \in Nat /\ Last(wire)[1] < Len(sizes) + 1
  BY <1>0, <1>1, LastIsPair DEF TypeOK, LastOK, Pairs
<1>4. CASE SendNow(n)
  <2>1. PICK k \in Taken(n) : wire' = wire \o Units(Len(sizes) + 1, 1, k)
    BY <1>4 DEF SendNow
  <2>2. k \in Nat /\ 1 <= k + 1 /\ Len(sizes) + 1 \in Nat \ {0} /\ 1 \in Nat \ {0}
    BY <1>1 DEF Taken
  <2> DEFINE b == Len(sizes) + 1
             x == wire \o Units(b, 1, k)
  <2>3. b \in Nat \ {0} /\ Last(wire)[1] < b
    BY <2>2, <1>3
  <2> HIDE DEF b
  <2>4. /\ x \in Seq(Pairs)
        /\ Ordered(x)
        /\ Last(x) = IF 1 = k + 1 THEN Last(wire) ELSE <<b, k>>
    BY <1>0, <1>3, <2>2, <2>3, AppendKeepsOrder
  <2>5. wire' = x
    BY <2>1 DEF b
  <2> HIDE DEF x
  <2>6. /\ wire' \in Seq(Pairs)
        /\ Ordered(wire')
        /\ Last(wire') = IF 1 = k + 1 THEN Last(wire) ELSE <<b, k>>
    BY <2>4, <2>5
  <2>7. Last(wire')[1] <= Len(sizes')
    BY <1>1, <1>3, <2>2, <2>6 DEF b
  <2>8. pending' = 0 /\ written' = written /\ op' = op
    BY <1>4 DEF SendNow
  <2>9. TypeOK'
    BY <1>0, <1>1, <1>2, <2>6, <2>8 DEF TypeOK, Pairs
  <2> QED
    BY <2>6, <2>7, <2>8, <2>9 DEF IInv, LastOK, PendingOK
<1>5. ASSUME wire' = wire PROVE Last(wire') = Last(wire) /\ Ordered(wire')
  BY <1>0, <1>5
<1>6. CASE SendFails
  <2>1. pending' = 0 /\ written' = written /\ op' = op /\ wire' = wire
    BY <1>6 DEF SendFails
  <2>2. TypeOK'
    BY <1>0, <1>1, <1>2, <2>1 DEF TypeOK
  <2>3. LastOK' /\ PendingOK' /\ Ordered(wire)'
    BY <1>1, <1>3, <1>5, <2>1 DEF LastOK, PendingOK
  <2> QED
    BY <2>2, <2>3 DEF IInv
<1>7. CASE SendQueued
  <2>1. pending' = Len(sizes) + 1 /\ written' = 0 /\ op' = TRUE /\ wire' = wire
    BY <1>7 DEF SendQueued
  <2>2. TypeOK'
    BY <1>0, <1>1, <1>2, <2>1 DEF TypeOK
  <2>3. LastOK' /\ Ordered(wire)'
    BY <1>1, <1>3, <1>5, <2>1 DEF LastOK
  <2>4. popped' < pending'
    BY <1>0, <1>1, <1>2, <2>1 DEF TypeOK
  <2>5. PendingOK'
    BY <1>3, <1>5, <2>1, <2>4 DEF PendingOK
  <2> QED
    BY <2>2, <2>3, <2>5 DEF IInv
<1>8. CASE SendBusy
  <2>1. pending' = pending /\ written' = written /\ op' = op /\ wire' = wire
    BY <1>8 DEF SendBusy
  <2>2. TypeOK'
    BY <1>0, <1>1, <1>2, <2>1 DEF TypeOK
  <2>3. LastOK' /\ Ordered(wire)'
    BY <1>1, <1>3, <1>5, <2>1 DEF LastOK
  <2>4. PendingOK'
    BY <1>0, <1>2, <1>5, <2>1 DEF PendingOK
  <2> QED
    BY <2>2, <2>3, <2>4 DEF IInv
<1> QED
  BY <1>4, <1>6, <1>7, <1>8 DEF SendData

(* Lemma: a completion finds write_bufs non-empty, so popping is safe.       *)
LEMMA FrontExists ==
    ASSUME IInv, pending # 0
    PROVE  /\ pending \in 1..Len(sizes) /\ sizes[pending] \in Nat
           /\ popped + 1 \in 1..Len(sizes) /\ sizes[popped + 1] \in Nat
<1>1. pending \in 1..Len(sizes) /\ popped + 1 \in 1..Len(sizes)
  BY DEF IInv, TypeOK, PendingOK
<1> QED
  BY <1>1, ElementOfSeq DEF IInv, TypeOK

(* Lemma: sending what is pending keeps the invariant.                       *)
LEMMA DispatchKeeps ==
    ASSUME IInv, DispatchWrite
    PROVE  IInv'
<1>0. TypeOK /\ LastOK /\ PendingOK /\ Ordered(wire)
  BY DEF IInv
<1>1. /\ pending # 0
      /\ pending \in 1..Len(sizes) /\ sizes[pending] \in Nat
      /\ popped + 1 \in 1..Len(sizes) /\ sizes[popped + 1] \in Nat
      /\ sizes' = sizes /\ half' = half /\ short' = short
  BY FrontExists DEF DispatchWrite
<1>2. PICK k \in Taken(sizes[pending] - written) :
        /\ wire' = wire \o Units(pending, written + 1, written + k)
        /\ \/ /\ written + k < sizes[pending]
              /\ written' = written + k
              /\ UNCHANGED <<pending, op, popped>>
           \/ /\ written + k = sizes[pending]
              /\ written' = 0
              /\ pending' = 0
              /\ op' = FALSE
              /\ OnWritten
  BY DEF DispatchWrite
<1>3. k \in Nat /\ (k > 0 \/ sizes[pending] - written = 0) /\ written \in Nat
  BY <1>0, <1>1 DEF Taken, TypeOK
<1>4. /\ wire' \in Seq(Pairs)
      /\ Ordered(wire')
      /\ Last(wire') = IF k = 0 THEN Last(wire) ELSE <<pending, written + k>>
  <2> DEFINE from == written + 1
             to == written + k
             x == wire \o Units(pending, from, to)
  <2>1. \/ from = 1 /\ Last(wire)[1] < pending
        \/ Last(wire) = <<pending, from - 1>>
    BY <1>0, <1>1, <1>3 DEF PendingOK
  <2>2. /\ from \in Nat \ {0} /\ to \in Nat /\ from <= to + 1
        /\ pending \in Nat \ {0}
        /\ wire \in Seq(Pairs)
    BY <1>0, <1>1, <1>3 DEF TypeOK, Pairs
  <2>3. wire' = x /\ (from = to + 1 <=> k = 0)
    BY <1>2, <1>3
  <2> HIDE DEF from, to
  <2>4. /\ x \in Seq(Pairs)
        /\ Ordered(x)
        /\ Last(x) = IF from = to + 1 THEN Last(wire) ELSE <<pending, to>>
    BY <1>0, <2>1, <2>2, AppendKeepsOrder, SMTT(30)
  <2> HIDE DEF x
  <2>5. Last(wire') = IF k = 0 THEN Last(wire) ELSE <<pending, to>>
    BY <2>3, <2>4
  <2> QED
    BY <2>3, <2>4, <2>5 DEF to
<1>5. LastOK'
  BY <1>0, <1>1, <1>3, <1>4 DEF LastOK
<1>6. CASE written + k < sizes[pending]
  <2>1. k > 0 /\ written' = written + k /\ written + k > 0
    BY <1>1, <1>2, <1>3, <1>6
  <2>2. pending' = pending /\ op' = op /\ popped' = popped
    BY <1>1, <1>2, <1>3, <1>6
  <2>3. PendingOK'
    BY <1>0, <1>1, <1>3, <1>4, <2>1, <2>2 DEF PendingOK
  <2>4. TypeOK'
    BY <1>0, <1>1, <1>3, <1>4, <2>1, <2>2 DEF TypeOK, Pairs
  <2> QED
    BY <1>4, <1>5, <2>3, <2>4 DEF IInv
<1>7. CASE written + k = sizes[pending]
  <2>1. /\ written' = 0 /\ pending' = 0 /\ op' = FALSE
        /\ popped' = popped + 1
    BY <1>1, <1>2, <1>3, <1>7 DEF OnWritten
  <2>2. TypeOK'
    <3>1. popped' \in 0..Len(sizes') /\ pending' \in 0..Len(sizes') /\ written' \in Nat
      BY <1>0, <1>1, <2>1 DEF TypeOK
    <3>2. op' \in BOOLEAN /\ half' \in BOOLEAN /\ sizes' \in Seq(Nat) /\ short' \in BOOLEAN
      BY <1>0, <1>1, <2>1 DEF TypeOK
    <3> QED
      BY <1>4, <3>1, <3>2 DEF TypeOK, Pairs
  <2> QED
    BY <1>4, <1>5, <2>1, <2>2 DEF IInv, PendingOK
<1> QED
  BY <1>1, <1>2, <1>3, <1>6, <1>7

(* Theorem: the inductive invariant holds in every behaviour.                *)
THEOREM Invariance == Spec => []IInv
<1>1. Init => IInv
  <2> SUFFICES ASSUME Init PROVE IInv
    OBVIOUS
  <2>1. Last(wire) = <<0, 0>> /\ Len(sizes) = 0 /\ Len(wire) = 0
    BY DEF Init, Last
  <2>2. TypeOK
    <3>1. sizes \in Seq(Nat) /\ wire \in Seq(Nat \X Nat)
      BY EmptySeq DEF Init
    <3>2. popped \in 0..Len(sizes) /\ pending \in 0..Len(sizes) /\ written \in Nat
      BY <2>1 DEF Init
    <3>3. op \in BOOLEAN /\ half \in BOOLEAN /\ short \in BOOLEAN
      BY DEF Init
    <3> QED
      BY <3>1, <3>2, <3>3 DEF TypeOK
  <2>3. LastOK /\ PendingOK /\ Ordered(wire)
    BY <2>1 DEF Init, LastOK, PendingOK, Ordered
  <2> QED
    BY <2>2, <2>3 DEF IInv
<1>2. IInv /\ [Next]_vars => IInv'
  <2> SUFFICES ASSUME IInv, [Next]_vars PROVE IInv'
    OBVIOUS
  <2>1. CASE SendHeader
    BY <2>1, SizeAssumption, SendDataKeeps DEF SendHeader
  <2>2. CASE SendBody
    <3>1. PICK n \in BodySizes : SendData(n)
      BY <2>2 DEF SendBody
    <3> QED
      BY <2>2, <3>1, SizeAssumption, SendDataKeeps DEF SendBody
  <2>3. CASE DispatchWrite
    BY <2>3, DispatchKeeps
  <2>4. CASE DispatchWriteFails
    <3>1. /\ written' = 0 /\ pending' = 0 /\ op' = FALSE
          /\ popped' = popped + 1
          /\ sizes' = sizes /\ half' = half /\ wire' = wire /\ short' = TRUE
      BY <2>4 DEF DispatchWriteFails, OnWritten
    <3>2. popped + 1 \in 1..Len(sizes) /\ sizes[popped + 1] \in Nat
      BY <2>4, FrontExists DEF DispatchWriteFails
    <3>3. TypeOK'
      <4>1. popped' \in 0..Len(sizes') /\ pending' \in 0..Len(sizes') /\ written' \in Nat
        BY <3>1, <3>2 DEF IInv, TypeOK
      <4>2. /\ op' \in BOOLEAN /\ half' \in BOOLEAN /\ short' \in BOOLEAN
            /\ sizes' \in Seq(Nat) /\ wire' \in Seq(Nat \X Nat)
        BY <3>1 DEF IInv, TypeOK
      <4> QED
        BY <4>1, <4>2 DEF TypeOK
    <3>4. LastOK' /\ PendingOK' /\ Ordered(wire)'
      BY <3>1 DEF IInv, LastOK, PendingOK
    <3> QED
      BY <3>3, <3>4 DEF IInv
  <2>5. CASE UNCHANGED vars
    BY <2>5 DEF vars, IInv, TypeOK, LastOK, PendingOK
  <2> QED
    BY <2>1, <2>2, <2>3, <2>4, <2>5 DEF Next
<1> QED
  BY <1>1, <1>2, PTL DEF Spec

(* Theorem: types.  pop_front is never called on an empty write_bufs.        *)
THEOREM TypeCorrect == Spec => []TypeOK
<1>1. IInv => TypeOK
  BY DEF IInv
<1> QED
  BY <1>1, Invariance, PTL

(* Theorem: although on_ioqueue_write pops the oldest buffer, the one a      *)
(* pending write refers to is never freed.                                   *)
THEOREM BufferSafe == Spec => []PendingBufferLive
<1>1. IInv => PendingBufferLive
  BY DEF IInv, PendingOK, PendingBufferLive
<1> QED
  BY <1>1, Invariance, PTL

(* Theorem: pj_ioqueue_send and the poll together hand the data to the       *)
(* socket in order, without repetition, each buffer from its first unit.     *)
THEOREM OrderSafe == Spec => []WireInOrder
<1>1. IInv => WireInOrder
  BY OrderedIsInOrder DEF IInv
<1> QED
  BY <1>1, Invariance, PTL

-----------------------------------------------------------------------------
(* The framing.  SentUpTo and the gap-free wire for given sizes.             *)
Upto(sz, x, b) ==
    /\ x[1] # 0 => x[2] = sz[x[1]]
    /\ \A c \in (x[1] + 1)..(b - 1) : sz[c] = 0

Before(w, i) == IF i = 1 THEN <<0, 0>> ELSE w[i - 1]

Gapless(sz, w) ==
    \A i \in 1..Len(w) : w[i][1] # Before(w, i)[1] => Upto(sz, Before(w, i), w[i][1])

Known(sz, w) == \A i \in 1..Len(w) : w[i][1] <= Len(sz)

(* What the framing rests on: while no send has fallen short, only the       *)
(* newest buffer can be pending, and everything before it is on the wire.    *)
FrameInv ==
    /\ Known(sizes, wire)
    /\ ~short =>
        /\ Gapless(sizes, wire)
        /\ pending = 0 => Upto(sizes, Last(wire), Len(sizes) + 1)
        /\ pending # 0 => /\ pending = Len(sizes)
                          /\ written = 0 => Upto(sizes, Last(wire), pending)

(* Lemma: FrameInv gives FramesWhole.                                        *)
LEMMA GaplessIsWhole == FrameInv => FramesWhole
BY DEF FrameInv, Gapless, Before, Upto, FramesWhole, SentUpTo

(* Lemma: units that continue the last one, or that start the next buffer    *)
(* with data, leave no gap.                                                  *)
LEMMA AppendKeepsGapless ==
    ASSUME NEW sz, NEW w \in Seq(Pairs), Gapless(sz, w),
           NEW b \in Nat \ {0}, NEW from \in Nat \ {0}, NEW to \in Nat, from <= to + 1,
           \/ from = 1 /\ Upto(sz, Last(w), b)
           \/ Last(w) = <<b, from - 1>>
    PROVE  Gapless(sz, w \o Units(b, from, to))
<1> DEFINE u == Units(b, from, to)
           x == w \o u
           n == to + 1 - from
<1>1. n \in Nat /\ Len(w) \in Nat
  OBVIOUS
<1>2. /\ x \in Seq(Pairs)
      /\ Len(x) = Len(w) + n
      /\ \A j \in 1..Len(w) : x[j] = w[j]
      /\ \A j \in 1..n : x[Len(w) + j] = <<b, from + j - 1>>
  BY UnitsAppended, ZenonT(40)
<1> HIDE DEF u, n, x
<1> SUFFICES ASSUME NEW i \in 1..Len(x), x[i][1] # Before(x, i)[1]
             PROVE  Upto(sz, Before(x, i), x[i][1])
  BY DEF Gapless, x, u
<1>3. CASE i <= Len(w)
  <2>1. i \in 1..Len(w) /\ x[i] = w[i] /\ Before(x, i) = Before(w, i)
    BY <1>1, <1>2, <1>3 DEF Before
  <2> QED
    BY <2>1 DEF Gapless
<1>4. CASE i = Len(w) + 1
  <2>1. 1 \in 1..n /\ x[i] = <<b, from>>
    <3>1. 1 \in 1..n
      BY <1>1, <1>2, <1>4
    <3>2. x[Len(w) + 1] = <<b, from + 1 - 1>>
      BY <1>2, <3>1
    <3> QED
      BY <3>1, <3>2, <1>4
  <2>2. Before(x, i) = Last(w)
    <3>1. CASE w = <<>>
      BY <3>1, <1>4 DEF Last, Before
    <3>2. CASE w # <<>>
      <4>1. Len(w) # 0 /\ Len(w) \in 1..Len(w) /\ i - 1 = Len(w)
        BY <3>2, <1>4, <1>1
      <4> QED
        BY <4>1, <3>2, <1>2, <1>4 DEF Last, Before
    <3> QED
      BY <3>1, <3>2
  <2>3. x[i][1] = b /\ Before(x, i)[1] # b
    BY <2>1
  <2>4. Upto(sz, Last(w), b)
    BY <2>2, <2>3
  <2> QED
    BY <2>2, <2>3, <2>4
<1>5. CASE i > Len(w) + 1
  <2> DEFINE j == i - Len(w)
  <2>1. j \in 1..n /\ j - 1 \in 1..n /\ i = Len(w) + j /\ i - 1 = Len(w) + (j - 1) /\ i # 1
    BY <1>1, <1>2, <1>5
  <2>2. x[i] = <<b, from + j - 1>> /\ x[i - 1] = <<b, from + (j - 1) - 1>>
    BY <2>1, <1>2
  <2>3. x[i][1] = Before(x, i)[1]
    BY <2>1, <2>2 DEF Before
  <2> QED
    BY <2>3
<1> QED
  BY <1>3, <1>4, <1>5, <1>1, <1>2

(* Lemma: a new buffer changes nothing for the ones before it.               *)
LEMMA NewBufferKeepsGapless ==
    ASSUME NEW sz \in Seq(Nat), NEW n \in Nat, NEW w \in Seq(Pairs), Known(sz, w), Gapless(sz, w)
    PROVE  /\ Known(Append(sz, n), w)
           /\ Gapless(Append(sz, n), w)
<1> DEFINE sy == Append(sz, n)
<1>1. Len(sy) = Len(sz) + 1 /\ Len(sz) \in Nat /\ \A c \in 1..Len(sz) : sy[c] = sz[c]
  OBVIOUS
<1> HIDE DEF sy
<1>2. ASSUME NEW i \in 1..Len(w)
      PROVE  /\ w[i][1] \in Nat /\ w[i][1] <= Len(sz)
             /\ Before(w, i)[1] \in Nat /\ Before(w, i)[1] <= Len(sz)
  <2>1. w[i] \in Pairs /\ w[i][1] <= Len(sz)
    BY DEF Known
  <2>2. CASE i = 1
    BY <2>1, <2>2, <1>1 DEF Before, Pairs
  <2>3. CASE i # 1
    <3>1. i - 1 \in 1..Len(w)
      BY <2>3
    <3>2. w[i - 1] \in Pairs /\ w[i - 1][1] <= Len(sz)
      BY <3>1 DEF Known
    <3> QED
      BY <2>1, <2>3, <3>2 DEF Before, Pairs
  <2> QED
    BY <2>2, <2>3
<1>3. ASSUME NEW i \in 1..Len(w), w[i][1] # Before(w, i)[1]
      PROVE  Upto(sy, Before(w, i), w[i][1])
  <2>1. Upto(sz, Before(w, i), w[i][1])
    BY <1>3 DEF Gapless
  <2> QED
    BY <1>1, <1>2, <2>1, SMTT(30) DEF Upto
<1>4. ASSUME NEW i \in 1..Len(w) PROVE w[i][1] <= Len(sy)
  BY <1>1, <1>2
<1> QED
  BY <1>3, <1>4 DEF Gapless, Known, sy
(* Lemma: units of buffer b keep every unit on the wire in a known buffer.   *)
LEMMA AppendKeepsKnown ==
    ASSUME NEW sz \in Seq(Nat), NEW w \in Seq(Pairs), Known(sz, w),
           NEW b \in Nat \ {0}, b <= Len(sz),
           NEW from \in Nat \ {0}, NEW to \in Nat, from <= to + 1
    PROVE  Known(sz, w \o Units(b, from, to))
<1> DEFINE x == w \o Units(b, from, to)
           n == to + 1 - from
<1>0. n \in Nat /\ Len(w) \in Nat
  OBVIOUS
<1>1. /\ x \in Seq(Pairs)
      /\ Len(x) = Len(w) + n
      /\ \A j \in 1..Len(w) : x[j] = w[j]
      /\ \A j \in 1..n : x[Len(w) + j] = <<b, from + j - 1>>
  BY UnitsAppended, ZenonT(40)
<1> HIDE DEF x, n
<1>2. ASSUME NEW i \in 1..Len(x) PROVE x[i][1] <= Len(sz)
  <2>1. CASE i <= Len(w)
    BY <1>0, <1>1, <2>1 DEF Known
  <2>2. CASE i > Len(w)
    <3>1. i - Len(w) \in 1..n /\ i = Len(w) + (i - Len(w))
      BY <1>0, <1>1, <2>2
    <3>2. x[i] = <<b, from + (i - Len(w)) - 1>>
      BY <1>1, <3>1
    <3> QED
      BY <3>2
  <2> QED
    BY <1>0, <1>1, <2>1, <2>2
<1> QED
  BY <1>2 DEF Known, x

(* Lemma: a sendData keeps the framing.  While nothing has fallen short the  *)
(* new buffer is taken whole, or becomes the pending one; a buffer sent      *)
(* while another is pending is refused, which falls short.                   *)
LEMMA SendDataKeepsFrames ==
    ASSUME IInv, FrameInv, NEW n \in Nat, SendData(n)
    PROVE  FrameInv'
<1> DEFINE b == Len(sizes) + 1
<1>1. /\ sizes \in Seq(Nat) /\ sizes' = Append(sizes, n) /\ sizes' \in Seq(Nat)
      /\ Len(sizes') = b /\ b \in Nat \ {0} /\ Len(sizes) \in Nat
      /\ sizes'[b] = n
      /\ \A c \in 1..Len(sizes) : sizes'[c] = sizes[c]
  BY DEF IInv, TypeOK, SendData
<1>2. /\ wire \in Seq(Pairs) /\ Last(wire) \in Pairs /\ Last(wire)[1] \in Nat
      /\ Last(wire)[1] <= Len(sizes)
  BY LastIsPair DEF IInv, TypeOK, LastOK, Pairs
<1>3. /\ Known(sizes', wire)
      /\ ~short => Gapless(sizes', wire)
  <2>1. CASE ~short
    BY <1>1, <1>2, <2>1, NewBufferKeepsGapless DEF FrameInv
  <2>2. ASSUME NEW i \in 1..Len(wire) PROVE wire[i][1] <= Len(sizes')
    <3>1. wire[i] \in Pairs /\ wire[i][1] <= Len(sizes)
      BY <1>2 DEF FrameInv, Known
    <3> QED
      BY <3>1, <1>1 DEF Pairs
  <2> QED
    BY <2>1, <2>2 DEF Known
<1>4. Upto(sizes, Last(wire), b) => Upto(sizes', Last(wire), b)
  BY <1>1, <1>2 DEF Upto
<1> HIDE DEF b
<1>5. CASE SendNow(n)
  <2>1. PICK k \in Taken(n) :
          /\ wire' = wire \o Units(b, 1, k)
          /\ short' = (short \/ k < n)
    BY <1>5 DEF SendNow, b
  <2>2. /\ k \in Nat /\ k <= n /\ 1 <= k + 1 /\ 1 \in Nat \ {0} /\ pending = 0 /\ pending' = 0
        /\ b <= Len(sizes')
    BY <1>1, <1>5 DEF Taken, SendNow
  <2>3. Known(sizes', wire')
    <3>1. Known(sizes', wire \o Units(b, 1, k))
      BY <1>1, <1>2, <1>3, <2>2, AppendKeepsKnown
    <3> QED
      BY <2>1, <3>1
  <2>4. ASSUME ~short'
        PROVE  Gapless(sizes', wire') /\ Upto(sizes', Last(wire'), Len(sizes') + 1)
    <3>1. ~short /\ k = n
      <4>1. ~short /\ ~(k < n)
        BY <2>1, <2>4, Zenon
      <4> QED
        BY <2>2, <4>1
    <3>2. Upto(sizes', Last(wire), b)
      BY <1>4, <2>2, <3>1 DEF FrameInv, b
    <3>3. Gapless(sizes', wire \o Units(b, 1, k))
      BY <1>1, <1>2, <1>3, <2>2, <3>1, <3>2, AppendKeepsGapless
    <3>4. Last(wire \o Units(b, 1, k)) = IF 1 = k + 1 THEN Last(wire) ELSE <<b, k>>
      <4>1. Last(wire)[1] < b /\ Ordered(wire)
        BY <1>1, <1>2 DEF b, IInv
      <4> QED
        BY <1>1, <1>2, <2>2, <4>1, AppendKeepsOrder
    <3>5. Last(wire') = IF k = 0 THEN Last(wire) ELSE <<b, k>>
      BY <2>1, <2>2, <3>4
    <3>6. ASSUME k = 0 PROVE Upto(sizes', Last(wire'), Len(sizes') + 1)
      BY <1>1, <1>2, <3>1, <3>2, <3>5, <3>6 DEF Upto
    <3>7. ASSUME k # 0 PROVE Upto(sizes', Last(wire'), Len(sizes') + 1)
      BY <1>1, <3>1, <3>5, <3>7 DEF Upto
    <3> QED
      BY <2>1, <3>3, <3>6, <3>7
  <2> QED
    BY <2>2, <2>3, <2>4 DEF FrameInv
<1>6. CASE SendFails \/ SendBusy
  <2>1. wire' = wire /\ short' = TRUE
    BY <1>6 DEF SendFails, SendBusy
  <2> QED
    BY <1>3, <2>1 DEF FrameInv
<1>7. CASE SendQueued
  <2>1. /\ ~op /\ pending' = b /\ written' = 0 /\ wire' = wire /\ short' = short
    BY <1>7 DEF SendQueued, b
  <2>2. pending = 0
    BY <2>1 DEF IInv, PendingOK
  <2>3. ~short => Upto(sizes', Last(wire), b)
    BY <1>4, <2>2 DEF FrameInv, b
  <2>4. Last(wire') = Last(wire) /\ Known(sizes', wire') /\ pending' # 0
    BY <1>1, <1>3, <2>1
  <2> QED
    BY <1>1, <1>3, <2>1, <2>3, <2>4 DEF FrameInv
<1> QED
  BY <1>5, <1>6, <1>7 DEF SendData

(* Lemma: the poll that sends what is pending keeps the framing.             *)
LEMMA DispatchKeepsFrames ==
    ASSUME IInv, FrameInv, DispatchWrite
    PROVE  FrameInv'
<1>1. /\ pending # 0 /\ pending \in 1..Len(sizes) /\ sizes[pending] \in Nat
      /\ sizes' = sizes /\ short' = short /\ sizes \in Seq(Nat) /\ written \in Nat
  BY FrontExists DEF DispatchWrite, IInv, TypeOK
<1>2. PICK k \in Taken(sizes[pending] - written) :
        /\ wire' = wire \o Units(pending, written + 1, written + k)
        /\ \/ /\ written + k < sizes[pending]
              /\ written' = written + k
              /\ UNCHANGED <<pending, op, popped>>
           \/ /\ written + k = sizes[pending]
              /\ written' = 0
              /\ pending' = 0
              /\ op' = FALSE
              /\ OnWritten
  BY DEF DispatchWrite
<1>3. k \in Nat /\ (k > 0 \/ sizes[pending] - written = 0)
  BY <1>1 DEF Taken
<1> DEFINE from == written + 1
           to == written + k
           x == wire \o Units(pending, from, to)
<1>4. /\ from \in Nat \ {0} /\ to \in Nat /\ from <= to + 1
      /\ pending \in Nat \ {0} /\ pending <= Len(sizes)
      /\ wire \in Seq(Pairs) /\ Ordered(wire) /\ wire' = x
      /\ from = to + 1 <=> k = 0
  BY <1>1, <1>2, <1>3 DEF IInv, TypeOK, Pairs
<1>5. /\ written = 0 => from = 1 /\ Last(wire)[1] < pending
      /\ written # 0 => Last(wire) = <<pending, from - 1>>
  BY <1>1 DEF IInv, PendingOK
<1>6. Last(wire) \in Pairs /\ Last(wire)[1] \in Nat
  BY <1>4, LastIsPair
<1> HIDE DEF from, to, x
<1>7. Known(sizes, x)
  BY <1>1, <1>4, AppendKeepsKnown DEF FrameInv, x
<1>8. Last(x) = IF k = 0 THEN Last(wire) ELSE <<pending, to>>
  <2>1. /\ x \in Seq(Pairs)
        /\ Ordered(x)
        /\ Last(x) = IF from = to + 1 THEN Last(wire) ELSE <<pending, to>>
    <3>1. \/ from = 1 /\ Last(wire)[1] < pending
          \/ Last(wire) = <<pending, from - 1>>
      BY <1>5
    <3>2. /\ from \in Nat \ {0} /\ to \in Nat /\ from <= to + 1
          /\ pending \in Nat \ {0} /\ wire \in Seq(Pairs) /\ Ordered(wire)
      BY <1>4
    <3> USE DEF x
    <3> QED
      BY <3>1, <3>2, AppendKeepsOrder, SMTT(30)
  <2> QED
    BY <1>4, <2>1
<1>9. ~short => Gapless(sizes, x)
  <2> SUFFICES ASSUME ~short PROVE Gapless(sizes, x)
    OBVIOUS
  <2>1. Gapless(sizes, wire) /\ (written = 0 => Upto(sizes, Last(wire), pending))
    BY <1>1 DEF FrameInv
  <2>2. \/ from = 1 /\ Upto(sizes, Last(wire), pending)
        \/ Last(wire) = <<pending, from - 1>>
    BY <1>5, <2>1
  <2> QED
    BY <1>4, <2>1, <2>2, AppendKeepsGapless DEF x
<1>10. CASE written + k < sizes[pending]
  <2>1. pending' = pending /\ written' = written + k /\ written' # 0
    BY <1>1, <1>2, <1>3, <1>10
  <2> QED
    BY <1>1, <1>4, <1>7, <1>9, <2>1 DEF FrameInv
<1>11. CASE written + k = sizes[pending]
  <2>1. pending' = 0
    BY <1>1, <1>2, <1>3, <1>11
  <2>2. ASSUME ~short PROVE Upto(sizes, Last(x), Len(sizes) + 1)
    <3>1. pending = Len(sizes)
      BY <1>1, <2>2 DEF FrameInv
    <3>2. CASE k = 0
      <4>1. sizes[pending] = written
        BY <1>1, <1>3, <1>11, <3>2
      <4>2. CASE written = 0
        <5>1. Upto(sizes, Last(wire), pending)
          BY <1>1, <2>2, <4>2 DEF FrameInv
        <5> QED
          BY <1>1, <1>6, <1>8, <3>1, <3>2, <4>1, <4>2, <5>1 DEF Upto
      <4>3. CASE written # 0
        <5>1. Last(x) = <<pending, written>>
          BY <1>1, <1>5, <1>8, <3>2, <4>3 DEF from
        <5> QED
          BY <1>1, <3>1, <4>1, <5>1 DEF Upto
      <4> QED
        BY <4>2, <4>3
    <3>3. CASE k # 0
      <4>1. Last(x) = <<pending, sizes[pending]>>
        BY <1>8, <1>11, <3>3 DEF to
      <4> QED
        BY <1>1, <3>1, <4>1 DEF Upto
    <3> QED
      BY <3>2, <3>3
  <2> QED
    BY <1>1, <1>4, <1>7, <1>9, <2>1, <2>2 DEF FrameInv
<1> QED
  BY <1>1, <1>2, <1>3, <1>10, <1>11

(* Theorem: the framing invariant holds in every behaviour.                  *)
THEOREM FrameInvariance == Spec => []FrameInv
<1>1. Init => FrameInv
  <2> SUFFICES ASSUME Init PROVE FrameInv
    OBVIOUS
  <2>1. Last(wire) = <<0, 0>> /\ Len(sizes) = 0 /\ Len(wire) = 0 /\ pending = 0
    BY DEF Init, Last
  <2> QED
    BY <2>1 DEF FrameInv, Known, Gapless, Upto
<1>2. IInv /\ FrameInv /\ [Next]_vars => FrameInv'
  <2> SUFFICES ASSUME IInv, FrameInv, [Next]_vars PROVE FrameInv'
    OBVIOUS
  <2>1. CASE SendHeader
    BY <2>1, SizeAssumption, SendDataKeepsFrames DEF SendHeader
  <2>2. CASE SendBody
    <3>1. PICK n \in BodySizes : SendData(n)
      BY <2>2 DEF SendBody
    <3> QED
      BY <3>1, SizeAssumption, SendDataKeepsFrames
  <2>3. CASE DispatchWrite
    BY <2>3, DispatchKeepsFrames
  <2>4. CASE DispatchWriteFails
    <3>1. sizes' = sizes /\ wire' = wire /\ short' = TRUE
      BY <2>4 DEF DispatchWriteFails
    <3> QED
      BY <3>1 DEF FrameInv
  <2>5. CASE UNCHANGED vars
    BY <2>5 DEF vars, FrameInv
  <2> QED
    BY <2>1, <2>2, <2>3, <2>4, <2>5 DEF Next
<1> QED
  BY <1>1, <1>2, Invariance, PTL DEF Spec

(* Theorem: the stream the receiver gets has no gap as long as every send    *)
(* took what it was given: the one write_op and the poll lose nothing.       *)
THEOREM FramingSafe == Spec => []FramesWhole
BY GaplessIsWhole, FrameInvariance, PTL
=============================================================================
