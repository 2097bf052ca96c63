--------------------------- MODULE MsgStreamProofs --------------------------
(* Proofs about MsgStream for every header size, length limit, read size and *)
(* number of messages: however the reads cut the stream, the receiver stays  *)
(* in step with it, and what it does is what MsgChannel promises.            *)
EXTENDS MsgStream, SequenceTheorems, TLAPS

Message == [mt : MsgTypes, len : Lengths]

Unit == Nat \X Nat

(* Units of message m on the wire.                                           *)
Size(s, m) == HeaderSize + BodySize(s[m].len)

(* r is the rest of the stream of the messages s after the first p: whole    *)
(* messages in order.  A unit <<m, j>> at position i stands in the middle of *)
(* all the units of m, followed by the first unit of m + 1 or, after the     *)
(* last message sent, by nothing.                                            *)
Blocks(s, p, r) ==
    /\ r = <<>> => p = Len(s)
    /\ r # <<>> => r[1] = <<p + 1, 1>>
    /\ \A i \in 1..Len(r) :
        LET m == r[i][1]
            b == i - r[i][2]
        IN  /\ m \in 1..Len(s)
            /\ r[i][2] \in 1..Size(s, m)
            /\ 0 <= b /\ b + Size(s, m) <= Len(r)
            /\ \A k \in 1..Size(s, m) : r[b + k] = <<m, k>>
            /\ b + Size(s, m) < Len(r) => r[b + Size(s, m) + 1] = <<m + 1, 1>>
            /\ b + Size(s, m) = Len(r) => m = Len(s)

(* What has been processed is what was sent first.                           *)
ProcessedIsPrefix ==
    /\ Len(processed) <= Len(sent)
    /\ \A i \in 1..Len(processed) : processed[i] = sent[i]

(* The inductive invariant.                                                  *)
IInv ==
    /\ TypeOK
    /\ ProcessedIsPrefix
    /\ Blocks(sent, Len(processed), recved \o wire)
    /\ NothingHeldBack
    /\ RegisteredTypesCalled

-----------------------------------------------------------------------------
(* Lemma: the fields of a header are integers.                               *)
LEMMA FieldsAreIntegers == (\A x \in Lengths : x \in Int) /\ (\A x \in MsgTypes : x \in Int)
BY StreamAssumption

(* Lemma: what lies behind the first n elements of a sequence.               *)
LEMMA RestProperties ==
    ASSUME NEW S, NEW a \in Seq(S), NEW n \in 1..Len(a)
    PROVE  /\ SubSeq(a, n + 1, Len(a)) \in Seq(S)
           /\ Len(SubSeq(a, n + 1, Len(a))) = Len(a) - n
           /\ \A i \in 1..(Len(a) - n) : SubSeq(a, n + 1, Len(a))[i] = a[n + i]
<1>1. PICK A, c : A = Len(a) /\ c = SubSeq(a, n + 1, A)
  OBVIOUS
<1>2. A \in Nat /\ n \in Nat /\ n >= 1 /\ n <= A
  BY <1>1
<1>3. /\ c \in Seq(S)
      /\ Len(c) = IF n + 1 <= A THEN A - (n + 1) + 1 ELSE 0
      /\ \A i \in 1..(A - (n + 1) + 1) : c[i] = a[n + 1 + i - 1]
  <2>1. \A i \in (n + 1)..A : a[i] \in S
    BY <1>1, <1>2
  <2> QED
    BY <2>1, <1>1, <1>2, SubSeqProperties
<1>4. A - (n + 1) + 1 = A - n /\ \A i \in 1..(A - n) : n + 1 + i - 1 = n + i
  BY <1>2
<1>5. Len(c) = A - n
  BY <1>2, <1>3
<1>6. \A i \in 1..(A - n) : c[i] = a[n + i]
  BY <1>3, <1>4
<1> QED
  BY <1>1, <1>3, <1>5, <1>6

(* Lemma: dropping the first n elements of a commutes with appending w.      *)
LEMMA CutFromConcat ==
    ASSUME NEW S, NEW a \in Seq(S), NEW w \in Seq(S), NEW n \in 1..Len(a)
    PROVE  SubSeq(a \o w, n + 1, Len(a \o w)) = SubSeq(a, n + 1, Len(a)) \o w
<1>1. PICK A \in Nat, W \in Nat : A = Len(a) /\ W = Len(w)
  OBVIOUS
<1>2. PICK r, c : r = a \o w /\ c = SubSeq(a, n + 1, Len(a))
  OBVIOUS
<1>3. PICK x, y : x = SubSeq(r, n + 1, Len(r)) /\ y = c \o w
  OBVIOUS
<1>4. A \in Nat /\ W \in Nat /\ n \in Nat /\ n >= 1 /\ n <= A
  BY <1>1
<1>5. /\ r \in Seq(S) /\ Len(r) = A + W
      /\ \A i \in 1..(A + W) : r[i] = IF i <= A THEN a[i] ELSE w[i - A]
  BY <1>1, <1>2
<1>6. c \in Seq(S) /\ Len(c) = A - n /\ \A i \in 1..(A - n) : c[i] = a[n + i]
  BY <1>1, <1>2, RestProperties
<1>7. x \in Seq(S) /\ Len(x) = A + W - n /\ \A i \in 1..(A + W - n) : x[i] = r[n + i]
  <2>1. n \in 1..Len(r)
    BY <1>4, <1>5
  <2>2. /\ x \in Seq(S) /\ Len(x) = Len(r) - n
        /\ \A i \in 1..(Len(r) - n) : x[i] = r[n + i]
    BY <2>1, <1>3, <1>5, RestProperties
  <2> QED
    BY <2>2, <1>5
<1>8. /\ y \in Seq(S) /\ Len(y) = A - n + W
      /\ \A i \in 1..(A - n + W) : y[i] = IF i <= A - n THEN c[i] ELSE w[i - (A - n)]
  <2>1. /\ c \o w \in Seq(S) /\ Len(c \o w) = Len(c) + Len(w)
        /\ \A i \in 1..(Len(c) + Len(w)) :
              (c \o w)[i] = IF i <= Len(c) THEN c[i] ELSE w[i - Len(c)]
    BY <1>6, ConcatProperties
  <2> QED
    BY <1>1, <1>3, <1>6, <2>1
<1>9. Len(x) = Len(y)
  BY <1>4, <1>7, <1>8
<1>10. ASSUME NEW i \in 1..Len(x)
       PROVE  x[i] = y[i]
  <2>1. i \in 1..(A + W - n) /\ n + i \in 1..(A + W) /\ i \in 1..(A - n + W) /\ i \in Int
    BY <1>4, <1>7
  <2>2. x[i] = IF n + i <= A THEN a[n + i] ELSE w[n + i - A]
    <3>1. x[i] = r[n + i]
      BY <2>1, <1>7
    <3>2. r[n + i] = IF n + i <= A THEN a[n + i] ELSE w[n + i - A]
      BY <2>1, <1>5
    <3> QED
      BY <3>1, <3>2
  <2>3. CASE n + i <= A
    <3>1. i \in 1..(A - n)
      BY <2>1, <2>3, <1>4
    <3> QED
      BY <2>1, <2>2, <2>3, <3>1, <1>4, <1>6, <1>8
  <2>4. CASE n + i > A
    <3>1. i - (A - n) = n + i - A /\ ~(i <= A - n) /\ ~(n + i <= A)
      BY <2>1, <2>4, <1>4
    <3>2. y[i] = w[i - (A - n)]
      BY <2>1, <3>1, <1>8
    <3> QED
      BY <2>2, <3>1, <3>2
  <2> QED
    BY <2>1, <2>3, <2>4, <1>4
<1>11. x = y
  BY <1>7, <1>8, <1>9, <1>10, SeqEqual
<1> QED
  BY <1>1, <1>2, <1>3, <1>5, <1>11

(* Lemma: a message takes at least its header.                               *)
LEMMA SizePositive ==
    ASSUME NEW s \in Seq(Message), NEW m \in 1..Len(s)
    PROVE  Size(s, m) \in Nat /\ Size(s, m) >= HeaderSize /\ Size(s, m) >= 1
BY StreamAssumption DEF Message, Size, BodySize

(* Lemma: the server adds a whole message at the end of the stream.          *)
LEMMA BlocksAppend ==
    ASSUME NEW s \in Seq(Message), NEW p \in 0..Len(s), NEW r \in Seq(Unit), Blocks(s, p, r),
           NEW x \in Message,
           NEW n, n = HeaderSize + BodySize(x.len),
           NEW u, u = [i \in 1..n |-> <<Len(s) + 1, i>>]
    PROVE  /\ u \in Seq(Unit)
           /\ Blocks(Append(s, x), p, r \o u)
<1> DEFINE t == Append(s, x)
           q == r \o u
           L == Len(r)
<1>1. n \in Nat /\ n >= 1 /\ L \in Nat /\ Len(s) \in Nat
  BY StreamAssumption DEF Message, BodySize
<1>2. u \in Seq(Unit) /\ Len(u) = n /\ \A i \in 1..n : u[i] = <<Len(s) + 1, i>>
  <2>1. \A i \in 1..n : <<Len(s) + 1, i>> \in Unit
    BY <1>1 DEF Unit
  <2>2. [i \in 1..n |-> <<Len(s) + 1, i>>] \in Seq(Unit)
    BY <1>1, <2>1
  <2>3. u \in [1..n -> Unit]
    BY <2>1
  <2> QED
    BY <1>1, <2>2, <2>3
<1>3. /\ t \in Seq(Message) /\ Len(t) = Len(s) + 1 /\ t[Len(s) + 1] = x
      /\ \A m \in 1..Len(s) : t[m] = s[m]
  OBVIOUS
<1>4. Size(t, Len(s) + 1) = n /\ \A m \in 1..Len(s) : Size(t, m) = Size(s, m)
  BY <1>3 DEF Size
<1>5. /\ q \in Seq(Unit) /\ Len(q) = L + n
      /\ \A i \in 1..L : q[i] = r[i]
      /\ \A i \in 1..n : q[L + i] = <<Len(s) + 1, i>>
  BY <1>1, <1>2
<1> HIDE DEF t, q
<1>6. q # <<>> /\ q[1] = <<p + 1, 1>>
  <2>1. CASE r = <<>>
    <3>1. L = 0 /\ p = Len(s) /\ 1 \in 1..n
      BY <2>1, <1>1 DEF Blocks
    <3>2. q[0 + 1] = <<Len(s) + 1, 1>> /\ Len(q) >= 1
      BY <3>1, <1>1, <1>5
    <3> QED
      BY <3>1, <3>2, <1>5
  <2>2. CASE r # <<>>
    <3>1. L >= 1 /\ r[1] = <<p + 1, 1>>
      BY <2>2, <1>1 DEF Blocks
    <3>2. q[1] = r[1] /\ Len(q) >= 1
      BY <3>1, <1>1, <1>5
    <3> QED
      BY <3>1, <3>2, <1>5
  <2> QED
    BY <2>1, <2>2
<1>7. ASSUME NEW i \in 1..Len(q)
      PROVE  /\ q[i][1] \in 1..Len(t)
             /\ q[i][2] \in 1..Size(t, q[i][1])
             /\ 0 <= i - q[i][2] /\ i - q[i][2] + Size(t, q[i][1]) <= Len(q)
             /\ \A k \in 1..Size(t, q[i][1]) : q[i - q[i][2] + k] = <<q[i][1], k>>
             /\ i - q[i][2] + Size(t, q[i][1]) < Len(q)
                   => q[i - q[i][2] + Size(t, q[i][1]) + 1] = <<q[i][1] + 1, 1>>
             /\ i - q[i][2] + Size(t, q[i][1]) = Len(q) => q[i][1] = Len(t)
  <2>1. CASE i \in 1..L
    <3>1. PICK m, j : m = q[i][1] /\ j = q[i][2]
      OBVIOUS
    <3>2. /\ m \in 1..Len(s) /\ j \in 1..Size(s, m)
          /\ 0 <= i - j /\ i - j + Size(s, m) <= L
          /\ \A k \in 1..Size(s, m) : r[i - j + k] = <<m, k>>
          /\ i - j + Size(s, m) < L => r[i - j + Size(s, m) + 1] = <<m + 1, 1>>
          /\ i - j + Size(s, m) = L => m = Len(s)
      BY <2>1, <3>1, <1>5 DEF Blocks
    <3>3. Size(t, m) = Size(s, m) /\ Size(s, m) \in Nat
      BY <1>4, <3>2, SizePositive
    <3>4. \A k \in 1..Size(s, m) : q[i - j + k] = <<m, k>>
      <4> TAKE k \in 1..Size(s, m)
      <4>1. i - j + k \in 1..L
        BY <3>2, <3>3, <1>1, <2>1, SMTT(30)
      <4> QED
        BY <4>1, <3>2, <1>5
    <3>5. q[i - j + Size(s, m) + 1] = <<m + 1, 1>>
      <4>1. CASE i - j + Size(s, m) < L
        <5>1. i - j + Size(s, m) + 1 \in 1..L
          BY <4>1, <3>2, <3>3, <1>1, <2>1, SMTT(30)
        <5> QED
          BY <4>1, <5>1, <3>2, <1>5
      <4>2. CASE i - j + Size(s, m) = L
        <5>1. q[L + 1] = <<Len(s) + 1, 1>>
          BY <1>1, <1>5
        <5> QED
          BY <4>2, <5>1, <3>2
      <4> QED
        BY <4>1, <4>2, <3>2, <3>3, <1>1, SMTT(30)
    <3>6. i - j + Size(s, m) # Len(q)
      BY <3>2, <3>3, <1>1, <1>5
    <3>7. m \in 1..Len(t) /\ i - j + Size(s, m) <= Len(q)
      BY <3>2, <3>3, <1>1, <1>3, <1>5, SMTT(30)
    <3> QED
      BY <3>1, <3>2, <3>3, <3>4, <3>5, <3>6, <3>7
  <2>2. CASE i \notin 1..L
    <3>1. PICK j \in 1..n : i = L + j
      <4>1. i - L \in 1..n /\ i = L + (i - L)
        BY <2>2, <1>1, <1>5
      <4> QED
        BY <4>1
    <3>2. q[i] = <<Len(s) + 1, j>> /\ q[i][1] = Len(s) + 1 /\ q[i][2] = j
      BY <3>1, <1>5
    <3>3. i - j = L
      BY <3>1, <1>1
    <3> QED
      BY <3>2, <3>3, <1>1, <1>3, <1>4, <1>5, SMTT(30)
  <2> QED
    BY <2>1, <2>2
<1>8. Blocks(t, p, q)
  BY <1>6, <1>7 DEF Blocks
<1> QED
  BY <1>2, <1>8 DEF t, q

(* Lemma: the first message of a stream is all there and comes first; cut    *)
(* off, it leaves the stream of the messages after it.                       *)
LEMMA BlocksCut ==
    ASSUME NEW s \in Seq(Message), NEW p \in Nat, NEW r \in Seq(Unit), Blocks(s, p, r),
           r # <<>>, NEW n, n = Size(s, p + 1)
    PROVE  /\ p + 1 \in 1..Len(s)
           /\ n \in 1..Len(r)
           /\ Blocks(s, p + 1, SubSeq(r, n + 1, Len(r)))
<1> DEFINE L == Len(r)
           q == SubSeq(r, n + 1, L)
<1>1. L \in Nat /\ L >= 1 /\ r[1] = <<p + 1, 1>>
  BY DEF Blocks
<1>2. /\ p + 1 \in 1..Len(s) /\ n <= L
      /\ \A k \in 1..n : r[k] = <<p + 1, k>>
      /\ n < L => r[n + 1] = <<p + 2, 1>>
      /\ n = L => p + 1 = Len(s)
  <2>1. 1 \in 1..Len(r) /\ r[1][1] = p + 1 /\ r[1][2] = 1 /\ 1 - 1 = 0
    BY <1>1
  <2>2. /\ p + 1 \in 1..Len(s) /\ 0 + n <= L
        /\ \A k \in 1..n : r[0 + k] = <<p + 1, k>>
        /\ 0 + n < L => r[0 + n + 1] = <<p + 1 + 1, 1>>
        /\ 0 + n = L => p + 1 = Len(s)
    BY <2>1 DEF Blocks
  <2>3. n \in Nat
    BY <2>2, SizePositive
  <2> QED
    BY <2>2, <2>3
<1>3. n \in Nat /\ n >= 1
  BY <1>2, SizePositive
<1>4. /\ q \in Seq(Unit) /\ Len(q) = L - n
      /\ \A i \in 1..(L - n) : q[i] = r[n + i]
  <2>1. \A i \in (n + 1)..L : r[i] \in Unit
    BY <1>1, <1>3
  <2>2. n + 1 \in Int /\ L \in Int
    BY <1>1, <1>3
  <2>3. /\ q \in Seq(Unit)
        /\ Len(q) = IF n + 1 <= L THEN L - (n + 1) + 1 ELSE 0
        /\ \A i \in 1..(L - (n + 1) + 1) : q[i] = r[n + 1 + i - 1]
    BY <2>1, <2>2, SubSeqProperties
  <2>4. L - (n + 1) + 1 = L - n /\ \A i \in 1..(L - n) : n + 1 + i - 1 = n + i
    BY <1>1, <1>3
  <2>5. Len(q) = L - n
    BY <2>3, <1>1, <1>2, <1>3
  <2> QED
    BY <2>3, <2>4, <2>5
<1> HIDE DEF q
<1>5. q = <<>> => p + 1 = Len(s)
  BY <1>1, <1>2, <1>3, <1>4
<1>6. q # <<>> => q[1] = <<p + 1 + 1, 1>>
  BY <1>1, <1>2, <1>3, <1>4
<1>7. ASSUME NEW i \in 1..Len(q)
      PROVE  /\ q[i][1] \in 1..Len(s)
             /\ q[i][2] \in 1..Size(s, q[i][1])
             /\ 0 <= i - q[i][2] /\ i - q[i][2] + Size(s, q[i][1]) <= Len(q)
             /\ \A k \in 1..Size(s, q[i][1]) : q[i - q[i][2] + k] = <<q[i][1], k>>
             /\ i - q[i][2] + Size(s, q[i][1]) < Len(q)
                   => q[i - q[i][2] + Size(s, q[i][1]) + 1] = <<q[i][1] + 1, 1>>
             /\ i - q[i][2] + Size(s, q[i][1]) = Len(q) => q[i][1] = Len(s)
  <2>1. PICK m, j : m = q[i][1] /\ j = q[i][2]
    OBVIOUS
  <2>2. PICK h : h = n + i
    OBVIOUS
  <2>3. h \in 1..L /\ q[i] = r[h] /\ i \in 1..(L - n)
    BY <2>2, <1>1, <1>2, <1>3, <1>4, SMTT(30)
  <2>4. PICK z : z = Size(s, m)
    OBVIOUS
  <2>5. /\ m \in 1..Len(s) /\ j \in 1..z
        /\ 0 <= h - j /\ h - j + z <= L
        /\ \A k \in 1..z : r[h - j + k] = <<m, k>>
        /\ h - j + z < L => r[h - j + z + 1] = <<m + 1, 1>>
        /\ h - j + z = L => m = Len(s)
    BY <2>1, <2>3, <2>4 DEF Blocks
  <2>6. z \in Nat /\ z >= 1 /\ j \in Int
    BY <2>4, <2>5, SizePositive
  <2>7. PICK b \in Int : b = i - j /\ h - j = n + b
    BY <2>2, <2>3, <2>6, <1>3
  <2>8. 0 <= b
    <3> SUFFICES ASSUME b < 0
                 PROVE  FALSE
      BY <2>7
    <3>1. -b \in 1..z /\ n + b + (-b) = n
      BY <2>3, <2>5, <2>6, <2>7, <1>1, <1>3
    <3>2. r[n] = <<m, -b>>
      BY <3>1, <2>5, <2>7
    <3>3. r[n] = <<p + 1, n>>
      BY <1>2, <1>3
    <3>4. m = p + 1 /\ -b = n
      BY <3>2, <3>3
    <3>5. z = n
      BY <3>4, <2>4
    <3> QED
      BY <3>4, <3>5, <2>3, <2>5, <2>6, <2>7, <1>1, <1>3
  <2>9. n + b + z <= L
    BY <2>5, <2>7
  <2>9a. n \in Int /\ L \in Int /\ b \in Int /\ Len(q) = L - n
    BY <1>1, <1>3, <1>4
  <2>10. b + z <= Len(q)
    BY <2>6, <2>7, <2>9, <1>1, <1>3, <1>4
  <2>11. \A k \in 1..z : q[b + k] = <<m, k>>
    <3> TAKE k \in 1..z
    <3>1. b + k \in 1..(L - n) /\ n + (b + k) = n + b + k
      BY <2>6, <2>8, <2>9, <2>9a, SMTT(30)
    <3> QED
      BY <3>1, <2>5, <2>7, <1>4
  <2>12. b + z < Len(q) => q[b + z + 1] = <<m + 1, 1>>
    <3> SUFFICES ASSUME b + z < Len(q)
                 PROVE  q[b + z + 1] = <<m + 1, 1>>
      OBVIOUS
    <3>1. /\ b + z + 1 \in 1..(L - n) /\ n + (b + z + 1) = n + b + z + 1
          /\ n + b + z < L
      BY <2>6, <2>8, <2>9a
    <3> QED
      BY <3>1, <2>5, <2>7, <1>4
  <2>13. b + z = Len(q) => m = Len(s)
    <3> SUFFICES ASSUME b + z = Len(q)
                 PROVE  m = Len(s)
      OBVIOUS
    <3>1. n + b + z = L
      BY <2>6, <2>9a
    <3> QED
      BY <3>1, <2>5, <2>7
  <2> QED
    BY <2>1, <2>4, <2>5, <2>7, <2>8, <2>10, <2>11, <2>12, <2>13
<1>8. Blocks(s, p + 1, q)
  BY <1>5, <1>6, <1>7 DEF Blocks
<1> QED
  BY <1>2, <1>3, <1>8 DEF q

-----------------------------------------------------------------------------
(* Lemma: the invariant gives the properties of the receiver.                *)
LEMMA StreamFromIInv == IInv => StreamExact
BY DEF IInv, StreamExact, Blocks, InStep

(* Lemma: the types, for the steps below.                                    *)
LEMMA Typed ==
    ASSUME TypeOK
    PROVE  /\ sent \in Seq(Message) /\ processed \in Seq(Message)
           /\ wire \in Seq(Unit) /\ recved \in Seq(Unit)
           /\ Len(sent) \in Nat /\ Len(processed) \in Nat
           /\ Len(wire) \in Nat /\ Len(recved) \in Nat
           /\ recved \o wire \in Seq(Unit)
BY DEF TypeOK, Message, Unit

(* Lemma: what the header at the front of recved is: the next message's.     *)
LEMMA HeaderIsNext ==
    ASSUME IInv, HasHeader
    PROVE  /\ recved[1] = <<Len(processed) + 1, 1>>
           /\ Len(processed) + 1 \in 1..Len(sent)
           /\ Header = sent[Len(processed) + 1] /\ Header \in Message
           /\ recved \o wire # <<>>
<1>1. TypeOK /\ Blocks(sent, Len(processed), recved \o wire)
  BY DEF IInv
<1>2. Len(recved) >= 1
  BY <1>1, Typed, StreamAssumption DEF HasHeader
<1>3. (recved \o wire)[1] = recved[1] /\ recved \o wire # <<>>
  <2>1. Len(recved \o wire) >= 1 /\ (recved \o wire)[1] = recved[1]
    BY <1>1, <1>2, Typed
  <2> QED
    BY <2>1
<1>4. recved[1] = <<Len(processed) + 1, 1>>
  BY <1>1, <1>3 DEF Blocks
<1>5. Len(processed) + 1 \in 1..Len(sent)
  BY <1>1, <1>3, Typed, BlocksCut
<1>6. Header = sent[Len(processed) + 1]
  BY <1>4 DEF Header
<1> QED
  BY <1>1, <1>3, <1>4, <1>5, <1>6, Typed

(* Lemma: sending.                                                           *)
LEMMA SendStep ==
    ASSUME IInv, NEW mt \in MsgTypes, NEW len \in Lengths, ServerSend(mt, len)
    PROVE  IInv'
<1> DEFINE x == [mt |-> mt, len |-> len]
<1>1. /\ TypeOK /\ ProcessedIsPrefix /\ Blocks(sent, Len(processed), recved \o wire)
      /\ NothingHeldBack /\ RegisteredTypesCalled
  BY DEF IInv
<1>2. x \in Message /\ x.len = len
  BY DEF Message
<1> HIDE DEF x
<1>3. PICK n : n = HeaderSize + BodySize(len)
  OBVIOUS
<1>4. PICK u : u = [i \in 1..n |-> <<Len(sent) + 1, i>>]
  OBVIOUS
<1>5. /\ sent' = Append(sent, x) /\ wire' = wire \o u
      /\ UNCHANGED <<recved, pc, processed, called>>
  BY <1>3, <1>4 DEF ServerSend, x
<1>6. Len(processed) \in 0..Len(sent)
  BY <1>1, Typed DEF ProcessedIsPrefix
<1>7. /\ u \in Seq(Unit)
      /\ Blocks(Append(sent, x), Len(processed), (recved \o wire) \o u)
  <2>1. PICK r : r = recved \o wire
    OBVIOUS
  <2>2. r \in Seq(Unit) /\ sent \in Seq(Message) /\ Blocks(sent, Len(processed), r)
    BY <1>1, <2>1, Typed
  <2>3. n = HeaderSize + BodySize(x.len)
    BY <1>2, <1>3
  <2>4. u \in Seq(Unit) /\ Blocks(Append(sent, x), Len(processed), r \o u)
    BY <1>2, <1>4, <1>6, <2>2, <2>3, BlocksAppend
  <2> QED
    BY <2>1, <2>4
<1>8. (recved \o wire) \o u = recved \o (wire \o u)
  BY <1>1, <1>7, Typed, ConcatAssociative
<1>9. Blocks(sent', Len(processed'), recved' \o wire')
  BY <1>5, <1>7, <1>8
<1>10. /\ sent' \in Seq(Message) /\ wire' \in Seq(Unit) /\ Len(sent') = Len(sent) + 1
       /\ \A m \in 1..Len(sent) : sent'[m] = sent[m]
  BY <1>1, <1>2, <1>5, <1>7, Typed
<1>11. TypeOK'
  BY <1>1, <1>5, <1>10 DEF TypeOK, Message, Unit
<1>12. ProcessedIsPrefix'
  BY <1>1, <1>5, <1>10, Typed DEF ProcessedIsPrefix
<1>13. RegisteredTypesCalled'
  <2>1. \A m \in 1..Len(processed) : sent'[m] = sent[m]
    BY <1>1, <1>10, Typed DEF ProcessedIsPrefix
  <2> QED
    BY <1>1, <1>5, <2>1 DEF RegisteredTypesCalled
<1>14. NothingHeldBack'
  <2> SUFFICES ASSUME pc' = "reading", HasHeader'
               PROVE  ~BadLength' /\ ~Complete'
    BY DEF NothingHeldBack
  <2>1. HasHeader /\ pc = "reading"
    BY <1>5 DEF HasHeader
  <2>2. Header' = Header
    BY <1>5, <1>10, <2>1, HeaderIsNext DEF Header
  <2> QED
    BY <1>1, <1>5, <2>1, <2>2 DEF NothingHeldBack, BadLength, Complete
<1> QED
  BY <1>9, <1>11, <1>12, <1>13, <1>14 DEF IInv

(* Lemma: reading moves units from the wire to recved and changes nothing of *)
(* the stream.                                                               *)
LEMMA ReadStep ==
    ASSUME IInv, NEW n \in 1..ReadSize, Read(n)
    PROVE  IInv'
<1>1. /\ TypeOK /\ ProcessedIsPrefix /\ Blocks(sent, Len(processed), recved \o wire)
      /\ RegisteredTypesCalled
  BY DEF IInv
<1>2. PICK a, b : a = SubSeq(wire, 1, n) /\ b = SubSeq(wire, n + 1, Len(wire))
  OBVIOUS
<1>3. /\ recved' = recved \o a /\ wire' = b /\ pc' = "loop"
      /\ UNCHANGED <<sent, processed, called>> /\ n \in 1..Len(wire)
  BY <1>1, <1>2, Typed, StreamAssumption DEF Read
<1>4. a \in Seq(Unit) /\ b \in Seq(Unit)
  BY <1>1, <1>2, <1>3, Typed
<1>5. a \o b = wire
  <2>1. a \o b = SubSeq(wire, 1, Len(wire))
    <3>1. 1 \in 1..Len(wire)+1 /\ n \in 1-1..Len(wire) /\ Len(wire) \in n..Len(wire)
      BY <1>1, <1>3, Typed
    <3> QED
      BY <1>1, <1>2, <3>1, Typed, ConcatAdjacentSubSeq
  <2> QED
    BY <1>1, <2>1, Typed, SubSeqFull
<1>6. (recved \o a) \o b = recved \o wire
  <2>1. recved \in Seq(Unit)
    BY <1>1, Typed
  <2>2. (recved \o a) \o b = recved \o (a \o b)
    BY <1>4, <2>1, ConcatAssociative
  <2> QED
    BY <1>5, <2>2
<1>7. Blocks(sent', Len(processed'), recved' \o wire')
  BY <1>1, <1>3, <1>6
<1>8. TypeOK'
  <2>1. recved \o a \in Seq(Unit)
    BY <1>1, <1>4, Typed
  <2> QED
    BY <1>1, <1>3, <1>4, <2>1 DEF TypeOK, Unit
<1>9. ProcessedIsPrefix' /\ RegisteredTypesCalled' /\ NothingHeldBack'
  BY <1>1, <1>3 DEF ProcessedIsPrefix, RegisteredTypesCalled, NothingHeldBack
<1> QED
  BY <1>7, <1>8, <1>9 DEF IInv

(* Lemma: the steps that only end the loop or the connection.                *)
LEMMA ControlStep ==
    ASSUME IInv, ReadEof \/ NeedMore \/ BadMsg
    PROVE  IInv'
<1>1. /\ TypeOK /\ ProcessedIsPrefix /\ Blocks(sent, Len(processed), recved \o wire)
      /\ RegisteredTypesCalled
  BY DEF IInv
<1>2. /\ UNCHANGED <<sent, wire, recved, processed, called>>
      /\ \/ pc' = "closed"
         \/ pc' = "reading" /\ (~HasHeader \/ (HasHeader /\ ~BadLength /\ ~Complete))
  BY DEF ReadEof, NeedMore, BadMsg
<1>3. TypeOK' /\ ProcessedIsPrefix' /\ RegisteredTypesCalled'
  BY <1>1, <1>2 DEF TypeOK, ProcessedIsPrefix, RegisteredTypesCalled
<1>4. NothingHeldBack'
  BY <1>2 DEF NothingHeldBack, HasHeader, BadLength, Complete, Header
<1> QED
  BY <1>1, <1>2, <1>3, <1>4 DEF IInv

(* Lemma: what a pass of the loop that finds a whole message does: it        *)
(* handles the next message sent, and leaves recved at the one after it.     *)
LEMMA DecodeDoes ==
    ASSUME IInv, Decode
    PROVE  /\ Len(processed) + 1 \in 1..Len(sent)
           /\ processed' = Append(processed, sent[Len(processed) + 1])
           /\ ProcessMsg(Len(processed) + 1, "loop")
           /\ recved' \in Seq(Unit)
           /\ Blocks(sent, Len(processed) + 1, recved' \o wire)
           /\ UNCHANGED <<sent, wire>>
<1>1. /\ TypeOK /\ Blocks(sent, Len(processed), recved \o wire)
  BY DEF IInv
<1>2. /\ HasHeader /\ ~BadLength /\ Complete
      /\ recved' = SubSeq(recved, HeaderSize + Header.len + 1, Len(recved))
      /\ processed' = Append(processed, Header)
      /\ ProcessMsg(recved[1][1], "loop")
      /\ UNCHANGED <<sent, wire>>
  BY DEF Decode
<1>3. /\ recved[1][1] = Len(processed) + 1 /\ Len(processed) + 1 \in 1..Len(sent)
      /\ Header = sent[Len(processed) + 1] /\ Header \in Message
      /\ recved \o wire # <<>>
  BY <1>2, HeaderIsNext
<1>4. PICK n : n = HeaderSize + Header.len
  OBVIOUS
<1>5. n = Size(sent, Len(processed) + 1) /\ n \in Nat /\ n >= 1 /\ n <= Len(recved)
  <2>1. HeaderSize \in Nat /\ HeaderSize >= 1 /\ Header.len \in Int /\ MaxLen \in Nat
    <3>1. Header.len \in Lengths
      BY <1>3 DEF Message
    <3>2. Header.len \in Int
      BY <3>1, FieldsAreIntegers, Zenon
    <3> QED
      BY <3>2, StreamAssumption
  <2>2. Header.len \in 0..MaxLen
    BY <1>2, <2>1 DEF BadLength
  <2>3. n = Size(sent, Len(processed) + 1)
    BY <1>3, <1>4, <2>2 DEF Size, BodySize
  <2>4. n <= Len(recved)
    BY <1>1, <1>2, <1>4, <2>1, <2>2, Typed DEF Complete
  <2> QED
    BY <1>4, <2>1, <2>2, <2>3, <2>4
<1>6. Blocks(sent, Len(processed) + 1, SubSeq(recved \o wire, n + 1, Len(recved \o wire)))
  BY <1>1, <1>3, <1>5, Typed, BlocksCut
<1>7. recved' \in Seq(Unit) /\ recved' = SubSeq(recved, n + 1, Len(recved))
  BY <1>1, <1>2, <1>4, <1>5, Typed
<1>8. SubSeq(recved \o wire, n + 1, Len(recved \o wire)) = recved' \o wire
  <2>1. recved \in Seq(Unit) /\ wire \in Seq(Unit) /\ n \in 1..Len(recved)
    BY <1>1, <1>5, Typed
  <2> QED
    BY <1>7, <2>1, CutFromConcat
<1> QED
  BY <1>2, <1>3, <1>6, <1>7, <1>8

(* Lemma: handling a message preserves the invariant.                        *)
LEMMA DecodeStep ==
    ASSUME IInv, Decode
    PROVE  IInv'
<1>1. /\ TypeOK /\ ProcessedIsPrefix /\ RegisteredTypesCalled
  BY DEF IInv
<1>2. PICK m : m = Len(processed) + 1
  OBVIOUS
<1>3. /\ m \in 1..Len(sent) /\ processed' = Append(processed, sent[m])
      /\ ProcessMsg(m, "loop") /\ recved' \in Seq(Unit)
      /\ Blocks(sent, m, recved' \o wire)
      /\ UNCHANGED <<sent, wire>>
  BY <1>2, DecodeDoes
<1>4. /\ processed' \in Seq(Message) /\ Len(processed') = m /\ processed'[m] = sent[m]
      /\ \A i \in 1..Len(processed) : processed'[i] = processed[i]
      /\ 1..m = 1..Len(processed) \cup {m} /\ m \notin 1..Len(processed)
  BY <1>1, <1>2, <1>3, Typed
<1>5. pc' \in {"loop", "closed"}
  BY <1>3 DEF ProcessMsg
<1>6. \/ SignedChar(sent[m].mt) \in Registered /\ called' = called \cup {m}
      \/ SignedChar(sent[m].mt) \notin Registered /\ called' = called
  BY <1>3 DEF ProcessMsg
<1>7. TypeOK'
  BY <1>1, <1>3, <1>4, <1>5, <1>6 DEF TypeOK, Message, Unit
<1>8. ProcessedIsPrefix'
  BY <1>1, <1>2, <1>3, <1>4 DEF ProcessedIsPrefix
<1>9. Blocks(sent', Len(processed'), recved' \o wire')
  BY <1>3, <1>4
<1>10. RegisteredTypesCalled'
  <2> SUFFICES ASSUME NEW k \in 1..m,
                      sent[k].mt \in Registered, sent[k].mt - 256 \notin Registered
               PROVE  k \in called' <=> sent[k].mt <= 127
    BY <1>3, <1>4 DEF RegisteredTypesCalled
  <2>1. CASE k = m
    <3>1. sent[m].mt \in Int
      <4>1. sent[m] \in Message
        BY <1>1, <1>3, Typed
      <4>2. sent[m].mt \in MsgTypes
        BY <4>1 DEF Message
      <4> QED
        BY <4>2, FieldsAreIntegers, Zenon
    <3>2. m \notin called
      BY <1>1, <1>4 DEF TypeOK
    <3>3. SignedChar(sent[m].mt) \in Registered <=> sent[m].mt <= 127
      BY <2>1, <3>1 DEF SignedChar
    <3> QED
      BY <1>6, <2>1, <3>2, <3>3
  <2>2. CASE k # m
    BY <1>1, <1>4, <1>6, <2>2 DEF RegisteredTypesCalled
  <2> QED
    BY <2>1, <2>2
<1>11. NothingHeldBack'
  BY <1>5 DEF NothingHeldBack
<1> QED
  BY <1>7, <1>8, <1>9, <1>10, <1>11 DEF IInv

-----------------------------------------------------------------------------
(* Lemma: the invariant holds initially and is preserved.                    *)
LEMMA InitIInv == Init => IInv
<1> SUFFICES ASSUME Init
             PROVE  IInv
  OBVIOUS
<1>1. recved \o wire = <<>> /\ Len(sent) = 0 /\ Len(processed) = 0 /\ Len(recved) = 0
  BY DEF Init
<1>2. TypeOK /\ ProcessedIsPrefix /\ RegisteredTypesCalled
  BY <1>1 DEF Init, TypeOK, ProcessedIsPrefix, RegisteredTypesCalled
<1>3. Blocks(sent, Len(processed), recved \o wire)
  BY <1>1 DEF Blocks
<1>4. NothingHeldBack
  BY <1>1, StreamAssumption DEF NothingHeldBack, HasHeader
<1> QED
  BY <1>2, <1>3, <1>4 DEF IInv

(* Lemma: every step preserves it.                                           *)
LEMMA NextIInv == IInv /\ [Next]_vars => IInv'
<1> SUFFICES ASSUME IInv, [Next]_vars
             PROVE  IInv'
  OBVIOUS
<1>1. CASE \E mt \in MsgTypes, len \in Lengths : ServerSend(mt, len)
  BY <1>1, SendStep
<1>2. CASE \E n \in 1..ReadSize : Read(n)
  BY <1>2, ReadStep
<1>3. CASE ReadEof \/ NeedMore \/ BadMsg
  BY <1>3, ControlStep
<1>4. CASE Decode
  BY <1>4, DecodeStep
<1>5. CASE UNCHANGED vars
  BY <1>5 DEF vars, IInv, TypeOK, ProcessedIsPrefix, NothingHeldBack, HasHeader, BadLength,
              Complete, Header, RegisteredTypesCalled
<1> QED
  BY <1>1, <1>2, <1>3, <1>4, <1>5 DEF Next

(* Theorem: however the reads cut the stream, the receiver looks for a       *)
(* header only where a message starts, never waits for data while it holds a *)
(* message it could handle, and calls the callbacks it has to.               *)
THEOREM ReceiverStreamExact == Spec => []StreamExact
<1>1. Spec => []IInv
  BY InitIInv, NextIInv, PTL DEF Spec
<1> QED
  BY <1>1, StreamFromIInv, PTL

(* Theorem: onDataRead implements the message channel: every message is      *)
(* handled once, in the order sent, and none after the close.                *)
THEOREM ReceiverImplementsChannel == Spec => ChannelSpec
<1>1. Init => Channel!ChannelInit
  BY DEF Init, Channel!ChannelInit
<1>2. IInv /\ [Next]_vars => [Channel!ChannelNext]_(Channel!channelVars)
  <2> SUFFICES ASSUME IInv, [Next]_vars
               PROVE  [Channel!ChannelNext]_(Channel!channelVars)
    OBVIOUS
  <2>1. CASE \E mt \in MsgTypes, len \in Lengths : ServerSend(mt, len)
    <3>1. PICK mt \in MsgTypes, len \in Lengths : ServerSend(mt, len)
      BY <2>1
    <3>2. /\ [mt |-> mt, len |-> len] \in [mt : MsgTypes, len : Lengths]
          /\ sent' = Append(sent, [mt |-> mt, len |-> len])
          /\ UNCHANGED <<processed, pc>>
      BY <3>1 DEF ServerSend
    <3> QED
      BY <3>2 DEF Channel!ChannelNext, Channel!ServerSends
  <2>2. CASE (\E n \in 1..ReadSize : Read(n)) \/ NeedMore
    BY <2>2 DEF Read, NeedMore, Channel!channelVars
  <2>3. CASE ReadEof \/ BadMsg
    BY <2>3 DEF ReadEof, BadMsg, Channel!ChannelNext, Channel!CloseChannel
  <2>4. CASE Decode
    <3>1. /\ Len(processed) + 1 \in 1..Len(sent)
          /\ processed' = Append(processed, sent[Len(processed) + 1])
          /\ sent' = sent
      BY <2>4, DecodeDoes
    <3>2. pc = "loop"
      BY <2>4 DEF Decode
    <3>3. Len(processed) < Len(sent)
      BY <3>1, Typed DEF IInv
    <3> QED
      BY <3>1, <3>2, <3>3 DEF Channel!ChannelNext, Channel!HandleNext
  <2>5. CASE UNCHANGED vars
    BY <2>5 DEF vars, Channel!channelVars
  <2> QED
    BY <2>1, <2>2, <2>3, <2>4, <2>5 DEF Next
<1>3. Spec => []IInv
  BY InitIInv, NextIInv, PTL DEF Spec
<1> QED
  BY <1>1, <1>2, <1>3, PTL DEF Spec, ChannelSpec, Channel!ChannelSpec
=============================================================================
