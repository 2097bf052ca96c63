------------------------------ MODULE SendPath ------------------------------
(* The way of a message from ClientTcp::sendMsg to the socket of one         *)
(* established connection.  sendMsg hands a header and a body to             *)
(* PjTcp::sendData, which keeps a copy in write_bufs and calls               *)
(* pj_ioqueue_send with the connection's only write_op: the socket takes     *)
(* everything, takes a part, fails or would block; a send that would block   *)
(* is left to the poll that finds the socket writable.                       *)
(* Buffers are numbered in the order of the sendData calls: buffer 2m-1 is   *)
(* the header and 2m the body of the m-th message.                           *)
EXTENDS Naturals, Sequences

CONSTANTS
    HeaderSize,        \* sizeof(ClientMsg), in units of data
    BodySizes,         \* sizes of the encoded bodies
    MaxMsgs            \* bound: messages sent

ASSUME SizeAssumption ==
    /\ HeaderSize \in Nat \ {0}
    /\ BodySizes \subseteq Nat
    /\ MaxMsgs \in Nat

VARIABLES
    sizes,             \* sizes[b]: size of buffer b, one entry per sendData
    popped,            \* write_bufs holds the buffers popped+1 .. Len(sizes)
    pending,           \* the buffer write_op points to while it is in the
                       \* key's write_list, 0 if the list is empty
    written,           \* write_op->written
    op,                \* write_op->op # 0
    half,              \* sendMsg has sent the header and not yet the body
    wire,              \* what the socket has taken: <<buffer, unit>> pairs
    short              \* history: a send has taken less than it was given

vars == <<sizes, popped, pending, written, op, half, wire, short>>

(* A new connection.  Nobody calls pj_ioqueue_op_key_init on write_op: its   *)
(* op field starts with whatever the memory holds.                           *)
Init ==
    /\ sizes = <<>>
    /\ popped = 0
    /\ pending = 0
    /\ written = 0
    /\ op \in BOOLEAN
    /\ half = FALSE
    /\ wire = <<>>
    /\ short = FALSE

(* What a send of n units may take: at least one, if there is one.           *)
Taken(n) == {k \in 0..n : k > 0 \/ n = 0}

(* Units from..to of buffer b.                                               *)
Units(b, from, to) == [i \in 1..(to + 1 - from) |-> <<b, from + i - 1>>]

-----------------------------------------------------------------------------
SendDirectAlways(n) ==
    /\ \E k \in Taken(n) :
        /\ wire' = wire \o Units(Len(sizes) + 1, 1, k)
        /\ short' = (short \/ k < n)
    /\ UNCHANGED <<pending, written, op>>

(* The list of pending writes is empty and the socket takes k of n units.    *)
(* pj_ioqueue_send then returns success, whatever k is.                      *)
SendNow(n) ==
    /\ pending = 0
    /\ \E k \in Taken(n) :
        /\ wire' = wire \o Units(Len(sizes) + 1, 1, k)
        /\ short' = (short \/ k < n)
    /\ UNCHANGED <<pending, written, op>>

(* ... or the send fails: the status is logged by checkpj.                   *)
SendFails ==
    /\ pending = 0
    /\ short' = TRUE
    /\ UNCHANGED <<pending, written, op, wire>>

SendQueuedOver ==
    /\ pending' = Len(sizes) + 1
    /\ written' = 0
    /\ op' = TRUE
    /\ UNCHANGED <<wire, short>>

(* A write is pending or the socket would block: write_op takes the buffer,  *)
(* if it is idle.                                                            *)
SendQueued ==
    /\ ~op
    /\ pending' = Len(sizes) + 1
    /\ written' = 0
    /\ op' = TRUE
    /\ UNCHANGED <<wire, short>>

(* ... if it is not: PJ_EBUSY, logged by checkpj.                            *)
SendBusy ==
    /\ op
    /\ short' = TRUE
    /\ UNCHANGED <<pending, written, op, wire>>

SendDataPopsOnError(n) ==
    /\ \/ (SendNow(n) \/ SendQueued) /\ UNCHANGED popped
       \/ (SendFails \/ SendBusy) /\ popped' = popped + 1
    /\ sizes' = Append(sizes, n)

(* PjTcp::sendData of n units: push_back, then pj_ioqueue_send.              *)
SendData(n) ==
    /\ SendNow(n) \/ SendFails \/ SendQueued \/ SendBusy
    /\ sizes' = Append(sizes, n)
    /\ UNCHANGED popped

(* ClientTcp::sendMsg: the header, then the body, in one call; only the      *)
(* polling thread calls it, so nothing happens in between.                   *)
SendHeader ==
    /\ ~half
    /\ Len(sizes) < 2 * MaxMsgs
    /\ SendData(HeaderSize)
    /\ half' = TRUE

SendBody ==
    /\ half
    /\ \E n \in BodySizes : SendData(n)
    /\ half' = FALSE

-----------------------------------------------------------------------------
(* PjTcp::on_ioqueue_write: compares the count with the front of write_bufs  *)
(* (and only logs a difference), then pops it, whichever buffer it is.       *)
OnWritten == popped' = popped + 1

(* ioqueue_dispatch_write_event with a write pending: the socket takes some  *)
(* of what is left; when all is written write_op is idle again and           *)
(* on_ioqueue_write is called.                                               *)
DispatchWrite ==
    /\ ~half
    /\ pending # 0
    /\ \E k \in Taken(sizes[pending] - written) :
        /\ wire' = wire \o Units(pending, written + 1, written + k)
        /\ \/ /\ written + k < sizes[pending]
              /\ written' = written + k
              /\ UNCHANGED <<pending, op, popped>>
           \/ /\ written + k = sizes[pending]
              /\ written' = 0
              /\ pending' = 0
              /\ op' = FALSE
              /\ OnWritten
    /\ UNCHANGED <<sizes, half, short>>

FailedWriteStays ==
    /\ ~half
    /\ pending # 0
    /\ OnWritten
    /\ short' = TRUE
    /\ UNCHANGED <<sizes, half, wire, written, pending, op>>

(* The same, and the send fails: the callback gets the negated error code,   *)
(* which it logs like a wrong count.                                         *)
DispatchWriteFails ==
    /\ ~half
    /\ pending # 0
    /\ written' = 0
    /\ pending' = 0
    /\ op' = FALSE
    /\ OnWritten
    /\ short' = TRUE
    /\ UNCHANGED <<sizes, half, wire>>

Next == SendHeader \/ SendBody \/ DispatchWrite \/ DispatchWriteFails

Spec == Init /\ [][Next]_vars

-----------------------------------------------------------------------------
(* Types; no more buffers are popped than were pushed, so front() is never   *)
(* called on an empty write_bufs.                                            *)
TypeOK ==
    /\ sizes \in Seq(Nat)
    /\ popped \in 0..Len(sizes)
    /\ pending \in 0..Len(sizes)
    /\ written \in Nat
    /\ op \in BOOLEAN
    /\ half \in BOOLEAN
    /\ wire \in Seq(Nat \X Nat)
    /\ short \in BOOLEAN

(* The buffer a pending write points into is still in write_bufs: although   *)
(* completions pop the OLDEST buffer, which is seldom the one completed, the *)
(* memory write_op->buf refers to is never freed under it.                   *)
PendingBufferLive == pending # 0 => popped < pending

(* The socket gets the data in order: a pending write is never overtaken, no *)
(* unit is sent twice, and a buffer's units are consecutive from its first.  *)
WireInOrder ==
    \A i \in 1..Len(wire) :
        LET before == IF i = 1 THEN <<0, 0>> ELSE wire[i - 1]
        IN  \/ wire[i][1] = before[1] /\ wire[i][2] = before[2] + 1
            \/ wire[i][1] > before[1] /\ wire[i][2] = 1

(* The data after unit x has been sent up to buffer b: x is the last unit of *)
(* its buffer and the buffers in between are empty.                          *)
SentUpTo(x, b) ==
    /\ x[1] # 0 => x[2] = sizes[x[1]]
    /\ \A c \in (x[1] + 1)..(b - 1) : sizes[c] = 0

(* The framing the receiver relies on: every buffer follows the whole of the *)
(* one before, as long as no send took less than it was given (and sendData, *)
(* which neither repeats nor reports that, gets away with it).               *)
FramesWhole ==
    ~short => \A i \in 1..Len(wire) :
        LET before == IF i = 1 THEN <<0, 0>> ELSE wire[i - 1]
        IN  wire[i][1] # before[1] => SentUpTo(before, wire[i][1])
=============================================================================
