----------------------------- MODULE MsgStream ------------------------------
(* The receiving side of a connection: ClientTcp::onDataRead reassembles     *)
(* messages from whatever pieces the reads bring, checks the header, decodes *)
(* and hands each message to the callbacks registered for its type.          *)
(* The data is abstract: unit i of message m is the pair <<m, i>>; the first *)
(* HeaderSize units of a message are its header, which is where its type and *)
(* length can be read.                                                       *)
EXTENDS Integers, Sequences

CONSTANTS
    HeaderSize,        \* sizeof(ClientMsg), in units
    MaxLen,            \* the largest length accepted (16 MB in the code)
    Lengths,           \* values of the length field the server sends
    MsgTypes,          \* values 0..255 of the type byte the server sends
    Registered,        \* the types given to addMsgCallback
    ReadSize,          \* size of read_buf
    MaxMsgs            \* bound: messages sent by the server

ASSUME StreamAssumption ==
    /\ HeaderSize \in Nat \ {0}
    /\ MaxLen \in Nat
    /\ Lengths \subseteq Int
    /\ MsgTypes \subseteq 0..255
    /\ Registered \subseteq Int
    /\ ReadSize \in Nat \ {0}
    /\ MaxMsgs \in Nat

VARIABLES
    sent,              \* sent[m]: type and length field of the m-th message
    wire,              \* units sent by the server and not read yet
    recved,            \* ClientTcp::recved
    pc,                \* "reading", "loop" (inside onDataRead) or "closed"
    processed,         \* history: the messages handed to processMsg
    called             \* history: messages some callback was called for

vars == <<sent, wire, recved, pc, processed, called>>

Init ==
    /\ sent = <<>>
    /\ wire = <<>>
    /\ recved = <<>>
    /\ pc = "reading"
    /\ processed = <<>>
    /\ called = {}

-----------------------------------------------------------------------------
(* The body length a server puts behind a header: nothing sensible follows a *)
(* header whose length field is out of range.                                *)
BodySize(len) == IF len \in 0..MaxLen THEN len ELSE 0

(* The server sends a message.                                               *)
ServerSend(mt, len) ==
    /\ Len(sent) < MaxMsgs
    /\ sent' = Append(sent, [mt |-> mt, len |-> len])
    /\ wire' = wire \o [i \in 1..(HeaderSize + BodySize(len)) |-> <<Len(sent) + 1, i>>]
    /\ UNCHANGED <<recved, pc, processed, called>>

(* on_ioqueue_read: a read brings 1 to ReadSize units of what has arrived,   *)
(* which onDataRead appends.                                                 *)
Read(n) ==
    /\ pc = "reading"
    /\ n <= Len(wire)
    /\ recved' = recved \o SubSeq(wire, 1, n)
    /\ wire' = SubSeq(wire, n + 1, Len(wire))
    /\ pc' = "loop"
    /\ UNCHANGED <<sent, processed, called>>

(* ... or finds the end of the stream, which closes.                         *)
ReadEof ==
    /\ pc = "reading"
    /\ wire = <<>>
    /\ pc' = "closed"
    /\ UNCHANGED <<sent, wire, recved, processed, called>>

(* The header at the front of recved, which is decrypted in a copy.          *)
Header == sent[recved[1][1]]

HasHeader == Len(recved) >= HeaderSize

BadLength == Header.len < 0 \/ Header.len > MaxLen

CompleteWithBody == Len(recved) > HeaderSize + Header.len

Complete == Len(recved) >= HeaderSize + Header.len

(* A loop pass that finds too little for a header or for the message: the    *)
(* loop ends and the next read is started.                                   *)
NeedMore ==
    /\ pc = "loop"
    /\ ~HasHeader \/ (HasHeader /\ ~BadLength /\ ~Complete)
    /\ pc' = "reading"
    /\ UNCHANGED <<sent, wire, recved, processed, called>>

(* A length out of range closes the connection.                              *)
BadMsg ==
    /\ pc = "loop"
    /\ HasHeader
    /\ BadLength
    /\ pc' = "closed"
    /\ UNCHANGED <<sent, wire, recved, processed, called>>

(* The type byte is a plain char: on the platforms with a signed char it is  *)
(* negative from 128 on when processMsg takes it as an int.                  *)
SignedChar(mt) == IF mt >= 128 THEN mt - 256 ELSE mt

(* BlmClient::processMsg, after which onDataRead goes on at `next'.  Without *)
(* a callback for the type the message is logged; a callback that returns an *)
(* error closes the connection.                                              *)
ProcessMsg(m, next) ==
    \/ /\ SignedChar(sent[m].mt) \in Registered
       /\ called' = called \cup {m}
       /\ pc' \in {next, "closed"}
    \/ /\ SignedChar(sent[m].mt) \notin Registered
       /\ pc' = next
       /\ UNCHANGED called

DecodeKeepsBody ==
    /\ pc = "loop"
    /\ HasHeader /\ ~BadLength /\ Complete
    /\ recved' = SubSeq(recved, HeaderSize + 1, Len(recved))
    /\ processed' = Append(processed, Header)
    /\ ProcessMsg(recved[1][1], "loop")
    /\ UNCHANGED <<sent, wire>>

(* A complete message: decodeMsg, cut it off recved, processMsg.             *)
Decode ==
    /\ pc = "loop"
    /\ HasHeader /\ ~BadLength /\ Complete
    /\ recved' = SubSeq(recved, HeaderSize + Header.len + 1, Len(recved))
    /\ processed' = Append(processed, Header)
    /\ ProcessMsg(recved[1][1], "loop")
    /\ UNCHANGED <<sent, wire>>

Next ==
    \/ \E mt \in MsgTypes, len \in Lengths : ServerSend(mt, len)
    \/ \E n \in 1..ReadSize : Read(n)
    \/ ReadEof \/ NeedMore \/ BadMsg \/ Decode

Spec == Init /\ [][Next]_vars

(* Data that has arrived is read, and onDataRead runs to its end.            *)
FairSpec ==
    /\ Spec
    /\ WF_vars(\E n \in 1..ReadSize : Read(n))
    /\ WF_vars(NeedMore \/ BadMsg \/ Decode)

-----------------------------------------------------------------------------
(* Types; callbacks are called only for messages that were processed.        *)
TypeOK ==
    /\ sent \in Seq([mt : MsgTypes, len : Lengths])
    /\ wire \in Seq(Nat \X Nat)
    /\ recved \in Seq(Nat \X Nat)
    /\ pc \in {"reading", "loop", "closed"}
    /\ processed \in Seq([mt : MsgTypes, len : Lengths])
    /\ called \subseteq 1..Len(processed)

(* However the reads cut the stream, recved starts at the header of the next *)
(* message to handle and goes on into the unread rest of the stream without  *)
(* a gap: a header is never looked for in the middle of a message.           *)
InStep ==
    LET rest == recved \o wire
    IN  rest # <<>> => rest[1] = <<Len(processed) + 1, 1>>

(* While it waits for data the client holds no message it could handle.      *)
NothingHeldBack == pc = "reading" /\ HasHeader => ~BadLength /\ ~Complete

(* The stream is a message channel: in order, nothing skipped or repeated,   *)
(* nothing after the close.                                                  *)
Channel == INSTANCE MsgChannel WITH
               Messages <- [mt : MsgTypes, len : Lengths],
               sentMsgs <- sent, handledMsgs <- processed, open <- (pc # "closed")
ChannelSpec == Channel!ChannelSpec

(* Every message sent is handled, or the connection is closed.               *)
EveryMessageHandled ==
    \A m \in 1..MaxMsgs : Len(sent) >= m ~> (Len(processed) >= m \/ pc = "closed")

(* A message of a type given to addMsgCallback is passed to its callback, if *)
(* the type is at most 127: processMsg sees larger ones as negative numbers  *)
(* and finds no callback, unless that negative number was registered too.    *)
RegisteredTypesCalled ==
    \A m \in 1..Len(processed) :
        sent[m].mt \in Registered /\ sent[m].mt - 256 \notin Registered
            => (m \in called <=> sent[m].mt <= 127)

(* The receiver at every point of the stream: in step with it, holding back  *)
(* nothing it could handle, having called what it had to.                    *)
StreamExact == TypeOK /\ InStep /\ NothingHeldBack /\ RegisteredTypesCalled
=============================================================================
