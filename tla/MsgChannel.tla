----------------------------- MODULE MsgChannel -----------------------------
(* What the receiving side of a connection promises: the messages of the     *)
(* server are handled one by one, in the order sent, none skipped and none   *)
(* repeated, until the channel is closed; nothing is handled after that.     *)
EXTENDS Naturals, Sequences

CONSTANT Messages

VARIABLES
    sentMsgs,          \* the messages sent by the server
    handledMsgs,       \* the messages handled
    open

channelVars == <<sentMsgs, handledMsgs, open>>

ChannelInit == sentMsgs = <<>> /\ handledMsgs = <<>> /\ open = TRUE

ServerSends ==
    /\ \E m \in Messages : sentMsgs' = Append(sentMsgs, m)
    /\ UNCHANGED <<handledMsgs, open>>

HandleNext ==
    /\ open
    /\ Len(handledMsgs) < Len(sentMsgs)
    /\ handledMsgs' = Append(handledMsgs, sentMsgs[Len(handledMsgs) + 1])
    /\ open' \in BOOLEAN        \* a callback may ask for the connection to be closed
    /\ UNCHANGED sentMsgs

CloseChannel == open /\ open' = FALSE /\ UNCHANGED <<sentMsgs, handledMsgs>>

ChannelNext == ServerSends \/ HandleNext \/ CloseChannel

ChannelSpec == ChannelInit /\ [][ChannelNext]_channelVars
=============================================================================
