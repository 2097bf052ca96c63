----------------------------- MODULE FifoBuffer -----------------------------
(* What a producer/consumer buffer promises to the threads that share it:   *)
(* every product comes out exactly once, in the order in which products     *)
(* were put in, and nothing is taken from an empty buffer.                   *)
EXTENDS Naturals, Sequences

CONSTANT Values        \* the products

VARIABLES
    queue,             \* products put in and not taken yet, oldest first
    out                \* every product taken so far, in the order taken

fifoVars == <<queue, out>>

FifoInit == queue = <<>> /\ out = <<>>

(* A producer puts a batch of products (one of them, for a single add)       *)
(* behind everything that is already there.                                  *)
Put ==
    /\ queue' \in Seq(Values)
    /\ Len(queue) <= Len(queue')
    /\ \A i \in 1..Len(queue) : queue'[i] = queue[i]
    /\ UNCHANGED out

(* A consumer takes the oldest product.                                      *)
TakeOne ==
    /\ queue # <<>>
    /\ queue' = Tail(queue)
    /\ out' = Append(out, Head(queue))

(* A consumer takes the whole buffer.                                        *)
TakeEverything ==
    /\ queue # <<>>
    /\ queue' = <<>>
    /\ out' = out \o queue

FifoNext == Put \/ TakeOne \/ TakeEverything

FifoSpec == FifoInit /\ [][FifoNext]_fifoVars
=============================================================================
