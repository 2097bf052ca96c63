---------------------------- MODULE CallbackList ----------------------------
(* What the template removeAllCallbackFromList leaves of a container, shared *)
(* by the timers of BlmIoqueue and the callback lists of BlmClient: one pass *)
(* moves the elements that stay to the front, in their order, and the rest   *)
(* of the container is erased.                                               *)
EXTENDS Naturals, FiniteSets

(* The position of the k-th element that stays, when `kept' are the          *)
(* positions of those that do: the pass has moved k - 1 elements before it.  *)
NthKept(kept, k) == CHOOSE i \in kept : Cardinality({j \in kept : j <= i}) = k

(* The contents of the places 1..size after the pass over c.                 *)
CloseUp(c, kept) == [k \in 1..Cardinality(kept) |-> c[NthKept(kept, k)]]
=============================================================================
