---------------------------- MODULE MCMsgStream -----------------------------
(* MsgStream for TLC: length fields inside the accepted range, at its ends   *)
(* and on either side of it.                                                 *)
EXTENDS MsgStream

BoundaryLengths == {-1, 0, 1, MaxLen, MaxLen + 1}
=============================================================================
