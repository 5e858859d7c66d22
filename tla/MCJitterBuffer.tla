--------------------------- MODULE MCJitterBuffer ---------------------------
(* Two slots, four sequence numbers: every slot is shared by two numbers.    *)
EXTENDS LockFreeCircularJitterBuffer
=============================================================================
