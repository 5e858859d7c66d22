-------------------------- MODULE MCSPSCRingBuffer --------------------------
(* A ring of three usable elements (four cells) with batches of up to three, *)
(* so that transfers wrap and a call can find less room than it asked for.   *)
EXTENDS SPSCRingBuffer
=============================================================================
