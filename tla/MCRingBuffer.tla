----------------------------- MODULE MCRingBuffer -----------------------------
(* Three usable cells, so that every offset of head and tail wraps.        *)
EXTENDS RingBufferUse

MCByte == {0, 1}
===============================================================================
