----------------------------- MODULE MCRetrans -----------------------------
(* Small instances of Retrans: files shorter than, as long as and longer    *)
(* than the window, and a link that loses one packet.                       *)
EXTENDS Retrans
=============================================================================
