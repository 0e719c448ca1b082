--------------------------- MODULE MCCommandPool ---------------------------
(* Four targets, pools of one (inline) to three slots, up to two dead threads. *)
EXTENDS CommandPool
=============================================================================
