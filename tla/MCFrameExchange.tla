-------------------------- MODULE MCFrameExchange ---------------------------
(* Instances of FrameExchange for TLC: Retries is given in the configuration. *)
EXTENDS FrameExchange
=============================================================================
