------------------------- MODULE MC_ForegroundPipe -------------------------
(* Four chunks through a pipe for two, a timeout of two ticks. *)
EXTENDS ForegroundPipe
=============================================================================
