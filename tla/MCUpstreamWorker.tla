-------------------------- MODULE MCUpstreamWorker --------------------------
(* Small instances of the relay thread and its capture worker for TLC. *)
EXTENDS UpstreamWorker

CONSTANTS asm, ssm      \* subscriptions
=============================================================================
