---------------------------- MODULE MCSignature ----------------------------
(* Small instances of Signature for TLC. *)
EXTENDS Signature

============================================================================
