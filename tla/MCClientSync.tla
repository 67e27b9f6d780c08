---------------------------- MODULE MCClientSync ----------------------------
(* Small instances of ClientSync for TLC. *)
EXTENDS ClientSync
=============================================================================
