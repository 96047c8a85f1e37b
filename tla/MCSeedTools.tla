---------------------------- MODULE MCSeedTools ----------------------------
(* SeedTools on a small instance, for TLC. *)
EXTENDS SeedTools

const_Steps == {"ISSUE", "MINT", "DEPLOY", "fill", "remove", "ORDER"}
=============================================================================
