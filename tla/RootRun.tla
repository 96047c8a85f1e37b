------------------------------ MODULE RootRun -------------------------------
(***************************************************************************)
(* The single thread of a run: the root hooks, the tests between them and  *)
(* the connector calls they await share one program counter, for Mocha     *)
(* runs one hook or test at a time and each awaits what it calls.          *)
(***************************************************************************)

VARIABLE pc    \* where the whole run is

=============================================================================
