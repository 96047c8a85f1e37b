---------------------------- MODULE MCTxPipeline ----------------------------
(* Small instances of TxPipeline for TLC. *)
EXTENDS TxPipeline

CONSTANTS a, b

TwoAddresses == {a, b}
\* the last call is made from another address
TwoSenders == [c \in Calls |-> IF c = NCalls THEN b ELSE a]
SecondPays == {2}
FirstOnly  == {1}
=============================================================================
