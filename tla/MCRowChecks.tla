---------------------------- MODULE MCRowChecks ----------------------------
(* The callers of the check methods: which values they give, by kind of    *)
(* parameter.  '' is given as a memo and where it means "not given"; 0 only *)
(* where a method has a number test; other spellings where it normalises.  *)
EXTENDS RowChecks, TLC

GivenByCallers ==
    As({"A", "B"}, {"exact", "ignored", "items"}) @@
    [memo |-> {"A", "B", "empty"}, truthy |-> {"A", "B", "empty"}, own |-> {"A", "B", "empty"},
     hex |-> {"A", "B", "respeltA"}, amount |-> {"A", "B", "respeltA"},
     number |-> {"A", "B", "zero"}, flag |-> {"A", "zero"}]

\* signingPubkey and requestId are written in lower case, amounts normalised.
StoredRows == As({"null", "A", "B"}, Kinds \ {"number"}) @@ As({"null", "A", "B", "zero"}, {"number"})

AllMethods == DOMAIN Check
=============================================================================
