---------------------------- MODULE MCVenueRuns ----------------------------
(* VenueRuns on a small instance, for TLC. *)
EXTENDS VenueRuns

\* All the legs, the one with the mixed hub, and one that is not in the leg directories.
const_Asks == {{}, {3}, {9}}

\* Two drives, the first with a leg about one of its two cases.
const_Rail ==
    [policy |-> [full |-> [titles |-> {"a", "b"}, minPassed |-> 2],
                 at1 |-> [titles |-> {"a"}, minPassed |-> 1]],
     token |-> [full |-> [titles |-> {"c"}, minPassed |-> 1]]]

\* The validators of the drill: one fault of four, the least there can be.
const_Nodes == <<"v1", "v2", "v3", "v4">>

const_SweepDrives == <<"policy", "token">>
=============================================================================
