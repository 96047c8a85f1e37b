------------------------------ MODULE MCDbWait ------------------------------
(* Small instances of DbWait: the fault sets of its configurations.        *)
EXTENDS DbWait

NoFaults   == {}
VenueDown  == {"down", "refused", "sql"}
AllFaults  == VenueDown \cup {"probe"}
=============================================================================
