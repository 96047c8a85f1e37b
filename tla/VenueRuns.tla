------------------------------ MODULE VenueRuns ------------------------------
(***************************************************************************)
(* An operator at the venue's machine runs one of the aggregate runners:   *)
(* the attest-mirror legs again and again, the bridge rail drives by hand  *)
(* and by the sweep, or the physical byzantine drill.                      *)
(***************************************************************************)
EXTENDS MirrorLegs, RailDrives, Drill

VARIABLE job     \* which of the three

venueVars == <<mirrorVars, railVars, drillVars, job>>

Init ==
    /\ MirrorInit /\ RailInit /\ DrillInit
    /\ job \in {"mirror", "rail", "drill"}

Next ==
    \/ job = "mirror" /\ MirrorNext /\ UNCHANGED <<railVars, drillVars, job>>
    \/ job = "rail" /\ RailNext /\ UNCHANGED <<mirrorVars, drillVars, job>>
    \/ job = "drill" /\ DrillNext /\ UNCHANGED <<mirrorVars, railVars, job>>

Spec == Init /\ [][Next]_venueVars

\* The driver's own steps: its timers fire, its awaits end, its code runs on.
DriverGoesOn(d) == job = "rail" /\ DriverStep(d) /\ UNCHANGED <<mirrorVars, drillVars, job>>

FairSpec == Spec /\ \A d \in Drivers : WF_venueVars(DriverGoesOn(d))
=============================================================================
