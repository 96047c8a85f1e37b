------------------------------ MODULE SeedTools ------------------------------
(***************************************************************************)
(* An operator runs one of the two seeding tools again and again against   *)
(* one chain: runs are killed, time out, find nothing indexed yet; what    *)
(* they broadcast confirms late, is refused by the indexer or dropped.     *)
(***************************************************************************)
EXTENDS SeedContract, SeedEscrow

ASSUME SeedToolsAssumption == ContractSteps \cup {"ORDER"} \subseteq Steps

VARIABLE tool     \* which of the two the operator runs

toolVars == <<vars, tool>>

\* A chain with or without the gas token and the gas, and no resume file.
Init ==
    /\ tool \in {"contract", "escrow"}
    /\ \E funded \in {0, 2} :
        /\ funded \in {0} \cup Ids
        /\ fate = [i \in Ids |-> IF i <= funded THEN "valid" ELSE "unused"]
        /\ what = [i \in Ids |->
                     IF i > funded THEN NoTx
                     ELSE [NoTx EXCEPT !.step = IF i = 1 THEN "ISSUE" ELSE "MINT"]]
    /\ pending = [l \in Steps |-> 0]
    /\ saved = NoFile
    /\ opts = NoFlags
    /\ pc = "off" /\ step = "none" /\ cur = 0
    /\ seen = NothingSeen
    /\ runs = 0
    /\ lost = {}

\* The arguments and the resume file are read; a run is one process.  With an
\* empty ledger --clear-pending does nothing.
Start ==
    /\ pc = "off" /\ runs < MaxRuns
    /\ runs' = runs + 1
    /\ \E b, c \in BOOLEAN :
        /\ c => \E l \in Steps : pending[l] # 0
        /\ opts' = [broadcast |-> b, clear |-> c]
    /\ pc' = "settle" /\ step' = "none" /\ cur' = 0
    /\ seen' = NothingSeen
    /\ UNCHANGED <<wire, book, lost>>

Run ==
    \/ Refuses \/ ClearPending \/ SettlePending
    \/ AnswerLost \/ Remember \/ BuildFails \/ Resolved \/ WaitFails \/ TimesOut \/ Recheck
    \/ tool = "contract" /\ ContractRun
    \/ tool = "escrow" /\ EscrowRun

IndexTx(i) ==
    \E v \in {"valid", "invalid"} :
        /\ v = "valid" => CanBeValid(i)
        /\ Settles(i, v)

Chain ==
    \/ \E i \in Ids : IndexTx(i) \/ Evicted(i) \/ Release(i)
    \/ Regenesis

Next == (Start \/ Run \/ Killed \/ TornFile \/ Chain) /\ UNCHANGED tool

Spec == Init /\ [][Next]_toolVars

\* A process keeps running: every await of the code ends by its own timeout.
FairSpec == Spec /\ WF_toolVars(Run /\ UNCHANGED tool)

-----------------------------------------------------------------------------

(* Every variable keeps its type: the resume file and the run name only    *)
(* transactions that exist, and no count goes below zero.                  *)
TypeOK ==
    /\ tool \in {"contract", "escrow"}
    /\ fate \in [Ids -> Fates]
    /\ what \in [Ids -> [step : Steps \cup {"none"}, on : {0} \cup Ids,
                         from : Nat, count : Nat, blind : BOOLEAN]]
    /\ pending \in [Steps -> {0} \cup Ids]
    /\ saved \in [index : {0} \cup Ids, next : Nat, tombstoned : BOOLEAN]
    /\ opts \in [broadcast : BOOLEAN, clear : BOOLEAN]
    /\ pc \in Awaits \cup {"off"}
    /\ step \in Steps \cup {"none"}
    /\ cur \in {0} \cup Ids
    /\ seen \in [token : BOOLEAN, gas : BOOLEAN, index : {0} \cup Ids, live : Nat,
                 start : Nat, rounds : Nat, misread : BOOLEAN]
    /\ runs \in Nat
    /\ lost \subseteq Ids

(* Whatever is on the wire unindexed is on the ledger, or being submitted   *)
(* right now, or its txid was lost or discarded: the two tools plan nothing *)
(* while work of theirs they know of may still land (SettlePending).        *)
WireIsKnown ==
    \A i \in Unsettled :
        \/ i \in lost
        \/ \E l \in Steps : pending[l] = i
        \/ pc = "accepted" /\ cur = i

(* Re-running never broadcasts a twin of work that is still in flight: at   *)
(* most one transaction whose txid the tool had is unindexed at any time.   *)
OneInFlight ==
    \A i, j \in Unsettled \ lost : i = j

(* A chain gets one seed contract however often the tool is killed around   *)
(* its DEPLOY, its resume file is stale or torn, or requests to the         *)
(* explorer fail (findDeployedContract, resolveContractIndex): of two, the  *)
(* later was deployed on a lookup that answered, without the first one.     *)
OneContract ==
    \A i, j \in Valid("DEPLOY") \ lost : i < j => what[j].blind

(* An EXECUTE is never paid for against a contract the chain does not       *)
(* carry, as it was after a re-genesis when the resume file was trusted.    *)
ExecutesHitTheContract ==
    [][\A i \in Ids :
          (fate[i] = "unused" /\ fate'[i] = "sent" /\ what'[i].step \in {"fill", "remove"}) =>
              fate[what'[i].on] = "valid" /\ what[what'[i].on].step = "DEPLOY"]_toolVars

(* A run that reaches its verification leaves a contract that has its keys, *)
(* the tombstoned one aside, whatever earlier runs and failed reads did.    *)
DoneMeansSeeded ==
    (tool = "contract" /\ pc = "verify") =>
        seen.index # 0 /\ Live(seen.index) >= Keys - 1

(* No order takes the open seed orders over the target, whatever is killed, *)
(* times out, fails or is released, orders aside whose txid the tool lost,  *)
(* unless it was posted on a list that answered with fewer than there are   *)
(* (listRows, holdsEscrow).                                                 *)
OrdersWithinTarget ==
    \A j \in holdsEscrow \ lost :
        what[j].blind \/ Cardinality({i \in holdsEscrow \ lost : i <= j}) <= Orders

(* A run ends: the loops that spend have brakes, and no wait repeats        *)
(* itself.                                                                  *)
RunEnds == pc # "off" ~> pc = "off"
=============================================================================
