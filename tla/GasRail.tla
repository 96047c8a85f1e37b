------------------------------- MODULE GasRail -------------------------------
(***************************************************************************)
(* Gas for a test's address: ensureGasBalance and the per-chain reservoir  *)
(* it pays from, refilled over the bridge (test/helpers/gasHelper.js), and *)
(* what that leans on: the process-wide chain globals withRail swaps       *)
(* (test/helpers/chainRail.js) and the miners' idle heartbeat.             *)
(*                                                                         *)
(* A call runs on its chain, inside a rail of its own when that is not the *)
(* suite's.  The calls come one after another, but one that its funding    *)
(* budget gave up on goes on beside its successors.  A reservoir is named  *)
(* by the call that funded it.  The bridge and the ledgers are external.   *)
(***************************************************************************)
EXTENDS Integers, FiniteSets

CONSTANTS
    Chains, BTC, Home,   \* the rails; the one with the faucet; the suite's
    NCalls,              \* calls of the run, in order
    Chain,               \* the chain of each call
    Amount,              \* what a call asks for
    Headroom,            \* RESERVOIR_FEE_HEADROOM
    BridgeAmount,        \* RESERVOIR_BRIDGE_AMOUNT
    Abandonable          \* the calls a funding budget may give up on

Calls == 1 .. NCalls
Cost  == Amount + Headroom

ASSUME GasRailAssumption ==
    /\ NCalls \in Nat /\ BTC \in Chains /\ Home \in Chains
    /\ Chain \in [Calls -> Chains] /\ Abandonable \subseteq Calls
    /\ Amount \in Nat \ {0} /\ Headroom \in Nat /\ BridgeAmount \in Nat \ {0}

VARIABLES
    pc,          \* what each call awaits
    abandoned,
    rail,        \* the chain the globals point at
    local,       \* the locals of each call
    heartbeat,   \* the miners mining empty blocks
    reservoir,   \* the reservoir of each chain, in a set
    remaining,   \* what the accounting believes each reservoir holds
    \* the ledgers
    lives,       \* the chain of each reservoir's address, in a set
    balance,     \* what it holds
    locks,       \* bridged to it and not yet credited, by call
    credits      \* amounts it was ever credited

ledger == <<lives, balance, locks, credits>>
vars   == <<pc, abandoned, rail, local, heartbeat, reservoir, remaining, ledger>>

Ended  == {"returned", "threw"}
Labels == {"idle", "mint", "found", "rail", "heatBTC", "heatDest", "lock", "credit",
           "coolBTC", "coolDest", "send", "sent"} \cup Ended

\* The chain the call came for, the rails its own rail and its bridge's put back, the
\* bridge's destination, amount and standing miner there, the reservoir it fills or
\* spends, in a set, and whether the bridge or switching a heartbeat off has failed.
Locals == [key : Chains, outer : Chains, inner : Chains, dest : Chains, asked : Nat,
           miner : Chains, using : SUBSET Calls, failed : BOOLEAN, restoreErr : BOOLEAN]
NoLocals == [key |-> Home, outer |-> Home, inner |-> Home, dest |-> Home, asked |-> 0,
             miner |-> Home, using |-> {}, failed |-> FALSE, restoreErr |-> FALSE]

TypeOK ==
    /\ pc \in [Calls -> Labels] /\ abandoned \subseteq Calls /\ rail \in Chains
    /\ local \in [Calls -> Locals] /\ \A c \in Calls : Cardinality(local[c].using) <= 1
    /\ heartbeat \subseteq Chains
    /\ reservoir \in [Chains -> SUBSET Calls] /\ \A k \in Chains : Cardinality(reservoir[k]) <= 1
    /\ remaining \in [Calls -> Int] /\ balance \in [Calls -> Nat]
    /\ lives \in [Calls -> SUBSET Chains]
    /\ locks \in [Calls -> [Calls -> Nat]] /\ credits \in [Calls -> SUBSET Nat]

Init ==
    /\ pc = [c \in Calls |-> "idle"] /\ abandoned = {}
    /\ rail = Home /\ local = [c \in Calls |-> NoLocals] /\ heartbeat = {}
    /\ reservoir = [k \in Chains |-> {}] /\ remaining = [c \in Calls |-> 0]
    /\ lives = [c \in Calls |-> {}] /\ balance = [c \in Calls |-> 0]
    /\ locks = [c \in Calls |-> [d \in Calls |-> 0]] /\ credits = [c \in Calls |-> {}]

Goto(c, l) == pc' = [pc EXCEPT ![c] = l]

\* Adding n to what each reservoir of ids holds, in f.
Plus(f, ids, n) == [id \in Calls |-> IF id \in ids THEN f[id] + n ELSE f[id]]

-----------------------------------------------------------------------------
(* Entering and leaving, with no await in between.                          *)

\* Mutant: one reservoir serves whatever chain.
AnyHeld(k) == UNION {reservoir[j] : j \in Chains}

\* The reservoir entered for chain k.
Held(k) == reservoir[k]

\* ensureGasBalance on chain k up to its first await: mint where there is a faucet,
\* else send from a reservoir that can pay, else fill one.
FirstAwait(k) ==
    IF k = BTC THEN "mint"
    ELSE IF Held(k) = {} THEN "found"
    ELSE IF \E id \in Held(k) : remaining[id] >= Cost THEN "send" ELSE "rail"

\* What a refill bridges: the default, or the shortfall when that is more.
Refill(left) == IF Cost - left > BridgeAmount THEN Cost - left ELSE BridgeAmount

\* The globals of the call's chain are in force from here on (enterRail).
Start(c) ==
    /\ pc[c] = "idle" /\ \A d \in Calls : d < c => pc[d] \in Ended \/ d \in abandoned
    /\ LET k == IF Chain[c] = Home THEN rail ELSE Chain[c] IN
          /\ rail' = k /\ Goto(c, FirstAwait(k))
          /\ \E left \in IF Held(k) = {} THEN {0} ELSE {remaining[id] : id \in Held(k)} :
                local' = [local EXCEPT ![c].outer = rail, ![c].key = k, ![c].dest = k,
                                       ![c].using = Held(k), ![c].asked = Refill(left)]
    /\ UNCHANGED <<abandoned, heartbeat, reservoir, remaining, ledger>>

\* Mutant: a call that throws leaves its rail in force.
LeaveOnReturn(c, how) ==
    /\ Goto(c, how) /\ local' = [local EXCEPT ![c] = NoLocals]
    /\ rail' = IF Chain[c] = Home \/ how = "threw" THEN rail ELSE local[c].outer

\* withRail puts back what it found, also when its function threw.
Leave(c, how) ==
    /\ Goto(c, how) /\ local' = [local EXCEPT ![c] = NoLocals]
    /\ rail' = IF Chain[c] = Home THEN rail ELSE local[c].outer

\* The budget around the funding call runs out; the call itself goes on.
Abandon(c) ==
    /\ c \in Abandonable \ abandoned /\ pc[c] \notin {"idle"} \cup Ended
    /\ abandoned' = abandoned \cup {c}
    /\ UNCHANGED <<pc, rail, local, heartbeat, reservoir, remaining, ledger>>

\* The faucet of BTC: a MINT on the chain in force, awaited to its row.
Mint(c) ==
    /\ pc[c] = "mint"
    /\ (rail = BTC /\ Leave(c, "returned")) \/ Leave(c, "threw")
    /\ UNCHANGED <<abandoned, heartbeat, reservoir, remaining, ledger>>

-----------------------------------------------------------------------------
(* fillGasReservoir.                                                        *)

\* The reservoir's address is funded on the chain in force, and entered under the
\* chain the call came for.
FundReservoir(c) ==
    /\ pc[c] = "found"
    /\ \/ /\ Goto(c, "rail") /\ UNCHANGED rail
          /\ lives' = [lives EXCEPT ![c] = {rail}]
          /\ reservoir' = [reservoir EXCEPT ![local[c].key] = {c}]
          /\ local' = [local EXCEPT ![c].using = {c}, ![c].dest = rail]
       \/ Leave(c, "threw") /\ UNCHANGED <<lives, reservoir>>
    /\ UNCHANGED <<abandoned, heartbeat, remaining, balance, locks, credits>>

\* A reservoir whose accounting cannot be trusted is forgotten.
Forget(k) == reservoir' = [reservoir EXCEPT ![k] = {}]

\* A refill that failed leaves the balance unknown.
FillFails(c) == Forget(local[c].key) /\ Leave(c, "threw")

\* createRail, for the BTC leg: the hub is asked for its coordinates.  The standing
\* miner is whichever the globals name once it answers.
CreateRail(c) ==
    /\ pc[c] = "rail"
    /\ \/ /\ Goto(c, "heatBTC") /\ local' = [local EXCEPT ![c].miner = rail]
          /\ UNCHANGED <<rail, reservoir>>
       \/ FillFails(c)
    /\ UNCHANGED <<abandoned, heartbeat, remaining, ledger>>

-----------------------------------------------------------------------------
(* bridgeGasIn under the heartbeat.                                         *)

\* setIdleMineInterval: answered, or not, and then it may have taken effect.
SwitchOn(k, answered)  == IF answered THEN heartbeat' = heartbeat \cup {k}
                                      ELSE heartbeat' \in {heartbeat, heartbeat \cup {k}}
SwitchOff(k, answered) == IF answered THEN heartbeat' = heartbeat \ {k}
                                      ELSE heartbeat' \in {heartbeat, heartbeat \ {k}}

\* On, miner by miner, before there is anything to undo.
HeatBTC(c) ==
    /\ pc[c] = "heatBTC"
    /\ \/ SwitchOn(BTC, TRUE) /\ Goto(c, "heatDest") /\ UNCHANGED <<rail, local, reservoir>>
       \/ SwitchOn(BTC, FALSE) /\ FillFails(c)
    /\ UNCHANGED <<abandoned, remaining, ledger>>

\* With both on, the function starts and enters the BTC rail at once.
HeatDest(c) ==
    /\ pc[c] = "heatDest"
    /\ \/ /\ SwitchOn(local[c].miner, TRUE) /\ Goto(c, "lock")
          /\ local' = [local EXCEPT ![c].inner = rail] /\ rail' = BTC
          /\ UNCHANGED reservoir
       \/ SwitchOn(local[c].miner, FALSE) /\ FillFails(c)
    /\ UNCHANGED <<abandoned, remaining, ledger>>

\* The lock names the destination, where it is of use if the reservoir lives there.
Bridged(c) ==
    [id \in Calls |->
        IF id \in local[c].using /\ local[c].dest \in lives[id]
        THEN [locks[id] EXCEPT ![c] = local[c].asked] ELSE locks[id]]

\* Mint and lock on BTC, and leave its rail.  A lock may land and its debit not be seen.
Lock(c) ==
    /\ pc[c] = "lock"
    /\ \/ /\ rail = BTC /\ locks' = Bridged(c)
          /\ Goto(c, "credit") /\ UNCHANGED local
       \/ /\ locks' \in {locks, IF rail = BTC THEN Bridged(c) ELSE locks}
          /\ Goto(c, "coolBTC") /\ local' = [local EXCEPT ![c].failed = TRUE]
    /\ rail' = local[c].inner
    /\ UNCHANGED <<abandoned, heartbeat, reservoir, remaining, lives, balance, credits>>

\* The federation credits a lock.
CreditLands(c, id) ==
    /\ locks[id][c] > 0 /\ locks' = [locks EXCEPT ![id][c] = 0]
    /\ balance' = [balance EXCEPT ![id] = @ + locks[id][c]]
    /\ credits' = [credits EXCEPT ![id] = @ \cup {locks[id][c]}]
    /\ UNCHANGED <<pc, abandoned, rail, local, heartbeat, reservoir, remaining, lives>>

\* Mutant: the wait for the credit has no end.
CreditAwaited(c) ==
    /\ pc[c] = "credit" /\ Goto(c, "coolBTC")
    /\ \E id \in local[c].using : rail \in lives[id] /\ local[c].asked \in credits[id]
    /\ UNCHANGED <<abandoned, rail, local, heartbeat, reservoir, remaining, ledger>>

\* Any credit of that amount to the reservoir's address will do; none is to be seen in
\* another chain's database.
Credit(c) ==
    /\ pc[c] = "credit" /\ Goto(c, "coolBTC")
    /\ \/ /\ \E id \in local[c].using : rail \in lives[id] /\ local[c].asked \in credits[id]
          /\ UNCHANGED local
       \/ local' = [local EXCEPT ![c].failed = TRUE]
    /\ UNCHANGED <<abandoned, rail, heartbeat, reservoir, remaining, ledger>>

\* Off again, each miner whatever became of the one before.
CoolBTC(c) ==
    /\ pc[c] = "coolBTC" /\ Goto(c, "coolDest")
    /\ \E off \in BOOLEAN :
          /\ SwitchOff(BTC, off) /\ local' = [local EXCEPT ![c].restoreErr = ~off]
    /\ UNCHANGED <<abandoned, rail, reservoir, remaining, ledger>>

\* Mutant: only the function's own error is thrown.
FailedItself(c, off) == local[c].failed

\* A heartbeat that could not be switched off fails what had succeeded.
Failed(c, off) == local[c].failed \/ local[c].restoreErr \/ ~off

CoolDest(c) ==
    /\ pc[c] = "coolDest"
    /\ \E off \in BOOLEAN :
          /\ SwitchOff(local[c].miner, off)
          /\ \/ Failed(c, off) /\ FillFails(c) /\ UNCHANGED remaining
             \/ /\ ~Failed(c, off) /\ Goto(c, "send")
                /\ remaining' = Plus(remaining, local[c].using, local[c].asked)
                /\ UNCHANGED <<rail, local, reservoir>>
    /\ UNCHANGED <<abandoned, ledger>>

-----------------------------------------------------------------------------
(* sendFromGasReservoir.                                                    *)

\* A SEND that is not known to be valid: the accounting is off, forget the reservoir of
\* the chain in force.
SendFails(c) == Forget(rail) /\ Leave(c, "threw")

\* The SEND reaches the ledger if the globals are of the reservoir's chain and it can
\* pay the amount and whatever fee there is.
Send(c) ==
    /\ pc[c] = "send"
    /\ \/ /\ \E id \in local[c].using, fee \in 0 .. Headroom :
                /\ rail \in lives[id] /\ balance[id] >= Amount + fee
                /\ balance' = [balance EXCEPT ![id] = @ - (Amount + fee)]
          /\ Goto(c, "sent") /\ UNCHANGED <<rail, local, reservoir>>
       \/ SendFails(c) /\ UNCHANGED balance
    /\ UNCHANGED <<abandoned, heartbeat, remaining, lives, locks, credits>>

\* Mutant: the headroom is not charged.
ChargeAmount(c) == remaining' = Plus(remaining, local[c].using, -Amount)

Charge(c) == remaining' = Plus(remaining, local[c].using, -Cost)

\* Its rows are seen and the cost is charged, or the waits give up.
Sent(c) ==
    /\ pc[c] = "sent"
    /\ \/ Charge(c) /\ Leave(c, "returned") /\ UNCHANGED reservoir
       \/ SendFails(c) /\ UNCHANGED remaining
    /\ UNCHANGED <<abandoned, heartbeat, ledger>>

-----------------------------------------------------------------------------
Step(c) ==
    \/ Start(c) \/ Mint(c) \/ FundReservoir(c) \/ CreateRail(c)
    \/ HeatBTC(c) \/ HeatDest(c) \/ Lock(c) \/ Credit(c) \/ CoolBTC(c) \/ CoolDest(c)
    \/ Send(c) \/ Sent(c)

Finished == (\A c \in Calls : pc[c] \in Ended) /\ UNCHANGED vars

Next == (\E c \in Calls : Step(c) \/ Abandon(c) \/ \E id \in Calls : CreditLands(c, id)) \/ Finished

Spec == Init /\ [][Next]_vars

\* Every await of a call returns or times out.
FairSpec == Spec /\ \A c \in Calls : WF_vars(Step(c))

-----------------------------------------------------------------------------
(* Properties.                                                             *)

Active(c) == pc[c] \notin {"idle"} \cup Ended

(* Unless a call was given up on, every await of a call finds the globals of *)
(* the chain it is meant for, and between calls they are the suite's,      *)
(* whatever threw inside (withRail: "Always restores, including on throw").  *)
RailsNest ==
    abandoned = {} =>
        /\ \A c \in Calls : Active(c) => rail = IF pc[c] = "lock" THEN BTC ELSE Chain[c]
        /\ (\A c \in Calls : ~Active(c)) => rail = Home

(* A reservoir pays only for calls of the chain it lives on, over any number *)
(* of refills, failures and swaps (reservoirs: "a test that swaps rails never *)
(* spends another chain's reservoir").                                     *)
OwnReservoir ==
    abandoned = {} =>
        \A c \in Calls : pc[c] \in {"send", "sent"} => \A id \in local[c].using : lives[id] = {Chain[c]}

\* Bridged to a reservoir and still to be credited; sent from it and still to be charged.
Total(f) == LET upTo[n \in 0 .. NCalls] == IF n = 0 THEN 0 ELSE upTo[n - 1] + f[n] IN upTo[NCalls]
Coming(id) == Total(locks[id])
Leaving(id) == Cost * Cardinality({c \in Calls : pc[c] = "sent" /\ id \in local[c].using})

(* What the accounting believes a reservoir in use holds is on the ledger   *)
(* or on its way there, whatever fees the sends paid and whatever failed:  *)
(* a reservoir it lost track of is forgotten (RESERVOIR_FEE_HEADROOM,      *)
(* sendFromGasReservoir).                                                  *)
BelievedIsCovered ==
    abandoned = {} =>
        \A k \in Chains : \A id \in reservoir[k] : remaining[id] <= balance[id] + Coming(id) + Leaving(id)

(* No fee "can ever drain it below what the accounting believes": a        *)
(* reservoir holds what it is believed to hold whenever no call is at work *)
(* (fillGasReservoir returns once the credit it bridged has landed).       *)
BelievedIsHeld ==
    (\A c \in Calls : ~Active(c)) =>
        \A k \in Chains : \A id \in reservoir[k] : remaining[id] <= balance[id]

(* A heartbeat left on when all is over was made known: some call threw    *)
(* (withIdleMining: "a heartbeat left running is a real failure").         *)
QuietUnlessThrew ==
    ((\A c \in Calls : pc[c] \in Ended) /\ heartbeat # {}) => \E c \in Calls : pc[c] = "threw"

(* Every call returns or throws.                                           *)
CallsEnd == <>(\A c \in Calls : pc[c] \in Ended)
=============================================================================
