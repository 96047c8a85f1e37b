--------------------------- MODULE StakeTeardown ---------------------------
(***************************************************************************)
(* The fixture-stake debt of one run: the STAKE and UNSTAKE helpers of     *)
(* test/helpers/stakeHelper.js, the ledger, sweep and report of            *)
(* test/helpers/stakeTeardown.js, and the root afterAll hook of            *)
(* test/initialCheck.test.js that drives them.                             *)
(*                                                                         *)
(* A test broadcasts a transaction and polls the indexer for a valid row;  *)
(* the ledger moves only when that row is SEEN, never when it lands.  The  *)
(* node, its miner and the indexer are external: blocks appear, the        *)
(* indexer applies them late, may park on a stall, and stamps a delay on   *)
(* every membership change.                                                *)
(***************************************************************************)
EXTENDS Naturals, FiniteSets

CONSTANTS
    Pubkeys,       \* signing keys
    Entries,       \* ledger keys: <<"s", pubkey>>, or <<"c", pubkey>> for a contract stake
    Seeded,        \* entries already staked when the run bootstraps
    MaxTestOps,    \* bound: transactions the tests send
    MaxOps,        \* bound: transactions of the tests and of the sweep
    MaxHeight,     \* bound: blocks mined by anyone but the sweep
    Delay,         \* blocks before a membership change shows in a capability read
    SettleBlocks,  \* policy().settleBlocks
    Release,       \* policy().release
    Strict,        \* policy().strict
    MochaTimeouts  \* may a test be timed out while its helper still awaits?

ASSUME StakeTeardownAssumption ==
    /\ Entries \subseteq {"s", "c"} \X Pubkeys /\ Entries # {}
    /\ Seeded \subseteq Entries
    /\ MaxTestOps \in Nat /\ MaxOps \in Nat /\ MaxHeight \in Nat
    /\ Delay \in Nat /\ SettleBlocks \in Nat
    /\ Release \in BOOLEAN /\ Strict \in BOOLEAN /\ MochaTimeouts \in BOOLEAN

VARIABLES
    ledger,    \* the module-level Map: entry -> absent, owed or released
    op,        \* every STAKE / UNSTAKE call: what it sent, how far its wait is, what became of the tx
    nops,      \* calls made so far; op[i] is meaningful for i in 1..nops
    fg,        \* the call the running test awaits, 0 when none
    live,      \* indexer: entry -> the stakes in force (their call, 0 for a seeded one)
    fading,    \* indexer: entry -> swept stakes with their deactivation block
    node,      \* height of the node (and of the decoder)
    idx,       \* height of the indexer
    stall,     \* why the indexer is parked, if it is
    pc,        \* where runTeardown is
    todo,      \* releaseStakes: pending entries not reached yet
    cur,       \* the entry the sweep is working on, in a set; {} when none
    sweepOp,   \* the UNSTAKE call the sweep awaits, 0 when none
    retried,   \* was the current entry's one retry used?
    budget,    \* is there budget left?
    released, failed, skipped,   \* the sweep's result
    added,     \* diffAgainstBaseline(...).added
    verdict,   \* what runTeardown told the root hook
    abandoned  \* has the runner abandoned a test whose helper still awaits? (history)

runVars   == <<ledger, op, nops, fg>>
venueVars == <<live, fading, node, idx, stall>>
sweepVars == <<pc, todo, cur, sweepOp, retried, budget, released, failed, skipped>>
endVars   == <<added, verdict, abandoned>>
vars      == <<runVars, venueVars, sweepVars, endVars>>

OpIds   == 1 .. MaxOps
Sweeping == {"sweep", "unstaking", "probing", "nudging", "retry"}
Phases   == {"tests"} \cup Sweeping \cup {"settle", "read", "done"}
NoEntry  == CHOOSE e \in Entries : TRUE
NoOp     == [act |-> "none", e |-> NoEntry, st |-> "none", tx |-> "none", at |-> 0]
\* "release" is the full UNSTAKE the sweep sends, on the wire the same as "unstake".
Acts     == {"stake", "unstake", "partial", "release"}
OpRecord == [act : Acts \cup {"none"}, e : Entries,
             st  : {"none", "waiting", "booked", "gaveup"},
             tx  : {"none", "pending", "valid", "rejected"}, at : Nat]

RunType ==
    /\ ledger \in [Entries -> {"absent", "owed", "released"}]
    /\ op \in [OpIds -> OpRecord]
    /\ nops \in 0 .. MaxOps
    /\ fg \in 0 .. nops

VenueType ==
    /\ live \in [Entries -> SUBSET (0 .. nops)]
    /\ fading \in [Entries -> SUBSET ((0 .. nops) \X Nat)]
    /\ node \in Nat /\ idx \in 0 .. node
    /\ stall \in {"none", "rollcall", "other"}

SweepType ==
    /\ pc \in Phases
    /\ todo \in SUBSET Entries /\ cur \in SUBSET Entries
    /\ sweepOp \in 0 .. nops
    /\ retried \in BOOLEAN /\ budget \in BOOLEAN
    /\ released \in SUBSET Entries /\ failed \in SUBSET Entries /\ skipped \in SUBSET Entries

EndType ==
    /\ added \in SUBSET Pubkeys
    /\ verdict \in {"none", "declined", "unchecked", "ok", "threw"}
    /\ abandoned \in BOOLEAN

(* Every variable keeps its type: calls, indexer rows and sweep state only  *)
(* ever name calls that were made.                                          *)
TypeOK == RunType /\ VenueType /\ SweepType /\ EndType

Init ==
    /\ ledger = [e \in Entries |-> "absent"]
    /\ op = [i \in OpIds |-> NoOp]
    /\ nops = 0 /\ fg = 0
    /\ live = [e \in Entries |-> IF e \in Seeded THEN {0} ELSE {}]
    /\ fading = [e \in Entries |-> {}]
    \* a seeded stake is past its activation delay before the baseline is read
    /\ node = Delay /\ idx = Delay /\ stall = "none"
    /\ pc = "tests" /\ todo = {} /\ cur = {} /\ sweepOp = 0
    /\ retried = FALSE /\ budget = TRUE
    /\ released = {} /\ failed = {} /\ skipped = {}
    /\ added = {} /\ verdict = "none" /\ abandoned = FALSE

-----------------------------------------------------------------------------
(* The ledger.                                                             *)

\* Broadcast: the next call's transaction enters the mempool.
Broadcast(act, e) ==
    /\ nops < MaxOps
    /\ nops' = nops + 1
    /\ op' = [op EXCEPT ![nops + 1] = [act |-> act, e |-> e, st |-> "waiting",
                                       tx |-> "pending", at |-> node]]

registerStake(e) == ledger' = [ledger EXCEPT ![e] = "owed"]

\* Mutant: a partial UNSTAKE discharges too.
noteAnyUnstake(e, act) ==
    ledger' = IF ledger[e] # "absent" THEN [ledger EXCEPT ![e] = "released"] ELSE ledger

\* Only a full UNSTAKE discharges, and only a debt that is on the ledger.
noteUnstake(e, act) ==
    ledger' = IF act # "partial" /\ ledger[e] # "absent"
              THEN [ledger EXCEPT ![e] = "released"] ELSE ledger

outstanding == {e \in Entries : ledger[e] = "owed"}

-----------------------------------------------------------------------------
(* The tests: one helper call at a time, each awaited.                     *)

\* sendStakeV1/V2/V3 and sendUnstakeV0/V1 up to the wait for the row.
TestSends(act, e) ==
    /\ pc = "tests" /\ fg = 0 /\ nops < MaxTestOps
    /\ Broadcast(act, e)
    /\ fg' = nops + 1
    /\ UNCHANGED <<ledger, venueVars, sweepVars, endVars>>

\* The poll sees the valid row and the synchronous tail of the helper books it.
TestSees(i) ==
    /\ pc # "done" /\ i <= nops /\ i # sweepOp
    /\ op[i].st = "waiting" /\ op[i].tx = "valid"
    /\ op' = [op EXCEPT ![i].st = "booked"]
    /\ IF op[i].act = "stake" THEN registerStake(op[i].e)
                              ELSE noteUnstake(op[i].e, op[i].act)
    /\ fg' = IF i = fg THEN 0 ELSE fg
    /\ UNCHANGED <<nops, venueVars, sweepVars, endVars>>

\* The wait returns null and requireRow throws; the last poll may predate the row.
TestGivesUp(i) ==
    /\ pc # "done" /\ i <= nops /\ i # sweepOp
    /\ op[i].st = "waiting"
    /\ op' = [op EXCEPT ![i].st = "gaveup"]
    /\ fg' = IF i = fg THEN 0 ELSE fg
    /\ UNCHANGED <<ledger, nops, venueVars, sweepVars, endVars>>

\* Mocha abandons the test; the helper's promise keeps running.
MochaTimesOut ==
    /\ MochaTimeouts /\ fg # 0
    /\ fg' = 0
    /\ abandoned' = TRUE
    /\ UNCHANGED <<ledger, op, nops, venueVars, sweepVars, added, verdict>>

-----------------------------------------------------------------------------
(* The venue, external: node, miner and indexer.                           *)

MineBlock ==
    /\ node < MaxHeight
    /\ node' = node + 1
    /\ UNCHANGED <<runVars, live, fading, idx, stall, sweepVars, endVars>>

IndexBlock ==
    /\ stall = "none" /\ idx < node
    /\ idx' = idx + 1
    /\ UNCHANGED <<runVars, live, fading, node, stall, sweepVars, endVars>>

\* The indexer applies a transaction of the block it is at.  An UNSTAKE with
\* nothing to sweep is rejected; a partial one leaves the residual staked.
IndexTx(i) ==
    /\ stall = "none" /\ i <= nops
    /\ op[i].tx = "pending" /\ op[i].at < idx
    /\ LET e == op[i].e
           ok == op[i].act = "stake" \/ live[e] # {}
           sweeps == op[i].act \in {"unstake", "release"} IN
       /\ op' = [op EXCEPT ![i].tx = IF ok THEN "valid" ELSE "rejected", ![i].at = idx]
       /\ live' = [live EXCEPT ![e] = CASE op[i].act = "stake" -> @ \cup {i}
                                        [] sweeps -> {}
                                        [] OTHER -> @]
       /\ fading' = IF sweeps
                    THEN [fading EXCEPT ![e] = @ \cup (live[e] \X {idx + Delay})]
                    ELSE fading
    /\ UNCHANGED <<ledger, nops, fg, node, idx, stall, sweepVars, endVars>>

\* The indexer parks: waiting for a roll-call proof of the other chain, or not.
Stall ==
    /\ stall = "none" /\ pc # "done"
    /\ stall' \in {"rollcall", "other"}
    /\ UNCHANGED <<runVars, live, fading, node, idx, sweepVars, endVars>>

Unstall ==
    /\ stall # "none"
    /\ stall' = "none"
    /\ UNCHANGED <<runVars, live, fading, node, idx, sweepVars, endVars>>

LandedAt(i) == IF i = 0 THEN 0 ELSE op[i].at

\* getstakeweightsbycapability at the indexer's tip.
CapabilitySet ==
    {p \in Pubkeys : \E e \in Entries :
        /\ e = <<"s", p>>
        /\ \/ \E i \in live[e] : LandedAt(i) + Delay <= idx
           \/ \E f \in fading[e] : LandedAt(f[1]) + Delay <= idx /\ idx < f[2]}

Baseline == {p \in Pubkeys : <<"s", p>> \in Seeded}

-----------------------------------------------------------------------------
(* runTeardown: the sweep of releaseStakes, then the read of the set.      *)

\* afterAll runs once the runner is done with the tests, whatever still awaits.
StartTeardown ==
    /\ pc = "tests" /\ fg = 0
    /\ todo' = IF Release THEN outstanding ELSE {}
    /\ pc' = CASE ~Release -> "done"
               [] outstanding = {} -> "read"
               [] OTHER -> "sweep"
    /\ verdict' = IF Release THEN verdict ELSE "declined"
    /\ UNCHANGED <<runVars, venueVars, cur, sweepOp, retried, budget,
                   released, failed, skipped, added, abandoned>>

BudgetRunsOut ==
    /\ pc \in Sweeping /\ budget
    /\ budget' = FALSE
    /\ UNCHANGED <<runVars, venueVars, pc, todo, cur, sweepOp, retried,
                   released, failed, skipped, endVars>>

\* Mutant: a skipped entry is dropped without a word.
SkipEntrySilently(e) ==
    /\ pc = "sweep" /\ ~budget /\ e \in todo
    /\ todo' = todo \ {e}
    /\ UNCHANGED <<runVars, venueVars, pc, cur, sweepOp, retried, budget,
                   released, failed, skipped, endVars>>

\* Mutant: the loop does not move past a skipped entry.
SkipEntryAndStay(e) ==
    /\ pc = "sweep" /\ ~budget /\ e \in todo
    /\ skipped' = skipped \cup {e}
    /\ UNCHANGED <<runVars, venueVars, pc, todo, cur, sweepOp, retried, budget,
                   released, failed, endVars>>

SkipEntry(e) ==
    /\ pc = "sweep" /\ ~budget /\ e \in todo
    /\ todo' = todo \ {e}
    /\ skipped' = skipped \cup {e}
    /\ UNCHANGED <<runVars, venueVars, pc, cur, sweepOp, retried, budget,
                   released, failed, endVars>>

\* The next entry: o.unstake broadcasts, or throws before anything is sent.
SweepSends(e) ==
    /\ pc = "sweep" /\ budget /\ e \in todo
    /\ todo' = todo \ {e}
    /\ cur' = {e}
    /\ retried' = FALSE
    /\ \/ /\ Broadcast("release", e)
          /\ sweepOp' = nops + 1
          /\ pc' = "unstaking"
       \/ /\ pc' = "probing"
          /\ UNCHANGED <<op, nops, sweepOp>>
    /\ UNCHANGED <<ledger, fg, venueVars, budget, released, failed, skipped, endVars>>

\* The entry is settled one way or the other and the loop goes on.
NextEntry == pc' = "sweep" /\ cur' = {} /\ sweepOp' = 0

SweepAccepted ==
    /\ pc = "unstaking" /\ op[sweepOp].tx = "valid"
    /\ op' = [op EXCEPT ![sweepOp].st = "booked"]
    /\ ledger' = [e \in Entries |-> IF e \in cur THEN "released" ELSE ledger[e]]
    /\ released' = released \cup cur
    /\ NextEntry
    /\ UNCHANGED <<nops, fg, venueVars, todo, retried, budget, failed, skipped, endVars>>

\* Mutant: every failure asks for another verdict.
SweepRetriesForever ==
    /\ pc = "unstaking"
    /\ op' = [op EXCEPT ![sweepOp].st = "gaveup"]
    /\ pc' = "probing" /\ sweepOp' = 0
    /\ UNCHANGED <<ledger, nops, fg, venueVars, todo, cur, retried, budget,
                   released, failed, skipped, endVars>>

\* The first failure asks for a verdict on the stall, the second is final.
SweepTimesOut ==
    /\ pc = "unstaking"
    /\ op' = [op EXCEPT ![sweepOp].st = "gaveup"]
    /\ IF retried
       THEN failed' = failed \cup cur /\ NextEntry
       ELSE pc' = "probing" /\ sweepOp' = 0 /\ UNCHANGED <<failed, cur>>
    /\ UNCHANGED <<ledger, nops, fg, venueVars, todo, retried, budget,
                   released, skipped, endVars>>

\* clearWedgeIfPresent: behind its decoder AND parked on the roll-call proof.
ProbeSeesWedge ==
    /\ pc = "probing" /\ idx < node /\ stall = "rollcall"
    /\ pc' = "nudging"
    /\ UNCHANGED <<runVars, venueVars, todo, cur, sweepOp, retried, budget,
                   released, failed, skipped, endVars>>

\* Mining the other chain clears the wedge, if it still is that wedge.
NudgeMines ==
    /\ pc = "nudging"
    /\ stall' = IF stall = "rollcall" THEN "none" ELSE stall
    /\ pc' = "retry"
    /\ UNCHANGED <<runVars, live, fading, node, idx, todo, cur, sweepOp, retried,
                   budget, released, failed, skipped, endVars>>

RetrySends ==
    /\ pc = "retry"
    /\ \E e \in cur : Broadcast("release", e)
    /\ sweepOp' = nops + 1
    /\ retried' = TRUE
    /\ pc' = "unstaking"
    /\ UNCHANGED <<ledger, fg, venueVars, todo, cur, budget, released, failed, skipped, endVars>>

\* No verdict, another stall, no miner, or a retry that could not be sent.
ReleaseFails ==
    /\ pc \in {"probing", "nudging", "retry"}
    /\ failed' = failed \cup cur
    /\ NextEntry
    /\ UNCHANGED <<runVars, venueVars, todo, retried, budget, released, skipped, endVars>>

SweepEnds ==
    /\ pc = "sweep" /\ todo = {}
    /\ pc' = IF released = {} \/ SettleBlocks = 0 THEN "read" ELSE "settle"
    /\ UNCHANGED <<runVars, venueVars, todo, cur, sweepOp, retried, budget,
                   released, failed, skipped, endVars>>

\* Mutant: the settle blocks taken for the height to reach.
SettleToHeight ==
    /\ pc = "settle"
    /\ node' \in {node, SettleBlocks}
    /\ pc' = "read"
    /\ UNCHANGED <<runVars, live, fading, idx, stall, todo, cur, sweepOp, retried, budget,
                   released, failed, skipped, endVars>>

\* o.mine, then requireSync on the UTXO tracker: either may fail and is reported.
Settle ==
    /\ pc = "settle"
    /\ node' \in {node, node + SettleBlocks}
    /\ pc' = "read"
    /\ UNCHANGED <<runVars, live, fading, idx, stall, todo, cur, sweepOp, retried, budget,
                   released, failed, skipped, endVars>>

\* readCapabilitySet at the indexer's tip, the diff, and the strict verdict.
ReadSet ==
    /\ pc = "read"
    /\ pc' = "done"
    /\ \/ /\ added' = CapabilitySet \ Baseline
          /\ verdict' = IF Strict /\ added' # {} THEN "threw" ELSE "ok"
       \/ /\ verdict' = "unchecked"
          /\ UNCHANGED added
    /\ UNCHANGED <<runVars, venueVars, todo, cur, sweepOp, retried, budget,
                   released, failed, skipped, abandoned>>

Finished == pc = "done" /\ UNCHANGED vars

-----------------------------------------------------------------------------
Tests == \/ \E act \in {"stake", "unstake", "partial"}, e \in Entries : TestSends(act, e)
         \/ \E i \in OpIds : TestSees(i) \/ TestGivesUp(i)
         \/ MochaTimesOut

Venue == \/ MineBlock \/ IndexBlock \/ Stall \/ Unstall
         \/ \E i \in OpIds : IndexTx(i)

Sweep == \/ BudgetRunsOut \/ SweepAccepted \/ SweepTimesOut
         \/ ProbeSeesWedge \/ NudgeMines \/ RetrySends \/ ReleaseFails
         \/ SweepEnds \/ Settle \/ ReadSet
         \/ \E e \in Entries : SkipEntry(e) \/ SweepSends(e)

Next == Tests \/ Venue \/ StartTeardown \/ Sweep \/ Finished

Spec == Init /\ [][Next]_vars

\* Every await of the teardown is bounded by its own timeout, so each step of it is taken.
FairSpec == Spec /\ WF_vars(StartTeardown) /\ WF_vars(Sweep)
                 /\ \A i \in OpIds : WF_vars(i = fg /\ TestGivesUp(i))

-----------------------------------------------------------------------------
(* How formatReport names the keys that were added.                        *)

KeysOf(E) == {e[2] : e \in E}
NotSent    == added \cap KeysOf(failed \cup skipped)
NotSettled == (added \cap KeysOf(released)) \ NotSent
Leaked     == added \ (NotSent \cup NotSettled)

Unbooked(i) == op[i].st \in {"waiting", "gaveup"}

-----------------------------------------------------------------------------
(* Properties.                                                             *)

(* While no test has been abandoned, a stake whose helper returned and      *)
(* which the indexer still has in force is owed on the ledger: no UNSTAKE a *)
(* test noted, before or after, may have written it off (registerStake,     *)
(* noteUnstake).  An abandoned helper may book long after its row landed,   *)
(* in another order than the indexer's.                                     *)
BookedStakeIsOwed ==
    \A e \in Entries : \A i \in live[e] :
        (i # 0 /\ op[i].st = "booked") => ledger[e] = "owed"

StandingStakeIsOwed == ~abandoned => BookedStakeIsOwed

(* Whatever the sweep did, a booked stake that survives it is named in its  *)
(* result: nothing owed drops out between the snapshot and the report, if   *)
(* no abandoned helper booked in between (releaseStakes).                   *)
SurvivorsAreReported ==
    (~abandoned /\ pc \in {"settle", "read", "done"} /\ Release) =>
        \A e \in Entries : (\E i \in live[e] : i # 0 /\ ~Unbooked(i)) => e \in failed \cup skipped

(* The one retry: a second UNSTAKE for an entry goes out only in the pass  *)
(* that saw the roll-call wedge, so one entry costs at most two broadcasts. *)
AtMostOneRetry ==
    \A e \in Entries :
        Cardinality({i \in 1 .. nops : op[i].e = e /\ op[i].act = "release"}) <= 2

(* Why the two above hold when no test is abandoned: the inductive         *)
(* strengthening, in parts.                                                *)
LiveAreStakes ==
    \A e \in Entries : \A i \in live[e] :
        i # 0 => op[i].act = "stake" /\ op[i].e = e /\ op[i].tx = "valid"

BookedAreValid ==
    \A i \in 1 .. nops : /\ op[i].act \in Acts /\ op[i].st # "none"
                         /\ op[i].st = "booked" => op[i].tx = "valid"

\* Only the call of the running test, or the sweep's, can still be awaited.
OneAwaited ==
    /\ \A i \in 1 .. nops : op[i].st = "waiting" => i \in {fg, sweepOp}
    /\ fg # 0 => pc = "tests"
    /\ sweepOp # 0 => pc = "unstaking"

\* An UNSTAKE that took effect and is still awaited left nothing booked behind.
AwaitedUnstakeCleared ==
    \A i \in 1 .. nops :
        (op[i].st = "waiting" /\ op[i].tx = "valid" /\ op[i].act \in {"unstake", "release"}) =>
            \A j \in live[op[i].e] : j # 0 => op[j].st # "booked"

SweepState ==
    /\ pc = "unstaking" => /\ sweepOp # 0
                           /\ op[sweepOp].act = "release"
                           /\ op[sweepOp].st = "waiting"
                           /\ cur = {op[sweepOp].e}
    /\ pc \in {"probing", "nudging", "retry"} => \E e \in Entries : cur = {e}
    /\ pc \in {"tests", "sweep", "settle", "read", "done"} => cur = {}
    /\ pc \in {"settle", "read", "done"} => todo = {}

\* From the snapshot on, what is owed is still to do, in hand, or in the result.
OwedIsTracked ==
    (pc # "tests" /\ Release) =>
        \A e \in Entries : ledger[e] = "owed" => e \in todo \cup cur \cup failed \cup skipped

Parts == /\ LiveAreStakes /\ BookedAreValid /\ OneAwaited /\ AwaitedUnstakeCleared
         /\ SweepState /\ OwedIsTracked /\ BookedStakeIsOwed

IInv == TypeOK /\ (~abandoned => Parts)

(* The run ends whatever the indexer does: no stall, no lost row and no    *)
(* failing unstake keeps the root hook from finishing.                     *)
RunEnds == <>(pc = "done")
=============================================================================
