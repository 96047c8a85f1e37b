---------------------------- MODULE SeedContract ----------------------------
(***************************************************************************)
(* bin/seed-contract-state.js: puts contract state on a chain ahead of the *)
(* height that commits it.  Preflight, plan, then ISSUE, MINT, DEPLOY,     *)
(* EXECUTE fill until the live key count is reached, EXECUTE remove of one *)
(* base key, verify.  bin/contracts/spvSeed.js is the contract.            *)
(***************************************************************************)
EXTENDS SeedWire

CONSTANTS
    Keys,        \* --keys, the target live key count
    Batch,       \* --batch, keys per EXECUTE
    BaseKeys     \* SEED_BASE_KEYS, what initialize() writes

ASSUME SeedContractAssumption ==
    /\ Keys \in Nat \ {0} /\ Batch \in Nat \ {0} /\ BaseKeys \in Nat \ {0}

ContractSteps == {"ISSUE", "MINT", "DEPLOY", "fill", "remove"}

Least(x, y) == IF x < y THEN x ELSE y
Most(x, y) == IF x > y THEN x ELSE y

-----------------------------------------------------------------------------
(* The contract's state, from the valid transactions on it. *)

Bulk(c) == UNION {what[i].from .. what[i].from + what[i].count - 1 :
                     i \in {j \in Valid("fill") : what[j].on = c}}

Removed(c) == \E i \in Valid("remove") : what[i].on = c

Live(c) ==
    IF fate[c] # "valid" THEN 0
    ELSE (IF Removed(c) THEN BaseKeys - 1 ELSE BaseKeys) + Cardinality(Bulk(c))

-----------------------------------------------------------------------------
(* Reads.  The token and balance reads and countLiveKeys turn an error     *)
(* into an absence; the contract lookup does so for an error that arrives  *)
(* as a document, and refuses to plan on one that is thrown.               *)

\* The projected cost of the arming block exceeds the budget, and no --force.
OverBudget ==
    /\ pc = "token"
    /\ Exit
    /\ UNCHANGED <<wire, book, runs, lost>>

\* getToken and getBalances.
ReadGas ==
    /\ pc = "token"
    /\ \E exists \in explorerField(Valid("ISSUE") # {}),
          held \in explorerField(Valid("MINT") # {}) :
        seen' = [seen EXCEPT !.token = exists, !.gas = held]
    /\ pc' = "lookup"
    /\ UNCHANGED <<wire, book, opts, step, cur, runs, lost>>

\* The lowest valid DEPLOY of this code by this address in a list of its
\* contracts, 0 if it has none.
findDeployedContract(rows) ==
    IF rows = {} THEN 0 ELSE CHOOSE c \in rows : \A d \in rows : c <= d

\* Mutant: the file's contract is taken on trust, as it once was.
resolveSavedIndex(onChain, misread) ==
    LET c == IF saved.index # 0 THEN saved.index ELSE onChain IN
    /\ seen' = [seen EXCEPT !.index = c, !.misread = misread]
    /\ saved' = [saved EXCEPT !.index = c]

\* The chain wins over the file in both directions.
resolveContractIndex(onChain, misread) ==
    /\ seen' = [seen EXCEPT !.index = onChain, !.misread = misread]
    /\ saved' = [saved EXCEPT !.index = onChain]

LookupContract ==
    /\ pc = "lookup"
    /\ \E rows \in listRows(Valid("DEPLOY")) :
          resolveContractIndex(findDeployedContract(rows), rows = {} /\ Valid("DEPLOY") # {})
    /\ pc' = "count"
    /\ UNCHANGED <<wire, pending, opts, step, cur, runs, lost>>

\* Mutant: a lookup whose request failed is read as no contract.
LookupFailsAsNone ==
    /\ pc = "lookup" /\ Blips
    /\ resolveContractIndex(0, FALSE)
    /\ pc' = "count"
    /\ UNCHANGED <<wire, pending, opts, step, cur, runs, lost>>

LookupFails ==
    /\ pc = "lookup" /\ Blips
    /\ Exit
    /\ UNCHANGED <<wire, book, runs, lost>>

\* A request that fails counts 0; of an error document the keys are counted.
ErrorKeys == 1

countLiveKeys(c) ==
    IF c = 0 THEN {0} ELSE {Live(c)} \cup (IF Blips THEN {0, ErrorKeys} ELSE {})

CountKeys ==
    /\ pc = "count"
    /\ \E n \in countLiveKeys(seen.index) : seen' = [seen EXCEPT !.live = n]
    /\ pc' = "plan"
    /\ UNCHANGED <<wire, book, opts, step, cur, runs, lost>>

-----------------------------------------------------------------------------
(* The plan and the order of its steps. *)

\* Mutant: the target taken as bulk keys alone.
NeededBulk(s, live) ==
    CASE s = "ISSUE"  -> ~seen.token
      [] s = "MINT"   -> ~seen.gas
      [] s = "DEPLOY" -> seen.index = 0
      [] s = "fill"   -> live < Keys - BaseKeys
      [] s = "remove" -> ~saved.tombstoned
      [] OTHER        -> TRUE

Needed(s, live) ==
    CASE s = "ISSUE"  -> ~seen.token
      [] s = "MINT"   -> ~seen.gas
      [] s = "DEPLOY" -> seen.index = 0
      [] s = "fill"   -> live < Keys
      [] s = "remove" -> ~saved.tombstoned
      [] OTHER        -> TRUE

After(s) ==
    CASE s = "none"   -> <<"ISSUE", "MINT", "DEPLOY", "fill", "remove", "none">>
      [] s = "ISSUE"  -> <<"MINT", "DEPLOY", "fill", "remove", "none">>
      [] s = "MINT"   -> <<"DEPLOY", "fill", "remove", "none">>
      [] s = "DEPLOY" -> <<"fill", "remove", "none">>
      [] s = "fill"   -> <<"remove", "none">>
      [] OTHER        -> <<"none">>

\* The next step the run's reads say is not done, "none" if there is none.
Following(s, live) ==
    LET steps == After(s)
        k == CHOOSE n \in DOMAIN steps :
                /\ Needed(steps[n], live)
                /\ \A m \in 1..(n - 1) : ~Needed(steps[m], live)
    IN  steps[k]

\* Where the fill resumes: the chain's count, or the file if that is further.
FillStart(live) ==
    Most(IF live > BaseKeys THEN live - BaseKeys ELSE 0, saved.next)

GoTo(s, live) ==
    /\ step' = s
    /\ pc' = IF s = "none" THEN "verify" ELSE "submit"
    /\ seen' = [seen EXCEPT !.live = live, !.rounds = 1, !.start = FillStart(live)]

\* Missing funds or keys, a shape change, a contract too big for one DEPLOY:
\* facts of the venue and flags, taken as given.
Blocked ==
    /\ pc = "plan"
    /\ Exit
    /\ UNCHANGED <<wire, book, runs, lost>>

PlanOnly ==
    /\ pc = "plan" /\ ~opts.broadcast
    /\ Exit
    /\ UNCHANGED <<wire, book, runs, lost>>

ContractPlan ==
    /\ pc = "plan" /\ opts.broadcast
    /\ GoTo(Following("none", seen.live), seen.live)
    /\ UNCHANGED <<wire, book, opts, cur, runs, lost>>

-----------------------------------------------------------------------------
(* The steps. *)

\* Mutant: the base keys taken off the remainder a second time.
FillBatchNet == Least(Batch, Keys - BaseKeys - seen.live)

FillBatch == Least(Batch, Keys - seen.live)

Payload ==
    CASE step = "fill"   -> [NoTx EXCEPT !.step = step, !.on = seen.index,
                                         !.from = seen.start, !.count = FillBatch]
      [] step = "remove" -> [NoTx EXCEPT !.step = step, !.on = seen.index]
      [] OTHER           -> [NoTx EXCEPT !.step = step,
                                         !.blind = (step = "DEPLOY" /\ seen.misread)]

SubmitStep == NodeAccepts(Payload)

\* The ISSUE wants a tip to start minting from, and a flag that confirms it.
IssueRefused ==
    /\ pc = "submit" /\ step = "ISSUE"
    /\ Exit
    /\ UNCHANGED <<wire, book, runs, lost>>

\* ISSUE and MINT only note their txid.
Noted ==
    /\ pc = "heard" /\ step \in {"ISSUE", "MINT"}
    /\ GoTo(Following(step, seen.live), seen.live)
    /\ cur' = 0
    /\ UNCHANGED <<wire, book, opts, runs, lost>>

\* The DEPLOY's index is parsed, read back, and only then recorded.
Deployed ==
    /\ pc = "heard" /\ step = "DEPLOY"
    /\ seen' = [seen EXCEPT !.index = cur]
    /\ saved' = [saved EXCEPT !.index = cur]
    /\ pc' = "recount" /\ cur' = 0
    /\ UNCHANGED <<wire, pending, opts, step, runs, lost>>

DeployUnverified ==
    /\ pc = "heard" /\ step = "DEPLOY"
    /\ Exit
    /\ UNCHANGED <<wire, book, runs, lost>>

Filled ==
    /\ pc = "heard" /\ step = "fill"
    /\ seen' = [seen EXCEPT !.start = seen.start + FillBatch]
    /\ saved' = [saved EXCEPT !.next = seen.start + FillBatch]
    /\ pc' = "recount" /\ cur' = 0
    /\ UNCHANGED <<wire, pending, opts, step, runs, lost>>

Tombstoned ==
    /\ pc = "heard" /\ step = "remove"
    /\ saved' = [saved EXCEPT !.tombstoned = TRUE]
    /\ step' = "none" /\ pc' = "verify" /\ cur' = 0
    /\ UNCHANGED <<wire, pending, opts, seen, runs, lost>>

RecountDeploy ==
    /\ pc = "recount" /\ step = "DEPLOY"
    /\ \E n \in countLiveKeys(seen.index) : GoTo(Following(step, n), n)
    /\ UNCHANGED <<wire, book, opts, cur, runs, lost>>

\* The two brakes of the only loop here that spends.
maxRounds == (Keys + Batch - 1) \div Batch + 3
Stops(before, now) == now <= before \/ (now < Keys /\ seen.rounds >= maxRounds)

RecountFill ==
    /\ pc = "recount" /\ step = "fill"
    /\ \E n \in countLiveKeys(seen.index) :
        IF Stops(seen.live, n)
        THEN Exit
        ELSE IF n < Keys
        THEN /\ pc' = "submit"
             /\ seen' = [seen EXCEPT !.live = n, !.rounds = @ + 1]
             /\ UNCHANGED <<opts, step, cur>>
        ELSE GoTo(Following(step, n), n) /\ UNCHANGED <<opts, cur>>
    /\ UNCHANGED <<wire, book, runs, lost>>

ContractVerified ==
    /\ pc = "verify"
    /\ Exit
    /\ UNCHANGED <<wire, book, runs, lost>>

ContractRun ==
    \/ ReadGas \/ LookupContract \/ LookupFails \/ CountKeys
    \/ OverBudget \/ IssueRefused \/ Blocked \/ PlanOnly \/ ContractPlan \/ SubmitStep
    \/ Noted \/ Deployed \/ DeployUnverified \/ Filled \/ Tombstoned
    \/ RecountDeploy \/ RecountFill \/ ContractVerified

\* The indexer's verdict: an EXECUTE needs its contract, a MINT the token.
CanBeValid(i) ==
    CASE what[i].step \in {"fill", "remove"} -> what[i].on \in Valid("DEPLOY")
      [] what[i].step = "MINT" -> Valid("ISSUE") # {}
      [] what[i].step = "ORDER" -> Valid("MINT") # {}
      [] OTHER -> TRUE
=============================================================================
