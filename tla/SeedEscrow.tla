----------------------------- MODULE SeedEscrow -----------------------------
(***************************************************************************)
(* bin/seed-escrow-state.js: opens orders that lock the gas token and will *)
(* never fill, one per round, to a target number of open ones.  It shares  *)
(* the ledger and submitChecked with the contract tool and keeps a resume  *)
(* file of its own, of which it reads back nothing but the ledger.         *)
(***************************************************************************)
EXTENDS SeedWire

CONSTANTS Orders     \* --orders, the target number of open seed orders

ASSUME SeedEscrowAssumption == Orders \in Nat \ {0}

\* isSeedOrder and holdsEscrow: our address gives the gas tick, and the status
\* is not one of those that release the lock.
holdsEscrow == Valid("ORDER")

\* Counting the open orders in a list that was read.
Count(rows) == [seen EXCEPT !.live = Cardinality(rows), !.misread = (rows # holdsEscrow)]

\* getToken and getBalances, as the contract tool reads them.
ReadEscrowGas ==
    /\ pc = "token"
    /\ \E exists \in explorerField(Valid("ISSUE") # {}),
          held \in explorerField(Valid("MINT") # {}) :
        seen' = [seen EXCEPT !.token = exists, !.gas = held]
    /\ pc' = "lookup"
    /\ UNCHANGED <<wire, book, opts, step, cur, runs, lost>>

\* The list of this address's orders.  A request that fails ends the run: in the
\* preflight by refusing to plan, later by reaching main().catch.
ListOrders ==
    /\ pc = "lookup"
    /\ \E rows \in listRows(holdsEscrow) : seen' = Count(rows)
    /\ pc' = "plan"
    /\ UNCHANGED <<wire, book, opts, step, cur, runs, lost>>

\* Mutant: a list whose request failed is an empty list.
ListFailsAsNone ==
    /\ pc = "lookup" /\ Blips
    /\ seen' = [seen EXCEPT !.live = 0]
    /\ pc' = "plan"
    /\ UNCHANGED <<wire, book, opts, step, cur, runs, lost>>

ListFails ==
    /\ pc \in {"lookup", "recount", "verify"} /\ Blips
    /\ Exit
    /\ UNCHANGED <<wire, book, runs, lost>>

\* No gas token, too little gas for the orders and their fees, no funds.
EscrowBlocked ==
    /\ pc = "plan"
    /\ Exit
    /\ UNCHANGED <<wire, book, runs, lost>>

EscrowPlanOnly ==
    /\ pc = "plan" /\ ~opts.broadcast
    /\ Exit
    /\ UNCHANGED <<wire, book, runs, lost>>

EscrowPlan ==
    /\ pc = "plan" /\ opts.broadcast
    /\ seen.token /\ (seen.live < Orders => seen.gas)
    /\ seen' = [seen EXCEPT !.rounds = 1]
    /\ IF seen.live < Orders
       THEN step' = "ORDER" /\ pc' = "submit"
       ELSE step' = "none" /\ pc' = "verify"
    /\ UNCHANGED <<wire, book, opts, cur, runs, lost>>

SubmitOrder == NodeAccepts([NoTx EXCEPT !.step = "ORDER", !.blind = seen.misread])

Posted ==
    /\ pc = "heard"
    /\ pc' = "recount" /\ cur' = 0
    /\ UNCHANGED <<wire, book, opts, step, seen, runs, lost>>

RecountOrders ==
    /\ pc = "recount"
    /\ \E rows \in listRows(holdsEscrow) :
         LET have == Cardinality(rows) IN
         IF have <= seen.live \/ (have < Orders /\ seen.rounds >= Orders + 3)
         THEN Exit
         ELSE /\ seen' = [Count(rows) EXCEPT !.rounds = @ + 1]
              /\ IF have < Orders
                 THEN pc' = "submit" /\ UNCHANGED step
                 ELSE pc' = "verify" /\ step' = "none"
              /\ UNCHANGED <<opts, cur>>
    /\ UNCHANGED <<wire, book, runs, lost>>

EscrowVerified ==
    /\ pc = "verify"
    /\ Exit
    /\ UNCHANGED <<wire, book, runs, lost>>

EscrowRun ==
    \/ ReadEscrowGas \/ ListOrders \/ ListFails \/ EscrowBlocked \/ EscrowPlanOnly \/ EscrowPlan
    \/ SubmitOrder \/ Posted \/ RecountOrders \/ EscrowVerified

\* An order is filled, cancelled or expires.
Release(i) ==
    /\ fate[i] = "valid" /\ what[i].step = "ORDER"
    /\ fate' = [fate EXCEPT ![i] = "released"]
    /\ UNCHANGED <<what, pending, saved, opts, pc, step, cur, seen, runs, lost>>
=============================================================================
