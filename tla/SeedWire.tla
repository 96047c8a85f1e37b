------------------------------ MODULE SeedWire ------------------------------
(***************************************************************************)
(* What the two seeding tools share: the chain they pay for transactions   *)
(* on, the resume file, and the way from a step of the plan to a settled   *)
(* transaction (bin/seed-contract-state.js, makeSubmitChecked and the      *)
(* settling of what an earlier run left in flight; the other tool takes    *)
(* makeSubmitChecked from it and repeats the settling).                    *)
(*                                                                         *)
(* A transaction is known by the order it was broadcast in.  One run of    *)
(* one tool is the process; it may be killed at any await, and the         *)
(* operator runs it again.                                                 *)
(***************************************************************************)
EXTENDS Naturals, FiniteSets

CONSTANTS
    Steps,       \* labels of the plan's steps
    MaxTx,       \* bound on the transactions broadcast
    MaxRuns,     \* bound on the runs of the tool
    MaxFaults,   \* bound on the transactions the chain drops or refuses
    Blips,       \* may a read of the explorer fail, or answer less than there is?
    TornWrites   \* may a kill leave the resume file half written?

ASSUME SeedWireAssumption ==
    /\ MaxTx \in Nat \ {0}
    /\ MaxRuns \in Nat /\ MaxFaults \in Nat
    /\ Blips \in BOOLEAN /\ TornWrites \in BOOLEAN
    /\ Steps # {}

VARIABLES
    fate,        \* per transaction: unused, sent, valid, invalid, evicted, gone, released
    what,        \* per transaction: the step, and for an EXECUTE its contract and keys
    pending,     \* the resume file's ledger: per label, the transaction or 0
    saved,       \* the rest of the resume file
    opts,        \* the flags of this run
    pc, step, cur,
    seen,        \* what this run has read from the chain
    runs,
    lost         \* ghost: broadcasts whose txid the tool never got, or discarded

wire == <<fate, what>>
proc == <<opts, step, cur, seen>>
book == <<pending, saved>>
vars == <<fate, what, pending, saved, opts, pc, step, cur, seen, runs, lost>>

Ids == 1..MaxTx
Fates == {"unused", "sent", "valid", "invalid", "evicted", "gone", "released"}
Awaits == {"settle", "token", "lookup", "count", "plan", "submit",
           "accepted", "waiting", "recheck", "heard", "recount", "verify"}

\* A resume file that is missing or cannot be parsed is an empty one.
NoFile == [index |-> 0, next |-> 0, tombstoned |-> FALSE]

\* blind, a ghost: sent because a list was read short.
NoTx == [step |-> "none", on |-> 0, from |-> 0, count |-> 0, blind |-> FALSE]

Unsettled == {i \in Ids : fate[i] = "sent"}
Valid(s) == {i \in Ids : fate[i] = "valid" /\ what[i].step = s}

\* An explorer knows a transaction once the indexer has put it on the chain.
Indexed(i) == fate[i] \in {"valid", "invalid", "released"}

-----------------------------------------------------------------------------
(* Leaving: process.exit with any code, an error that reaches main().catch, *)
(* or a kill.  Nothing of the run survives but the resume file.            *)

\* misread, a ghost: what the run has listed is not all there is.
NothingSeen == [token |-> FALSE, gas |-> FALSE, index |-> 0, live |-> 0,
                start |-> 0, rounds |-> 0, misread |-> FALSE]

NoFlags == [broadcast |-> FALSE, clear |-> FALSE]

\* A field of an explorer document: an error document, a failed read and a
\* missing field all come out as not found.
explorerField(there) == {there} \cup (IF Blips THEN {FALSE} ELSE {})

\* What a list of the explorer may read as: a document without rows, an error
\* document among them, is an empty list, and a row whose status cannot be read
\* is passed over.  A request that fails is another matter.
listRows(there) == IF Blips THEN SUBSET there ELSE {there}

Exit ==
    /\ pc' = "off" /\ step' = "none" /\ cur' = 0
    /\ seen' = NothingSeen /\ opts' = NoFlags

\* No key, a chain that pays its fee natively, a free window overrun.
Refuses ==
    /\ pc = "settle"
    /\ Exit
    /\ UNCHANGED <<wire, book, runs, lost>>

rememberPending(l, i) == pending' = [pending EXCEPT ![l] = i]

forgetPending(l) == pending' = [pending EXCEPT ![l] = 0]

-----------------------------------------------------------------------------
(* Settling what an earlier run broadcast, before anything is planned: a   *)
(* transaction the explorer carries is forgotten, valid or not; one it     *)
(* does not carry (or cannot be asked about) ends the run.                 *)

InFlight == {l \in Steps : pending[l] # 0}

\* Mutant: a transaction the explorer does not carry is taken for dropped.
CarriedOrMissing == {l \in Steps : pending[l] # 0}

Carried == {l \in InFlight : Indexed(pending[l])}

ClearPending ==
    /\ pc = "settle" /\ opts.clear
    /\ pending' = [l \in Steps |-> 0]
    /\ lost' = lost \cup {i \in Unsettled : \E l \in InFlight : pending[l] = i}
    /\ pc' = "token"
    /\ UNCHANGED <<wire, saved, opts, step, cur, seen, runs>>

SettlePending ==
    /\ pc = "settle" /\ ~opts.clear
    /\ \E settled \in (IF Blips THEN SUBSET Carried ELSE {Carried}) :
        /\ pending' = [l \in Steps |-> IF l \in settled THEN 0 ELSE pending[l]]
        /\ IF settled = InFlight
           THEN pc' = "token" /\ UNCHANGED proc
           ELSE Exit
    /\ UNCHANGED <<wire, saved, runs, lost>>

-----------------------------------------------------------------------------
(* submitChecked: submitAction builds, signs and broadcasts; its           *)
(* progress('waiting') callback is where the txid reaches the file; then   *)
(* it waits for the index, and a wait that times out asks once more.       *)

Broadcast(t) ==
    \E i \in Ids :
        /\ fate[i] = "unused" /\ \A j \in 1..(i - 1) : fate[j] # "unused"
        /\ fate' = [fate EXCEPT ![i] = "sent"]
        /\ what' = [what EXCEPT ![i] = t]
        /\ cur' = i

NodeAccepts(t) ==
    /\ pc = "submit"
    /\ Broadcast(t)
    /\ pc' = "accepted"
    /\ UNCHANGED <<book, opts, step, seen, runs, lost>>

BuildFails ==
    /\ pc = "submit"
    /\ Exit
    /\ UNCHANGED <<wire, book, runs, lost>>

\* The node has it; the answer that carries the txid does not arrive.
AnswerLost ==
    /\ pc = "accepted"
    /\ lost' = lost \cup {cur}
    /\ Exit
    /\ UNCHANGED <<wire, book, runs>>

Remember ==
    /\ pc = "accepted"
    /\ rememberPending(step, cur)
    /\ pc' = "waiting"
    /\ UNCHANGED <<wire, saved, opts, step, cur, seen, runs, lost>>

\* submitAction resolves on confirmation, whatever the verdict: the label is
\* forgotten first, and requireValid then throws for anything but valid.
requireValid(i) ==
    IF fate[i] \in {"valid", "released"}
    THEN pc' = "heard" /\ UNCHANGED proc
    ELSE Exit

Resolved ==
    /\ pc = "waiting" /\ Indexed(cur)
    /\ forgetPending(step)
    /\ requireValid(cur)
    /\ UNCHANGED <<wire, saved, runs, lost>>

WaitFails ==
    /\ pc = "waiting"
    /\ Exit
    /\ UNCHANGED <<wire, book, runs, lost>>

TimesOut ==
    /\ pc = "waiting"
    /\ pc' = "recheck"
    /\ UNCHANGED <<wire, book, opts, step, cur, seen, runs, lost>>

\* Mutant: a late answer that is not valid waits once more.
RecheckAgain ==
    /\ pc = "recheck"
    /\ \/ /\ fate[cur] \in {"valid", "released"}
          /\ forgetPending(step)
          /\ pc' = "heard"
       \/ /\ fate[cur] \notin {"valid", "released"} \/ Blips
          /\ pc' = "waiting"
          /\ UNCHANGED pending
    /\ UNCHANGED <<wire, saved, opts, step, cur, seen, runs, lost>>

Recheck ==
    /\ pc = "recheck"
    /\ \/ /\ fate[cur] \in {"valid", "released"}
          /\ forgetPending(step)
          /\ pc' = "heard"
          /\ UNCHANGED proc
       \/ /\ fate[cur] \notin {"valid", "released"} \/ Blips
          /\ Exit
          /\ UNCHANGED pending
    /\ UNCHANGED <<wire, saved, runs, lost>>

\* The process is killed.  Between the node's answer and the callback that
\* writes the txid down, a kill leaves no trace.
Killed ==
    /\ pc # "off"
    /\ lost' = IF pc = "accepted" THEN lost \cup {cur} ELSE lost
    /\ Exit
    /\ UNCHANGED <<wire, book, runs>>

\* Or it is killed while the file is being rewritten in place: what is left of
\* it is not JSON, and the next run starts from an empty one.
TornFile ==
    /\ TornWrites /\ pc \in {"settle", "lookup", "accepted", "waiting", "recheck", "heard"}
    /\ pending' = [l \in Steps |-> 0] /\ saved' = NoFile
    /\ lost' = lost \cup Unsettled
    /\ Exit
    /\ UNCHANGED <<wire, runs>>

-----------------------------------------------------------------------------
(* The chain. *)

Settles(i, verdict) ==
    /\ fate[i] = "sent"
    /\ verdict = "valid" \/ Cardinality({j \in Ids : fate[j] \in {"invalid", "evicted"}}) < MaxFaults
    /\ fate' = [fate EXCEPT ![i] = verdict]
    /\ UNCHANGED <<what, pending, saved, opts, pc, step, cur, seen, runs, lost>>

Evicted(i) == Settles(i, "evicted")

\* The chain restarts below everything it had indexed, between two runs; it may
\* be given its gas token anew before the next one.
Regenesis ==
    /\ pc = "off"
    /\ \A i \in Ids : fate[i] # "gone"
    /\ \E i \in Ids : Indexed(i)
    /\ \E kept \in {{}, {"ISSUE", "MINT"}} :
        fate' = [i \in Ids |-> IF Indexed(i) /\ what[i].step \notin kept THEN "gone" ELSE fate[i]]
    /\ UNCHANGED <<what, pending, saved, opts, pc, step, cur, seen, runs, lost>>
=============================================================================
