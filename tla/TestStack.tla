----------------------------- MODULE TestStack ------------------------------
(***************************************************************************)
(* The stack a test runs on, and the connectors the harness drives it      *)
(* with: the regtest miner's control calls (src/RegtestMinerConnector.js)  *)
(* and the quiescence barrier over the utxo tracker                        *)
(* (src/XChainUtxoTrackerConnector.js).                                    *)
(*                                                                         *)
(* The miner, the tracker and transactions that arrive late move between   *)
(* any two awaits of the harness.                                          *)
(***************************************************************************)
EXTENDS Naturals, RootRun

CONSTANTS
    MaxMempool,   \* bound on the unconfirmed transactions
    MaxLag,       \* bound on the blocks the tracker is behind
    MaxPolls,     \* polls a barrier's time budget holds
    MaxOutages,   \* bound on how often a service goes down
    MaxOps        \* bound on what a test does to the stack

ASSUME StackAssumption ==
    /\ MaxMempool \in Nat /\ MaxLag \in Nat /\ MaxPolls \in Nat \ {0}
    /\ MaxOutages \in Nat /\ MaxOps \in Nat

VARIABLES
    mempool,      \* unconfirmed transactions
    lag,          \* blocks the tracker is behind the node
    up,           \* the services that answer
    miner,        \* what holds in the miner: pace, clock, pause
    believed,     \* what the harness was told holds
    polls,        \* polls left to the barrier
    status,       \* the last status the barrier got
    mineErrors,   \* failed nudges, as the barrier counted them
    ops,          \* what the test may still do
    outages,
    settled       \* ghost: has the stack been at rest since the last test?

world == <<mempool, lag, up, miner, outages>>
barrier == <<polls, status, mineErrors>>
stack == <<world, believed, barrier, ops, settled>>

Settings == [pace : {"default", "suite"}, clock : {"real", "pinned"},
             auto : {"running", "paused"}]

NoAnswer == [some |-> FALSE, ready |-> FALSE, pending |-> FALSE]

AtRest == mempool = 0 /\ lag = 0

Rests == settled' = (settled \/ AtRest')

-----------------------------------------------------------------------------
(* The miner's answers.  Its controller answers 200 to everything: "ok", an *)
(* error object in place of a result, an error member for a method it does  *)
(* not have, or nothing.  Only "ok" says that the call took effect.         *)

Replies == {"ok", "errorResult", "methodNotFound", "noResult", "silence"}

\* Mutant: an answer without its payload is read as done.
unwrapTruthy(reply) == reply \in {"ok", "noResult"}

\* Whether unwrap returns; it throws on everything else, as the request does
\* when it gets no answer ("silence").
unwrap(reply) == reply = "ok"

\* What a reply may stand for: done, or not done.  A lost answer or one
\* without its payload says neither.
Meanings(reply) ==
    CASE reply = "ok" -> {TRUE}
      [] reply \in {"errorResult", "methodNotFound"} -> {FALSE}
      [] OTHER -> {FALSE} \cup {"miner" \in up}

MayReply(reply) == "miner" \in up \/ reply = "silence"

\* One control call: k is set to v in the miner when the call is carried out,
\* and believed when the connector returns.
Control(k, v, reply, done) ==
    /\ MayReply(reply) /\ done \in Meanings(reply)
    /\ miner' = IF done THEN [miner EXCEPT ![k] = v] ELSE miner
    /\ believed' = IF unwrap(reply) THEN [believed EXCEPT ![k] = v] ELSE believed

\* setMockTime goes to the node where the miner has no such method and a node
\* connector is there; the node's own answer decides then.
setMockTime(v, reply, done) ==
    IF reply = "methodNotFound" /\ "node" \in up
    THEN /\ MayReply(reply)
         /\ miner' = [miner EXCEPT !.clock = v]
         /\ believed' = [believed EXCEPT !.clock = v]
    ELSE Control("clock", v, reply, done)

\* A block confirms what is in the mempool, and the tracker has one more to do.
Mined(done) ==
    IF done THEN lag < MaxLag /\ mempool' = 0 /\ lag' = lag + 1 ELSE UNCHANGED <<mempool, lag>>

-----------------------------------------------------------------------------
(* quiesce, as the hook after every test drives it *)

\* The test is over, however it ended; the barrier's clock starts.
TestEnds ==
    /\ pc \in {"test", "threw"}
    /\ pc' = "poll" /\ polls' = MaxPolls /\ status' = NoAnswer /\ mineErrors' = 0
    /\ settled' = AtRest
    /\ UNCHANGED <<world, believed, ops>>

\* The tracker answers for itself; a failed request is a null.
Probed ==
    IF "tracker" \in up THEN [some |-> TRUE, ready |-> AtRest, pending |-> mempool > 0]
    ELSE NoAnswer

Poll ==
    /\ pc = "poll" /\ polls > 0
    /\ status' = Probed
    /\ polls' = polls - 1
    /\ pc' = IF Probed.ready THEN "judge" ELSE IF Probed.pending THEN "nudge" ELSE "poll"
    /\ UNCHANGED <<world, believed, mineErrors, ops, settled>>

\* One block is asked for, for as long as that takes; a nudge that fails is
\* counted, never thrown.
Nudge(reply, done) ==
    /\ pc = "nudge"
    /\ MayReply(reply) /\ done \in Meanings(reply)
    /\ Mined(done)
    /\ mineErrors' = IF unwrap(reply) THEN mineErrors ELSE mineErrors + 1
    /\ Rests
    /\ polls' \in 0..polls
    /\ pc' = "poll"
    /\ UNCHANGED <<up, miner, outages, believed, status, ops>>

BudgetSpent ==
    /\ pc = "poll" /\ polls = 0
    /\ pc' = "judge"
    /\ UNCHANGED stack

\* Mutant: a tracker that answers is enough.
PassesIfAnswered == status.some

\* The hook: no answer or no rest fails it, and with it the run.
Passes == status.some /\ status.ready

-----------------------------------------------------------------------------
(* What a test does to the stack *)

Does == pc = "test" /\ ops > 0 /\ ops' = ops - 1

Sends ==
    /\ Does /\ mempool < MaxMempool
    /\ mempool' = mempool + 1
    /\ UNCHANGED <<pc, lag, up, miner, outages, believed, barrier, settled>>

\* A call that throws fails the test; one that returns leaves it going.
AfterCall(reply) == pc' = IF unwrap(reply) THEN pc ELSE "threw"

Pauses(v, reply, done) ==
    /\ Does /\ Control("auto", v, reply, done)
    /\ AfterCall(reply)
    /\ UNCHANGED <<mempool, lag, up, outages, barrier, settled>>

PinsClock(v, reply, done) ==
    /\ Does /\ setMockTime(v, reply, done)
    /\ pc' = IF believed' = believed /\ ~unwrap(reply) THEN "threw" ELSE pc
    /\ UNCHANGED <<mempool, lag, up, outages, barrier, settled>>

-----------------------------------------------------------------------------
(* The services *)

AutoMines ==
    /\ "miner" \in up /\ miner.auto = "running" /\ mempool > 0 /\ lag < MaxLag
    /\ mempool' = 0 /\ lag' = lag + 1
    /\ UNCHANGED <<pc, up, miner, outages, believed, barrier, ops>>
    /\ Rests

Follows ==
    /\ "tracker" \in up /\ lag > 0
    /\ lag' = lag - 1
    /\ UNCHANGED <<pc, mempool, up, miner, outages, believed, barrier, ops>>
    /\ Rests

\* A body the runner has given up still broadcasts.
StrayArrives ==
    /\ pc # "test" /\ ops > 0 /\ mempool < MaxMempool
    /\ ops' = ops - 1 /\ mempool' = mempool + 1
    /\ UNCHANGED <<pc, lag, up, miner, outages, believed, barrier, settled>>

\* The miner keeps its settings in memory, the node its clock.
AfterRestart(s) ==
    CASE s = "miner" -> [miner EXCEPT !.pace = "default", !.auto = "running"]
      [] s = "node" -> [miner EXCEPT !.clock = "real"]
      [] OTHER -> miner

Fails(s) ==
    /\ s \in up /\ outages < MaxOutages
    /\ up' = up \ {s} /\ outages' = outages + 1
    /\ UNCHANGED <<pc, mempool, lag, miner, believed, barrier, ops, settled>>

Returns(s) ==
    /\ s \notin up
    /\ up' = up \cup {s}
    /\ miner' = AfterRestart(s)
    /\ UNCHANGED <<pc, mempool, lag, outages, believed, barrier, ops, settled>>

=============================================================================
