---------------------------- MODULE TxPipeline ----------------------------
(***************************************************************************)
(* How a suite puts a transaction on the chain: createAndSendTransaction   *)
(* with its retries, _doCreateAndSendTransaction, createSimpleTransaction  *)
(* (test/transactionHelper/lib) and broadcastTx (BlockchainConnector).     *)
(*                                                                         *)
(* The calls run one after another, but a call whose test the runner has   *)
(* abandoned goes on beside its successors, and all share one cached list  *)
(* of confirmed coins.  The node, the tracker, whose view lags, and the    *)
(* encoder are external.  An outpoint is <<kind, address or call, number>>. *)
(***************************************************************************)
EXTENDS Naturals, FiniteSets

CONSTANTS
    Addresses, None,
    NCalls,         \* calls of the run, in order
    Addr,           \* the address of each call
    Simple,         \* the calls to createSimpleTransaction
    MaxAttempts,    \* MAX_ATTEMPTS
    Funds,          \* coins an address is funded with
    MaxEvictions,   \* bound: times the node drops unconfirmed transactions
    Abandonable     \* the calls whose test the runner may abandon

Calls    == 1 .. NCalls
Attempts == 1 .. MaxAttempts

ASSUME TxPipelineAssumption ==
    /\ NCalls \in Nat /\ MaxAttempts \in Nat \ {0} /\ Funds \in Nat /\ MaxEvictions \in Nat
    /\ Addr \in [Calls -> Addresses] /\ Simple \subseteq Calls
    /\ None \notin Addresses /\ Abandonable \subseteq Calls

VARIABLES
    pc,          \* what each call awaits
    attempt,     \* attempts it has started
    list,        \* the coins it hands to the encoder; {} lets the encoder ask
    input,       \* the coin its built transaction spends, in a set
    paired,      \* has that transaction a reveal to go with it?
    cache,       \* transactionState: address, coins; verified records how they were saved
    mempool, confirmed,    \* transactions at the node
    seen,        \* confirmed transactions the tracker has indexed
    evictions,
    abandoned    \* calls whose test the runner has given up on

locals == <<attempt, list, input, paired>>
chain  == <<mempool, confirmed, seen, evictions>>
vars == <<pc, locals, cache, chain, abandoned>>

Fund(a)       == {"fund"} \X {a} \X (1 .. Funds)
Change(c, k)  == <<"change", c, k>>
Carrier(c, k) == <<"carrier", c, k>>
Coins     == ({"fund"} \X Addresses \X (1 .. Funds)) \cup ({"change"} \X Calls \X Attempts)
Outpoints == Coins \cup ({"carrier"} \X Calls \X Attempts)
Owner(o)  == IF o[1] = "fund" THEN o[2] ELSE Addr[o[2]]

\* "whole" carries the action itself; a "commit" carries it with its "reveal".
Txs == [call : Calls, att : Attempts, role : {"whole", "commit", "reveal"}, in : Outpoints]

NoCache == [address |-> None, coins |-> {}, verified |-> FALSE]

Ended   == {"returned", "threw"}
Sending == {"attempt", "build", "buildReveal", "pick", "send", "trap", "quiesce"}
Labels  == {"idle", "sendReveal", "settle", "fallback"} \cup Sending \cup Ended

TypeOK ==
    /\ pc \in [Calls -> Labels]
    /\ attempt \in [Calls -> 0 .. MaxAttempts]
    /\ list \in [Calls -> SUBSET Coins] /\ input \in [Calls -> SUBSET Coins]
    /\ paired \in [Calls -> BOOLEAN]
    /\ cache \in [address : Addresses \cup {None}, coins : SUBSET Coins, verified : BOOLEAN]
    /\ mempool \subseteq Txs /\ confirmed \subseteq Txs /\ seen \subseteq confirmed
    /\ evictions \in 0 .. MaxEvictions /\ abandoned \subseteq Calls

Init ==
    /\ pc = [c \in Calls |-> "idle"] /\ attempt = [c \in Calls |-> 0]
    /\ list = [c \in Calls |-> {}] /\ input = [c \in Calls |-> {}]
    /\ paired = [c \in Calls |-> FALSE]
    /\ cache = NoCache
    /\ mempool = {} /\ confirmed = {} /\ seen = {} /\ evictions = 0
    /\ abandoned = {}

-----------------------------------------------------------------------------
(* The node and the tracker, external.                                     *)

OnNode == mempool \cup confirmed

Created(o) ==
    \/ o[1] = "fund"
    \/ o[1] = "change"  /\ \E t \in OnNode : t.call = o[2] /\ t.att = o[3] /\ t.role # "reveal"
    \/ o[1] = "carrier" /\ \E t \in OnNode : t.call = o[2] /\ t.att = o[3] /\ t.role = "commit"
Spendable(o) == Created(o) /\ \A t \in OnNode : t.in # o
\* txn-mempool-conflict: the node's words for a coin an unconfirmed transaction spends.
Conflict(o)  == Created(o) /\ \E t \in mempool : t.in = o

TrackerConfirmed(a) ==
    {o \in Fund(a) \cup {Change(t.call, t.att) : t \in {u \in seen : u.role # "reveal" /\ Addr[u.call] = a}} :
        \A t \in seen : t.in # o}
TrackerAll(a) ==
    TrackerConfirmed(a)
        \cup {Change(t.call, t.att) : t \in {u \in mempool : u.role # "reveal" /\ Addr[u.call] = a}}

MineBlock ==
    /\ mempool # {}
    /\ confirmed' = confirmed \cup mempool /\ mempool' = {}
    /\ UNCHANGED <<pc, locals, cache, seen, evictions, abandoned>>

TrackerIndexes ==
    /\ seen # confirmed /\ seen' = confirmed
    /\ UNCHANGED <<pc, locals, cache, mempool, confirmed, evictions, abandoned>>

\* The node drops unconfirmed transactions, and with each those that spend its outputs.
Evict ==
    /\ evictions < MaxEvictions /\ evictions' = evictions + 1
    /\ \E D \in SUBSET mempool \ {{}} :
          /\ \A t \in mempool, d \in D :
                d.role # "reveal" /\ t.in \in {Change(d.call, d.att), Carrier(d.call, d.att)} => t \in D
          /\ mempool' = mempool \ D
    /\ UNCHANGED <<pc, locals, cache, confirmed, seen, abandoned>>

\* The runner gives up on a test; the test's pending call goes on.
Abandon(c) ==
    /\ c \in Abandonable /\ pc[c] \notin {"idle"} \cup Ended
    /\ c \notin abandoned /\ abandoned' = abandoned \cup {c}
    /\ UNCHANGED <<pc, locals, cache, chain>>

-----------------------------------------------------------------------------
(* A call: start, retry, end.                                              *)

Goto(c, l) == pc' = [pc EXCEPT ![c] = l]
\* The locals of an attempt end with it.
Forgotten(c) == /\ list' = [list EXCEPT ![c] = {}] /\ input' = [input EXCEPT ![c] = {}]
                /\ paired' = [paired EXCEPT ![c] = FALSE]

\* Calls are awaited one by one, unless the runner abandons the test that awaits.
Start(c) ==
    /\ pc[c] = "idle" /\ \A d \in Calls : d < c => pc[d] \in Ended \/ d \in abandoned
    /\ c \notin Simple
    /\ \/ Goto(c, "attempt") /\ attempt' = [attempt EXCEPT ![c] = 1]
       \/ Goto(c, "threw") /\ UNCHANGED attempt     \* the native fee cannot be resolved
    /\ UNCHANGED <<list, input, paired, cache, chain, abandoned>>

\* Mutant: the shared list is taken whoever it was saved for.
AnyCached(c) == cache.coins

\* The saved list, if it was saved for this address.
Cached(c) == IF cache.address = Addr[c] THEN cache.coins ELSE {}

\* Taking the list clears it.
TakeCache(c) ==
    /\ pc[c] = "attempt" /\ Goto(c, "build")
    /\ list' = [list EXCEPT ![c] = Cached(c)]
    /\ cache' = NoCache
    /\ UNCHANGED <<attempt, input, paired, chain, abandoned>>

\* Mutant: whatever went wrong, try again.
RetryAlways(c, stale) == c \notin Simple /\ attempt[c] < MaxAttempts

\* Mutant: one attempt more than the budget.
RetryOnceMore(c, stale) == stale /\ c \notin Simple /\ attempt[c] <= MaxAttempts

\* _isStaleUtxoError and the attempt budget; createSimpleTransaction never retries.
Retries(c, stale) == stale /\ c \notin Simple /\ attempt[c] < MaxAttempts

Raise(c, stale) ==
    /\ Goto(c, IF Retries(c, stale) THEN "trap" ELSE "threw")
    /\ Forgotten(c) /\ UNCHANGED attempt

\* The tracker has been asked for the trap log; the saved list goes.
DropCache(c) ==
    /\ pc[c] = "trap" /\ Goto(c, "quiesce")
    /\ cache' = NoCache
    /\ UNCHANGED <<locals, chain, abandoned>>

\* Mutant: the barrier is not given up on.
QuiesceWhenReady(c) ==
    /\ pc[c] = "quiesce" /\ mempool = {} /\ seen = confirmed /\ Goto(c, "attempt")
    /\ attempt' = [attempt EXCEPT ![c] = @ + 1]
    /\ UNCHANGED <<list, input, paired, cache, chain, abandoned>>

\* Settled or timed out, the barrier lets the next attempt go.
QuiesceEnds(c) ==
    /\ pc[c] = "quiesce" /\ Goto(c, "attempt")
    /\ attempt' = [attempt EXCEPT ![c] = @ + 1]
    /\ UNCHANGED <<list, input, paired, cache, chain, abandoned>>

-----------------------------------------------------------------------------
(* Building: the encoder, and the pick of a simple transaction.            *)

\* The encoder spends a coin it was given, or one the tracker calls confirmed; it
\* chooses the encoding, and an envelope comes with its reveal.
Build(c) ==
    /\ pc[c] = "build"
    /\ \E o \in IF list[c] # {} THEN list[c] ELSE TrackerConfirmed(Addr[c]) :
          input' = [input EXCEPT ![c] = {o}]
    /\ \E encoding \in {"single", "envelope", "chunk"} :
          /\ paired' = [paired EXCEPT ![c] = (encoding # "single")]
          /\ Goto(c, IF encoding = "chunk" THEN "buildReveal" ELSE "send")
    /\ list' = [list EXCEPT ![c] = {}]
    /\ UNCHANGED <<attempt, cache, chain, abandoned>>

\* The second createTx, against the signed but unsent first transaction.
BuildReveal(c) ==
    /\ pc[c] = "buildReveal" /\ Goto(c, "send")
    /\ UNCHANGED <<locals, cache, chain, abandoned>>

\* No coins, or any error the encoder sanitises: stale.  Anything else, a reveal
\* that does not spend its commit included, is not.
BuildFails(c) ==
    /\ pc[c] \in {"build", "buildReveal"}
    /\ \E stale \in BOOLEAN : Raise(c, stale)
    /\ UNCHANGED <<cache, chain, abandoned>>

\* Mutant: the shared list is left as it is.
KeepOwnCache(c) == cache

\* A simple transaction drops the saved list of its own address.
OwnCacheDropped(c) == IF cache.address = Addr[c] THEN NoCache ELSE cache

StartSimple(c) ==
    /\ pc[c] = "idle" /\ \A d \in Calls : d < c => pc[d] \in Ended \/ d \in abandoned
    /\ c \in Simple /\ Goto(c, "pick")
    /\ attempt' = [attempt EXCEPT ![c] = 1]
    /\ cache' = OwnCacheDropped(c)
    /\ UNCHANGED <<list, input, paired, chain, abandoned>>

\* It picks for itself, unconfirmed coins included.
Pick(c) ==
    /\ pc[c] = "pick"
    /\ \/ /\ Goto(c, "send")
          /\ \E o \in TrackerAll(Addr[c]) : input' = [input EXCEPT ![c] = {o}]
          /\ UNCHANGED <<attempt, list, paired>>
       \/ Raise(c, FALSE)
    /\ UNCHANGED <<cache, chain, abandoned>>

-----------------------------------------------------------------------------
(* Sending.                                                                *)

First(c, o) == [call |-> c, att |-> attempt[c], in |-> o,
                role |-> IF paired[c] THEN "commit" ELSE "whole"]
Reveal(c)   == [call |-> c, att |-> attempt[c], in |-> Carrier(c, attempt[c]), role |-> "reveal"]

\* The node takes the transaction and says so, or the answer is lost and that is an error.
Accepted(c, t, next) ==
    /\ Spendable(t.in) /\ mempool' = mempool \cup {t}
    /\ \/ Goto(c, next) /\ input' = [input EXCEPT ![c] = {}] /\ UNCHANGED <<attempt, list, paired>>
       \/ Raise(c, FALSE)
    /\ UNCHANGED <<confirmed, seen, evictions>>

\* The node refuses it, by missingorspent or by a conflict; or it never gets there.
Refused(c, t) ==
    /\ \/ ~Spendable(t.in) /\ Raise(c, ~Conflict(t.in))
       \/ Raise(c, FALSE)
    /\ UNCHANGED chain

Send(c) ==
    /\ pc[c] = "send"
    /\ \E o \in input[c] : \/ Accepted(c, First(c, o), IF paired[c] THEN "sendReveal" ELSE "settle")
                          \/ Refused(c, First(c, o))
    /\ UNCHANGED <<cache, abandoned>>

SendReveal(c) ==
    /\ pc[c] = "sendReveal"
    /\ Accepted(c, Reveal(c), "settle") \/ Refused(c, Reveal(c))
    /\ UNCHANGED <<cache, abandoned>>

-----------------------------------------------------------------------------
(* After the broadcasts: wait for the change, and save the confirmed coins. *)

Save(a, ok) == [address |-> a, coins |-> TrackerConfirmed(a), verified |-> ok]

\* The tracker shows the change of the first transaction as confirmed.
SettleVerified(c) ==
    /\ pc[c] = "settle" /\ Change(c, attempt[c]) \in TrackerConfirmed(Addr[c])
    /\ cache' = Save(Addr[c], TRUE)
    /\ Goto(c, "returned") /\ Forgotten(c)
    /\ UNCHANGED <<attempt, chain, abandoned>>

\* Mutant: a poll that ran out is an error.
SettleThrows(c) ==
    /\ pc[c] = "settle" /\ Goto(c, "threw") /\ Forgotten(c)
    /\ UNCHANGED <<attempt, cache, chain, abandoned>>

\* The poll ran out; a list that is there, whoever saved it, stays.
SettleTimesOut(c) ==
    /\ pc[c] = "settle"
    /\ Goto(c, IF cache.address = None THEN "fallback" ELSE "returned") /\ Forgotten(c)
    /\ UNCHANGED <<attempt, cache, chain, abandoned>>

\* Whatever is confirmed is saved, if the tracker answers.
Fallback(c) ==
    /\ pc[c] = "fallback"
    /\ cache' \in {cache, Save(Addr[c], FALSE)}
    /\ Goto(c, "returned")
    /\ UNCHANGED <<locals, chain, abandoned>>

-----------------------------------------------------------------------------
Step(c) ==
    \/ Start(c) \/ TakeCache(c) \/ DropCache(c) \/ QuiesceEnds(c)
    \/ Build(c) \/ BuildReveal(c) \/ BuildFails(c) \/ StartSimple(c) \/ Pick(c)
    \/ Send(c) \/ SendReveal(c) \/ SettleVerified(c) \/ SettleTimesOut(c) \/ Fallback(c)

Finished == (\A c \in Calls : pc[c] \in Ended) /\ UNCHANGED vars

Next == (\E c \in Calls : Step(c) \/ Abandon(c)) \/ MineBlock \/ TrackerIndexes \/ Evict \/ Finished

Spec == Init /\ [][Next]_vars

\* Every await returns or times out.
FairSpec == Spec /\ \A c \in Calls : WF_vars(Step(c))

-----------------------------------------------------------------------------
(* Properties.                                                             *)

(* However often a call is retried, and whatever the node dropped in        *)
(* between, it never has two first transactions or two actions on the node: *)
(* a retry follows only on an error that says nothing of this call is there *)
(* (_isStaleUtxoError, "Retrying is safe").                                 *)
OneSpendPerCall ==
    \A t, u \in OnNode : (t.call = u.call /\ (t.role = "reveal" <=> u.role = "reveal")) => t = u

(* Why, and the inductive strengthening: what the node holds of a call was  *)
(* sent in its current attempt, after which it can only end, or send the    *)
(* reveal; a reveal is refused as stale only when its commit is gone.       *)
NodeHoldsThisAttempt ==
    \A t \in OnNode : /\ t.att = attempt[t.call]
                      /\ pc[t.call] \in {"sendReveal", "settle", "fallback"} \cup Ended
                      /\ pc[t.call] = "sendReveal" => t.role = "commit"

CarriersAreForReveals ==
    \A t \in OnNode : IF t.role = "reveal" THEN t.in = Carrier(t.call, t.att) ELSE t.in \in Coins

AttemptsAreCounted ==
    \A c \in Calls : /\ pc[c] \in {"trap", "quiesce"} => attempt[c] < MaxAttempts
                     /\ pc[c] \notin {"idle", "threw"} => attempt[c] >= 1

NodeInv == NodeHoldsThisAttempt /\ CarriersAreForReveals /\ OneSpendPerCall
IInv    == TypeOK /\ AttemptsAreCounted /\ NodeInv

(* A call builds with coins of its own address only, although the saved     *)
(* list is shared: the address and the coins are saved and taken together   *)
(* (transactionState).                                                      *)
OwnCoins == \A c \in Calls : \A o \in list[c] \cup input[c] : Owner(o) = Addr[c]

(* While no call for its address runs abandoned, a list saved after the     *)
(* tracker showed the change holds only coins the node would accept: it     *)
(* saves the next call from spending a coin that is gone (transactionState: *)
(* "preventing stale mempool-db outputs from being picked up").             *)
VerifiedCacheIsSpendable ==
    (cache.verified /\ \A c \in abandoned : Addr[c] # cache.address) =>
        \A o \in cache.coins : Spendable(o)

(* Every call returns or throws (MAX_ATTEMPTS, the barrier and the polls    *)
(* are all bounded).                                                        *)
CallsEnd == <>(\A c \in Calls : pc[c] \in Ended)

(* The call seen as one action, accepted at most once ever.                *)
Action == INSTANCE OneAction WITH
    phase <- [c \in Calls |->
                 CASE pc[c] \in {"settle", "fallback"} -> "heard"
                   [] pc[c] \in Ended -> pc[c]
                   [] OTHER -> "open"],
    standing <- {t.call : t \in {u \in OnNode : u.role # "commit"}}
ImplementsOneAction == Action!Spec
=============================================================================
