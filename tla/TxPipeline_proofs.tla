-------------------------- MODULE TxPipeline_proofs --------------------------
(***************************************************************************)
(* Theorems about TxPipeline, for every number of calls, attempts, coins    *)
(* and addresses, every plan of calls and every abandonment and eviction.   *)
(***************************************************************************)
EXTENDS TxPipeline, TLAPS

USE TxPipelineAssumption DEF Calls, Attempts

-----------------------------------------------------------------------------
(* Types.                                                                  *)

\* What the tracker calls confirmed are coins.
LEMMA ViewsAreCoins ==
    ASSUME TypeOK, NEW x \in Addresses
    PROVE  TrackerConfirmed(x) \subseteq Coins /\ TrackerAll(x) \subseteq Coins
<1>1. \A t \in mempool \cup seen : t.call \in Calls /\ t.att \in Attempts
  BY DEF TypeOK, Txs
<1>2. Fund(x) \subseteq Coins
  BY DEF Fund, Coins
<1>3. \A t \in mempool \cup seen : Change(t.call, t.att) \in Coins
  BY <1>1 DEF Change, Coins
<1> QED
  BY <1>2, <1>3 DEF TrackerConfirmed, TrackerAll

\* A built transaction, and its reveal, are transactions.
LEMMA SentAreTxs ==
    ASSUME TypeOK, AttemptsAreCounted, NEW c \in Calls, pc[c] \in {"send", "sendReveal"}
    PROVE  (\A o \in input[c] : First(c, o) \in Txs) /\ Reveal(c) \in Txs
<1>1. attempt[c] \in Attempts
  <2>1. attempt[c] \in 0 .. MaxAttempts
    BY DEF TypeOK
  <2>2. attempt[c] >= 1
    BY DEF AttemptsAreCounted
  <2> QED
    BY <2>1, <2>2
<1>2. input[c] \subseteq Coins /\ Coins \subseteq Outpoints
  BY DEF TypeOK, Outpoints
<1>3. Carrier(c, attempt[c]) \in Outpoints
  BY <1>1 DEF Carrier, Outpoints
<1> QED
  BY <1>1, <1>2, <1>3 DEF First, Reveal, Txs

\* A call that moves on with its attempts counted leaves them counted.
LEMMA MoveKeepsCount ==
    ASSUME TypeOK, AttemptsAreCounted, NEW c \in Calls, NEW l \in Labels, NEW k \in 0 .. MaxAttempts,
           Goto(c, l), attempt' = [attempt EXCEPT ![c] = k],
           l \in {"trap", "quiesce"} => k < MaxAttempts,
           l \notin {"idle", "threw"} => k >= 1
    PROVE  /\ pc' \in [Calls -> Labels] /\ attempt' \in [Calls -> 0 .. MaxAttempts]
           /\ AttemptsAreCounted'
<1>1. pc \in [Calls -> Labels] /\ attempt \in [Calls -> 0 .. MaxAttempts]
  BY DEF TypeOK
<1>2. pc' \in [Calls -> Labels] /\ attempt' \in [Calls -> 0 .. MaxAttempts]
  BY <1>1 DEF Goto
<1>3. ASSUME NEW d \in Calls
      PROVE  /\ pc'[d] \in {"trap", "quiesce"} => attempt'[d] < MaxAttempts
             /\ pc'[d] \notin {"idle", "threw"} => attempt'[d] >= 1
  <2>1. CASE d = c
    <3>1. pc'[d] = l /\ attempt'[d] = k
      BY <1>1, <2>1 DEF Goto
    <3> QED
      BY <3>1
  <2>2. CASE d # c
    <3>1. pc'[d] = pc[d] /\ attempt'[d] = attempt[d]
      BY <1>1, <2>2 DEF Goto
    <3> QED
      BY <3>1 DEF AttemptsAreCounted
  <2> QED
    BY <2>1, <2>2
<1> QED
  BY <1>2, <1>3 DEF AttemptsAreCounted

LEMMA SameAttempt ==
    ASSUME TypeOK, NEW c \in Calls, UNCHANGED attempt
    PROVE  attempt' = [attempt EXCEPT ![c] = attempt[c]] /\ attempt[c] \in 0 .. MaxAttempts
  BY DEF TypeOK

LEMMA ForgottenTyped ==
    ASSUME TypeOK, NEW c \in Calls, Forgotten(c)
    PROVE  /\ list' \in [Calls -> SUBSET Coins] /\ input' \in [Calls -> SUBSET Coins]
           /\ paired' \in [Calls -> BOOLEAN]
  BY DEF TypeOK, Forgotten

\* An error ends the attempt; a retry is left only below the budget.
LEMMA RaiseKeepsTypes ==
    ASSUME TypeOK, AttemptsAreCounted, NEW c \in Calls, NEW stale \in BOOLEAN, Raise(c, stale),
           pc[c] \notin {"idle", "threw"}
    PROVE  /\ pc' \in [Calls -> Labels] /\ attempt' \in [Calls -> 0 .. MaxAttempts]
           /\ list' \in [Calls -> SUBSET Coins] /\ input' \in [Calls -> SUBSET Coins]
           /\ paired' \in [Calls -> BOOLEAN]
           /\ AttemptsAreCounted'
<1>1. PICK l \in {"trap", "threw"} : Goto(c, l) /\ (l = "trap" => attempt[c] < MaxAttempts)
  BY DEF Raise, Retries
<1>2. l \in Labels
  BY DEF Labels, Sending, Ended
<1>3. attempt' = [attempt EXCEPT ![c] = attempt[c]] /\ attempt[c] \in 0 .. MaxAttempts
  BY SameAttempt DEF Raise
<1>4. attempt[c] >= 1
  BY DEF AttemptsAreCounted
<1>5. Forgotten(c)
  BY DEF Raise
<1> QED
  BY <1>1, <1>2, <1>3, <1>4, <1>5, MoveKeepsCount, ForgottenTyped

-----------------------------------------------------------------------------
(* The type invariant.                                                     *)

LEMMA InitTypes == Init => TypeOK /\ AttemptsAreCounted
<1> SUFFICES ASSUME Init PROVE TypeOK /\ AttemptsAreCounted
  OBVIOUS
<1>1. NoCache \in [address : Addresses \cup {None}, coins : SUBSET Coins, verified : BOOLEAN]
  BY DEF NoCache
<1>2. TypeOK
  BY <1>1 DEF Init, TypeOK, Labels
<1> QED
  BY <1>2 DEF Init, AttemptsAreCounted

LEMMA StepTypes ==
    ASSUME TypeOK, AttemptsAreCounted, NEW c \in Calls, Step(c)
    PROVE  TypeOK' /\ AttemptsAreCounted'
<1> DEFINE Caches == [address : Addresses \cup {None}, coins : SUBSET Coins, verified : BOOLEAN]
           Moved == /\ pc' \in [Calls -> Labels] /\ attempt' \in [Calls -> 0 .. MaxAttempts]
                    /\ AttemptsAreCounted'
           Kept == list' \in [Calls -> SUBSET Coins] /\ input' \in [Calls -> SUBSET Coins]
                   /\ paired' \in [Calls -> BOOLEAN]
           Chain == mempool' \subseteq Txs /\ confirmed' \subseteq Txs /\ seen' \subseteq confirmed'
                    /\ evictions' \in 0 .. MaxEvictions /\ abandoned' \subseteq Calls
<1>t. /\ pc \in [Calls -> Labels] /\ attempt \in [Calls -> 0 .. MaxAttempts]
      /\ list \in [Calls -> SUBSET Coins] /\ input \in [Calls -> SUBSET Coins]
      /\ paired \in [Calls -> BOOLEAN] /\ cache \in Caches
      /\ mempool \subseteq Txs /\ confirmed \subseteq Txs /\ seen \subseteq confirmed
      /\ evictions \in 0 .. MaxEvictions /\ abandoned \subseteq Calls
  BY DEF TypeOK
<1>n. NoCache \in Caches
  BY DEF NoCache
<1>a. Addr[c] \in Addresses
  OBVIOUS
<1>v. TrackerConfirmed(Addr[c]) \subseteq Coins /\ TrackerAll(Addr[c]) \subseteq Coins
  BY <1>a, ViewsAreCoins
<1>s. Save(Addr[c], TRUE) \in Caches /\ Save(Addr[c], FALSE) \in Caches
  BY <1>a, <1>v DEF Save
<1>l. /\ {"attempt", "build", "buildReveal", "pick", "send", "sendReveal", "settle",
          "fallback", "trap", "quiesce", "returned", "threw"} \subseteq Labels
  BY DEF Labels, Sending, Ended
<1>o. ASSUME NEW l \in Labels \ {"idle", "trap", "quiesce"}, Goto(c, l), attempt' = [attempt EXCEPT ![c] = 1]
      PROVE  Moved
  <2>1. PICK k \in 0 .. MaxAttempts : k = 1
    OBVIOUS
  <2>2. attempt' = [attempt EXCEPT ![c] = k] /\ k >= 1
    BY <1>o, <2>1
  <2> QED
    BY <1>o, <2>2, MoveKeepsCount
<1>m. ASSUME NEW l \in Labels, Goto(c, l), UNCHANGED attempt, l \notin {"idle", "trap", "quiesce"},
             pc[c] \notin {"idle", "threw"}
      PROVE  Moved
  <2>1. attempt' = [attempt EXCEPT ![c] = attempt[c]] /\ attempt[c] \in 0 .. MaxAttempts
    BY <1>m, SameAttempt
  <2>2. attempt[c] >= 1
    BY <1>m DEF AttemptsAreCounted
  <2> QED
    BY <1>m, <2>1, <2>2, MoveKeepsCount
<1>q. ASSUME Moved, Kept, cache' \in Caches, Chain
      PROVE  TypeOK' /\ AttemptsAreCounted'
  BY <1>q DEF TypeOK
<1>1. CASE Start(c)
  <2>1. CASE Goto(c, "attempt") /\ attempt' = [attempt EXCEPT ![c] = 1]
    <3>1. Moved
      BY <1>l, <1>o, <2>1
    <3> QED
      BY <1>1, <3>1, <1>t, <1>q DEF Start, chain
  <2>2. CASE Goto(c, "threw") /\ UNCHANGED attempt
    BY <1>l, <2>2, MoveKeepsCount, SameAttempt, <1>1, <1>t, <1>q DEF Start, chain
  <2> QED
    BY <1>1, <2>1, <2>2 DEF Start
<1>2. CASE TakeCache(c)
  <2>1. Cached(c) \subseteq Coins
    BY <1>t DEF Cached
  <2>2. Moved
    BY <1>2, <1>l, <1>m DEF TakeCache
  <2> QED
    BY <1>2, <2>1, <2>2, <1>n, <1>t, <1>q DEF TakeCache, chain
<1>3. CASE DropCache(c)
  <2>1. attempt[c] < MaxAttempts /\ attempt[c] >= 1
    BY <1>3 DEF DropCache, AttemptsAreCounted
  <2>2. Moved
    BY <1>3, <2>1, <1>l, MoveKeepsCount, SameAttempt DEF DropCache, locals
  <2> QED
    BY <1>3, <2>2, <1>n, <1>t, <1>q DEF DropCache, locals, chain
<1>4. CASE QuiesceEnds(c)
  <2>1. attempt[c] < MaxAttempts /\ attempt[c] + 1 \in 0 .. MaxAttempts /\ attempt[c] + 1 >= 1
    BY <1>4, <1>t DEF QuiesceEnds, AttemptsAreCounted
  <2>2. Moved
    BY <1>4, <2>1, <1>l, MoveKeepsCount DEF QuiesceEnds
  <2> QED
    BY <1>4, <2>2, <1>t, <1>q DEF QuiesceEnds, chain
<1>5. CASE Build(c)
  <2>1. PICK o \in Coins : input' = [input EXCEPT ![c] = {o}]
    BY <1>5, <1>t, <1>v DEF Build
  <2>2. PICK e \in {"single", "envelope", "chunk"} :
           /\ paired' = [paired EXCEPT ![c] = (e # "single")]
           /\ Goto(c, IF e = "chunk" THEN "buildReveal" ELSE "send")
    BY <1>5 DEF Build
  <2>3. (e # "single") \in BOOLEAN
    OBVIOUS
  <2>4. paired' \in [Calls -> BOOLEAN]
    BY <2>2, <2>3, <1>t
  <2>a. list' = [list EXCEPT ![c] = {}]
    BY <1>5 DEF Build
  <2>b. list' \in [Calls -> SUBSET Coins]
    BY <2>a, <1>t
  <2>c. input' \in [Calls -> SUBSET Coins]
    BY <2>1, <1>t
  <2>5. Kept
    BY <2>b, <2>c, <2>4
  <2>6. Moved
    BY <1>5, <2>2, <1>l, <1>m DEF Build
  <2> QED
    BY <1>5, <2>5, <2>6, <1>t, <1>q DEF Build, chain
<1>6. CASE BuildReveal(c)
  <2>1. Moved
    BY <1>6, <1>l, <1>m DEF BuildReveal, locals
  <2> QED
    BY <1>6, <2>1, <1>t, <1>q DEF BuildReveal, locals, chain
<1>7. CASE BuildFails(c)
  <2>1. PICK stale \in BOOLEAN : Raise(c, stale)
    BY <1>7 DEF BuildFails
  <2>2. pc[c] \notin {"idle", "threw"}
    BY <1>7 DEF BuildFails
  <2> QED
    <3>1. Moved /\ Kept
      BY <2>1, <2>2, RaiseKeepsTypes
    <3>2. UNCHANGED <<cache, mempool, confirmed, seen, evictions, abandoned>>
      BY <1>7 DEF BuildFails, chain
    <3> QED
      BY <3>1, <3>2, <1>t, <1>q
<1>8. CASE StartSimple(c)
  <2>1. OwnCacheDropped(c) \in Caches
    BY <1>n, <1>t DEF OwnCacheDropped
  <2>2. Moved
    <3>1. Goto(c, "pick") /\ attempt' = [attempt EXCEPT ![c] = 1]
      BY <1>8 DEF StartSimple
    <3> QED
      BY <3>1, <1>l, <1>o
  <2> QED
    BY <1>8, <2>1, <2>2, <1>t, <1>q DEF StartSimple, chain
<1>9. CASE Pick(c)
  <2>1. CASE Raise(c, FALSE)
    <3>1. pc[c] \notin {"idle", "threw"}
      BY <1>9 DEF Pick
    <3> QED
      BY <1>9, <2>1, <3>1, RaiseKeepsTypes, <1>t, <1>q DEF Pick, chain
  <2>2. CASE /\ Goto(c, "send")
             /\ \E o \in TrackerAll(Addr[c]) : input' = [input EXCEPT ![c] = {o}]
             /\ UNCHANGED <<attempt, list, paired>>
    <3>1. Moved
      BY <1>9, <2>2, <1>l, <1>m DEF Pick
    <3>2. Kept
      BY <2>2, <1>t, <1>v
    <3> QED
      BY <1>9, <3>1, <3>2, <1>t, <1>q DEF Pick, chain
  <2> QED
    BY <1>9, <2>1, <2>2 DEF Pick
<1>10. ASSUME NEW t \in Txs, NEW next \in Labels, Accepted(c, t, next), UNCHANGED <<cache, abandoned>>,
              pc[c] \notin {"idle", "threw"}, next \notin {"idle", "trap", "quiesce"}
       PROVE  TypeOK' /\ AttemptsAreCounted'
  <2>1. Chain
    BY <1>10, <1>t DEF Accepted
  <2>2. CASE Raise(c, FALSE)
    BY <1>10, <2>1, <2>2, RaiseKeepsTypes, <1>t, <1>q
  <2>3. CASE Goto(c, next) /\ input' = [input EXCEPT ![c] = {}] /\ UNCHANGED <<attempt, list, paired>>
    <3>1. Moved
      BY <1>10, <2>3, <1>m
    <3> QED
      BY <1>10, <2>1, <2>3, <3>1, <1>t, <1>q
  <2> QED
    BY <1>10, <2>2, <2>3 DEF Accepted
<1>11. ASSUME NEW t, Refused(c, t), UNCHANGED <<cache, abandoned>>, pc[c] \notin {"idle", "threw"}
       PROVE  TypeOK' /\ AttemptsAreCounted'
  <2>1. PICK stale \in BOOLEAN : Raise(c, stale)
    BY <1>11 DEF Refused, Conflict
  <2> QED
    BY <1>11, <2>1, RaiseKeepsTypes, <1>t, <1>q DEF Refused, chain
<1>12. CASE Send(c)
  <2>1. PICK o \in input[c] : \/ Accepted(c, First(c, o), IF paired[c] THEN "sendReveal" ELSE "settle")
                              \/ Refused(c, First(c, o))
    BY <1>12 DEF Send
  <2>2. First(c, o) \in Txs
    BY <1>12, SentAreTxs DEF Send
  <2> QED
    BY <1>12, <2>1, <2>2, <1>10, <1>11, <1>l DEF Send
<1>13. CASE SendReveal(c)
  <2>1. Reveal(c) \in Txs
    BY <1>13, SentAreTxs DEF SendReveal
  <2> QED
    BY <1>13, <2>1, <1>10, <1>11, <1>l DEF SendReveal
<1>14. CASE SettleVerified(c)
  <2>1. Moved
    BY <1>14, <1>l, <1>m DEF SettleVerified
  <2> QED
    BY <1>14, <2>1, <1>s, ForgottenTyped, <1>t, <1>q DEF SettleVerified, chain
<1>15. CASE SettleTimesOut(c)
  <2>1. Moved
    BY <1>15, <1>l, <1>m DEF SettleTimesOut
  <2> QED
    BY <1>15, <2>1, ForgottenTyped, <1>t, <1>q DEF SettleTimesOut, chain
<1>16. CASE Fallback(c)
  <2>1. Moved
    BY <1>16, <1>l, <1>m DEF Fallback, locals
  <2> QED
    BY <1>16, <2>1, <1>s, <1>t, <1>q DEF Fallback, locals, chain
<1> QED
  BY <1>1, <1>2, <1>3, <1>4, <1>5, <1>6, <1>7, <1>8, <1>9, <1>12, <1>13, <1>14, <1>15, <1>16 DEF Step

LEMMA NextTypes ==
    ASSUME TypeOK, AttemptsAreCounted, [Next]_vars
    PROVE  TypeOK' /\ AttemptsAreCounted'
<1>1. CASE \E c \in Calls : Step(c)
  BY <1>1, StepTypes
<1>2. ASSUME NEW c \in Calls, Abandon(c) PROVE TypeOK' /\ AttemptsAreCounted'
  BY <1>2 DEF Abandon, locals, chain, TypeOK, AttemptsAreCounted
<1>3. CASE MineBlock
  BY <1>3 DEF MineBlock, locals, TypeOK, AttemptsAreCounted
<1>4. CASE TrackerIndexes
  BY <1>4 DEF TrackerIndexes, locals, TypeOK, AttemptsAreCounted
<1>5. CASE Evict
  BY <1>5 DEF Evict, locals, TypeOK, AttemptsAreCounted
<1>6. CASE UNCHANGED vars
  BY <1>6 DEF vars, locals, chain, TypeOK, AttemptsAreCounted
<1> QED
  BY <1>1, <1>2, <1>3, <1>4, <1>5, <1>6 DEF Next, Finished

(* Every reachable state is well typed, with every attempt below its       *)
(* budget (createAndSendTransaction, MAX_ATTEMPTS).                        *)
THEOREM TypeCorrect == Spec => []TypeOK
<1>1. TypeOK /\ AttemptsAreCounted /\ [Next]_vars => (TypeOK /\ AttemptsAreCounted)'
  BY NextTypes
<1> QED
  BY InitTypes, <1>1, PTL DEF Spec

-----------------------------------------------------------------------------
(* What the node holds of a call.                                          *)

Sent == {"settle", "fallback"} \cup Ended

\* Until its first transaction is accepted, an attempt has nothing on the node.
LEMMA NothingSent ==
    ASSUME NodeInv, NEW c \in Calls, pc[c] \in {"idle"} \cup Sending
    PROVE  \A t \in OnNode : t.call # c
  BY DEF NodeInv, NodeHoldsThisAttempt, Sending, Ended

\* A step that sends nothing, of a call that has nothing there or is past sending.
LEMMA QuietStep ==
    ASSUME TypeOK, NodeInv, NEW c \in Calls, OnNode' \subseteq OnNode,
           \A d \in Calls \ {c} : pc'[d] = pc[d] /\ attempt'[d] = attempt[d],
           \A t \in OnNode' : t.call = c => attempt'[c] = attempt[c] /\ pc'[c] \in Sent
    PROVE  NodeInv'
<1>1. \A t \in OnNode : t.call \in Calls
  BY DEF TypeOK, OnNode, Txs
<1>2. NodeHoldsThisAttempt'
  BY <1>1 DEF NodeInv, NodeHoldsThisAttempt, Sent, Ended
<1>3. CarriersAreForReveals' /\ OneSpendPerCall'
  BY DEF NodeInv, CarriersAreForReveals, OneSpendPerCall
<1> QED
  BY <1>2, <1>3 DEF NodeInv

\* The same, when no call moves: the node at most forgets.
LEMMA StillStep ==
    ASSUME TypeOK, NodeInv, OnNode' \subseteq OnNode, UNCHANGED <<pc, attempt>>
    PROVE  NodeInv'
  BY DEF NodeInv, NodeHoldsThisAttempt, CarriersAreForReveals, OneSpendPerCall

\* A call that moves leaves the others alone.
LEMMA OthersStay ==
    ASSUME TypeOK, NEW c \in Calls, NEW l, Goto(c, l),
           UNCHANGED attempt \/ \E k : attempt' = [attempt EXCEPT ![c] = k]
    PROVE  /\ pc'[c] = l
           /\ \A d \in Calls \ {c} : pc'[d] = pc[d] /\ attempt'[d] = attempt[d]
  BY DEF TypeOK, Goto

\* What an error says of the node: nothing of this call is there, or the call ends.
LEMMA RaiseStep ==
    ASSUME TypeOK, NodeInv, NEW c \in Calls, NEW stale \in BOOLEAN, Raise(c, stale),
           OnNode' \subseteq OnNode, stale => \A t \in OnNode : t.call # c
    PROVE  NodeInv'
<1>1. PICK l \in {"trap", "threw"} : Goto(c, l) /\ (l = "trap" => stale)
  BY DEF Raise, Retries
<1>2. UNCHANGED attempt
  BY DEF Raise
<1> QED
  BY <1>1, <1>2, OthersStay, QuietStep DEF Sent, Ended

\* The first transaction of an attempt is the only thing of its call on the node.
LEMMA FirstAccepted ==
    ASSUME TypeOK, AttemptsAreCounted, NodeInv, NEW c \in Calls, pc[c] = "send", NEW o \in input[c],
           Accepted(c, First(c, o), IF paired[c] THEN "sendReveal" ELSE "settle")
    PROVE  NodeInv'
<1> DEFINE t0 == First(c, o)
<1>1. OnNode' = OnNode \cup {t0}
  BY DEF Accepted, OnNode
<1>2. /\ t0.call = c /\ t0.att = attempt[c] /\ t0.in = o /\ t0.role # "reveal"
      /\ paired[c] => t0.role = "commit"
  BY DEF First
<1>3. o \in Coins
  BY DEF TypeOK
<1>4. PICK l : Goto(c, l) /\ UNCHANGED attempt /\ l \in {"sendReveal", "settle", "threw"}
               /\ (l = "sendReveal" => paired[c])
  BY DEF Accepted, Raise, Retries
<1>5. \A t \in OnNode : t.call \in Calls /\ t.call # c
  BY NothingSent DEF TypeOK, OnNode, Txs, Sending
<1>6. pc'[c] = l /\ \A d \in Calls \ {c} : pc'[d] = pc[d] /\ attempt'[d] = attempt[d]
  BY <1>4, OthersStay
<1>7. NodeHoldsThisAttempt'
  <2>1. ASSUME NEW t \in OnNode
        PROVE  /\ t.att = attempt'[t.call]
               /\ pc'[t.call] \in {"sendReveal", "settle", "fallback"} \cup Ended
               /\ pc'[t.call] = "sendReveal" => t.role = "commit"
    BY <1>5, <1>6 DEF NodeInv, NodeHoldsThisAttempt
  <2>2. /\ t0.att = attempt'[t0.call]
        /\ pc'[t0.call] \in {"sendReveal", "settle", "fallback"} \cup Ended
        /\ pc'[t0.call] = "sendReveal" => t0.role = "commit"
    BY <1>2, <1>4, <1>6 DEF Ended
  <2> HIDE DEF t0
  <2> QED
    BY <1>1, <2>1, <2>2 DEF NodeHoldsThisAttempt
<1>8. CarriersAreForReveals' /\ OneSpendPerCall'
  <2> HIDE DEF t0
  <2> QED
    BY <1>1, <1>2, <1>3, <1>5 DEF NodeInv, CarriersAreForReveals, OneSpendPerCall
<1> QED
  BY <1>7, <1>8 DEF NodeInv

\* A reveal joins its own commit.
LEMMA RevealAccepted ==
    ASSUME TypeOK, AttemptsAreCounted, NodeInv, NEW c \in Calls, pc[c] = "sendReveal",
           Accepted(c, Reveal(c), "settle")
    PROVE  NodeInv'
<1> DEFINE t0 == Reveal(c)
<1>1. OnNode' = OnNode \cup {t0}
  BY DEF Accepted, OnNode
<1>2. t0.call = c /\ t0.att = attempt[c] /\ t0.in = Carrier(c, attempt[c]) /\ t0.role = "reveal"
  BY DEF Reveal
<1>3. PICK l : Goto(c, l) /\ UNCHANGED attempt /\ l \in {"settle", "threw"}
  BY DEF Accepted, Raise, Retries
<1>4. \A t \in OnNode : t.call \in Calls /\ (t.call = c => t.role = "commit")
  BY DEF TypeOK, OnNode, Txs, NodeInv, NodeHoldsThisAttempt
<1>5. pc'[c] = l /\ \A d \in Calls \ {c} : pc'[d] = pc[d] /\ attempt'[d] = attempt[d]
  BY <1>3, OthersStay
<1>6. NodeHoldsThisAttempt'
  <2>1. ASSUME NEW t \in OnNode
        PROVE  /\ t.att = attempt'[t.call]
               /\ pc'[t.call] \in {"sendReveal", "settle", "fallback"} \cup Ended
               /\ pc'[t.call] = "sendReveal" => t.role = "commit"
    BY <1>3, <1>4, <1>5 DEF NodeInv, NodeHoldsThisAttempt, Ended
  <2>2. t0.att = attempt'[t0.call] /\ pc'[t0.call] \in {"settle"} \cup Ended
    BY <1>2, <1>3, <1>5 DEF Ended
  <2> HIDE DEF t0
  <2> QED
    BY <1>1, <2>1, <2>2 DEF NodeHoldsThisAttempt, Ended
<1>7. CarriersAreForReveals' /\ OneSpendPerCall'
  <2> HIDE DEF t0
  <2> QED
    BY <1>1, <1>2, <1>4 DEF NodeInv, CarriersAreForReveals, OneSpendPerCall
<1> QED
  BY <1>6, <1>7 DEF NodeInv

\* A reveal is refused as stale only when its commit is gone.
LEMMA RefusedRevealIsAlone ==
    ASSUME TypeOK, NodeInv, NEW c \in Calls, pc[c] = "sendReveal", ~Spendable(Reveal(c).in)
    PROVE  \A t \in OnNode : t.call # c
<1> SUFFICES ASSUME NEW t \in OnNode, t.call = c PROVE FALSE
  OBVIOUS
<1>1. t.role = "commit" /\ t.att = attempt[c]
  BY DEF NodeInv, NodeHoldsThisAttempt
<1>2. Reveal(c).in = <<"carrier", c, attempt[c]>>
  BY DEF Reveal, Carrier
<1>3. Created(<<"carrier", c, attempt[c]>>)
  BY <1>1 DEF Created
<1>4. PICK u \in OnNode : u.in = <<"carrier", c, attempt[c]>>
  BY <1>2, <1>3 DEF Spendable
<1>5. u.in \notin Coins
  BY <1>4 DEF Coins
<1>6. u.role = "reveal" /\ u.in = <<"carrier", u.call, u.att>>
  BY <1>5 DEF NodeInv, CarriersAreForReveals, Carrier
<1>7. u.call = c
  BY <1>4, <1>6
<1> QED
  BY <1>6, <1>7 DEF NodeInv, NodeHoldsThisAttempt

LEMMA StepNode ==
    ASSUME TypeOK, AttemptsAreCounted, NodeInv, NEW c \in Calls, Step(c)
    PROVE  NodeInv'
<1>q. ASSUME NEW l, Goto(c, l), UNCHANGED <<mempool, confirmed>>,
             UNCHANGED attempt \/ \E k : attempt' = [attempt EXCEPT ![c] = k],
             \/ pc[c] \in {"idle"} \cup Sending
             \/ UNCHANGED attempt /\ l \in Sent
      PROVE  NodeInv'
  <2>1. OnNode' = OnNode
    BY <1>q DEF OnNode
  <2>2. pc'[c] = l /\ \A d \in Calls \ {c} : pc'[d] = pc[d] /\ attempt'[d] = attempt[d]
    BY <1>q, OthersStay
  <2>3. \A t \in OnNode' : t.call = c => attempt'[c] = attempt[c] /\ pc'[c] \in Sent
    BY <1>q, <2>1, <2>2, NothingSent
  <2> QED
    BY <2>1, <2>2, <2>3, QuietStep
<1>r. ASSUME NEW stale \in BOOLEAN, Raise(c, stale), UNCHANGED <<mempool, confirmed>>,
             stale => \A t \in OnNode : t.call # c
      PROVE  NodeInv'
  BY <1>r, RaiseStep DEF OnNode
<1>1. CASE Start(c)
  BY <1>1, <1>q DEF Start, chain
<1>2. CASE TakeCache(c)
  BY <1>2, <1>q DEF TakeCache, chain, Sending
<1>3. CASE DropCache(c)
  BY <1>3, <1>q DEF DropCache, chain, locals, Sending
<1>4. CASE QuiesceEnds(c)
  <2>1. Goto(c, "attempt") /\ attempt' = [attempt EXCEPT ![c] = attempt[c] + 1] /\ pc[c] \in Sending
    BY <1>4 DEF QuiesceEnds, Sending
  <2> QED
    BY <1>4, <2>1, <1>q DEF QuiesceEnds, chain
<1>5. CASE Build(c)
  BY <1>5, <1>q DEF Build, chain, Sending
<1>6. CASE BuildReveal(c)
  BY <1>6, <1>q DEF BuildReveal, chain, locals, Sending
<1>7. CASE BuildFails(c)
  <2>1. PICK stale \in BOOLEAN : Raise(c, stale)
    BY <1>7 DEF BuildFails
  <2> QED
    BY <1>7, <2>1, <1>r, NothingSent DEF BuildFails, chain, Sending
<1>8. CASE StartSimple(c)
  BY <1>8, <1>q DEF StartSimple, chain
<1>9. CASE Pick(c)
  <2>1. UNCHANGED <<mempool, confirmed>> /\ pc[c] \in Sending
    BY <1>9 DEF Pick, chain, Sending
  <2>2. CASE Raise(c, FALSE)
    BY <2>1, <2>2, <1>r
  <2>3. CASE Goto(c, "send") /\ UNCHANGED attempt
    BY <2>1, <2>3, <1>q
  <2> QED
    BY <1>9, <2>2, <2>3 DEF Pick
<1>10. CASE Send(c)
  <2>1. PICK o \in input[c] : \/ Accepted(c, First(c, o), IF paired[c] THEN "sendReveal" ELSE "settle")
                              \/ Refused(c, First(c, o))
    BY <1>10 DEF Send
  <2>2. pc[c] = "send"
    BY <1>10 DEF Send
  <2>3. CASE Accepted(c, First(c, o), IF paired[c] THEN "sendReveal" ELSE "settle")
    BY <2>2, <2>3, FirstAccepted
  <2>4. CASE Refused(c, First(c, o))
    <3>1. PICK stale \in BOOLEAN : Raise(c, stale)
      BY <2>4 DEF Refused, Conflict
    <3>2. \A t \in OnNode : t.call # c
      BY <2>2, NothingSent DEF Sending
    <3> QED
      BY <2>4, <3>1, <3>2, <1>r DEF Refused, chain
  <2> QED
    BY <2>1, <2>3, <2>4
<1>11. CASE SendReveal(c)
  <2>1. pc[c] = "sendReveal"
    BY <1>11 DEF SendReveal
  <2>2. CASE Accepted(c, Reveal(c), "settle")
    BY <2>1, <2>2, RevealAccepted
  <2>3. CASE Refused(c, Reveal(c))
    <3>1. CASE Raise(c, FALSE)
      BY <2>3, <3>1, <1>r DEF Refused, chain
    <3>2. CASE ~Spendable(Reveal(c).in) /\ Raise(c, ~Conflict(Reveal(c).in))
      <4>1. \A t \in OnNode : t.call # c
        BY <2>1, <3>2, RefusedRevealIsAlone
      <4>2. PICK stale \in BOOLEAN : Raise(c, stale)
        BY <3>2 DEF Conflict
      <4> QED
        BY <2>3, <4>1, <4>2, <1>r DEF Refused, chain
    <3> QED
      BY <2>3, <3>1, <3>2 DEF Refused
  <2> QED
    BY <1>11, <2>2, <2>3 DEF SendReveal
<1>12. CASE SettleVerified(c)
  BY <1>12, <1>q DEF SettleVerified, chain, Sent, Ended
<1>13. CASE SettleTimesOut(c)
  BY <1>13, <1>q DEF SettleTimesOut, chain, Sent, Ended
<1>14. CASE Fallback(c)
  BY <1>14, <1>q DEF Fallback, chain, locals, Sent, Ended
<1> QED
  BY <1>1, <1>2, <1>3, <1>4, <1>5, <1>6, <1>7, <1>8, <1>9, <1>10, <1>11, <1>12, <1>13, <1>14 DEF Step

LEMMA NextNode ==
    ASSUME TypeOK, AttemptsAreCounted, NodeInv, [Next]_vars
    PROVE  NodeInv'
<1>1. CASE \E c \in Calls : Step(c)
  BY <1>1, StepNode
<1>2. ASSUME NEW c \in Calls, Abandon(c) PROVE NodeInv'
  BY <1>2, StillStep DEF Abandon, locals, chain, OnNode
<1>3. CASE MineBlock
  BY <1>3, StillStep DEF MineBlock, locals, OnNode
<1>4. CASE TrackerIndexes
  BY <1>4, StillStep DEF TrackerIndexes, locals, OnNode
<1>5. CASE Evict
  BY <1>5, StillStep DEF Evict, locals, OnNode
<1>6. CASE UNCHANGED vars
  BY <1>6, StillStep DEF vars, locals, chain, OnNode
<1> QED
  BY <1>1, <1>2, <1>3, <1>4, <1>5, <1>6 DEF Next, Finished

LEMMA InitInv == Init => IInv
<1>1. Init => NodeInv
  BY DEF Init, NodeInv, NodeHoldsThisAttempt, CarriersAreForReveals, OneSpendPerCall, OnNode
<1> QED
  BY <1>1, InitTypes DEF IInv

LEMMA NextInv == IInv /\ [Next]_vars => IInv'
  BY NextTypes, NextNode DEF IInv

(* However often a call retries and whatever the node drops, the node never *)
(* holds two first transactions, or two actions, of one call                *)
(* (_isStaleUtxoError, createAndSendTransaction).                           *)
THEOREM CallsSpendOnce == Spec => []OneSpendPerCall
<1>1. IInv => OneSpendPerCall
  BY DEF IInv, NodeInv
<1> QED
  BY InitInv, NextInv, <1>1, PTL DEF Spec

-----------------------------------------------------------------------------
(* The call as one action.                                                 *)

PhaseOf(l) == CASE l \in {"settle", "fallback"} -> "heard" [] l \in Ended -> l [] OTHER -> "open"
Phases   == [c \in Calls |-> CASE pc[c] \in {"settle", "fallback"} -> "heard"
                               [] pc[c] \in Ended -> pc[c]
                               [] OTHER -> "open"]
Standing == {t.call : t \in {u \in OnNode : u.role # "commit"}}

LEMMA PhaseIs == \A c \in Calls : Phases[c] = PhaseOf(pc[c])
  BY DEF Phases, PhaseOf

\* What EXCEPT means for any function.
LEMMA ExceptIs ==
    ASSUME NEW S, NEW f, f = [d \in S |-> f[d]], NEW c \in S, NEW v
    PROVE  [f EXCEPT ![c] = v] = [d \in S |-> IF d = c THEN v ELSE f[d]]
  OBVIOUS

\* A move of one call, seen from above.
LEMMA PhaseMoves ==
    ASSUME TypeOK, NEW c \in Calls, NEW l \in Labels, Goto(c, l)
    PROVE  Phases' = [Phases EXCEPT ![c] = PhaseOf(l)]
<1>1. pc' = [pc EXCEPT ![c] = l] /\ pc \in [Calls -> Labels]
  BY DEF Goto, TypeOK
<1>2. \A d \in Calls : pc'[d] = IF d = c THEN l ELSE pc[d]
  BY <1>1
<1>3. Phases' = [d \in Calls |-> IF d = c THEN PhaseOf(l) ELSE Phases[d]]
  BY <1>2 DEF Phases, PhaseOf
<1>4. Phases = [d \in Calls |-> Phases[d]]
  BY DEF Phases
<1>5. [Phases EXCEPT ![c] = PhaseOf(l)] = [d \in Calls |-> IF d = c THEN PhaseOf(l) ELSE Phases[d]]
  BY <1>4, ExceptIs
<1> QED
  BY <1>3, <1>5

\* The node the same, and the call in the same phase: nothing happened.
LEMMA SamePhase ==
    ASSUME TypeOK, NEW c \in Calls, NEW l \in Labels, Goto(c, l), PhaseOf(l) = PhaseOf(pc[c])
    PROVE  Phases' = Phases
<1>1. Phases' = [Phases EXCEPT ![c] = PhaseOf(pc[c])]
  BY PhaseMoves
<1>2. Phases = [d \in Calls |-> Phases[d]]
  BY DEF Phases
<1>3. Phases[c] = PhaseOf(pc[c])
  BY PhaseIs
<1>4. [Phases EXCEPT ![c] = Phases[c]] = [d \in Calls |-> IF d = c THEN Phases[c] ELSE Phases[d]]
  BY <1>2, ExceptIs
<1>5. [d \in Calls |-> IF d = c THEN Phases[c] ELSE Phases[d]] = [d \in Calls |-> Phases[d]]
  OBVIOUS
<1> QED
  BY <1>1, <1>2, <1>3, <1>4, <1>5

LEMMA LabelPhases ==
    /\ \A l \in {"idle", "sendReveal"} \cup Sending : PhaseOf(l) = "open" /\ l \in Labels
    /\ \A l \in {"settle", "fallback"} : PhaseOf(l) = "heard" /\ l \in Labels
    /\ \A l \in Ended : PhaseOf(l) = l /\ l \in Labels
    /\ {"returned", "threw"} \subseteq Ended
  BY DEF PhaseOf, Sending, Ended, Labels

\* An error before the call is heard: a retry is nothing, an end is a throw.
LEMMA RaiseRefines ==
    ASSUME TypeOK, NEW c \in Calls, NEW stale, Raise(c, stale), PhaseOf(pc[c]) = "open"
    PROVE  Phases' = Phases \/ Phases' = [Phases EXCEPT ![c] = "threw"]
<1>1. PICK l \in {"trap", "threw"} : Goto(c, l)
  BY DEF Raise
<1>2. CASE l = "trap"
  BY <1>1, <1>2, SamePhase, LabelPhases DEF Sending
<1>3. CASE l = "threw"
  BY <1>1, <1>3, PhaseMoves, LabelPhases
<1> QED
  BY <1>2, <1>3

\* An error that is never stale ends the call.
LEMMA HardErrorThrows ==
    ASSUME TypeOK, NEW c \in Calls, Raise(c, FALSE)
    PROVE  Phases' = [Phases EXCEPT ![c] = "threw"]
<1>1. Goto(c, "threw")
  BY DEF Raise, Retries
<1> QED
  BY <1>1, PhaseMoves, LabelPhases

LEMMA StandingGrows ==
    ASSUME NEW t, mempool' = mempool \cup {t}, UNCHANGED confirmed
    PROVE  Standing' = IF t.role = "commit" THEN Standing ELSE Standing \cup {t.call}
<1>1. OnNode' = OnNode \cup {t}
  BY DEF OnNode
<1>2. CASE t.role = "commit"
  BY <1>1, <1>2 DEF Standing
<1>3. CASE t.role # "commit"
  <2>1. {u \in OnNode' : u.role # "commit"} = {u \in OnNode : u.role # "commit"} \cup {t}
    BY <1>1, <1>3
  <2> QED
    BY <1>3, <2>1 DEF Standing
<1> QED
  BY <1>2, <1>3

LEMMA StandingSame == UNCHANGED <<mempool, confirmed>> => Standing' = Standing
  BY DEF Standing, OnNode

\* Accepting what is not a commit is accepting the action.
LEMMA AcceptedRefines ==
    ASSUME TypeOK, NEW c \in Calls, NEW t, NEW next \in {"sendReveal", "settle"},
           Accepted(c, t, next), t.call = c, PhaseOf(pc[c]) = "open",
           t.role = "commit" <=> next = "sendReveal"
    PROVE  \/ Phases' = Phases /\ Standing' = Standing
           \/ Phases' = [Phases EXCEPT ![c] = "threw"] /\ Standing' = Standing
           \/ /\ Phases' \in {[Phases EXCEPT ![c] = "heard"], [Phases EXCEPT ![c] = "threw"]}
              /\ Standing' = Standing \cup {c}
<1>1. Standing' = IF t.role = "commit" THEN Standing ELSE Standing \cup {c}
  BY StandingGrows DEF Accepted
<1>2. CASE Raise(c, FALSE)
  BY <1>1, <1>2, HardErrorThrows
<1>3. CASE Goto(c, next) /\ next = "sendReveal"
  BY <1>1, <1>3, SamePhase, LabelPhases
<1>4. CASE Goto(c, next) /\ next = "settle"
  BY <1>1, <1>4, PhaseMoves, LabelPhases
<1> QED
  BY <1>2, <1>3, <1>4 DEF Accepted

LEMMA ErrorRefines ==
    ASSUME TypeOK, NEW c \in Calls, NEW stale, Raise(c, stale), PhaseOf(pc[c]) = "open",
           UNCHANGED <<mempool, confirmed>>
    PROVE  [Action!Next]_<<Phases, Standing>>
<1>1. Standing' = Standing
  BY StandingSame
<1>2. Phases[c] = "open"
  BY PhaseIs
<1>3. CASE Phases' = Phases
  BY <1>1, <1>3
<1>4. CASE Phases' = [Phases EXCEPT ![c] = "threw"]
  <2>1. Action!Throw(c)
    BY <1>1, <1>2, <1>4 DEF Action!Throw, Phases, Standing
  <2> QED
    BY <2>1 DEF Action!Next
<1> QED
  BY <1>3, <1>4, RaiseRefines

LEMMA StepRefines ==
    ASSUME IInv, NEW c \in Calls, Step(c)
    PROVE  [Action!Next]_<<Phases, Standing>>
<1> USE LabelPhases DEF IInv
<1>t. TypeOK
  OBVIOUS
<1>p. Phases[c] = PhaseOf(pc[c])
  BY PhaseIs
<1>q. ASSUME NEW l \in Labels, Goto(c, l), UNCHANGED <<mempool, confirmed>>, PhaseOf(l) = PhaseOf(pc[c])
      PROVE  [Action!Next]_<<Phases, Standing>>
  BY <1>q, <1>t, SamePhase, StandingSame
<1>r. ASSUME Goto(c, "returned"), UNCHANGED <<mempool, confirmed>>, PhaseOf(pc[c]) = "heard"
      PROVE  [Action!Next]_<<Phases, Standing>>
  <2>1. Phases' = [Phases EXCEPT ![c] = "returned"]
    BY <1>r, <1>t, PhaseMoves
  <2>2. Action!Return(c)
    BY <1>p, <1>r, <2>1, StandingSame DEF Action!Return, Phases, Standing
  <2> QED
    BY <2>2 DEF Action!Next
<1>s. ASSUME Goto(c, "threw"), UNCHANGED <<mempool, confirmed>>, PhaseOf(pc[c]) = "open"
      PROVE  [Action!Next]_<<Phases, Standing>>
  <2>1. Phases' = [Phases EXCEPT ![c] = "threw"]
    BY <1>s, <1>t, PhaseMoves
  <2>2. Action!Throw(c)
    BY <1>p, <1>s, <2>1, StandingSame DEF Action!Throw, Phases, Standing
  <2> QED
    BY <2>2 DEF Action!Next
<1>u. ASSUME NEW t, NEW next \in {"sendReveal", "settle"}, Accepted(c, t, next), t.call = c,
             PhaseOf(pc[c]) = "open", t.role = "commit" <=> next = "sendReveal"
      PROVE  [Action!Next]_<<Phases, Standing>>
  <2>1. CASE Phases' = Phases /\ Standing' = Standing
    BY <2>1
  <2>2. CASE Phases' = [Phases EXCEPT ![c] = "threw"] /\ Standing' = Standing
    <3>1. Action!Throw(c)
      BY <1>p, <1>u, <2>2 DEF Action!Throw, Phases, Standing
    <3> QED
      BY <3>1 DEF Action!Next
  <2>3. CASE Phases' = [Phases EXCEPT ![c] = "heard"] /\ Standing' = Standing \cup {c}
    <3>1. Action!Accept(c)
      BY <1>p, <1>u, <2>3 DEF Action!Accept, Phases, Standing
    <3> QED
      BY <3>1 DEF Action!Next
  <2>4. CASE Phases' = [Phases EXCEPT ![c] = "threw"] /\ Standing' = Standing \cup {c}
    <3>1. Action!AcceptUnheard(c)
      BY <1>p, <1>u, <2>4 DEF Action!AcceptUnheard, Phases, Standing
    <3> QED
      BY <3>1 DEF Action!Next
  <2> QED
    BY <1>t, <1>u, <2>1, <2>2, <2>3, <2>4, AcceptedRefines
<1>1. CASE Start(c)
  BY <1>1, <1>q, <1>s DEF Start, chain, Sending
<1>2. CASE TakeCache(c)
  BY <1>2, <1>q DEF TakeCache, chain, Sending
<1>3. CASE DropCache(c)
  BY <1>3, <1>q DEF DropCache, chain, Sending
<1>4. CASE QuiesceEnds(c)
  BY <1>4, <1>q DEF QuiesceEnds, chain, Sending
<1>5. CASE Build(c)
  BY <1>5, <1>q DEF Build, chain, Sending
<1>6. CASE BuildReveal(c)
  BY <1>6, <1>q DEF BuildReveal, chain, Sending
<1>7. CASE BuildFails(c)
  BY <1>7, <1>t, ErrorRefines DEF BuildFails, chain, Sending
<1>8. CASE StartSimple(c)
  BY <1>8, <1>q DEF StartSimple, chain, Sending
<1>9. CASE Pick(c)
  BY <1>9, <1>q, <1>t, ErrorRefines DEF Pick, chain, Sending
<1>10. CASE Send(c)
  <2>1. PICK o \in input[c] : \/ Accepted(c, First(c, o), IF paired[c] THEN "sendReveal" ELSE "settle")
                              \/ Refused(c, First(c, o))
    BY <1>10 DEF Send
  <2>2. PhaseOf(pc[c]) = "open"
    BY <1>10 DEF Send, Sending
  <2>3. CASE Refused(c, First(c, o))
    BY <2>2, <2>3, <1>t, ErrorRefines DEF Refused, chain
  <2>4. CASE Accepted(c, First(c, o), IF paired[c] THEN "sendReveal" ELSE "settle")
    <3>1. First(c, o).call = c /\ First(c, o).role = (IF paired[c] THEN "commit" ELSE "whole")
      BY DEF First
    <3> QED
      BY <2>2, <2>4, <3>1, <1>u
  <2> QED
    BY <2>1, <2>3, <2>4
<1>11. CASE SendReveal(c)
  <2>1. PhaseOf(pc[c]) = "open"
    BY <1>11 DEF SendReveal
  <2>2. CASE Refused(c, Reveal(c))
    BY <2>1, <2>2, <1>t, ErrorRefines DEF Refused, chain
  <2>3. CASE Accepted(c, Reveal(c), "settle")
    <3>1. Reveal(c).call = c /\ Reveal(c).role = "reveal"
      BY DEF Reveal
    <3> QED
      BY <2>1, <2>3, <3>1, <1>u
  <2> QED
    BY <1>11, <2>2, <2>3 DEF SendReveal
<1>12. CASE SettleVerified(c)
  BY <1>12, <1>r DEF SettleVerified, chain
<1>13. CASE SettleTimesOut(c)
  BY <1>13, <1>q, <1>r DEF SettleTimesOut, chain
<1>14. CASE Fallback(c)
  BY <1>14, <1>r DEF Fallback, chain
<1> QED
  BY <1>1, <1>2, <1>3, <1>4, <1>5, <1>6, <1>7, <1>8, <1>9, <1>10, <1>11, <1>12, <1>13, <1>14 DEF Step

LEMMA NextRefines == IInv /\ [Next]_vars => [Action!Next]_<<Phases, Standing>>
<1> SUFFICES ASSUME IInv, [Next]_vars PROVE [Action!Next]_<<Phases, Standing>>
  OBVIOUS
<1>1. CASE \E c \in Calls : Step(c)
  BY <1>1, StepRefines
<1>2. CASE UNCHANGED <<pc, mempool, confirmed>>
  BY <1>2 DEF Phases, Standing, OnNode
<1>3. CASE MineBlock
  <2>1. Standing' = Standing /\ Phases' = Phases
    BY <1>3 DEF MineBlock, Standing, OnNode, Phases
  <2> QED
    BY <2>1
<1>4. CASE Evict
  <2>1. OnNode' \subseteq OnNode /\ Phases' = Phases
    BY <1>4 DEF Evict, OnNode, Phases
  <2>2. Standing' = Standing \ (Standing \ Standing')
    BY <2>1 DEF Standing
  <2>3. Action!Forget
    BY <2>1, <2>2 DEF Action!Forget, Phases, Standing
  <2> QED
    BY <2>3 DEF Action!Next
<1> QED
  BY <1>1, <1>2, <1>3, <1>4 DEF Next, Abandon, TrackerIndexes, Finished, vars, locals, chain

(* A call is one action: over all its retries, lost answers and dropped      *)
(* transactions the node accepts it at most once, a call that returns was    *)
(* told so, and a throw leaves it open (createAndSendTransaction,            *)
(* _doCreateAndSendTransaction, createSimpleTransaction).                    *)
THEOREM CallsAreOneAction == Spec => ImplementsOneAction
<1>1. Init => Action!Init
  BY DEF Init, Action!Init, OnNode, Ended
<1>2. IInv /\ [Next]_vars => [Action!Next]_(Action!vars)
  BY NextRefines DEF Action!vars, Phases, Standing
<1> QED
  BY <1>1, <1>2, InitInv, NextInv, PTL DEF Spec, ImplementsOneAction, Action!Spec

-----------------------------------------------------------------------------
(* Whose coins a call spends.                                              *)

\* The saved list is the coins of the address it is saved for.
OwnInv == OwnCoins /\ \A o \in cache.coins : Owner(o) = cache.address

LEMMA ViewsAreOwn ==
    ASSUME NEW x \in Addresses
    PROVE  \A o \in TrackerConfirmed(x) \cup TrackerAll(x) : Owner(o) = x
<1>1. \A o \in Fund(x) : Owner(o) = x
  BY DEF Fund, Owner
<1>2. \A t : Addr[t.call] = x => Owner(Change(t.call, t.att)) = x
  BY DEF Change, Owner
<1> QED
  BY <1>1, <1>2 DEF TrackerConfirmed, TrackerAll

\* A call whose coins go, or come from its own address.
LEMMA OwnMove ==
    ASSUME OwnInv, NEW c \in Calls,
           \A d \in Calls \ {c} : list'[d] = list[d] /\ input'[d] = input[d],
           \A o \in list'[c] \cup input'[c] : Owner(o) = Addr[c],
           \A o \in cache'.coins : Owner(o) = cache'.address
    PROVE  OwnInv'
BY DEF OwnInv, OwnCoins

LEMMA OwnStep == ASSUME TypeOK, OwnInv, NEW c \in Calls, Step(c) PROVE OwnInv'
<1>a. Addr[c] \in Addresses
  OBVIOUS
<1>s. \A o \in list[c] \cup input[c] : Owner(o) = Addr[c]
  BY DEF OwnInv, OwnCoins
<1>t. list \in [Calls -> SUBSET Coins] /\ input \in [Calls -> SUBSET Coins]
  BY DEF TypeOK
<1>n. \A o \in NoCache.coins : Owner(o) = NoCache.address
  BY DEF NoCache
<1>v. \A ok \in BOOLEAN : \A o \in Save(Addr[c], ok).coins : Owner(o) = Save(Addr[c], ok).address
  BY <1>a, ViewsAreOwn DEF Save
<1>k. \A o \in cache.coins : Owner(o) = cache.address
  BY DEF OwnInv
<1>f. ASSUME Forgotten(c), \A o \in cache'.coins : Owner(o) = cache'.address PROVE OwnInv'
  <2>1. \A d \in Calls \ {c} : list'[d] = list[d] /\ input'[d] = input[d]
    BY <1>f, <1>t DEF Forgotten
  <2>2. list'[c] = {} /\ input'[c] = {}
    BY <1>f, <1>t DEF Forgotten
  <2> QED
    BY <1>f, <2>1, <2>2, OwnMove
<1>q. ASSUME UNCHANGED <<list, input>>, \A o \in cache'.coins : Owner(o) = cache'.address PROVE OwnInv'
  BY <1>q DEF OwnInv, OwnCoins
<1>r. ASSUME NEW stale, Raise(c, stale), cache' = cache PROVE OwnInv'
  BY <1>r, <1>f, <1>k DEF Raise
<1>1. CASE Start(c) \/ DropCache(c) \/ QuiesceEnds(c) \/ BuildReveal(c) \/ StartSimple(c) \/ Fallback(c)
  <2>1. UNCHANGED <<list, input>>
    BY <1>1 DEF Start, DropCache, QuiesceEnds, BuildReveal, StartSimple, Fallback, locals
  <2>2. cache' \in {cache, NoCache, Save(Addr[c], FALSE)}
    BY <1>1 DEF Start, DropCache, QuiesceEnds, BuildReveal, StartSimple, Fallback, OwnCacheDropped
  <2> QED
    BY <1>q, <1>n, <1>v, <1>k, <2>1, <2>2
<1>2. CASE TakeCache(c)
  <2>1. \A o \in Cached(c) : Owner(o) = Addr[c]
    BY <1>k DEF Cached
  <2>2. list' = [list EXCEPT ![c] = Cached(c)] /\ input' = input /\ cache' = NoCache
    BY <1>2 DEF TakeCache
  <2>3. \A d \in Calls \ {c} : list'[d] = list[d]
    BY <1>t, <2>2
  <2>4. list'[c] = Cached(c)
    BY <1>t, <2>2
  <2> QED
    BY <1>s, <1>n, <2>1, <2>2, <2>3, <2>4, OwnMove
<1>3. CASE Build(c)
  <2>1. PICK o \in (IF list[c] # {} THEN list[c] ELSE TrackerConfirmed(Addr[c])) :
          input' = [input EXCEPT ![c] = {o}]
    BY <1>3 DEF Build
  <2>2. Owner(o) = Addr[c]
    BY <1>a, <1>s, <2>1, ViewsAreOwn
  <2>3. list' = [list EXCEPT ![c] = {}] /\ cache' = cache
    BY <1>3 DEF Build
  <2>4. \A d \in Calls \ {c} : list'[d] = list[d] /\ input'[d] = input[d]
    BY <1>t, <2>1, <2>3
  <2>5. list'[c] = {} /\ input'[c] = {o}
    BY <1>t, <2>1, <2>3
  <2> QED
    BY <1>k, <2>2, <2>3, <2>4, <2>5, OwnMove
<1>4. CASE BuildFails(c)
  BY <1>4, <1>r DEF BuildFails
<1>5. CASE Pick(c)
  <2>1. CASE \E o \in TrackerAll(Addr[c]) : input' = [input EXCEPT ![c] = {o}] /\ UNCHANGED <<list, cache>>
    <3>1. PICK o \in TrackerAll(Addr[c]) : input' = [input EXCEPT ![c] = {o}] /\ UNCHANGED <<list, cache>>
      BY <2>1
    <3>2. Owner(o) = Addr[c]
      BY <1>a, <3>1, ViewsAreOwn
    <3>3. \A d \in Calls \ {c} : list'[d] = list[d] /\ input'[d] = input[d]
      BY <1>t, <3>1
    <3>4. list'[c] = list[c] /\ input'[c] = {o}
      BY <1>t, <3>1
    <3> QED
      BY <1>s, <1>k, <3>1, <3>2, <3>3, <3>4, OwnMove
  <2> QED
    BY <1>5, <1>r, <2>1 DEF Pick
<1>6. CASE Send(c) \/ SendReveal(c)
  <2>1. cache' = cache
    BY <1>6 DEF Send, SendReveal
  <2>2. \/ \E stale : Raise(c, stale)
        \/ input' = [input EXCEPT ![c] = {}] /\ UNCHANGED list
    BY <1>6 DEF Send, SendReveal, Accepted, Refused
  <2>3. CASE input' = [input EXCEPT ![c] = {}] /\ UNCHANGED list
    <3>1. \A d \in Calls \ {c} : list'[d] = list[d] /\ input'[d] = input[d]
      BY <1>t, <2>3
    <3>2. list'[c] = list[c] /\ input'[c] = {}
      BY <1>t, <2>3
    <3> QED
      BY <1>s, <1>k, <2>1, <3>1, <3>2, OwnMove
  <2> QED
    BY <1>r, <2>1, <2>2, <2>3
<1>7. CASE SettleVerified(c) \/ SettleTimesOut(c)
  BY <1>7, <1>f, <1>v, <1>k DEF SettleVerified, SettleTimesOut
<1> QED
  BY <1>1, <1>2, <1>3, <1>4, <1>5, <1>6, <1>7 DEF Step

LEMMA OwnNext == TypeOK /\ OwnInv /\ [Next]_vars => OwnInv'
<1> SUFFICES ASSUME TypeOK, OwnInv, [Next]_vars PROVE OwnInv'
  OBVIOUS
<1>1. CASE UNCHANGED <<list, input, cache>>
  BY <1>1 DEF OwnInv, OwnCoins
<1> QED
  BY <1>1, OwnStep DEF Next, Abandon, MineBlock, TrackerIndexes, Evict, Finished, vars, locals

(* A call only ever builds with coins of its own address, though abandoned   *)
(* calls and their successors take and save the one shared list             *)
(* (transactionState, createAndSendTransaction).                            *)
THEOREM CoinsAreOwn == Spec => []OwnCoins
<1>1. Init => OwnInv
  BY DEF Init, OwnInv, OwnCoins, NoCache
<1>2. TypeOK /\ AttemptsAreCounted /\ [Next]_vars => (TypeOK /\ AttemptsAreCounted)'
  BY NextTypes
<1>3. OwnInv => OwnCoins
  BY DEF OwnInv
<1> QED
  BY <1>1, <1>2, <1>3, InitTypes, OwnNext, PTL DEF Spec

-----------------------------------------------------------------------------
(* The order in which the calls of an address reach the node, and the list *)
(* that is saved from it.                                                  *)

\* No call for this address goes on after its test.
Kept(x) == \A c \in abandoned : Addr[c] # x

\* A call starts when those before it have ended, or run abandoned.
SerialInv ==
    \A d, e \in Calls : (d < e /\ d \notin abandoned /\ pc[e] # "idle") => pc[d] \in Ended

\* What a call sends first spends a coin of its own address.
SpendsOwn == \A t \in OnNode : t.role # "reveal" => Owner(t.in) = Addr[t.call]

\* The calls for an address reach the node one after the other, and are mined
\* and indexed in that order.
OrderInv ==
    \A t, u \in OnNode :
        (t.call < u.call /\ Addr[t.call] = Addr[u.call] /\ Kept(Addr[u.call])) =>
            (u \in confirmed => t \in confirmed) /\ (u \in seen => t \in seen)

\* A coin that stays the node's to spend: created for good, and spent by nothing.
Lasting(o) ==
    /\ \/ o[1] = "fund"
       \/ o[1] = "change" /\ \E t \in confirmed : t.call = o[2] /\ t.att = o[3] /\ t.role # "reveal"
    /\ \A t \in OnNode : t.in # o

\* While a verified list is there, no call for its address is past taking it.
ListInv ==
    (cache.verified /\ Kept(cache.address)) =>
        /\ \A o \in cache.coins : Lasting(o)
        /\ \A c \in Calls : Addr[c] = cache.address => pc[c] \in {"idle", "attempt"} \cup Ended

SpendableInv == SerialInv /\ SpendsOwn /\ OrderInv /\ ListInv

LEMMA StepDoes ==
    ASSUME TypeOK, NEW c \in Calls, Step(c)
    PROVE  /\ pc[c] \notin Ended /\ pc'[c] # "idle" /\ \A d \in Calls \ {c} : pc'[d] = pc[d]
           /\ pc[c] = "idle" => \A d \in Calls : d < c => pc[d] \in Ended \/ d \in abandoned
           /\ UNCHANGED <<confirmed, seen, abandoned>>
<1>1. /\ UNCHANGED <<confirmed, seen, abandoned>> /\ pc[c] \notin Ended
      /\ pc[c] = "idle" => \A d \in Calls : d < c => pc[d] \in Ended \/ d \in abandoned
  BY DEF Step, Start, TakeCache, DropCache, QuiesceEnds, Build, BuildReveal, BuildFails, StartSimple,
         Pick, Send, SendReveal, SettleVerified, SettleTimesOut, Fallback, Accepted, Refused,
         chain, Ended
<1>2. \E l : Goto(c, l) /\ l # "idle"
  <2>1. ASSUME NEW stale, Raise(c, stale) PROVE \E l : Goto(c, l) /\ l # "idle"
    BY <2>1 DEF Raise
  <2>2. CASE Send(c) \/ SendReveal(c)
    <3>1. ASSUME NEW t, NEW next, next # "idle", Accepted(c, t, next)
          PROVE  \E l : Goto(c, l) /\ l # "idle"
      <4>1. Goto(c, next) \/ Raise(c, FALSE)
        BY <3>1, Zenon DEF Accepted
      <4> QED
        <5>1. CASE Goto(c, next)
          BY <3>1, <5>1
        <5>2. CASE Raise(c, FALSE)
          BY <2>1, <5>2
        <5> QED
          BY <4>1, <5>1, <5>2
    <3>2. ASSUME NEW t, Refused(c, t) PROVE \E l : Goto(c, l) /\ l # "idle"
      BY <2>1, <3>2 DEF Refused
    <3>3. (IF paired[c] THEN "sendReveal" ELSE "settle") # "idle" /\ "settle" # "idle"
      OBVIOUS
    <3> QED
      BY <2>2, <3>1, <3>2, <3>3 DEF Send, SendReveal
  <2>3. CASE BuildFails(c) \/ Pick(c)
    <3>1. (\E stale : Raise(c, stale)) \/ Goto(c, "send")
      BY <2>3, Zenon DEF BuildFails, Pick
    <3> QED
      BY <2>1, <3>1
  <2>4. CASE Start(c) \/ TakeCache(c) \/ DropCache(c) \/ QuiesceEnds(c) \/ Build(c)
    BY <2>4 DEF Start, TakeCache, DropCache, QuiesceEnds, Build
  <2>5. CASE BuildReveal(c) \/ StartSimple(c) \/ SettleVerified(c) \/ SettleTimesOut(c) \/ Fallback(c)
    <3>1. \/ Goto(c, "send") \/ Goto(c, "pick") \/ Goto(c, "returned")
          \/ Goto(c, IF cache.address = None THEN "fallback" ELSE "returned")
      BY <2>5, Zenon DEF BuildReveal, StartSimple, SettleVerified, SettleTimesOut, Fallback
    <3> QED
      BY <3>1
  <2> QED
    BY <2>2, <2>3, <2>4, <2>5 DEF Step
<1>3. pc'[c] # "idle" /\ \A d \in Calls \ {c} : pc'[d] = pc[d]
  BY <1>2 DEF TypeOK, Goto
<1> QED
  BY <1>1, <1>3

\* What a call adds to the node, if anything: a coin's first spender, or a reveal.
Sends(c, t) ==
    /\ pc[c] \in {"send", "sendReveal"} /\ t.call = c
    /\ mempool' = mempool \cup {t} /\ Spendable(t.in)
    /\ IF t.role = "reveal" THEN t.in[1] = "carrier" ELSE t.in \in input[c]

LEMMA StepSends ==
    ASSUME NEW c \in Calls, Step(c)
    PROVE  mempool' = mempool \/ \E t : Sends(c, t)
<1>1. CASE Send(c)
  <2>1. PICK o \in input[c] : \/ Accepted(c, First(c, o), IF paired[c] THEN "sendReveal" ELSE "settle")
                              \/ Refused(c, First(c, o))
    BY <1>1 DEF Send
  <2>2. First(c, o).call = c /\ First(c, o).in = o /\ First(c, o).role # "reveal" /\ pc[c] = "send"
    BY <1>1 DEF First, Send
  <2>3. CASE Refused(c, First(c, o))
    BY <2>3 DEF Refused, chain
  <2>4. CASE Accepted(c, First(c, o), IF paired[c] THEN "sendReveal" ELSE "settle")
    <3>1. mempool' = mempool \cup {First(c, o)} /\ Spendable(First(c, o).in)
      BY <2>4 DEF Accepted
    <3> QED
      BY <2>1, <2>2, <3>1 DEF Sends
  <2> QED
    BY <2>1, <2>3, <2>4
<1>2. CASE SendReveal(c)
  <2>1. /\ Reveal(c).call = c /\ Reveal(c).in[1] = "carrier" /\ Reveal(c).role = "reveal"
        /\ pc[c] = "sendReveal"
    BY <1>2 DEF Reveal, Carrier, SendReveal
  <2>2. CASE Refused(c, Reveal(c))
    BY <2>2 DEF Refused, chain
  <2>3. CASE Accepted(c, Reveal(c), "settle")
    <3>1. mempool' = mempool \cup {Reveal(c)} /\ Spendable(Reveal(c).in)
      BY <2>3 DEF Accepted
    <3> QED
      BY <2>1, <3>1 DEF Sends
  <2> QED
    BY <1>2, <2>2, <2>3 DEF SendReveal
<1>3. CASE ~Send(c) /\ ~SendReveal(c)
  BY <1>3 DEF Step, Start, TakeCache, DropCache, QuiesceEnds, Build, BuildReveal, BuildFails, StartSimple,
              Pick, SettleVerified, SettleTimesOut, Fallback, chain
<1> QED
  BY <1>1, <1>2, <1>3

\* A verified list after a step was saved by it, or was there, untaken.
LEMMA StepCache ==
    ASSUME TypeOK, NEW c \in Calls, Step(c), cache'.verified
    PROVE  \/ SettleVerified(c)
           \/ /\ cache' = cache
              /\ Addr[c] = cache.address /\ pc[c] \in {"idle", "attempt"} =>
                    pc'[c] \in {"attempt"} \cup Ended
<1>0. ~NoCache.verified /\ ~Save(Addr[c], FALSE).verified
  BY DEF NoCache, Save
<1>1. CASE TakeCache(c) \/ DropCache(c)
  BY <1>0, <1>1 DEF TakeCache, DropCache
<1>2. CASE Start(c)
  <2>1. cache' = cache /\ (Goto(c, "attempt") \/ Goto(c, "threw"))
    BY <1>2 DEF Start
  <2> QED
    BY <2>1 DEF Goto, TypeOK, Ended
<1>3. CASE StartSimple(c)
  BY <1>0, <1>3 DEF StartSimple, OwnCacheDropped
<1>4. CASE Fallback(c)
  BY <1>0, <1>4 DEF Fallback
<1>5. CASE QuiesceEnds(c) \/ Build(c) \/ BuildReveal(c) \/ BuildFails(c) \/ Pick(c) \/ Send(c)
           \/ SendReveal(c) \/ SettleTimesOut(c)
  BY <1>5 DEF QuiesceEnds, Build, BuildReveal, BuildFails, Pick, Send, SendReveal, SettleTimesOut
<1> QED
  BY <1>1, <1>2, <1>3, <1>4, <1>5 DEF Step

\* Calls follow one another, unless abandoned.
LEMMA SerialStep == ASSUME TypeOK, SerialInv, NEW c \in Calls, Step(c) PROVE SerialInv'
<1> SUFFICES ASSUME NEW d \in Calls, NEW e \in Calls, d < e, d \notin abandoned, pc'[e] # "idle"
             PROVE  pc'[d] \in Ended
  BY StepDoes DEF SerialInv
<1>1. pc[d] \in Ended
  BY StepDoes DEF SerialInv
<1> QED
  BY <1>1, StepDoes

\* Of an address whose calls all are awaited, the one that is under way is alone.
LEMMA UnderWayAlone ==
    ASSUME SerialInv, NEW c \in Calls, Kept(Addr[c]), pc[c] \notin {"idle"} \cup Ended,
           NEW d \in Calls, Addr[d] = Addr[c], d # c
    PROVE  IF d < c THEN pc[d] \in Ended ELSE pc[d] = "idle"
<1>1. c \notin abandoned /\ d \notin abandoned
  BY DEF Kept
<1>2. d \in Nat /\ c \in Nat
  OBVIOUS
<1> QED
  BY <1>1, <1>2 DEF SerialInv

\* The node at most forgets, and keeps what it mined.
LEMMA OrderStays ==
    ASSUME TypeOK, OrderInv, OnNode' \subseteq OnNode, abandoned \subseteq abandoned',
           \/ UNCHANGED <<confirmed, seen>>
           \/ confirmed' = confirmed /\ seen' = confirmed
           \/ confirmed' = OnNode /\ seen' = seen
    PROVE  OrderInv'
<1> SUFFICES ASSUME NEW t \in OnNode', NEW u \in OnNode', t.call < u.call,
                    Addr[t.call] = Addr[u.call], Kept(Addr[u.call])'
             PROVE  (u \in confirmed' => t \in confirmed') /\ (u \in seen' => t \in seen')
  BY DEF OrderInv
<1>1. t \in OnNode /\ u \in OnNode /\ Kept(Addr[u.call])
  BY DEF Kept
<1>2. (u \in confirmed => t \in confirmed) /\ (u \in seen => t \in seen)
  BY <1>1 DEF OrderInv
<1> QED
  BY <1>1, <1>2

LEMMA OrderStep ==
    ASSUME TypeOK, NodeInv, SerialInv, OrderInv, NEW c \in Calls, Step(c)
    PROVE  OrderInv'
<1>1. UNCHANGED <<confirmed, seen, abandoned>>
  BY StepDoes
<1>2. CASE mempool' = mempool
  BY <1>1, <1>2, OrderStays DEF OnNode
<1>3. ASSUME NEW t0, Sends(c, t0) PROVE OrderInv'
  <2>1. OnNode' = OnNode \cup {t0} /\ t0.call = c /\ pc[c] \in {"send", "sendReveal"}
    BY <1>1, <1>3 DEF Sends, OnNode
  <2>2. t0 \notin confirmed /\ t0 \notin seen
    BY <1>3 DEF Sends, Spendable, OnNode, TypeOK
  <2>3. ASSUME NEW u \in OnNode, c < u.call, Addr[c] = Addr[u.call], Kept(Addr[u.call])
        PROVE  FALSE
    <3>1. u.call \in Calls /\ pc[u.call] # "idle"
      BY <2>3 DEF TypeOK, Txs, OnNode, NodeInv, NodeHoldsThisAttempt, Ended
    <3>2. c \notin abandoned
      BY <2>3 DEF Kept
    <3>3. pc[c] \in Ended
      BY <2>3, <3>1, <3>2 DEF SerialInv
    <3> QED
      BY <2>1, <3>3 DEF Ended
  <2>4. \A x : Kept(x)' => Kept(x)
    BY <1>1 DEF Kept
  <2>5. t0.call \in Nat
    BY <2>1
  <2>6. ASSUME NEW t \in OnNode', NEW u \in OnNode', t.call < u.call,
               Addr[t.call] = Addr[u.call], Kept(Addr[u.call])'
        PROVE  (u \in confirmed => t \in confirmed) /\ (u \in seen => t \in seen)
    <3>1. CASE u = t0
      BY <2>2, <3>1
    <3>2. CASE u # t0 /\ t = t0
      BY <2>1, <2>3, <2>4, <2>6, <3>2
    <3>3. CASE t # t0 /\ u # t0
      BY <2>1, <2>4, <2>6, <3>3 DEF OrderInv
    <3> QED
      BY <3>1, <3>2, <3>3
  <2> QED
    BY <1>1, <2>6 DEF OrderInv
<1> QED
  BY <1>2, <1>3, StepSends

LEMMA SpendsOwnStep ==
    ASSUME TypeOK, OwnInv, SpendsOwn, NEW c \in Calls, Step(c)
    PROVE  SpendsOwn'
<1>1. confirmed' = confirmed
  BY StepDoes
<1>2. ASSUME NEW t0, Sends(c, t0), t0.role # "reveal" PROVE Owner(t0.in) = Addr[t0.call]
  BY <1>2 DEF Sends, OwnInv, OwnCoins
<1> QED
  BY <1>1, <1>2, StepSends DEF SpendsOwn, OnNode, Sends

-----------------------------------------------------------------------------
(* What a verified list holds.                                             *)

\* The node's other business leaves a lasting coin as it is.
LEMMA LastingStays ==
    ASSUME NEW o, Lasting(o), confirmed \subseteq confirmed', \A t \in OnNode' \ OnNode : t.in # o
    PROVE  Lasting(o)'
  BY DEF Lasting

\* A call for an address of its own, or one that sends nothing, leaves the list good.
LEMMA ListKept ==
    ASSUME TypeOK, OwnInv, ListInv, NEW c \in Calls, Step(c),
           cache' = cache, Addr[c] = cache.address /\ pc[c] \in {"idle", "attempt"} =>
                               pc'[c] \in {"attempt"} \cup Ended
    PROVE  ListInv'
<1> SUFFICES ASSUME cache.verified, Kept(cache.address)'
             PROVE  /\ \A o \in cache.coins : Lasting(o)'
                    /\ \A d \in Calls : Addr[d] = cache.address =>
                                            pc'[d] \in {"idle", "attempt"} \cup Ended
  BY DEF ListInv
<1>1. /\ UNCHANGED <<confirmed, seen, abandoned>> /\ pc[c] \notin Ended
      /\ \A d \in Calls \ {c} : pc'[d] = pc[d]
  BY StepDoes
<1>2. Kept(cache.address)
  BY <1>1 DEF Kept
<1>3. /\ \A o \in cache.coins : Lasting(o)
      /\ \A d \in Calls : Addr[d] = cache.address => pc[d] \in {"idle", "attempt"} \cup Ended
  BY <1>2 DEF ListInv
<1>4. ASSUME NEW o \in cache.coins PROVE Lasting(o)'
  <2>1. o \in Coins /\ Owner(o) = cache.address
    BY <1>4 DEF TypeOK, OwnInv
  <2>2. ASSUME NEW t, Sends(c, t) PROVE t.in # o
    <3>1. CASE t.role = "reveal"
      BY <2>1, <2>2, <3>1 DEF Sends, Coins
    <3>2. CASE t.role # "reveal"
      <4>1. Owner(t.in) = Addr[c] /\ pc[c] \in {"send", "sendReveal"}
        BY <2>2, <3>2 DEF Sends, OwnInv, OwnCoins
      <4>2. Addr[c] # cache.address
        BY <1>3, <4>1 DEF Ended
      <4> QED
        BY <2>1, <4>1, <4>2
    <3> QED
      BY <3>1, <3>2
  <2>3. \A t \in OnNode' \ OnNode : t.in # o
    BY <1>1, <2>2, StepSends DEF Sends, OnNode
  <2> QED
    BY <1>1, <1>3, <1>4, <2>3, LastingStays
<1> QED
  BY <1>1, <1>3, <1>4

\* The first transaction of a call that the tracker shows was mined after all
\* that the calls before it left there.
LEMMA ListSaved ==
    ASSUME TypeOK, NodeInv, SerialInv, SpendsOwn, OrderInv, NEW c \in Calls, SettleVerified(c)
    PROVE  ListInv'
<1> DEFINE x == Addr[c]
<1>1. /\ pc[c] = "settle" /\ cache' = Save(x, TRUE)
      /\ Change(c, attempt[c]) \in TrackerConfirmed(x)
      /\ UNCHANGED <<mempool, confirmed, seen, abandoned>>
      /\ pc'[c] = "returned" /\ \A d \in Calls \ {c} : pc'[d] = pc[d]
  BY DEF SettleVerified, chain, TypeOK, Goto
<1>2. cache'.address = x /\ cache'.coins = TrackerConfirmed(x) /\ x \in Addresses
  BY <1>1 DEF Save
<1>3. \A o : Lasting(o) => Lasting(o)'
  BY <1>1 DEF Lasting, OnNode
<1>4. Kept(cache.address)' => Kept(x)
  BY <1>1, <1>2 DEF Kept
<1> SUFFICES ASSUME Kept(x)
             PROVE  /\ \A o \in TrackerConfirmed(x) : Lasting(o)
                    /\ \A d \in Calls : Addr[d] = x => pc'[d] \in {"idle", "attempt"} \cup Ended
  BY <1>2, <1>3, <1>4 DEF ListInv
<1> HIDE DEF x
<1>5. ASSUME NEW d \in Calls, Addr[d] = x, d # c
      PROVE  IF d < c THEN pc[d] \in Ended ELSE pc[d] = "idle"
  BY <1>1, <1>5, UnderWayAlone DEF x, Ended
<1>6. \A d \in Calls : Addr[d] = x => pc'[d] \in {"idle", "attempt"} \cup Ended
  BY <1>1, <1>5 DEF Ended
<1>7. PICK u \in seen : u.call = c /\ u.role # "reveal"
  BY <1>1 DEF TrackerConfirmed, Change, Fund
<1>8. ASSUME NEW t \in OnNode, Addr[t.call] = x, t.role # "reveal" PROVE t \in seen
  <2>1. u \in OnNode /\ t.call \in Calls
    BY <1>7 DEF OnNode, TypeOK, Txs
  <2>2. CASE t.call = c
    <3>1. t = u
      BY <1>7, <1>8, <2>1, <2>2 DEF NodeInv, OneSpendPerCall
    <3> QED
      BY <1>7, <3>1
  <2>3. CASE t.call # c
    <3>1. t.call < c
      <4>1. pc[t.call] # "idle"
        BY <1>8 DEF NodeInv, NodeHoldsThisAttempt, Ended
      <4> QED
        BY <1>5, <1>8, <2>1, <2>3, <4>1
    <3> QED
      BY <1>7, <1>8, <2>1, <3>1 DEF OrderInv, x
  <2> QED
    BY <2>2, <2>3
<1>9. ASSUME NEW o \in TrackerConfirmed(x) PROVE Lasting(o)
  <2>1. o \in Coins /\ Owner(o) = x
    BY <1>2, <1>9, ViewsAreCoins, ViewsAreOwn
  <2>2. \A t \in seen : t.in # o
    BY <1>9 DEF TrackerConfirmed
  <2>3. \A t \in OnNode : t.in # o
    <3> SUFFICES ASSUME NEW t \in OnNode, t.in = o PROVE FALSE
      OBVIOUS
    <3>1. t.role # "reveal"
      BY <2>1 DEF NodeInv, CarriersAreForReveals, Carrier, Coins
    <3>2. Addr[t.call] = x
      BY <2>1, <3>1 DEF SpendsOwn
    <3> QED
      BY <1>8, <2>2, <3>1, <3>2
  <2>4. \/ o[1] = "fund"
        \/ o[1] = "change" /\ \E t \in confirmed : t.call = o[2] /\ t.att = o[3] /\ t.role # "reveal"
    <3>1. CASE o \in Fund(x)
      BY <3>1 DEF Fund
    <3>2. CASE o \notin Fund(x)
      <4>1. PICK t \in seen : t.role # "reveal" /\ o = <<"change", t.call, t.att>>
        BY <1>9, <3>2 DEF TrackerConfirmed, Change
      <4> QED
        BY <4>1 DEF TypeOK
    <3> QED
      BY <3>1, <3>2
  <2> QED
    BY <2>3, <2>4 DEF Lasting
<1> QED
  BY <1>6, <1>9

LEMMA ListStep ==
    ASSUME TypeOK, NodeInv, OwnInv, SpendableInv, NEW c \in Calls, Step(c)
    PROVE  ListInv'
<1>1. CASE ~cache'.verified
  BY <1>1 DEF ListInv
<1>2. CASE SettleVerified(c)
  BY <1>2, ListSaved DEF SpendableInv
<1>3. CASE cache'.verified /\ ~SettleVerified(c)
  BY <1>3, StepCache, ListKept DEF SpendableInv
<1> QED
  BY <1>1, <1>2, <1>3

LEMMA SpendableStep ==
    ASSUME TypeOK, NodeInv, OwnInv, SpendableInv, NEW c \in Calls, Step(c)
    PROVE  SpendableInv'
BY SerialStep, SpendsOwnStep, OrderStep, ListStep DEF SpendableInv

\* The chain's steps, and the runner giving up on a test.
LEMMA SpendableElse ==
    ASSUME TypeOK, SpendableInv, [Next]_vars, ~(\E c \in Calls : Step(c))
    PROVE  SpendableInv'
<1>1. UNCHANGED <<pc, cache>> /\ abandoned \subseteq abandoned'
  BY DEF Next, Abandon, MineBlock, TrackerIndexes, Evict, Finished, vars
<1>2. /\ OnNode' \subseteq OnNode /\ confirmed \subseteq confirmed'
      /\ \/ UNCHANGED <<confirmed, seen>>
         \/ confirmed' = confirmed /\ seen' = confirmed
         \/ confirmed' = OnNode /\ seen' = seen
  <2>1. CASE MineBlock
    BY <2>1 DEF MineBlock, OnNode
  <2>2. CASE TrackerIndexes
    BY <2>2 DEF TrackerIndexes, OnNode
  <2>3. CASE Evict
    BY <2>3 DEF Evict, OnNode
  <2>4. CASE UNCHANGED chain
    BY <2>4 DEF chain, OnNode
  <2> QED
    BY <2>1, <2>2, <2>3, <2>4 DEF Next, Abandon, Finished, vars
<1>3. OrderInv'
  BY <1>1, <1>2, OrderStays DEF SpendableInv
<1>4. SerialInv' /\ SpendsOwn'
  BY <1>1, <1>2 DEF SpendableInv, SerialInv, SpendsOwn
<1>5. ListInv'
  <2>1. Kept(cache.address)' => Kept(cache.address)
    BY <1>1 DEF Kept
  <2>2. \A o : Lasting(o) => Lasting(o)'
    BY <1>2, LastingStays
  <2> QED
    BY <1>1, <2>1, <2>2 DEF SpendableInv, ListInv
<1> QED
  BY <1>3, <1>4, <1>5 DEF SpendableInv

(* While no call for its address runs abandoned, a list saved after the      *)
(* tracker showed the change holds only coins the node would accept, for any *)
(* number of calls and attempts and whatever the node drops meanwhile        *)
(* (transactionState, createAndSendTransaction, createSimpleTransaction).   *)
THEOREM VerifiedListsAreSpendable == Spec => []VerifiedCacheIsSpendable
<1>1. Init => OwnInv /\ SpendableInv
  BY DEF Init, OwnInv, OwnCoins, NoCache, SpendableInv, SerialInv, SpendsOwn, OrderInv, ListInv, OnNode
<1>2. IInv /\ OwnInv /\ SpendableInv /\ [Next]_vars => (OwnInv /\ SpendableInv)'
  BY OwnNext, SpendableStep, SpendableElse DEF IInv
<1>3. TypeOK /\ SpendableInv => VerifiedCacheIsSpendable
  <2> SUFFICES ASSUME TypeOK, ListInv, cache.verified, Kept(cache.address), NEW o \in cache.coins
               PROVE  Spendable(o)
    BY DEF SpendableInv, VerifiedCacheIsSpendable, Kept
  <2>1. Lasting(o)
    BY DEF ListInv
  <2> QED
    BY <2>1 DEF Lasting, Spendable, Created, OnNode
<1>4. IInv => TypeOK
  BY DEF IInv
<1> QED
  BY <1>1, <1>2, <1>3, <1>4, InitInv, NextInv, PTL DEF Spec
=============================================================================
