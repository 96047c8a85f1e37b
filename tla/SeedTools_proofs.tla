-------------------------- MODULE SeedTools_proofs --------------------------
(***************************************************************************)
(* Theorems about the two seeding tools, for every number of transactions, *)
(* runs, faults, keys and orders.                                          *)
(***************************************************************************)
EXTENDS SeedTools, FiniteSetTheorems, WellFoundedInduction, TLAPS

-----------------------------------------------------------------------------
(* Numbers.                                                                *)

\* A set of numbers has a least one.
LEMMA LeastOne ==
    ASSUME NEW S, S \subseteq Nat, S # {}
    PROVE  \E x \in S : \A y \in S : x <= y
<1>. DEFINE Below == {ss \in Nat \X Nat : ss[1] < ss[2]}
<1>1. IsWellFoundedOn(Below, Nat)
  BY NatLessThanWellFounded DEF OpToRel
<1>. HIDE DEF Below
<1>2. PICK x \in S : \A y \in S : ~(<<y, x>> \in Below)
  BY <1>1, WFMin
<1>3. ASSUME NEW y \in S PROVE x <= y
  <2>1. x \in Nat /\ y \in Nat /\ <<y, x>> \notin Below
    BY <1>2
  <2>2. ~(y < x)
    BY <2>1 DEF Below
  <2>3. QED
    BY <2>1, <2>2
<1>4. QED
  BY <1>3

-----------------------------------------------------------------------------
(* The types, and where the tools know what they are about.                *)

Sending == {"accepted", "waiting", "recheck"}
Planning == {"token", "lookup", "count", "plan", "submit", "heard", "recount", "verify"}

SeenType == [token : BOOLEAN, gas : BOOLEAN, index : {0} \cup Ids, live : Nat,
             start : Nat, rounds : Nat, misread : BOOLEAN]
OptsType == [broadcast : BOOLEAN, clear : BOOLEAN]
SavedType == [index : {0} \cup Ids, next : Nat, tombstoned : BOOLEAN]
TxType == [step : Steps \cup {"none"}, on : {0} \cup Ids, from : Nat, count : Nat,
           blind : BOOLEAN]

\* What is being sent, and for which tool.
StepInv ==
    /\ tool = "escrow" => step \in {"none", "ORDER"}
    /\ tool = "contract" => step \in ContractSteps \cup {"none"}
    /\ pc \in Sending \cup {"submit", "heard", "recount"} => step # "none"
    /\ pc \in Sending \cup {"heard"} => cur \in Ids
    /\ (pc \in Sending \cup {"submit", "heard"} /\ step = "fill") => seen.live < Keys

TypeInv == TypeOK /\ StepInv

LEMMA Constants ==
    /\ Keys \in Nat /\ Batch \in Nat /\ BaseKeys \in Nat /\ BaseKeys - 1 \in Nat
    /\ Orders \in Nat /\ MaxTx \in Nat /\ ContractSteps \subseteq Steps /\ "ORDER" \in Steps
BY SeedContractAssumption, SeedEscrowAssumption, SeedWireAssumption, SeedToolsAssumption

LEMMA NothingTyped == NothingSeen \in SeenType /\ NothingSeen.index = 0
<1>. PICK zero \in Nat : zero = 0
  OBVIOUS
<1>1. NothingSeen = [token |-> FALSE, gas |-> FALSE, index |-> zero, live |-> zero,
                     start |-> zero, rounds |-> zero, misread |-> FALSE]
  BY DEF NothingSeen
<1>2. QED
  BY <1>1 DEF SeenType

LEMMA NoFlagsTyped == NoFlags \in OptsType
BY DEF NoFlags, OptsType

LEMMA NoFileTyped == NoFile \in SavedType
<1>. PICK zero \in Nat : zero = 0
  OBVIOUS
<1>1. NoFile = [index |-> zero, next |-> zero, tombstoned |-> FALSE]
  BY DEF NoFile
<1>2. QED
  BY <1>1 DEF SavedType

LEMMA NoTxTyped == NoTx \in TxType
<1>. PICK zero \in Nat : zero = 0
  OBVIOUS
<1>1. NoTx = [step |-> "none", on |-> zero, from |-> zero, count |-> zero, blind |-> FALSE]
  BY DEF NoTx
<1>2. QED
  BY <1>1 DEF TxType

\* The keys some transactions name are finitely many.
LEMMA KeysAreFinite ==
    ASSUME NEW w, \A i \in Ids : w[i].from \in Nat /\ w[i].count \in Nat,
           NEW J, J \subseteq Ids
    PROVE  IsFiniteSet(UNION {w[i].from .. w[i].from + w[i].count - 1 : i \in J})
<1>. DEFINE bounds(k, n) == \A i \in 1..k : w[i].from + w[i].count <= n
            bounded(k) == \E n \in Nat : bounds(k, n)
            Bad == {k \in 0..MaxTx : ~bounded(k)}
<1>1. \A i \in Ids : w[i].from \in Nat /\ w[i].count \in Nat
  OBVIOUS
<1>2. bounded(0)
  <2>1. bounds(0, 0)
    OBVIOUS
  <2>2. QED
    BY <2>1
<1>3. ASSUME NEW k \in 1..MaxTx, bounded(k - 1)
      PROVE  bounded(k)
  <2>1. PICK n \in Nat : bounds(k - 1, n)
    BY <1>3
  <2>2. k \in Ids /\ k \in Nat
    BY Constants DEF Ids
  <2>3. PICK m \in Nat : n <= m /\ w[k].from + w[k].count <= m
    <3>1. n + (w[k].from + w[k].count) \in Nat
      BY <1>1, <2>2
    <3>2. n <= n + (w[k].from + w[k].count) /\ w[k].from + w[k].count <= n + (w[k].from + w[k].count)
      BY <1>1, <2>2
    <3>3. QED
      BY <3>1, <3>2
  <2>4. ASSUME NEW i \in 1..k
        PROVE  w[i].from + w[i].count <= m
    <3>1. i \in Ids
      BY <2>2, Constants DEF Ids
    <3>2. CASE i = k
      BY <2>3, <3>2
    <3>3. CASE i # k
      <4>1. i \in 1..(k - 1)
        BY <2>2, <3>3
      <4>2. w[i].from + w[i].count <= n /\ w[i].from + w[i].count \in Nat
        BY <1>1, <2>1, <3>1, <4>1
      <4>3. QED
        BY <2>3, <4>2
    <3>4. QED
      BY <3>2, <3>3
  <2>5. bounds(k, m)
    BY <2>4
  <2>6. QED
    BY <2>5
<1>. HIDE DEF bounded
<1>4. Bad = {}
  <2> SUFFICES ASSUME Bad # {} PROVE FALSE
    OBVIOUS
  <2>1. Bad \subseteq Nat
    BY Constants
  <2>2. PICK k \in Bad : \A l \in Bad : k <= l
    BY LeastOne, <2>1
  <2>3. k \in 0..MaxTx /\ ~bounded(k)
    OBVIOUS
  <2>4. k \in 1..MaxTx /\ k - 1 \in 0..MaxTx /\ ~(k <= k - 1)
    BY <1>2, <2>3, Constants
  <2>5. k - 1 \notin Bad
    BY <2>2, <2>4
  <2>6. QED
    BY <1>3, <2>3, <2>4, <2>5
<1>5. bounded(MaxTx)
  <2>1. MaxTx \in 0..MaxTx
    BY Constants
  <2>2. QED
    BY <1>4, <2>1
<1>. USE DEF bounded
<1>6. PICK n \in Nat : bounds(MaxTx, n)
  BY <1>5
<1>7. ASSUME NEW k \in UNION {w[i].from .. w[i].from + w[i].count - 1 : i \in J}
      PROVE  k \in 0..n
  <2>1. PICK i \in Ids : k \in w[i].from .. w[i].from + w[i].count - 1
    BY <1>7
  <2>2. w[i].from + w[i].count <= n
    BY <1>6, <2>1 DEF Ids
  <2>3. QED
    BY <1>1, <2>1, <2>2
<1>8. IsFiniteSet(0..n)
  BY FS_Interval
<1>9. QED
  BY <1>7, <1>8, FS_Subset

\* The keys of a contract can be counted.
LEMMA BulkIsFinite == ASSUME TypeOK, NEW c PROVE IsFiniteSet(Bulk(c))
<1>. DEFINE J == {j \in Valid("fill") : what[j].on = c}
<1>1. Bulk(c) = UNION {what[i].from .. what[i].from + what[i].count - 1 : i \in J}
  BY DEF Bulk
<1>2. J \subseteq Ids
  BY DEF Valid
<1>3. \A i \in Ids : what[i].from \in Nat /\ what[i].count \in Nat
  BY DEF TypeOK
<1>. HIDE DEF J
<1>4. QED
  BY <1>1, <1>2, <1>3, KeysAreFinite

LEMMA LiveTyped == ASSUME TypeOK, NEW c PROVE Live(c) \in Nat
BY BulkIsFinite, FS_CardinalityType, Constants DEF Live

LEMMA OrdersCounted ==
    ASSUME NEW s
    PROVE  IsFiniteSet(Valid(s)) /\ Cardinality(Valid(s)) \in Nat
<1>1. IsFiniteSet(Ids)
  BY FS_Interval, Constants DEF Ids
<1>2. IsFiniteSet(Valid(s))
  BY <1>1, FS_Subset DEF Valid
<1>3. QED
  BY <1>2, FS_CardinalityType

\* So is any list of them.
LEMMA RowsCounted ==
    ASSUME NEW s, NEW rows \in listRows(Valid(s))
    PROVE  rows \subseteq Valid(s) /\ Cardinality(rows) \in Nat
<1>1. rows \subseteq Valid(s)
  BY DEF listRows
<1>2. QED
  BY <1>1, OrdersCounted, FS_Subset, FS_CardinalityType

\* The plan's next step exists, is needed, and a contract comes before what
\* is executed on it.
LEMMA FollowingIs ==
    ASSUME NEW s \in {"none", "ISSUE", "MINT", "DEPLOY", "fill"}, NEW live \in Nat
    PROVE  /\ Following(s, live) \in ContractSteps \cup {"none"}
           /\ Following(s, live) = "fill" => live < Keys
           /\ Following(s, live) = "DEPLOY" => seen.index = 0
           /\ seen.index = 0 /\ s \in {"none", "ISSUE", "MINT"} =>
                  Following(s, live) \in {"ISSUE", "MINT", "DEPLOY"}
           /\ s \in {"DEPLOY", "fill"} => Following(s, live) # "DEPLOY"
           /\ s # "fill" /\ Following(s, live) \in {"remove", "none"} => live >= Keys
<1>. DEFINE steps == After(s)
            first(n) == /\ Needed(steps[n], live)
                        /\ \A m \in 1..(n - 1) : ~Needed(steps[m], live)
            S == {n \in DOMAIN steps : Needed(steps[n], live)}
            k == CHOOSE n \in DOMAIN steps : first(n)
<1>1. DOMAIN steps \subseteq Nat /\ \A n \in DOMAIN steps : \A m \in 1..(n - 1) : m \in DOMAIN steps
  BY DEF After
<1>2. S # {}
  <2>1. Needed("none", live)
    BY DEF Needed
  <2>2. \E n \in DOMAIN steps : steps[n] = "none"
    <3>1. CASE s = "none"
      BY <3>1 DEF After
    <3>2. CASE s = "ISSUE"
      BY <3>2 DEF After
    <3>3. CASE s = "MINT"
      BY <3>3 DEF After
    <3>4. CASE s = "DEPLOY"
      BY <3>4 DEF After
    <3>5. CASE s = "fill"
      BY <3>5 DEF After
    <3>6. QED
      BY <3>1, <3>2, <3>3, <3>4, <3>5
  <2>3. QED
    BY <2>1, <2>2
<1>3. PICK n \in S : \A y \in S : n <= y
  BY <1>1, <1>2, LeastOne
<1>4. n \in DOMAIN steps /\ first(n)
  BY <1>1, <1>3
<1>5. k \in DOMAIN steps /\ first(k)
  BY <1>4
<1>6. Following(s, live) = steps[k]
  BY DEF Following
<1>. HIDE DEF k
<1>7. Needed(steps[k], live) /\ \A m \in 1..(k - 1) : ~Needed(steps[m], live)
  BY <1>5
<1>8. Needed("DEPLOY", live) <=> seen.index = 0
  BY DEF Needed
<1>9. Needed("fill", live) <=> live < Keys
  BY DEF Needed
<1>10. CASE s = "none"
  <2>1. steps = <<"ISSUE", "MINT", "DEPLOY", "fill", "remove", "none">> /\ k \in 1..6
    BY <1>5, <1>10 DEF After
  <2>2. (k > 3 => ~Needed("DEPLOY", live)) /\ (k > 4 => ~Needed("fill", live))
    BY <1>7, <2>1
  <2>3. QED
    BY <1>6, <1>7, <1>8, <1>9, <1>10, <2>1, <2>2, Constants DEF ContractSteps
<1>11. CASE s = "ISSUE"
  <2>1. steps = <<"MINT", "DEPLOY", "fill", "remove", "none">> /\ k \in 1..5
    BY <1>5, <1>11 DEF After
  <2>2. (k > 2 => ~Needed("DEPLOY", live)) /\ (k > 3 => ~Needed("fill", live))
    BY <1>7, <2>1
  <2>3. QED
    BY <1>6, <1>7, <1>8, <1>9, <1>11, <2>1, <2>2, Constants DEF ContractSteps
<1>12. CASE s = "MINT"
  <2>1. steps = <<"DEPLOY", "fill", "remove", "none">> /\ k \in 1..4
    BY <1>5, <1>12 DEF After
  <2>2. (k > 1 => ~Needed("DEPLOY", live)) /\ (k > 2 => ~Needed("fill", live))
    BY <1>7, <2>1
  <2>3. QED
    BY <1>6, <1>7, <1>8, <1>9, <1>12, <2>1, <2>2, Constants DEF ContractSteps
<1>13. CASE s = "DEPLOY"
  <2>1. steps = <<"fill", "remove", "none">> /\ k \in 1..3
    BY <1>5, <1>13 DEF After
  <2>2. k > 1 => ~Needed("fill", live)
    BY <1>7, <2>1
  <2>3. QED
    BY <1>6, <1>7, <1>9, <1>13, <2>1, <2>2, Constants DEF ContractSteps
<1>14. CASE s = "fill"
  <2>1. steps = <<"remove", "none">> /\ k \in 1..2
    BY <1>5, <1>14 DEF After
  <2>2. QED
    BY <1>6, <1>14, <2>1 DEF ContractSteps
<1>15. QED
  BY <1>10, <1>11, <1>12, <1>13, <1>14

-----------------------------------------------------------------------------
(* Types: leaving, and the way of one transaction.                         *)

Leaves ==
    \/ Refuses \/ BuildFails \/ AnswerLost \/ WaitFails
    \/ OverBudget \/ LookupFails \/ IssueRefused \/ Blocked \/ PlanOnly \/ DeployUnverified
    \/ ContractVerified
    \/ ListFails \/ EscrowBlocked \/ EscrowPlanOnly \/ EscrowVerified
    \/ Killed \/ TornFile

LEMMA ExitTyped ==
    ASSUME TypeInv, Exit, UNCHANGED <<fate, what, runs, tool>>,
           pending' \in [Steps -> {0} \cup Ids], saved' \in SavedType, lost' \subseteq Ids
    PROVE  TypeInv'
<1>1. /\ pc' = "off" /\ step' = "none" /\ cur' = 0
      /\ seen' \in SeenType /\ opts' \in OptsType
  BY NothingTyped, NoFlagsTyped DEF Exit
<1>2. TypeOK'
  BY <1>1 DEF TypeInv, TypeOK, SeenType, OptsType, SavedType
<1>3. StepInv'
  BY <1>1 DEF StepInv, Sending
<1>4. QED
  BY <1>2, <1>3 DEF TypeInv

LEMMA LeavesTyped == ASSUME TypeInv, Leaves, UNCHANGED tool PROVE TypeInv'
<1>1. Exit /\ UNCHANGED <<fate, what, runs>>
  BY DEF Leaves, Refuses, BuildFails, AnswerLost, WaitFails, OverBudget, LookupFails, IssueRefused,
     Blocked, PlanOnly, DeployUnverified, ContractVerified, ListFails, EscrowBlocked,
     EscrowPlanOnly, EscrowVerified, Killed, TornFile, wire
<1>2. lost' = lost \/ (pc = "accepted" /\ lost' = lost \cup {cur}) \/ lost' = lost \cup Unsettled
  BY DEF Leaves, Refuses, BuildFails, AnswerLost, WaitFails, OverBudget, LookupFails, IssueRefused,
     Blocked, PlanOnly, DeployUnverified, ContractVerified, ListFails, EscrowBlocked,
     EscrowPlanOnly, EscrowVerified, Killed, TornFile
<1>3. lost' \subseteq Ids
  BY <1>2 DEF TypeInv, TypeOK, StepInv, Sending, Unsettled
<1>4. UNCHANGED <<pending, saved>> \/ (pending' = [l \in Steps |-> 0] /\ saved' = NoFile)
  BY DEF Leaves, Refuses, BuildFails, AnswerLost, WaitFails, OverBudget, LookupFails, IssueRefused,
     Blocked, PlanOnly, DeployUnverified, ContractVerified, ListFails, EscrowBlocked,
     EscrowPlanOnly, EscrowVerified, Killed, TornFile, book
<1>5. pending' \in [Steps -> {0} \cup Ids] /\ saved' \in SavedType
  BY <1>4, NoFileTyped DEF TypeInv, TypeOK, SavedType
<1>6. QED
  BY <1>1, <1>3, <1>5, ExitTyped

\* Steps of a run that send nothing and leave the wire alone.
LEMMA MovesTyped ==
    ASSUME TypeInv, UNCHANGED <<fate, what, runs, tool>>,
           pending' \in [Steps -> {0} \cup Ids], saved' \in SavedType, lost' \subseteq Ids,
           opts' = opts, pc' \in Awaits, step' \in Steps \cup {"none"}, cur' \in {0} \cup Ids,
           seen' \in SeenType, StepInv'
    PROVE  TypeInv'
BY DEF TypeInv, TypeOK, SeenType, OptsType, SavedType

LEMMA SettleTyped ==
    ASSUME TypeInv, ClearPending \/ SettlePending, UNCHANGED tool
    PROVE  TypeInv'
<1>1. pending' \in [Steps -> {0} \cup Ids] /\ UNCHANGED <<fate, what, runs, saved>>
  BY DEF ClearPending, SettlePending, TypeInv, TypeOK, wire
<1>2. lost' \subseteq Ids
  BY DEF ClearPending, SettlePending, TypeInv, TypeOK, Unsettled
<1>3. saved' \in SavedType /\ seen \in SeenType /\ step \in Steps \cup {"none"} /\ cur \in {0} \cup Ids
  BY <1>1 DEF TypeInv, TypeOK, SavedType, SeenType
<1>4. CASE Exit
  BY <1>1, <1>2, <1>3, <1>4, ExitTyped
<1>5. CASE pc' = "token" /\ UNCHANGED <<opts, step, cur, seen>>
  <2>1. StepInv'
    BY <1>5 DEF StepInv, Sending, TypeInv
  <2>2. pc' \in Awaits
    BY <1>5 DEF Awaits
  <2>3. QED
    BY <1>1, <1>2, <1>3, <1>5, <2>1, <2>2, MovesTyped
<1>6. QED
  BY <1>4, <1>5 DEF ClearPending, SettlePending, proc

LEMMA PayloadTyped ==
    ASSUME TypeInv, pc = "submit", step # "none"
    PROVE  Payload \in TxType /\ Payload.step = step
<1>1. step \in Steps /\ seen.index \in {0} \cup Ids /\ seen.start \in Nat /\ seen.live \in Nat
  BY DEF TypeInv, TypeOK
<1>2. CASE step = "fill"
  <2>1. FillBatch \in Nat
    BY <1>1, <1>2, Constants DEF FillBatch, Least, TypeInv, StepInv
  <2>2. QED
    BY <1>1, <1>2, <2>1, NoTxTyped DEF Payload, TxType
<1>3. CASE step = "remove"
  BY <1>1, <1>3, NoTxTyped DEF Payload, TxType
<1>4. CASE step \notin {"fill", "remove"}
  <2>. DEFINE b == step = "DEPLOY" /\ seen.misread
  <2>1. b \in BOOLEAN
    OBVIOUS
  <2>2. Payload = [NoTx EXCEPT !.step = step, !.blind = b]
    BY <1>4 DEF Payload
  <2>. HIDE DEF b
  <2>3. QED
    BY <1>1, <2>1, <2>2, NoTxTyped DEF TxType
<1>5. QED
  BY <1>2, <1>3, <1>4

\* An order is a transaction too.
LEMMA OrderTyped ==
    ASSUME NEW b \in BOOLEAN
    PROVE  LET t == [NoTx EXCEPT !.step = "ORDER", !.blind = b] IN
           t \in TxType /\ t.step = "ORDER" /\ t.blind = b
BY NoTxTyped, Constants DEF TxType

\* The one transaction a run has the node accept.
Accepts ==
    \/ tool = "contract" /\ SubmitStep
    \/ tool = "escrow" /\ SubmitOrder

\* What the node accepts is of the step at hand.
LEMMA AcceptsDoes ==
    ASSUME TypeInv, Accepts
    PROVE  /\ pc = "submit" /\ pc' = "accepted" /\ step # "none"
           /\ cur' \in Ids /\ fate[cur'] = "unused" /\ fate' = [fate EXCEPT ![cur'] = "sent"]
           /\ \A j \in 1..(cur' - 1) : fate[j] # "unused"
           /\ \E t \in TxType : t.step = step /\ what' = [what EXCEPT ![cur'] = t]
                                /\ (tool = "contract" => t = Payload)
                                /\ (tool = "escrow" => t.blind = seen.misread)
           /\ UNCHANGED <<pending, saved, opts, step, seen, runs, lost>>
<1>1. pc = "submit" /\ step # "none"
  BY DEF TypeInv, StepInv, Accepts, SubmitStep, SubmitOrder, NodeAccepts
<1>2. CASE tool = "contract" /\ SubmitStep
  <2>1. tool # "escrow"
    BY <1>2
  <2>2. QED
    BY <1>1, <1>2, <2>1, PayloadTyped DEF SubmitStep, NodeAccepts, Broadcast, book
<1>3. CASE tool = "escrow" /\ SubmitOrder
  <2>1. step = "ORDER" /\ tool # "contract"
    BY <1>1, <1>3 DEF TypeInv, StepInv
  <2>2. seen.misread \in BOOLEAN
    BY DEF TypeInv, TypeOK
  <2>3. QED
    BY <1>1, <1>3, <2>1, <2>2, OrderTyped DEF SubmitOrder, NodeAccepts, Broadcast, book
<1>4. QED
  BY <1>2, <1>3 DEF Accepts

LEMMA AcceptsTyped ==
    ASSUME TypeInv, Accepts, UNCHANGED tool
    PROVE  TypeInv'
<1>1. PICK t \in TxType : t.step = step /\ what' = [what EXCEPT ![cur'] = t]
  BY AcceptsDoes
<1>2. fate' \in [Ids -> Fates] /\ what' \in [Ids -> TxType] /\ pc' \in Awaits
  BY <1>1, AcceptsDoes DEF TypeInv, TypeOK, Fates, TxType, Awaits
<1>3. TypeOK'
  BY <1>2, AcceptsDoes DEF TypeInv, TypeOK, TxType
<1>4. StepInv'
  BY AcceptsDoes DEF TypeInv, StepInv, Sending
<1>5. QED
  BY <1>3, <1>4 DEF TypeInv

LEMMA WaitTyped ==
    ASSUME TypeInv, Remember \/ Resolved \/ TimesOut \/ Recheck, UNCHANGED tool
    PROVE  TypeInv'
<1>1. /\ UNCHANGED <<fate, what, runs, saved, lost>> /\ pc \in Sending
      /\ pending' = [pending EXCEPT ![step] = cur] \/ pending' = [pending EXCEPT ![step] = 0]
           \/ pending' = pending
  BY DEF Remember, Resolved, TimesOut, Recheck, wire, book, Sending, rememberPending, forgetPending
<1>2. /\ pending' \in [Steps -> {0} \cup Ids] /\ saved' \in SavedType /\ lost' \subseteq Ids
      /\ seen \in SeenType /\ step \in Steps \cup {"none"} /\ cur \in {0} \cup Ids
  BY <1>1 DEF TypeInv, TypeOK, SavedType, SeenType
<1>3. CASE Exit
  BY <1>1, <1>2, <1>3, ExitTyped
<1>4. CASE pc' \in {"waiting", "recheck", "heard"} /\ UNCHANGED <<opts, step, cur, seen>>
  <2>1. StepInv'
    BY <1>1, <1>4 DEF TypeInv, StepInv, Sending
  <2>2. pc' \in Awaits
    BY <1>4 DEF Awaits
  <2>3. QED
    BY <1>1, <1>2, <1>4, <2>1, <2>2, MovesTyped
<1>5. QED
  BY <1>3, <1>4 DEF Remember, Resolved, TimesOut, Recheck, requireValid, proc

LEMMA ChainTyped == ASSUME TypeInv, Chain, UNCHANGED tool PROVE TypeInv'
<1>1. UNCHANGED <<what, pending, saved, opts, pc, step, cur, seen, runs, lost>>
  BY DEF Chain, IndexTx, Evicted, Settles, Release, Regenesis
<1>2. fate' \in [Ids -> Fates]
  <2>. fate \in [Ids -> Fates]
    BY DEF TypeInv, TypeOK
  <2>1. ASSUME NEW i \in Ids, NEW v \in {"valid", "invalid", "evicted"}, Settles(i, v)
        PROVE  fate' \in [Ids -> Fates]
    BY <2>1 DEF Settles, Fates
  <2>2. ASSUME NEW i \in Ids, Release(i)
        PROVE  fate' \in [Ids -> Fates]
    BY <2>2 DEF Release, Fates
  <2>3. CASE Regenesis
    BY <2>3 DEF Regenesis, Fates
  <2>4. QED
    BY <2>1, <2>2, <2>3 DEF Chain, IndexTx, Evicted
<1>3. QED
  BY <1>1, <1>2 DEF TypeInv, TypeOK, StepInv

LEMMA StartTyped == ASSUME TypeInv, Start, UNCHANGED tool PROVE TypeInv'
<1>1. seen' \in SeenType
  BY NothingTyped DEF Start
<1>2. opts' \in OptsType
  BY DEF Start, OptsType
<1>3. TypeOK'
  BY <1>1, <1>2 DEF Start, TypeInv, TypeOK, wire, book, SeenType, OptsType, Awaits
<1>4. StepInv'
  BY DEF Start, StepInv, Sending
<1>5. QED
  BY <1>3, <1>4 DEF TypeInv

-----------------------------------------------------------------------------
(* Types: the contract tool and the escrow tool.                           *)

LEMMA SeenTyped ==
    ASSUME seen \in SeenType, NEW n \in Nat, NEW c \in {0} \cup Ids
    PROVE  /\ [seen EXCEPT !.live = n] \in SeenType
           /\ \A b \in BOOLEAN : [seen EXCEPT !.index = c, !.misread = b] \in SeenType
           /\ \A b \in BOOLEAN : [seen EXCEPT !.live = n, !.misread = b] \in SeenType
           /\ [seen EXCEPT !.index = c] \in SeenType
           /\ [seen EXCEPT !.start = n] \in SeenType
           /\ [seen EXCEPT !.rounds = n] \in SeenType
BY DEF SeenType

LEMMA FundsTyped ==
    ASSUME seen \in SeenType, NEW a \in BOOLEAN, NEW b \in BOOLEAN
    PROVE  [seen EXCEPT !.token = a, !.gas = b] \in SeenType
BY DEF SeenType

\* A count that is in, and a round begun.
LEMMA RoundTyped ==
    ASSUME seen \in SeenType, NEW n \in Nat, NEW m \in Nat
    PROVE  /\ [seen EXCEPT !.live = n, !.rounds = m] \in SeenType
           /\ [seen EXCEPT !.live = n, !.rounds = m].live = n
BY DEF SeenType

LEMMA FirstRoundTyped ==
    ASSUME seen \in SeenType, NEW n \in Nat, NEW m \in Nat, NEW k \in Nat
    PROVE  /\ [seen EXCEPT !.live = n, !.rounds = m, !.start = k] \in SeenType
           /\ [seen EXCEPT !.live = n, !.rounds = m, !.start = k].live = n
BY DEF SeenType

LEMMA FillStartTyped == ASSUME TypeOK, NEW live \in Nat PROVE FillStart(live) \in Nat
BY Constants DEF FillStart, Most, TypeOK

LEMMA GoToTyped ==
    ASSUME TypeInv, NEW s \in ContractSteps \cup {"none"}, NEW live \in Nat, GoTo(s, live),
           s = "fill" => live < Keys, tool = "contract", UNCHANGED <<fate, what, runs, tool, pending, saved, lost, opts>>,
           cur' \in {0} \cup Ids
    PROVE  TypeInv'
<1>1. seen' \in SeenType /\ seen'.live = live
  <2>1. FillStart(live) \in Nat /\ 1 \in Nat /\ seen \in SeenType
    BY FillStartTyped DEF TypeInv, TypeOK, SeenType
  <2>2. seen' = [seen EXCEPT !.live = live, !.rounds = 1, !.start = FillStart(live)]
    BY DEF GoTo
  <2>3. PICK one \in Nat, fs \in Nat : one = 1 /\ fs = FillStart(live)
    BY <2>1
  <2>4. seen' = [seen EXCEPT !.live = live, !.rounds = one, !.start = fs]
    BY <2>2, <2>3
  <2>5. QED
    BY <2>1, <2>4, FirstRoundTyped
<1>2. pc' \in {"verify", "submit"} /\ step' = s /\ (s = "none" => pc' = "verify")
  BY DEF GoTo
<1>3. StepInv'
  BY <1>1, <1>2 DEF StepInv, Sending, ContractSteps
<1>4. /\ pending' \in [Steps -> {0} \cup Ids] /\ saved' \in SavedType /\ lost' \subseteq Ids
      /\ pc' \in Awaits /\ step' \in Steps \cup {"none"}
  BY <1>2, Constants DEF TypeInv, TypeOK, SavedType, Awaits
<1>5. QED
  BY <1>1, <1>3, <1>4, MovesTyped

LEMMA LookupIs ==
    ASSUME TypeOK, NEW rows \in listRows(Valid("DEPLOY"))
    PROVE  /\ findDeployedContract(rows) \in {0} \cup Valid("DEPLOY")
           /\ findDeployedContract(rows) = 0 <=> rows = {}
<1>1. CASE rows = {}
  BY <1>1 DEF findDeployedContract
<1>2. CASE rows # {}
  <2>1. rows \subseteq Valid("DEPLOY") /\ rows \subseteq Nat /\ 0 \notin rows
    BY Constants DEF Valid, Ids, listRows
  <2>2. \E c \in rows : \A d \in rows : c <= d
    BY <1>2, <2>1, LeastOne
  <2>3. findDeployedContract(rows) \in rows
    BY <1>2, <2>2 DEF findDeployedContract
  <2>4. QED
    BY <2>1, <2>3
<1>3. QED
  BY <1>1, <1>2

LEMMA CountsTyped == ASSUME TypeOK, NEW c, NEW n \in countLiveKeys(c) PROVE n \in Nat
BY LiveTyped DEF countLiveKeys, ErrorKeys

\* Both tools' reads.
LEMMA ReadsTyped ==
    ASSUME TypeInv, ReadGas \/ ReadEscrowGas \/ LookupContract \/ CountKeys \/ ListOrders, UNCHANGED tool
    PROVE  TypeInv'
<1>. seen \in SeenType /\ saved \in SavedType
  BY DEF TypeInv, TypeOK, SeenType, SavedType
<1>1. /\ UNCHANGED <<fate, what, runs, pending, lost, opts, step, cur>>
      /\ pc' \in {"lookup", "count", "plan"}
  BY DEF ReadGas, ReadEscrowGas, LookupContract, CountKeys, ListOrders, wire, book
<1>2. seen' \in SeenType
  <2>1. CASE ReadGas \/ ReadEscrowGas
    <3>1. PICK a \in BOOLEAN, b \in BOOLEAN : seen' = [seen EXCEPT !.token = a, !.gas = b]
      BY <2>1 DEF ReadGas, ReadEscrowGas, explorerField
    <3>2. QED
      BY <3>1, FundsTyped
  <2>2. CASE LookupContract
    <3>1. PICK rows \in listRows(Valid("DEPLOY")) :
            resolveContractIndex(findDeployedContract(rows), rows = {} /\ Valid("DEPLOY") # {})
      BY <2>2 DEF LookupContract
    <3>2. findDeployedContract(rows) \in {0} \cup Ids
      BY LookupIs DEF TypeInv, Valid
    <3>3. PICK b \in BOOLEAN : b = (rows = {} /\ Valid("DEPLOY") # {})
      OBVIOUS
    <3>4. QED
      BY <3>1, <3>2, <3>3, SeenTyped DEF resolveContractIndex
  <2>3. CASE CountKeys
    BY <2>3, CountsTyped, SeenTyped DEF CountKeys, TypeInv
  <2>4. CASE ListOrders
    <3>1. PICK rows \in listRows(holdsEscrow) : seen' = Count(rows)
      BY <2>4 DEF ListOrders
    <3>2. PICK b \in BOOLEAN : b = (rows # holdsEscrow)
      OBVIOUS
    <3>3. PICK n \in Nat : n = Cardinality(rows)
      BY RowsCounted DEF holdsEscrow
    <3>4. QED
      BY <3>1, <3>2, <3>3, SeenTyped DEF Count
  <2>5. QED
    BY <2>1, <2>2, <2>3, <2>4
<1>3. saved' \in SavedType
  <2>1. CASE LookupContract
    <3>1. PICK c \in {0} \cup Ids : saved' = [saved EXCEPT !.index = c]
      BY <2>1, LookupIs DEF LookupContract, resolveContractIndex, TypeInv, Valid
    <3>2. QED
      BY <3>1 DEF SavedType
  <2>2. CASE ~LookupContract
    BY <2>2 DEF ReadGas, ReadEscrowGas, CountKeys, ListOrders, book
  <2>3. QED
    BY <2>1, <2>2
<1>4. StepInv'
  BY <1>1 DEF TypeInv, StepInv, Sending
<1>5. /\ pending' \in [Steps -> {0} \cup Ids] /\ lost' \subseteq Ids
      /\ pc' \in Awaits /\ step' \in Steps \cup {"none"} /\ cur' \in {0} \cup Ids
  BY <1>1 DEF TypeInv, TypeOK, Awaits
<1>6. QED
  BY <1>1, <1>2, <1>3, <1>4, <1>5, MovesTyped

LEMMA PlansTyped ==
    ASSUME TypeInv, tool = "contract", ContractPlan \/ Noted \/ RecountDeploy, UNCHANGED tool
    PROVE  TypeInv'
<1>1. PICK s \in {"none", "ISSUE", "MINT", "DEPLOY"}, n \in Nat : GoTo(Following(s, n), n)
  BY CountsTyped DEF ContractPlan, Noted, RecountDeploy, TypeInv, TypeOK
<1>2. /\ UNCHANGED <<fate, what, runs, pending, saved, lost, opts>> /\ cur' \in {0} \cup Ids
  BY DEF ContractPlan, Noted, RecountDeploy, wire, book, TypeInv, TypeOK
<1>3. QED
  BY <1>1, <1>2, FollowingIs, GoToTyped

LEMMA HeardTyped ==
    ASSUME TypeInv, tool = "contract", Deployed \/ Filled \/ Tombstoned, UNCHANGED tool
    PROVE  TypeInv'
<1>. seen \in SeenType /\ saved \in SavedType /\ cur \in Ids
  BY DEF TypeInv, TypeOK, SeenType, SavedType, StepInv, Deployed, Filled, Tombstoned
<1>1. UNCHANGED <<fate, what, runs, pending, lost, opts>> /\ cur' = 0
  BY DEF Deployed, Filled, Tombstoned, wire
<1>2. /\ pending' \in [Steps -> {0} \cup Ids] /\ lost' \subseteq Ids /\ cur' \in {0} \cup Ids
  BY <1>1 DEF TypeInv, TypeOK
<1>3. CASE Deployed
  <2>1. seen' \in SeenType
    BY <1>3, SeenTyped DEF Deployed
  <2>2. saved' \in SavedType
    BY <1>3 DEF Deployed, SavedType
  <2>3. pc' = "recount" /\ step' = step /\ step = "DEPLOY"
    BY <1>3 DEF Deployed
  <2>4. StepInv'
    BY <2>3 DEF TypeInv, StepInv, Sending
  <2>5. QED
    BY <1>1, <1>2, <2>1, <2>2, <2>3, <2>4, MovesTyped DEF TypeInv, TypeOK, Awaits
<1>4. CASE Filled
  <2>1. PICK n \in Nat : n = seen.start + FillBatch
    BY <1>4, Constants DEF Filled, FillBatch, Least, TypeInv, TypeOK, StepInv
  <2>2. seen' = [seen EXCEPT !.start = n] /\ saved' = [saved EXCEPT !.next = n]
    BY <1>4, <2>1 DEF Filled
  <2>3. seen' \in SeenType
    BY <2>2, SeenTyped
  <2>4. saved' \in SavedType
    BY <2>2 DEF SavedType
  <2>5. pc' = "recount" /\ step' = step
    BY <1>4 DEF Filled
  <2>6. StepInv'
    BY <1>4, <2>5 DEF TypeInv, StepInv, Sending, Filled
  <2>7. QED
    BY <1>1, <1>2, <2>3, <2>4, <2>5, <2>6, MovesTyped DEF TypeInv, TypeOK, Awaits
<1>5. CASE Tombstoned
  <2>1. saved' \in SavedType
    BY <1>5 DEF Tombstoned, SavedType
  <2>2. pc' = "verify" /\ step' = "none" /\ seen' = seen
    BY <1>5 DEF Tombstoned
  <2>3. StepInv'
    BY <2>2 DEF StepInv, Sending
  <2>4. pc' \in Awaits /\ step' \in Steps \cup {"none"} /\ seen' \in SeenType
    BY <2>2 DEF Awaits
  <2>5. QED
    BY <1>1, <1>2, <2>1, <2>3, <2>4, MovesTyped
<1>6. QED
  BY <1>3, <1>4, <1>5

\* The fill's recount stops, goes round or goes on.
LEMMA RecountFillTyped ==
    ASSUME TypeInv, tool = "contract", RecountFill, UNCHANGED tool
    PROVE  TypeInv'
<1>1. PICK n \in countLiveKeys(seen.index) :
        IF Stops(seen.live, n)
        THEN Exit
        ELSE IF n < Keys
        THEN /\ pc' = "submit"
             /\ seen' = [seen EXCEPT !.live = n, !.rounds = @ + 1]
             /\ UNCHANGED <<opts, step, cur>>
        ELSE GoTo(Following(step, n), n) /\ UNCHANGED <<opts, cur>>
  BY DEF RecountFill
<1>2. n \in Nat /\ step = "fill" /\ UNCHANGED <<fate, what, runs, pending, saved, lost>>
  BY CountsTyped DEF RecountFill, TypeInv, wire, book
<1>3. /\ pending' \in [Steps -> {0} \cup Ids] /\ saved' \in SavedType /\ lost' \subseteq Ids
      /\ seen \in SeenType /\ cur \in {0} \cup Ids /\ step \in Steps \cup {"none"}
  BY <1>2 DEF TypeInv, TypeOK, SavedType, SeenType
<1>4. CASE Stops(seen.live, n)
  BY <1>1, <1>2, <1>3, <1>4, ExitTyped
<1>5. CASE ~Stops(seen.live, n) /\ n < Keys
  <2>1. PICK m \in Nat : m = seen.rounds + 1
    BY <1>3 DEF SeenType
  <2>2. seen' = [seen EXCEPT !.live = n, !.rounds = m]
    <3>1. seen' = [seen EXCEPT !.live = n, !.rounds = @ + 1]
      BY <1>1, <1>5
    <3>2. QED
      BY <1>3, <2>1, <3>1 DEF SeenType
  <2>3. seen' \in SeenType /\ seen'.live = n
    BY <1>2, <1>3, <2>1, <2>2, RoundTyped
  <2>4. pc' = "submit" /\ UNCHANGED <<opts, step, cur>>
    BY <1>1, <1>5
  <2>5. StepInv'
    BY <1>2, <1>5, <2>3, <2>4 DEF TypeInv, StepInv, Sending
  <2>6. pc' \in Awaits
    BY <2>4 DEF Awaits
  <2>7. QED
    BY <1>2, <1>3, <2>3, <2>4, <2>5, <2>6, MovesTyped
<1>6. CASE ~Stops(seen.live, n) /\ ~(n < Keys)
  <2>1. GoTo(Following("fill", n), n) /\ UNCHANGED <<opts, cur>>
    BY <1>1, <1>2, <1>6
  <2>2. QED
    BY <1>2, <1>3, <1>6, <2>1, FollowingIs, GoToTyped
<1>7. QED
  BY <1>4, <1>5, <1>6

\* Recounting the orders stops, goes round or goes on, on a list that was read.
LEMMA RecountDoes ==
    ASSUME TypeInv, RecountOrders
    PROVE  \/ Exit
           \/ \E rows \in listRows(holdsEscrow), m \in Nat :
                /\ seen' = [seen EXCEPT !.live = Cardinality(rows), !.misread = (rows # holdsEscrow),
                                         !.rounds = m]
                /\ IF Cardinality(rows) < Orders
                   THEN pc' = "submit" /\ UNCHANGED step
                   ELSE pc' = "verify" /\ step' = "none"
                /\ UNCHANGED <<opts, cur>>
<1>1. PICK rows \in listRows(holdsEscrow) :
        \/ Exit
        \/ /\ seen' = [Count(rows) EXCEPT !.rounds = @ + 1]
           /\ IF Cardinality(rows) < Orders
              THEN pc' = "submit" /\ UNCHANGED step
              ELSE pc' = "verify" /\ step' = "none"
           /\ UNCHANGED <<opts, cur>>
  BY DEF RecountOrders
<1>2. PICK m \in Nat : m = seen.rounds + 1
  BY DEF TypeInv, TypeOK
<1>3. DOMAIN seen = {"token", "gas", "index", "live", "start", "rounds", "misread"}
  BY DEF TypeInv, TypeOK
<1>4. Count(rows).rounds = seen.rounds
  BY <1>3 DEF Count
<1>5. [Count(rows) EXCEPT !.rounds = @ + 1] =
        [seen EXCEPT !.live = Cardinality(rows), !.misread = (rows # holdsEscrow), !.rounds = m]
  BY <1>2, <1>4 DEF Count
<1>6. QED
  BY <1>1, <1>5

LEMMA EscrowTyped ==
    ASSUME TypeInv, tool = "escrow", EscrowPlan \/ Posted \/ RecountOrders, UNCHANGED tool
    PROVE  TypeInv'
<1>. seen \in SeenType
  BY DEF TypeInv, TypeOK, SeenType
<1>1. UNCHANGED <<fate, what, runs, pending, saved, lost>>
  BY DEF EscrowPlan, Posted, RecountOrders, wire, book
<1>2. /\ pending' \in [Steps -> {0} \cup Ids] /\ saved' \in SavedType /\ lost' \subseteq Ids
  BY <1>1 DEF TypeInv, TypeOK, SavedType
<1>3. CASE RecountOrders /\ Exit
  BY <1>1, <1>2, <1>3, ExitTyped
<1>4. CASE \/ EscrowPlan \/ Posted
           \/ RecountOrders /\ ~Exit
  <2>1. seen' \in SeenType
    <3>1. CASE EscrowPlan
      <4>1. PICK one \in Nat : one = 1
        OBVIOUS
      <4>2. seen' = [seen EXCEPT !.rounds = one]
        BY <3>1, <4>1 DEF EscrowPlan
      <4>3. QED
        BY <4>2, SeenTyped
    <3>2. CASE Posted
      BY <3>2 DEF Posted
    <3>3. CASE RecountOrders /\ ~Exit
      <4>1. PICK rows \in listRows(holdsEscrow), m \in Nat :
              seen' = [seen EXCEPT !.live = Cardinality(rows), !.misread = (rows # holdsEscrow),
                                   !.rounds = m]
        BY <3>3, RecountDoes
      <4>2. PICK n \in Nat, b \in BOOLEAN : n = Cardinality(rows) /\ b = (rows # holdsEscrow)
        BY RowsCounted DEF holdsEscrow
      <4>3. seen' = [seen EXCEPT !.live = n, !.misread = b, !.rounds = m]
        BY <4>1, <4>2
      <4>4. QED
        BY <4>3 DEF SeenType
    <3>4. QED
      BY <1>4, <3>1, <3>2, <3>3
  <2>2. /\ opts' = opts /\ cur' \in {0} \cup Ids
        /\ pc' \in {"submit", "verify", "recount"}
        /\ step' \in {"none", "ORDER"} /\ (pc' # "verify" => step' = "ORDER")
    <3>1. CASE EscrowPlan \/ Posted
      BY <3>1 DEF EscrowPlan, Posted, TypeInv, TypeOK, StepInv
    <3>2. CASE RecountOrders /\ ~Exit
      <4>1. step = "ORDER" /\ cur \in {0} \cup Ids
        BY <3>2 DEF RecountOrders, TypeInv, TypeOK, StepInv
      <4>2. QED
        BY <3>2, <4>1, RecountDoes
    <3>3. QED
      BY <1>4, <3>1, <3>2
  <2>3. StepInv'
    BY <2>2 DEF StepInv, Sending
  <2>4. pc' \in Awaits /\ step' \in Steps \cup {"none"}
    BY <2>2, Constants DEF Awaits
  <2>5. QED
    BY <1>1, <1>2, <2>1, <2>2, <2>3, <2>4, MovesTyped
<1>5. QED
  BY <1>3, <1>4 DEF EscrowPlan, Posted, RecountOrders

-----------------------------------------------------------------------------
(* The steps of the specification, in groups.                              *)

Waits == Remember \/ Resolved \/ TimesOut \/ Recheck
Clears == ClearPending \/ SettlePending
Reads == ReadGas \/ ReadEscrowGas \/ LookupContract \/ CountKeys \/ ListOrders
PlansContract ==
    /\ tool = "contract"
    /\ ContractPlan \/ Noted \/ RecountDeploy \/ Deployed \/ Filled \/ Tombstoned \/ RecountFill
PlansOrders == tool = "escrow" /\ (EscrowPlan \/ Posted \/ RecountOrders)

LEMMA NextIs ==
    ASSUME Next
    PROVE  /\ UNCHANGED tool
           /\ \/ Leaves \/ Clears \/ Waits \/ Chain \/ Start
              \/ ((ReadGas \/ LookupContract \/ CountKeys) /\ tool = "contract")
              \/ ((ReadEscrowGas \/ ListOrders) /\ tool = "escrow")
              \/ Accepts \/ PlansContract \/ PlansOrders
<1>1. UNCHANGED tool /\ (Start \/ Run \/ Killed \/ TornFile \/ Chain)
  BY DEF Next
<1>2. CASE tool = "contract" /\ ContractRun
  BY <1>1, <1>2 DEF ContractRun, Leaves, Accepts, PlansContract
<1>3. CASE tool = "escrow" /\ EscrowRun
  BY <1>1, <1>3 DEF EscrowRun, Leaves, Accepts, PlansOrders
<1>4. CASE \/ Refuses \/ ClearPending \/ SettlePending
           \/ AnswerLost \/ Remember \/ BuildFails \/ Resolved \/ WaitFails \/ TimesOut \/ Recheck
  BY <1>1, <1>4 DEF Leaves, Clears, Waits
<1>5. CASE Start \/ Killed \/ TornFile \/ Chain
  BY <1>1, <1>5 DEF Leaves
<1>6. QED
  BY <1>1, <1>2, <1>3, <1>4, <1>5 DEF Run

LEMMA TypeStep == TypeInv /\ [Next]_toolVars => TypeInv'
<1> SUFFICES ASSUME TypeInv, [Next]_toolVars PROVE TypeInv'
  OBVIOUS
<1>1. CASE UNCHANGED toolVars
  BY <1>1 DEF toolVars, vars, TypeInv, TypeOK, StepInv
<1>2. CASE Next
  <2>1. QED
    BY <1>2, NextIs, LeavesTyped, AcceptsTyped, SettleTyped, WaitTyped, ChainTyped, StartTyped, ReadsTyped,
       PlansTyped, HeardTyped, RecountFillTyped, EscrowTyped
       DEF Clears, Waits, PlansContract, PlansOrders
<1>3. QED
  BY <1>1, <1>2

LEMMA TypeInit == Init => TypeInv
<1> SUFFICES ASSUME Init PROVE TypeInv
  OBVIOUS
<1>1. /\ pending = [l \in Steps |-> 0] /\ saved = NoFile /\ opts = NoFlags
      /\ pc = "off" /\ step = "none" /\ cur = 0 /\ seen = NothingSeen /\ runs = 0 /\ lost = {}
      /\ tool \in {"contract", "escrow"}
  BY DEF Init
<1>2. PICK funded \in {0, 2} :
        /\ fate = [i \in Ids |-> IF i <= funded THEN "valid" ELSE "unused"]
        /\ what = [i \in Ids |->
                     IF i > funded THEN NoTx
                     ELSE [NoTx EXCEPT !.step = IF i = 1 THEN "ISSUE" ELSE "MINT"]]
  BY DEF Init
<1>3. fate \in [Ids -> Fates]
  BY <1>2 DEF Fates
<1>4. what \in [Ids -> TxType]
  <2>1. \A s \in {"ISSUE", "MINT"} : [NoTx EXCEPT !.step = s] \in TxType
    BY NoTxTyped, Constants DEF TxType, ContractSteps
  <2>2. QED
    BY <1>2, <2>1, NoTxTyped
<1>5. TypeOK
  BY <1>1, <1>3, <1>4, NothingTyped, NoFlagsTyped, NoFileTyped
     DEF TypeOK, TxType, SeenType, OptsType, SavedType, Awaits
<1>6. StepInv
  BY <1>1 DEF StepInv, Sending
<1>7. QED
  BY <1>5, <1>6 DEF TypeInv

(* The resume file, the ledger and the run name only transactions that     *)
(* exist, and no count goes below zero, whatever is killed, lost or torn.  *)
THEOREM TypeCorrect == Spec => []TypeOK
<1>1. TypeInv => TypeOK
  BY DEF TypeInv
<1>2. QED
  BY <1>1, TypeInit, TypeStep, PTL DEF Spec

-----------------------------------------------------------------------------
(* What each group of steps does to the chain and to the ledger.           *)

Quiet ==
    \/ ((ReadGas \/ LookupContract \/ CountKeys) /\ tool = "contract")
    \/ ((ReadEscrowGas \/ ListOrders) /\ tool = "escrow")
    \/ PlansContract \/ PlansOrders

LEMMA ChainDoes ==
    ASSUME TypeInv, Chain
    PROVE  /\ UNCHANGED <<what, pending, pc, step, cur, seen, lost>>
           /\ \A i \in Ids :
                /\ fate'[i] = "sent" => fate[i] = "sent"
                /\ fate'[i] = "unused" <=> fate[i] = "unused"
                /\ fate'[i] = "valid" => fate[i] \in {"sent", "valid"}
                /\ fate'[i] = "released" => fate[i] = "released" \/ what[i].step = "ORDER"
                /\ pc # "off" /\ fate[i] = "valid" /\ what[i].step # "ORDER" => fate'[i] = "valid"
                /\ pc # "off" /\ fate[i] \in {"valid", "released"} =>
                       fate'[i] \in {"valid", "released"}
<1>. fate \in [Ids -> Fates]
  BY DEF TypeInv, TypeOK
<1>1. ASSUME NEW j \in Ids, NEW v \in {"valid", "invalid", "evicted"}, Settles(j, v)
      PROVE  fate[j] = "sent" /\ fate' = [fate EXCEPT ![j] = v]
             /\ UNCHANGED <<what, pending, pc, step, cur, seen, lost>>
  BY <1>1 DEF Settles
<1>2. ASSUME NEW j \in Ids, Release(j)
      PROVE  fate[j] = "valid" /\ what[j].step = "ORDER" /\ fate' = [fate EXCEPT ![j] = "released"]
             /\ UNCHANGED <<what, pending, pc, step, cur, seen, lost>>
  BY <1>2 DEF Release
<1>3. CASE Regenesis
  BY <1>3 DEF Regenesis, Indexed
<1>4. CASE \E j \in Ids : Release(j)
  BY <1>2, <1>4
<1>5. CASE \E j \in Ids : \E v \in {"valid", "invalid", "evicted"} : Settles(j, v)
  BY <1>1, <1>5
<1>6. QED
  BY <1>3, <1>4, <1>5 DEF Chain, IndexTx, Evicted

LEMMA LeavesDoes ==
    ASSUME TypeInv, Leaves
    PROVE  /\ Exit /\ UNCHANGED <<fate, what>>
           /\ lost \subseteq lost'
           /\ pc = "accepted" => cur \in lost' \/ cur \notin Unsettled
           /\ pending' = pending \/ Unsettled \subseteq lost'
<1>1. Exit /\ UNCHANGED <<fate, what>>
  BY DEF Leaves, Refuses, BuildFails, AnswerLost, WaitFails, OverBudget, LookupFails, IssueRefused,
     Blocked, PlanOnly, DeployUnverified, ContractVerified, ListFails, EscrowBlocked,
     EscrowPlanOnly, EscrowVerified, Killed, TornFile, wire
<1>2. lost \subseteq lost' /\ (pending' = pending \/ Unsettled \subseteq lost')
  BY DEF Leaves, Refuses, BuildFails, AnswerLost, WaitFails, OverBudget, LookupFails, IssueRefused,
     Blocked, PlanOnly, DeployUnverified, ContractVerified, ListFails, EscrowBlocked,
     EscrowPlanOnly, EscrowVerified, Killed, TornFile, book
<1>3. ASSUME pc = "accepted", ~TornFile PROVE cur \in lost'
  BY <1>3 DEF Leaves, Refuses, BuildFails, AnswerLost, WaitFails, OverBudget, LookupFails,
     IssueRefused, Blocked, PlanOnly, DeployUnverified, ContractVerified, ListFails, EscrowBlocked,
     EscrowPlanOnly, EscrowVerified, Killed
<1>4. ASSUME TornFile PROVE Unsettled \subseteq lost'
  BY <1>4 DEF TornFile
<1>5. QED
  BY <1>1, <1>2, <1>3, <1>4

LEMMA QuietDoes ==
    ASSUME TypeInv, Quiet
    PROVE  /\ UNCHANGED <<fate, what, pending, lost>>
           /\ pc \in Planning /\ pc' \in Planning \cup {"off"}
           /\ pc' \notin Sending \cup {"heard"}
           /\ pc' = "off" => seen'.index = 0
<1>1. CASE ReadGas \/ LookupContract \/ CountKeys \/ ReadEscrowGas \/ ListOrders
  BY <1>1 DEF ReadGas, LookupContract, CountKeys, ReadEscrowGas, ListOrders, wire, book, Planning,
     Sending
<1>2. CASE ContractPlan \/ Noted \/ RecountDeploy \/ Deployed \/ Filled \/ Tombstoned
  BY <1>2 DEF ContractPlan, Noted, RecountDeploy, Deployed, Filled, Tombstoned, GoTo, wire, book,
     Planning, Sending
<1>3. CASE RecountFill \/ EscrowPlan \/ Posted \/ RecountOrders
  BY <1>3, NothingTyped DEF RecountFill, EscrowPlan, Posted, RecountOrders, GoTo, Exit, wire, book,
     Planning, Sending
<1>4. QED
  BY <1>1, <1>2, <1>3 DEF Quiet, PlansContract, PlansOrders

LEMMA StartDoes ==
    ASSUME Start
    PROVE  /\ UNCHANGED <<fate, what, pending, lost>>
           /\ pc' = "settle" /\ step' = "none" /\ seen' = NothingSeen
BY DEF Start, wire, book

LEMMA WaitDoes ==
    ASSUME TypeInv, Waits
    PROVE  /\ UNCHANGED <<fate, what, lost>> /\ pc \in Sending
           /\ \/ pc = "accepted" /\ pc' = "waiting" /\ pending' = [pending EXCEPT ![step] = cur]
                 /\ UNCHANGED <<step, cur, seen>>
              \/ pc' = "heard" /\ fate[cur] \in {"valid", "released"}
                 /\ pending' = [pending EXCEPT ![step] = 0] /\ UNCHANGED <<step, cur, seen>>
              \/ pc' = "off" /\ Exit /\ fate[cur] # "sent" /\ pc # "accepted"
                 /\ pending' = [pending EXCEPT ![step] = 0]
              \/ pc' = "off" /\ Exit /\ pending' = pending /\ pc # "accepted"
              \/ pc' = "recheck" /\ UNCHANGED <<pending, step, cur, seen>> /\ pc # "accepted"
<1>1. CASE Remember
  BY <1>1 DEF Remember, rememberPending, wire, Sending
<1>2. CASE Resolved
  BY <1>2 DEF Resolved, requireValid, forgetPending, Indexed, wire, Sending, Exit, proc
<1>3. CASE TimesOut
  BY <1>3 DEF TimesOut, wire, book, Sending
<1>4. CASE Recheck
  BY <1>4 DEF Recheck, forgetPending, wire, Sending, Exit, proc
<1>5. QED
  BY <1>1, <1>2, <1>3, <1>4 DEF Waits

LEMMA ClearsDoes ==
    ASSUME TypeInv, Clears
    PROVE  /\ UNCHANGED <<fate, what>> /\ pc = "settle" /\ pc' \in {"token", "off"}
           /\ lost \subseteq lost'
           /\ \A i \in Ids : (fate[i] = "sent" /\ \E l \in Steps : pending[l] = i) =>
                  \/ i \in lost'
                  \/ pc' = "off" /\ \E l \in Steps : pending'[l] = i
           /\ pc' = "token" => UNCHANGED <<step, cur, seen>>
           /\ pc' = "off" => Exit
<1>. pending \in [Steps -> {0} \cup Ids] /\ 0 \notin Ids
  BY Constants DEF TypeInv, TypeOK, Ids
<1>1. CASE ClearPending
  BY <1>1 DEF ClearPending, wire, InFlight, Unsettled
<1>2. CASE SettlePending
  <2>1. PICK settled \in SUBSET Carried :
          /\ pending' = [l \in Steps |-> IF l \in settled THEN 0 ELSE pending[l]]
          /\ IF settled = InFlight THEN pc' = "token" /\ UNCHANGED proc ELSE Exit
    BY <1>2 DEF SettlePending
  <2>2. \A l \in settled : fate[pending[l]] # "sent"
    BY DEF Carried, Indexed
  <2>3. ASSUME NEW i \in Ids, fate[i] = "sent", NEW l \in Steps, pending[l] = i
        PROVE  pc' = "off" /\ pending'[l] = i
    <3>1. l \in InFlight /\ l \notin settled
      BY <2>2, <2>3 DEF InFlight
    <3>2. QED
      BY <2>1, <2>3, <3>1 DEF Exit
  <2>4. UNCHANGED <<fate, what, lost>> /\ pc = "settle"
    BY <1>2 DEF SettlePending, wire
  <2>5. QED
    BY <2>1, <2>3, <2>4 DEF Exit, proc
<1>3. QED
  BY <1>1, <1>2 DEF Clears

\* The steps, as the invariants below meet them.
LEMMA StepIs ==
    ASSUME [Next]_toolVars
    PROVE  \/ UNCHANGED toolVars
           \/ UNCHANGED tool /\ (Leaves \/ Clears \/ Waits \/ Chain \/ Start \/ Quiet \/ Accepts)
BY NextIs DEF Quiet

-----------------------------------------------------------------------------
(* Work in flight.  The ledger, or the run itself, knows of whatever is    *)
(* unindexed and not lost; a run plans only when that is nothing, and      *)
(* while it sends it is the one transaction being sent.                    *)

WireInv ==
    /\ WireIsKnown
    /\ OneInFlight
    /\ pc \in Planning => Unsettled \subseteq lost
    /\ pc \in Sending => Unsettled \ lost \subseteq {cur}

LEMMA WireInit == Init => WireInv
<1> SUFFICES ASSUME Init PROVE WireInv
  OBVIOUS
<1>1. Unsettled = {} /\ pc = "off"
  BY DEF Init, Unsettled
<1>2. QED
  BY <1>1 DEF WireInv, WireIsKnown, OneInFlight, Planning, Sending

LEMMA WireStep == TypeInv /\ WireInv /\ [Next]_toolVars => WireInv'
<1> SUFFICES ASSUME TypeInv, WireInv, [Next]_toolVars PROVE WireInv'
  OBVIOUS
<1>. USE DEF WireInv, WireIsKnown, OneInFlight
<1>1. CASE UNCHANGED toolVars
  BY <1>1 DEF toolVars, vars, Unsettled, Planning, Sending
<1>2. CASE Leaves
  <2>1. /\ pc' = "off" /\ Unsettled' = Unsettled /\ lost \subseteq lost'
        /\ pc = "accepted" => cur \in lost' \/ cur \notin Unsettled
        /\ pending' = pending \/ Unsettled \subseteq lost'
    BY <1>2, LeavesDoes DEF Exit, Unsettled
  <2>2. QED
    BY <2>1 DEF Planning, Sending
<1>3. CASE Clears
  <2>1. Unsettled' = Unsettled /\ lost \subseteq lost' /\ pc = "settle" /\ pc' \in {"token", "off"}
    BY <1>3, ClearsDoes DEF Unsettled
  <2>2. \A i \in Unsettled : \/ i \in lost'
                             \/ pc' = "off" /\ \E l \in Steps : pending'[l] = i
    BY <1>3, <2>1, ClearsDoes DEF Unsettled
  <2>3. QED
    BY <2>1, <2>2 DEF Planning, Sending
<1>4. CASE Waits
  <2>1. Unsettled' = Unsettled /\ lost' = lost /\ pc \in Sending /\ Unsettled \ lost \subseteq {cur}
    BY <1>4, WaitDoes DEF Unsettled
  <2>2. CASE pc = "accepted" /\ pc' = "waiting" /\ pending' = [pending EXCEPT ![step] = cur] /\ cur' = cur
    <3>1. step \in Steps /\ pending \in [Steps -> {0} \cup Ids]
      BY <2>1 DEF TypeInv, TypeOK, StepInv
    <3>2. pending'[step] = cur
      BY <2>2, <3>1
    <3>3. \A i \in Unsettled \ lost : \E l \in Steps : pending'[l] = i
      BY <2>1, <3>1, <3>2
    <3>4. QED
      BY <2>1, <2>2, <3>3 DEF Planning, Sending
  <2>3. CASE pc' \in {"heard", "off"} /\ fate[cur] # "sent"
    <3>1. Unsettled \subseteq lost
      BY <2>1, <2>3 DEF Unsettled
    <3>2. QED
      BY <2>1, <2>3, <3>1 DEF Planning, Sending
  <2>4. CASE pc' = "off" /\ pending' = pending /\ pc # "accepted"
    BY <2>1, <2>4 DEF Planning, Sending
  <2>5. CASE pc' = "recheck" /\ pending' = pending /\ pc # "accepted" /\ cur' = cur
    BY <2>1, <2>5 DEF Planning, Sending
  <2>6. QED
    BY <1>4, <2>2, <2>3, <2>4, <2>5, WaitDoes
<1>5. CASE Chain
  <2>1. Unsettled' \subseteq Unsettled
    BY <1>5, ChainDoes DEF Unsettled
  <2>2. UNCHANGED <<pending, pc, cur, lost>>
    BY <1>5, ChainDoes
  <2>3. QED
    BY <2>1, <2>2 DEF Planning, Sending
<1>6. CASE Start
  <2>1. Unsettled' = Unsettled /\ UNCHANGED <<pending, lost>> /\ pc' = "settle" /\ pc = "off"
    BY <1>6, StartDoes DEF Unsettled, Start
  <2>2. QED
    BY <2>1 DEF Planning, Sending
<1>7. CASE Quiet
  <2>1. /\ Unsettled' = Unsettled /\ UNCHANGED <<pending, lost>> /\ Unsettled \subseteq lost
        /\ pc' \in Planning \cup {"off"} /\ pc' \notin Sending
    BY <1>7, QuietDoes DEF Unsettled
  <2>2. QED
    BY <2>1
<1>8. CASE Accepts
  <2>1. /\ cur' \in Ids /\ fate' = [fate EXCEPT ![cur'] = "sent"] /\ pc = "submit"
        /\ pc' = "accepted" /\ UNCHANGED <<pending, lost>> /\ fate \in [Ids -> Fates]
    BY <1>8, AcceptsDoes DEF TypeInv, TypeOK
  <2>2. Unsettled \subseteq lost
    BY <2>1 DEF Planning
  <2>3. Unsettled' \subseteq Unsettled \cup {cur'}
    BY <2>1 DEF Unsettled
  <2>4. QED
    BY <2>1, <2>2, <2>3 DEF Planning, Sending
<1>9. QED
  BY <1>1, <1>2, <1>3, <1>4, <1>5, <1>6, <1>7, <1>8, StepIs

\* Transactions are numbered in the order they are broadcast in.
InOrder == \A i, j \in Ids : i < j /\ fate[j] # "unused" => fate[i] # "unused"

LEMMA OrderInit == Init => InOrder
<1> SUFFICES ASSUME Init, NEW i \in Ids, NEW j \in Ids, i < j, fate[j] # "unused"
             PROVE  fate[i] # "unused"
  BY DEF InOrder
<1>1. PICK funded \in {0, 2} : fate = [k \in Ids |-> IF k <= funded THEN "valid" ELSE "unused"]
  BY DEF Init
<1>2. i \in Nat /\ j \in Nat /\ funded \in Nat
  BY <1>1, Constants DEF Ids
<1>3. QED
  BY <1>1, <1>2

LEMMA InBelow == ASSUME NEW i \in Nat, NEW n \in Nat, 1 <= i, i < n PROVE i \in 1..(n - 1) /\ i # n
OBVIOUS

LEMMA OrderStep == TypeInv /\ InOrder /\ [Next]_toolVars => InOrder'
<1> SUFFICES ASSUME TypeInv, InOrder, [Next]_toolVars PROVE InOrder'
  OBVIOUS
<1>1. CASE \A i \in Ids : fate'[i] = "unused" <=> fate[i] = "unused"
  BY <1>1 DEF InOrder
<1>2. CASE Accepts
  <2>1. /\ cur' \in Ids /\ fate' = [fate EXCEPT ![cur'] = "sent"]
        /\ \A j \in 1..(cur' - 1) : fate[j] # "unused"
        /\ DOMAIN fate = Ids
    BY <1>2, AcceptsDoes DEF TypeInv, TypeOK
  <2>2. SUFFICES ASSUME NEW i \in Ids, NEW j \in Ids, i < j, fate'[j] # "unused"
                 PROVE  fate'[i] # "unused"
    BY DEF InOrder
  <2>3. i \in Nat /\ j \in Nat /\ 1 <= i /\ cur' \in Nat
    BY <2>1, Constants DEF Ids
  <2>4. CASE j = cur'
    <3>0. i < cur'
      BY <2>2, <2>4
    <3>1. i \in 1..(cur' - 1) /\ i # cur'
      BY <2>3, <3>0, InBelow
    <3>2. fate[i] # "unused"
      BY <2>1, <3>1
    <3>3. fate'[i] = fate[i]
      BY <2>1, <3>1
    <3>4. QED
      BY <3>2, <3>3
  <2>5. CASE j # cur'
    <3>1. fate'[j] = fate[j]
      BY <2>1, <2>5
    <3>2. fate[i] # "unused"
      BY <2>2, <3>1 DEF InOrder
    <3>3. CASE i = cur'
      BY <2>1, <3>3
    <3>4. CASE i # cur'
      BY <2>1, <3>2, <3>4
    <3>5. QED
      BY <3>3, <3>4
  <2>6. QED
    BY <2>4, <2>5
<1>3. CASE UNCHANGED toolVars
  BY <1>1, <1>3 DEF toolVars, vars
<1>4. QED
  BY <1>1, <1>2, <1>3, StepIs, LeavesDoes, ClearsDoes, WaitDoes, ChainDoes, StartDoes, QuietDoes

\* What the node accepts is the last of them.
LEMMA AcceptsLast ==
    ASSUME TypeInv, InOrder, Accepts
    PROVE  \A i \in Ids : fate[i] # "unused" => i < cur'
<1>1. cur' \in Ids /\ fate[cur'] = "unused"
  BY AcceptsDoes
<1>2. Ids \subseteq Nat
  BY Constants DEF Ids
<1>3. QED
  BY <1>1, <1>2 DEF InOrder

LEMMA WireAlways == Spec => [](TypeInv /\ WireInv /\ InOrder)
BY TypeInit, TypeStep, WireInit, WireStep, OrderInit, OrderStep, PTL DEF Spec

(* Re-running either tool never puts a second transaction of its own on the *)
(* wire while the first one is still unindexed, whose txid it had.          *)
THEOREM NoTwinInFlight == Spec => []OneInFlight
<1>1. WireInv => OneInFlight
  BY DEF WireInv
<1>2. QED
  BY <1>1, WireAlways, PTL

(* Whatever is unindexed is on the ledger, being submitted, or of a txid    *)
(* that was lost or discarded: what the settling of a new run relies on.    *)
THEOREM LedgerKnowsTheWire == Spec => []WireIsKnown
<1>1. WireInv => WireIsKnown
  BY DEF WireInv
<1>2. QED
  BY <1>1, WireAlways, PTL

-----------------------------------------------------------------------------
(* One contract.  A run that has read the chain and found no contract has  *)
(* no DEPLOY out but the one it is sending, unless what it read was short, *)
(* and then what it sends is blind; the index it holds is a valid DEPLOY's *)
(* and what executes on a contract holds one.                              *)

Deploys == {i \in Ids : fate[i] \in {"sent", "valid"} /\ what[i].step = "DEPLOY"}

Looked == Sending \cup {"count", "plan", "submit", "heard"}

Deploying == step = "DEPLOY" /\ pc \in Sending \cup {"heard"}

OneDeploy == \A i, j \in Deploys \ lost : i < j => what[j].blind

NoneButMine ==
    (tool = "contract" /\ pc \in Looked /\ seen.index = 0 /\ ~seen.misread) =>
        \A i \in Deploys \ lost : Deploying /\ i = cur

DeploysOnce ==
    (tool = "contract" /\ pc \in Sending \cup {"submit"} /\ step = "DEPLOY") => seen.index = 0

SentIsOfStep ==
    /\ pc \in Sending \cup {"heard"} => what[cur].step = step
    /\ pc = "heard" => fate[cur] \in {"valid", "released"}
    /\ \A i \in Ids : fate[i] = "released" => what[i].step = "ORDER"

IndexIsDeployed ==
    seen.index # 0 => pc # "off" /\ seen.index \in Valid("DEPLOY")

HasContract ==
    (tool = "contract" /\ (pc = "recount" \/
         (pc \in Sending \cup {"submit", "heard"} /\ step \in {"fill", "remove"}))) =>
        seen.index # 0

ContractInv ==
    OneDeploy /\ NoneButMine /\ DeploysOnce /\ SentIsOfStep /\ IndexIsDeployed /\ HasContract

LEMMA ContractInit == Init => ContractInv
<1> SUFFICES ASSUME Init PROVE ContractInv
  OBVIOUS
<1>1. pc = "off" /\ seen.index = 0
  BY NothingTyped DEF Init
<1>2. PICK funded \in {0, 2} :
        /\ fate = [i \in Ids |-> IF i <= funded THEN "valid" ELSE "unused"]
        /\ what = [i \in Ids |->
                     IF i > funded THEN NoTx
                     ELSE [NoTx EXCEPT !.step = IF i = 1 THEN "ISSUE" ELSE "MINT"]]
  BY DEF Init
<1>3. \A i \in Ids : what[i].step # "DEPLOY" /\ fate[i] # "released"
  BY <1>2 DEF NoTx
<1>4. Deploys = {}
  BY <1>3 DEF Deploys
<1>5. QED
  BY <1>1, <1>3, <1>4 DEF ContractInv, OneDeploy, NoneButMine, DeploysOnce, SentIsOfStep,
     IndexIsDeployed, HasContract, Looked, Sending

\* Leaving and starting forget the index.
LEMMA ContractLeaves ==
    ASSUME TypeInv, ContractInv, UNCHANGED <<fate, what, tool>>, lost \subseteq lost',
           seen' = NothingSeen, pc' \in {"off", "settle"}
    PROVE  ContractInv'
<1>1. Deploys' = Deploys /\ seen'.index = 0
  BY NothingTyped DEF Deploys
<1>2. QED
  BY <1>1 DEF ContractInv, OneDeploy, NoneButMine, DeploysOnce, SentIsOfStep, IndexIsDeployed,
     HasContract, Looked, Sending

LEMMA ContractWaits ==
    ASSUME TypeInv, ContractInv, Waits, UNCHANGED tool
    PROVE  ContractInv'
<1>1. CASE Exit
  BY <1>1, WaitDoes, ContractLeaves DEF Exit
<1>2. CASE ~Exit
  <2>1. /\ Deploys' = Deploys /\ UNCHANGED <<fate, what, lost, step, cur, seen>>
        /\ pc \in Sending /\ pc' \in Sending \cup {"heard"}
        /\ pc' = "heard" => fate[cur] \in {"valid", "released"}
    BY <1>2, WaitDoes DEF Deploys, Sending
  <2>2. Valid("DEPLOY")' = Valid("DEPLOY") /\ Deploying' = Deploying
    BY <2>1 DEF Valid, Deploying
  <2>3. pc # "off" /\ pc' # "off" /\ pc' # "recount" /\ pc \in Looked /\ pc' # "submit"
    BY <2>1 DEF Sending, Looked
  <2>4. QED
    BY <2>1, <2>2, <2>3 DEF ContractInv, OneDeploy, NoneButMine, DeploysOnce, SentIsOfStep,
       IndexIsDeployed, HasContract
<1>3. QED
  BY <1>1, <1>2

LEMMA ContractChain ==
    ASSUME TypeInv, ContractInv, Chain, UNCHANGED tool
    PROVE  ContractInv'
<1>. USE DEF ContractInv
<1>1. UNCHANGED <<what, pc, step, cur, seen, lost>> /\ Deploys' \subseteq Deploys
  BY ChainDoes DEF Deploys
<1>2. OneDeploy' /\ NoneButMine' /\ DeploysOnce' /\ HasContract'
  BY <1>1 DEF OneDeploy, NoneButMine, DeploysOnce, HasContract, Deploying
<1>3. SentIsOfStep'
  <2>1. pc = "heard" => cur \in Ids
    BY DEF TypeInv, StepInv
  <2>2. QED
    BY <1>1, <2>1, ChainDoes DEF SentIsOfStep
<1>4. IndexIsDeployed'
  BY <1>1, ChainDoes DEF IndexIsDeployed, Valid
<1>5. QED
  BY <1>2, <1>3, <1>4

LEMMA ContractAccepts ==
    ASSUME TypeInv, WireInv, InOrder, ContractInv, Accepts, UNCHANGED tool
    PROVE  ContractInv'
<1>. USE DEF ContractInv
<1>1. PICK t \in TxType : /\ t.step = step /\ what' = [what EXCEPT ![cur'] = t]
                          /\ tool = "contract" => t = Payload
  BY AcceptsDoes
<1>2. /\ pc = "submit" /\ pc' = "accepted" /\ cur' \in Ids /\ fate[cur'] = "unused"
      /\ fate' = [fate EXCEPT ![cur'] = "sent"] /\ UNCHANGED <<step, seen, lost>>
      /\ fate \in [Ids -> Fates] /\ DOMAIN what = Ids
  BY AcceptsDoes DEF TypeInv, TypeOK
<1>3. fate'[cur'] = "sent" /\ what'[cur'].step = step /\ \A i \in Ids \ {cur'} : fate'[i] = fate[i] /\ what'[i] = what[i]
  BY <1>1, <1>2
<1>4. Deploys' \subseteq Deploys \cup {cur'} /\ (step # "DEPLOY" => Deploys' \subseteq Deploys)
  BY <1>2, <1>3 DEF Deploys
<1>5. step = "DEPLOY" => tool = "contract" /\ seen.index = 0
  BY <1>2 DEF TypeInv, TypeOK, StepInv, DeploysOnce
<1>6. tool = "contract" /\ seen.index = 0 /\ ~seen.misread => Deploys \ lost = {}
  BY <1>2 DEF NoneButMine, Looked, Deploying, Sending
<1>7. OneDeploy'
  <2>1. SUFFICES ASSUME NEW i \in Deploys' \ lost, NEW j \in Deploys' \ lost, i < j
                 PROVE  what'[j].blind
    BY <1>2 DEF OneDeploy
  <2>2. \A k \in Deploys : k \in Ids /\ k < cur'
    BY AcceptsLast DEF Deploys
  <2>3. Ids \subseteq Nat /\ i \in Ids /\ j \in Ids
    BY <2>1, Constants DEF Ids, Deploys
  <2>4. CASE j = cur' /\ step = "DEPLOY"
    <3>1. i \in Deploys \ lost
      BY <1>2, <1>4, <2>1, <2>3, <2>4
    <3>2. seen.misread
      BY <1>5, <1>6, <2>4, <3>1
    <3>3. Payload = [NoTx EXCEPT !.step = step, !.blind = (step = "DEPLOY" /\ seen.misread)]
      BY <2>4 DEF Payload
    <3>4. Payload.blind
      BY <2>4, <3>2, <3>3 DEF NoTx
    <3>5. QED
      BY <1>1, <1>2, <1>5, <2>4, <3>4
  <2>5. CASE j # cur' \/ step # "DEPLOY"
    <3>1. j \in Deploys \ lost /\ j # cur'
      BY <1>2, <1>4, <2>1, <2>2, <2>3, <2>5
    <3>2. i \in Deploys \ lost
      BY <1>2, <1>4, <2>1, <2>2, <2>3, <3>1
    <3>3. what'[j] = what[j]
      BY <1>3, <2>3, <3>1
    <3>4. QED
      BY <2>1, <3>1, <3>2, <3>3 DEF OneDeploy
  <2>6. QED
    BY <2>4, <2>5
<1>8. NoneButMine'
  BY <1>2, <1>4, <1>6 DEF NoneButMine, Deploying, Sending
<1>9. DeploysOnce' /\ HasContract'
  BY <1>2 DEF DeploysOnce, HasContract, Sending
<1>10. SentIsOfStep'
  BY <1>2, <1>3 DEF SentIsOfStep, Sending
<1>11. IndexIsDeployed'
  BY <1>2, <1>3 DEF IndexIsDeployed, Valid
<1>12. QED
  BY <1>7, <1>8, <1>9, <1>10, <1>11

\* The steps of the contract tool's plan: what it goes on to is needed, and
\* an index is there before it is executed on.
LEMMA PlansDo ==
    ASSUME TypeInv, WireInv, ContractInv, Quiet, tool = "contract", pc' # "off"
    PROVE  /\ pc' \in {"lookup", "count", "plan", "submit", "recount", "verify"}
           /\ pc' \in {"count", "plan", "submit"} /\ seen'.index = 0 /\ ~seen'.misread =>
                  Deploys \subseteq lost
           /\ pc' = "submit" /\ step' = "DEPLOY" => seen'.index = 0
           /\ pc' = "recount" \/ (pc' = "submit" /\ step' \in {"fill", "remove"}) => seen'.index # 0
           /\ seen'.index # 0 => seen'.index \in Valid("DEPLOY")
<1>. seen \in SeenType /\ Unsettled \subseteq lost
  BY QuietDoes DEF TypeInv, TypeOK, SeenType, WireInv
<1>1. CASE ReadGas
  BY <1>1 DEF ReadGas, SeenType, ContractInv, IndexIsDeployed
<1>2. CASE LookupContract
  <2>1. PICK rows \in listRows(Valid("DEPLOY")) :
          /\ pc' = "count" /\ seen'.index = findDeployedContract(rows)
          /\ seen'.misread = (rows = {} /\ Valid("DEPLOY") # {})
    BY <1>2 DEF LookupContract, resolveContractIndex, SeenType
  <2>2. /\ seen'.index \in {0} \cup Valid("DEPLOY")
        /\ seen'.index = 0 /\ ~seen'.misread => Valid("DEPLOY") = {}
    BY <2>1, LookupIs DEF TypeInv
  <2>3. seen'.index = 0 /\ ~seen'.misread => Deploys \subseteq lost
    BY <2>2 DEF Deploys, Valid, Unsettled
  <2>4. QED
    BY <2>1, <2>2, <2>3
<1>3. CASE CountKeys
  <2>1. /\ pc = "count" /\ pc' = "plan" /\ seen'.index = seen.index
        /\ seen'.misread = seen.misread
    BY <1>3 DEF CountKeys, SeenType
  <2>2. QED
    BY <2>1 DEF ContractInv, NoneButMine, IndexIsDeployed, Looked, Deploying, Sending
<1>4. ASSUME NEW s \in {"none", "ISSUE", "MINT", "DEPLOY", "fill"}, NEW n \in Nat,
             GoTo(Following(s, n), n),
             \/ /\ s \in {"none", "ISSUE", "MINT"}
                /\ seen.index = 0 /\ ~seen.misread => Deploys \subseteq lost
             \/ s \in {"DEPLOY", "fill"} /\ seen.index # 0
      PROVE  /\ pc' \in {"submit", "verify"}
             /\ seen'.index = 0 /\ ~seen'.misread => Deploys \subseteq lost
             /\ pc' = "submit" /\ step' = "DEPLOY" => seen'.index = 0
             /\ pc' = "submit" /\ step' \in {"fill", "remove"} => seen'.index # 0
             /\ seen'.index = seen.index
  <2>1. seen'.index = seen.index /\ seen'.misread = seen.misread /\ step' = Following(s, n) /\ pc' \in {"submit", "verify"}
    BY <1>4 DEF GoTo, SeenType
  <2>2. QED
    BY <1>4, <2>1, FollowingIs
<1>5. CASE ContractPlan
  <2>1. seen.live \in Nat /\ pc = "plan" /\ GoTo(Following("none", seen.live), seen.live)
    BY <1>5 DEF ContractPlan, SeenType
  <2>2. seen.index = 0 /\ ~seen.misread => Deploys \subseteq lost
    BY <2>1 DEF ContractInv, NoneButMine, Looked, Deploying, Sending
  <2>3. QED
    BY <1>4, <2>1, <2>2 DEF ContractInv, IndexIsDeployed
<1>6. CASE Noted
  <2>1. /\ seen.live \in Nat /\ pc = "heard" /\ step \in {"ISSUE", "MINT"}
        /\ GoTo(Following(step, seen.live), seen.live)
    BY <1>6 DEF Noted, SeenType
  <2>2. seen.index = 0 /\ ~seen.misread => Deploys \subseteq lost
    BY <2>1 DEF ContractInv, NoneButMine, Looked, Deploying
  <2>3. QED
    BY <1>4, <2>1, <2>2 DEF ContractInv, IndexIsDeployed
<1>7. CASE RecountDeploy
  <2>1. PICK n \in Nat : GoTo(Following("DEPLOY", n), n)
    BY <1>7, CountsTyped DEF RecountDeploy, TypeInv
  <2>2. seen.index # 0
    BY <1>7 DEF RecountDeploy, ContractInv, HasContract
  <2>3. QED
    BY <1>4, <2>1, <2>2 DEF ContractInv, IndexIsDeployed
<1>8. CASE Deployed
  <2>1. /\ pc = "heard" /\ step = "DEPLOY" /\ seen'.index = cur /\ pc' = "recount" /\ cur \in Ids
    BY <1>8 DEF Deployed, SeenType, TypeInv, StepInv
  <2>2. cur \in Valid("DEPLOY") /\ cur # 0
    BY <2>1, Constants DEF ContractInv, SentIsOfStep, Valid, Ids
  <2>3. QED
    BY <2>1, <2>2
<1>9. CASE Filled \/ Tombstoned
  <2>1. pc = "heard" /\ step \in {"fill", "remove"} /\ seen'.index = seen.index /\ pc' \in {"recount", "verify"}
    BY <1>9 DEF Filled, Tombstoned, SeenType
  <2>2. QED
    BY <2>1 DEF ContractInv, HasContract, IndexIsDeployed
<1>10. CASE RecountFill
  <2>1. seen.index # 0 /\ step = "fill"
    BY <1>10 DEF RecountFill, ContractInv, HasContract
  <2>2. PICK n \in Nat :
          \/ pc' = "submit" /\ seen' = [seen EXCEPT !.live = n, !.rounds = @ + 1] /\ step' = step
          \/ GoTo(Following("fill", n), n)
    BY <1>10, <2>1, CountsTyped DEF RecountFill, TypeInv, Exit
  <2>3. CASE GoTo(Following("fill", n), n)
    BY <1>4, <2>1, <2>3 DEF ContractInv, IndexIsDeployed
  <2>4. CASE pc' = "submit" /\ seen' = [seen EXCEPT !.live = n, !.rounds = @ + 1] /\ step' = step
    <3>1. seen'.index = seen.index
      BY <2>4 DEF SeenType
    <3>2. QED
      BY <2>1, <2>4, <3>1 DEF ContractInv, IndexIsDeployed
  <2>5. QED
    BY <2>2, <2>3, <2>4
<1>11. QED
  BY <1>1, <1>2, <1>3, <1>5, <1>6, <1>7, <1>8, <1>9, <1>10 DEF Quiet, PlansContract, PlansOrders,
     TypeInv, TypeOK

\* The escrow tool holds no contract.
LEMMA OrdersDo ==
    ASSUME TypeInv, ContractInv, Quiet, tool = "escrow"
    PROVE  pc' = "off" \/ seen'.index = seen.index
<1>. seen \in SeenType
  BY DEF TypeInv, TypeOK, SeenType
<1>1. ReadEscrowGas \/ ListOrders \/ EscrowPlan \/ Posted \/ RecountOrders
  BY DEF Quiet, PlansContract, PlansOrders
<1>2. CASE ReadEscrowGas \/ ListOrders
  BY <1>2 DEF ReadEscrowGas, ListOrders, Count, SeenType
<1>3. CASE EscrowPlan \/ Posted
  BY <1>3 DEF EscrowPlan, Posted, SeenType
<1>4. CASE RecountOrders
  <2>1. CASE Exit
    BY <2>1 DEF Exit
  <2>2. CASE ~Exit
    <3>1. PICK rows \in listRows(holdsEscrow), m \in Nat :
            seen' = [seen EXCEPT !.live = Cardinality(rows), !.misread = (rows # holdsEscrow),
                                 !.rounds = m]
      BY <1>4, <2>2, RecountDoes
    <3>2. QED
      BY <3>1 DEF SeenType
  <2>3. QED
    BY <2>1, <2>2
<1>5. QED
  BY <1>1, <1>2, <1>3, <1>4

LEMMA ContractQuiet ==
    ASSUME TypeInv, WireInv, ContractInv, Quiet, UNCHANGED tool
    PROVE  ContractInv'
<1>. USE DEF ContractInv
<1>1. /\ UNCHANGED <<fate, what, lost>> /\ Deploys' = Deploys /\ Valid("DEPLOY")' = Valid("DEPLOY")
      /\ pc # "off" /\ pc' \notin Sending \cup {"heard"} /\ (pc' = "off" => seen'.index = 0)
  BY QuietDoes DEF Deploys, Valid, Planning
<1>2. OneDeploy' /\ SentIsOfStep'
  BY <1>1 DEF OneDeploy, SentIsOfStep
<1>3. CASE tool = "contract" /\ pc' # "off"
  BY <1>1, <1>2, <1>3, PlansDo DEF NoneButMine, DeploysOnce, HasContract, IndexIsDeployed, Looked
<1>4. CASE pc' = "off"
  BY <1>1, <1>2, <1>4 DEF NoneButMine, DeploysOnce, HasContract, IndexIsDeployed, Looked, Sending
<1>5. CASE tool = "escrow" /\ pc' # "off"
  BY <1>1, <1>2, <1>5, OrdersDo DEF NoneButMine, DeploysOnce, HasContract, IndexIsDeployed
<1>6. QED
  BY <1>3, <1>4, <1>5 DEF TypeInv, TypeOK

LEMMA ContractStep == TypeInv /\ WireInv /\ InOrder /\ ContractInv /\ [Next]_toolVars => ContractInv'
<1> SUFFICES ASSUME TypeInv, WireInv, InOrder, ContractInv, [Next]_toolVars PROVE ContractInv'
  OBVIOUS
<1>1. CASE UNCHANGED toolVars
  BY <1>1 DEF toolVars, vars, ContractInv, OneDeploy, NoneButMine, DeploysOnce, SentIsOfStep,
     IndexIsDeployed, HasContract, Deploys, Valid, Deploying
<1>2. CASE UNCHANGED tool /\ Leaves
  BY <1>2, LeavesDoes, ContractLeaves DEF Exit
<1>3. CASE UNCHANGED tool /\ Start
  BY <1>3, StartDoes, ContractLeaves
<1>4. CASE UNCHANGED tool /\ Clears
  <2>1. CASE pc' = "off"
    BY <1>4, <2>1, ClearsDoes, ContractLeaves DEF Exit
  <2>2. CASE pc' = "token"
    <3>1. /\ UNCHANGED <<fate, what, step, cur, seen>> /\ lost \subseteq lost' /\ pc = "settle"
          /\ Deploys' = Deploys /\ Valid("DEPLOY")' = Valid("DEPLOY")
      BY <1>4, <2>2, ClearsDoes DEF Deploys, Valid
    <3>2. QED
      BY <2>2, <3>1 DEF ContractInv, OneDeploy, NoneButMine, DeploysOnce, SentIsOfStep,
         IndexIsDeployed, HasContract, Looked, Sending
  <2>3. QED
    BY <1>4, <2>1, <2>2, ClearsDoes
<1>5. QED
  BY <1>1, <1>2, <1>3, <1>4, StepIs, ContractWaits, ContractChain, ContractAccepts, ContractQuiet

LEMMA ContractAlways == Spec => [](TypeInv /\ WireInv /\ ContractInv)
BY WireAlways, ContractInit, ContractStep, PTL DEF Spec

(* A chain gets one seed contract, however often the tool is killed around *)
(* its DEPLOY, the resume file is stale or torn, or a request fails: of    *)
(* two whose txid the tool had, the later was deployed on a lookup that    *)
(* answered without the first.                                             *)
THEOREM OneContractPerChain == Spec => []OneContract
<1>1. ContractInv => OneContract
  BY DEF ContractInv, OneDeploy, OneContract, Deploys, Valid
<1>2. QED
  BY <1>1, ContractAlways, PTL

(* An EXECUTE is only ever broadcast against a contract the chain carries. *)
THEOREM ExecutesAreOnChain == Spec => ExecutesHitTheContract
<1>. DEFINE Hits == \A i \in Ids :
              (fate[i] = "unused" /\ fate'[i] = "sent" /\ what'[i].step \in {"fill", "remove"}) =>
                  fate[what'[i].on] = "valid" /\ what[what'[i].on].step = "DEPLOY"
<1>1. TypeInv /\ WireInv /\ ContractInv /\ [Next]_toolVars => [Hits]_toolVars
  <2> SUFFICES ASSUME TypeInv, WireInv, ContractInv, [Next]_toolVars,
                      NEW i \in Ids, fate[i] = "unused", fate'[i] = "sent",
                      what'[i].step \in {"fill", "remove"}
               PROVE  fate[what'[i].on] = "valid" /\ what[what'[i].on].step = "DEPLOY"
    OBVIOUS
  <2>1. Accepts
    <3>1. fate' # fate
      OBVIOUS
    <3>2. ~Chain
      BY ChainDoes
    <3>3. QED
      BY <3>1, <3>2, StepIs, LeavesDoes, ClearsDoes, WaitDoes, StartDoes, QuietDoes
         DEF toolVars, vars
  <2>2. PICK t \in TxType : t.step = step /\ what' = [what EXCEPT ![cur'] = t]
                            /\ (tool = "contract" => t = Payload)
    BY <2>1, AcceptsDoes
  <2>3. /\ pc = "submit" /\ cur' \in Ids /\ fate' = [fate EXCEPT ![cur'] = "sent"]
        /\ DOMAIN what = Ids
    BY <2>1, AcceptsDoes DEF TypeInv, TypeOK
  <2>4. i = cur' /\ what'[i] = t
    BY <2>2, <2>3
  <2>5. step \in {"fill", "remove"} /\ tool = "contract" /\ what'[i] = Payload
    BY <2>2, <2>4 DEF TypeInv, TypeOK, StepInv
  <2>6. what'[i].on = seen.index
    BY <2>5 DEF Payload
  <2>7. seen.index # 0
    BY <2>3, <2>5 DEF ContractInv, HasContract
  <2>8. QED
    BY <2>6, <2>7 DEF ContractInv, IndexIsDeployed, Valid
<1>2. QED
  BY <1>1, ContractAlways, PTL DEF Spec, ExecutesHitTheContract

-----------------------------------------------------------------------------
(* Orders.  With one that was not posted blind, the open ones up to it,    *)
(* whose txid the tool had, are within the target: on a list that was read *)
(* in full a plan's count is not below them and a submission leaves room   *)
(* for one.                                                                *)

Opens == {i \in Ids : fate[i] \in {"sent", "valid"} /\ what[i].step = "ORDER"} \ lost

UpTo(S, j) == {i \in S : i <= j}

OrdersInv ==
    /\ \A j \in Opens : what[j].blind \/ Cardinality(UpTo(Opens, j)) <= Orders
    /\ tool = "escrow" /\ pc = "plan" /\ ~seen.misread => Cardinality(Opens) <= seen.live
    /\ tool = "escrow" /\ pc = "submit" /\ ~seen.misread => Cardinality(Opens) < Orders

LEMMA OpensCounted == IsFiniteSet(Opens) /\ Cardinality(Opens) \in Nat
<1>1. IsFiniteSet(Ids)
  BY FS_Interval, Constants DEF Ids
<1>2. IsFiniteSet(Opens)
  BY <1>1, FS_Subset DEF Opens
<1>3. QED
  BY <1>2, FS_CardinalityType

LEMMA OrdersInit == Init => OrdersInv
<1> SUFFICES ASSUME Init PROVE OrdersInv
  OBVIOUS
<1>1. PICK funded \in {0, 2} :
        /\ what = [i \in Ids |->
                     IF i > funded THEN NoTx
                     ELSE [NoTx EXCEPT !.step = IF i = 1 THEN "ISSUE" ELSE "MINT"]]
  BY DEF Init
<1>2. Opens = {}
  BY <1>1 DEF Opens, NoTx
<1>3. pc = "off" /\ Cardinality(Opens) = 0
  BY <1>2, FS_EmptySet DEF Init
<1>4. QED
  BY <1>2, <1>3, Constants DEF OrdersInv

\* Fewer orders, fewer up to any of them.
LEMMA FewerUpTo ==
    ASSUME NEW j, NEW S, S \subseteq Opens, NEW T, T \subseteq UpTo(S, j)
    PROVE  /\ Cardinality(T) <= Cardinality(UpTo(Opens, j))
           /\ Cardinality(T) \in Nat /\ Cardinality(UpTo(Opens, j)) \in Nat
<1>1. T \subseteq UpTo(Opens, j) /\ UpTo(Opens, j) \subseteq Opens
  BY DEF UpTo
<1>2. IsFiniteSet(UpTo(Opens, j))
  BY <1>1, OpensCounted, FS_Subset
<1>3. QED
  BY <1>1, <1>2, FS_Subset, FS_CardinalityType

\* A step that opens no order and leads to no plan keeps the count.
LEMMA OrdersFall ==
    ASSUME TypeInv, OrdersInv, Opens' \subseteq Opens,
           \A j \in Opens' : what'[j] = what[j],
           pc' \in {"plan", "submit"} => UNCHANGED <<tool, pc, seen>>
    PROVE  OrdersInv'
<1>1. Cardinality(Opens') <= Cardinality(Opens)
  BY OpensCounted, FS_Subset
<1>2. Cardinality(Opens') \in Nat
  BY OpensCounted, FS_Subset, FS_CardinalityType
<1>3. seen.live \in Nat
  BY DEF TypeInv, TypeOK
<1>4. ASSUME NEW j \in Opens', ~what'[j].blind PROVE Cardinality(UpTo(Opens, j))' <= Orders
  <2>1. UpTo(Opens, j)' = UpTo(Opens', j)
    BY DEF UpTo
  <2>2. Cardinality(UpTo(Opens', j)) <= Cardinality(UpTo(Opens, j))
        /\ Cardinality(UpTo(Opens', j)) \in Nat /\ Cardinality(UpTo(Opens, j)) \in Nat
    BY FewerUpTo
  <2>3. Cardinality(UpTo(Opens, j)) <= Orders
    BY <1>4 DEF OrdersInv
  <2>4. QED
    BY <2>1, <2>2, <2>3, Constants
<1>5. QED
  BY <1>1, <1>2, <1>3, <1>4, OpensCounted, Constants DEF OrdersInv

LEMMA OrdersAccept ==
    ASSUME TypeInv, InOrder, OrdersInv, Accepts, UNCHANGED tool
    PROVE  OrdersInv'
<1>1. PICK t \in TxType : /\ t.step = step /\ what' = [what EXCEPT ![cur'] = t]
                          /\ tool = "escrow" => t.blind = seen.misread
  BY AcceptsDoes
<1>2. /\ pc = "submit" /\ pc' = "accepted" /\ cur' \in Ids /\ fate[cur'] = "unused"
      /\ fate' = [fate EXCEPT ![cur'] = "sent"] /\ UNCHANGED <<step, seen, lost>>
      /\ fate \in [Ids -> Fates] /\ DOMAIN what = Ids
  BY AcceptsDoes DEF TypeInv, TypeOK
<1>3. what'[cur'].step = step /\ \A i \in Ids \ {cur'} : fate'[i] = fate[i] /\ what'[i] = what[i]
  BY <1>1, <1>2
<1>4. Opens' \subseteq Opens \cup {cur'} /\ (tool = "contract" => Opens' \subseteq Opens)
  BY <1>2, <1>3 DEF Opens, TypeInv, StepInv, ContractSteps
<1>5. CASE tool = "contract"
  <2>1. \A j \in Opens' : what'[j] = what[j]
    BY <1>2, <1>3, <1>4, <1>5 DEF Opens
  <2>2. QED
    BY <1>2, <1>4, <1>5, <2>1, OrdersFall
<1>6. CASE tool = "escrow"
  <2>1. Cardinality(Opens) \in Nat /\ IsFiniteSet(Opens)
    BY OpensCounted
  <2>2. IsFiniteSet(Opens \cup {cur'}) /\ Cardinality(Opens \cup {cur'}) <= Cardinality(Opens) + 1
        /\ Cardinality(Opens \cup {cur'}) \in Nat
    <3>1. IsFiniteSet(Opens \cup {cur'}) /\ Cardinality(Opens \cup {cur'}) \in {Cardinality(Opens), Cardinality(Opens) + 1}
      BY <2>1, FS_AddElement
    <3>2. QED
      BY <2>1, <3>1
  <2>3. Cardinality(Opens') <= Cardinality(Opens \cup {cur'}) /\ Cardinality(Opens') \in Nat
    BY <1>4, <2>2, FS_Subset, FS_CardinalityType
  <2>4. ASSUME NEW j \in Opens', ~what'[j].blind PROVE Cardinality(UpTo(Opens, j))' <= Orders
    <3>1. UpTo(Opens, j)' = UpTo(Opens', j)
      BY DEF UpTo
    <3>2. CASE j = cur'
      <4>1. ~seen.misread
        BY <1>1, <1>2, <1>6, <2>4, <3>2
      <4>2. Cardinality(Opens) < Orders
        BY <1>2, <1>6, <4>1 DEF OrdersInv
      <4>3. IsFiniteSet(Opens') /\ UpTo(Opens', j) \subseteq Opens'
        BY <1>4, <2>2, FS_Subset DEF UpTo
      <4>4. Cardinality(UpTo(Opens', j)) <= Cardinality(Opens') /\ Cardinality(UpTo(Opens', j)) \in Nat
        BY <4>3, FS_Subset, FS_CardinalityType
      <4>5. QED
        BY <2>1, <2>2, <2>3, <3>1, <4>2, <4>4, Constants
    <3>3. CASE j # cur'
      <4>1. j \in Opens /\ what'[j] = what[j]
        BY <1>3, <1>4, <2>4, <3>3 DEF Opens
      <4>2. j \in Ids /\ fate[j] # "unused" /\ Ids \subseteq Nat
        BY <4>1, Constants DEF Opens, Ids
      <4>3. j < cur'
        BY <4>2, AcceptsLast
      <4>4. ~(cur' <= j)
        BY <1>2, <4>2, <4>3
      <4>5. UpTo(Opens', j) \subseteq UpTo(Opens, j)
        BY <1>4, <4>4 DEF UpTo
      <4>6. /\ Cardinality(UpTo(Opens', j)) <= Cardinality(UpTo(Opens, j))
            /\ Cardinality(UpTo(Opens', j)) \in Nat /\ Cardinality(UpTo(Opens, j)) \in Nat
        BY <4>5, FewerUpTo
      <4>7. Cardinality(UpTo(Opens, j)) <= Orders
        BY <2>4, <4>1 DEF OrdersInv
      <4>8. QED
        BY <3>1, <4>6, <4>7, Constants
    <3>4. QED
      BY <3>2, <3>3
  <2>5. QED
    BY <1>2, <2>4 DEF OrdersInv
<1>7. QED
  BY <1>5, <1>6 DEF TypeInv, TypeOK

LEMMA OrdersQuiet ==
    ASSUME TypeInv, WireInv, OrdersInv, Quiet, UNCHANGED tool
    PROVE  OrdersInv'
<1>1. /\ UNCHANGED <<fate, what, lost>> /\ Opens' = Opens /\ Unsettled \subseteq lost
      /\ pc \in Planning
  BY QuietDoes DEF Opens, WireInv
<1>2. Opens \subseteq Valid("ORDER")
  BY <1>1 DEF Opens, Valid, Unsettled
<1>3. Cardinality(Opens) <= Cardinality(holdsEscrow) /\ Cardinality(holdsEscrow) \in Nat
  BY <1>2, OrdersCounted, FS_Subset DEF holdsEscrow
<1>7. \A j \in Opens : what[j].blind \/ Cardinality(UpTo(Opens, j))' <= Orders
  BY <1>1 DEF OrdersInv, UpTo
<1>4. CASE tool = "contract"
  BY <1>1, <1>4, <1>7 DEF OrdersInv
<1>5. CASE tool = "escrow"
  <2>. seen \in SeenType
    BY DEF TypeInv, TypeOK, SeenType
  <2>1. CASE ReadEscrowGas
    BY <1>1, <1>7, <2>1 DEF ReadEscrowGas, OrdersInv
  <2>2. CASE ListOrders
    <3>1. PICK rows \in listRows(holdsEscrow) :
            pc' = "plan" /\ seen'.live = Cardinality(rows) /\ seen'.misread = (rows # holdsEscrow)
      BY <2>2 DEF ListOrders, Count, SeenType
    <3>2. QED
      BY <1>1, <1>3, <1>7, <3>1 DEF OrdersInv
  <2>3. CASE EscrowPlan
    <3>1. /\ seen'.misread = seen.misread /\ pc = "plan" /\ pc' \in {"submit", "verify"}
          /\ pc' = "submit" => seen.live < Orders /\ seen.live \in Nat
      BY <2>3 DEF EscrowPlan, SeenType
    <3>2. pc' = "submit" /\ ~seen'.misread => Cardinality(Opens) < Orders
      BY <1>5, <3>1, OpensCounted, Constants DEF OrdersInv
    <3>3. QED
      BY <1>1, <1>7, <3>1, <3>2 DEF OrdersInv
  <2>4. CASE Posted
    BY <1>1, <1>7, <2>4 DEF Posted, OrdersInv
  <2>5. CASE RecountOrders
    <3>1. CASE Exit
      BY <1>1, <1>7, <3>1 DEF OrdersInv, Exit
    <3>2. CASE ~Exit
      <4>1. PICK rows \in listRows(holdsEscrow), m \in Nat :
              /\ seen' = [seen EXCEPT !.live = Cardinality(rows), !.misread = (rows # holdsEscrow),
                                       !.rounds = m]
              /\ IF Cardinality(rows) < Orders THEN pc' = "submit" ELSE pc' = "verify"
        BY <2>5, <3>2, RecountDoes
      <4>2. seen'.misread = (rows # holdsEscrow)
        BY <4>1 DEF SeenType
      <4>3. pc' # "plan" /\ (pc' = "submit" /\ ~seen'.misread => Cardinality(holdsEscrow) < Orders)
        BY <4>1, <4>2
      <4>4. pc' = "submit" /\ ~seen'.misread => Cardinality(Opens) < Orders
        BY <1>3, <4>3, OpensCounted, Constants
      <4>5. QED
        BY <1>1, <1>7, <4>3, <4>4 DEF OrdersInv
    <3>3. QED
      BY <3>1, <3>2
  <2>6. QED
    BY <1>5, <2>1, <2>2, <2>3, <2>4, <2>5 DEF Quiet, PlansContract, PlansOrders
<1>6. QED
  BY <1>4, <1>5 DEF TypeInv, TypeOK

LEMMA OrdersStep == TypeInv /\ WireInv /\ InOrder /\ OrdersInv /\ [Next]_toolVars => OrdersInv'
<1> SUFFICES ASSUME TypeInv, WireInv, InOrder, OrdersInv, [Next]_toolVars PROVE OrdersInv'
  OBVIOUS
<1>1. CASE UNCHANGED toolVars
  BY <1>1 DEF toolVars, vars, OrdersInv, Opens, UpTo
<1>2. CASE Leaves \/ Clears
  <2>1. UNCHANGED <<fate, what>> /\ lost \subseteq lost' /\ pc' \in {"off", "token"}
    BY <1>2, LeavesDoes, ClearsDoes DEF Exit
  <2>2. QED
    BY <2>1, OrdersFall DEF Opens
<1>3. CASE Waits
  <2>1. UNCHANGED <<fate, what, lost>> /\ pc' \notin {"plan", "submit"}
    BY <1>3, WaitDoes
  <2>2. QED
    BY <2>1, OrdersFall DEF Opens
<1>4. CASE Start
  <2>1. UNCHANGED <<fate, what, lost>> /\ pc' = "settle"
    BY <1>4, StartDoes
  <2>2. QED
    BY <2>1, OrdersFall DEF Opens
<1>5. CASE Chain /\ UNCHANGED tool
  <2>1. UNCHANGED <<what, pc, seen, lost>> /\ Opens' \subseteq Opens
    BY <1>5, ChainDoes DEF Opens
  <2>2. QED
    BY <1>5, <2>1, OrdersFall
<1>6. QED
  BY <1>1, <1>2, <1>3, <1>4, <1>5, StepIs, OrdersAccept, OrdersQuiet

(* No order takes the open seed orders over the target the operator gave,  *)
(* whatever is killed, times out, fails or is released, unless it was      *)
(* posted on a list that answered with fewer than there are; orders whose  *)
(* txid was lost aside.                                                    *)
THEOREM OrdersStayWithinTarget == Spec => []OrdersWithinTarget
<1>1. OrdersInv => OrdersWithinTarget
  <2> SUFFICES ASSUME OrdersInv, NEW j \in holdsEscrow \ lost, ~what[j].blind
               PROVE  Cardinality({i \in holdsEscrow \ lost : i <= j}) <= Orders
    BY DEF OrdersWithinTarget
  <2>. DEFINE Open == {i \in holdsEscrow \ lost : i <= j}
  <2>1. holdsEscrow \ lost \subseteq Opens /\ Open \subseteq UpTo(holdsEscrow \ lost, j)
    BY DEF holdsEscrow, Valid, Opens, UpTo
  <2>2. /\ Cardinality(Open) <= Cardinality(UpTo(Opens, j))
        /\ Cardinality(Open) \in Nat /\ Cardinality(UpTo(Opens, j)) \in Nat
    BY <2>1, FewerUpTo
  <2>3. Cardinality(UpTo(Opens, j)) <= Orders
    BY <2>1 DEF OrdersInv
  <2>4. QED
    BY <2>2, <2>3, Constants
<1>2. QED
  BY <1>1, WireAlways, OrdersInit, OrdersStep, PTL DEF Spec

-----------------------------------------------------------------------------
(* Seeded.  A run's count of keys is never above what the contract was     *)
(* given, its tombstone aside; a run goes past the fill on a count that    *)
(* reaches the target, and holds no count while it looks for a contract    *)
(* or deploys one.                                                         *)

GivenTo(c) == BaseKeys + Cardinality(Bulk(c))

CountInv ==
    tool = "contract" =>
        /\ seen.live > 0 => seen.index # 0 /\ seen.live <= GivenTo(seen.index)
        /\ pc \in {"off", "settle", "token", "lookup", "count"} => seen.live = 0
        /\ pc \in {"off", "settle", "token", "lookup", "count", "plan"} => step = "none"
        /\ step = "DEPLOY" => seen.live = 0
        /\ step = "remove" \/ pc = "verify" => seen.live >= Keys

LEMMA GivenTyped == ASSUME TypeOK, NEW c PROVE GivenTo(c) \in Nat
BY BulkIsFinite, FS_CardinalityType, Constants DEF GivenTo

LEMMA NothingCounted == NothingSeen.live = 0
BY DEF NothingSeen

\* A count, failed or not, is at most what the contract was given; what a
\* contract has is that, or one less.
LEMMA CountIs ==
    ASSUME TypeOK, NEW c, NEW n \in countLiveKeys(c)
    PROVE  n \in Nat /\ (n > 0 => c # 0 /\ n <= GivenTo(c))
<1>1. n = 0 \/ (c # 0 /\ n \in {1, Live(c)})
  BY DEF countLiveKeys, ErrorKeys
<1>2. GivenTo(c) \in Nat /\ Cardinality(Bulk(c)) \in Nat
  BY GivenTyped, BulkIsFinite, FS_CardinalityType
<1>3. Live(c) <= GivenTo(c) /\ 1 <= GivenTo(c)
  BY <1>2, Constants, SeedContractAssumption DEF Live, GivenTo
<1>4. QED
  BY <1>1, <1>2, <1>3, CountsTyped

LEMMA LiveIsNearly ==
    ASSUME TypeOK, NEW c, fate[c] = "valid"
    PROVE  Live(c) >= GivenTo(c) - 1
BY BulkIsFinite, FS_CardinalityType, Constants DEF Live, GivenTo

\* What a contract was given stays given while its fills stay valid.
LEMMA GivenGrows ==
    ASSUME TypeOK, TypeOK', NEW c,
           \A i \in Ids : fate[i] = "valid" /\ what[i].step = "fill" =>
                              fate'[i] = "valid" /\ what'[i] = what[i]
    PROVE  /\ GivenTo(c) <= GivenTo(c)'
           /\ GivenTo(c) \in Nat /\ GivenTo(c)' \in Nat
<1>1. Bulk(c) \subseteq Bulk(c)'
  BY DEF Bulk, Valid
<1>2. IsFiniteSet(Bulk(c)')
  <2>. DEFINE J == {j \in Valid("fill")' : what'[j].on = c}
  <2>1. Bulk(c)' = UNION {what'[i].from .. what'[i].from + what'[i].count - 1 : i \in J}
    BY DEF Bulk
  <2>2. J \subseteq Ids
    BY DEF Valid
  <2>3. \A i \in Ids : what'[i].from \in Nat /\ what'[i].count \in Nat
    BY DEF TypeOK
  <2>. HIDE DEF J
  <2>4. QED
    BY <2>1, <2>2, <2>3, KeysAreFinite
<1>3. Cardinality(Bulk(c)) <= Cardinality(Bulk(c)')
  BY <1>1, <1>2, FS_Subset
<1>4. Cardinality(Bulk(c)) \in Nat /\ Cardinality(Bulk(c)') \in Nat
  BY <1>1, <1>2, FS_Subset, FS_CardinalityType
<1>5. QED
  BY <1>3, <1>4, Constants DEF GivenTo

LEMMA CountInit == Init => CountInv
BY NothingCounted DEF Init, CountInv

\* Leaving and starting forget the count.
LEMMA CountLeaves ==
    ASSUME seen' = NothingSeen, step' = "none", pc' \in {"off", "settle"}
    PROVE  CountInv'
BY NothingCounted DEF CountInv

\* A step that keeps the count keeps it true.
LEMMA CountKept ==
    ASSUME TypeInv, TypeInv', CountInv, UNCHANGED <<tool, seen, step>>,
           \/ pc' = pc
           \/ pc = "settle" /\ pc' = "token"
           \/ pc' \in Sending \cup {"heard"},
           pc # "off" => \A i \in Ids : fate[i] = "valid" /\ what[i].step = "fill" =>
                              fate'[i] = "valid" /\ what'[i] = what[i]
    PROVE  CountInv'
<1>1. seen'.index = seen.index /\ seen'.live = seen.live /\ seen.live \in Nat
  BY DEF TypeInv, TypeOK
<1>2. CASE pc = "off"
  BY <1>1, <1>2 DEF CountInv, Sending
<1>3. CASE pc # "off"
  <2>1. PICK c : c = seen.index
    OBVIOUS
  <2>2. /\ GivenTo(c) <= GivenTo(c)'
        /\ GivenTo(c) \in Nat /\ GivenTo(c)' \in Nat
    BY <1>3, GivenGrows DEF TypeInv
  <2>3. QED
    BY <1>1, <2>1, <2>2 DEF CountInv, Sending
<1>4. QED
  BY <1>2, <1>3

\* Going on from a count that is true, past the fill only at the target.
LEMMA CountGoesTo ==
    ASSUME TypeInv, NEW s \in {"none", "ISSUE", "MINT", "DEPLOY", "fill"}, NEW n \in Nat,
           GoTo(Following(s, n), n), UNCHANGED <<fate, what, tool>>,
           n > 0 => seen.index # 0 /\ n <= GivenTo(seen.index),
           s = "fill" => n >= Keys
    PROVE  CountInv'
<1>. seen \in SeenType
  BY DEF TypeInv, TypeOK, SeenType
<1>1. /\ seen'.index = seen.index /\ seen'.live = n /\ step' = Following(s, n)
      /\ pc' = IF step' = "none" THEN "verify" ELSE "submit"
  BY DEF GoTo, SeenType
<1>2. GivenTo(seen.index)' = GivenTo(seen.index)
  BY <1>1 DEF GivenTo, Bulk, Valid
<1>3. step' = "DEPLOY" => n = 0
  <2>1. Following(s, n) = "DEPLOY" => seen.index = 0
    BY FollowingIs
  <2>2. QED
    BY <1>1, <2>1
<1>4. step' = "remove" \/ pc' = "verify" => n >= Keys
  BY <1>1, FollowingIs
<1>5. QED
  BY <1>1, <1>2, <1>3, <1>4 DEF CountInv

LEMMA CountReads ==
    ASSUME TypeInv, CountInv, tool = "contract", UNCHANGED tool,
           ReadGas \/ LookupContract \/ CountKeys
    PROVE  CountInv'
<1>. seen \in SeenType
  BY DEF TypeInv, TypeOK, SeenType
<1>1. /\ pc \in {"token", "lookup", "count"} /\ UNCHANGED <<fate, what, step>>
      /\ pc' \in {"lookup", "count", "plan"} /\ seen.live = 0
  BY DEF ReadGas, LookupContract, CountKeys, CountInv, wire
<1>2. step' = "none"
  BY <1>1 DEF CountInv
<1>3. CASE ReadGas \/ LookupContract
  <2>1. seen'.live = 0
    BY <1>1, <1>3 DEF ReadGas, LookupContract, resolveContractIndex, SeenType
  <2>2. QED
    BY <1>1, <1>2, <2>1 DEF CountInv
<1>4. CASE CountKeys
  <2>1. PICK n \in countLiveKeys(seen.index) : seen' = [seen EXCEPT !.live = n]
    BY <1>4 DEF CountKeys
  <2>2. n \in Nat /\ (n > 0 => seen.index # 0 /\ n <= GivenTo(seen.index))
    BY CountIs DEF TypeInv
  <2>3. seen'.live = n /\ seen'.index = seen.index
    BY <2>1, <2>2 DEF SeenType
  <2>4. GivenTo(seen.index)' = GivenTo(seen.index)
    BY <1>1, <2>3 DEF GivenTo, Bulk, Valid
  <2>5. pc' = "plan"
    BY <1>4 DEF CountKeys
  <2>6. QED
    BY <1>1, <1>2, <2>2, <2>3, <2>4, <2>5 DEF CountInv
<1>5. QED
  BY <1>3, <1>4

LEMMA CountPlans ==
    ASSUME TypeInv, CountInv, tool = "contract", UNCHANGED tool,
           ContractPlan \/ Noted \/ RecountDeploy
    PROVE  CountInv'
<1>. seen \in SeenType
  BY DEF TypeInv, TypeOK, SeenType
<1>1. UNCHANGED <<fate, what, tool>>
  BY DEF ContractPlan, Noted, RecountDeploy, wire
<1>2. seen.live \in Nat /\ (seen.live > 0 => seen.index # 0 /\ seen.live <= GivenTo(seen.index))
  BY DEF CountInv, SeenType
<1>3. CASE ContractPlan
  BY <1>1, <1>2, <1>3, CountGoesTo DEF ContractPlan
<1>4. CASE Noted
  <2>1. step \in {"ISSUE", "MINT"} /\ GoTo(Following(step, seen.live), seen.live)
    BY <1>4 DEF Noted
  <2>2. QED
    BY <1>1, <1>2, <2>1, CountGoesTo
<1>5. CASE RecountDeploy
  <2>1. PICK n \in countLiveKeys(seen.index) : GoTo(Following("DEPLOY", n), n)
    BY <1>5 DEF RecountDeploy
  <2>2. n \in Nat /\ (n > 0 => seen.index # 0 /\ n <= GivenTo(seen.index))
    BY CountIs DEF TypeInv
  <2>3. QED
    BY <1>1, <2>1, <2>2, CountGoesTo
<1>6. QED
  BY <1>3, <1>4, <1>5

LEMMA CountHeard ==
    ASSUME TypeInv, CountInv, tool = "contract", UNCHANGED tool,
           Deployed \/ Filled \/ Tombstoned
    PROVE  CountInv'
<1>. seen \in SeenType
  BY DEF TypeInv, TypeOK, SeenType
<1>1. UNCHANGED <<fate, what, tool>> /\ pc' \in {"recount", "verify"}
  BY DEF Deployed, Filled, Tombstoned, wire
<1>2. CASE Deployed
  <2>1. step' = "DEPLOY" /\ pc' = "recount" /\ seen'.live = 0
    BY <1>2 DEF Deployed, CountInv, SeenType
  <2>2. QED
    BY <2>1 DEF CountInv
<1>3. CASE Filled \/ Tombstoned
  <2>1. seen'.live = seen.live /\ seen'.index = seen.index
    BY <1>3 DEF Filled, Tombstoned, SeenType
  <2>2. GivenTo(seen.index)' = GivenTo(seen.index)
    BY <1>1, <2>1 DEF GivenTo, Bulk, Valid
  <2>3. /\ step' # "DEPLOY"
        /\ step' = "remove" \/ pc' = "verify" => seen.live >= Keys
    BY <1>3 DEF Filled, Tombstoned, CountInv
  <2>4. QED
    BY <1>1, <2>1, <2>2, <2>3 DEF CountInv
<1>4. QED
  BY <1>2, <1>3

LEMMA CountRefills ==
    ASSUME TypeInv, CountInv, tool = "contract", UNCHANGED tool, RecountFill
    PROVE  CountInv'
<1>. seen \in SeenType
  BY DEF TypeInv, TypeOK, SeenType
<1>1. PICK n \in countLiveKeys(seen.index) :
        IF Stops(seen.live, n)
        THEN Exit
        ELSE IF n < Keys
        THEN /\ pc' = "submit"
             /\ seen' = [seen EXCEPT !.live = n, !.rounds = @ + 1]
             /\ UNCHANGED <<opts, step, cur>>
        ELSE GoTo(Following(step, n), n) /\ UNCHANGED <<opts, cur>>
  BY DEF RecountFill
<1>2. step = "fill" /\ UNCHANGED <<fate, what, tool>>
  BY DEF RecountFill, wire
<1>3. n \in Nat /\ (n > 0 => seen.index # 0 /\ n <= GivenTo(seen.index))
  BY CountIs DEF TypeInv
<1>4. CASE Stops(seen.live, n)
  BY <1>1, <1>4, CountLeaves DEF Exit
<1>5. CASE ~Stops(seen.live, n) /\ n < Keys
  <2>1. /\ pc' = "submit" /\ step' = "fill"
        /\ seen' = [seen EXCEPT !.live = n, !.rounds = @ + 1]
    BY <1>1, <1>2, <1>5
  <2>2. seen'.live = n /\ seen'.index = seen.index
    BY <2>1 DEF SeenType
  <2>3. GivenTo(seen.index)' = GivenTo(seen.index)
    BY <1>2, <2>2 DEF GivenTo, Bulk, Valid
  <2>4. QED
    BY <1>3, <2>1, <2>2, <2>3 DEF CountInv
<1>6. CASE ~Stops(seen.live, n) /\ ~(n < Keys)
  <2>1. GoTo(Following("fill", n), n) /\ n >= Keys
    BY <1>1, <1>2, <1>3, <1>6, Constants
  <2>2. QED
    BY <1>2, <1>3, <2>1, CountGoesTo
<1>7. QED
  BY <1>4, <1>5, <1>6

LEMMA CountStep ==
    TypeInv /\ TypeInv' /\ ContractInv /\ CountInv /\ [Next]_toolVars => CountInv'
<1> SUFFICES ASSUME TypeInv, TypeInv', ContractInv, CountInv, [Next]_toolVars PROVE CountInv'
  OBVIOUS
<1>1. CASE UNCHANGED toolVars
  BY <1>1, CountKept DEF toolVars, vars
<1>2. CASE Leaves
  BY <1>2, LeavesDoes, CountLeaves DEF Exit
<1>3. CASE Start
  BY <1>3, StartDoes, CountLeaves
<1>4. CASE UNCHANGED tool /\ Clears
  <2>1. CASE pc' = "off"
    BY <1>4, <2>1, ClearsDoes, CountLeaves DEF Exit
  <2>2. CASE pc' = "token"
    <3>1. UNCHANGED <<fate, what, step, seen>> /\ pc = "settle"
      BY <1>4, <2>2, ClearsDoes
    <3>2. QED
      BY <1>4, <2>2, <3>1, CountKept
  <2>3. QED
    BY <1>4, <2>1, <2>2, ClearsDoes
<1>5. CASE UNCHANGED tool /\ Waits
  <2>1. CASE Exit
    BY <2>1, CountLeaves DEF Exit
  <2>2. CASE ~Exit
    <3>1. /\ UNCHANGED <<fate, what, step, seen>>
          /\ pc' \in {"waiting", "heard", "recheck"}
      BY <1>5, <2>2, WaitDoes
    <3>2. QED
      BY <1>5, <3>1, CountKept DEF Sending
  <2>3. QED
    BY <2>1, <2>2
<1>6. CASE UNCHANGED tool /\ Chain
  <2>1. /\ UNCHANGED <<what, pc, step, seen>>
        /\ pc # "off" => \A i \in Ids : fate[i] = "valid" /\ what[i].step = "fill" =>
                              fate'[i] = "valid" /\ what'[i] = what[i]
    BY <1>6, ChainDoes
  <2>2. QED
    BY <1>6, <2>1, CountKept
<1>7. CASE UNCHANGED tool /\ Accepts
  <2>1. PICK t \in TxType : what' = [what EXCEPT ![cur'] = t]
    BY <1>7, AcceptsDoes
  <2>2. /\ pc' = "accepted" /\ cur' \in Ids /\ fate[cur'] = "unused"
        /\ fate' = [fate EXCEPT ![cur'] = "sent"] /\ UNCHANGED <<step, seen>>
        /\ fate \in [Ids -> Fates] /\ DOMAIN what = Ids
    BY <1>7, AcceptsDoes DEF TypeInv, TypeOK
  <2>3. \A i \in Ids : fate[i] = "valid" => fate'[i] = "valid" /\ what'[i] = what[i]
    BY <2>1, <2>2
  <2>4. QED
    BY <1>7, <2>2, <2>3, CountKept DEF Sending
<1>8. CASE UNCHANGED tool /\ Quiet
  <2>1. CASE tool = "contract"
    BY <1>8, <2>1, CountReads, CountPlans, CountHeard, CountRefills
       DEF Quiet, PlansContract, PlansOrders
  <2>2. CASE tool # "contract"
    BY <1>8, <2>2 DEF CountInv
  <2>3. QED
    BY <2>1, <2>2
<1>9. QED
  BY <1>1, <1>2, <1>3, <1>4, <1>5, <1>6, <1>7, <1>8, StepIs

(* A run that reaches its verification leaves a contract that has its keys, *)
(* the tombstoned one aside, whatever was killed, refused, misread or       *)
(* dropped on the way, by this run or an earlier one.                       *)
THEOREM RunsLeaveKeys == Spec => []DoneMeansSeeded
<1>1. TypeInv /\ ContractInv /\ CountInv => DoneMeansSeeded
  <2> SUFFICES ASSUME TypeInv, ContractInv, CountInv, tool = "contract", pc = "verify"
               PROVE  seen.index # 0 /\ Live(seen.index) >= Keys - 1
    BY DEF DoneMeansSeeded
  <2>1. seen.live \in Nat /\ seen.live >= Keys
    BY DEF CountInv, TypeInv, TypeOK
  <2>2. seen.index # 0 /\ seen.live <= GivenTo(seen.index)
    BY <2>1, SeedContractAssumption DEF CountInv
  <2>3. fate[seen.index] = "valid"
    BY <2>2 DEF ContractInv, IndexIsDeployed, Valid
  <2>4. Live(seen.index) >= GivenTo(seen.index) - 1 /\ Live(seen.index) \in Nat
    BY <2>3, LiveIsNearly, LiveTyped DEF TypeInv
  <2>5. GivenTo(seen.index) \in Nat
    BY GivenTyped DEF TypeInv
  <2>6. QED
    BY <2>1, <2>2, <2>4, <2>5, Constants
<1>2. QED
  BY <1>1, ContractAlways, CountInit, CountStep, PTL DEF Spec
=============================================================================
