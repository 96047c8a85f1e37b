--------------------------- MODULE LiveTier_proofs ---------------------------
(***************************************************************************)
(* Theorems about the live tier, for every number of lanes, ports and      *)
(* suites and every roster and tree.                                       *)
(***************************************************************************)
EXTENDS LiveTier, WellFoundedInduction, TLAPS

-----------------------------------------------------------------------------
(* The databases: types, and who may still need a container.               *)

Ended(b) == pc[b] \in {"off", "killed"}

HostTypes ==
    /\ pc \in [Lanes -> Labels]
    /\ box \in [Lanes -> {"absent", "created", "running", "stopped"}]
    /\ port \in [Lanes -> 0..Ports]
    /\ target \in [Lanes -> 0..Ports]
    /\ own \in [Lanes -> BOOLEAN]
    /\ stale \in [Lanes -> SUBSET Lanes]
    /\ seen \in [Lanes -> SUBSET Lanes]
    /\ old \subseteq Boxes

\* What is old or stopped serves nobody, and what a lane is about to remove
\* serves nobody or was looked at before it was started.
NobodyNeeds ==
    /\ \A b \in old : Ended(b)
    /\ \A b \in Lanes : box[b] = "stopped" => Ended(b)
    /\ \A q \in Lanes : \A b \in stale[q] : b \in early \/ Ended(b)

\* A lane has a container of its own from its tests on, with a port.
Served ==
    /\ \A p \in Lanes : own[p] => pc[p] = "tests" \/ Ended(p)
    /\ \A p \in Lanes : pc[p] = "tests" /\ own[p] /\ p \notin early => box[p] = "running"
    /\ \A p \in Lanes : pc[p] = "create" => target[p] # 0
    /\ \A b \in Lanes : box[b] # "absent" => port[b] # 0

OnePortEach ==
    \A a, b \in Lanes : box[a] = "running" /\ box[b] = "running" /\ a # b => port[a] # port[b]

HostInv == HostTypes /\ NobodyNeeds /\ Served /\ OnePortEach

hostVars == <<pc, box, port, old, own, target, stale, seen, early>>

-----------------------------------------------------------------------------
(* Steps that move a lane and leave docker alone.                          *)

LEMMA GotoKeeps ==
    ASSUME HostInv, NEW p \in Lanes, NEW l \in Labels, Goto(p, l), ~Ended(p),
           UNCHANGED <<box, port, old, own, target, stale, early>>,
           seen' \in [Lanes -> SUBSET Lanes],
           own[p] => l \in {"tests", "off", "killed"},
           l # "create",
           l = "tests" => ~own[p]
    PROVE  HostInv'
<1>1. HostTypes'
  BY DEF HostInv, HostTypes, Goto, Boxes
<1>2. \A q \in Lanes : Ended(q) => Ended(q)'
  BY DEF HostInv, HostTypes, Goto, Ended
<1>3. NobodyNeeds'
  BY <1>2 DEF HostInv, HostTypes, NobodyNeeds, Boxes
<1>4. Served'
  BY DEF HostInv, HostTypes, Served, Goto, Ended
<1>5. OnePortEach'
  BY DEF HostInv, OnePortEach
<1>6. QED
  BY <1>1, <1>3, <1>4, <1>5 DEF HostInv

\* Before its tests a lane has no container of its own.
LEMMA NoneOfItsOwn ==
    ASSUME HostInv, NEW p \in Lanes, pc[p] # "tests", ~Ended(p)
    PROVE  ~own[p]
BY DEF HostInv, Served

\* The lowest free port exists, and is a port.
LEMMA LowestIsOne ==
    ASSUME NEW free, free \subseteq 1..Ports, free # {}
    PROVE  (CHOOSE n \in free : \A k \in free : n <= k) \in free
<1>1. Ports \in Nat /\ free \subseteq Nat
  BY HubDbAssumption
<1>. DEFINE Below == {ss \in Nat \X Nat : ss[1] < ss[2]}
<1>2. IsWellFoundedOn(Below, Nat)
  BY NatLessThanWellFounded DEF OpToRel
<1>. HIDE DEF Below
<1>3. PICK x \in free : \A y \in free : ~(<<y, x>> \in Below)
  BY <1>1, <1>2, WFMin
<1>4. ASSUME NEW y \in free PROVE x <= y
  <2>1. x \in Nat /\ y \in Nat /\ <<y, x>> \notin Below
    BY <1>1, <1>3
  <2>2. ~(y < x)
    BY <2>1 DEF Below
  <2>3. QED
    BY <2>1, <2>2
<1>5. QED
  BY <1>4

LEMMA QuietStepsKeep ==
    ASSUME HostInv, NEW p \in Lanes,
           Main(p) \/ Lists(p) \/ NextSuite(p) \/ Verdict(p) \/ NoReport(p) \/ Killed(p)
             \/ (/\ Reuses(p) \/ NoDatabase(p) \/ firstFreePort(p)
                 /\ UNCHANGED <<roster, tree, lane, kills>>)
    PROVE  HostInv'
<1>. seen \in [Lanes -> SUBSET Lanes]
  BY DEF HostInv, HostTypes
<1>1. ASSUME NEW l \in {"off", "killed"}, Goto(p, l), ~Ended(p),
             UNCHANGED <<box, port, old, own, target, stale, early, seen>>
      PROVE  HostInv'
  BY <1>1, GotoKeeps DEF Labels
<1>2. ASSUME NEW l \in Labels \ {"create"}, Goto(p, l), ~Ended(p), pc[p] # "tests",
             UNCHANGED <<box, port, old, own, target, stale, early, seen>>
      PROVE  HostInv'
  BY <1>2, GotoKeeps, NoneOfItsOwn
<1>3. CASE Main(p)
  <2>1. /\ pc[p] = "audit" /\ (Goto(p, "off") \/ Goto(p, "ps"))
        /\ UNCHANGED <<box, port, old, own, target, stale, early, seen>>
    BY <1>3 DEF Main, host
  <2>2. QED
    BY <2>1, <1>2 DEF Ended, Labels
<1>4. CASE Lists(p)
  <2>1. seen' \in [Lanes -> SUBSET Lanes]
    BY <1>4 DEF Lists, Boxes
  <2>2. pc[p] = "ps" /\ Goto(p, "inspect") /\ UNCHANGED <<box, port, old, own, target, stale, early>>
    BY <1>4 DEF Lists, host
  <2>3. ~own[p] /\ ~Ended(p)
    BY <2>2, NoneOfItsOwn DEF Ended
  <2>4. QED
    BY <2>1, <2>2, <2>3, GotoKeeps DEF Labels
<1>5. CASE NextSuite(p)
  <2>1. /\ pc[p] = "next" /\ (Goto(p, "report") \/ Goto(p, "db"))
        /\ UNCHANGED <<box, port, old, own, target, stale, early, seen>>
    BY <1>5 DEF NextSuite, host, lane
  <2>2. QED
    BY <2>1, <1>2 DEF Ended, Labels
<1>6. CASE Verdict(p) \/ NoReport(p) \/ Killed(p)
  <2>1. /\ ~Ended(p) /\ (Goto(p, "off") \/ Goto(p, "killed"))
        /\ UNCHANGED <<box, port, old, own, target, stale, early, seen>>
    BY <1>6 DEF Verdict, NoReport, Killed, host, lane, Ended
  <2>2. QED
    BY <2>1, <1>1
<1>7. CASE (Reuses(p) \/ NoDatabase(p)) /\ UNCHANGED <<roster, tree, lane, kills>>
  <2>1. /\ pc[p] = "db" /\ (Goto(p, "tests") \/ Goto(p, "skips"))
        /\ UNCHANGED <<box, port, old, own, target, stale, early, seen>>
    BY <1>7 DEF Reuses, NoDatabase, host, lane
  <2>2. QED
    BY <2>1, <1>2 DEF Ended, Labels
<1>9. CASE firstFreePort(p) /\ UNCHANGED <<roster, tree, lane, kills>>
  <2>. DEFINE free == (1..Ports) \ Held
              lowest == CHOOSE n \in free : \A k \in free : n <= k
  <2>1. ~own[p] /\ pc[p] = "db"
    BY <1>9 DEF firstFreePort, HostInv, Served, Ended
  <2>2. CASE free = {}
    <3>1. Goto(p, "dies") /\ UNCHANGED <<box, port, old, own, target, stale, early, seen>>
      BY <1>9, <2>2 DEF firstFreePort, host, lane
    <3>2. QED
      BY <2>1, <3>1, <1>2 DEF Ended, Labels
  <2>3. CASE free # {}
    <3>1. lowest \in 1..Ports
      BY <2>3, LowestIsOne
    <3>2. target' = [target EXCEPT ![p] = lowest] /\ Goto(p, "create")
      BY <1>9, <2>3 DEF firstFreePort
    <3>. HIDE DEF lowest
    <3>3. UNCHANGED <<box, port, old, own, stale, seen, early>>
      BY <1>9 DEF firstFreePort, host, lane
    <3>4. target' \in [Lanes -> 0..Ports] /\ target'[p] # 0
      BY <3>1, <3>2, HubDbAssumption DEF HostInv, HostTypes
    <3>5. HostTypes'
      BY <3>2, <3>3, <3>4 DEF HostInv, HostTypes, Goto, Boxes, Labels
    <3>6. NobodyNeeds'
      BY <2>1, <3>2, <3>3 DEF HostInv, HostTypes, NobodyNeeds, Goto, Ended
    <3>7. Served'
      BY <2>1, <3>2, <3>3, <3>4 DEF HostInv, HostTypes, Served, Goto, Ended
    <3>8. QED
      BY <3>3, <3>5, <3>6, <3>7 DEF HostInv, OnePortEach
  <2>4. QED
    BY <2>2, <2>3
<1>10. QED
  BY <1>3, <1>4, <1>5, <1>6, <1>7, <1>9

\* An inspected container that is neither running nor young serves nobody,
\* but for one that is not started yet, which is written down.
LEMMA InspectsKeeps ==
    ASSUME HostInv, NEW p \in Lanes, Inspects(p)
    PROVE  HostInv'
<1>1. PICK b \in seen[p] :
          /\ seen' = [seen EXCEPT ![p] = @ \ {b}]
          /\ stale' = [stale EXCEPT ![p] = IF b \in Boxes /\ Stale(b) THEN @ \cup {b} ELSE @]
          /\ early' = IF box[b] = "created" THEN early \cup {b} ELSE early
  BY DEF Inspects
<1>2. UNCHANGED <<pc, box, port, old, own, target>>
  BY DEF Inspects, host
<1>3. b \in Lanes /\ box[b] \in {"absent", "created", "running", "stopped"}
  BY <1>1 DEF HostInv, HostTypes
<1>4. \A q \in Lanes : stale'[q] \subseteq stale[q] \cup (IF b \in Boxes /\ Stale(b) THEN {b} ELSE {})
  BY <1>1 DEF HostInv, HostTypes
<1>5. b \in Boxes /\ Stale(b) => b \in early' \/ Ended(b)
  BY <1>1, <1>3 DEF HostInv, NobodyNeeds, Stale, Boxes
<1>6. HostTypes'
  BY <1>1, <1>2, <1>3 DEF HostInv, HostTypes, Boxes
<1>7. NobodyNeeds'
  BY <1>1, <1>2, <1>4, <1>5 DEF HostInv, NobodyNeeds, Ended
<1>8. Served' /\ OnePortEach'
  BY <1>1, <1>2 DEF HostInv, Served, OnePortEach, Ended
<1>9. QED
  BY <1>6, <1>7, <1>8 DEF HostInv

-----------------------------------------------------------------------------
(* Steps that remove containers.                                           *)

LEMMA RemovedKeeps ==
    ASSUME HostInv, NEW p \in Lanes, NEW l \in Labels, Goto(p, l), ~Ended(p),
           l \notin {"tests", "create"}, NEW gone, Removed(gone),
           \A b \in gone : b = p \/ b \in early \/ Ended(b),
           own' = own \/ own' = [own EXCEPT ![p] = FALSE],
           own'[p] => l \in {"off", "killed"},
           UNCHANGED <<target, seen, early>>,
           stale' \in [Lanes -> SUBSET Lanes], \A q \in Lanes : stale'[q] \subseteq stale[q]
    PROVE  HostInv'
<1>1. HostTypes'
  <2>1. pc' \in [Lanes -> Labels] /\ own' \in [Lanes -> BOOLEAN] /\ target' = target
    BY DEF HostInv, HostTypes, Goto
  <2>2. box' \in [Lanes -> {"absent", "created", "running", "stopped"}]
    BY DEF HostInv, HostTypes, Removed
  <2>3. port' \in [Lanes -> 0..Ports]
    BY HubDbAssumption DEF HostInv, HostTypes, Removed
  <2>4. old' \subseteq Boxes'
    BY DEF HostInv, HostTypes, Removed, Boxes
  <2>5. QED
    BY <2>1, <2>2, <2>3, <2>4 DEF HostInv, HostTypes
<1>2. \A q \in Lanes : Ended(q) => Ended(q)'
  BY DEF HostInv, HostTypes, Goto, Ended
<1>3. NobodyNeeds'
  BY <1>2 DEF HostInv, HostTypes, NobodyNeeds, Removed, Boxes
<1>4. Served'
  BY DEF HostInv, HostTypes, Served, Removed, Goto, Ended
<1>5. OnePortEach'
  BY DEF HostInv, OnePortEach, Removed
<1>6. QED
  BY <1>1, <1>3, <1>4, <1>5 DEF HostInv

LEMMA ReapsKeeps ==
    ASSUME HostInv, NEW p \in Lanes, Reaps(p)
    PROVE  HostInv'
<1>1. \A b \in stale[p] : b = p \/ b \in early \/ Ended(b)
  BY DEF HostInv, NobodyNeeds
<1>2. ~own[p]
  BY DEF Reaps, HostInv, Served, Ended
<1>3. stale' \in [Lanes -> SUBSET Lanes] /\ \A q \in Lanes : stale'[q] \subseteq stale[q]
  BY DEF Reaps, HostInv, HostTypes
<1>4. QED
  BY <1>1, <1>2, <1>3, RemovedKeeps DEF Reaps, Ended, Labels

LEMMA SuiteKeeps ==
    ASSUME HostInv, NEW p \in Lanes, Suite(p)
    PROVE  HostInv'
<1>. DEFINE l == IF p \in Hand THEN "off" ELSE "next"
<1>1. /\ Goto(p, l) /\ ~Ended(p) /\ l \in Labels /\ l \notin {"tests", "create"}
      /\ UNCHANGED <<target, seen, early, stale>> /\ stop(p)
  BY DEF Suite, Ended, Labels
<1>2. stale' \in [Lanes -> SUBSET Lanes]
  BY <1>1 DEF HostInv, HostTypes
<1>3. CASE own[p]
  <2>1. Removed({p}) /\ own' = [own EXCEPT ![p] = FALSE]
    BY <1>1, <1>3 DEF stop
  <2>2. ~own'[p]
    BY <2>1 DEF HostInv, HostTypes
  <2>3. QED
    BY <1>1, <1>2, <2>1, <2>2, RemovedKeeps
<1>4. CASE ~own[p]
  <2>1. UNCHANGED <<box, port, old, own>> /\ seen' \in [Lanes -> SUBSET Lanes]
    BY <1>1, <1>4 DEF stop, HostInv, HostTypes
  <2>2. QED
    BY <1>1, <1>4, <2>1, GotoKeeps
<1>5. QED
  BY <1>3, <1>4

LEMMA NotReadyKeeps ==
    ASSUME HostInv, NEW p \in Lanes, NotReady(p), UNCHANGED lane
    PROVE  HostInv'
<1>1. ~own[p]
  BY DEF NotReady, HostInv, Served, Ended
<1>2. stale' \in [Lanes -> SUBSET Lanes]
  BY DEF lane, HostInv, HostTypes
<1>3. QED
  BY <1>1, <1>2, RemovedKeeps DEF NotReady, Ended, Labels, lane

-----------------------------------------------------------------------------
(* Steps that make and start containers, and the host's own.               *)

LEMMA CreatesKeeps ==
    ASSUME HostInv, NEW p \in Lanes, Creates(p), UNCHANGED lane
    PROVE  HostInv'
<1>1. pc[p] = "create" /\ ~Ended(p) /\ ~own[p] /\ target[p] \in 1..Ports
  BY HubDbAssumption DEF Creates, HostInv, HostTypes, Served, Ended
<1>2. HostTypes'
  BY <1>1 DEF HostInv, HostTypes, Creates, lane, Goto, Boxes, Labels
<1>3. NobodyNeeds'
  BY <1>1 DEF HostInv, HostTypes, NobodyNeeds, Creates, lane, Goto, Ended
<1>4. Served'
  BY <1>1 DEF HostInv, HostTypes, Served, Creates, lane, Goto, Ended
<1>5. OnePortEach'
  BY <1>1 DEF HostInv, HostTypes, OnePortEach, Creates
<1>6. QED
  BY <1>2, <1>3, <1>4, <1>5 DEF HostInv

LEMMA BootsKeeps ==
    ASSUME HostInv, NEW p \in Lanes, Boots(p), UNCHANGED lane
    PROVE  HostInv'
<1>1. pc[p] = "boot" /\ ~Ended(p) /\ ~own[p]
  BY DEF Boots, HostInv, Served, Ended
<1>2. UNCHANGED <<port, old, own, target, stale, seen, early>>
  BY DEF Boots, lane
<1>3. CASE box[p] = "created" /\ port[p] \notin Held
  <2>1. box' = [box EXCEPT ![p] = "running"] /\ Goto(p, "ready")
    BY <1>3 DEF Boots
  <2>2. HostTypes'
    BY <1>2, <2>1 DEF HostInv, HostTypes, Goto, Boxes, Labels
  <2>3. NobodyNeeds'
    BY <1>1, <1>2, <2>1 DEF HostInv, HostTypes, NobodyNeeds, Goto, Ended
  <2>4. Served'
    BY <1>1, <1>2, <1>3, <2>1 DEF HostInv, HostTypes, Served, Goto, Ended
  <2>5. OnePortEach'
    BY <1>2, <1>3, <2>1 DEF HostInv, HostTypes, OnePortEach, Held
  <2>6. QED
    BY <2>2, <2>3, <2>4, <2>5 DEF HostInv
<1>4. CASE ~(box[p] = "created" /\ port[p] \notin Held)
  <2>1. UNCHANGED box /\ Goto(p, "dies") /\ seen' \in [Lanes -> SUBSET Lanes]
    BY <1>2, <1>4 DEF Boots, HostInv, HostTypes
  <2>2. QED
    BY <1>1, <1>2, <2>1, GotoKeeps DEF Labels
<1>5. QED
  BY <1>3, <1>4

LEMMA ReadyKeeps ==
    ASSUME HostInv, NEW p \in Lanes, Ready(p), UNCHANGED lane
    PROVE  HostInv'
<1>1. pc[p] = "ready" /\ ~Ended(p) /\ box[p] = "running"
  BY DEF Ready, Ended
<1>2. HostTypes'
  BY <1>1 DEF HostInv, HostTypes, Ready, host, lane, Goto, Boxes, Labels
<1>3. NobodyNeeds'
  BY <1>1 DEF HostInv, HostTypes, NobodyNeeds, Ready, host, lane, Goto, Ended
<1>4. Served'
  BY <1>1 DEF HostInv, HostTypes, Served, Ready, host, lane, Goto, Ended
<1>5. OnePortEach'
  BY DEF HostInv, OnePortEach, Ready, host
<1>6. QED
  BY <1>2, <1>3, <1>4, <1>5 DEF HostInv

LEMMA HostKeeps ==
    ASSUME HostInv, NEW b \in Lanes, Host(b)
    PROVE  HostInv'
<1>1. UNCHANGED <<pc, port, own, target, stale, seen, early>> /\ Ended(b)
  BY DEF Host, Ages, Stops, lane, Ended
<1>2. HostTypes'
  BY <1>1 DEF HostInv, HostTypes, Host, Ages, Stops, Boxes
<1>3. NobodyNeeds'
  BY <1>1 DEF HostInv, HostTypes, NobodyNeeds, Host, Ages, Stops, Ended
<1>4. Served'
  BY <1>1 DEF HostInv, HostTypes, Served, Host, Ages, Stops, Ended
<1>5. OnePortEach'
  BY <1>1 DEF HostInv, HostTypes, OnePortEach, Host, Ages, Stops
<1>6. QED
  BY <1>2, <1>3, <1>4, <1>5 DEF HostInv

LEMMA HostStep == HostInv /\ [Next]_vars => HostInv'
<1> SUFFICES ASSUME HostInv, [Next]_vars PROVE HostInv'
  OBVIOUS
<1>1. CASE UNCHANGED vars
  <2>1. UNCHANGED hostVars
    BY <1>1 DEF vars, hostVars, host, lane
  <2>2. QED
    BY <2>1 DEF hostVars, HostInv, HostTypes, NobodyNeeds, Served, OnePortEach, Ended, Boxes
<1>2. ASSUME NEW p \in Lanes, Lane(p)
      PROVE  HostInv'
  <2>1. UNCHANGED <<roster, tree, lane, kills>> => UNCHANGED lane
    OBVIOUS
  <2>2. QED
    BY <1>2, <2>1, QuietStepsKeep, InspectsKeeps, ReapsKeeps, SuiteKeeps, CreatesKeeps, BootsKeeps,
       ReadyKeeps, NotReadyKeeps DEF Lane
<1>3. ASSUME NEW p \in Lanes, Killed(p) \/ Host(p)
      PROVE  HostInv'
  BY <1>3, QuietStepsKeep, HostKeeps
<1>4. QED
  BY <1>1, <1>2, <1>3 DEF Next

LEMMA HostInit == Init => HostInv
<1> SUFFICES ASSUME Init PROVE HostInv
  OBVIOUS
<1>1. HostTypes
  BY HubDbAssumption DEF Init, HostTypes, Labels
<1>2. NobodyNeeds /\ Served /\ OnePortEach
  BY DEF Init, NobodyNeeds, Served, OnePortEach
<1>3. QED
  BY <1>1, <1>2 DEF HostInv

LEMMA HostInvariant == Spec => []HostInv
  BY HostInit, HostStep, PTL DEF Spec

(* A suite with a container of its own keeps it running under its cases,    *)
(* but for one inspected before it was started, and no two running          *)
(* containers publish one port.                                             *)
THEOREM SuitesKeepTheirDatabases == Spec => []StartedSuiteKeepsItsDatabase
<1>1. HostInv => StartedSuiteKeepsItsDatabase
  BY DEF HostInv, Served, OnePortEach, StartedSuiteKeepsItsDatabase
<1>2. QED
  BY <1>1, HostInvariant, PTL

-----------------------------------------------------------------------------
(* The verdicts: what the suites did, what mocha reports of it.            *)

Ran == {"passed", "failed", "skippedOne", "skippedAll", "skipped", "denied", "hookThrew", "lost"}
Whats == Ran \cup {"unrun"}

RunTypes ==
    /\ did \in [Lanes -> [Files -> Whats]]
    /\ todo \in [Lanes -> SUBSET Files]
    /\ report = [p \in Lanes |-> report[p]]
    /\ exit \in [Lanes -> {0, 1, VENUE_EXIT, NoExit}]
    /\ kills \in 0..MaxKills
    /\ tree \in Trees

\* The report of a lane is that of the suites it ran, and of no others.
Told(p) ==
    /\ \A f \in Files, w \in Ran : did[p][f] = w => Reports(f, w) \subseteq report[p]
    /\ \A c \in report[p] : \E f \in Files, w \in Ran : did[p][f] = w /\ c \in Reports(f, w)

\* Nothing runs twice, nothing before the roster is found in order.
InTurn(p) ==
    /\ \A f \in todo[p] : did[p][f] = "unrun"
    /\ pc[p] \in {"audit", "ps", "inspect"} => \A f \in Files : did[p][f] = "unrun"
    /\ pc[p] \notin {"audit", "off", "killed"} => auditRoster /\ suitesToRun # {}
    /\ pc[p] = "off" <=> exit[p] # NoExit

Earned(p) ==
    LET done == {did[p][f] : f \in Files} \ {"unrun"}
    IN  /\ exit[p] = 0 =>
              /\ \A f \in tree.files : f \in Declared
              /\ suitesToRun # {}
              /\ \A f \in suitesToRun : did[p][f] = "passed" /\ tree.kids[f] \subseteq tree.required[f]
        /\ exit[p] = VENUE_EXIT =>
              \/ done = {} /\ ~docker
              \/ "denied" \in done /\ done \cap {"failed", "hookThrew", "lost"} = {}

RunInv ==
    /\ RunTypes
    /\ \A p \in Lanes \ Hand : Told(p) /\ InTurn(p) /\ Earned(p)

LEMMA CasesSay ==
    ASSUME NEW f, NEW as \in {"passes", "pending"}, NEW c \in Cases(f, as)
    PROVE  c.as = as /\ c.file = f
<1>1. PICK k \in {"none"} \cup tree.required[f] : c = Case(f, k, as)
  BY DEF Cases
<1>2. QED
  BY <1>1 DEF Case

LEMMA WhatIsReported ==
    ASSUME NEW f, NEW w \in Ran, NEW c \in Reports(f, w)
    PROVE  /\ c.as \in {"passes", "failures", "pending"}
           /\ c.as = "passes" => c.file = f /\ w \in {"passed", "failed", "skippedOne", "lost"}
           /\ c.as = "failures" => w \in {"failed", "denied", "hookThrew", "lost"}
<1>1. CASE w = "passed"
  BY <1>1, CasesSay DEF Reports
<1>2. CASE w = "failed"
  BY <1>2, CasesSay DEF Reports, Case
<1>3. CASE w = "skippedOne"
  BY <1>3, CasesSay DEF Reports, Case
<1>4. CASE w = "skippedAll"
  BY <1>4, CasesSay DEF Reports
<1>5. CASE w = "skipped"
  BY <1>5 DEF Reports
<1>6. CASE w = "denied" \/ w = "hookThrew"
  BY <1>6 DEF Reports, Hook
<1>7. CASE w = "lost"
  BY <1>7, CasesSay DEF Reports, Hook
<1>8. QED
  BY <1>1, <1>2, <1>3, <1>4, <1>5, <1>6, <1>7 DEF Ran

LEMMA OtherFailuresShow ==
    ASSUME NEW f, NEW w \in {"failed", "hookThrew", "lost"}
    PROVE  \E c \in Reports(f, w) : c.as = "failures" /\ ~isDbPrivilegeBeforeAllFailure(c)
<1>1. CASE w = "failed"
  <2>1. Case(f, "none", "failures") \in Reports(f, w)
    BY <1>1 DEF Reports
  <2>2. Case(f, "none", "failures").as = "failures" /\ ~Case(f, "none", "failures").hook
    BY DEF Case
  <2>3. QED
    BY <2>1, <2>2 DEF isDbPrivilegeBeforeAllFailure
<1>2. ASSUME NEW g, Hook(g, FALSE) \in Reports(f, w)
      PROVE  \E c \in Reports(f, w) : c.as = "failures" /\ ~isDbPrivilegeBeforeAllFailure(c)
  <2>1. Hook(g, FALSE).as = "failures" /\ ~Hook(g, FALSE).denied
    BY DEF Hook
  <2>2. QED
    BY <1>2, <2>1 DEF isDbPrivilegeBeforeAllFailure
<1>3. CASE w = "hookThrew"
  BY <1>3, <1>2 DEF Reports
<1>4. CASE w = "lost"
  BY <1>4, <1>2 DEF Reports
<1>5. QED
  BY <1>1, <1>3, <1>4

LEMMA SkipsShow ==
    ASSUME NEW f
    PROVE  \E c \in Reports(f, "skippedOne") : c.as = "pending" /\ c.file = f
<1>1. Case(f, "none", "pending") \in Reports(f, "skippedOne")
  BY DEF Reports
<1>2. QED
  BY <1>1 DEF Case

\* A refused hook is the only thing reported as one.
LEMMA RefusedWasDenied ==
    ASSUME NEW f, NEW w \in Ran, NEW c \in Reports(f, w),
           c.as = "failures", isDbPrivilegeBeforeAllFailure(c)
    PROVE  w = "denied"
<1>1. CASE w = "failed"
  <2>1. c = Case(f, "none", "failures")
    BY <1>1, CasesSay DEF Reports
  <2>2. QED
    BY <2>1 DEF Case, isDbPrivilegeBeforeAllFailure
<1>2. CASE w = "hookThrew"
  <2>1. c = Hook(f, FALSE)
    BY <1>2 DEF Reports
  <2>2. QED
    BY <2>1 DEF Hook, isDbPrivilegeBeforeAllFailure
<1>3. CASE w = "lost"
  <2>1. c = Hook("none", FALSE)
    BY <1>3, CasesSay DEF Reports
  <2>2. QED
    BY <2>1 DEF Hook, isDbPrivilegeBeforeAllFailure
<1>4. QED
  BY <1>1, <1>2, <1>3, WhatIsReported

\* A report without failures, without pending cases and with a passing case of
\* every suite is a green one.
LEMMA GreenReport ==
    ASSUME RunTypes, NEW p \in Lanes, Told(p), auditRoster, suitesToRun # {},
           classifyReport(report[p]) = 0
    PROVE  /\ \A f \in tree.files : f \in Declared
           /\ \A f \in suitesToRun : did[p][f] = "passed" /\ tree.kids[f] \subseteq tree.required[f]
<1>1. Failures(report[p]) = {} /\ classify(report[p]) = {}
  BY DEF classifyReport, VENUE_EXIT
<1>2. Declared = tree.files
  BY DEF auditRoster
<1>3. ASSUME NEW f \in suitesToRun
      PROVE  tree.kids[f] \subseteq tree.required[f]
  <2>1. PICK e \in Entries : e.run = "yes" /\ e.file = f
    BY <1>3 DEF suitesToRun
  <2>2. tree.kids[e.file] = tree.required[e.file]
    BY <2>1 DEF auditRoster
  <2>3. QED
    BY <2>1, <2>2
<1>4. ASSUME NEW f \in suitesToRun
      PROVE  did[p][f] = "passed"
  <2>1. ~Problem(report[p], f)
    BY <1>1 DEF classify
  <2>2. PICK c \in report[p] : c.file = f /\ c.as = "passes"
    BY <2>1 DEF Problem, tallyByFile
  <2>3. PICK g \in Files : did[p][g] \in Ran /\ c \in Reports(g, did[p][g])
    BY <2>2 DEF Told
  <2>4. did[p][g] \in Ran
    BY <2>3 DEF RunTypes
  <2>5. g = f /\ did[p][f] \in {"passed", "failed", "skippedOne", "lost"}
    BY <2>2, <2>3, <2>4, WhatIsReported
  <2>6. Reports(f, did[p][f]) \subseteq report[p]
    BY <2>3, <2>5 DEF Told
  <2>7. did[p][f] \notin {"failed", "lost"}
    BY <1>1, <2>6, OtherFailuresShow DEF Failures
  <2>8. did[p][f] # "skippedOne"
    BY <2>1, <2>6, SkipsShow DEF Problem, tallyByFile
  <2>9. QED
    BY <2>5, <2>7, <2>8
<1>5. QED
  BY <1>2, <1>3, <1>4

LEMMA VenueReport ==
    ASSUME RunTypes, NEW p \in Lanes, Told(p), classifyReport(report[p]) = VENUE_EXIT
    PROVE  LET done == {did[p][f] : f \in Files} \ {"unrun"}
           IN  "denied" \in done /\ done \cap {"failed", "hookThrew", "lost"} = {}
<1>1. Failures(report[p]) # {} /\ \A c \in Failures(report[p]) : isDbPrivilegeBeforeAllFailure(c)
  BY DEF classifyReport, VENUE_EXIT
<1>2. PICK c \in report[p] : c.as = "failures" /\ isDbPrivilegeBeforeAllFailure(c)
  BY <1>1 DEF Failures
<1>3. PICK g \in Files : did[p][g] \in Ran /\ c \in Reports(g, did[p][g])
  BY <1>2 DEF Told
<1>4. did[p][g] = "denied"
  BY <1>2, <1>3, RefusedWasDenied DEF RunTypes
<1>5. ASSUME NEW f \in Files, did[p][f] \in {"failed", "hookThrew", "lost"}
      PROVE  FALSE
  <2>1. Reports(f, did[p][f]) \subseteq report[p]
    BY <1>5 DEF Told, Ran
  <2>2. QED
    BY <1>1, <1>5, <2>1, OtherFailuresShow DEF Failures
<1>6. QED
  BY <1>4, <1>5

-----------------------------------------------------------------------------
(* The steps of a run.                                                     *)

LEMMA RosterStays ==
    ASSUME UNCHANGED <<roster, tree>>
    PROVE  (auditRoster' <=> auditRoster) /\ suitesToRun' = suitesToRun /\ Declared' = Declared
BY DEF auditRoster, suitesToRun, Declared, Entries

LEMMA ReportsStay ==
    ASSUME UNCHANGED tree
    PROVE  \A f, w : Reports(f, w)' = Reports(f, w)
BY DEF Reports, Cases

\* What is said of a lane speaks of its own entries, the roster and the host.
LEMMA OthersStay ==
    ASSUME NEW q \in Lanes \ Hand, Told(q) /\ InTurn(q) /\ Earned(q),
           UNCHANGED <<roster, tree, docker>>,
           pc'[q] = pc[q], did'[q] = did[q], report'[q] = report[q], todo'[q] = todo[q],
           exit'[q] = exit[q]
    PROVE  (Told(q) /\ InTurn(q) /\ Earned(q))'
<1>1. Told(q)'
  BY ReportsStay DEF Told
<1>2. InTurn(q)'
  BY RosterStays DEF InTurn
<1>3. Earned(q)'
  BY RosterStays DEF Earned
<1>4. QED
  BY <1>1, <1>2, <1>3

\* A lane goes on without a word to its report.
LEMMA WalkStays ==
    ASSUME RunInv, HostTypes, NEW p \in Lanes, NEW l \in Labels \ {"off", "audit"}, Goto(p, l), pc[p] # "off",
           l \in {"ps", "inspect"} => pc[p] \in {"audit", "ps", "inspect"},
           l # "killed" /\ pc[p] \in {"audit", "killed"} => auditRoster /\ suitesToRun # {},
           kills' \in 0..MaxKills,
           UNCHANGED <<did, report, exit, roster, tree, docker>>,
           todo' \in [Lanes -> SUBSET Files],
           \A q \in Lanes : q # p => todo'[q] = todo[q],
           todo'[p] \subseteq todo[p] \/ \A f \in Files : did[p][f] = "unrun"
    PROVE  RunInv'
<1>1. RunTypes'
  BY DEF RunInv, RunTypes
<1>2. ASSUME NEW q \in Lanes \ Hand
      PROVE  (Told(q) /\ InTurn(q) /\ Earned(q))'
  <2>1. Told(q) /\ InTurn(q) /\ Earned(q)
    BY DEF RunInv
  <2>2. CASE q # p
    <3>1. pc'[q] = pc[q]
      BY <2>2 DEF Goto, HostTypes
    <3>2. QED
      BY <2>1, <2>2, <3>1, OthersStay
  <2>3. CASE q = p
    <3>1. pc'[p] = l
      BY DEF Goto, HostTypes
    <3>2. Told(q)'
      BY <2>1, ReportsStay DEF Told
    <3>3. Earned(q)'
      BY <2>1, RosterStays DEF Earned
    <3>4. \A f \in todo'[p] : did[p][f] = "unrun"
      BY <2>1, <2>3 DEF InTurn, RunInv, RunTypes
    <3>5. l \in {"audit", "ps", "inspect"} => \A f \in Files : did[p][f] = "unrun"
      BY <2>1, <2>3 DEF InTurn
    <3>6. l \notin {"audit", "off", "killed"} => auditRoster /\ suitesToRun # {}
      BY <2>1, <2>3 DEF InTurn
    <3>7. exit[p] = NoExit
      BY <2>1, <2>3 DEF InTurn
    <3>8. InTurn(q)'
      BY <2>3, <3>1, <3>4, <3>5, <3>6, <3>7, RosterStays DEF InTurn
    <3>9. QED
      BY <3>2, <3>3, <3>8
  <2>4. QED
    BY <2>2, <2>3
<1>3. QED
  BY <1>1, <1>2 DEF RunInv

\* A lane ends with an exit code it has earned.
LEMMA EndStays ==
    ASSUME RunInv, HostTypes, NEW p \in Lanes, Goto(p, "off"), pc[p] # "off",
           NEW code \in {0, 1, VENUE_EXIT}, exit' = [exit EXCEPT ![p] = code],
           UNCHANGED <<did, report, todo, roster, tree, docker, kills>>,
           p \notin Hand => Earned(p)'
    PROVE  RunInv'
<1>1. RunTypes'
  BY DEF RunInv, RunTypes
<1>2. ASSUME NEW q \in Lanes \ Hand
      PROVE  (Told(q) /\ InTurn(q) /\ Earned(q))'
  <2>1. Told(q) /\ InTurn(q) /\ Earned(q)
    BY DEF RunInv
  <2>2. CASE q # p
    <3>1. pc'[q] = pc[q] /\ exit'[q] = exit[q]
      BY <2>2 DEF Goto, HostTypes, RunInv, RunTypes
    <3>2. QED
      BY <2>1, <2>2, <3>1, OthersStay
  <2>3. CASE q = p
    <3>1. pc'[p] = "off" /\ exit'[p] = code /\ code # NoExit
      BY DEF Goto, HostTypes, RunInv, RunTypes, NoExit, VENUE_EXIT
    <3>2. Told(q)'
      BY <2>1, ReportsStay DEF Told
    <3>3. InTurn(q)'
      BY <2>1, <2>3, <3>1 DEF InTurn
    <3>4. QED
      BY <2>3, <3>2, <3>3
  <2>4. QED
    BY <2>2, <2>3
<1>3. QED
  BY <1>1, <1>2 DEF RunInv

LEMMA MainStays == ASSUME RunInv, HostTypes, NEW p \in Lanes, Main(p) PROVE RunInv'
<1>1. pc[p] = "audit" /\ UNCHANGED <<did, report, todo, roster, tree, docker, kills>>
  BY DEF Main, host
<1>2. todo' \in [Lanes -> SUBSET Files] /\ kills' \in 0..MaxKills
  BY <1>1 DEF RunInv, RunTypes
<1>3. CASE ~auditRoster \/ suitesToRun = {}
  <2>1. Goto(p, "off") /\ exit' = [exit EXCEPT ![p] = 1]
    BY <1>3 DEF Main
  <2>2. Earned(p)'
    BY <2>1 DEF Earned, RunInv, RunTypes, VENUE_EXIT
  <2>3. QED
    BY <1>1, <2>1, <2>2, EndStays
<1>4. CASE ~(~auditRoster \/ suitesToRun = {}) /\ liveTierBlocker
  <2>1. Goto(p, "off") /\ exit' = [exit EXCEPT ![p] = VENUE_EXIT]
    BY <1>4 DEF Main
  <2>2. ASSUME p \notin Hand
        PROVE  Earned(p)'
    <3>1. InTurn(p)
      BY <2>2 DEF RunInv
    <3>2. \A f \in Files : did'[p][f] = "unrun"
      BY <1>1, <3>1 DEF InTurn
    <3>3. ~docker'
      BY <1>1, <1>4 DEF liveTierBlocker
    <3>4. exit'[p] = VENUE_EXIT /\ VENUE_EXIT # 0
      BY <2>1 DEF RunInv, RunTypes, VENUE_EXIT
    <3>5. QED
      BY <3>2, <3>3, <3>4 DEF Earned
  <2>3. QED
    BY <1>1, <2>1, <2>2, EndStays
<1>5. CASE ~(~auditRoster \/ suitesToRun = {}) /\ ~liveTierBlocker
  <2>1. Goto(p, "ps") /\ UNCHANGED exit
    BY <1>5 DEF Main
  <2>2. QED
    BY <1>1, <1>2, <1>5, <2>1, WalkStays DEF Labels
<1>6. QED
  BY <1>3, <1>4, <1>5

\* The suites of a sound roster are files of the tree.
LEMMA SuitesAreFiles ==
    ASSUME RunTypes, auditRoster
    PROVE  suitesToRun \subseteq Files
BY LiveTierAssumption DEF RunTypes, auditRoster, suitesToRun, Declared

LEMMA ReapsStays == ASSUME RunInv, HostTypes, NEW p \in Lanes \ Hand, Reaps(p) PROVE RunInv'
<1>1. /\ pc[p] = "inspect" /\ Goto(p, "next") /\ todo' = [todo EXCEPT ![p] = suitesToRun]
      /\ UNCHANGED <<did, report, exit, roster, tree, docker, kills>>
  BY DEF Reaps
<1>2. InTurn(p)
  BY DEF RunInv
<1>3. todo' \in [Lanes -> SUBSET Files] /\ \A q \in Lanes : q # p => todo'[q] = todo[q]
  BY <1>1, <1>2, SuitesAreFiles DEF RunInv, RunTypes, InTurn
<1>4. (\A f \in Files : did[p][f] = "unrun") /\ kills' \in 0..MaxKills
  BY <1>1, <1>2 DEF InTurn, RunInv, RunTypes
<1>5. QED
  BY <1>1, <1>3, <1>4, WalkStays DEF Labels

LEMMA SuiteStays == ASSUME RunInv, HostTypes, NEW p \in Lanes \ Hand, Suite(p) PROVE RunInv'
<1>1. PICK f \in todo[p], w \in Did(pc[p]) :
          /\ todo' = [todo EXCEPT ![p] = @ \ {f}]
          /\ report' = [report EXCEPT ![p] = @ \cup Reports(f, w)]
          /\ did' = [did EXCEPT ![p][f] = w]
  BY DEF Suite
<1>2. /\ pc[p] \in {"tests", "skips", "dies"} /\ Goto(p, "next")
      /\ UNCHANGED <<exit, roster, tree, docker, kills>>
  BY DEF Suite
<1>3. f \in Files /\ w \in Ran
  BY <1>1 DEF RunInv, RunTypes, Did, Ran
<1>5. /\ did' \in [Lanes -> [Files -> Whats]] /\ todo' \in [Lanes -> SUBSET Files]
      /\ report' = [q \in Lanes |-> report'[q]]
  BY <1>1, <1>3 DEF RunInv, RunTypes, Whats
<1>6. RunTypes'
  BY <1>2, <1>5 DEF RunInv, RunTypes
<1>7. Told(p) /\ InTurn(p) /\ Earned(p)
  BY DEF RunInv
<1>8. /\ did'[p][f] = w /\ \A g \in Files : g # f => did'[p][g] = did[p][g]
      /\ todo'[p] = todo[p] \ {f} /\ report'[p] = report[p] \cup Reports(f, w)
      /\ pc'[p] = "next"
  BY <1>1, <1>2, <1>3 DEF RunInv, RunTypes, HostTypes, Goto
<1>9. did[p][f] = "unrun" /\ todo[p] \subseteq Files
  BY <1>1, <1>7 DEF InTurn, RunInv, RunTypes
<1>10. Told(p)'
  <2>1. ASSUME NEW g \in Files, NEW v \in Ran, did'[p][g] = v
        PROVE  Reports(g, v) \subseteq report'[p]
    BY <1>7, <1>8, <2>1 DEF Told
  <2>2. ASSUME NEW c \in report'[p]
        PROVE  \E g \in Files, v \in Ran : did'[p][g] = v /\ c \in Reports(g, v)
    <3>1. CASE c \in Reports(f, w)
      BY <1>3, <1>8, <3>1
    <3>2. CASE c \in report[p]
      <4>1. PICK g \in Files, v \in Ran : did[p][g] = v /\ c \in Reports(g, v)
        BY <1>7, <3>2 DEF Told
      <4>2. did'[p][g] = v
        BY <1>8, <1>9, <4>1 DEF Ran
      <4>3. QED
        BY <4>1, <4>2
    <3>3. QED
      BY <1>8, <3>1, <3>2
  <2>3. QED
    BY <1>2, <2>1, <2>2, ReportsStay DEF Told
<1>11. exit[p] = NoExit /\ auditRoster /\ suitesToRun # {}
  BY <1>2, <1>7 DEF InTurn
<1>12. InTurn(p)'
  <2>1. \A g \in todo'[p] : did'[p][g] = "unrun"
    BY <1>7, <1>8, <1>9 DEF InTurn
  <2>2. exit'[p] = NoExit /\ auditRoster' /\ suitesToRun' # {}
    BY <1>2, <1>11, RosterStays
  <2>3. QED
    BY <1>8, <2>1, <2>2 DEF InTurn
<1>13. Earned(p)'
  BY <1>2, <1>11 DEF Earned, NoExit, VENUE_EXIT
<1>14. ASSUME NEW q \in Lanes \ Hand
       PROVE  (Told(q) /\ InTurn(q) /\ Earned(q))'
  <2>1. CASE q = p
    BY <2>1, <1>10, <1>12, <1>13
  <2>2. CASE q # p
    <3>1. /\ pc'[q] = pc[q] /\ did'[q] = did[q] /\ report'[q] = report[q] /\ todo'[q] = todo[q]
          /\ exit'[q] = exit[q]
      BY <1>1, <1>2, <2>2 DEF RunInv, RunTypes, HostTypes, Goto
    <3>2. Told(q) /\ InTurn(q) /\ Earned(q)
      BY DEF RunInv
    <3>3. QED
      BY <1>2, <3>1, <3>2, OthersStay
  <2>3. QED
    BY <2>1, <2>2
<1>15. QED
  BY <1>6, <1>14 DEF RunInv

LEMMA VerdictStays == ASSUME RunInv, HostTypes, NEW p \in Lanes \ Hand, Verdict(p) PROVE RunInv'
<1>. DEFINE code == classifyReport(report[p])
<1>1. /\ pc[p] = "report" /\ Goto(p, "off") /\ exit' = [exit EXCEPT ![p] = code]
      /\ UNCHANGED <<did, report, todo, roster, tree, docker, kills>>
  BY DEF Verdict, host
<1>2. code \in {0, 1, VENUE_EXIT}
  BY DEF classifyReport
<1>3. exit'[p] = code
  BY <1>1 DEF RunInv, RunTypes
<1>4. RunTypes /\ Told(p) /\ auditRoster /\ suitesToRun # {}
  BY <1>1 DEF RunInv, InTurn
<1>5. code = 0 =>
          /\ \A f \in tree.files : f \in Declared
          /\ \A f \in suitesToRun : did[p][f] = "passed" /\ tree.kids[f] \subseteq tree.required[f]
  BY <1>4, GreenReport
<1>6. code = VENUE_EXIT =>
          LET done == {did[p][f] : f \in Files} \ {"unrun"}
          IN  "denied" \in done /\ done \cap {"failed", "hookThrew", "lost"} = {}
  BY <1>4, VenueReport
<1>. HIDE DEF code
<1>7. Earned(p)'
  BY <1>1, <1>3, <1>4, <1>5, <1>6, RosterStays DEF Earned
<1>8. QED
  BY <1>1, <1>2, <1>7, EndStays

LEMMA NoReportStays == ASSUME RunInv, HostTypes, NEW p \in Lanes \ Hand, NoReport(p) PROVE RunInv'
<1>1. /\ pc[p] # "off" /\ Goto(p, "off") /\ exit' = [exit EXCEPT ![p] = 1]
      /\ UNCHANGED <<did, report, todo, roster, tree, docker, kills>>
  BY DEF NoReport, host
<1>2. Earned(p)'
  BY <1>1 DEF Earned, RunInv, RunTypes, VENUE_EXIT
<1>3. QED
  BY <1>1, <1>2, EndStays

\* The rest of a lane's steps leave its suites and its report alone.
LEMMA OtherStepsStay ==
    ASSUME RunInv, HostTypes, NEW p \in Lanes \ Hand,
           Lists(p) \/ Inspects(p) \/ NextSuite(p) \/ Killed(p)
             \/ (/\ \/ Reuses(p) \/ NoDatabase(p) \/ firstFreePort(p) \/ Creates(p)
                    \/ Boots(p) \/ Ready(p) \/ NotReady(p)
                 /\ UNCHANGED <<roster, tree, lane, kills>>)
    PROVE  RunInv'
<1>. todo \in [Lanes -> SUBSET Files] /\ kills \in 0..MaxKills
  BY DEF RunInv, RunTypes
<1>1. CASE Lists(p)
  <2>1. /\ pc[p] = "ps" /\ Goto(p, "inspect")
        /\ UNCHANGED <<did, report, exit, todo, roster, tree, docker, kills>>
    BY <1>1 DEF Lists, host
  <2>2. QED
    BY <2>1, WalkStays DEF Labels
<1>2. CASE Inspects(p)
  <2>1. UNCHANGED <<pc, did, report, exit, todo, roster, tree, docker, kills>>
    BY <1>2 DEF Inspects, host
  <2>2. RunTypes'
    BY <2>1 DEF RunInv, RunTypes
  <2>3. ASSUME NEW q \in Lanes \ Hand
        PROVE  (Told(q) /\ InTurn(q) /\ Earned(q))'
    <3>1. Told(q) /\ InTurn(q) /\ Earned(q)
      BY DEF RunInv
    <3>2. QED
      BY <2>1, <3>1, OthersStay
  <2>4. QED
    BY <2>2, <2>3 DEF RunInv
<1>3. CASE Killed(p)
  <2>1. /\ pc[p] # "off" /\ Goto(p, "killed") /\ kills' = kills + 1 /\ kills < MaxKills
        /\ UNCHANGED <<did, report, exit, todo, roster, tree, docker>>
    BY <1>3 DEF Killed, host, lane
  <2>2. kills' \in 0..MaxKills
    BY <2>1, LiveTierAssumption
  <2>3. QED
    BY <2>1, <2>2, WalkStays DEF Labels
<1>4. CASE \/ NextSuite(p)
           \/ /\ \/ Reuses(p) \/ NoDatabase(p) \/ firstFreePort(p) \/ Creates(p)
                 \/ Boots(p) \/ Ready(p) \/ NotReady(p)
              /\ UNCHANGED <<roster, tree, lane, kills>>
  <2>1. PICK l \in {"report", "db", "tests", "skips", "dies", "create", "boot", "ready"} : Goto(p, l)
    BY <1>4 DEF NextSuite, Reuses, NoDatabase, firstFreePort, Creates, Boots, Ready, NotReady
  <2>2. /\ pc[p] \in {"next", "db", "create", "boot", "ready"}
        /\ UNCHANGED <<did, report, exit, todo, roster, tree, kills>>
    BY <1>4 DEF NextSuite, Reuses, NoDatabase, firstFreePort, Creates, Boots, Ready, NotReady, lane
  <2>3. UNCHANGED docker
    BY <1>4 DEF NextSuite, Reuses, NoDatabase, firstFreePort, Creates, Boots, Ready, NotReady, host
  <2>4. QED
    BY <2>1, <2>2, <2>3, WalkStays DEF Labels
<1>5. QED
  BY <1>1, <1>2, <1>3, <1>4

-----------------------------------------------------------------------------
(* A suite run by hand is no lane of the runner.                           *)

HandLabels == {"db", "create", "boot", "ready", "tests", "skips", "dies", "off", "killed"}

HandInv == \A p \in Lanes \cap Hand : pc[p] \in HandLabels

LEMMA HandGoes ==
    ASSUME HostTypes, HandInv, NEW p \in Lanes, NEW l \in Labels, Goto(p, l),
           p \in Hand => l \in HandLabels
    PROVE  HandInv'
BY DEF HandInv, HostTypes, Goto

LEMMA HandStep == HostTypes /\ HandInv /\ [Next]_vars => HandInv'
<1> SUFFICES ASSUME HostTypes, HandInv, [Next]_vars PROVE HandInv'
  OBVIOUS
<1>1. CASE UNCHANGED vars
  BY <1>1 DEF vars, HandInv
<1>2. ASSUME NEW p \in Lanes, UNCHANGED pc
      PROVE  HandInv'
  BY <1>2 DEF HandInv
<1>3. ASSUME NEW p \in Lanes, Main(p) \/ Lists(p) \/ Reaps(p) \/ NextSuite(p) \/ Verdict(p)
      PROVE  HandInv'
  <2>1. p \notin Hand
    BY <1>3 DEF HandInv, HandLabels, Main, Lists, Reaps, NextSuite, Verdict
  <2>2. PICK l \in {"off", "ps", "inspect", "next", "report", "db"} : Goto(p, l)
    BY <1>3 DEF Main, Lists, Reaps, NextSuite, Verdict
  <2>3. QED
    BY <2>1, <2>2, HandGoes DEF Labels
<1>4. ASSUME NEW p \in Lanes, Suite(p)
      PROVE  HandInv'
  <2>1. Goto(p, IF p \in Hand THEN "off" ELSE "next")
    BY <1>4 DEF Suite
  <2>2. QED
    BY <2>1, HandGoes DEF Labels, HandLabels
<1>5. ASSUME NEW p \in Lanes,
             \/ NoReport(p) \/ Killed(p) \/ Reuses(p) \/ NoDatabase(p) \/ firstFreePort(p)
             \/ Creates(p) \/ Boots(p) \/ Ready(p) \/ NotReady(p)
      PROVE  HandInv'
  <2>1. PICK l \in HandLabels : Goto(p, l)
    BY <1>5 DEF NoReport, Killed, Reuses, NoDatabase, firstFreePort, Creates, Boots, Ready,
                NotReady, HandLabels
  <2>2. QED
    BY <2>1, HandGoes DEF Labels, HandLabels
<1>6. ASSUME NEW p \in Lanes, Inspects(p) \/ Host(p)
      PROVE  HandInv'
  <2>1. UNCHANGED pc
    BY <1>6 DEF Inspects, Host, Ages, Stops
  <2>2. QED
    BY <2>1 DEF HandInv
<1>7. QED
  BY <1>1, <1>3, <1>4, <1>5, <1>6 DEF Next, Lane

\* Nor does what it does reach the runner's lanes.
LEMMA HandStays ==
    ASSUME RunInv, HostTypes, HandInv, NEW p \in Lanes \cap Hand, Lane(p) \/ Killed(p)
    PROVE  RunInv'
<1>1. pc[p] \in HandLabels
  BY DEF HandInv
<1>2. /\ UNCHANGED <<did, report, exit, roster, tree>> /\ kills' \in 0..MaxKills
      /\ todo' \in [Lanes -> SUBSET Files] /\ \A q \in Lanes : q # p => todo'[q] = todo[q]
  <2>. todo \in [Lanes -> SUBSET Files] /\ kills \in 0..MaxKills
    BY DEF RunInv, RunTypes
  <2>1. CASE Suite(p)
    <3>1. PICK f \in todo[p] : todo' = [todo EXCEPT ![p] = @ \ {f}]
      BY <2>1 DEF Suite
    <3>2. UNCHANGED <<did, report, exit, roster, tree, kills>>
      BY <2>1 DEF Suite
    <3>3. QED
      BY <3>1, <3>2
  <2>2. CASE Killed(p)
    BY <2>2, LiveTierAssumption DEF Killed, lane
  <2>3. CASE Inspects(p)
    BY <2>3, <1>1 DEF Inspects, HandLabels
  <2>4. CASE /\ \/ Reuses(p) \/ NoDatabase(p) \/ firstFreePort(p) \/ Creates(p)
                \/ Boots(p) \/ Ready(p) \/ NotReady(p)
             /\ UNCHANGED <<roster, tree, lane, kills>>
    BY <2>4 DEF lane
  <2>5. QED
    BY <1>1, <2>1, <2>2, <2>3, <2>4
       DEF Lane, HandLabels, Main, Lists, Reaps, NextSuite, Verdict, NoReport
<1>3. UNCHANGED docker /\ \E l : Goto(p, l)
  BY <1>1 DEF Lane, HandLabels, Main, Lists, Inspects, Reaps, NextSuite, Suite, Verdict, NoReport,
     Killed, Reuses, NoDatabase, firstFreePort, Creates, Boots, Ready, NotReady, host
<1>4. RunTypes'
  BY <1>2 DEF RunInv, RunTypes
<1>5. ASSUME NEW q \in Lanes \ Hand
      PROVE  (Told(q) /\ InTurn(q) /\ Earned(q))'
  <2>1. Told(q) /\ InTurn(q) /\ Earned(q)
    BY DEF RunInv
  <2>2. pc'[q] = pc[q]
    BY <1>3 DEF Goto, HostTypes
  <2>3. QED
    BY <1>2, <1>3, <2>1, <2>2, OthersStay
<1>6. QED
  BY <1>4, <1>5 DEF RunInv

LEMMA HostStays == ASSUME RunInv, HostTypes, NEW b \in Lanes, Host(b) PROVE RunInv'
<1>1. UNCHANGED <<pc, did, report, exit, todo, roster, tree, docker, kills>>
  BY DEF Host, Ages, Stops, lane
<1>2. RunTypes'
  BY <1>1 DEF RunInv, RunTypes
<1>3. ASSUME NEW q \in Lanes \ Hand
      PROVE  (Told(q) /\ InTurn(q) /\ Earned(q))'
  <2>1. Told(q) /\ InTurn(q) /\ Earned(q)
    BY DEF RunInv
  <2>2. QED
    BY <1>1, <2>1, OthersStay
<1>4. QED
  BY <1>2, <1>3 DEF RunInv

LEMMA RunStep == HostTypes /\ HandInv /\ RunInv /\ [Next]_vars => RunInv'
<1> SUFFICES ASSUME HostTypes, HandInv, RunInv, [Next]_vars PROVE RunInv'
  OBVIOUS
<1>1. CASE UNCHANGED vars
  <2>1. UNCHANGED <<pc, did, report, exit, todo, roster, tree, docker, kills>>
    BY <1>1 DEF vars, host, lane
  <2>2. RunTypes'
    BY <2>1 DEF RunInv, RunTypes
  <2>3. ASSUME NEW q \in Lanes \ Hand
        PROVE  (Told(q) /\ InTurn(q) /\ Earned(q))'
    BY <2>1, <2>3, OthersStay DEF RunInv
  <2>4. QED
    BY <2>2, <2>3 DEF RunInv
<1>2. ASSUME NEW p \in Lanes \ Hand, Lane(p) \/ Killed(p)
      PROVE  RunInv'
  BY <1>2, MainStays, ReapsStays, SuiteStays, VerdictStays, NoReportStays, OtherStepsStay DEF Lane
<1>3. ASSUME NEW p \in Lanes \cap Hand, Lane(p) \/ Killed(p)
      PROVE  RunInv'
  BY <1>3, HandStays
<1>4. ASSUME NEW p \in Lanes, Host(p)
      PROVE  RunInv'
  BY <1>4, HostStays
<1>5. QED
  BY <1>1, <1>2, <1>3, <1>4 DEF Next

LEMMA RunInit == Init => RunInv /\ HandInv
<1> SUFFICES ASSUME Init PROVE RunInv /\ HandInv
  OBVIOUS
<1>1. HandInv
  BY DEF Init, HandInv, HandLabels
<1>2. RunTypes
  <2>1. (CHOOSE f \in Files : TRUE) \in Files
    BY LiveTierAssumption
  <2>2. todo \in [Lanes -> SUBSET Files]
    BY <2>1 DEF Init
  <2>3. QED
    BY <2>2, LiveTierAssumption DEF Init, RunTypes, Whats
<1>3. ASSUME NEW p \in Lanes \ Hand
      PROVE  Told(p) /\ InTurn(p) /\ Earned(p)
  BY DEF Init, Told, InTurn, Earned, Ran, NoExit, VENUE_EXIT
<1>4. QED
  BY <1>1, <1>2, <1>3 DEF RunInv

LEMMA RunInvariant == Spec => [](HostInv /\ HandInv /\ RunInv)
<1>1. HostInv => HostTypes
  BY DEF HostInv
<1>2. QED
  BY <1>1, HostInit, HostStep, RunInit, RunStep, HandStep, PTL DEF Spec

(* The types of the variables, for every number of lanes, ports and suites. *)
THEOREM TypeCorrect == Spec => []TypeOK
<1>1. HostInv /\ HandInv /\ RunInv => TypeOK
  <2>1. ASSUME HostInv, RunInv
        PROVE  /\ pc \in [Lanes -> Labels]
               /\ box \in [Lanes -> {"absent", "created", "running", "stopped"}]
               /\ port \in [Lanes -> 0..Ports] /\ \A b \in Boxes : port[b] # 0
               /\ old \subseteq Boxes
               /\ own \in [Lanes -> BOOLEAN]
    BY <2>1 DEF HostInv, HostTypes, Served, Boxes
  <2>2. ASSUME HostInv, RunInv
        PROVE  /\ exit \in [Lanes -> {0, 1, VENUE_EXIT, NoExit}]
               /\ \A p \in Lanes \ Hand : pc[p] = "off" <=> exit[p] # NoExit
               /\ \A p \in Lanes : todo[p] \subseteq Files
               /\ kills \in 0..MaxKills
    BY <2>2 DEF RunInv, RunTypes, InTurn
  <2>3. QED
    BY <2>1, <2>2 DEF TypeOK
<1>2. QED
  BY <1>1, RunInvariant, PTL

(* An exit code of the tier says what happened: green that every suite to   *)
(* run did pass whole, the venue's code that nothing but refused hooks      *)
(* failed, or that nothing could run (main, classifyReport).                *)
THEOREM VerdictsAreEarned == Spec => []VerdictIsEarned
<1>1. RunInv => VerdictIsEarned
  BY DEF RunInv, Earned, VerdictIsEarned
<1>2. QED
  BY <1>1, RunInvariant, PTL

=============================================================================
