-------------------------------- MODULE Drill --------------------------------
(***************************************************************************)
(* The physical byzantine drill (test/drills/physicalByzantine.drill.js):  *)
(* validators in processes of their own, on boxes of their own, each told  *)
(* over its stdin what to do (drillRunner.js, drillNode.js).  A phase puts *)
(* a fault on some of them, has the leader propose a value of the phase's  *)
(* own and judges which of them applied it (drillVerdict.js).  A validator *)
(* that stalls reads its commands late, in their order; the driver has     *)
(* long stopped waiting for them.  The hubs in the validators are another  *)
(* repository's: a value is applied if a quorum voted for it with          *)
(* signatures that verify.                                                 *)
(***************************************************************************)
EXTENDS Integers, FiniteSets, Sequences

CONSTANTS
    Nodes,        \* the validators of the plan, in its order
    Byzantine,    \* those it labels byzantine
    Leaders,      \* bound on whom the rotation may make the leader
    Faults,       \* f, the faults of the plan
    MaxLapses     \* bound on the stalls and exits of validators

Validators == {Nodes[i] : i \in DOMAIN Nodes}

\* Both scales of the drill are of the form 3f+1.
ASSUME DrillAssumption ==
    /\ Faults \in Nat \ {0} /\ MaxLapses \in Nat
    /\ Nodes \in Seq(Validators) /\ Len(Nodes) = 3 * Faults + 1
    /\ \A i, j \in DOMAIN Nodes : Nodes[i] = Nodes[j] => i = j
    /\ Byzantine \subseteq Validators /\ Leaders \subseteq Validators

VARIABLES
    drill,         \* where the test file is, its phase, leader and victims, whether
                   \* a test or a hook has failed, and whom a failed test left
                   \* under its fault (left, a ghost)
    validator,     \* its process, its fault, the commands it has not read, what its
                   \* database and its pending proposals hold
    round,         \* the hubs' latest: the phase it is of, and how many votes verify
    lapses,
    unconfirmed    \* ghost: whose last fault command was not answered

drillVars == <<drill, validator, round, lapses, unconfirmed>>

PhaseOrder == <<"B", "C", "D", "E", "F">>
Rounds == {"B", "C", "E", "F"}          \* the phases with a proposal
Boundary == {"C", "F"}                  \* those that nothing may come of
Modes == {"none", "silent", "forge"}
Nobody == "nobody"

quorumFor == 2 * Faults + 1
current == PhaseOrder[drill.phase]
mode(p) == IF p \in {"B", "C"} THEN "silent" ELSE "forge"

\* No phase can be fooled by a value an earlier one left behind.
phaseValue(p) == p

Up(v) == validator[v].state = "up"
Running(v) == validator[v].state \in {"up", "stalled"}
honest == Cardinality({v \in Validators : Running(v) /\ validator[v].fault = "none"})

DrillInit ==
    /\ drill = [pc |-> "boot", phase |-> 1, leader |-> Nobody, victims |-> {}, red |-> FALSE,
                left |-> {}]
    /\ validator = [v \in Validators |->
          [state |-> "exited", fault |-> "none", inbox |-> <<>>, applied |-> "none",
           pending |-> {}, schema |-> FALSE]]
    /\ round = [of |-> "none", votes |-> 0]
    /\ lapses = 0 /\ unconfirmed = {}

-----------------------------------------------------------------------------
(* Commands.                                                               *)

\* A process that ends takes everything with it but its database.
gone(r) == [r EXCEPT !.state = "exited", !.fault = "none", !.inbox = <<>>, !.pending = {}]

\* What a validator does with a command that concerns itself alone.
handle(r, cmd) ==
    CASE cmd \in Modes -> [r EXCEPT !.fault = cmd]
      [] cmd = "clearPending" -> [r EXCEPT !.pending = {}]
      [] cmd = "dropDb" -> [r EXCEPT !.pending = {}, !.schema = FALSE]
      [] cmd = "stop" -> gone(r)

\* One that is up answers in time; one that stalls has the command in its
\* stdin; to one that is gone nothing is written.
sent(r, cmd) ==
    CASE r.state = "up" -> handle(r, cmd)
      [] r.state = "stalled" -> [r EXCEPT !.inbox = Append(@, cmd)]
      [] OTHER -> r

Tell(S, cmd) ==
    validator' = [v \in Validators |->
        IF v \in S THEN sent(validator[v], cmd) ELSE validator[v]]

\* The hub takes a proposal to every validator that listens.  A silent one
\* neither votes nor keeps it, a forging one's vote does not verify.
Broadcast(p, nodes) ==
    /\ round' = [of |-> p, votes |-> honest]
    /\ validator' = [v \in Validators |->
          IF Running(v) /\ nodes[v].fault # "silent"
          THEN [nodes[v] EXCEPT !.pending = @ \cup {p}] ELSE nodes[v]]

-----------------------------------------------------------------------------
(* The test file.                                                          *)

Goes(pc) == drill' = [drill EXCEPT !.pc = pc]

\* Where a phase's test begins; D has no realign before it.
begin(i) == IF PhaseOrder[i] = "D" THEN "forge" ELSE "realign"

\* A test ends, and mocha goes on with the next.  The leader and the victims
\* were the test's own.
EndsLeaving(red, left) ==
    drill' = [drill EXCEPT
        !.pc = IF drill.phase = Len(PhaseOrder) THEN "drop" ELSE begin(drill.phase + 1),
        !.phase = IF drill.phase = Len(PhaseOrder) THEN @ ELSE @ + 1,
        !.leader = Nobody, !.victims = {}, !.red = @ \/ red, !.left = left]

Ends(red) == EndsLeaving(red, drill.left)

\* startMesh: every validator is spawned and becomes ready.  A box that cannot
\* be deployed to leaves those before it running, one that is never ready takes
\* the rest down with it; either way there is no mesh for the last hook to drop.
StartMesh ==
    /\ drill.pc = "boot"
    /\ \/ /\ validator' = [v \in Validators |->
                [validator[v] EXCEPT !.state = "up", !.schema = TRUE]]
          /\ Goes("check")
       \/ \E S \in SUBSET Validators : \E state \in {"up", "exited"} :
             /\ validator' = [v \in Validators |->
                   IF v \in S THEN [validator[v] EXCEPT !.state = state, !.schema = TRUE]
                   ELSE validator[v]]
             /\ drill' = [drill EXCEPT !.pc = "over", !.red = TRUE]
    /\ UNCHANGED <<round, lapses, unconfirmed>>

\* A: everyone answers, sees everyone and agrees on the quorum, or the test fails.
CheckMesh ==
    /\ drill.pc = "check"
    /\ \E seen \in BOOLEAN :
          drill' = [drill EXCEPT !.pc = "realign",
                                 !.red = @ \/ ~seen \/ \E v \in Validators : ~Up(v)]
    /\ UNCHANGED <<validator, round, lapses, unconfirmed>>

\* realign: whoever does not answer is passed over.  The sequence numbers it
\* levels are the hubs' and left out; the rotation may make anyone of Leaders
\* the leader.
realign ==
    /\ drill.pc = "realign"
    /\ Tell(Validators, "clearPending")
    /\ Goes("leader")
    /\ UNCHANGED <<round, lapses, unconfirmed>>

\* findLeader asks them one after the other, up to the one that says yes.
findLeader ==
    /\ drill.pc = "leader"
    /\ \/ \E i \in DOMAIN Nodes :
             /\ Nodes[i] \in Leaders /\ \A j \in 1..i : Up(Nodes[j])
             /\ drill' = [drill EXCEPT !.pc = "faults", !.leader = Nodes[i]]
       \/ (\E v \in Validators : ~Up(v)) /\ Ends(TRUE)
    /\ UNCHANGED <<validator, round, lapses, unconfirmed>>

\* In which order victims are looked for: the planned byzantine ones first,
\* then the others, both in the plan's order.
turn(v) ==
    (CHOOSE i \in DOMAIN Nodes : Nodes[i] = v) + (IF v \in Byzantine THEN 0 ELSE Len(Nodes))

\* The first of them, never the leader.
victimsOf(leader, p) ==
    LET others == Validators \ {leader}
        n == IF p \in Boundary THEN Faults + 1 ELSE Faults
    IN  {v \in others : Cardinality({w \in others : turn(w) < turn(v)}) < n}

\* Mutant: the fault commands' failures are swallowed, as clearFaults does.
SwallowsFailures ==
    /\ drill.pc = "faults"
    /\ LET victims == victimsOf(drill.leader, current) IN
       /\ Tell(victims, mode(current))
       /\ drill' = [drill EXCEPT !.pc = "propose", !.victims = victims]
    /\ UNCHANGED <<round, lapses, unconfirmed>>

\* applyFaults is before the test's try: if one victim does not answer, the
\* test fails and the others keep their fault.
applyFaults ==
    /\ drill.pc = "faults"
    /\ LET victims == victimsOf(drill.leader, current)
           answered == {v \in victims : Up(v)}
       IN
       /\ Tell(victims, mode(current))
       /\ unconfirmed' = (unconfirmed \cup victims) \ answered
       /\ IF answered = victims
          THEN drill' = [drill EXCEPT !.pc = "propose", !.victims = victims,
                                      !.left = @ \ victims]
          ELSE EndsLeaving(TRUE, (drill.left \ victims) \cup answered)
    /\ UNCHANGED <<round, lapses>>

\* The leader answers at once; what becomes of the proposal is an event nobody
\* reads.  A leader that stalls will still propose, after the test gave up.
Propose ==
    /\ drill.pc = "propose"
    /\ IF Up(drill.leader)
       THEN /\ Goes("wait")
            /\ Broadcast(current, validator) \/ UNCHANGED <<validator, round>>
       ELSE /\ drill' = [drill EXCEPT !.pc = "clear", !.red = TRUE]
            /\ IF validator[drill.leader].state = "stalled"
               THEN validator' = [validator EXCEPT ![drill.leader].inbox = Append(@, current)]
               ELSE UNCHANGED validator
            /\ UNCHANGED round
    /\ UNCHANGED <<lapses, unconfirmed>>

Applied == {v \in Validators : validator[v].applied = phaseValue(current)}

\* Mutant: those that lag behind are not looked for.
SkipsLaggards ==
    /\ \A v \in Validators : (current = "E" /\ v \in drill.victims) \/ Up(v)
    /\ Cardinality(Validators \ drill.victims) >= quorumFor
    /\ current = "B" => Applied \cap drill.victims = {}

\* Every honest validator has the value and no silenced one; the forging ones
\* of E may have it, and are not read.
evaluateLiveness ==
    /\ \A v \in Validators : (current = "E" /\ v \in drill.victims) \/ Up(v)
    /\ Cardinality(Validators \ drill.victims) >= quorumFor
    /\ Validators \ drill.victims \subseteq Applied
    /\ current = "B" => Applied \cap drill.victims = {}

evaluateBoundary == (\A v \in Validators : Up(v)) /\ Applied = {}

\* The wait ends when enough have the value or its time is up, the watch of a
\* boundary phase when one has or its time is up.
Judge ==
    /\ drill.pc = "wait"
    /\ LET passed == IF current \in Boundary THEN evaluateBoundary ELSE evaluateLiveness IN
       drill' = [drill EXCEPT !.pc = "clear", !.red = @ \/ ~passed]
    /\ UNCHANGED <<validator, round, lapses, unconfirmed>>

\* clearFaults swallows what goes wrong; C and E realign after it.
clearFaults ==
    /\ drill.pc = "clear"
    /\ Tell(Validators, "none")
    /\ unconfirmed' = {v \in unconfirmed \cup drill.victims \cup drill.left : ~Up(v)}
    /\ IF current \in {"C", "E"}
       THEN drill' = [drill EXCEPT !.pc = "tidy", !.left = {}]
       ELSE EndsLeaving(FALSE, {})
    /\ UNCHANGED <<round, lapses>>

realignAfter ==
    /\ drill.pc = "tidy"
    /\ Tell(Validators, "clearPending")
    /\ Ends(FALSE)
    /\ UNCHANGED <<round, lapses, unconfirmed>>

\* D: a forged proposal to each in turn; honest hubs keep nothing of it.
Forge ==
    /\ drill.pc = "forge"
    /\ IF \A v \in Validators : Up(v)
       THEN Tell(Validators, "clearPending") /\ Ends(FALSE)
       ELSE Ends(TRUE) /\ UNCHANGED validator
    /\ UNCHANGED <<round, lapses, unconfirmed>>

\* The last hook: every schema is dropped, or the hook fails by name of those
\* left; a database may refuse.
dropDb ==
    /\ drill.pc = "drop"
    /\ \E refused \in SUBSET {v \in Validators : Up(v)} :
          /\ Tell(Validators \ refused, "dropDb")
          /\ drill' = [drill EXCEPT !.pc = "stop",
                          !.red = @ \/ refused # {} \/ \E v \in Validators : ~Up(v)]
    /\ UNCHANGED <<round, lapses, unconfirmed>>

\* One that stalls on this machine is killed, one behind ssh reads its stop,
\* or the end of its stdin, when it reads again.
stop ==
    /\ drill.pc = "stop" /\ Goes("over")
    /\ \E killed \in SUBSET {v \in Validators : validator[v].state = "stalled"} :
          validator' = [v \in Validators |->
              IF v \in killed THEN gone(validator[v]) ELSE sent(validator[v], "stop")]
    /\ UNCHANGED <<round, lapses, unconfirmed>>

-----------------------------------------------------------------------------
(* The validators.                                                         *)

\* A stalled one reads its next command, however late.
ReadsLate(v) ==
    /\ validator[v].state = "stalled" /\ validator[v].inbox # <<>>
    /\ LET cmd == Head(validator[v].inbox)
           rest == [validator[v] EXCEPT !.inbox = Tail(@)]
       IN  IF cmd \in Rounds
           THEN Broadcast(cmd, [validator EXCEPT ![v] = rest])
           ELSE /\ validator' = [validator EXCEPT ![v] = handle(rest, cmd)]
                /\ UNCHANGED round
    /\ UNCHANGED <<drill, lapses, unconfirmed>>

CatchesUp(v) ==
    /\ validator[v].state = "stalled" /\ validator[v].inbox = <<>>
    /\ validator' = [validator EXCEPT ![v].state = "up"]
    /\ UNCHANGED <<drill, round, lapses, unconfirmed>>

Lapses(v) ==
    /\ Running(v) /\ lapses < MaxLapses /\ drill.pc # "over"
    /\ \E state \in {"stalled", "exited"} \ {validator[v].state} :
          validator' = [validator EXCEPT ![v] =
              IF state = "stalled" THEN [@ EXCEPT !.state = state] ELSE gone(@)]
    /\ lapses' = lapses + 1
    /\ UNCHANGED <<drill, round, unconfirmed>>

\* A pending value with a quorum of votes is written to the validator's database.
Applies(v, p) ==
    /\ Running(v) /\ validator[v].fault # "silent"
    /\ p \in validator[v].pending /\ round.of = p /\ round.votes >= quorumFor
    /\ validator' = [validator EXCEPT ![v].applied = phaseValue(p), ![v].pending = @ \ {p}]
    /\ UNCHANGED <<drill, round, lapses, unconfirmed>>

DrillNext ==
    \/ StartMesh \/ CheckMesh
    \/ realign \/ findLeader \/ applyFaults \/ Propose \/ Judge \/ clearFaults \/ realignAfter
    \/ Forge \/ dropDb \/ stop
    \/ \E v \in Validators :
          \/ ReadsLate(v) \/ CatchesUp(v) \/ Lapses(v)
          \/ \E p \in Rounds : Applies(v, p)

-----------------------------------------------------------------------------
(* Properties.                                                             *)

(* While a phase waits for its outcome, each of its victims that still runs *)
(* is under the phase's fault, and nobody else is under any, but for two    *)
(* kinds: whoever did not answer its last fault command, and a victim that  *)
(* did while another of its phase did not, until clearFaults runs again.    *)
(* applyFaults waits for its answers, clearFaults does not mind theirs, and *)
(* commands are read in order, however late.                                *)
FaultsAreThePhases ==
    drill.pc \in {"propose", "wait"} =>
        \A v \in {w \in Validators : Running(w)} :
            IF v \in drill.victims
            THEN validator[v].fault = mode(current)
            ELSE validator[v].fault # "none" => v \in unconfirmed \cup drill.left

(* As long as no test or hook has failed, a phase that passes has shown     *)
(* what it claims: the proposal of B or E had the votes of exactly a quorum, *)
(* all but the f faulty, that of C or F fewer, whatever the validators       *)
(* missed and did late on the way; and no schema is left at the venue.       *)
GreenDrillIsEarned ==
    [][/\ (drill.pc = "wait" /\ drill'.pc = "clear" /\ ~drill'.red) =>
            IF current \in Boundary THEN round.of = current => round.votes < quorumFor
            ELSE round = [of |-> current, votes |-> quorumFor]
       /\ (drill'.pc = "over" /\ ~drill'.red) =>
            \A v \in Validators : ~validator'[v].schema]_drillVars
=============================================================================
