------------------------------ MODULE LiveTier ------------------------------
(***************************************************************************)
(* The runner of the live integration tier (scripts/run-live-tier.js): the *)
(* roster is held against the directory, what dead runs left in docker is  *)
(* removed, mocha runs the suites, and its report becomes one of three     *)
(* exit codes.  The lanes of a host share its docker daemon; any of them   *)
(* may be killed and leave its container behind.                           *)
(***************************************************************************)
EXTENDS HubDb, Sequences

CONSTANTS
    Hand,         \* the lanes that are one suite run by hand
    Files,        \* suite files there may be
    Rosters,      \* what live-tier.json may hold: sequences of entries
    Trees,        \* what test/integration may hold: files, and per file the
                  \* child files and those of them it requires
    MaxKills      \* bound on the lanes killed

ASSUME LiveTierAssumption ==
    /\ Files # {} /\ MaxKills \in Nat
    /\ \A t \in Trees : t.files \subseteq Files

VARIABLES
    roster, tree,
    todo,         \* per lane, the suites mocha has yet to run
    report,       \* per lane, mocha's report: a set of cases and hooks
    seen,         \* per lane, the containers docker ps listed to it
    stale,        \* per lane, those of them it will remove
    exit,         \* per lane, the exit code, or none
    kills,
    did,          \* ghost: per lane, what each suite it ran really did
    early         \* ghost: containers inspected between their creation and start

lane == <<todo, report, seen, stale, exit, did, early>>
vars == <<pc, host, given, own, target, roster, tree, lane, kills>>

VENUE_EXIT == 95
NoExit == 255

-----------------------------------------------------------------------------
(* The roster *)

Entries == {roster[i] : i \in DOMAIN roster}

Declared == {e.file : e \in Entries}

\* Both directions, no file twice, a reason for every exclusion, and no child
\* that its parent never requires.
auditRoster ==
    /\ \A i, j \in DOMAIN roster : roster[i].file = roster[j].file => i = j
    /\ \A e \in Entries : e.run # "unsaid" /\ (e.run = "no" => e.why)
    /\ Declared = tree.files
    /\ \A e \in Entries : e.run = "yes" => tree.kids[e.file] = tree.required[e.file]

suitesToRun == {e.file : e \in {x \in Entries : x.run = "yes"}}

\* Without a database of its own or docker the commit is not evaluated.  Only
\* whether HUB_DB_* is set is looked at here, not whether it answers.
liveTierBlocker == given = "none" /\ ~docker

Main(p) ==
    /\ pc[p] = "audit"
    /\ IF ~auditRoster \/ suitesToRun = {}
       THEN Goto(p, "off") /\ exit' = [exit EXCEPT ![p] = 1]
       ELSE IF liveTierBlocker
       THEN Goto(p, "off") /\ exit' = [exit EXCEPT ![p] = VENUE_EXIT]
       ELSE Goto(p, "ps") /\ UNCHANGED exit
    /\ UNCHANGED <<host, given, own, target, roster, tree, todo, report, seen, stale, kills, did, early>>

-----------------------------------------------------------------------------
(* reapStaleFixtureContainers: docker ps, one docker inspect per container, *)
(* then one docker rm of what was found stale.  A name is used again only   *)
(* by a lane of the same pid, which has ended.                              *)

Lists(p) ==
    /\ pc[p] = "ps"
    /\ seen' = [seen EXCEPT ![p] = IF docker THEN Boxes ELSE {}]
    /\ Goto(p, "inspect")
    /\ UNCHANGED <<host, given, own, target, roster, tree, todo, report, stale, exit, kills, did, early>>

\* Mutant: whatever bears the fixture's name is stale.
StaleByName(b) == box[b] # "absent"
\* Not running, or too old to be anybody's.
Stale(b) == box[b] # "running" \/ b \in old

Inspects(p) ==
    /\ pc[p] = "inspect"
    /\ \E b \in seen[p] :
          /\ seen' = [seen EXCEPT ![p] = @ \ {b}]
          /\ stale' = [stale EXCEPT ![p] = IF b \in Boxes /\ Stale(b) THEN @ \cup {b} ELSE @]
          /\ early' = IF box[b] = "created" THEN early \cup {b} ELSE early
    /\ UNCHANGED <<pc, host, given, own, target, roster, tree, todo, report, exit, kills, did>>

Reaps(p) ==
    /\ pc[p] = "inspect" /\ seen[p] = {}
    /\ Removed(stale[p])
    /\ stale' = [stale EXCEPT ![p] = {}]
    /\ todo' = [todo EXCEPT ![p] = suitesToRun]
    /\ Goto(p, "next")
    /\ UNCHANGED <<docker, given, own, target, roster, tree, report, seen, exit, kills, did, early>>

-----------------------------------------------------------------------------
(* mocha.  A case is reported against the file it stands in: the suite's,   *)
(* or a child's.  A hook that throws is a failure with a file or without,   *)
(* and keeps the cases below it out of the report.                          *)

Case(f, kid, as) == [file |-> f, kid |-> kid, as |-> as, hook |-> FALSE, denied |-> FALSE]
Hook(f, denied) == [file |-> f, kid |-> "none", as |-> "failures", hook |-> TRUE, denied |-> denied]

Cases(f, as) == {Case(f, k, as) : k \in {"none"} \cup tree.required[f]}

\* What a suite may do, by whether it has a database, and what is reported of
\* it.  A suite without one calls this.skip: in its root hook nothing of it is
\* reported, in another its cases are pending.
Did(db) ==
    CASE db = "tests" -> {"passed", "failed", "skippedOne", "denied", "hookThrew", "lost"}
      [] db = "skips" -> {"skipped", "skippedAll"}
      [] OTHER -> {"hookThrew"}

Reports(f, what) ==
    CASE what = "passed"     -> Cases(f, "passes")
      [] what = "failed"     -> Cases(f, "passes") \cup {Case(f, "none", "failures")}
      [] what = "skippedOne" -> Cases(f, "passes") \cup {Case(f, "none", "pending")}
      [] what = "skippedAll" -> Cases(f, "pending")
      [] what = "skipped"    -> {}
      [] what = "denied"     -> {Hook(f, TRUE)}
      [] what = "hookThrew"  -> {Hook(f, FALSE)}
      [] what = "lost"       -> Cases(f, "passes") \cup {Hook("none", FALSE)}

NextSuite(p) ==
    /\ pc[p] = "next"
    /\ Goto(p, IF todo[p] = {} THEN "report" ELSE "db")
    /\ UNCHANGED <<host, given, own, target, roster, tree, lane, kills>>

\* The suite at hand ends, and stops the database it was handed.
Suite(p) ==
    /\ pc[p] \in {"tests", "skips", "dies"}
    /\ \E f \in todo[p], what \in Did(pc[p]) :
          /\ todo' = [todo EXCEPT ![p] = @ \ {f}]
          /\ IF p \in Hand THEN UNCHANGED <<report, did>>
             ELSE /\ report' = [report EXCEPT ![p] = @ \cup Reports(f, what)]
                  /\ did' = [did EXCEPT ![p][f] = what]
    /\ stop(p)
    /\ Goto(p, IF p \in Hand THEN "off" ELSE "next")
    /\ UNCHANGED <<docker, given, target, roster, tree, seen, stale, exit, kills, early>>

-----------------------------------------------------------------------------
(* The verdict *)

\* A child's cases count for its parent; an entry without a file for nobody.
tallyByFile(r, f, as) == {c \in r : c.file = f /\ c.as = as}

Problem(r, f) ==
    \/ tallyByFile(r, f, "failures") # {}
    \/ tallyByFile(r, f, "passes") = {}
    \/ tallyByFile(r, f, "pending") # {}

classify(r) == {f \in suitesToRun : Problem(r, f)}

isDbPrivilegeBeforeAllFailure(c) == c.hook /\ c.denied

Failures(r) == {c \in r : c.as = "failures"}

\* Mutant: one refused hook makes it the venue's fault, whatever else failed.
VenueFirst(r) ==
    IF \E c \in Failures(r) : isDbPrivilegeBeforeAllFailure(c) THEN VENUE_EXIT
    ELSE IF classify(r) # {} THEN 1 ELSE 0

classifyReport(r) ==
    IF \E c \in Failures(r) : ~isDbPrivilegeBeforeAllFailure(c) THEN 1
    ELSE IF Failures(r) # {} THEN VENUE_EXIT
    ELSE IF classify(r) # {} THEN 1 ELSE 0

\* mocha may die before it writes the report: that is red, whatever it exits
\* with.  Once there is a report only the report is read.
Verdict(p) ==
    /\ pc[p] = "report"
    /\ exit' = [exit EXCEPT ![p] = classifyReport(report[p])]
    /\ Goto(p, "off")
    /\ UNCHANGED <<host, given, own, target, roster, tree, todo, report, seen, stale, kills, did, early>>

NoReport(p) ==
    /\ pc[p] \in {"tests", "skips", "dies", "report"} /\ p \notin Hand
    /\ exit' = [exit EXCEPT ![p] = 1]
    /\ Goto(p, "off")
    /\ UNCHANGED <<host, given, own, target, roster, tree, todo, report, seen, stale, kills, did, early>>

\* A cancelled push, an operator: what the lane holds in docker stays there,
\* save a command under way, which the daemon finishes.
Killed(p) ==
    /\ pc[p] \notin {"off", "killed"} /\ kills < MaxKills
    /\ kills' = kills + 1
    /\ Goto(p, "killed")
    /\ UNCHANGED <<host, given, own, target, roster, tree, lane>>

-----------------------------------------------------------------------------
Init ==
    /\ pc = [p \in Lanes |-> IF p \in Hand THEN "db" ELSE "audit"]
    /\ box = [p \in Lanes |-> "absent"] /\ port = [p \in Lanes |-> 0] /\ old = {}
    /\ given \in {"none", "dead", "alive"} /\ docker \in BOOLEAN
    /\ own = [p \in Lanes |-> FALSE] /\ target = [p \in Lanes |-> 0]
    /\ roster \in Rosters /\ tree \in Trees
    /\ todo = [p \in Lanes |-> IF p \in Hand THEN {CHOOSE f \in Files : TRUE} ELSE {}]
    /\ report = [p \in Lanes |-> {}]
    /\ seen = [p \in Lanes |-> {}] /\ stale = [p \in Lanes |-> {}]
    /\ exit = [p \in Lanes |-> NoExit] /\ kills = 0
    /\ early = {}
    /\ did = [p \in Lanes |-> [f \in Files |-> "unrun"]]

Lane(p) ==
    \/ Main(p) \/ Lists(p) \/ Inspects(p) \/ Reaps(p)
    \/ NextSuite(p) \/ Suite(p) \/ Verdict(p) \/ NoReport(p)
    \/ /\ \/ Reuses(p) \/ NoDatabase(p) \/ firstFreePort(p) \/ Creates(p)
          \/ Boots(p) \/ Ready(p) \/ NotReady(p)
       /\ UNCHANGED <<roster, tree, lane, kills>>

Host(b) == (Ages(b) \/ Stops(b)) /\ UNCHANGED <<roster, tree, lane, kills>>

Next == \E p \in Lanes : Lane(p) \/ Killed(p) \/ Host(p)

Spec == Init /\ [][Next]_vars

-----------------------------------------------------------------------------
Labels == {"audit", "ps", "inspect", "next", "db", "create", "boot", "ready",
           "tests", "skips", "dies", "report", "off", "killed"}

(* The types of the variables; a lane that has ended by itself has an exit  *)
(* code, and a container that is there publishes a port.                    *)
TypeOK ==
    /\ pc \in [Lanes -> Labels]
    /\ box \in [Lanes -> {"absent", "created", "running", "stopped"}]
    /\ port \in [Lanes -> 0..Ports] /\ \A b \in Boxes : port[b] # 0
    /\ old \subseteq Boxes
    /\ own \in [Lanes -> BOOLEAN]
    /\ exit \in [Lanes -> {0, 1, VENUE_EXIT, NoExit}]
    /\ \A p \in Lanes \ Hand : pc[p] = "off" <=> exit[p] # NoExit
    /\ \A p \in Lanes : todo[p] \subseteq Files
    /\ kills \in 0..MaxKills

(* An exit code says what happened.  Green: every live suite on disk was    *)
(* decided about, and of every one to run every child was collected and     *)
(* every case ran and passed.  Venue: nothing failed but before-all hooks   *)
(* refused by the database, or nothing could run at all.  (main, classify,  *)
(* classifyReport.)                                                         *)
VerdictIsEarned ==
    \A p \in Lanes \ Hand :
        LET done == {did[p][f] : f \in Files} \ {"unrun"}
        IN  /\ exit[p] = 0 =>
                  /\ \A f \in tree.files : f \in Declared
                  /\ suitesToRun # {}
                  /\ \A f \in suitesToRun : did[p][f] = "passed" /\ tree.kids[f] \subseteq tree.required[f]
            /\ exit[p] = VENUE_EXIT =>
                  \/ done = {} /\ ~docker
                  \/ "denied" \in done /\ done \cap {"failed", "hookThrew", "lost"} = {}

(* A suite somebody runs survives the reaping of a lane beside it: under a  *)
(* suite with a container of its own that container keeps running.          *)
SuiteKeepsItsDatabase ==
    \A p \in Lanes : pc[p] = "tests" /\ own[p] => box[p] = "running"

(* But for a container that a lane inspected between its creation and its   *)
(* start, and so took for a stopped one, that holds; and two running        *)
(* containers never publish one port, though the port is probed long before *)
(* it is bound.                                                             *)
StartedSuiteKeepsItsDatabase ==
    /\ \A p \in Lanes \ early : pc[p] = "tests" /\ own[p] => box[p] = "running"
    /\ \A a, b \in Lanes : box[a] = "running" /\ box[b] = "running" /\ a # b => port[a] # port[b]
=============================================================================
