------------------------------ MODULE RailDrives ------------------------------
(***************************************************************************)
(* The bridge rail drives: scripts/rail_leg_drive.js runs one leg of a     *)
(* drive in a mocha child, under a limit, and judges the journal the cases *)
(* leave; scripts/rail_drive_sweep.js runs the full leg of one drive after *)
(* another and reads the same journals leg by leg.  Drivers are started,   *)
(* killed and started again on one machine, their children outlive them,   *)
(* and a journal directory is used by one run after the other.             *)
(***************************************************************************)
EXTENDS Integers, FiniteSets, Sequences

CONSTANTS
    Rail,         \* RAIL_DRIVES: drive -> leg -> its titles and minPassed
    SweepDrives,  \* --drives of the sweep, in order
    MaxDrivers    \* bound on the driver processes

ASSUME RailAssumption ==
    /\ \A n \in DOMAIN Rail :
        /\ "full" \in DOMAIN Rail[n]
        /\ \A l \in DOMAIN Rail[n] :
            /\ Rail[n][l].minPassed \in Nat \ {0}
            /\ Rail[n][l].titles \subseteq Rail[n]["full"].titles
            /\ IsFiniteSet(Rail[n][l].titles)
    /\ SweepDrives \in Seq(DOMAIN Rail) /\ SweepDrives # <<>>
    /\ MaxDrivers \in Nat

VARIABLES
    driver,    \* by process: where main is, what it was asked, its exit code
    child,     \* by driver: its mocha process
    journal,   \* by drive: the latest entry of every title in its directory
    sweep      \* the sweep: where it is, its driver, its verdicts and exit code

railVars == <<driver, child, journal, sweep>>

Drivers == 1..MaxDrivers
Drives == DOMAIN Rail
NoCode == -1                                  \* ended by a signal, or not ended
NoEntry == [state |-> "none", by |-> 0]
EmptyJournal(n) == [t \in Rail[n]["full"].titles |-> NoEntry]
NoDriver == [pc |-> "off", drive |-> "none", leg |-> "none", code |-> NoCode,
             timedOut |-> FALSE,
             cleared |-> FALSE,    \* it removed what the directory held
             alone |-> FALSE]      \* no other child was started since it looked
NoVerdicts == [n \in Drives |-> [l \in DOMAIN Rail[n] |-> "none"]]

Alive == {d \in Drivers : driver[d].pc \notin {"off", "exited"}}
Mocha == {d \in Drivers : child[d] \in {"running", "terming"}}

At(d, pc) == driver[d].pc = pc
GoesTo(d, pc) == driver' = [driver EXCEPT ![d].pc = pc]
Exits(d, code) == driver' = [driver EXCEPT ![d].pc = "exited", ![d].code = code]

-----------------------------------------------------------------------------
(* The driver.                                                             *)

\* parseArgs: a driver is asked for a leg of a drive.
Asked(d, n, l) ==
    /\ At(d, "off") /\ \A e \in Drivers : e < d => ~At(e, "off")
    /\ driver' = [driver EXCEPT ![d] = [NoDriver EXCEPT !.pc = "scan", !.drive = n, !.leg = l]]

StartDriver(d) ==
    /\ \E n \in Drives : \E l \in DOMAIN Rail[n] : Asked(d, n, l)
    /\ UNCHANGED <<child, journal, sweep>>

\* Mutant: a look for drivers instead of their children.
LooksForDrivers(d) ==
    /\ At(d, "scan")
    /\ IF Alive # {d}
       THEN Exits(d, 2)
       ELSE driver' = [driver EXCEPT ![d].pc = "clear", ![d].alone = TRUE]
    /\ UNCHANGED <<child, journal, sweep>>

\* findCompetingDrive: any other mocha drive on the process table, an orphan
\* included, refuses this one.  Other drivers are not looked for, and ps may fail.
findCompetingDrive(d) ==
    /\ At(d, "scan")
    /\ \/ Mocha # {} /\ Exits(d, 2)
       \/ Mocha = {} /\ driver' = [driver EXCEPT ![d].pc = "clear", ![d].alone = TRUE]
       \/ Exits(d, 1)
    /\ UNCHANGED <<child, journal, sweep>>

\* The dry run ends here; otherwise the directory is made and its journal
\* removed, and either may throw.
ClearJournal(d) ==
    /\ At(d, "clear")
    /\ \/ \E code \in {0, 1} : Exits(d, code) /\ UNCHANGED journal
       \/ /\ driver' = [driver EXCEPT ![d].pc = "spawn", ![d].cleared = TRUE]
          /\ journal' = [journal EXCEPT ![driver[d].drive] = EmptyJournal(driver[d].drive)]
    /\ UNCHANGED <<child, sweep>>

\* runChild: mocha is started, or cannot be.
SpawnChild(d) ==
    /\ At(d, "spawn")
    /\ \/ Exits(d, 1) /\ UNCHANGED child
       \/ /\ child' = [child EXCEPT ![d] = "running"]
          /\ driver' = [e \in Drivers |->
                IF e = d THEN [driver[d] EXCEPT !.pc = "child"]
                ELSE [driver[e] EXCEPT !.alone = FALSE]]
    /\ UNCHANGED <<journal, sweep>>

\* The limit asks the child to tear down, the grace period after it kills it.
LimitPasses(d) ==
    /\ At(d, "child") /\ ~driver[d].timedOut
    /\ driver' = [driver EXCEPT ![d].timedOut = TRUE]
    /\ child' = [child EXCEPT ![d] = IF @ = "running" THEN "terming" ELSE @]
    /\ UNCHANGED <<journal, sweep>>

\* Mutant: a second SIGTERM instead of the SIGKILL.
AsksAgain(d) ==
    /\ At(d, "child") /\ driver[d].timedOut /\ child[d] = "running"
    /\ child' = [child EXCEPT ![d] = "terming"]
    /\ UNCHANGED <<driver, journal, sweep>>

GracePasses(d) ==
    /\ At(d, "child") /\ driver[d].timedOut /\ child[d] # "gone"
    /\ child' = [child EXCEPT ![d] = "gone"]
    /\ UNCHANGED <<driver, journal, sweep>>

ChildCloses(d) ==
    /\ At(d, "child") /\ child[d] = "gone"
    /\ GoesTo(d, "triage")
    /\ UNCHANGED <<child, journal, sweep>>

\* failureReason and verdictForLeg: nothing failed and enough passed, among the
\* latest entries of the titles the leg is about.
passes(entries, leg) ==
    /\ \A t \in leg.titles : entries[t].state # "failed"
    /\ Cardinality({t \in leg.titles : entries[t].state = "passed"}) >= leg.minPassed

\* triageFile reads the whole journal, whatever leg was asked for, and the exit
\* code of the child is not part of the verdict.
Triage(d) ==
    /\ At(d, "triage")
    /\ LET rail == Rail[driver[d].drive]
           judged == [titles |-> rail["full"].titles, minPassed |-> rail[driver[d].leg].minPassed]
           pass == passes(journal[driver[d].drive], judged)
       IN  Exits(d, IF pass /\ ~driver[d].timedOut THEN 0 ELSE 1)
    /\ UNCHANGED <<child, journal, sweep>>

\* A signal to the driver alone: its timers are gone, its child goes on.
KillDriver(d) ==
    /\ d \in Alive
    /\ Exits(d, NoCode)
    /\ UNCHANGED <<child, journal, sweep>>

-----------------------------------------------------------------------------
(* The mocha child and the sweep.                                          *)

\* journalCase: a case of the leg ends, again perhaps, and appends its line.
CaseEnds(d) ==
    /\ d \in Mocha
    /\ \E t \in Rail[driver[d].drive][driver[d].leg].titles,
          state \in {"passed", "failed", "other"} :
        journal' = [journal EXCEPT ![driver[d].drive][t] = [state |-> state, by |-> d]]
    /\ UNCHANGED <<driver, child, sweep>>

\* It ends by itself, done or crashed.
ChildEnds(d) ==
    /\ d \in Mocha
    /\ child' = [child EXCEPT ![d] = "gone"]
    /\ UNCHANGED <<driver, journal, sweep>>

\* The sweep starts the full leg of its next drive (runDrive).
SweepRuns(d) ==
    /\ sweep.pc = "next"
    /\ Asked(d, SweepDrives[sweep.next], "full")
    /\ sweep' = [sweep EXCEPT !.pc = "waiting", !.driver = d]
    /\ UNCHANGED <<child, journal>>

\* The directory's journal read leg by leg.
legVerdicts(n) ==
    [l \in DOMAIN Rail[n] |-> IF passes(journal[n], Rail[n][l]) THEN "PASS" ELSE "FAIL"]

\* The journal is read whatever the driver ended with, save that it was refused;
\* the sweep's own exit code says only that every leg has a reading.
SweepReads ==
    /\ sweep.pc = "waiting" /\ At(sweep.driver, "exited")
    /\ LET n == SweepDrives[sweep.next]
       IN  IF driver[sweep.driver].code = 2
           THEN sweep' = [sweep EXCEPT !.pc = "exited", !.code = 2]
           ELSE sweep' = [sweep EXCEPT !.verdicts[n] = legVerdicts(n),
                                       !.next = @ + 1,
                                       !.pc = IF sweep.next = Len(SweepDrives) THEN "exited" ELSE "next",
                                       !.code = IF sweep.next = Len(SweepDrives) THEN 0 ELSE @]
    /\ UNCHANGED <<driver, child, journal>>

DriverStep(d) ==
    \/ findCompetingDrive(d) \/ ClearJournal(d) \/ SpawnChild(d)
    \/ LimitPasses(d) \/ GracePasses(d) \/ ChildCloses(d) \/ Triage(d)

RailNext ==
    \/ SweepReads
    \/ \E d \in Drivers :
        \/ StartDriver(d) \/ SweepRuns(d) \/ DriverStep(d) \/ KillDriver(d)
        \/ CaseEnds(d) \/ ChildEnds(d)

RailInit ==
    /\ driver = [d \in Drivers |-> NoDriver]
    /\ child = [d \in Drivers |-> "none"]
    /\ journal = [n \in Drives |-> EmptyJournal(n)]
    /\ sweep = [pc |-> "next", next |-> 1, driver |-> 0, verdicts |-> NoVerdicts, code |-> NoCode]

-----------------------------------------------------------------------------

\* Every entry of the titles in question was appended by d's own child.
WroteAll(d, titles) ==
    \A t \in titles : journal[driver[d].drive][t].by \in {0, d}

(* A drive that is judged green is judged by what its own child journalled, *)
(* inside the limit, and never by what an earlier drive, a killed driver's  *)
(* orphan or another drive left in the directory: for the driver's exit     *)
(* code and for the sweep's PASS of a leg alike.  Two drivers that look at  *)
(* the process table before either starts its child are the exception, and  *)
(* for the sweep a driver that ended before it cleared the directory, or    *)
(* another started between its driver's end and the reading.                *)
GreenDriveIsItsOwn ==
    [][/\ \A d \in Drivers :
            (At(d, "triage") /\ driver'[d].code = 0 /\ driver[d].alone) =>
                /\ WroteAll(d, Rail[driver[d].drive]["full"].titles)
                /\ ~driver[d].timedOut
       /\ \A n \in Drives : \A l \in DOMAIN Rail[n] :
            (sweep.verdicts[n][l] # "PASS" /\ sweep'.verdicts[n][l] = "PASS") =>
                LET d == sweep.driver
                IN  driver[d].cleared /\ driver[d].alone => WroteAll(d, Rail[n][l].titles)]_railVars

(* A driver ends, however long its child hangs and whatever it ignores.     *)
DriveEnds == \A d \in Drivers : At(d, "scan") ~> At(d, "exited")
=============================================================================
