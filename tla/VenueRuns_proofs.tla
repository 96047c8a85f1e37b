-------------------------- MODULE VenueRuns_proofs --------------------------
(***************************************************************************)
(* Theorems about the aggregate runners, for every set of legs, every      *)
(* table of drives, any number of lanes and drivers, and any validators.   *)
(***************************************************************************)
EXTENDS VenueRuns, SequenceTheorems, FiniteSetTheorems, WellFoundedInduction, TLAPS

-----------------------------------------------------------------------------
(* The rail drives: types.                                                 *)

DriverPcs == {"off", "scan", "clear", "spawn", "child", "triage", "exited"}
Legs == {"none"} \cup UNION {DOMAIN Rail[n] : n \in Drives}

DriverType ==
    [pc : DriverPcs, drive : Drives \cup {"none"}, leg : Legs, code : Int,
     timedOut : BOOLEAN, cleared : BOOLEAN, alone : BOOLEAN]

VerdictBooks ==
    [Drives -> UNION {[DOMAIN Rail[n] -> {"none", "PASS", "FAIL"}] : n \in Drives}]

SweepType ==
    [pc : {"next", "waiting", "exited"}, next : Nat, driver : Int,
     verdicts : VerdictBooks,
     code : Int]

Entries == [state : {"none", "passed", "failed", "other"}, by : Nat]

RailTypeOK ==
    /\ driver \in [Drivers -> DriverType]
    /\ child \in [Drivers -> {"none", "running", "terming", "gone"}]
    /\ DOMAIN journal = Drives
    /\ \A n \in Drives : journal[n] \in [Rail[n]["full"].titles -> Entries]
    /\ sweep \in SweepType

-----------------------------------------------------------------------------
(* The inductive invariant: what a driver has done so far, whose child may *)
(* be writing, and which driver the sweep waits for.                       *)

DriverInv(d) ==
    /\ At(d, "off") => ~driver[d].cleared /\ ~driver[d].alone /\ child[d] = "none"
    /\ ~At(d, "off") => driver[d].drive \in Drives
    /\ ~At(d, "exited") => driver[d].code = NoCode
    /\ driver[d].pc \in {"scan", "clear"} => ~driver[d].cleared
    /\ driver[d].pc \in {"spawn", "child", "triage"} => driver[d].cleared

Alone(d) == driver[d].alone => Mocha \subseteq {d}

OwnJournal(d) ==
    (driver[d].cleared /\ driver[d].alone) => WroteAll(d, Rail[driver[d].drive]["full"].titles)

SweepInv ==
    /\ sweep.pc # "exited" => sweep.next \in 1..Len(SweepDrives)
    /\ sweep.pc = "waiting" =>
        /\ sweep.driver \in Drivers /\ ~At(sweep.driver, "off")
        /\ driver[sweep.driver].drive = SweepDrives[sweep.next]

RailInv ==
    /\ RailTypeOK
    /\ \A d \in Drivers : DriverInv(d) /\ Alone(d) /\ OwnJournal(d)
    /\ SweepInv

-----------------------------------------------------------------------------
(* What the helpers do to the drivers.                                     *)

\* What every step but a driver's first keeps of it.
Keeps(e) ==
    /\ driver'[e].drive = driver[e].drive /\ driver'[e].leg = driver[e].leg
    /\ driver'[e].cleared = driver[e].cleared /\ driver'[e].alone = driver[e].alone

LEMMA ExitsDoes ==
    ASSUME RailTypeOK, NEW d \in Drivers, NEW code \in Int, Exits(d, code)
    PROVE  /\ driver' \in [Drivers -> DriverType]
           /\ driver'[d].pc = "exited" /\ driver'[d].code = code
           /\ driver'[d].timedOut = driver[d].timedOut
           /\ \A e \in Drivers : Keeps(e) /\ (e # d => driver'[e] = driver[e])
<1>1. driver \in [Drivers -> DriverType] /\ driver[d] \in DriverType
  BY DEF RailTypeOK
<1>2. driver' = [driver EXCEPT ![d] = [driver[d] EXCEPT !.pc = "exited", !.code = code]]
  BY <1>1 DEF Exits
<1>3. [driver[d] EXCEPT !.pc = "exited", !.code = code] \in DriverType
  BY <1>1 DEF DriverType, DriverPcs
<1> QED
  BY <1>1, <1>2, <1>3 DEF Keeps, DriverType

LEMMA GoesToDoes ==
    ASSUME RailTypeOK, NEW d \in Drivers, NEW l \in DriverPcs, GoesTo(d, l)
    PROVE  /\ driver' \in [Drivers -> DriverType]
           /\ driver'[d].pc = l /\ driver'[d].code = driver[d].code
           /\ \A e \in Drivers : Keeps(e) /\ (e # d => driver'[e] = driver[e])
<1>1. driver \in [Drivers -> DriverType] /\ driver[d] \in DriverType
  BY DEF RailTypeOK
<1>2. driver' = [driver EXCEPT ![d] = [driver[d] EXCEPT !.pc = l]]
  BY <1>1 DEF GoesTo
<1>3. [driver[d] EXCEPT !.pc = l] \in DriverType
  BY <1>1 DEF DriverType
<1> QED
  BY <1>1, <1>2, <1>3 DEF Keeps, DriverType

LEMMA AskedDoes ==
    ASSUME RailTypeOK, NEW d \in Drivers, NEW n \in Drives, NEW l \in DOMAIN Rail[n],
           Asked(d, n, l)
    PROVE  /\ At(d, "off")
           /\ driver' \in [Drivers -> DriverType]
           /\ driver'[d].pc = "scan" /\ driver'[d].drive = n /\ driver'[d].code = NoCode
           /\ ~driver'[d].cleared /\ ~driver'[d].alone
           /\ \A e \in Drivers : e # d => driver'[e] = driver[e]
<1> DEFINE new == [NoDriver EXCEPT !.pc = "scan", !.drive = n, !.leg = l]
<1>1. driver \in [Drivers -> DriverType] /\ At(d, "off") /\ driver' = [driver EXCEPT ![d] = new]
  BY DEF RailTypeOK, Asked
<1>2. l \in Legs
  BY DEF Legs
<1>3. /\ new \in DriverType /\ new.pc = "scan" /\ new.drive = n /\ new.code = NoCode
      /\ ~new.cleared /\ ~new.alone
  <2>1. NoDriver \in DriverType
    BY DEF NoDriver, NoCode, DriverType, DriverPcs, Legs
  <2>2. NoDriver.code = NoCode /\ ~NoDriver.cleared /\ ~NoDriver.alone
    BY DEF NoDriver
  <2>3. new.code = NoDriver.code /\ new.cleared = NoDriver.cleared /\ new.alone = NoDriver.alone
    BY <2>1 DEF DriverType
  <2>4. new \in DriverType /\ new.pc = "scan" /\ new.drive = n
    BY <1>2, <2>1 DEF DriverType, DriverPcs
  <2> QED
    BY <2>2, <2>3, <2>4
<1> HIDE DEF new
<1>4. driver'[d] = new /\ driver' \in [Drivers -> DriverType]
  BY <1>1, <1>3
<1>5. \A e \in Drivers : e # d => driver'[e] = driver[e]
  BY <1>1
<1>7. /\ driver'[d].pc = "scan" /\ driver'[d].drive = n /\ driver'[d].code = NoCode
      /\ ~driver'[d].cleared /\ ~driver'[d].alone
  BY <1>3, <1>4
<1> QED
  BY <1>1, <1>4, <1>5, <1>7

-----------------------------------------------------------------------------
(* A driver's invariant depends on little.                                 *)

\* Of a driver that is left alone, or only has its pc moved on.
LEMMA DriverInvStays ==
    ASSUME NEW e \in Drivers, DriverInv(e), driver'[e] = driver[e],
           At(e, "off") => child'[e] = child[e]
    PROVE  DriverInv(e)'
  BY DEF DriverInv, At

\* Nobody else starts to write: the children that run are of those that ran.
LEMMA AloneStays ==
    ASSUME NEW e \in Drivers, Alone(e), driver'[e].alone => driver[e].alone,
           Mocha' \subseteq Mocha
    PROVE  Alone(e)'
  BY DEF Alone

LEMMA SameMocha == ASSUME UNCHANGED child PROVE Mocha' = Mocha
  BY DEF Mocha

LEMMA OwnStays ==
    ASSUME NEW e \in Drivers, OwnJournal(e), Keeps(e), UNCHANGED journal
    PROVE  OwnJournal(e)'
  BY DEF OwnJournal, Keeps, WroteAll

LEMMA SweepStays ==
    ASSUME SweepInv, UNCHANGED sweep,
           \A e \in Drivers : ~At(e, "off") => ~At(e, "off")' /\ driver'[e].drive = driver[e].drive
    PROVE  SweepInv'
  BY DEF SweepInv

\* A driver that ends, by itself or killed.
LEMMA ExitsKeepsInv ==
    ASSUME RailInv, NEW d \in Drivers, NEW code \in Int, ~At(d, "off"), Exits(d, code),
           UNCHANGED <<child, journal, sweep>>
    PROVE  RailInv'
<1>1. RailTypeOK /\ SweepInv /\ \A e \in Drivers : DriverInv(e) /\ Alone(e) /\ OwnJournal(e)
  BY DEF RailInv
<1>2. /\ driver' \in [Drivers -> DriverType] /\ driver'[d].pc = "exited"
      /\ \A e \in Drivers : Keeps(e) /\ (e # d => driver'[e] = driver[e])
  BY <1>1, ExitsDoes
<1>3. RailTypeOK'
  BY <1>1, <1>2 DEF RailTypeOK
<1>4. \A e \in Drivers : DriverInv(e)'
  <2> SUFFICES ASSUME NEW e \in Drivers PROVE DriverInv(e)'
    OBVIOUS
  <2>1. CASE e # d
    BY <1>1, <1>2, <2>1, DriverInvStays
  <2>2. CASE e = d
    BY <1>1, <1>2, <2>2 DEF DriverInv, At, Keeps
  <2> QED
    BY <2>1, <2>2
<1>5. \A e \in Drivers : Alone(e)'
  BY <1>1, <1>2, SameMocha, AloneStays DEF Keeps
<1>6. \A e \in Drivers : OwnJournal(e)'
  BY <1>1, <1>2, OwnStays
<1>7. SweepInv'
  BY <1>1, <1>2, SweepStays DEF At, Keeps
<1> QED
  BY <1>3, <1>4, <1>5, <1>6, <1>7 DEF RailInv

\* A driver that goes on to its next step, with child and journal as they are.
LEMMA GoesKeepsInv ==
    ASSUME RailInv, NEW d \in Drivers, NEW l \in DriverPcs, GoesTo(d, l),
           l = "triage", At(d, "child"), UNCHANGED <<child, journal, sweep>>
    PROVE  RailInv'
<1>1. RailTypeOK /\ SweepInv /\ \A e \in Drivers : DriverInv(e) /\ Alone(e) /\ OwnJournal(e)
  BY DEF RailInv
<1>2. /\ driver' \in [Drivers -> DriverType] /\ driver'[d].pc = l /\ driver'[d].code = driver[d].code
      /\ \A e \in Drivers : Keeps(e) /\ (e # d => driver'[e] = driver[e])
  BY <1>1, GoesToDoes
<1>3. RailTypeOK'
  BY <1>1, <1>2 DEF RailTypeOK
<1>4. \A e \in Drivers : DriverInv(e)'
  <2> SUFFICES ASSUME NEW e \in Drivers PROVE DriverInv(e)'
    OBVIOUS
  <2>1. CASE e # d
    BY <1>1, <1>2, <2>1, DriverInvStays
  <2>2. CASE e = d
    BY <1>1, <1>2, <2>2 DEF DriverInv, At, Keeps
  <2> QED
    BY <2>1, <2>2
<1>5. \A e \in Drivers : Alone(e)'
  BY <1>1, <1>2, SameMocha, AloneStays DEF Keeps
<1>6. \A e \in Drivers : OwnJournal(e)'
  BY <1>1, <1>2, OwnStays
<1>7. SweepInv'
  BY <1>1, <1>2, SweepStays DEF At, Keeps
<1> QED
  BY <1>3, <1>4, <1>5, <1>6, <1>7 DEF RailInv

-----------------------------------------------------------------------------
(* The steps.                                                              *)

LEMMA AskedKeepsDrivers ==
    ASSUME RailInv, NEW d \in Drivers, NEW n \in Drives, NEW l \in DOMAIN Rail[n],
           Asked(d, n, l), UNCHANGED <<child, journal>>
    PROVE  /\ driver' \in [Drivers -> DriverType]
           /\ \A e \in Drivers : DriverInv(e)' /\ Alone(e)' /\ OwnJournal(e)'
           /\ \A e \in Drivers : ~At(e, "off") => ~At(e, "off")' /\ driver'[e].drive = driver[e].drive
           /\ ~At(d, "off")' /\ driver'[d].drive = n
<1>1. RailTypeOK /\ \A e \in Drivers : DriverInv(e) /\ Alone(e) /\ OwnJournal(e)
  BY DEF RailInv
<1>2. /\ At(d, "off") /\ driver' \in [Drivers -> DriverType]
      /\ driver'[d].pc = "scan" /\ driver'[d].drive = n /\ driver'[d].code = NoCode
      /\ ~driver'[d].cleared /\ ~driver'[d].alone
      /\ \A e \in Drivers : e # d => driver'[e] = driver[e]
  BY <1>1, AskedDoes
<1>3. \A e \in Drivers : DriverInv(e)'
  <2> SUFFICES ASSUME NEW e \in Drivers PROVE DriverInv(e)'
    OBVIOUS
  <2>1. CASE e # d
    BY <1>1, <1>2, <2>1, DriverInvStays
  <2>2. CASE e = d
    BY <1>2, <2>2 DEF DriverInv, At
  <2> QED
    BY <2>1, <2>2
<1>4. \A e \in Drivers : Alone(e)'
  BY <1>1, <1>2, SameMocha DEF Alone
<1>5. \A e \in Drivers : OwnJournal(e)'
  BY <1>1, <1>2 DEF OwnJournal, WroteAll
<1> QED
  BY <1>2, <1>3, <1>4, <1>5 DEF At

LEMMA StartDriverKeeps ==
    ASSUME RailInv, NEW d \in Drivers, StartDriver(d)
    PROVE  RailInv'
<1>1. PICK n \in Drives : \E l \in DOMAIN Rail[n] : Asked(d, n, l)
  BY DEF StartDriver
<1>2. PICK l \in DOMAIN Rail[n] : Asked(d, n, l)
  BY <1>1
<1>3. UNCHANGED <<child, journal, sweep>>
  BY DEF StartDriver
<1>4. RailTypeOK /\ SweepInv
  BY DEF RailInv
<1>5. RailTypeOK' /\ SweepInv'
  BY <1>2, <1>3, <1>4, AskedKeepsDrivers, SweepStays DEF RailTypeOK
<1> QED
  BY <1>2, <1>3, <1>5, AskedKeepsDrivers DEF RailInv

LEMMA SweepDrivesAreDrives ==
    ASSUME RailAssumption, NEW i \in 1..Len(SweepDrives)
    PROVE  SweepDrives[i] \in Drives /\ "full" \in DOMAIN Rail[SweepDrives[i]]
<1>1. SweepDrives \in Seq(Drives)
  BY DEF RailAssumption, Drives
<1>2. SweepDrives[i] \in Drives
  BY <1>1, ElementOfSeq
<1> QED
  BY <1>2 DEF RailAssumption, Drives

LEMMA SweepRunsKeeps ==
    ASSUME RailInv, RailAssumption, NEW d \in Drivers, SweepRuns(d)
    PROVE  RailInv'
<1>1. RailTypeOK /\ SweepInv
  BY DEF RailInv
<1>2. sweep.pc = "next" /\ sweep.next \in 1..Len(SweepDrives) /\ Asked(d, SweepDrives[sweep.next], "full")
  BY <1>1 DEF SweepRuns, SweepInv
<1>3. UNCHANGED <<child, journal>> /\ sweep' = [sweep EXCEPT !.pc = "waiting", !.driver = d]
  BY DEF SweepRuns
<1>4. SweepDrives[sweep.next] \in Drives /\ "full" \in DOMAIN Rail[SweepDrives[sweep.next]]
  BY <1>2, SweepDrivesAreDrives
<1>5. d \in Int
  BY DEF Drivers
<1>6. /\ sweep' \in SweepType /\ sweep'.pc = "waiting" /\ sweep'.driver = d
      /\ sweep'.next = sweep.next
  BY <1>1, <1>3, <1>5 DEF RailTypeOK, SweepType
<1>7. RailTypeOK' /\ SweepInv'
  BY <1>1, <1>2, <1>3, <1>4, <1>6, AskedKeepsDrivers DEF RailTypeOK, SweepInv
<1> QED
  BY <1>2, <1>3, <1>4, <1>7, AskedKeepsDrivers DEF RailInv

\* Nothing runs when it looks, and its journal is not yet cleared.
LEMMA FindCompetingDriveKeeps ==
    ASSUME RailInv, NEW d \in Drivers, findCompetingDrive(d)
    PROVE  RailInv'
<1>1. /\ RailTypeOK /\ SweepInv /\ \A e \in Drivers : DriverInv(e) /\ Alone(e) /\ OwnJournal(e)
      /\ At(d, "scan") /\ UNCHANGED <<child, journal, sweep>>
  BY DEF RailInv, findCompetingDrive
<1>2. CASE Exits(d, 1) \/ Exits(d, 2)
  BY <1>1, <1>2, ExitsKeepsInv DEF At
<1>3. CASE Mocha = {} /\ driver' = [driver EXCEPT ![d].pc = "clear", ![d].alone = TRUE]
  <2> DEFINE new == [driver[d] EXCEPT !.pc = "clear", !.alone = TRUE]
  <2>1. driver \in [Drivers -> DriverType] /\ driver[d] \in DriverType /\ driver' = [driver EXCEPT ![d] = new]
    BY <1>1, <1>3 DEF RailTypeOK
  <2>2. /\ new \in DriverType /\ new.pc = "clear" /\ new.code = driver[d].code
        /\ new.drive = driver[d].drive /\ new.cleared = driver[d].cleared
    BY <2>1 DEF DriverType, DriverPcs
  <2> HIDE DEF new
  <2>3. /\ driver' \in [Drivers -> DriverType] /\ driver'[d] = new
        /\ \A e \in Drivers : e # d => driver'[e] = driver[e]
    BY <2>1, <2>2
  <2>4. RailTypeOK'
    BY <1>1, <2>3 DEF RailTypeOK
  <2>5. \A e \in Drivers : DriverInv(e)'
    <3>1. ASSUME NEW e \in Drivers, e # d PROVE DriverInv(e)'
      BY <1>1, <2>3, <3>1, DriverInvStays
    <3>2. DriverInv(d)'
      BY <1>1, <2>2, <2>3 DEF DriverInv, At
    <3> QED
      BY <3>1, <3>2
  <2>6. Mocha' = {} /\ \A e \in Drivers : Alone(e)'
    BY <1>1, <1>3, SameMocha DEF Alone
  <2>7. \A e \in Drivers : OwnJournal(e)'
    <3>1. ASSUME NEW e \in Drivers, e # d PROVE OwnJournal(e)'
      BY <1>1, <2>3, <3>1, OwnStays DEF Keeps
    <3>2. OwnJournal(d)'
      BY <1>1, <2>2, <2>3 DEF OwnJournal, DriverInv, At
    <3> QED
      BY <3>1, <3>2
  <2>8. SweepInv'
    <3>1. \A e \in Drivers : ~At(e, "off") => ~At(e, "off")' /\ driver'[e].drive = driver[e].drive
      BY <2>2, <2>3 DEF At
    <3> QED
      BY <1>1, <3>1, SweepStays
  <2> QED
    BY <2>4, <2>5, <2>6, <2>7, <2>8 DEF RailInv
<1> QED
  BY <1>2, <1>3 DEF findCompetingDrive

\* The directory holds nothing, of anybody.
LEMMA ClearJournalKeeps ==
    ASSUME RailInv, NEW d \in Drivers, ClearJournal(d)
    PROVE  RailInv'
<1>1. /\ RailTypeOK /\ SweepInv /\ \A e \in Drivers : DriverInv(e) /\ Alone(e) /\ OwnJournal(e)
      /\ At(d, "clear") /\ UNCHANGED <<child, sweep>>
  BY DEF RailInv, ClearJournal
<1>2. CASE \E code \in {0, 1} : Exits(d, code) /\ UNCHANGED journal
  BY <1>1, <1>2, ExitsKeepsInv DEF At
<1>3. CASE /\ driver' = [driver EXCEPT ![d].pc = "spawn", ![d].cleared = TRUE]
           /\ journal' = [journal EXCEPT ![driver[d].drive] = EmptyJournal(driver[d].drive)]
  <2> DEFINE new == [driver[d] EXCEPT !.pc = "spawn", !.cleared = TRUE]
             here == driver[d].drive
  <2>1. driver \in [Drivers -> DriverType] /\ driver[d] \in DriverType /\ driver' = [driver EXCEPT ![d] = new]
    BY <1>1, <1>3 DEF RailTypeOK
  <2>2. /\ new \in DriverType /\ new.pc = "spawn" /\ new.code = driver[d].code
        /\ new.drive = here /\ new.alone = driver[d].alone /\ new.cleared
    BY <2>1 DEF DriverType, DriverPcs
  <2>3. here \in Drives
    BY <1>1 DEF DriverInv, At
  <2> HIDE DEF new
  <2>4. /\ driver' \in [Drivers -> DriverType] /\ driver'[d] = new
        /\ \A e \in Drivers : e # d => driver'[e] = driver[e]
    BY <2>1, <2>2
  <2>5. /\ DOMAIN journal' = Drives /\ journal'[here] = EmptyJournal(here)
        /\ \A n \in Drives : n # here => journal'[n] = journal[n]
    BY <1>1, <1>3, <2>3 DEF RailTypeOK
  <2>6. NoEntry \in Entries /\ NoEntry.by = 0
    BY DEF NoEntry, Entries
  <2>7. /\ EmptyJournal(here) \in [Rail[here]["full"].titles -> Entries]
        /\ \A t \in Rail[here]["full"].titles : EmptyJournal(here)[t].by = 0
    BY <2>6 DEF EmptyJournal
  <2>8. RailTypeOK'
    BY <1>1, <2>4, <2>5, <2>7 DEF RailTypeOK
  <2>9. \A e \in Drivers : DriverInv(e)'
    <3>1. ASSUME NEW e \in Drivers, e # d PROVE DriverInv(e)'
      BY <1>1, <2>4, <3>1, DriverInvStays
    <3>2. DriverInv(d)'
      BY <1>1, <2>2, <2>4 DEF DriverInv, At
    <3> QED
      BY <3>1, <3>2
  <2>10. \A e \in Drivers : Alone(e)'
    <3>1. \A e \in Drivers : driver'[e].alone => driver[e].alone
      BY <2>2, <2>4
    <3> QED
      BY <1>1, <3>1, SameMocha, AloneStays
  <2>11. \A e \in Drivers : OwnJournal(e)'
    <3>1. ASSUME NEW e \in Drivers, e # d PROVE OwnJournal(e)'
      <4>1. driver'[e] = driver[e] /\ OwnJournal(e) /\ DriverInv(e)
        BY <1>1, <2>4, <3>1
      <4>2. CASE driver[e].drive = here
        BY <2>5, <2>7, <4>1, <4>2 DEF OwnJournal, WroteAll
      <4>3. CASE driver[e].drive # here /\ ~At(e, "off")
        <5>1. driver[e].drive \in Drives
          BY <4>1, <4>3 DEF DriverInv
        <5> QED
          BY <2>5, <4>1, <4>3, <5>1 DEF OwnJournal, WroteAll
      <4>4. CASE At(e, "off")
        <5>1. ~driver[e].cleared
          BY <4>1, <4>4 DEF DriverInv
        <5> QED
          BY <4>1, <5>1 DEF OwnJournal
      <4> QED
        BY <4>2, <4>3, <4>4
    <3>2. OwnJournal(d)'
      BY <2>2, <2>4, <2>5, <2>7 DEF OwnJournal, WroteAll
    <3> QED
      BY <3>1, <3>2
  <2>12. SweepInv'
    <3>1. \A e \in Drivers : ~At(e, "off") => ~At(e, "off")' /\ driver'[e].drive = driver[e].drive
      BY <2>2, <2>4 DEF At
    <3> QED
      BY <1>1, <3>1, SweepStays
  <2> QED
    BY <2>8, <2>9, <2>10, <2>11, <2>12 DEF RailInv
<1> QED
  BY <1>2, <1>3 DEF ClearJournal

\* The others are alone no more.
LEMMA SpawnChildKeeps ==
    ASSUME RailInv, NEW d \in Drivers, SpawnChild(d)
    PROVE  RailInv'
<1>1. /\ RailTypeOK /\ SweepInv /\ \A e \in Drivers : DriverInv(e) /\ Alone(e) /\ OwnJournal(e)
      /\ At(d, "spawn") /\ UNCHANGED <<journal, sweep>>
  BY DEF RailInv, SpawnChild
<1>2. CASE Exits(d, 1) /\ UNCHANGED child
  BY <1>1, <1>2, ExitsKeepsInv DEF At
<1>3. CASE /\ child' = [child EXCEPT ![d] = "running"]
           /\ driver' = [e \in Drivers |->
                IF e = d THEN [driver[d] EXCEPT !.pc = "child"]
                ELSE [driver[e] EXCEPT !.alone = FALSE]]
  <2>1. driver \in [Drivers -> DriverType] /\ \A e \in Drivers : driver[e] \in DriverType
    BY <1>1 DEF RailTypeOK
  <2>2. /\ driver'[d] = [driver[d] EXCEPT !.pc = "child"]
        /\ \A e \in Drivers : e # d => driver'[e] = [driver[e] EXCEPT !.alone = FALSE]
    BY <1>3
  <2>3. /\ driver'[d] \in DriverType /\ driver'[d].pc = "child" /\ driver'[d].code = driver[d].code
        /\ Keeps(d)
    BY <2>1, <2>2 DEF DriverType, DriverPcs, Keeps
  <2>4. ASSUME NEW e \in Drivers, e # d
        PROVE  /\ driver'[e] \in DriverType /\ driver'[e].pc = driver[e].pc
               /\ driver'[e].code = driver[e].code /\ driver'[e].drive = driver[e].drive
               /\ driver'[e].cleared = driver[e].cleared /\ ~driver'[e].alone
    <3> DEFINE new == [driver[e] EXCEPT !.alone = FALSE]
    <3>1. new \in DriverType /\ new.pc = driver[e].pc /\ new.code = driver[e].code
      BY <2>1, <2>4 DEF DriverType
    <3>2. new.drive = driver[e].drive /\ new.cleared = driver[e].cleared
      BY <2>1, <2>4 DEF DriverType
    <3>3. ~new.alone
      BY <2>1, <2>4 DEF DriverType
    <3> HIDE DEF new
    <3>4. driver'[e] = new
      BY <2>2, <2>4 DEF new
    <3> QED
      BY <3>1, <3>2, <3>3, <3>4
  <2>5. driver' \in [Drivers -> DriverType]
    BY <1>3, <2>2, <2>3, <2>4
  <2>6. RailTypeOK'
    BY <1>1, <1>3, <2>5 DEF RailTypeOK
  <2>7. \A e \in Drivers : DriverInv(e)'
    <3>1. ASSUME NEW e \in Drivers, e # d, ~At(e, "off") PROVE DriverInv(e)'
      BY <1>1, <2>4, <3>1 DEF DriverInv, At
    <3>2. ASSUME NEW e \in Drivers, e # d, At(e, "off") PROVE DriverInv(e)'
      <4>1. ~driver[e].cleared /\ child'[e] = "none" /\ driver[e].code = NoCode
        BY <1>1, <1>3, <3>2 DEF DriverInv, RailTypeOK, At
      <4> QED
        BY <2>4, <3>2, <4>1 DEF DriverInv, At
    <3>3. DriverInv(d)'
      BY <1>1, <2>3 DEF DriverInv, At, Keeps
    <3> QED
      BY <3>1, <3>2, <3>3
  <2>8. \A e \in Drivers : Alone(e)'
    <3>1. ASSUME NEW e \in Drivers, e # d PROVE Alone(e)'
      BY <2>4, <3>1 DEF Alone
    <3>2. Mocha' \subseteq Mocha \cup {d}
      BY <1>1, <1>3 DEF RailTypeOK, Mocha
    <3>3. Alone(d)'
      BY <1>1, <2>3, <3>2 DEF Alone, Keeps
    <3> QED
      BY <3>1, <3>3
  <2>9. \A e \in Drivers : OwnJournal(e)'
    <3>1. ASSUME NEW e \in Drivers, e # d PROVE OwnJournal(e)'
      BY <2>4, <3>1 DEF OwnJournal
    <3>2. OwnJournal(d)'
      BY <1>1, <2>3, OwnStays
    <3> QED
      BY <3>1, <3>2
  <2>10. SweepInv'
    <3>1. \A e \in Drivers : ~At(e, "off") => ~At(e, "off")' /\ driver'[e].drive = driver[e].drive
      BY <2>3, <2>4 DEF At, Keeps
    <3> QED
      BY <1>1, <3>1, SweepStays
  <2> QED
    BY <2>6, <2>7, <2>8, <2>9, <2>10 DEF RailInv
<1> QED
  BY <1>2, <1>3 DEF SpawnChild

\* No child starts, and no driver moves on.
LEMMA ChildrenEndKeeps ==
    ASSUME RailInv, driver' \in [Drivers -> DriverType],
           \A e \in Drivers : Keeps(e) /\ driver'[e].pc = driver[e].pc /\ driver'[e].code = driver[e].code,
           child' \in [Drivers -> {"none", "running", "terming", "gone"}], Mocha' \subseteq Mocha,
           \A e \in Drivers : At(e, "off") => child'[e] = child[e],
           UNCHANGED <<journal, sweep>>
    PROVE  RailInv'
<1>1. RailTypeOK /\ SweepInv /\ \A e \in Drivers : DriverInv(e) /\ Alone(e) /\ OwnJournal(e)
  BY DEF RailInv
<1>2. RailTypeOK'
  BY <1>1 DEF RailTypeOK
<1>3. \A e \in Drivers : DriverInv(e)'
  BY <1>1 DEF DriverInv, At, Keeps
<1>4. \A e \in Drivers : Alone(e)'
  BY <1>1, AloneStays DEF Keeps
<1>5. \A e \in Drivers : OwnJournal(e)'
  BY <1>1, OwnStays
<1>6. SweepInv'
  BY <1>1, SweepStays DEF At, Keeps
<1> QED
  BY <1>2, <1>3, <1>4, <1>5, <1>6 DEF RailInv

LEMMA LimitPassesKeeps ==
    ASSUME RailInv, NEW d \in Drivers, LimitPasses(d)
    PROVE  RailInv'
<1> DEFINE new == [driver[d] EXCEPT !.timedOut = TRUE]
           left == IF child[d] = "running" THEN "terming" ELSE child[d]
<1>1. /\ driver \in [Drivers -> DriverType] /\ driver[d] \in DriverType
      /\ driver' = [driver EXCEPT ![d] = new] /\ At(d, "child")
      /\ child \in [Drivers -> {"none", "running", "terming", "gone"}]
      /\ child' = [child EXCEPT ![d] = left] /\ UNCHANGED <<journal, sweep>>
  BY DEF RailInv, RailTypeOK, LimitPasses
<1>2. /\ new \in DriverType /\ new.pc = driver[d].pc /\ new.code = driver[d].code
      /\ new.drive = driver[d].drive /\ new.leg = driver[d].leg
      /\ new.cleared = driver[d].cleared /\ new.alone = driver[d].alone
  BY <1>1 DEF DriverType
<1>3. /\ left \in {"none", "running", "terming", "gone"}
      /\ left \in {"running", "terming"} => child[d] \in {"running", "terming"}
  BY <1>1
<1> HIDE DEF new, left
<1>4. /\ driver' \in [Drivers -> DriverType]
      /\ \A e \in Drivers : driver'[e] = IF e = d THEN new ELSE driver[e]
  BY <1>1, <1>2
<1>5. \A e \in Drivers : Keeps(e) /\ driver'[e].pc = driver[e].pc /\ driver'[e].code = driver[e].code
  BY <1>2, <1>4 DEF Keeps
<1>6. child' \in [Drivers -> {"none", "running", "terming", "gone"}] /\ Mocha' \subseteq Mocha
  BY <1>1, <1>3 DEF Mocha
<1>7. \A e \in Drivers : At(e, "off") => child'[e] = child[e]
  BY <1>1 DEF At
<1> QED
  BY <1>1, <1>4, <1>5, <1>6, <1>7, ChildrenEndKeeps

\* The child is gone, killed or by itself.
LEMMA ChildGoneKeeps ==
    ASSUME RailInv, NEW d \in Drivers, child' = [child EXCEPT ![d] = "gone"], ~At(d, "off"),
           UNCHANGED <<driver, journal, sweep>>
    PROVE  RailInv'
<1>1. /\ driver' \in [Drivers -> DriverType]
      /\ child \in [Drivers -> {"none", "running", "terming", "gone"}]
  BY DEF RailInv, RailTypeOK
<1>2. \A e \in Drivers : Keeps(e) /\ driver'[e].pc = driver[e].pc /\ driver'[e].code = driver[e].code
  BY DEF Keeps
<1>3. child' \in [Drivers -> {"none", "running", "terming", "gone"}] /\ Mocha' \subseteq Mocha
  BY <1>1 DEF Mocha
<1>4. \A e \in Drivers : At(e, "off") => child'[e] = child[e]
  BY <1>1
<1> QED
  BY <1>1, <1>2, <1>3, <1>4, ChildrenEndKeeps

\* A child that runs has a driver that was started.
LEMMA MochaHasDriver == ASSUME RailInv, NEW d \in Mocha PROVE d \in Drivers /\ ~At(d, "off")
  BY DEF RailInv, DriverInv, Mocha

LEMMA TriageKeeps ==
    ASSUME RailInv, NEW d \in Drivers, Triage(d)
    PROVE  RailInv'
<1>1. At(d, "triage") /\ UNCHANGED <<child, journal, sweep>>
  BY DEF Triage
<1>2. PICK code \in {0, 1} : Exits(d, code)
  BY DEF Triage
<1> QED
  BY <1>1, <1>2, ExitsKeepsInv DEF At

\* Only a driver without company is judged by what it finds, and its company is the writer.
LEMMA CaseEndsKeeps ==
    ASSUME RailInv, NEW d \in Drivers, CaseEnds(d)
    PROVE  RailInv'
<1>1. /\ RailTypeOK /\ SweepInv /\ \A e \in Drivers : DriverInv(e) /\ Alone(e) /\ OwnJournal(e)
      /\ d \in Mocha /\ UNCHANGED <<driver, child, sweep>>
  BY DEF RailInv, CaseEnds
<1> DEFINE here == driver[d].drive
<1>2. here \in Drives
  BY <1>1, MochaHasDriver DEF DriverInv
<1>3. PICK t \in Rail[here][driver[d].leg].titles, state \in {"passed", "failed", "other"} :
        journal' = [journal EXCEPT ![here][t] = [state |-> state, by |-> d]]
  BY DEF CaseEnds
<1> DEFINE entry == [state |-> state, by |-> d]
<1>4. entry \in Entries /\ entry.by = d
  <2>1. d \in Nat
    BY DEF Drivers
  <2>2. state \in {"none", "passed", "failed", "other"}
    BY <1>3
  <2> QED
    BY <2>1, <2>2 DEF Entries
<1> HIDE DEF here, entry
<1>5. /\ DOMAIN journal' = Drives /\ journal'[here] = [journal[here] EXCEPT ![t] = entry]
      /\ \A n \in Drives : n # here => journal'[n] = journal[n]
  BY <1>1, <1>2, <1>3 DEF RailTypeOK, here, entry
<1>6. /\ journal'[here] \in [Rail[here]["full"].titles -> Entries]
      /\ \A u \in Rail[here]["full"].titles : journal'[here][u] = journal[here][u] \/ journal'[here][u].by = d
  <2>1. journal[here] \in [Rail[here]["full"].titles -> Entries]
    BY <1>1, <1>2 DEF RailTypeOK
  <2>2. journal'[here] \in [Rail[here]["full"].titles -> Entries]
    BY <1>4, <1>5, <2>1
  <2>3. ASSUME NEW u \in Rail[here]["full"].titles
        PROVE  journal'[here][u] = journal[here][u] \/ journal'[here][u].by = d
    <3>1. CASE u = t
      BY <1>4, <1>5, <2>1, <3>1
    <3>2. CASE u # t
      BY <1>5, <2>1, <3>2
    <3> QED
      BY <3>1, <3>2
  <2> QED
    BY <2>2, <2>3
<1>7. RailTypeOK'
  BY <1>1, <1>5, <1>6 DEF RailTypeOK
<1>8. \A e \in Drivers : DriverInv(e)' /\ Alone(e)'
  BY <1>1, SameMocha, AloneStays, DriverInvStays
<1>9. \A e \in Drivers : OwnJournal(e)'
  <2> SUFFICES ASSUME NEW e \in Drivers, driver[e].cleared, driver[e].alone
               PROVE  WroteAll(e, Rail[driver[e].drive]["full"].titles)'
    BY <1>1 DEF OwnJournal
  <2>1. e = d
    BY <1>1 DEF Alone
  <2>2. WroteAll(e, Rail[driver[e].drive]["full"].titles)
    BY <1>1 DEF OwnJournal
  <2> QED
    BY <1>1, <1>6, <2>1, <2>2 DEF WroteAll, here
<1>10. SweepInv'
  BY <1>1, SweepStays DEF At
<1> QED
  BY <1>7, <1>8, <1>9, <1>10 DEF RailInv

LEMMA LegVerdictsTyped ==
    ASSUME NEW n \in Drives
    PROVE  legVerdicts(n) \in UNION {[DOMAIN Rail[m] -> {"none", "PASS", "FAIL"}] : m \in Drives}
<1>1. legVerdicts(n) \in [DOMAIN Rail[n] -> {"none", "PASS", "FAIL"}]
  BY DEF legVerdicts
<1> QED
  BY <1>1

LEMMA SweepEndsDoes ==
    ASSUME sweep \in SweepType, NEW c \in Int, sweep' = [sweep EXCEPT !.pc = "exited", !.code = c]
    PROVE  sweep' \in SweepType /\ sweep'.pc = "exited"
  BY DEF SweepType

LEMMA SweepMovesDoes ==
    ASSUME sweep \in SweepType, NEW c \in Int, NEW v \in VerdictBooks, NEW i \in Nat,
           NEW l \in {"next", "exited"},
           sweep' = [sweep EXCEPT !.verdicts = v, !.next = i, !.pc = l, !.code = c]
    PROVE  sweep' \in SweepType /\ sweep'.pc = l /\ sweep'.next = i
  BY DEF SweepType

\* The sweep goes on to a drive there is, or ends.
LEMMA SweepReadsKeeps ==
    ASSUME RailInv, RailAssumption, SweepReads
    PROVE  RailInv'
<1>1. /\ RailTypeOK /\ SweepInv /\ \A e \in Drivers : DriverInv(e) /\ Alone(e) /\ OwnJournal(e)
      /\ sweep.pc = "waiting" /\ UNCHANGED <<driver, child, journal>> /\ sweep \in SweepType
  BY DEF RailInv, SweepReads, RailTypeOK
<1> DEFINE n == SweepDrives[sweep.next]
<1>2. n \in Drives /\ sweep.next \in 1..Len(SweepDrives)
  BY <1>1, SweepDrivesAreDrives DEF SweepInv
<1>3. CASE sweep' = [sweep EXCEPT !.pc = "exited", !.code = 2]
  <2> HIDE DEF n
  <2>1. sweep' \in SweepType /\ sweep'.pc = "exited"
    <3>1. PICK c \in Int : c = 2
      OBVIOUS
    <3>2. sweep' = [sweep EXCEPT !.pc = "exited", !.code = c]
      BY <1>3, <3>1
    <3> QED
      BY <1>1, <3>2, SweepEndsDoes
  <2>2. RailTypeOK' /\ SweepInv'
    BY <1>1, <2>1 DEF RailTypeOK, SweepInv
  <2> QED
    BY <1>1, <2>2, SameMocha, AloneStays, DriverInvStays, OwnStays DEF RailInv, Keeps
<1>4. CASE sweep' = [sweep EXCEPT !.verdicts[n] = legVerdicts(n), !.next = @ + 1,
                                  !.pc = IF sweep.next = Len(SweepDrives) THEN "exited" ELSE "next",
                                  !.code = IF sweep.next = Len(SweepDrives) THEN 0 ELSE @]
  <2> DEFINE verdicts == [sweep.verdicts EXCEPT ![n] = legVerdicts(n)]
  <2>1. verdicts \in VerdictBooks
    BY <1>1, <1>2, LegVerdictsTyped DEF SweepType, VerdictBooks
  <2> HIDE DEF n
  <2>2. /\ sweep' \in SweepType /\ sweep'.next = sweep.next + 1
        /\ sweep'.pc = IF sweep.next = Len(SweepDrives) THEN "exited" ELSE "next"
    <3>1. sweep' = [sweep EXCEPT !.verdicts = verdicts, !.next = sweep.next + 1,
                                 !.pc = IF sweep.next = Len(SweepDrives) THEN "exited" ELSE "next",
                                 !.code = IF sweep.next = Len(SweepDrives) THEN 0 ELSE sweep.code]
      BY <1>1, <1>4 DEF SweepType
    <3>2. sweep.next \in Nat /\ sweep.code \in Int
      BY <1>1 DEF SweepType
    <3> HIDE DEF verdicts
    <3>3. PICK c \in Int : c = IF sweep.next = Len(SweepDrives) THEN 0 ELSE sweep.code
      BY <3>2
    <3>4. PICK l \in {"next", "exited"} : l = IF sweep.next = Len(SweepDrives) THEN "exited" ELSE "next"
      OBVIOUS
    <3>5. PICK i \in Nat : i = sweep.next + 1
      BY <3>2
    <3>6. sweep' = [sweep EXCEPT !.verdicts = verdicts, !.next = i, !.pc = l, !.code = c]
      BY <3>1, <3>3, <3>4, <3>5
    <3> QED
      BY <1>1, <2>1, <3>4, <3>5, <3>6, SweepMovesDoes
  <2>3. RailTypeOK'
    BY <1>1, <2>2 DEF RailTypeOK
  <2>4. SweepInv'
    <3>1. Len(SweepDrives) \in Nat
      BY LenProperties DEF RailAssumption
    <3> QED
      BY <1>2, <2>2, <3>1 DEF SweepInv
  <2> QED
    BY <1>1, <2>3, <2>4, SameMocha, AloneStays, DriverInvStays, OwnStays DEF RailInv, Keeps
<1> QED
  BY <1>3, <1>4 DEF SweepReads

LEMMA RailStepKeeps == ASSUME RailInv, RailAssumption, RailNext PROVE RailInv'
<1>1. CASE SweepReads
  BY <1>1, SweepReadsKeeps
<1>2. ASSUME NEW d \in Drivers, StartDriver(d) \/ SweepRuns(d)
      PROVE  RailInv'
  BY <1>2, StartDriverKeeps, SweepRunsKeeps
<1>3. ASSUME NEW d \in Drivers, DriverStep(d)
      PROVE  RailInv'
  <2>1. CASE findCompetingDrive(d)
    BY <2>1, FindCompetingDriveKeeps
  <2>2. CASE ClearJournal(d)
    BY <2>2, ClearJournalKeeps
  <2>3. CASE SpawnChild(d)
    BY <2>3, SpawnChildKeeps
  <2>4. CASE LimitPasses(d)
    BY <2>4, LimitPassesKeeps
  <2>5. CASE GracePasses(d)
    BY <2>5, ChildGoneKeeps DEF GracePasses, At
  <2>6. CASE ChildCloses(d)
    BY <2>6, GoesKeepsInv DEF ChildCloses, DriverPcs
  <2>7. CASE Triage(d)
    BY <2>7, TriageKeeps
  <2> QED
    BY <1>3, <2>1, <2>2, <2>3, <2>4, <2>5, <2>6, <2>7 DEF DriverStep
<1>4. ASSUME NEW d \in Drivers, KillDriver(d)
      PROVE  RailInv'
  <2>1. NoCode \in Int
    BY DEF NoCode
  <2> QED
    BY <1>4, <2>1, ExitsKeepsInv DEF KillDriver, Alive, At
<1>5. ASSUME NEW d \in Drivers, CaseEnds(d) \/ ChildEnds(d)
      PROVE  RailInv'
  BY <1>5, CaseEndsKeeps, ChildGoneKeeps, MochaHasDriver DEF ChildEnds
<1> QED
  BY <1>1, <1>2, <1>3, <1>4, <1>5 DEF RailNext

LEMMA RailInitInv == ASSUME RailAssumption, RailInit PROVE RailInv
<1>1. NoDriver \in DriverType /\ NoDriver.pc = "off" /\ NoDriver.code = NoCode
  BY DEF NoDriver, NoCode, DriverType, DriverPcs, Legs
<1>2. ~NoDriver.cleared /\ ~NoDriver.alone
  BY DEF NoDriver
<1> HIDE DEF NoDriver
<1>3. /\ driver \in [Drivers -> DriverType] /\ \A d \in Drivers : driver[d] = NoDriver
      /\ child \in [Drivers -> {"none", "running", "terming", "gone"}]
      /\ \A d \in Drivers : child[d] = "none"
  BY <1>1 DEF RailInit
<1>4. \A n \in Drives : journal[n] = EmptyJournal(n)
  BY DEF RailInit
<1>5. NoEntry \in Entries
  BY DEF NoEntry, Entries
<1>6. DOMAIN journal = Drives /\ \A n \in Drives : journal[n] \in [Rail[n]["full"].titles -> Entries]
  BY <1>4, <1>5 DEF RailInit, EmptyJournal
<1>7. NoVerdicts \in VerdictBooks
  BY DEF NoVerdicts, VerdictBooks
<1>8. sweep \in SweepType /\ sweep.pc = "next" /\ sweep.next = 1
  <2>1. NoCode \in Int
    BY DEF NoCode
  <2> HIDE DEF NoVerdicts
  <2> QED
    BY <1>7, <2>1 DEF RailInit, SweepType
<1>9. 1 \in 1..Len(SweepDrives)
  <2>1. Len(SweepDrives) \in Nat /\ Len(SweepDrives) # 0
    BY EmptySeq, LenProperties DEF RailAssumption
  <2> QED
    BY <2>1
<1>10. \A d \in Drivers : DriverInv(d) /\ Alone(d) /\ OwnJournal(d)
  BY <1>1, <1>2, <1>3 DEF DriverInv, Alone, OwnJournal, At
<1> QED
  BY <1>3, <1>6, <1>8, <1>9, <1>10 DEF RailInv, RailTypeOK, SweepInv

-----------------------------------------------------------------------------
(* What a green reading rests on.                                          *)

\* A driver in triage moves by its own judgement or is killed.
LEMMA GreenDriverIsInTime ==
    ASSUME RailInv, RailNext, NEW d \in Drivers, At(d, "triage"), driver'[d].code = 0
    PROVE  ~driver[d].timedOut
<1>1. RailTypeOK /\ DriverInv(d) /\ driver[d].code # 0 /\ d \in Drivers
  BY DEF RailInv, DriverInv, At, NoCode
<1>2. CASE SweepReads
  BY <1>1, <1>2 DEF SweepReads
<1>3. ASSUME NEW e \in Drivers, StartDriver(e) \/ SweepRuns(e)
      PROVE  FALSE
  <2>1. \E n, l : Asked(e, n, l)
    BY <1>3 DEF StartDriver, SweepRuns
  <2>2. At(e, "off") /\ \E r : driver' = [driver EXCEPT ![e] = r]
    BY <2>1 DEF Asked
  <2>3. e # d
    BY <2>2 DEF At
  <2> QED
    BY <1>1, <2>2, <2>3 DEF RailTypeOK
<1>4. ASSUME NEW e \in Drivers, e # d, DriverStep(e) \/ KillDriver(e)
      PROVE  FALSE
  <2>1. ASSUME NEW code \in Int, Exits(e, code) PROVE FALSE
    BY <1>1, <1>4, <2>1, ExitsDoes
  <2>2. CASE findCompetingDrive(e)
    <3>1. CASE driver' = [driver EXCEPT ![e].pc = "clear", ![e].alone = TRUE]
      BY <1>1, <1>4, <3>1 DEF RailTypeOK
    <3> QED
      BY <2>1, <2>2, <3>1 DEF findCompetingDrive
  <2>3. CASE ClearJournal(e)
    <3>1. CASE driver' = [driver EXCEPT ![e].pc = "spawn", ![e].cleared = TRUE]
      BY <1>1, <1>4, <3>1 DEF RailTypeOK
    <3> QED
      BY <2>1, <2>3, <3>1 DEF ClearJournal
  <2>4. CASE SpawnChild(e)
    <3>1. driver[d] \in DriverType
      BY <1>1 DEF RailTypeOK
    <3>2. CASE driver'[d] = [driver[d] EXCEPT !.alone = FALSE]
      <4> DEFINE new == [driver[d] EXCEPT !.alone = FALSE]
      <4>1. new.code = driver[d].code
        BY <3>1 DEF DriverType
      <4> HIDE DEF new
      <4>2. driver'[d] = new
        BY <3>2 DEF new
      <4> QED
        BY <1>1, <4>1, <4>2
    <3>3. CASE Exits(e, 1)
      BY <2>1, <3>3
    <3> QED
      BY <1>4, <2>4, <3>2, <3>3 DEF SpawnChild
  <2>5. CASE LimitPasses(e)
    BY <1>1, <1>4, <2>5 DEF LimitPasses, RailTypeOK
  <2>6. CASE GracePasses(e)
    BY <1>1, <2>6 DEF GracePasses
  <2>7. CASE ChildCloses(e)
    BY <1>1, <1>4, <2>7, GoesToDoes DEF ChildCloses, DriverPcs
  <2>8. CASE Triage(e)
    BY <2>1, <2>8 DEF Triage
  <2>9. CASE KillDriver(e)
    <3>1. NoCode \in Int
      BY DEF NoCode
    <3> QED
      BY <2>1, <2>9, <3>1 DEF KillDriver
  <2> QED
    BY <1>4, <2>2, <2>3, <2>4, <2>5, <2>6, <2>7, <2>8, <2>9 DEF DriverStep
<1>5. CASE Triage(d)
  <2> SUFFICES ASSUME driver[d].timedOut PROVE FALSE
    OBVIOUS
  <2>1. Exits(d, 1)
    BY <1>5 DEF Triage
  <2>2. driver'[d].code = 1
    BY <1>1, <2>1, ExitsDoes
  <2> QED
    BY <2>2
<1>6. CASE KillDriver(d)
  <2>1. NoCode \in Int /\ NoCode # 0
    BY DEF NoCode
  <2> QED
    BY <1>1, <1>6, <2>1, ExitsDoes DEF KillDriver
<1>7. CASE LimitPasses(d) \/ GracePasses(d)
  BY <1>7 DEF LimitPasses, GracePasses, At
<1>8. CASE findCompetingDrive(d) \/ ClearJournal(d) \/ SpawnChild(d) \/ ChildCloses(d)
  BY <1>8 DEF findCompetingDrive, ClearJournal, SpawnChild, ChildCloses, At
<1>9. ASSUME NEW e \in Drivers, CaseEnds(e) \/ ChildEnds(e)
      PROVE  FALSE
  BY <1>1, <1>9 DEF CaseEnds, ChildEnds
<1> QED
  BY <1>2, <1>3, <1>4, <1>5, <1>6, <1>7, <1>8, <1>9 DEF RailNext, DriverStep

\* A PASS is read by the sweep alone, of the drive whose driver has ended.
LEMMA PassIsOfTheSweptDrive ==
    ASSUME RailInv, RailAssumption, RailNext, NEW n \in Drives, NEW l \in DOMAIN Rail[n],
           sweep.verdicts[n][l] # "PASS", sweep'.verdicts[n][l] = "PASS"
    PROVE  sweep.driver \in Drivers /\ driver[sweep.driver].drive = n
<1>1. RailTypeOK /\ SweepInv /\ sweep \in SweepType
  BY DEF RailInv, RailTypeOK
<1>2. ASSUME NEW d \in Drivers, SweepRuns(d) PROVE FALSE
  <2>1. sweep' = [sweep EXCEPT !.pc = "waiting", !.driver = d]
    BY <1>2 DEF SweepRuns
  <2>2. sweep'.verdicts = sweep.verdicts
    BY <1>1, <2>1 DEF SweepType
  <2> QED
    BY <2>2
<1>3. ASSUME UNCHANGED sweep PROVE FALSE
  BY <1>3
<1>4. SweepReads
  <2>1. ASSUME NEW d \in Drivers, StartDriver(d) \/ KillDriver(d) \/ CaseEnds(d) \/ ChildEnds(d) PROVE UNCHANGED sweep
    BY <2>1 DEF StartDriver, KillDriver, CaseEnds, ChildEnds
  <2>2. ASSUME NEW d \in Drivers, DriverStep(d) PROVE UNCHANGED sweep
    BY <2>2 DEF DriverStep, findCompetingDrive, ClearJournal, SpawnChild, LimitPasses,
                GracePasses, ChildCloses, Triage
  <2> QED
    BY <1>2, <1>3, <2>1, <2>2 DEF RailNext
<1>5. /\ sweep.pc = "waiting" /\ sweep.driver \in Drivers
      /\ driver[sweep.driver].drive = SweepDrives[sweep.next]
  BY <1>1, <1>4 DEF SweepReads, SweepInv
<1> DEFINE m == SweepDrives[sweep.next]
<1>6. n = m
  <2> SUFFICES ASSUME n # m PROVE FALSE
    OBVIOUS
  <2>1. CASE sweep' = [sweep EXCEPT !.pc = "exited", !.code = 2]
    <3>1. sweep'.verdicts = sweep.verdicts
      BY <1>1, <2>1 DEF SweepType
    <3> QED
      BY <3>1
  <2>2. CASE sweep' = [sweep EXCEPT !.verdicts[m] = legVerdicts(m), !.next = @ + 1,
                                    !.pc = IF sweep.next = Len(SweepDrives) THEN "exited" ELSE "next",
                                    !.code = IF sweep.next = Len(SweepDrives) THEN 0 ELSE @]
    <3> HIDE DEF m
    <3>1. sweep'.verdicts = [sweep.verdicts EXCEPT ![m] = legVerdicts(m)]
      BY <1>1, <2>2 DEF SweepType
    <3>2. sweep.verdicts \in VerdictBooks
      BY <1>1 DEF SweepType
    <3>3. sweep'.verdicts[n] = sweep.verdicts[n]
      BY <3>1, <3>2 DEF VerdictBooks
    <3> QED
      BY <3>3
  <2> QED
    BY <1>4, <2>1, <2>2 DEF SweepReads
<1> QED
  BY <1>5, <1>6

LEMMA TitlesOfALeg ==
    ASSUME RailAssumption, NEW n \in Drives, NEW l \in DOMAIN Rail[n]
    PROVE  Rail[n][l].titles \subseteq Rail[n]["full"].titles
  BY DEF RailAssumption, Drives

-----------------------------------------------------------------------------
(* The mirror: types.                                                      *)

LanePcs == {"idle", "pick", "up", "boot", "mix", "cloning", "ready", "seed", "run", "down"}
Phases == {"up", "ready", "seed", "run"}
Failures == Phases \cup {"spawn", "down"}

LaneType ==
    [at : LanePcs, index : Nat, failure : Failures \cup {"none"}, probe : Nat, polls : Nat,
     took : BOOLEAN, blind : BOOLEAN]

MirrorTypeOK ==
    /\ mirror \in [pc : {"off", "running", "done"}, exit : Int, runs : Nat, next : Nat]
    /\ lane \in [Slots -> LaneType]
    /\ results \in [1..Cardinality(LegFiles) -> Failures \cup {"pending", "passed"}]
    /\ Len(legs) \in 0..Cardinality(LegFiles)
    /\ \A c \in checkouts : c.slot \in Slots /\ c.index \in Nat /\ c.run \in 0..mirror.runs

-----------------------------------------------------------------------------
(* The inductive invariant: which lane answers for which leg, and that what *)
(* a lane leaves behind has failed a leg, or docker would not list it.      *)

Busy(s) == lane[s].at \notin {"idle", "pick"}
Failed(i) == results[i] \notin {"pending", "passed"}
SomeFailed == \E i \in Indices : Failed(i)

LaneInv(s) ==
    /\ Busy(s) =>
        /\ lane[s].index \in Indices /\ lane[s].index < mirror.next
        /\ results[lane[s].index] = "pending" /\ lane[s].took
    /\ lane[s].at \in {"mix", "cloning"} => legs[lane[s].index] \in MixedLegs
    /\ (lane[s].took /\ ~Busy(s) /\ s \in held /\ ~lane[s].blind) => SomeFailed

OwnLegs ==
    \A s, u \in Slots : (s # u /\ Busy(s) /\ Busy(u)) => lane[s].index # lane[u].index

LegInv(i) ==
    (i < mirror.next /\ results[i] = "pending") => \E s \in Slots : Busy(s) /\ lane[s].index = i

CheckoutInv(c) ==
    c.run = mirror.runs =>
        \/ SomeFailed
        \/ Busy(c.slot) /\ lane[c.slot].index = c.index /\ legs[c.index] \in MixedLegs

RunInv ==
    /\ legs # <<>> /\ Len(legs) # 0
    /\ mirror.next \in 1..(Len(legs) + 1)
    /\ \A s \in Slots : LaneInv(s)
    /\ OwnLegs
    /\ \A i \in Indices : LegInv(i)
    /\ \A i \in Indices : i >= mirror.next => results[i] = "pending"
    /\ \A c \in checkouts : CheckoutInv(c)
    /\ (lane[0].at = "idle" /\ ~book.abort) => mirror.next = Len(legs) + 1

MirrorInv ==
    /\ MirrorTypeOK
    /\ mirror.pc = "running" => RunInv
    /\ mirror.pc # "running" => \A s \in Slots : lane[s].at = "idle"
    /\ \A s \in Slots : lane[s].at = "boot" => s \notin held
    /\ GreenRunIsGreen

LEMMA BusyRuns == ASSUME MirrorInv, NEW s \in Slots, Busy(s) PROVE mirror.pc = "running" /\ RunInv
  BY DEF MirrorInv, Busy

\* A driver call under way goes on: the lane keeps its leg, fills its own slot
\* only, and makes no directory but its own.
LEMMA BusyStep ==
    ASSUME MirrorInv, NEW s \in Slots, Busy(s),
           NEW r \in LaneType, lane' = [lane EXCEPT ![s] = r],
           r.at \notin {"idle", "pick"}, r.index = lane[s].index, r.took = lane[s].took,
           r.at \in {"mix", "cloning"} => legs[r.index] \in MixedLegs,
           r.at = "boot" => s \notin held',
           held' \subseteq held \cup {s},
           \A c \in checkouts' : \/ c \in checkouts
                                 \/ /\ c.slot = s /\ c.index = lane[s].index /\ c.run = mirror.runs
                                    /\ legs[c.index] \in MixedLegs,
           UNCHANGED <<mirror, legs, book, results>>
    PROVE  MirrorInv'
<1>1. mirror.pc = "running" /\ RunInv /\ MirrorTypeOK
  BY BusyRuns DEF MirrorInv
<1>2. lane \in [Slots -> LaneType]
  BY <1>1 DEF MirrorTypeOK
<1>3. /\ lane' \in [Slots -> LaneType] /\ lane'[s] = r
      /\ \A u \in Slots : u # s => lane'[u] = lane[u]
  BY <1>2
<1>4. lane[s].index \in Nat /\ mirror.runs \in 0..mirror.runs
  BY <1>1, <1>2 DEF LaneType, MirrorTypeOK
<1>5. MirrorTypeOK'
  BY <1>1, <1>3, <1>4 DEF MirrorTypeOK
<1>6. Busy(s)' /\ \A u \in Slots : Busy(u)' <=> Busy(u)
  BY <1>3 DEF Busy
<1>7. SomeFailed' <=> SomeFailed
  BY DEF SomeFailed, Failed, Indices
<1>8. \A u \in Slots : lane'[u].index = lane[u].index /\ lane'[u].took = lane[u].took
  BY <1>3
<1>9. \A u \in Slots : LaneInv(u)'
  <2>1. ASSUME NEW u \in Slots, u # s PROVE LaneInv(u)'
    BY <1>1, <1>3, <1>6, <1>7, <2>1 DEF RunInv, LaneInv, Indices
  <2>2. LaneInv(s)'
    BY <1>1, <1>3, <1>6, <1>7 DEF RunInv, LaneInv, Indices
  <2> QED
    BY <2>1, <2>2
<1>10. OwnLegs'
  BY <1>1, <1>6, <1>8 DEF RunInv, OwnLegs
<1>11. \A i \in Indices : LegInv(i)'
  BY <1>1, <1>6, <1>8 DEF RunInv, LegInv
<1>12. \A c \in checkouts' : CheckoutInv(c)'
  <2> SUFFICES ASSUME NEW c \in checkouts' PROVE CheckoutInv(c)'
    OBVIOUS
  <2>1. CASE c \in checkouts
    <3>1. CheckoutInv(c) /\ c.slot \in Slots
      BY <1>1, <2>1 DEF RunInv, MirrorTypeOK
    <3> QED
      BY <1>6, <1>7, <1>8, <3>1 DEF CheckoutInv
  <2>2. CASE c.slot = s /\ c.index = lane[s].index /\ legs[c.index] \in MixedLegs
    BY <1>6, <1>8, <2>2 DEF CheckoutInv
  <2> QED
    BY <2>1, <2>2
<1>13. (lane'[0].at = "idle" /\ ~book'.abort) => mirror'.next = Len(legs') + 1
  <2>1. CASE s = 0
    BY <1>3, <2>1
  <2>2. CASE s # 0
    <3>1. lane'[0] = lane[0]
      BY <2>2
    <3> QED
      BY <1>1, <3>1 DEF RunInv
  <2> QED
    BY <2>1, <2>2
<1>14. RunInv'
  BY <1>1, <1>9, <1>10, <1>11, <1>12, <1>13 DEF RunInv, Indices
<1>15. \A u \in Slots : lane'[u].at = "boot" => u \notin held'
  BY <1>3 DEF MirrorInv
<1>16. mirror'.pc = "running"
  BY <1>1
<1>17. GreenRunIsGreen'
  BY <1>16 DEF GreenRunIsGreen
<1> QED
  BY <1>5, <1>14, <1>15, <1>16, <1>17 DEF MirrorInv

\* A phase that ends moves the lane on, never to its boot.
LEMMA PhaseEndsDoes ==
    ASSUME lane \in [Slots -> LaneType], NEW s \in Slots, NEW phase \in Phases,
           NEW after \in {"ready", "seed", "run", "down"}, NEW code, PhaseEnds(s, phase, code, after)
    PROVE  \E r \in LaneType :
             /\ lane' = [lane EXCEPT ![s] = r] /\ r.at \in {"ready", "seed", "run", "down"}
             /\ r.index = lane[s].index /\ r.took = lane[s].took
<1> DEFINE at == IF code = "zero" THEN after ELSE "down"
           failure == failureAfter(s, phase, code)
<1>1. lane[s] \in LaneType
  OBVIOUS
<1>2. at \in {"ready", "seed", "run", "down"} /\ at \in LanePcs
  BY DEF LanePcs
<1>3. failure \in Failures \cup {"none"}
  <2>1. lane[s].failure \in Failures \cup {"none"}
    BY <1>1 DEF LaneType
  <2> QED
    BY <2>1 DEF failureAfter, Failures
<1>4. PICK one \in Nat, zero \in Nat : one = 1 /\ zero = 0
  OBVIOUS
<1> DEFINE r == [lane[s] EXCEPT !.at = at, !.failure = failure, !.probe = one, !.polls = zero]
<1>5. lane' = [lane EXCEPT ![s] = r]
  BY <1>4 DEF PhaseEnds
<1> HIDE DEF at, failure
<1>6. r \in LaneType /\ r.at = at /\ r.index = lane[s].index /\ r.took = lane[s].took
  BY <1>1, <1>2, <1>3 DEF LaneType
<1> QED
  BY <1>2, <1>5, <1>6

\* A phase that ends, with the slot's volumes and the checkouts as a busy step leaves them.
LEMMA PhaseStep ==
    ASSUME MirrorInv, NEW s \in Slots, Busy(s), NEW phase \in Phases,
           NEW after \in {"ready", "seed", "run", "down"}, NEW code, PhaseEnds(s, phase, code, after),
           held' \subseteq held \cup {s},
           \A c \in checkouts' : \/ c \in checkouts
                                 \/ /\ c.slot = s /\ c.index = lane[s].index /\ c.run = mirror.runs
                                    /\ legs[c.index] \in MixedLegs,
           UNCHANGED <<mirror, legs, book, results>>
    PROVE  MirrorInv'
<1>1. lane \in [Slots -> LaneType]
  BY DEF MirrorInv, MirrorTypeOK
<1>2. PICK r \in LaneType :
        /\ lane' = [lane EXCEPT ![s] = r] /\ r.at \in {"ready", "seed", "run", "down"}
        /\ r.index = lane[s].index /\ r.took = lane[s].took
  BY <1>1, PhaseEndsDoes
<1>3. r.at \notin {"idle", "pick", "boot", "mix", "cloning"}
  BY <1>2
<1> QED
  BY <1>2, <1>3, BusyStep

\* The lane only moves to another place of the same leg.
LEMMA GotoStep ==
    ASSUME MirrorInv, NEW s \in Slots, Busy(s), NEW l \in LanePcs \ {"idle", "pick"}, Goto(s, l),
           l \in {"mix", "cloning"} => legs[lane[s].index] \in MixedLegs,
           l = "boot" => s \notin held',
           held' \subseteq held \cup {s},
           \A c \in checkouts' : \/ c \in checkouts
                                 \/ /\ c.slot = s /\ c.index = lane[s].index /\ c.run = mirror.runs
                                    /\ legs[c.index] \in MixedLegs,
           UNCHANGED <<mirror, legs, book, results>>
    PROVE  MirrorInv'
<1> DEFINE r == [lane[s] EXCEPT !.at = l]
<1>1. lane[s] \in LaneType /\ lane' = [lane EXCEPT ![s] = r]
  BY DEF MirrorInv, MirrorTypeOK, Goto
<1>2. r \in LaneType /\ r.at = l /\ r.index = lane[s].index /\ r.took = lane[s].took
  BY <1>1 DEF LaneType
<1> HIDE DEF r
<1> QED
  BY <1>1, <1>2, BusyStep

LEMMA UnspawnedKeeps ==
    ASSUME MirrorInv, NEW s \in Slots, Unspawned(s) \/ HelperRefuses(s)
    PROVE  MirrorInv'
<1>1. lane[s].at \in Phases /\ Busy(s) /\ UNCHANGED <<mirror, legs, book, results, held, checkouts>>
  BY DEF Unspawned, HelperRefuses, Phases, Busy
<1>2. \E code : PhaseEnds(s, lane[s].at, code, "down")
  BY DEF Unspawned, HelperRefuses
<1> QED
  BY <1>1, <1>2, PhaseStep

LEMMA SweepSlotKeeps ==
    ASSUME MirrorInv, NEW s \in Slots, SweepSlot(s)
    PROVE  MirrorInv'
<1>1. Busy(s) /\ UNCHANGED <<mirror, legs, book, results, checkouts>> /\ "up" \in Phases
  BY DEF SweepSlot, Busy, Phases
<1>2. PICK left \in SUBSET (held \cap {s}) :
        /\ held' = (held \ {s}) \cup left
        /\ IF left # {}
           THEN PhaseEnds(s, "up", "nonzero", "down")
           ELSE Goto(s, "boot")
  BY DEF SweepSlot
<1>3. CASE left # {}
  BY <1>1, <1>2, <1>3, PhaseStep
<1>4. CASE left = {}
  BY <1>1, <1>2, <1>4, GotoStep DEF LanePcs
<1> QED
  BY <1>3, <1>4

LEMMA BootKeeps ==
    ASSUME MirrorInv, NEW s \in Slots, Boot(s)
    PROVE  MirrorInv'
<1>1. Busy(s) /\ UNCHANGED <<mirror, legs, book, results, checkouts>> /\ "up" \in Phases
  BY DEF Boot, Busy, Phases
<1>2. CASE held' \in {held, held \cup {s}} /\ PhaseEnds(s, "up", "nonzero", "down")
  BY <1>1, <1>2, PhaseStep
<1>3. CASE held' = held \cup {s} /\ PhaseEnds(s, "up", "zero", "ready")
  BY <1>1, <1>3, PhaseStep
<1>4. CASE held' = held \cup {s} /\ Goto(s, "mix") /\ legs[lane[s].index] \in MixedLegs
  BY <1>1, <1>4, GotoStep DEF LanePcs
<1> QED
  BY <1>2, <1>3, <1>4 DEF Boot

LEMMA CheckoutKeeps ==
    ASSUME MirrorInv, NEW s \in Slots, BeginCheckout(s) \/ EndCheckout(s)
    PROVE  MirrorInv'
<1>1. Busy(s) /\ UNCHANGED <<mirror, legs, book, results, held>> /\ "up" \in Phases
  BY DEF BeginCheckout, EndCheckout, Busy, Phases
<1>2. legs[lane[s].index] \in MixedLegs
  BY <1>1, BusyRuns DEF RunInv, LaneInv, BeginCheckout, EndCheckout
<1> DEFINE new == NewCheckout(s)
           done == [new EXCEPT !.marked = TRUE]
<1>3. /\ new.slot = s /\ new.index = lane[s].index /\ new.run = mirror.runs
      /\ done.slot = s /\ done.index = lane[s].index /\ done.run = mirror.runs
  BY DEF NewCheckout
<1> HIDE DEF new, done
<1>4. \A c \in checkouts' : c \in checkouts \/ c = new \/ c = done
  BY DEF BeginCheckout, EndCheckout, new, done
<1>5. \A c \in checkouts' : \/ c \in checkouts
                            \/ /\ c.slot = s /\ c.index = lane[s].index /\ c.run = mirror.runs
                               /\ legs[c.index] \in MixedLegs
  BY <1>2, <1>3, <1>4
<1>6. CASE PhaseEnds(s, "up", "nonzero", "down") \/ PhaseEnds(s, "up", "zero", "ready")
  BY <1>1, <1>5, <1>6, PhaseStep
<1>7. CASE Goto(s, "cloning")
  BY <1>1, <1>2, <1>5, <1>7, GotoStep DEF LanePcs
<1> QED
  BY <1>6, <1>7 DEF BeginCheckout, EndCheckout

LEMMA PollStackKeeps ==
    ASSUME MirrorInv, NEW s \in Slots, PollStack(s)
    PROVE  MirrorInv'
<1>1. /\ Busy(s) /\ lane[s].at = "ready" /\ "ready" \in Phases
      /\ UNCHANGED <<mirror, legs, book, results, held, checkouts>>
  BY DEF PollStack, Busy, Phases
<1>2. lane \in [Slots -> LaneType] /\ lane[s] \in LaneType
  BY DEF MirrorInv, MirrorTypeOK
<1>3. CASE PhaseEnds(s, "ready", "zero", "seed") \/ PhaseEnds(s, "ready", "nonzero", "down")
  BY <1>1, <1>3, PhaseStep
<1>4. CASE lane' = [lane EXCEPT ![s].probe = @ + 1]
  <2> DEFINE r == [lane[s] EXCEPT !.probe = lane[s].probe + 1]
  <2>1. r \in LaneType /\ r.at = "ready" /\ r.index = lane[s].index /\ r.took = lane[s].took
    BY <1>1, <1>2 DEF LaneType
  <2>2. lane' = [lane EXCEPT ![s] = r]
    BY <1>2, <1>4
  <2> HIDE DEF r
  <2> QED
    BY <1>1, <2>1, <2>2, BusyStep
<1>5. CASE lane' = [lane EXCEPT ![s].probe = 1, ![s].polls = @ + 1]
  <2>0. PICK one \in Nat, more \in Nat : one = 1 /\ more = lane[s].polls + 1
    BY <1>2 DEF LaneType
  <2> DEFINE r == [lane[s] EXCEPT !.probe = one, !.polls = more]
  <2>1. r \in LaneType /\ r.at = "ready" /\ r.index = lane[s].index /\ r.took = lane[s].took
    BY <1>1, <1>2 DEF LaneType
  <2>2. lane' = [lane EXCEPT ![s] = r]
    BY <1>2, <1>5, <2>0
  <2> HIDE DEF r
  <2> QED
    BY <1>1, <2>1, <2>2, BusyStep
<1> QED
  BY <1>3, <1>4, <1>5 DEF PollStack

LEMMA SeedOrRunKeeps ==
    ASSUME MirrorInv, NEW s \in Slots, SeedOrRun(s)
    PROVE  MirrorInv'
<1>1. /\ Busy(s) /\ lane[s].at \in Phases
      /\ UNCHANGED <<mirror, legs, book, results, held, checkouts>>
  BY DEF SeedOrRun, Busy, Phases
<1>2. \E code, after \in {"run", "down", "zero", "nonzero"} :
        after \in {"run", "down"} /\ PhaseEnds(s, lane[s].at, code, after)
  BY DEF SeedOrRun
<1> QED
  BY <1>1, <1>2, PhaseStep

LEMMA LegCount == Cardinality(LegFiles) \in Nat
  BY MirrorAssumption, FS_CardinalityType DEF MirrorAssumption

LEMMA AbortStays == ASSUME NEW b, NEW rs, b.abort PROVE observeCompletedLegs(b, rs) = b
  BY DEF observeCompletedLegs

LEMMA IdleTyped ==
    /\ Idle \in LaneType /\ Idle.at = "pick" /\ ~Idle.took
    /\ Off \in LaneType /\ Off.at = "idle" /\ ~Off.took
<1>1. Idle \in LaneType /\ Idle.at = "pick"
  BY DEF Idle, LaneType, LanePcs
<1>2. ~Idle.took
  BY DEF Idle
<1>3. Off \in LaneType /\ Off.at = "idle" /\ Off.took = Idle.took
  BY <1>1 DEF Off, LaneType, LanePcs
<1> QED
  BY <1>1, <1>2, <1>3

\* What down leaves of the slot or of the checkout fails the leg; the lane is free.
LEMMA DownKeeps ==
    ASSUME MirrorInv, NEW s \in Slots, Down(s)
    PROVE  MirrorInv'
<1> DEFINE i == lane[s].index
<1>1. /\ Busy(s) /\ mirror.pc = "running" /\ RunInv /\ MirrorTypeOK /\ UNCHANGED <<mirror, legs>>
      /\ LaneInv(s)
  BY BusyRuns DEF Down, Busy, MirrorInv, RunInv
<1>2. PICK left \in SUBSET (held \cap {s}), listed \in BOOLEAN,
           code \in {"zero", "nonzero", "rejected"} :
        /\ checkouts' = IF code = "rejected" THEN checkouts ELSE checkouts \ RemovedHub(s)
        /\ code = "zero" =>
               /\ listed => left = {}
               /\ legs[i] \in MixedLegs => MixedHub(s) \subseteq RemovedHub(s)
        /\ held' = (held \ {s}) \cup left
        /\ results' = [results EXCEPT ![i] = legResult(s, code)]
        /\ book' = observeCompletedLegs(book, results')
        /\ lane' = [lane EXCEPT ![s] = [Idle EXCEPT !.took = TRUE, !.blind = ~listed /\ left # {}]]
  BY DEF Down
<1> DEFINE blind == ~listed /\ left # {}
           free == [Idle EXCEPT !.took = TRUE, !.blind = blind]
<1>3. i \in Indices /\ i < mirror.next /\ results[i] = "pending" /\ lane[s] \in LaneType
  BY <1>1 DEF LaneInv, MirrorTypeOK
<1>4. free \in LaneType /\ free.at = "pick" /\ free.took /\ free.blind = blind
  <2>1. blind \in BOOLEAN
    OBVIOUS
  <2> HIDE DEF blind
  <2>2. free \in LaneType /\ free.at = "pick"
    BY <2>1, IdleTyped DEF LaneType
  <2>3. free.took
    BY IdleTyped DEF LaneType
  <2>4. free.blind = blind
    BY IdleTyped DEF LaneType
  <2> QED
    BY <2>2, <2>3, <2>4
<1>5. lane' = [lane EXCEPT ![s] = free]
  BY <1>2
<1> HIDE DEF free
<1>6. /\ lane' \in [Slots -> LaneType] /\ lane'[s] = free
      /\ \A u \in Slots : u # s => lane'[u] = lane[u]
  BY <1>1, <1>4, <1>5 DEF MirrorTypeOK
<1>7. /\ legResult(s, code) \in Failures \cup {"passed"}
      /\ code # "zero" => legResult(s, code) # "passed"
  <2>1. lane[s].failure \in Failures \cup {"none"}
    BY <1>3 DEF LaneType
  <2>2. "passed" \notin Failures /\ "down" \in Failures
    BY DEF Failures, Phases
  <2> QED
    BY <2>1, <2>2 DEF legResult
<1>8. "pending" \notin Failures
  BY DEF Failures, Phases
<1> HIDE DEF i
<1>9. /\ i \in 1..Cardinality(LegFiles)
      /\ results' \in [1..Cardinality(LegFiles) -> Failures \cup {"pending", "passed"}]
      /\ results'[i] = legResult(s, code)
      /\ \A j \in 1..Cardinality(LegFiles) : j # i => results'[j] = results[j]
  <2>1. i \in 1..Cardinality(LegFiles)
    BY <1>1, <1>3, LegCount DEF MirrorTypeOK, Indices
  <2> QED
    BY <1>1, <1>2, <1>7, <2>1 DEF MirrorTypeOK
<1>10. Indices' = Indices /\ Indices \subseteq 1..Cardinality(LegFiles)
  BY <1>1, LegCount DEF Indices, MirrorTypeOK
<1>11. SomeFailed => SomeFailed'
  BY <1>3, <1>9, <1>10 DEF SomeFailed, Failed
<1>12. code # "zero" => SomeFailed'
  BY <1>3, <1>7, <1>8, <1>9, <1>10 DEF SomeFailed, Failed
<1>13. MirrorTypeOK'
  BY <1>1, <1>2, <1>6, <1>9 DEF MirrorTypeOK
<1>14. ~Busy(s)' /\ \A u \in Slots : u # s => (Busy(u)' <=> Busy(u))
  BY <1>4, <1>6 DEF Busy
<1>15. \A u \in Slots : LaneInv(u)'
  <2>1. ASSUME NEW u \in Slots, u # s PROVE LaneInv(u)'
    <3>1. LaneInv(u) /\ lane'[u] = lane[u] /\ (u \in held' => u \in held)
      BY <1>1, <1>2, <1>6, <2>1 DEF RunInv
    <3>2. Busy(u) => lane[u].index # i /\ lane[u].index \in Indices
      BY <1>1, <2>1, <3>1 DEF RunInv, OwnLegs, LaneInv, i
    <3>3. Busy(u) => results'[lane[u].index] = results[lane[u].index]
      BY <1>9, <1>10, <3>2
    <3> QED
      BY <1>1, <1>10, <1>11, <1>14, <2>1, <3>1, <3>3 DEF LaneInv
  <2>2. lane'[s].at = "pick" /\ lane'[s].took /\ lane'[s].blind = blind
    BY <1>4, <1>6
  <2>3. (s \in held' /\ ~blind) => code # "zero"
    BY <1>2
  <2>4. LaneInv(s)'
    BY <1>12, <1>14, <2>2, <2>3 DEF LaneInv
  <2> QED
    BY <2>1, <2>4
<1>16. OwnLegs'
  BY <1>1, <1>6, <1>14 DEF RunInv, OwnLegs
<1>17. \A j \in Indices : LegInv(j)'
  <2> SUFFICES ASSUME NEW j \in Indices, j < mirror.next, results'[j] = "pending"
               PROVE  \E u \in Slots : Busy(u)' /\ lane'[u].index = j
    BY <1>1 DEF LegInv
  <2>1. j # i
    BY <1>7, <1>8, <1>9
  <2>2. PICK u \in Slots : Busy(u) /\ lane[u].index = j
    BY <1>1, <1>9, <1>10, <2>1 DEF RunInv, LegInv
  <2>3. u # s
    BY <2>1, <2>2 DEF i
  <2> QED
    BY <1>6, <1>14, <2>2, <2>3
<1>18. \A j \in Indices : j >= mirror.next => results'[j] = "pending"
  BY <1>1, <1>3, <1>9, <1>10 DEF RunInv, MirrorTypeOK, Indices
<1>19. \A c \in checkouts' : CheckoutInv(c)'
  <2> SUFFICES ASSUME NEW c \in checkouts', c.run = mirror.runs, ~SomeFailed'
               PROVE  Busy(c.slot)' /\ lane'[c.slot].index = c.index /\ legs[c.index] \in MixedLegs
    BY <1>1 DEF CheckoutInv
  <2>1. c \in checkouts /\ c.slot \in Slots
    BY <1>1, <1>2 DEF MirrorTypeOK
  <2>2. Busy(c.slot) /\ lane[c.slot].index = c.index /\ legs[c.index] \in MixedLegs
    BY <1>1, <1>11, <2>1 DEF RunInv, CheckoutInv
  <2>3. c.slot # s
    <3> SUFFICES ASSUME c.slot = s PROVE FALSE
      OBVIOUS
    <3>1. c \in MixedHub(s) /\ legs[i] \in MixedLegs
      BY <2>1, <2>2 DEF MixedHub, i
    <3> QED
      BY <1>2, <1>12, <3>1 DEF i
  <2> QED
    BY <1>6, <1>14, <2>1, <2>2, <2>3
<1>20. (lane'[0].at = "idle" /\ ~book'.abort) => mirror'.next = Len(legs') + 1
  <2> SUFFICES ASSUME lane'[0].at = "idle", ~book'.abort PROVE mirror.next = Len(legs) + 1
    BY <1>1
  <2>1. s # 0
    BY <1>4, <1>6
  <2>2. lane'[0] = lane[0]
    BY <1>5, <2>1
  <2>3. ~book.abort
    BY <1>2, AbortStays
  <2> QED
    BY <1>1, <2>2, <2>3 DEF RunInv
<1>21. RunInv'
  BY <1>1, <1>10, <1>15, <1>16, <1>17, <1>18, <1>19, <1>20 DEF RunInv
<1>22. \A u \in Slots : lane'[u].at = "boot" => u \notin held'
  BY <1>2, <1>4, <1>6 DEF MirrorInv
<1>23. GreenRunIsGreen' /\ mirror'.pc = "running"
  BY <1>1 DEF GreenRunIsGreen
<1> QED
  BY <1>13, <1>21, <1>22, <1>23 DEF MirrorInv

\* A lane takes the next leg, or none is left to take, or the run is given up.
LEMMA PickKeeps ==
    ASSUME MirrorInv, NEW s \in Slots, Pick(s)
    PROVE  MirrorInv'
<1>1. /\ mirror.pc = "running" /\ RunInv /\ MirrorTypeOK /\ LaneInv(s) /\ ~Busy(s)
      /\ lane[s].at = "pick" /\ lane \in [Slots -> LaneType] /\ lane[s] \in LaneType
      /\ UNCHANGED <<legs, book, results, held, checkouts>>
  BY DEF Pick, Busy, MirrorInv, RunInv, MirrorTypeOK
<1>2. SomeFailed' <=> SomeFailed
  BY <1>1 DEF SomeFailed, Failed, Indices
<1>3. CASE (book.abort \/ mirror.next > Len(legs)) /\ Goto(s, "idle") /\ UNCHANGED mirror
  <2> DEFINE r == [lane[s] EXCEPT !.at = "idle"]
  <2>1. /\ r \in LaneType /\ r.at = "idle" /\ r.index = lane[s].index /\ r.took = lane[s].took
        /\ r.blind = lane[s].blind
    BY <1>1 DEF LaneType, LanePcs
  <2>2. lane' = [lane EXCEPT ![s] = r]
    BY <1>3 DEF Goto
  <2> HIDE DEF r
  <2>3. /\ lane' \in [Slots -> LaneType] /\ lane'[s] = r
        /\ \A u \in Slots : u # s => lane'[u] = lane[u]
    BY <1>1, <2>1, <2>2
  <2>4. MirrorTypeOK'
    BY <1>1, <1>3, <2>3 DEF MirrorTypeOK
  <2>5. \A u \in Slots : (Busy(u)' <=> Busy(u)) /\ lane'[u].index = lane[u].index
    BY <1>1, <2>1, <2>3 DEF Busy
  <2>6. \A u \in Slots : LaneInv(u)'
    <3>1. ASSUME NEW u \in Slots, u # s PROVE LaneInv(u)'
      BY <1>1, <1>2, <1>3, <2>3, <2>5, <3>1 DEF RunInv, LaneInv, Indices
    <3>2. LaneInv(s)'
      BY <1>1, <1>2, <2>1, <2>3, <2>5 DEF LaneInv
    <3> QED
      BY <3>1, <3>2
  <2>7. OwnLegs' /\ \A i \in Indices : LegInv(i)'
    BY <1>1, <1>3, <2>5 DEF RunInv, OwnLegs, LegInv
  <2>8. \A c \in checkouts' : CheckoutInv(c)'
    BY <1>1, <1>2, <1>3, <2>5 DEF RunInv, CheckoutInv, MirrorTypeOK
  <2>9. (lane'[0].at = "idle" /\ ~book'.abort) => mirror'.next = Len(legs') + 1
    <3>1. CASE s = 0
      <4>1. book.abort \/ mirror.next = Len(legs) + 1
        BY <1>1, <1>3, LegCount DEF RunInv, MirrorTypeOK
      <4> QED
        BY <1>1, <1>3, <4>1
    <3>2. CASE s # 0
      <4>1. lane'[0] = lane[0]
        BY <2>2, <3>2
      <4> QED
        BY <1>1, <1>3, <4>1 DEF RunInv
    <3> QED
      BY <3>1, <3>2
  <2>10. RunInv'
    BY <1>1, <1>3, <2>6, <2>7, <2>8, <2>9 DEF RunInv, Indices
  <2>11. \A u \in Slots : lane'[u].at = "boot" => u \notin held'
    BY <1>1, <2>1, <2>3 DEF MirrorInv
  <2>12. mirror'.pc = "running" /\ GreenRunIsGreen'
    BY <1>1, <1>3 DEF GreenRunIsGreen
  <2> QED
    BY <2>4, <2>10, <2>11, <2>12 DEF MirrorInv
<1>4. CASE /\ mirror.next <= Len(legs)
           /\ lane' = [lane EXCEPT ![s] = [Idle EXCEPT !.at = "up", !.index = mirror.next, !.took = TRUE]]
           /\ mirror' = [mirror EXCEPT !.next = mirror.next + 1]
  <2> DEFINE r == [Idle EXCEPT !.at = "up", !.index = mirror.next, !.took = TRUE]
  <2>1. /\ mirror.next \in Nat /\ mirror.next \in Indices
        /\ mirror \in [pc : {"off", "running", "done"}, exit : Int, runs : Nat, next : Nat]
    BY <1>1, <1>4, LegCount DEF RunInv, MirrorTypeOK, Indices
  <2>2. r \in LaneType /\ r.at = "up" /\ r.index = mirror.next
    BY <2>1, IdleTyped DEF LaneType, LanePcs
  <2>3. r.took
    BY IdleTyped DEF LaneType
  <2> HIDE DEF r
  <2>4. /\ lane' \in [Slots -> LaneType] /\ lane'[s] = r
        /\ \A u \in Slots : u # s => lane'[u] = lane[u]
    BY <1>1, <1>4, <2>2 DEF r
  <2>5. /\ mirror' \in [pc : {"off", "running", "done"}, exit : Int, runs : Nat, next : Nat]
        /\ mirror'.pc = "running" /\ mirror'.runs = mirror.runs /\ mirror'.next = mirror.next + 1
    <3>1. PICK n \in Nat : n = mirror.next + 1
      BY <2>1
    <3>2. mirror' = [mirror EXCEPT !.next = n]
      BY <1>4, <3>1
    <3> QED
      BY <1>1, <2>1, <3>1, <3>2
  <2>6. MirrorTypeOK'
    BY <1>1, <2>4, <2>5 DEF MirrorTypeOK
  <2>7. Busy(s)' /\ \A u \in Slots : u # s => (Busy(u)' <=> Busy(u))
    BY <2>2, <2>4 DEF Busy
  <2>8. results[mirror.next] = "pending"
    BY <1>1, <2>1 DEF RunInv
  <2>9. \A u \in Slots : LaneInv(u)'
    <3>1. ASSUME NEW u \in Slots, u # s PROVE LaneInv(u)'
      <4>1. lane[u].index \in Nat
        BY <1>1 DEF LaneType
      <4> QED
        BY <1>1, <1>2, <2>1, <2>4, <2>5, <2>7, <3>1, <4>1 DEF RunInv, LaneInv, Indices
    <3>2. LaneInv(s)'
      BY <1>1, <2>1, <2>2, <2>3, <2>4, <2>5, <2>7, <2>8 DEF LaneInv, Indices
    <3> QED
      BY <3>1, <3>2
  <2>10. OwnLegs'
    <3> SUFFICES ASSUME NEW u \in Slots, NEW w \in Slots, u # w, Busy(u)', Busy(w)'
                 PROVE  lane'[u].index # lane'[w].index
      BY DEF OwnLegs
    <3>1. \A v \in Slots : (v # s /\ Busy(v)) => lane[v].index < mirror.next /\ lane[v].index \in Nat
      BY <1>1 DEF RunInv, LaneInv, LaneType
    <3>2. CASE u = s
      BY <2>1, <2>2, <2>4, <2>7, <3>1, <3>2
    <3>3. CASE w = s
      BY <2>1, <2>2, <2>4, <2>7, <3>1, <3>3
    <3>4. CASE u # s /\ w # s
      BY <1>1, <2>4, <2>7, <3>4 DEF RunInv, OwnLegs
    <3> QED
      BY <3>2, <3>3, <3>4
  <2>11. \A i \in Indices : LegInv(i)'
    <3> SUFFICES ASSUME NEW i \in Indices, i < mirror.next + 1, results[i] = "pending"
                 PROVE  \E u \in Slots : Busy(u)' /\ lane'[u].index = i
      BY <1>1, <2>5 DEF LegInv
    <3>1. CASE i = mirror.next
      BY <2>2, <2>4, <2>7, <3>1
    <3>2. CASE i # mirror.next
      <4>1. i < mirror.next
        BY <2>1, <3>2 DEF Indices
      <4>2. PICK u \in Slots : Busy(u) /\ lane[u].index = i
        BY <1>1, <4>1 DEF RunInv, LegInv
      <4> QED
        BY <1>1, <2>4, <2>7, <4>2
    <3> QED
      BY <3>1, <3>2
  <2>12. \A i \in Indices : i >= mirror.next + 1 => results[i] = "pending"
    BY <1>1, <2>1 DEF RunInv, Indices
  <2>13. \A c \in checkouts' : CheckoutInv(c)'
    <3> SUFFICES ASSUME NEW c \in checkouts, c.run = mirror.runs, ~SomeFailed
                 PROVE  Busy(c.slot)' /\ lane'[c.slot].index = c.index /\ legs[c.index] \in MixedLegs
      BY <1>1, <1>2, <2>5 DEF CheckoutInv
    <3>1. c.slot \in Slots /\ Busy(c.slot) /\ lane[c.slot].index = c.index /\ legs[c.index] \in MixedLegs
      BY <1>1 DEF RunInv, CheckoutInv, MirrorTypeOK
    <3> QED
      BY <1>1, <2>4, <2>7, <3>1
  <2>14. (lane'[0].at = "idle" /\ ~book'.abort) => mirror'.next = Len(legs') + 1
    <3>1. CASE s = 0
      BY <2>2, <2>4, <3>1
    <3>2. CASE s # 0
      <4>1. lane'[0] = lane[0]
        BY <1>4, <3>2
      <4>2. lane[0].at = "idle" /\ ~book.abort => mirror.next = Len(legs) + 1
        BY <1>1 DEF RunInv
      <4>3. mirror.next \in 1..Len(legs)
        BY <2>1 DEF Indices
      <4> QED
        BY <1>1, <4>1, <4>2, <4>3, LegCount DEF MirrorTypeOK
    <3> QED
      BY <3>1, <3>2
  <2>15. RunInv'
    <3>1. mirror'.next \in 1..(Len(legs) + 1)
      BY <1>1, <2>1, <2>5, LegCount DEF Indices, MirrorTypeOK
    <3> QED
      BY <1>1, <2>5, <2>9, <2>10, <2>11, <2>12, <2>13, <2>14, <3>1 DEF RunInv, Indices
  <2>16. \A u \in Slots : lane'[u].at = "boot" => u \notin held'
    BY <1>1, <2>2, <2>4 DEF MirrorInv
  <2>17. GreenRunIsGreen'
    BY <2>5 DEF GreenRunIsGreen
  <2> QED
    BY <2>5, <2>6, <2>15, <2>16, <2>17 DEF MirrorInv
<1> QED
  <2>1. ~(mirror.next > Len(legs)) => mirror.next <= Len(legs)
    BY <1>1, LegCount DEF RunInv, MirrorTypeOK
  <2> QED
    BY <1>3, <1>4, <2>1 DEF Pick

\* The legs asked for are no more than there are.
LEMMA ListLegsDoes ==
    ASSUME NEW asked, asked \subseteq LegFiles
    PROVE  /\ Len(listLegs(asked)) \in 0..Cardinality(LegFiles)
           /\ listLegs(asked) # <<>> => Len(listLegs(asked)) # 0
<1> DEFINE chosen == IF asked = {} THEN LegFiles ELSE asked
           n == Cardinality(chosen)
           l == listLegs(asked)
<1>1. chosen \subseteq LegFiles /\ IsFiniteSet(LegFiles)
  BY MirrorAssumption DEF MirrorAssumption
<1>2. n \in 0..Cardinality(LegFiles)
  <2> HIDE DEF chosen
  <2>1. IsFiniteSet(chosen) /\ n <= Cardinality(LegFiles)
    BY <1>1, FS_Subset
  <2>2. n \in Nat
    BY <2>1, FS_CardinalityType
  <2> QED
    BY <2>1, <2>2, LegCount
<1>3. l = [i \in 1..n |-> l[i]]
  <2> DEFINE leg(i) == CHOOSE f \in chosen : Cardinality({g \in chosen : g <= f}) = i
  <2>1. l = [i \in 1..n |-> leg(i)]
    BY DEF listLegs
  <2> HIDE DEF l, leg, n
  <2> QED
    BY <2>1
<1> HIDE DEF n, l
<1>4. l \in Seq({l[i] : i \in 1..n}) /\ Len(l) = n
  BY <1>2, <1>3
<1>5. l # <<>> => Len(l) # 0
  BY <1>4, EmptySeq
<1> QED
  BY <1>2, <1>4, <1>5 DEF l

LEMMA NoResultsTyped ==
    /\ NoResults \in [1..Cardinality(LegFiles) -> Failures \cup {"pending", "passed"}]
    /\ \A i \in 1..Cardinality(LegFiles) : NoResults[i] = "pending"
  BY DEF NoResults

\* A run begins with nothing taken and nothing ended, or is refused.
LEMMA StartMirrorKeeps ==
    ASSUME MirrorInv, StartMirror
    PROVE  MirrorInv'
<1>1. /\ MirrorTypeOK /\ mirror.pc # "running" /\ \A s \in Slots : lane[s].at = "idle"
      /\ mirror.runs \in Nat /\ book' = NewBook /\ results' = NoResults /\ UNCHANGED held
  BY DEF MirrorInv, MirrorTypeOK, StartMirror
<1>2. PICK runs \in Nat, zero \in Int, one \in Nat : runs = mirror.runs + 1 /\ zero = 0 /\ one = 1
  BY <1>1
<1>3. ASSUME NEW asked \in Asks, asked \subseteq LegFiles, listLegs(asked) # <<>>,
             mirror' = [pc |-> "running", exit |-> 0, runs |-> mirror.runs + 1, next |-> 1],
             legs' = listLegs(asked),
             lane' = [s \in Slots |-> IF s < Len(listLegs(asked)) THEN Idle ELSE Off],
             checkouts' \subseteq checkouts
      PROVE  MirrorInv'
  <2>1. Len(legs') \in 0..Cardinality(LegFiles) /\ Len(legs') # 0 /\ legs' # <<>>
    BY <1>3, ListLegsDoes
  <2>2. mirror' = [pc |-> "running", exit |-> zero, runs |-> runs, next |-> one]
    BY <1>2, <1>3
  <2>3. /\ mirror' \in [pc : {"off", "running", "done"}, exit : Int, runs : Nat, next : Nat]
        /\ mirror'.pc = "running" /\ mirror'.runs = runs /\ mirror'.next = one
    BY <2>2
  <2>4. \A s \in Slots : lane'[s] = IF s < Len(legs') THEN Idle ELSE Off
    BY <1>3
  <2>5. lane' \in [Slots -> LaneType] /\ \A s \in Slots : ~Busy(s)' /\ ~lane'[s].took
    BY <1>3, <2>4, IdleTyped DEF Busy
  <2>6. \A c \in checkouts' : c.slot \in Slots /\ c.index \in Nat /\ c.run \in 0..mirror.runs
    BY <1>1, <1>3 DEF MirrorTypeOK
  <2>7. MirrorTypeOK'
    BY <1>1, <1>2, <2>1, <2>3, <2>5, <2>6, NoResultsTyped DEF MirrorTypeOK
  <2>8. \A c \in checkouts' : CheckoutInv(c)'
    BY <1>1, <1>2, <2>3, <2>6 DEF CheckoutInv
  <2>9. \A s \in Slots : LaneInv(s)'
    BY <2>5 DEF LaneInv, Busy
  <2>10. OwnLegs'
    BY <2>5 DEF OwnLegs
  <2>11. \A i \in Indices' : LegInv(i)'
    BY <1>2, <2>3 DEF LegInv, Indices
  <2>12. \A i \in Indices' : results'[i] = "pending"
    BY <1>1, <2>1, LegCount, NoResultsTyped DEF Indices
  <2>13. lane'[0].at # "idle"
    <3>1. 0 \in Slots
      BY MirrorAssumption DEF MirrorAssumption, Slots
    <3>2. 0 < Len(legs')
      BY <2>1, LegCount
    <3> QED
      BY <2>4, <3>1, <3>2, IdleTyped
  <2>14. mirror'.next \in 1..(Len(legs') + 1)
    BY <1>2, <2>1, <2>3, LegCount
  <2>15. RunInv'
    BY <2>1, <2>8, <2>9, <2>10, <2>11, <2>12, <2>13, <2>14 DEF RunInv
  <2>16. \A s \in Slots : lane'[s].at # "boot"
    BY <2>4, IdleTyped
  <2>17. GreenRunIsGreen'
    BY <2>3 DEF GreenRunIsGreen
  <2> QED
    BY <2>3, <2>7, <2>15, <2>16, <2>17 DEF MirrorInv
<1>4. ASSUME mirror' = [pc |-> "done", exit |-> 1, runs |-> mirror.runs + 1, next |-> 1],
             legs' = <<>>, UNCHANGED <<lane, checkouts>>
      PROVE  MirrorInv'
  <2>1. mirror' = [pc |-> "done", exit |-> one, runs |-> runs, next |-> one]
    BY <1>2, <1>4
  <2>2. /\ mirror' \in [pc : {"off", "running", "done"}, exit : Int, runs : Nat, next : Nat]
        /\ mirror'.pc = "done" /\ mirror'.runs = runs /\ mirror'.exit = one
    BY <2>1
  <2>3. Len(legs') \in 0..Cardinality(LegFiles)
    BY <1>4, LegCount
  <2>4. \A c \in checkouts' : c.slot \in Slots /\ c.index \in Nat /\ c.run \in 0..runs
    BY <1>1, <1>2, <1>4 DEF MirrorTypeOK
  <2>5. MirrorTypeOK'
    BY <1>1, <1>4, <2>2, <2>3, <2>4, NoResultsTyped DEF MirrorTypeOK
  <2>6. GreenRunIsGreen'
    BY <1>2, <2>2 DEF GreenRunIsGreen
  <2> QED
    BY <1>1, <1>4, <2>2, <2>5, <2>6 DEF MirrorInv
<1> QED
  BY <1>3, <1>4 DEF StartMirror

LEMMA RebootKeeps ==
    ASSUME MirrorInv, Reboot
    PROVE  MirrorInv'
<1>1. MirrorTypeOK /\ mirror \in [pc : {"off", "running", "done"}, exit : Int, runs : Nat, next : Nat]
  BY DEF MirrorInv, MirrorTypeOK
<1>2. PICK one \in Int : one = 1
  OBVIOUS
<1>3. mirror' = [mirror EXCEPT !.pc = "done", !.exit = one]
  BY <1>2 DEF Reboot
<1>4. /\ mirror' \in [pc : {"off", "running", "done"}, exit : Int, runs : Nat, next : Nat]
      /\ mirror'.pc = "done" /\ mirror'.exit = one /\ mirror'.runs = mirror.runs
  BY <1>1, <1>3
<1>5. /\ legs' = <<>> /\ results' = NoResults /\ UNCHANGED <<held, checkouts>>
      /\ lane' = [s \in Slots |-> Off]
  BY DEF Reboot
<1>6. lane' \in [Slots -> LaneType] /\ \A s \in Slots : lane'[s].at = "idle"
  BY <1>5, IdleTyped
<1>7. Len(legs') \in 0..Cardinality(LegFiles)
  BY <1>5, LegCount
<1>8. MirrorTypeOK'
  BY <1>1, <1>4, <1>5, <1>6, <1>7, NoResultsTyped DEF MirrorTypeOK
<1>9. GreenRunIsGreen'
  BY <1>2, <1>4 DEF GreenRunIsGreen
<1> QED
  BY <1>4, <1>6, <1>8, <1>9 DEF MirrorInv

\* The lanes are done: without an abort every leg has ended, and a failed one is counted.
LEMMA EndMirrorKeeps ==
    ASSUME MirrorInv, EndMirror
    PROVE  MirrorInv'
<1> DEFINE bad == {i \in Indices : results[i] \notin {"passed", "pending"}}
           failed == Cardinality(bad)
           exit == IF book.abort THEN 1 ELSE IF failed > 255 THEN 255 ELSE failed
<1>1. /\ MirrorTypeOK /\ RunInv /\ mirror.pc = "running" /\ \A s \in Slots : lane[s].at = "idle"
      /\ UNCHANGED <<legs, book, results, lane, held, checkouts>>
      /\ mirror' = [mirror EXCEPT !.pc = "done", !.exit = exit]
      /\ mirror \in [pc : {"off", "running", "done"}, exit : Int, runs : Nat, next : Nat]
  BY DEF MirrorInv, MirrorTypeOK, EndMirror
<1>2. failed \in Nat /\ (failed = 0 => bad = {})
  <2>1. Len(legs) \in Int /\ Indices = 1..Len(legs)
    BY <1>1, LegCount DEF MirrorTypeOK, Indices
  <2>2. IsFiniteSet(Indices)
    BY <2>1, FS_Interval
  <2>3. IsFiniteSet(bad)
    BY <2>2, FS_Subset
  <2> QED
    BY <2>3, FS_CardinalityType, FS_EmptySet
<1> HIDE DEF failed
<1>3. exit \in Int /\ (exit = 0 => ~book.abort /\ failed = 0)
  BY <1>2
<1> HIDE DEF exit, bad
<1>4. /\ mirror' \in [pc : {"off", "running", "done"}, exit : Int, runs : Nat, next : Nat]
      /\ mirror'.pc = "done" /\ mirror'.exit = exit /\ mirror'.runs = mirror.runs
  BY <1>1, <1>3
<1>5. MirrorTypeOK'
  BY <1>1, <1>4 DEF MirrorTypeOK
<1>6. ASSUME exit = 0
      PROVE  /\ legs # <<>> /\ \A i \in Indices : results[i] = "passed"
             /\ \A s \in Slots : lane[s].took => s \notin held \/ lane[s].blind
             /\ \A c \in checkouts : c.run # mirror.runs
  <2>1. bad = {} /\ ~SomeFailed
    BY <1>2, <1>3, <1>6 DEF bad, SomeFailed, Failed
  <2>2. \A s \in Slots : ~Busy(s)
    BY <1>1 DEF Busy
  <2>3. mirror.next = Len(legs) + 1
    <3>1. 0 \in Slots
      BY MirrorAssumption DEF MirrorAssumption, Slots
    <3> QED
      BY <1>1, <1>3, <1>6, <3>1 DEF RunInv
  <2>4. \A i \in Indices : results[i] = "passed"
    <3> SUFFICES ASSUME NEW i \in Indices PROVE results[i] = "passed"
      OBVIOUS
    <3>1. i < mirror.next
      BY <1>1, <2>3, LegCount DEF MirrorTypeOK, Indices
    <3>2. results[i] # "pending"
      BY <1>1, <2>2, <3>1 DEF RunInv, LegInv
    <3> QED
      BY <2>1, <3>2 DEF bad
  <2>5. \A s \in Slots : lane[s].took => s \notin held \/ lane[s].blind
    BY <1>1, <2>1, <2>2 DEF RunInv, LaneInv
  <2>6. \A c \in checkouts : c.run # mirror.runs
    BY <1>1, <2>1, <2>2 DEF RunInv, CheckoutInv, MirrorTypeOK
  <2> QED
    BY <1>1, <2>4, <2>5, <2>6 DEF RunInv
<1>7. GreenRunIsGreen'
  BY <1>1, <1>4, <1>6 DEF GreenRunIsGreen, Indices
<1> QED
  BY <1>1, <1>4, <1>5, <1>7 DEF MirrorInv

LEMMA MirrorStepKeeps == ASSUME MirrorInv, MirrorNext PROVE MirrorInv'
<1>1. CASE StartMirror \/ EndMirror \/ Reboot
  BY <1>1, StartMirrorKeeps, EndMirrorKeeps, RebootKeeps
<1>2. ASSUME NEW s \in Slots, Pick(s) \/ SweepSlot(s) \/ Boot(s) \/ Down(s)
      PROVE  MirrorInv'
  BY <1>2, PickKeeps, SweepSlotKeeps, BootKeeps, DownKeeps
<1>3. ASSUME NEW s \in Slots, BeginCheckout(s) \/ EndCheckout(s) \/ PollStack(s) \/ SeedOrRun(s)
      PROVE  MirrorInv'
  BY <1>3, CheckoutKeeps, PollStackKeeps, SeedOrRunKeeps
<1>4. ASSUME NEW s \in Slots, Unspawned(s) \/ HelperRefuses(s)
      PROVE  MirrorInv'
  BY <1>4, UnspawnedKeeps
<1> QED
  BY <1>1, <1>2, <1>3, <1>4 DEF MirrorNext

LEMMA MirrorInitInv == ASSUME MirrorInit PROVE MirrorInv
<1>1. PICK zero \in Int, none \in Nat, one \in Nat : zero = 0 /\ none = 0 /\ one = 1
  OBVIOUS
<1>2. mirror = [pc |-> "off", exit |-> zero, runs |-> none, next |-> one]
  BY <1>1 DEF MirrorInit
<1>3. /\ mirror \in [pc : {"off", "running", "done"}, exit : Int, runs : Nat, next : Nat]
      /\ mirror.pc = "off"
  BY <1>2
<1>4. lane \in [Slots -> LaneType] /\ \A s \in Slots : lane[s].at = "idle"
  BY IdleTyped DEF MirrorInit
<1>5. Len(legs) \in 0..Cardinality(LegFiles)
  BY LegCount DEF MirrorInit
<1>6. MirrorTypeOK
  BY <1>3, <1>4, <1>5, NoResultsTyped DEF MirrorInit, MirrorTypeOK
<1> QED
  BY <1>3, <1>4, <1>6 DEF MirrorInv, GreenRunIsGreen

-----------------------------------------------------------------------------
(* The drill: what a validator is under, and what it has yet to read.      *)

Commands == Modes \cup Rounds \cup {"clearPending", "dropDb", "stop"}
Injected == {"silent", "forge"}
Holding == {"propose", "wait"}

\* Up to the proposal of a phase that has one.
Opening == {"boot", "check", "realign", "leader", "faults", "propose"}

NodeType ==
    [state : {"up", "stalled", "exited"}, fault : Modes, inbox : Seq(Commands),
     applied : Rounds \cup {"none"}, pending : SUBSET Rounds, schema : BOOLEAN]

DrillTypeOK ==
    /\ DOMAIN drill = {"pc", "phase", "leader", "victims", "red", "left"}
    /\ drill.phase \in 1..5
    /\ drill.pc \in Opening => current \in Rounds
    /\ validator \in [Validators -> NodeType]

\* Those that may be under a fault.
Told == unconfirmed \cup drill.left \cup (IF drill.pc \in Holding \cup {"clear"} THEN drill.victims ELSE {})

\* Nothing in its stdin would put a fault on it.
Harmless(r) == \A i \in DOMAIN r.inbox : r.inbox[i] \notin Injected

\* Nothing in its stdin would change its fault.
Steady(r) == \A i \in DOMAIN r.inbox : r.inbox[i] \notin Modes

Pristine(r) == r.state = "exited" /\ r.fault = "none" /\ r.inbox = <<>>

NodeInv(v) ==
    /\ Up(v) => validator[v].inbox = <<>>
    /\ (Running(v) /\ v \notin Told) => validator[v].fault = "none" /\ Harmless(validator[v])
    /\ (Running(v) /\ drill.pc \in Holding /\ v \in drill.victims) =>
          validator[v].fault = mode(current) /\ Steady(validator[v])
    /\ drill.pc = "boot" => Pristine(validator[v])

DrillInv == DrillTypeOK /\ \A v \in Validators : NodeInv(v)

\* A record that a validator may become without any of this changing for it.
Alike(r, s) ==
    /\ s \in NodeType
    /\ s.state = "up" => s.inbox = <<>>
    /\ s.state \in {"up", "stalled"} => r.state \in {"up", "stalled"}
    /\ s.state \in {"up", "stalled"} /\ r.fault = "none" /\ Harmless(r) =>
          s.fault = "none" /\ Harmless(s)
    /\ s.state \in {"up", "stalled"} /\ Steady(r) => s.fault = r.fault /\ Steady(s)

LEMMA DrillInitInv == DrillInit => DrillInv
<1> SUFFICES ASSUME DrillInit PROVE DrillInv
  OBVIOUS
<1>1. drill = [pc |-> "boot", phase |-> 1, leader |-> Nobody, victims |-> {}, red |-> FALSE,
               left |-> {}]
  BY DEF DrillInit
<1>2. validator = [v \in Validators |->
          [state |-> "exited", fault |-> "none", inbox |-> <<>>, applied |-> "none",
           pending |-> {}, schema |-> FALSE]]
  BY DEF DrillInit
<1>3. <<>> \in Seq(Commands)
  OBVIOUS
<1>4. DrillTypeOK
  BY <1>1, <1>2, <1>3 DEF DrillTypeOK, NodeType, Modes, current, PhaseOrder, Rounds
<1>5. \A v \in Validators : NodeInv(v)
  BY <1>1, <1>2 DEF NodeInv, Up, Running, Holding, Pristine
<1> QED
  BY <1>4, <1>5 DEF DrillInv

\* What a command does to a validator, read at once or queued.
LEMMA HandleDoes ==
    ASSUME NEW r \in NodeType, NEW cmd \in Commands \ Rounds
    PROVE  LET s == handle(r, cmd) IN
           /\ s \in NodeType
           /\ s.state = r.state \/ s.state = "exited"
           /\ s.inbox = r.inbox \/ s.state = "exited"
           /\ s.fault = r.fault \/ s.state = "exited" \/ cmd \in Modes
           /\ cmd \in Modes => s.fault = cmd /\ s.state = r.state /\ s.inbox = r.inbox
<1>1. CASE cmd \in Modes
  <2>1. handle(r, cmd) = [r EXCEPT !.fault = cmd]
    BY <1>1 DEF handle, Modes
  <2>2. [r EXCEPT !.fault = cmd] \in NodeType
    BY <1>1 DEF NodeType
  <2> QED
    BY <1>1, <2>1, <2>2 DEF NodeType
<1>2. CASE cmd = "clearPending"
  BY <1>2 DEF handle, NodeType, Modes
<1>3. CASE cmd = "dropDb"
  BY <1>3 DEF handle, NodeType, Modes
<1>4. CASE cmd = "stop"
  <2>1. <<>> \in Seq(Commands)
    OBVIOUS
  <2> QED
    BY <1>4, <2>1 DEF handle, gone, NodeType, Modes
<1> QED
  BY <1>1, <1>2, <1>3, <1>4 DEF Commands

LEMMA AppendKeeps ==
    ASSUME NEW q \in Seq(Commands), NEW cmd \in Commands, NEW S,
           \A i \in DOMAIN q : q[i] \notin S, cmd \notin S
    PROVE  Append(q, cmd) \in Seq(Commands)
           /\ \A i \in DOMAIN Append(q, cmd) : Append(q, cmd)[i] \notin S
  OBVIOUS

LEMMA TailKeeps ==
    ASSUME NEW q \in Seq(Commands), q # <<>>, NEW S, \A i \in DOMAIN q : q[i] \notin S
    PROVE  /\ Tail(q) \in Seq(Commands) /\ Head(q) \in Commands /\ Head(q) \notin S
           /\ \A i \in DOMAIN Tail(q) : Tail(q)[i] \notin S
  OBVIOUS

LEMMA SentIsAlike ==
    ASSUME NEW r \in NodeType, r.state = "up" => r.inbox = <<>>,
           NEW cmd \in {"clearPending", "dropDb", "stop"}
    PROVE  Alike(r, sent(r, cmd))
<1>0. cmd \in Commands \ Rounds /\ cmd \notin Modes /\ cmd \notin Injected
  BY DEF Commands, Rounds, Modes, Injected
<1>1. CASE r.state = "up"
  <2>1. sent(r, cmd) = handle(r, cmd)
    BY <1>1 DEF sent
  <2> QED
    BY <1>0, <1>1, <2>1, HandleDoes DEF Alike, Harmless, Steady
<1>2. CASE r.state = "stalled"
  <2> DEFINE q == Append(r.inbox, cmd)
  <2>1. sent(r, cmd) = [r EXCEPT !.inbox = q]
    BY <1>2 DEF sent
  <2>2. r.inbox \in Seq(Commands)
    BY DEF NodeType
  <2>3. q \in Seq(Commands)
    BY <1>0, <2>2
  <2>4. Harmless(r) => \A i \in DOMAIN q : q[i] \notin Injected
    BY <1>0, <2>2, AppendKeeps DEF Harmless
  <2>5. Steady(r) => \A i \in DOMAIN q : q[i] \notin Modes
    BY <1>0, <2>2, AppendKeeps DEF Steady
  <2>6. /\ sent(r, cmd) \in NodeType /\ sent(r, cmd).inbox = q
        /\ sent(r, cmd).state = r.state /\ sent(r, cmd).fault = r.fault
    BY <2>1, <2>3 DEF NodeType
  <2> HIDE DEF q
  <2> QED
    BY <1>2, <2>4, <2>5, <2>6 DEF Alike, Harmless, Steady
<1>3. CASE r.state = "exited"
  BY <1>3 DEF sent, Alike
<1> QED
  BY <1>1, <1>2, <1>3 DEF NodeType

LEMMA GoneIsAlike ==
    ASSUME NEW r \in NodeType
    PROVE  Alike(r, gone(r)) /\ gone(r).state = "exited"
<1>1. <<>> \in Seq(Commands)
  OBVIOUS
<1>2. gone(r) \in NodeType /\ gone(r).state = "exited"
  BY <1>1 DEF gone, NodeType, Modes
<1> QED
  BY <1>2 DEF Alike

\* What the test file may do while the validators stay as they were: it keeps
\* answering for all that it told, and holds nothing new against anyone.
Onward ==
    /\ DOMAIN drill' = {"pc", "phase", "leader", "victims", "red", "left"}
    /\ drill'.phase \in 1..5 /\ drill'.pc # "boot"
    /\ drill'.pc \in Opening => current' \in Rounds
    /\ Told \subseteq Told'
    /\ drill'.pc \in Holding =>
          drill.pc \in Holding /\ drill'.victims = drill.victims /\ drill'.phase = drill.phase

LEMMA AlikeKeeps ==
    ASSUME DrillInv, Onward, DOMAIN validator' = Validators,
           validator' = [v \in Validators |-> validator'[v]],
           \A v \in Validators : Alike(validator[v], validator'[v])
    PROVE  DrillInv'
<1>1. DrillTypeOK'
  <2>1. validator' \in [Validators -> NodeType]
    BY DEF Alike
  <2> QED
    BY <2>1 DEF DrillTypeOK, Onward
<1>2. ASSUME NEW v \in Validators PROVE NodeInv(v)'
  <2>1. Alike(validator[v], validator'[v]) /\ NodeInv(v)
    BY <1>2 DEF DrillInv
  <2>2. Up(v)' => validator'[v].inbox = <<>>
    BY <2>1 DEF Alike, Up
  <2>3. (Running(v) /\ v \notin Told)' => (validator'[v].fault = "none" /\ Harmless(validator'[v]))
    BY <2>1 DEF Alike, NodeInv, Running, Onward
  <2>4. (Running(v) /\ drill.pc \in Holding /\ v \in drill.victims)' =>
            (validator'[v].fault = mode(current)' /\ Steady(validator'[v]))
    BY <2>1 DEF Alike, NodeInv, Running, current, mode, Onward
  <2> QED
    BY <2>2, <2>3, <2>4 DEF NodeInv, Harmless, Steady, Onward
<1> QED
  BY <1>1, <1>2 DEF DrillInv

LEMMA ItselfIsAlike ==
    ASSUME DrillInv, NEW v \in Validators
    PROVE  /\ Alike(validator[v], validator[v])
           /\ validator[v] \in NodeType
           /\ validator[v].state = "up" => validator[v].inbox = <<>>
<1>1. validator[v] \in NodeType /\ NodeInv(v)
  BY DEF DrillInv, DrillTypeOK
<1> QED
  BY <1>1 DEF Alike, NodeInv, Up

LEMMA EndsDoes ==
    ASSUME DrillInv, NEW x \in BOOLEAN, NEW l, EndsLeaving(x, l)
    PROVE  /\ DOMAIN drill' = {"pc", "phase", "leader", "victims", "red", "left"}
           /\ drill'.phase \in 1..5 /\ drill'.pc \in {"drop", "realign", "forge"}
           /\ drill'.victims = {} /\ drill'.left = l
           /\ drill'.pc = "realign" => current' \in Rounds
<1>1. Len(PhaseOrder) = 5 /\ \A i \in 1..5 : PhaseOrder[i] \in Rounds \cup {"D"}
  BY DEF PhaseOrder, Rounds
<1>2. /\ DOMAIN drill' = {"pc", "phase", "leader", "victims", "red", "left"}
      /\ drill'.phase = IF drill.phase = 5 THEN drill.phase ELSE drill.phase + 1
      /\ drill'.pc = IF drill.phase = 5 THEN "drop" ELSE begin(drill.phase + 1)
      /\ drill'.victims = {} /\ drill'.left = l /\ drill.phase \in 1..5
  BY <1>1 DEF DrillInv, DrillTypeOK, EndsLeaving
<1>3. drill'.phase \in 1..5
  BY <1>2
<1>4. CASE drill.phase = 5
  BY <1>2, <1>3, <1>4
<1>5. CASE drill.phase # 5
  <2>1. drill'.phase = drill.phase + 1 /\ drill'.pc = begin(drill'.phase)
    BY <1>2, <1>5
  <2>2. current' \in Rounds \cup {"D"} /\ (drill'.pc = "realign" => current' # "D")
    BY <1>1, <1>3, <2>1 DEF begin, current
  <2>3. drill'.pc \in {"realign", "forge"}
    BY <2>1 DEF begin
  <2> QED
    BY <1>2, <1>3, <2>2, <2>3
<1> QED
  BY <1>4, <1>5

\* The test file goes on from where nobody is under its fault, to where nobody is.
LEMMA EndsOnward ==
    ASSUME DrillInv, Ends(TRUE) \/ Ends(FALSE), unconfirmed' = unconfirmed,
           drill.pc \notin Holding \cup {"clear"}
    PROVE  Onward
<1>1. Told = unconfirmed \cup drill.left
  BY DEF Told
<1>2. PICK x \in BOOLEAN : EndsLeaving(x, drill.left)
  BY DEF Ends
<1> QED
  BY <1>1, <1>2, EndsDoes DEF Onward, Told, Holding, Opening

LEMMA StandsOnward ==
    ASSUME DrillInv, UNCHANGED <<drill, unconfirmed>>, drill.pc # "boot"
    PROVE  Onward
  BY DEF DrillInv, DrillTypeOK, Onward, Told, current

LEMMA SendKeeps ==
    ASSUME DrillInv, Onward, NEW S, NEW cmd \in {"clearPending", "dropDb", "stop"}, Tell(S, cmd)
    PROVE  DrillInv'
<1>1. validator' = [v \in Validators |->
          IF v \in S THEN sent(validator[v], cmd) ELSE validator[v]]
  BY DEF Tell
<1>2. ASSUME NEW v \in Validators PROVE Alike(validator[v], validator'[v])
  BY <1>1, <1>2, ItselfIsAlike, SentIsAlike
<1> QED
  BY <1>1, <1>2, AlikeKeeps

LEMMA RestKeeps ==
    ASSUME DrillInv, Onward, UNCHANGED validator
    PROVE  DrillInv'
<1>1. validator = [v \in Validators |-> validator[v]]
  BY DEF DrillInv, DrillTypeOK
<1> QED
  BY <1>1, ItselfIsAlike, AlikeKeeps

\* A step of one validator.
LEMMA OneKeeps ==
    ASSUME DrillInv, UNCHANGED <<drill, unconfirmed>>, NEW v \in Validators, Running(v),
           NEW s, Alike(validator[v], s), validator' = [validator EXCEPT ![v] = s]
    PROVE  DrillInv'
<1>1. drill.pc # "boot"
  BY DEF DrillInv, NodeInv, Pristine, Running
<1>2. /\ DOMAIN validator' = Validators
      /\ \A w \in Validators : validator'[w] = IF w = v THEN s ELSE validator[w]
      /\ validator' = [w \in Validators |-> validator'[w]]
  BY DEF DrillInv, DrillTypeOK
<1>3. \A w \in Validators : Alike(validator[w], validator'[w])
  BY <1>2, ItselfIsAlike
<1> QED
  BY <1>1, <1>2, <1>3, StandsOnward, AlikeKeeps

LEMMA PendingIsAlike ==
    ASSUME NEW r \in NodeType, r.state = "up" => r.inbox = <<>>,
           NEW p \in SUBSET Rounds, NEW a \in Rounds \cup {"none"}
    PROVE  Alike(r, [r EXCEPT !.pending = p]) /\ Alike(r, [r EXCEPT !.applied = a, !.pending = p])
<1> DEFINE s == [r EXCEPT !.pending = p]
           t == [r EXCEPT !.applied = a, !.pending = p]
<1>1. /\ s \in NodeType /\ s.state = r.state /\ s.fault = r.fault /\ s.inbox = r.inbox
      /\ t \in NodeType /\ t.state = r.state /\ t.fault = r.fault /\ t.inbox = r.inbox
  BY DEF NodeType
<1> HIDE DEF s, t
<1>2. Alike(r, s) /\ Alike(r, t)
  BY <1>1 DEF Alike, Harmless, Steady
<1> QED
  BY <1>2 DEF s, t

LEMMA BroadcastIsAlike ==
    ASSUME DrillInv, NEW p \in Rounds, NEW nodes, Broadcast(p, nodes),
           nodes \in [Validators -> NodeType],
           \A v \in Validators : /\ Alike(validator[v], nodes[v])
                                 /\ nodes[v].state = validator[v].state
    PROVE  /\ DOMAIN validator' = Validators
           /\ validator' = [v \in Validators |-> validator'[v]]
           /\ \A v \in Validators : Alike(validator[v], validator'[v])
<1>1. validator' = [v \in Validators |->
          IF Running(v) /\ nodes[v].fault # "silent"
          THEN [nodes[v] EXCEPT !.pending = @ \cup {p}] ELSE nodes[v]]
  BY DEF Broadcast
<1>2. ASSUME NEW v \in Validators PROVE Alike(validator[v], validator'[v])
  <2> DEFINE s == [nodes[v] EXCEPT !.pending = @ \cup {p}]
  <2>1. nodes[v] \in NodeType /\ Alike(validator[v], nodes[v])
    BY <1>2
  <2>2. nodes[v].pending \cup {p} \in SUBSET Rounds
    BY <2>1 DEF NodeType
  <2>3. /\ s \in NodeType /\ s.state = nodes[v].state /\ s.fault = nodes[v].fault
        /\ s.inbox = nodes[v].inbox
    BY <2>1, <2>2 DEF NodeType
  <2>4. Alike(validator[v], s)
    BY <2>1, <2>3 DEF Alike, Harmless, Steady
  <2> QED
    BY <1>1, <1>2, <2>1, <2>4
<1> QED
  BY <1>1, <1>2

-----------------------------------------------------------------------------
(* The steps of the test file.                                             *)

LEMMA StartKeeps == DrillInv /\ StartMesh => DrillInv'
<1> SUFFICES ASSUME DrillInv, StartMesh PROVE DrillInv'
  OBVIOUS
<1>1. PICK S \in SUBSET Validators, state \in {"up", "exited"} :
         validator' = [v \in Validators |->
             IF v \in S THEN [validator[v] EXCEPT !.state = state, !.schema = TRUE]
             ELSE validator[v]]
  <2>1. CASE validator' = [v \in Validators |->
                [validator[v] EXCEPT !.state = "up", !.schema = TRUE]]
    BY <2>1
  <2> QED
    BY <2>1 DEF StartMesh
<1>2. /\ DOMAIN drill' = {"pc", "phase", "leader", "victims", "red", "left"}
      /\ drill'.phase = drill.phase /\ drill'.pc \in {"check", "over"}
      /\ current' = current /\ current \in Rounds /\ drill.phase \in 1..5
  BY DEF DrillInv, DrillTypeOK, StartMesh, Goes, current, Opening
<1>3. ASSUME NEW v \in Validators
      PROVE  validator'[v] \in NodeType /\ validator'[v].fault = "none" /\ validator'[v].inbox = <<>>
  <2>1. validator[v] \in NodeType /\ Pristine(validator[v])
    BY <1>3 DEF DrillInv, DrillTypeOK, NodeInv, StartMesh
  <2> QED
    BY <1>1, <1>3, <2>1 DEF NodeType, Pristine
<1>4. DrillTypeOK'
  BY <1>1, <1>2, <1>3 DEF DrillTypeOK, DrillInv
<1>5. \A v \in Validators : NodeInv(v)'
  BY <1>2, <1>3 DEF NodeInv, Holding, Harmless
<1> QED
  BY <1>4, <1>5 DEF DrillInv

LEMMA CheckKeeps == DrillInv /\ CheckMesh => DrillInv'
<1> SUFFICES ASSUME DrillInv, CheckMesh PROVE DrillInv'
  OBVIOUS
<1>1. Onward
  BY DEF DrillInv, DrillTypeOK, CheckMesh, Onward, Told, Holding, Opening, current
<1> QED
  BY <1>1, RestKeeps DEF CheckMesh

LEMMA RealignKeeps == DrillInv /\ realign => DrillInv'
<1> SUFFICES ASSUME DrillInv, realign PROVE DrillInv'
  OBVIOUS
<1>1. current \in Rounds
  BY DEF DrillInv, DrillTypeOK, realign, Opening
<1>2. /\ DOMAIN drill' = {"pc", "phase", "leader", "victims", "red", "left"}
      /\ drill'.phase = drill.phase /\ drill'.left = drill.left
      /\ drill'.pc = "leader"
  BY DEF DrillInv, DrillTypeOK, realign, Goes
<1>3. Onward
  BY <1>1, <1>2 DEF DrillInv, DrillTypeOK, realign, Onward, Told, Holding, Opening, current
<1> QED
  BY <1>3, SendKeeps DEF realign

LEMMA LeaderKeeps == DrillInv /\ findLeader => DrillInv'
<1> SUFFICES ASSUME DrillInv, findLeader PROVE DrillInv'
  OBVIOUS
<1>1. ASSUME NEW i \in DOMAIN Nodes,
             drill' = [drill EXCEPT !.pc = "faults", !.leader = Nodes[i]]
      PROVE  Onward
  <2>1. /\ DOMAIN drill' = {"pc", "phase", "leader", "victims", "red", "left"}
        /\ drill'.phase = drill.phase /\ drill'.pc = "faults" /\ current' = current
        /\ drill'.left = drill.left
    BY <1>1 DEF DrillInv, DrillTypeOK, current
  <2> QED
    BY <2>1 DEF DrillInv, DrillTypeOK, findLeader, Onward, Told, Holding, Opening
<1>2. drill.pc = "leader" /\ unconfirmed' = unconfirmed
  BY DEF findLeader
<1>3. ASSUME Ends(TRUE) PROVE Onward
  <2>1. drill.pc \notin Holding \cup {"clear"}
    BY <1>2 DEF Holding
  <2> QED
    BY <1>2, <1>3, <2>1, EndsOnward
<1>5. Onward
  <2>1. ASSUME NEW i \in DOMAIN Nodes,
               drill' = [drill EXCEPT !.pc = "faults", !.leader = Nodes[i]]
        PROVE  Onward
    BY <1>1, <2>1
  <2> QED
    BY <1>3, <2>1 DEF findLeader
<1> QED
  BY <1>5, RestKeeps DEF findLeader

LEMMA FaultsKeep == DrillInv /\ applyFaults => DrillInv'
<1> SUFFICES ASSUME DrillInv, applyFaults PROVE DrillInv'
  OBVIOUS
<1> DEFINE victims == victimsOf(drill.leader, current)
<1>1. /\ drill.pc = "faults" /\ Told = unconfirmed \cup drill.left /\ current \in Rounds
      /\ mode(current) \in Injected /\ mode(current) \in Modes /\ mode(current) \in Commands \ Rounds
  BY DEF applyFaults, Told, Holding, Opening, DrillInv, DrillTypeOK, mode, Injected, Modes, Commands, Rounds
<1>2. validator' = [v \in Validators |->
          IF v \in victims THEN sent(validator[v], mode(current)) ELSE validator[v]]
  BY DEF applyFaults, Tell
<1> HIDE DEF victims
<1>3. ASSUME NEW v \in Validators
      PROVE  /\ validator'[v] \in NodeType /\ validator'[v].state = validator[v].state
             /\ v \notin victims => validator'[v] = validator[v]
             /\ Up(v) => validator'[v].inbox = <<>>
             /\ Up(v) /\ v \in victims => validator'[v].fault = mode(current)
  <2>1. validator[v] \in NodeType /\ (Up(v) => validator[v].inbox = <<>>)
    BY <1>3 DEF DrillInv, DrillTypeOK, NodeInv
  <2>2. CASE v \notin victims
    BY <1>2, <2>1, <2>2
  <2>3. CASE v \in victims /\ Up(v)
    <3>1. validator'[v] = handle(validator[v], mode(current))
      BY <1>2, <1>3, <2>3 DEF Up, sent
    <3> QED
      BY <1>1, <2>1, <2>3, <3>1, HandleDoes
  <2>4. CASE v \in victims /\ validator[v].state = "stalled"
    <3>1. validator'[v] = [validator[v] EXCEPT !.inbox = Append(@, mode(current))]
      BY <1>2, <1>3, <2>4 DEF sent
    <3>2. Append(validator[v].inbox, mode(current)) \in Seq(Commands)
      BY <1>1, <2>1 DEF NodeType
    <3> QED
      BY <2>1, <2>4, <3>1, <3>2 DEF NodeType, Up
  <2>5. CASE v \in victims /\ validator[v].state = "exited"
    BY <1>2, <1>3, <2>1, <2>5 DEF sent, Up
  <2> QED
    BY <2>1, <2>2, <2>3, <2>4, <2>5 DEF NodeType, Up
<1>4. validator' \in [Validators -> NodeType]
  BY <1>2, <1>3
<1>5. CASE \A v \in victims : Up(v)
  <2>1. /\ drill' = [drill EXCEPT !.pc = "propose", !.victims = victims, !.left = @ \ victims]
        /\ unconfirmed' = unconfirmed \ victims
    BY <1>5 DEF applyFaults, victims
  <2>2. /\ DOMAIN drill' = {"pc", "phase", "leader", "victims", "red", "left"}
        /\ drill'.phase = drill.phase /\ drill'.pc = "propose" /\ drill'.victims = victims
        /\ current' = current /\ drill'.left = drill.left \ victims
    BY <2>1 DEF DrillInv, DrillTypeOK, current
  <2>3. DrillTypeOK'
    BY <1>1, <1>4, <2>2 DEF DrillInv, DrillTypeOK
  <2>4. ASSUME NEW v \in Validators PROVE NodeInv(v)'
    <3>1. NodeInv(v)
      BY <2>4 DEF DrillInv
    <3>2. CASE v \in victims
      <4>1. Up(v)
        BY <1>5, <3>2
      <4>2. /\ validator'[v].inbox = <<>> /\ validator'[v].fault = mode(current) /\ v \in Told'
        BY <1>3, <2>2, <2>4, <3>2, <4>1 DEF Told, Holding
      <4> QED
        BY <2>2, <4>2 DEF NodeInv, Steady, Holding
    <3>3. CASE v \notin victims
      BY <1>1, <1>3, <2>1, <2>2, <2>4, <3>1, <3>3
         DEF NodeInv, Told, Holding, Harmless, Up, Running
    <3> QED
      BY <3>2, <3>3
  <2> QED
    BY <2>3, <2>4 DEF DrillInv
<1>6. CASE ~(\A v \in victims : Up(v))
  <2> DEFINE answered == {v \in victims : Up(v)}
             left == (drill.left \ victims) \cup answered
  <2>1. EndsLeaving(TRUE, left) /\ unconfirmed' = (unconfirmed \cup victims) \ answered
    BY <1>6 DEF applyFaults, victims
  <2>2. /\ DOMAIN drill' = {"pc", "phase", "leader", "victims", "red", "left"}
        /\ drill'.phase \in 1..5 /\ drill'.pc \in {"drop", "realign", "forge"}
        /\ drill'.left = left /\ (drill'.pc = "realign" => current' \in Rounds)
    BY <2>1, EndsDoes
  <2>3. Told' = unconfirmed \cup drill.left \cup victims
    BY <2>1, <2>2 DEF Told, Holding
  <2>4. DrillTypeOK'
    BY <1>4, <2>2 DEF DrillTypeOK, Opening
  <2>5. ASSUME NEW v \in Validators PROVE NodeInv(v)'
    <3>1. NodeInv(v)
      BY <2>5 DEF DrillInv
    <3> QED
      BY <1>1, <1>3, <2>2, <2>3, <2>5, <3>1 DEF NodeInv, Holding, Harmless, Up, Running
  <2> QED
    BY <2>4, <2>5 DEF DrillInv
<1> QED
  BY <1>5, <1>6

LEMMA ProposeKeeps == DrillInv /\ Propose => DrillInv'
<1> SUFFICES ASSUME DrillInv, Propose PROVE DrillInv'
  OBVIOUS
<1>1. /\ DOMAIN drill' = {"pc", "phase", "leader", "victims", "red", "left"}
      /\ drill'.phase = drill.phase /\ drill'.victims = drill.victims
      /\ drill'.left = drill.left
      /\ drill'.pc \in {"wait", "clear"} /\ drill.pc = "propose" /\ unconfirmed' = unconfirmed
  BY DEF DrillInv, DrillTypeOK, Propose, Goes
<1>2. Onward
  BY <1>1 DEF DrillInv, DrillTypeOK, Onward, Told, Holding, Opening
<1>3. current \in Rounds
  BY <1>1 DEF DrillInv, DrillTypeOK, Opening
<1>4. CASE UNCHANGED validator
  BY <1>2, <1>4, RestKeeps
<1>5. CASE Broadcast(current, validator)
  <2>1. validator \in [Validators -> NodeType]
    BY DEF DrillInv, DrillTypeOK
  <2> QED
    BY <1>2, <1>3, <1>5, <2>1, ItselfIsAlike, BroadcastIsAlike, AlikeKeeps
<1>6. CASE /\ validator[drill.leader].state = "stalled"
            /\ validator' = [validator EXCEPT ![drill.leader].inbox = Append(@, current)]
  <2>1. /\ DOMAIN validator' = Validators /\ validator' = [v \in Validators |-> validator'[v]]
    BY <1>6 DEF DrillInv, DrillTypeOK
  <2>2. ASSUME NEW v \in Validators PROVE Alike(validator[v], validator'[v])
    <3>1. CASE v = drill.leader
      <4> DEFINE q == Append(validator[v].inbox, current)
      <4>1. validator[v] \in NodeType /\ validator[v].inbox \in Seq(Commands)
        BY <2>2, ItselfIsAlike DEF NodeType
      <4>2. current \in Commands /\ current \notin Modes /\ current \notin Injected
        BY <1>3 DEF Rounds, Commands, Modes, Injected
      <4>3. /\ q \in Seq(Commands)
            /\ Harmless(validator[v]) => \A i \in DOMAIN q : q[i] \notin Injected
            /\ Steady(validator[v]) => \A i \in DOMAIN q : q[i] \notin Modes
        BY <4>1, <4>2, AppendKeeps DEF Harmless, Steady
      <4>4. validator'[v] = [validator[v] EXCEPT !.inbox = q]
        <5>1. v \in DOMAIN validator
          BY <2>2 DEF DrillInv, DrillTypeOK
        <5> QED
          BY <1>6, <3>1, <5>1
      <4> HIDE DEF q
      <4>5. /\ validator'[v] \in NodeType /\ validator'[v].inbox = q
            /\ validator'[v].state = validator[v].state /\ validator'[v].fault = validator[v].fault
        BY <4>1, <4>3, <4>4 DEF NodeType
      <4> QED
        BY <1>6, <3>1, <4>3, <4>5 DEF Alike, Harmless, Steady
    <3>2. CASE v # drill.leader
      <4>1. validator'[v] = validator[v]
        BY <1>6, <2>2, <3>2 DEF DrillInv, DrillTypeOK
      <4> QED
        BY <2>2, <4>1, ItselfIsAlike
    <3> QED
      BY <3>1, <3>2
  <2> QED
    BY <1>2, <2>1, <2>2, AlikeKeeps
<1> QED
  BY <1>4, <1>5, <1>6 DEF Propose

LEMMA JudgeKeeps == DrillInv /\ Judge => DrillInv'
<1> SUFFICES ASSUME DrillInv, Judge PROVE DrillInv'
  OBVIOUS
<1>1. /\ DOMAIN drill' = {"pc", "phase", "leader", "victims", "red", "left"}
      /\ drill'.phase = drill.phase /\ drill'.victims = drill.victims
      /\ drill'.left = drill.left
      /\ drill'.pc = "clear" /\ drill.pc = "wait" /\ unconfirmed' = unconfirmed
  BY DEF DrillInv, DrillTypeOK, Judge
<1>2. Onward
  BY <1>1 DEF DrillInv, DrillTypeOK, Onward, Told, Holding, Opening
<1> QED
  BY <1>2, RestKeeps DEF Judge

LEMMA ClearKeeps == DrillInv /\ clearFaults => DrillInv'
<1> SUFFICES ASSUME DrillInv, clearFaults PROVE DrillInv'
  OBVIOUS
<1>1. /\ DOMAIN drill' = {"pc", "phase", "leader", "victims", "red", "left"}
      /\ drill'.phase \in 1..5 /\ drill'.pc \in {"tidy", "drop", "realign", "forge"}
      /\ drill'.left = {} /\ (drill'.pc = "realign" => current' \in Rounds)
  <2>1. CASE drill' = [drill EXCEPT !.pc = "tidy", !.left = {}]
    BY <2>1 DEF DrillInv, DrillTypeOK
  <2>2. CASE EndsLeaving(FALSE, {})
    BY <2>2, EndsDoes
  <2> QED
    BY <2>1, <2>2 DEF clearFaults
<1>2. Told = unconfirmed \cup drill.victims \cup drill.left /\ Told' = unconfirmed'
  BY <1>1 DEF clearFaults, Told, Holding
<1>3. unconfirmed' = {v \in Told : ~Up(v)}
  BY <1>2 DEF clearFaults
<1>4. validator' = [v \in Validators |-> sent(validator[v], "none")]
  BY DEF clearFaults, Tell
<1>c. "none" \in Commands \ Rounds /\ "none" \in Modes /\ "none" \notin Injected
  BY DEF Commands, Rounds, Modes, Injected
<1>5. ASSUME NEW v \in Validators
      PROVE  /\ validator'[v] \in NodeType
             /\ Up(v)' => validator'[v].inbox = <<>>
             /\ Running(v)' => Running(v)
             /\ Running(v)' /\ v \notin Told' => validator'[v].fault = "none" /\ Harmless(validator'[v])
  <2>1. validator[v] \in NodeType /\ NodeInv(v)
    BY <1>5 DEF DrillInv, DrillTypeOK
  <2>2. CASE validator[v].state = "up"
    <3>1. validator'[v] = handle(validator[v], "none")
      BY <1>4, <1>5, <2>2 DEF sent
    <3>2. /\ validator'[v] \in NodeType /\ validator'[v].fault = "none"
          /\ validator'[v].state = "up" /\ validator'[v].inbox = <<>>
      BY <1>c, <2>1, <2>2, <3>1, HandleDoes DEF NodeInv, Up
    <3> QED
      BY <2>2, <3>2 DEF Harmless, Running
  <2>3. CASE validator[v].state = "stalled"
    <3> DEFINE q == Append(validator[v].inbox, "none")
    <3>1. validator'[v] = [validator[v] EXCEPT !.inbox = q]
      BY <1>4, <1>5, <2>3 DEF sent
    <3>2. validator[v].inbox \in Seq(Commands)
      BY <2>1 DEF NodeType
    <3>3. /\ q \in Seq(Commands)
          /\ Harmless(validator[v]) => \A i \in DOMAIN q : q[i] \notin Injected
      BY <1>c, <3>2, AppendKeeps DEF Harmless
    <3> HIDE DEF q
    <3>4. /\ validator'[v] \in NodeType /\ validator'[v].inbox = q
          /\ validator'[v].state = "stalled" /\ validator'[v].fault = validator[v].fault
      BY <2>1, <2>3, <3>1, <3>3 DEF NodeType
    <3>5. v \notin Told' => v \notin Told
      BY <1>2, <1>3, <1>5, <2>3 DEF Up
    <3> QED
      BY <2>1, <2>3, <3>3, <3>4, <3>5 DEF NodeInv, Harmless, Up, Running
  <2>4. CASE validator[v].state = "exited"
    BY <1>4, <1>5, <2>1, <2>4 DEF sent, Up, Running
  <2> QED
    BY <2>1, <2>2, <2>3, <2>4 DEF NodeType
<1>6. DrillTypeOK'
  BY <1>1, <1>4, <1>5 DEF DrillTypeOK, Opening
<1>7. \A v \in Validators : NodeInv(v)'
  BY <1>1, <1>5 DEF NodeInv, Holding, Harmless
<1> QED
  BY <1>6, <1>7 DEF DrillInv

-----------------------------------------------------------------------------
(* The last hook and the validators.                                       *)

LEMMA TidyKeeps == DrillInv /\ (realignAfter \/ Forge \/ dropDb \/ stop) => DrillInv'
<1> SUFFICES ASSUME DrillInv, realignAfter \/ Forge \/ dropDb \/ stop PROVE DrillInv'
  OBVIOUS
<1>1. CASE realignAfter
  <2>1. drill.pc \notin Holding \cup {"clear"} /\ unconfirmed' = unconfirmed /\ Ends(FALSE)
    BY <1>1 DEF realignAfter, Holding
  <2> QED
    BY <1>1, <2>1, EndsOnward, SendKeeps DEF realignAfter
<1>2. CASE Forge
  <2>1. drill.pc \notin Holding \cup {"clear"} /\ unconfirmed' = unconfirmed
    BY <1>2 DEF Forge, Holding
  <2>2. CASE Tell(Validators, "clearPending") /\ Ends(FALSE)
    BY <2>1, <2>2, EndsOnward, SendKeeps
  <2>3. CASE Ends(TRUE) /\ UNCHANGED validator
    BY <2>1, <2>3, EndsOnward, RestKeeps
  <2> QED
    BY <1>2, <2>2, <2>3 DEF Forge
<1>3. CASE dropDb
  <2>1. PICK S : Tell(S, "dropDb")
    BY <1>3 DEF dropDb
  <2>2. Onward
    BY <1>3 DEF dropDb, DrillInv, DrillTypeOK, Onward, Told, Holding, Opening
  <2> QED
    BY <2>1, <2>2, SendKeeps
<1>4. CASE stop
  <2>1. PICK killed : validator' = [v \in Validators |->
              IF v \in killed THEN gone(validator[v]) ELSE sent(validator[v], "stop")]
    BY <1>4 DEF stop
  <2>2. Onward
    BY <1>4 DEF stop, Goes, DrillInv, DrillTypeOK, Onward, Told, Holding, Opening
  <2>3. \A v \in Validators : Alike(validator[v], validator'[v])
    BY <2>1, ItselfIsAlike, GoneIsAlike, SentIsAlike
  <2> QED
    BY <2>1, <2>2, <2>3, AlikeKeeps
<1> QED
  BY <1>1, <1>2, <1>3, <1>4

\* The next command off the stdin, the fault it may set included.
LEMMA ReadIsAlike ==
    ASSUME NEW r \in NodeType, r.state = "stalled", r.inbox # <<>>
    PROVE  LET rest == [r EXCEPT !.inbox = Tail(@)]
               cmd == Head(r.inbox)
           IN  /\ cmd \in Commands /\ Alike(r, rest) /\ rest \in NodeType /\ rest.state = r.state
               /\ cmd \notin Rounds => Alike(r, handle(rest, cmd))
<1> DEFINE rest == [r EXCEPT !.inbox = Tail(@)]
           cmd == Head(r.inbox)
           q == Tail(r.inbox)
<1>1. r.inbox \in Seq(Commands)
  BY DEF NodeType
<1>2. cmd \in Commands /\ q \in Seq(Commands)
  BY <1>1, TailKeeps
<1>3. /\ Harmless(r) => cmd \notin Injected /\ \A i \in DOMAIN q : q[i] \notin Injected
      /\ Steady(r) => cmd \notin Modes /\ \A i \in DOMAIN q : q[i] \notin Modes
  BY <1>1, TailKeeps DEF Harmless, Steady
<1>4. rest \in NodeType /\ rest.inbox = q /\ rest.state = r.state /\ rest.fault = r.fault
  BY <1>2 DEF NodeType
<1> HIDE DEF rest, cmd, q
<1>5. Alike(r, rest)
  BY <1>3, <1>4 DEF Alike, Harmless, Steady
<1>6. ASSUME cmd \notin Rounds PROVE Alike(r, handle(rest, cmd))
  <2> DEFINE s == handle(rest, cmd)
  <2>1. /\ s \in NodeType
        /\ s.state = r.state \/ s.state = "exited"
        /\ s.inbox = q \/ s.state = "exited"
        /\ s.fault = r.fault \/ s.state = "exited" \/ cmd \in Modes
        /\ cmd \in Modes => s.fault = cmd
    BY <1>2, <1>4, <1>6, HandleDoes
  <2>2. cmd \in Modes /\ cmd \notin Injected => cmd = "none"
    BY DEF Modes, Injected
  <2> HIDE DEF s
  <2>3. Alike(r, s)
    BY <1>3, <2>1, <2>2 DEF Alike, Harmless, Steady
  <2> QED
    BY <2>3 DEF s
<1> QED
  BY <1>2, <1>4, <1>5, <1>6 DEF rest, cmd

LEMMA ReadKeeps ==
    ASSUME DrillInv, NEW v \in Validators, ReadsLate(v)
    PROVE  DrillInv'
<1> DEFINE cmd == Head(validator[v].inbox)
           rest == [validator[v] EXCEPT !.inbox = Tail(@)]
<1>1. /\ validator[v] \in NodeType /\ validator[v].state = "stalled" /\ validator[v].inbox # <<>>
      /\ UNCHANGED <<drill, unconfirmed>> /\ Running(v)
  BY ItselfIsAlike DEF ReadsLate, Running
<1>2. /\ cmd \in Commands /\ Alike(validator[v], rest) /\ rest \in NodeType
      /\ rest.state = validator[v].state
      /\ cmd \notin Rounds => Alike(validator[v], handle(rest, cmd))
  BY <1>1, ReadIsAlike
<1>3. IF cmd \in Rounds THEN Broadcast(cmd, [validator EXCEPT ![v] = rest])
      ELSE validator' = [validator EXCEPT ![v] = handle(rest, cmd)]
  BY DEF ReadsLate
<1> HIDE DEF cmd, rest
<1>4. CASE cmd \in Rounds
  <2> DEFINE nodes == [validator EXCEPT ![v] = rest]
  <2>1. /\ nodes \in [Validators -> NodeType]
        /\ \A w \in Validators : nodes[w] = IF w = v THEN rest ELSE validator[w]
    BY <1>2 DEF DrillInv, DrillTypeOK
  <2>2. \A w \in Validators : /\ Alike(validator[w], nodes[w])
                               /\ nodes[w].state = validator[w].state
    BY <1>2, <2>1, ItselfIsAlike
  <2>3. Broadcast(cmd, nodes)
    BY <1>3, <1>4
  <2>4. drill.pc # "boot"
    BY <1>1 DEF DrillInv, NodeInv, Pristine
  <2> HIDE DEF nodes
  <2> QED
    BY <1>1, <1>4, <2>1, <2>2, <2>3, <2>4, StandsOnward, BroadcastIsAlike, AlikeKeeps
<1>5. CASE cmd \notin Rounds
  BY <1>1, <1>2, <1>3, <1>5, OneKeeps
<1> QED
  BY <1>4, <1>5

LEMMA ValidatorKeeps ==
    ASSUME DrillInv, NEW v \in Validators,
           CatchesUp(v) \/ Lapses(v) \/ \E p \in Rounds : Applies(v, p)
    PROVE  DrillInv'
<1> DEFINE r == validator[v]
<1>1. r \in NodeType /\ (r.state = "up" => r.inbox = <<>>)
  BY ItselfIsAlike
<1>2. CASE CatchesUp(v)
  <2> DEFINE s == [r EXCEPT !.state = "up"]
  <2>1. r.state = "stalled" /\ r.inbox = <<>> /\ validator' = [validator EXCEPT ![v] = s]
    BY <1>2 DEF CatchesUp
  <2>2. s \in NodeType /\ s.state = "up" /\ s.inbox = r.inbox /\ s.fault = r.fault
    BY <1>1 DEF NodeType
  <2>3. Alike(r, s)
    BY <2>1, <2>2 DEF Alike, Harmless, Steady
  <2>4. Running(v) /\ UNCHANGED <<drill, unconfirmed>>
    BY <1>2 DEF CatchesUp, Running
  <2> QED
    BY <2>1, <2>3, <2>4, OneKeeps
<1>3. CASE Lapses(v)
  <2>1. Running(v) /\ UNCHANGED <<drill, unconfirmed>>
    BY <1>3 DEF Lapses
  <2>2. CASE validator' = [validator EXCEPT ![v] = gone(r)]
    BY <1>1, <2>1, <2>2, GoneIsAlike, OneKeeps
  <2>3. CASE r.state # "stalled" /\ validator' = [validator EXCEPT ![v] = [r EXCEPT !.state = "stalled"]]
    <3> DEFINE s == [r EXCEPT !.state = "stalled"]
    <3>1. s \in NodeType /\ s.state = "stalled" /\ s.inbox = r.inbox /\ s.fault = r.fault
      BY <1>1 DEF NodeType
    <3>2. Alike(r, s)
      BY <2>1, <3>1 DEF Alike, Harmless, Steady, Running
    <3> QED
      BY <2>1, <2>3, <3>2, OneKeeps
  <2> QED
    BY <1>3, <2>2, <2>3 DEF Lapses
<1>4. ASSUME NEW p \in Rounds, Applies(v, p) PROVE DrillInv'
  <2> DEFINE s == [r EXCEPT !.applied = p, !.pending = r.pending \ {p}]
  <2>1. /\ Running(v) /\ UNCHANGED <<drill, unconfirmed>>
        /\ validator' = [validator EXCEPT ![v] = s]
    BY <1>4 DEF Applies, phaseValue, DrillInv, DrillTypeOK
  <2>2. r.pending \ {p} \in SUBSET Rounds
    BY <1>1 DEF NodeType
  <2>3. Alike(r, s)
    BY <1>1, <1>4, <2>2, PendingIsAlike
  <2> QED
    BY <2>1, <2>3, OneKeeps
<1> QED
  BY <1>2, <1>3, <1>4

LEMMA DrillStepKeeps == DrillInv /\ DrillNext => DrillInv'
  BY StartKeeps, CheckKeeps, RealignKeeps, LeaderKeeps, FaultsKeep, ProposeKeeps, JudgeKeeps,
     ClearKeeps, TidyKeeps, ReadKeeps, ValidatorKeeps DEF DrillNext

LEMMA DrillInvIsEnough == DrillInv => FaultsAreThePhases
<1> SUFFICES ASSUME DrillInv, drill.pc \in Holding, NEW v \in Validators, Running(v)
             PROVE  IF v \in drill.victims THEN validator[v].fault = mode(current)
                    ELSE validator[v].fault # "none" => v \in unconfirmed \cup drill.left
  BY DEF FaultsAreThePhases, Holding
<1> QED
  BY DEF DrillInv, NodeInv, Told

-----------------------------------------------------------------------------
(* The drill: whom a phase's faults leave to vote.                         *)

\* There are 3f+1 validators, and of those that are not the leader applyFaults
\* finds as many victims as it wants: were there fewer, the first of the rest
\* in its order would be one more.
LEMMA ValidatorsCounted ==
    IsFiniteSet(Validators) /\ Cardinality(Validators) = 3 * Faults + 1
<1>1. Faults \in Nat /\ Nodes \in Seq(Validators) /\ Len(Nodes) = 3 * Faults + 1
  BY DrillAssumption
<1> DEFINE n == 3 * Faults + 1
<1>2. n \in Nat /\ Nodes \in [1..n -> Validators]
  BY <1>1
<1> HIDE DEF n
<1>3. DOMAIN Nodes = 1..n
  BY <1>2
<1>4. Nodes \in Surjection(1..n, Validators)
  BY <1>2, <1>3 DEF Surjection, Validators
<1>5. \A i, j \in 1..n : Nodes[i] = Nodes[j] => i = j
  BY <1>3, DrillAssumption
<1>6. Nodes \in Injection(1..n, Validators)
  BY <1>2, <1>5 DEF Injection, IsInjective
<1>7. IsFiniteSet(1..n) /\ Cardinality(1..n) = n
  BY <1>2, FS_Interval
<1>8. IsFiniteSet(Validators) /\ Cardinality(Validators) = Cardinality(1..n)
  BY <1>4, <1>6, <1>7, FS_Surjection
<1> QED
  BY <1>7, <1>8 DEF n

LEMMA TurnIsNat == ASSUME NEW v \in Validators PROVE turn(v) \in Nat
<1>1. Len(Nodes) \in Nat /\ DOMAIN Nodes = 1..Len(Nodes)
  BY DrillAssumption
<1>2. \E i \in DOMAIN Nodes : Nodes[i] = v
  BY DEF Validators
<1> DEFINE i == CHOOSE i \in DOMAIN Nodes : Nodes[i] = v
<1>3. i \in DOMAIN Nodes
  BY <1>2
<1>4. i \in Nat
  BY <1>1, <1>3
<1> HIDE DEF i
<1>5. i + (IF v \in Byzantine THEN 0 ELSE Len(Nodes)) \in Nat
  BY <1>1, <1>4
<1> QED
  BY <1>5 DEF turn, i

\* The first in applyFaults' order of any set of validators.
LEMMA FirstInTurn ==
    ASSUME NEW S \in SUBSET Validators, S # {}
    PROVE  \E v \in S : \A w \in S : ~(turn(w) < turn(v))
<1> DEFINE T == {turn(v) : v \in S}
           R == OpToRel(<, Nat)
<1>1. T \subseteq Nat /\ T # {}
  BY TurnIsNat
<1>2. IsWellFoundedOn(R, Nat)
  BY NatLessThanWellFounded
<1> HIDE DEF R
<1>3. PICK x \in T : \A y \in T : ~(<<y, x>> \in R)
  BY <1>1, <1>2, WFMin
<1>4. \A y \in T : ~(y < x)
  BY <1>1, <1>3 DEF R, OpToRel
<1> QED
  BY <1>4

\* The victims applyFaults wants for a phase.
Wanted(p) == IF p \in Boundary THEN Faults + 1 ELSE Faults

LEMMA VictimsAreEnough ==
    ASSUME NEW leader, NEW p
    PROVE  LET victims == victimsOf(leader, p)
           IN  victims \subseteq Validators /\ Cardinality(victims) >= Wanted(p)
<1> DEFINE others == Validators \ {leader}
           before(v) == {w \in others : turn(w) < turn(v)}
           n == Wanted(p)
           victims == {v \in others : Cardinality(before(v)) < n}
<1>1. victimsOf(leader, p) = victims
  BY DEF victimsOf, Wanted
<1>2. n \in Nat /\ Faults \in Nat /\ n <= 3 * Faults
  BY DrillAssumption DEF Wanted
<1>3. IsFiniteSet(others) /\ Cardinality(others) >= 3 * Faults /\ Cardinality(others) \in Nat
  <2>1. /\ IsFiniteSet(others)
        /\ Cardinality(others) = IF leader \in Validators THEN Cardinality(Validators) - 1
                                ELSE Cardinality(Validators)
    BY ValidatorsCounted, FS_RemoveElement
  <2> HIDE DEF others
  <2> QED
    BY <1>2, <2>1, ValidatorsCounted, FS_CardinalityType
<1>4. victims \in SUBSET others /\ others \subseteq Validators
  OBVIOUS
<1>5. IsFiniteSet(victims) /\ Cardinality(victims) \in Nat
  BY <1>3, <1>4, FS_Subset, FS_CardinalityType
<1>6. ASSUME Cardinality(victims) < n PROVE FALSE
  <2>1. others \ victims # {}
    <3> SUFFICES ASSUME others = victims PROVE FALSE
      BY <1>4
    <3>1. Cardinality(others) = Cardinality(victims)
      OBVIOUS
    <3> HIDE DEF others, victims, n
    <3> QED
      BY <1>2, <1>3, <1>5, <1>6, <3>1
  <2>2. PICK v \in others \ victims : \A w \in others \ victims : ~(turn(w) < turn(v))
    BY <1>4, <2>1, FirstInTurn
  <2>3. before(v) \in SUBSET victims
    BY <2>2
  <2>4. Cardinality(before(v)) \in Nat /\ Cardinality(before(v)) <= Cardinality(victims)
    BY <1>5, <2>3, FS_Subset, FS_CardinalityType
  <2>5. Cardinality(before(v)) < n
    BY <1>2, <1>5, <1>6, <2>4
  <2> QED
    BY <2>2, <2>5
<1> QED
  BY <1>1, <1>2, <1>4, <1>5, <1>6

\* While a phase has its victims under its fault, they are not among the honest.
LEMMA VictimsDoNotVote ==
    ASSUME DrillInv, drill.pc = "propose", drill.victims \subseteq Validators
    PROVE  honest \in Nat /\ honest + Cardinality(drill.victims) <= 3 * Faults + 1
<1> DEFINE voters == {v \in Validators : Running(v) /\ validator[v].fault = "none"}
           others == Validators \ drill.victims
<1>1. voters \in SUBSET others
  <2> SUFFICES ASSUME NEW v \in drill.victims, Running(v), validator[v].fault = "none"
               PROVE  FALSE
    OBVIOUS
  <2>1. validator[v].fault = mode(current)
    BY DEF DrillInv, NodeInv, Holding
  <2> QED
    BY <2>1 DEF mode
<1>2. IsFiniteSet(Validators) /\ Cardinality(Validators) = 3 * Faults + 1 /\ Faults \in Nat
  BY ValidatorsCounted, DrillAssumption
<1>3. /\ IsFiniteSet(drill.victims) /\ IsFiniteSet(others)
      /\ Cardinality(drill.victims) \in Nat /\ Cardinality(others) \in Nat
  BY <1>2, FS_Subset, FS_CardinalityType
<1>4. drill.victims \cap others = {} /\ drill.victims \cup others = Validators
  OBVIOUS
<1>5. Cardinality(Validators) = Cardinality(drill.victims) + Cardinality(others)
  <2>1. Cardinality(drill.victims \cup others)
          = Cardinality(drill.victims) + Cardinality(others) - Cardinality(drill.victims \cap others)
    BY <1>3, FS_Union
  <2>2. Cardinality(drill.victims \cap others) = 0
    BY <1>4, FS_EmptySet
  <2>3. Cardinality(drill.victims \cup others) = Cardinality(Validators)
    BY <1>4
  <2> HIDE DEF others
  <2> QED
    BY <1>3, <2>1, <2>2, <2>3
<1>6. Cardinality(voters) \in Nat /\ Cardinality(voters) <= Cardinality(others)
  BY <1>1, <1>3, FS_Subset, FS_CardinalityType
<1>7. honest = Cardinality(voters)
  BY DEF honest
<1> QED
  BY <1>2, <1>3, <1>5, <1>6, <1>7

-----------------------------------------------------------------------------
(* The drill: what a green phase rests on.                                 *)

\* The phases whose proposal may have been made by now.
Late == drill.pc \notin {"boot", "check", "realign", "leader", "faults", "propose", "forge"}
Proposed == {PhaseOrder[i] : i \in {j \in 1..5 : j < drill.phase \/ (j = drill.phase /\ Late)}}

\* No proposal waits in its stdin.
Quiet(r) == \A i \in DOMAIN r.inbox : r.inbox[i] \notin Rounds

\* Nothing comes of a proposal before it is made, and no schema is left at the end.
NothingEarly ==
    /\ round \in [of : Proposed \cup {"none"}, votes : Nat]
    /\ \A v \in Validators :
          /\ Quiet(validator[v]) /\ validator[v].applied \in Proposed \cup {"none"}
          /\ drill.pc \in {"stop", "over"} => ~validator[v].schema

VictimsInv ==
    drill.pc \in Holding =>
        /\ current \in Rounds /\ drill.victims \subseteq Validators
        /\ Cardinality(drill.victims) >= Wanted(current)

\* The victims' votes are not among those of the phase's round, and whoever has
\* the value had it from a round with a quorum.
VotesInv ==
    drill.pc = "wait" =>
        /\ round.of = current => round.votes + Cardinality(drill.victims) <= 3 * Faults + 1
        /\ \A v \in Validators :
              validator[v].applied = current => round.of = current /\ round.votes >= quorumFor

EarnInv == ~drill.red => NothingEarly /\ VictimsInv /\ VotesInv

LEMMA PhasesDiffer ==
    ASSUME NEW i \in 1..5, NEW j \in 1..5
    PROVE  /\ PhaseOrder[i] = PhaseOrder[j] => i = j
           /\ PhaseOrder[i] # "none"
<1>1. i \in {1, 2, 3, 4, 5} /\ j \in {1, 2, 3, 4, 5}
  OBVIOUS
<1> QED
  BY <1>1 DEF PhaseOrder

LEMMA CurrentIsNew ==
    ASSUME drill.phase \in 1..5, ~Late
    PROVE  current \notin Proposed \cup {"none"}
<1>1. ASSUME NEW i \in 1..5, i < drill.phase \/ (i = drill.phase /\ Late),
             PhaseOrder[i] = PhaseOrder[drill.phase]
      PROVE  FALSE
  BY <1>1, PhasesDiffer
<1> QED
  BY <1>1, PhasesDiffer DEF Proposed, current

\* The test file goes on to a later phase, or further in this one.
Further ==
    /\ drill'.phase \in 1..5
    /\ drill.phase < drill'.phase \/ (drill'.phase = drill.phase /\ (Late => Late'))

LEMMA FurtherProposes == ASSUME drill.phase \in 1..5, Further PROVE Proposed \subseteq Proposed'
<1> SUFFICES ASSUME NEW i \in 1..5, i < drill.phase \/ (i = drill.phase /\ Late)
             PROVE  i < drill'.phase \/ (i = drill'.phase /\ Late')
  BY DEF Proposed
<1> QED
  BY DEF Further

LEMMA EndsFurther ==
    ASSUME DrillInv, NEW x, NEW l, EndsLeaving(x, l)
    PROVE  Further /\ (~drill'.red => ~drill.red) /\ drill'.pc \in {"drop", "realign", "forge"}
<1>1. /\ drill.phase \in 1..5 /\ DOMAIN drill = {"pc", "phase", "leader", "victims", "red", "left"}
      /\ Len(PhaseOrder) = 5
  BY DEF DrillInv, DrillTypeOK, PhaseOrder
<1>2. Further /\ (~drill'.red => ~drill.red) /\ drill'.pc \in {"drop", "realign", "forge"}
  <2>1. /\ drill'.pc = IF drill.phase = 5 THEN "drop" ELSE begin(drill.phase + 1)
        /\ drill'.phase = IF drill.phase = 5 THEN drill.phase ELSE drill.phase + 1
        /\ drill'.red = (drill.red \/ x)
    BY <1>1 DEF EndsLeaving
  <2>2. ~drill'.red => ~drill.red
    BY <2>1
  <2>3. drill'.phase \in 1..5 /\ drill'.pc \in {"drop", "realign", "forge"}
    BY <1>1, <2>1 DEF begin
  <2>4. drill.phase < drill'.phase \/ (drill'.phase = drill.phase /\ Late')
    BY <1>1, <2>1 DEF Late
  <2> QED
    BY <2>2, <2>3, <2>4 DEF Further
<1> QED
  BY <1>2

\* A record that a validator may become without a proposal coming of it.
Plain(r, s) ==
    (Quiet(r) => Quiet(s)) /\ s.applied = r.applied /\ (s.schema => r.schema)

LEMMA HandleIsPlain ==
    ASSUME NEW r \in NodeType, NEW cmd \in Commands \ Rounds
    PROVE  Plain(r, handle(r, cmd)) /\ (cmd = "dropDb" => ~handle(r, cmd).schema)
<1> DEFINE s == handle(r, cmd)
<1>1. s.applied = r.applied /\ (s.schema => r.schema) /\ (cmd = "dropDb" => ~s.schema)
  <2>1. CASE cmd \in Modes
    <3>1. s = [r EXCEPT !.fault = cmd] /\ cmd # "dropDb"
      BY <2>1 DEF handle, Modes
    <3> QED
      BY <3>1 DEF NodeType
  <2>2. CASE cmd \in {"clearPending", "dropDb", "stop"}
    BY <2>2 DEF handle, gone, Modes, NodeType
  <2> QED
    BY <2>1, <2>2 DEF Commands
<1>2. s.inbox = r.inbox \/ s.inbox = <<>>
  <2>1. CASE cmd \in Modes
    BY <2>1, HandleDoes
  <2>2. CASE cmd \in {"clearPending", "dropDb", "stop"}
    BY <2>2 DEF handle, gone, Modes, NodeType
  <2> QED
    BY <2>1, <2>2 DEF Commands
<1> HIDE DEF s
<1>3. Quiet(r) => Quiet(s)
  BY <1>2 DEF Quiet
<1> QED
  BY <1>1, <1>3 DEF Plain, s

LEMMA SentIsPlain ==
    ASSUME NEW r \in NodeType, NEW cmd \in Commands \ Rounds
    PROVE  /\ Plain(r, sent(r, cmd))
           /\ r.state = "up" /\ cmd = "dropDb" => ~sent(r, cmd).schema
<1>1. CASE r.state = "up"
  BY <1>1, HandleIsPlain DEF sent
<1>2. CASE r.state = "stalled"
  <2> DEFINE q == Append(r.inbox, cmd)
  <2>1. sent(r, cmd) = [r EXCEPT !.inbox = q]
    BY <1>2 DEF sent
  <2>2. Quiet(r) => \A i \in DOMAIN q : q[i] \notin Rounds
    BY AppendKeeps DEF Quiet, NodeType
  <2>3. /\ sent(r, cmd).inbox = q
        /\ sent(r, cmd).applied = r.applied /\ sent(r, cmd).schema = r.schema
    BY <2>1 DEF NodeType
  <2> HIDE DEF q
  <2> QED
    BY <1>2, <2>2, <2>3 DEF Plain, Quiet
<1>3. CASE r.state = "exited"
  BY <1>3 DEF sent, Plain
<1> QED
  BY <1>1, <1>2, <1>3 DEF NodeType

LEMMA GoneIsPlain == ASSUME NEW r \in NodeType PROVE Plain(r, gone(r))
  BY DEF gone, NodeType, Plain, Quiet

LEMMA TellIsPlain ==
    ASSUME DrillInv, NEW S, NEW cmd \in Commands \ Rounds, Tell(S, cmd)
    PROVE  \A v \in Validators : Plain(validator[v], validator'[v])
<1>1. ASSUME NEW v \in Validators PROVE Plain(validator[v], validator'[v])
  <2>1. validator'[v] = IF v \in S THEN sent(validator[v], cmd) ELSE validator[v]
    BY <1>1 DEF Tell
  <2>2. validator[v] \in NodeType
    BY <1>1, ItselfIsAlike
  <2> QED
    BY <2>1, <2>2, SentIsPlain DEF Plain
<1> QED
  BY <1>1

\* A step that makes no proposal.
LEMMA NothingEarlyStays ==
    ASSUME DrillInv, NothingEarly, Further, UNCHANGED round,
           \A v \in Validators : Plain(validator[v], validator'[v]),
           drill'.pc \in {"stop", "over"} => \A v \in Validators : ~validator'[v].schema
    PROVE  NothingEarly'
<1>1. Proposed \subseteq Proposed'
  BY FurtherProposes DEF DrillInv, DrillTypeOK
<1> QED
  BY <1>1 DEF NothingEarly, Plain, Quiet

\* The steps of the test file that neither start a proposal nor end in a phase's wait.
LEMMA FileStepEarns ==
    ASSUME DrillInv, EarnInv, ~drill'.red => ~drill.red, Further, UNCHANGED round,
           \A v \in Validators : Plain(validator[v], validator'[v]),
           ~drill'.red /\ drill'.pc \in {"stop", "over"} =>
               \A v \in Validators : ~validator'[v].schema,
           drill'.pc \notin Holding
    PROVE  EarnInv'
<1>1. ~drill'.red => NothingEarly'
  BY NothingEarlyStays DEF EarnInv
<1> QED
  BY <1>1 DEF EarnInv, VictimsInv, VotesInv, Holding

LEMMA StaysPlain == \A v \in Validators : Plain(validator[v], validator[v])
  BY DEF Plain

LEMMA StartEarns == ASSUME DrillInv, EarnInv, StartMesh PROVE EarnInv'
<1>1. /\ drill.pc = "boot" /\ drill.phase \in 1..5 /\ UNCHANGED round
      /\ DOMAIN drill = {"pc", "phase", "leader", "victims", "red", "left"}
  BY DEF DrillInv, DrillTypeOK, StartMesh
<1>2. CASE /\ validator' = [v \in Validators |->
                [validator[v] EXCEPT !.state = "up", !.schema = TRUE]]
           /\ Goes("check")
  <2>1. Further /\ (~drill'.red => ~drill.red) /\ drill'.pc = "check"
    BY <1>1, <1>2 DEF Goes, Further, Late
  <2>2. ASSUME NEW v \in Validators
        PROVE  Quiet(validator'[v]) /\ validator'[v].applied = validator[v].applied
    <3>1. validator[v] \in NodeType /\ validator[v].inbox = <<>>
      BY <1>1, <2>2 DEF DrillInv, DrillTypeOK, NodeInv, Pristine
    <3>2. validator'[v].inbox = <<>> /\ validator'[v].applied = validator[v].applied
      BY <1>2, <2>2, <3>1 DEF NodeType
    <3> QED
      BY <3>2 DEF Quiet
  <2>3. Proposed \subseteq Proposed'
    BY <1>1, <2>1, FurtherProposes
  <2> QED
    BY <1>1, <2>1, <2>2, <2>3 DEF EarnInv, NothingEarly, VictimsInv, VotesInv, Holding
<1>3. CASE drill' = [drill EXCEPT !.pc = "over", !.red = TRUE]
  BY <1>1, <1>3 DEF EarnInv
<1> QED
  BY <1>2, <1>3 DEF StartMesh

LEMMA FileStepsEarn ==
    ASSUME DrillInv, EarnInv, CheckMesh \/ realign \/ findLeader \/ Judge \/ clearFaults
                              \/ realignAfter \/ Forge
    PROVE  EarnInv'
<1>1. /\ drill.phase \in 1..5 /\ UNCHANGED round
      /\ DOMAIN drill = {"pc", "phase", "leader", "victims", "red", "left"}
  BY DEF DrillInv, DrillTypeOK, CheckMesh, realign, findLeader, Judge, clearFaults, realignAfter,
         Forge
<1>2. \A v \in Validators : Plain(validator[v], validator'[v])
  <2>1. "clearPending" \in Commands \ Rounds /\ "none" \in Commands \ Rounds
    BY DEF Commands, Rounds, Modes
  <2> QED
    BY <2>1, TellIsPlain, StaysPlain
       DEF CheckMesh, realign, findLeader, Judge, clearFaults, realignAfter, Forge
<1>3. /\ Further /\ (~drill'.red => ~drill.red)
      /\ drill'.pc \notin Holding \cup {"stop", "over"}
  <2>1. CASE Ends(TRUE) \/ Ends(FALSE) \/ EndsLeaving(FALSE, {})
    BY <2>1, EndsFurther DEF Holding, Ends
  <2>2. CASE CheckMesh
    BY <1>1, <2>2 DEF CheckMesh, Further, Late, Holding
  <2>3. CASE realign
    BY <1>1, <2>3 DEF realign, Goes, Further, Late, Holding
  <2>4. CASE findLeader /\ ~Ends(TRUE)
    BY <1>1, <2>4 DEF findLeader, Further, Late, Holding
  <2>5. CASE Judge
    BY <1>1, <2>5 DEF Judge, Further, Late, Holding
  <2>6. CASE clearFaults /\ ~EndsLeaving(FALSE, {})
    BY <1>1, <2>6 DEF clearFaults, Further, Late, Holding
  <2> QED
    BY <2>1, <2>2, <2>3, <2>4, <2>5, <2>6 DEF realignAfter, Forge
<1> QED
  BY <1>1, <1>2, <1>3, FileStepEarns

LEMMA FaultsEarn == ASSUME DrillInv, EarnInv, applyFaults PROVE EarnInv'
<1> DEFINE victims == victimsOf(drill.leader, current)
<1>1. /\ drill.phase \in 1..5 /\ UNCHANGED round /\ drill.pc = "faults" /\ current \in Rounds
      /\ DOMAIN drill = {"pc", "phase", "leader", "victims", "red", "left"}
      /\ mode(current) \in Commands \ Rounds
  BY DEF DrillInv, DrillTypeOK, applyFaults, mode, Commands, Modes, Rounds, Opening
<1>2. \A v \in Validators : Plain(validator[v], validator'[v])
  BY <1>1, TellIsPlain DEF applyFaults
<1>3. victims \subseteq Validators /\ Cardinality(victims) >= Wanted(current)
  BY VictimsAreEnough
<1>4. \/ \E l : EndsLeaving(TRUE, l)
      \/ drill' = [drill EXCEPT !.pc = "propose", !.victims = victims, !.left = @ \ victims]
  BY DEF applyFaults
<1> HIDE DEF victims
<1>5. CASE \E l : EndsLeaving(TRUE, l)
  BY <1>1, <1>2, <1>5, EndsFurther, FileStepEarns DEF Holding
<1>6. CASE drill' = [drill EXCEPT !.pc = "propose", !.victims = victims, !.left = @ \ victims]
  <2>1. /\ Further /\ (~drill'.red => ~drill.red) /\ drill'.pc = "propose"
        /\ current' = current /\ drill'.victims = victims
    BY <1>1, <1>6 DEF Further, Late, current
  <2>2. ~drill'.red => NothingEarly'
    BY <1>1, <1>2, <2>1, NothingEarlyStays DEF EarnInv
  <2> QED
    BY <1>1, <1>3, <2>1, <2>2 DEF EarnInv, VictimsInv, VotesInv
<1> QED
  BY <1>4, <1>5, <1>6

\* The proposal is the first thing that the phase's value comes of.
LEMMA ProposeEarns == ASSUME DrillInv, EarnInv, Propose PROVE EarnInv'
<1>1. /\ drill.phase \in 1..5 /\ drill.pc = "propose" /\ current \in Rounds
      /\ DOMAIN drill = {"pc", "phase", "leader", "victims", "red", "left"}
      /\ validator \in [Validators -> NodeType]
  BY DEF DrillInv, DrillTypeOK, Propose, Opening
<1>2. CASE ~Up(drill.leader)
  <2>1. drill'.red = TRUE
    BY <1>1, <1>2 DEF Propose
  <2> QED
    BY <2>1 DEF EarnInv
<1>3. CASE Up(drill.leader)
  <2>1. /\ Further /\ drill'.red = drill.red /\ drill'.pc = "wait" /\ Late'
        /\ drill'.phase = drill.phase /\ drill'.victims = drill.victims /\ current' = current
    BY <1>1, <1>3 DEF Propose, Goes, Further, Late, current
  <2>2. Proposed \subseteq Proposed' /\ current \in Proposed'
    BY <1>1, <2>1, FurtherProposes DEF Proposed, current
  <2>3. current \notin Proposed \cup {"none"}
    BY <1>1, CurrentIsNew DEF Late
  <2> SUFFICES ASSUME ~drill'.red PROVE NothingEarly' /\ VictimsInv' /\ VotesInv'
    BY DEF EarnInv
  <2>4. NothingEarly /\ VictimsInv
    BY <2>1 DEF EarnInv
  <2>5. VictimsInv'
    BY <1>1, <2>1, <2>4 DEF VictimsInv, Holding
  <2>6. CASE UNCHANGED <<validator, round>>
    BY <1>1, <2>1, <2>2, <2>3, <2>4, <2>5, <2>6 DEF NothingEarly, VotesInv
  <2>7. CASE Broadcast(current, validator)
    <3>1. round' = [of |-> current, votes |-> honest]
      BY <2>7 DEF Broadcast
    <3>2. honest \in Nat /\ honest + Cardinality(drill.victims) <= 3 * Faults + 1
      BY <1>1, <2>4, VictimsDoNotVote DEF VictimsInv, Holding
    <3>3. ASSUME NEW v \in Validators
          PROVE  validator'[v].inbox = validator[v].inbox
                 /\ validator'[v].applied = validator[v].applied
      BY <1>1, <2>7, <3>3 DEF Broadcast, NodeType
    <3>4. NothingEarly'
      BY <2>1, <2>2, <2>4, <3>1, <3>2, <3>3 DEF NothingEarly, Quiet
    <3>5. VotesInv'
      BY <2>1, <2>3, <2>4, <3>1, <3>2, <3>3 DEF NothingEarly, VotesInv
    <3> QED
      BY <2>5, <3>4, <3>5
  <2> QED
    BY <1>3, <2>6, <2>7 DEF Propose
<1> QED
  BY <1>2, <1>3

\* Of those that are up and do not refuse, none keeps its schema.
LEMMA DropEarns == ASSUME DrillInv, EarnInv, dropDb PROVE EarnInv'
<1>1. /\ drill.phase \in 1..5 /\ UNCHANGED round
      /\ DOMAIN drill = {"pc", "phase", "leader", "victims", "red", "left"}
      /\ "dropDb" \in Commands \ Rounds
  BY DEF DrillInv, DrillTypeOK, dropDb, Commands, Rounds
<1>2. PICK refused \in SUBSET {v \in Validators : Up(v)} :
         /\ Tell(Validators \ refused, "dropDb")
         /\ drill' = [drill EXCEPT !.pc = "stop",
                        !.red = @ \/ refused # {} \/ \E v \in Validators : ~Up(v)]
  BY DEF dropDb
<1>3. /\ drill'.pc = "stop" /\ drill'.phase = drill.phase
      /\ drill'.red = (drill.red \/ refused # {} \/ \E v \in Validators : ~Up(v))
  BY <1>1, <1>2
<1>4. Further /\ (~drill'.red => ~drill.red)
  BY <1>1, <1>3 DEF Further, Late
<1>5. \A v \in Validators : Plain(validator[v], validator'[v])
  BY <1>1, <1>2, TellIsPlain
<1>6. ASSUME ~drill'.red, NEW v \in Validators PROVE ~validator'[v].schema
  <2>1. Up(v) /\ refused = {}
    BY <1>3, <1>6
  <2>2. validator'[v] = sent(validator[v], "dropDb") /\ validator[v] \in NodeType
    BY <1>2, <1>6, <2>1, ItselfIsAlike DEF Tell
  <2> QED
    BY <1>1, <2>1, <2>2, SentIsPlain DEF Up
<1> QED
  BY <1>1, <1>3, <1>4, <1>5, <1>6, FileStepEarns DEF Holding

LEMMA StopEarns == ASSUME DrillInv, EarnInv, stop PROVE EarnInv'
<1>1. /\ drill.phase \in 1..5 /\ UNCHANGED round /\ drill.pc = "stop"
      /\ DOMAIN drill = {"pc", "phase", "leader", "victims", "red", "left"}
      /\ "stop" \in Commands \ Rounds
  BY DEF DrillInv, DrillTypeOK, stop, Commands, Rounds
<1>2. Further /\ drill'.red = drill.red /\ drill'.pc = "over"
  BY <1>1 DEF stop, Goes, Further, Late
<1>3. PICK killed : validator' = [v \in Validators |->
         IF v \in killed THEN gone(validator[v]) ELSE sent(validator[v], "stop")]
  BY DEF stop
<1>4. ASSUME NEW v \in Validators PROVE Plain(validator[v], validator'[v])
  BY <1>1, <1>3, <1>4, ItselfIsAlike, GoneIsPlain, SentIsPlain
<1>5. ~drill'.red => \A v \in Validators : ~validator'[v].schema
  BY <1>1, <1>2, <1>4 DEF EarnInv, NothingEarly, Plain
<1> QED
  BY <1>1, <1>2, <1>4, <1>5, FileStepEarns DEF Holding

\* The validators' own steps: no one proposes late, and a value is applied on a quorum.
LEMMA ValidatorEarns ==
    ASSUME DrillInv, EarnInv, NEW v \in Validators,
           ReadsLate(v) \/ CatchesUp(v) \/ Lapses(v) \/ \E p \in Rounds : Applies(v, p)
    PROVE  EarnInv'
<1> SUFFICES ASSUME ~drill.red, NothingEarly, VictimsInv, VotesInv PROVE EarnInv'
  <2>1. UNCHANGED drill
    BY DEF ReadsLate, CatchesUp, Lapses, Applies
  <2> QED
    BY <2>1 DEF EarnInv
<1> DEFINE r == validator[v]
<1>1. /\ UNCHANGED drill /\ drill.phase \in 1..5 /\ r \in NodeType
      /\ validator \in [Validators -> NodeType]
  BY DEF DrillInv, DrillTypeOK, ReadsLate, CatchesUp, Lapses, Applies
<1>2. Further /\ Proposed' = Proposed /\ current' = current /\ VictimsInv'
  BY <1>1 DEF Further, Late, Proposed, current, VictimsInv
<1>3. ASSUME NEW s, Plain(r, s), validator' = [validator EXCEPT ![v] = s], UNCHANGED round
      PROVE  EarnInv'
  <2>1. \A w \in Validators : Plain(validator[w], validator'[w])
    BY <1>1, <1>3 DEF Plain
  <2>2. drill'.pc \in {"stop", "over"} => \A w \in Validators : ~validator'[w].schema
    BY <1>1, <2>1 DEF NothingEarly, Plain
  <2>3. NothingEarly'
    BY <1>2, <1>3, <2>1, <2>2, NothingEarlyStays
  <2>4. VotesInv'
    BY <1>1, <1>2, <1>3, <2>1 DEF VotesInv, Plain
  <2> QED
    BY <1>2, <2>3, <2>4 DEF EarnInv
<1>4. CASE ReadsLate(v)
  <2> DEFINE cmd == Head(r.inbox)
             rest == [r EXCEPT !.inbox = Tail(@)]
  <2>1. /\ r.state = "stalled" /\ r.inbox # <<>> /\ r.inbox \in Seq(Commands)
        /\ \A i \in DOMAIN r.inbox : r.inbox[i] \notin Rounds
    BY <1>1, <1>4 DEF ReadsLate, NodeType, NothingEarly, Quiet
  <2>2. /\ cmd \in Commands \ Rounds /\ Tail(r.inbox) \in Seq(Commands)
        /\ \A i \in DOMAIN Tail(r.inbox) : Tail(r.inbox)[i] \notin Rounds
    BY <2>1, TailKeeps
  <2>3. rest \in NodeType /\ Plain(r, rest)
    BY <1>1, <2>2 DEF NodeType, Plain, Quiet
  <2>4. validator' = [validator EXCEPT ![v] = handle(rest, cmd)] /\ UNCHANGED round
    BY <1>4, <2>2 DEF ReadsLate
  <2> HIDE DEF cmd, rest
  <2>5. Plain(r, handle(rest, cmd))
    BY <2>2, <2>3, HandleIsPlain DEF Plain
  <2> QED
    BY <1>3, <2>4, <2>5
<1>5. CASE CatchesUp(v)
  <2>1. Plain(r, [r EXCEPT !.state = "up"])
    BY <1>1 DEF NodeType, Plain, Quiet
  <2>2. validator' = [validator EXCEPT ![v] = [r EXCEPT !.state = "up"]] /\ UNCHANGED round
    BY <1>1, <1>5 DEF CatchesUp
  <2> QED
    BY <1>3, <2>1, <2>2
<1>6. CASE Lapses(v)
  <2>1. UNCHANGED round
    BY <1>6 DEF Lapses
  <2>2. Plain(r, gone(r)) /\ Plain(r, [r EXCEPT !.state = "stalled"])
    BY <1>1, GoneIsPlain DEF NodeType, Plain, Quiet
  <2>3. \/ validator' = [validator EXCEPT ![v] = gone(r)]
        \/ validator' = [validator EXCEPT ![v] = [r EXCEPT !.state = "stalled"]]
    BY <1>1, <1>6 DEF Lapses
  <2> QED
    BY <1>3, <2>1, <2>2, <2>3
<1>7. ASSUME NEW p \in Rounds, Applies(v, p) PROVE EarnInv'
  <2> DEFINE s == [r EXCEPT !.applied = p, !.pending = r.pending \ {p}]
  <2>1. /\ round.of = p /\ round.votes >= quorumFor /\ UNCHANGED round
        /\ validator' = [validator EXCEPT ![v] = s]
    BY <1>1, <1>7 DEF Applies, phaseValue
  <2>2. s.applied = p /\ s.inbox = r.inbox /\ s.schema = r.schema
    BY <1>1 DEF NodeType
  <2> HIDE DEF s
  <2>3. \A w \in Validators : validator'[w] = IF w = v THEN s ELSE validator[w]
    BY <1>1, <2>1
  <2>4. p \in Proposed
    BY <2>1 DEF NothingEarly, Rounds
  <2>5. NothingEarly'
    BY <1>1, <1>2, <2>1, <2>2, <2>3, <2>4 DEF NothingEarly, Quiet
  <2>6. VotesInv'
    BY <1>1, <1>2, <2>1, <2>2, <2>3 DEF VotesInv, quorumFor
  <2> QED
    BY <1>2, <2>5, <2>6 DEF EarnInv
<1> QED
  BY <1>4, <1>5, <1>6, <1>7

LEMMA DrillStepEarns == DrillInv /\ EarnInv /\ DrillNext => EarnInv'
  BY StartEarns, FileStepsEarn, FaultsEarn, ProposeEarns, DropEarns, StopEarns, ValidatorEarns
     DEF DrillNext

LEMMA DrillInitEarns == ASSUME DrillInit PROVE EarnInv
<1>1. /\ drill.pc = "boot" /\ round.of = "none" /\ round.votes = 0
      /\ \A v \in Validators : validator[v].inbox = <<>> /\ validator[v].applied = "none"
  BY DEF DrillInit
<1> QED
  BY <1>1 DEF EarnInv, NothingEarly, VictimsInv, VotesInv, Quiet, Holding, DrillInit

\* What the judge of a phase may take from its observations: of the 3f+1, f+1 had
\* no vote, or all but f had one.
LEMMA VerdictIsEarned ==
    ASSUME DrillInv, EarnInv, Judge, ~drill'.red
    PROVE  IF current \in Boundary THEN round.of = current => round.votes < quorumFor
           ELSE round = [of |-> current, votes |-> quorumFor]
<1>1. /\ drill.pc = "wait" /\ DOMAIN drill = {"pc", "phase", "leader", "victims", "red", "left"}
      /\ drill.phase \in 1..5 /\ Faults \in Nat
  BY DrillAssumption DEF Judge, DrillInv, DrillTypeOK
<1>2. ~drill.red /\ IF current \in Boundary THEN evaluateBoundary ELSE evaluateLiveness
  BY <1>1 DEF Judge
<1>3. NothingEarly /\ VictimsInv /\ VotesInv
  BY <1>2 DEF EarnInv
<1>4. /\ drill.victims \subseteq Validators /\ Cardinality(drill.victims) >= Wanted(current)
      /\ Cardinality(drill.victims) \in Nat /\ round.votes \in Nat
      /\ IsFiniteSet(drill.victims)
  BY <1>1, <1>3, ValidatorsCounted, FS_Subset, FS_CardinalityType
     DEF VictimsInv, Holding, NothingEarly
<1>5. CASE current \in Boundary
  <2> SUFFICES ASSUME round.of = current PROVE round.votes < quorumFor
    BY <1>5
  <2>1. round.votes + Cardinality(drill.victims) <= 3 * Faults + 1
    BY <1>1, <1>3 DEF VotesInv
  <2> QED
    BY <1>1, <1>4, <1>5, <2>1 DEF Wanted, quorumFor
<1>6. CASE current \notin Boundary
  <2> DEFINE others == Validators \ drill.victims
  <2>1. Cardinality(others) >= quorumFor /\ others \subseteq Applied
    BY <1>2, <1>6 DEF evaluateLiveness
  <2>2. others # {}
    <3> SUFFICES ASSUME others = {} PROVE FALSE
      OBVIOUS
    <3>1. Cardinality(others) = 0
      BY FS_EmptySet
    <3> HIDE DEF others
    <3> QED
      BY <1>1, <2>1, <3>1 DEF quorumFor
  <2>3. PICK v \in Validators : validator[v].applied = current
    BY <2>1, <2>2 DEF Applied, phaseValue
  <2>4. /\ round.of = current /\ round.votes >= quorumFor
        /\ round.votes + Cardinality(drill.victims) <= 3 * Faults + 1
    BY <1>1, <1>3, <2>3 DEF VotesInv
  <2>5. round.votes = quorumFor
    BY <1>1, <1>4, <1>6, <2>4 DEF Wanted, quorumFor
  <2> QED
    BY <1>3, <1>6, <2>4, <2>5 DEF NothingEarly
<1> QED
  BY <1>5, <1>6

-----------------------------------------------------------------------------
(* The mirror: what the streak has read of the results.                    *)

Results == Failures \cup {"pending", "passed"}
BookType == [through : Nat, streak : [phase : Failures \cup {"none"}, count : Nat], abort : BOOLEAN]

\* Some Threshold results in a row, the last of them the i-th, failed in one phase other
\* than run.
Window(rs, i) ==
    /\ i >= Threshold /\ rs[i] \notin {"passed", "run"}
    /\ \A j \in (i - Threshold + 1)..i : rs[j] = rs[i]

\* The streak of b is the longest one that ends with the last result read.
StreakRead(b, rs) ==
    LET count == b.streak.count
        first == b.through - count
    IN  /\ count <= b.through
        /\ count = 0 => b.through = 0 \/ rs[b.through] \in {"passed", "run"}
        /\ count # 0 =>
            /\ b.streak.phase \notin {"passed", "run"}
            /\ \A j \in (first + 1)..b.through : rs[j] = b.streak.phase
            /\ first = 0 \/ rs[first] # b.streak.phase

\* b is right about the first results, read one by one.
ReadOf(b, rs, n) ==
    /\ b \in BookType /\ b.through <= n
    /\ \A j \in 1..b.through : rs[j] # "pending"
    /\ StreakRead(b, rs)
    /\ b.abort <=> b.streak.count >= Threshold
    /\ ~b.abort => \A i \in 1..b.through : ~Window(rs, i)

\* There is nothing more to read, or no need to.
Stuck(b, rs, n) == b.abort \/ b.through = n \/ (b.through < n /\ rs[b.through + 1] = "pending")

\* Reading one more result.
LEMMA ObservedReads ==
    ASSUME NEW n \in Nat, NEW rs, \A j \in 1..n : rs[j] \in Results,
           NEW b, ReadOf(b, rs, n), ~Stuck(b, rs, n)
    PROVE  LET e == Observed(b, rs[b.through + 1])
           IN  ReadOf(e, rs, n) /\ e.through = b.through + 1
<1> DEFINE m == b.through + 1
           result == rs[m]
           e == Observed(b, result)
           old == b.streak.count
           count == IF result = b.streak.phase THEN old + 1 ELSE 1
<1>0. /\ b \in BookType /\ b.through \in Nat /\ b.streak \in [phase : Failures \cup {"none"}, count : Nat]
      /\ b.abort \in BOOLEAN
  BY DEF ReadOf, BookType
<1>a. old \in Nat
  BY <1>0
<1>b. ~b.abort /\ b.through <= n /\ b.through # n /\ (b.abort <=> old >= Threshold) /\ StreakRead(b, rs)
  <2>1. ~b.abort /\ b.through # n
    BY DEF Stuck
  <2>2. b.through <= n /\ StreakRead(b, rs)
    BY DEF ReadOf
  <2>3. b.abort <=> old >= Threshold
    BY DEF ReadOf
  <2> QED
    BY <2>1, <2>2, <2>3
<1>c. Threshold \in Nat \ {0}
  BY MirrorAssumption DEF MirrorAssumption
<1>d. old <= b.through
  BY <1>b DEF StreakRead
<1>1. /\ b \in BookType /\ b.through \in Nat /\ b.streak \in [phase : Failures \cup {"none"}, count : Nat]
      /\ old \in Nat /\ ~b.abort /\ b.abort \in BOOLEAN /\ b.through < n /\ old <= b.through /\ old < Threshold
      /\ Threshold \in Nat \ {0}
  BY <1>0, <1>a, <1>b, <1>c, <1>d
<1>2. m \in 1..n /\ result \in Failures \cup {"passed"} /\ result # "pending"
  BY <1>1 DEF Stuck, Results
<1>3. StreakRead(b, rs) /\ \A i \in 1..b.through : rs[i] # "pending" /\ ~Window(rs, i)
  BY <1>1 DEF ReadOf
<1>4. \A i \in 1..m : i = m \/ i \in 1..b.through
  BY <1>1
<1>e. PICK p \in Nat, q \in Nat : p = m /\ q = 0
  BY <1>1
<1>5. ASSUME result \in {"passed", "run"} PROVE ReadOf(e, rs, n) /\ e.through = m
  <2> DEFINE s == [phase |-> "none", count |-> q]
  <2>1. e = [b EXCEPT !.through = p, !.streak = s]
    BY <1>e, <1>5 DEF Observed, NoStreak
  <2>a. s \in [phase : Failures \cup {"none"}, count : Nat] /\ s.count = q
    OBVIOUS
  <2> HIDE DEF e, s
  <2>b. e \in BookType /\ e.through = p /\ e.streak = s /\ e.abort = b.abort
    BY <1>0, <2>1, <2>a DEF BookType
  <2>2. /\ e \in BookType /\ e.through = p /\ e.streak.count = q /\ e.abort = b.abort
    BY <2>a, <2>b
  <2>3. ~Window(rs, m)
    BY <1>5 DEF Window
  <2>4. StreakRead(e, rs)
    BY <1>1, <1>5, <1>e, <2>2 DEF StreakRead
  <2>5. e.through <= n /\ \A i \in 1..m : rs[i] # "pending" /\ ~Window(rs, i)
    BY <1>1, <1>2, <1>3, <1>4, <1>e, <2>2, <2>3
  <2>6. ~(e.streak.count >= Threshold) /\ ~e.abort
    BY <1>1, <1>e, <2>2
  <2> HIDE DEF e, m
  <2> QED
    BY <1>e, <2>2, <2>4, <2>5, <2>6 DEF ReadOf
<1>6. ASSUME result \notin {"passed", "run"} PROVE ReadOf(e, rs, n) /\ e.through = m
  <2>2. count \in Nat /\ count # 0 /\ result \in Failures
    BY <1>1, <1>2, <1>6
  <2>c. (count >= Threshold) \in BOOLEAN
    OBVIOUS
  <2>a. PICK c \in Nat, over \in BOOLEAN : c = count /\ over = (count >= Threshold)
    BY <2>2, <2>c
  <2> DEFINE s == [phase |-> result, count |-> c]
  <2>1. e = [b EXCEPT !.through = p, !.streak = s, !.abort = over]
    BY <1>6, <1>e, <2>a DEF Observed
  <2> HIDE DEF count, result, e
  <2>b. s \in [phase : Failures \cup {"none"}, count : Nat] /\ s.phase = result /\ s.count = c
    BY <2>2
  <2> HIDE DEF s
  <2>d. e \in BookType /\ e.through = p /\ e.streak = s /\ e.abort = over
    BY <1>0, <2>1, <2>b DEF BookType
  <2>3. /\ e \in BookType /\ e.through = p /\ e.streak.phase = result /\ e.streak.count = c
        /\ e.abort = over
    BY <2>b, <2>d
  <2>4. /\ count <= m
        /\ \A j \in (m - count + 1)..m : rs[j] = result
        /\ m - count = 0 \/ rs[m - count] # result
    <3>1. CASE result = b.streak.phase
      <4>1. count = old + 1 /\ m - count = b.through - old
        BY <1>1, <3>1 DEF count
      <4>2. CASE old = 0
        <5>1. b.through = 0 \/ rs[b.through] \in {"passed", "run"}
          BY <1>3, <4>2 DEF StreakRead
        <5>2. m - count = b.through /\ m - count + 1 = m /\ count <= m
          BY <1>1, <4>1, <4>2
        <5>3. \A j \in m..m : rs[j] = result
          BY <1>1 DEF result
        <5> QED
          BY <1>6, <5>1, <5>2, <5>3
      <4>3. CASE old # 0
        <5>1. /\ \A j \in (b.through - old + 1)..b.through : rs[j] = result
              /\ b.through - old = 0 \/ rs[b.through - old] # result
          BY <1>3, <3>1, <4>3 DEF StreakRead
        <5>2. \A j \in (b.through - old + 1)..m : j = m \/ j \in (b.through - old + 1)..b.through
          BY <1>1
        <5> QED
          BY <1>1, <4>1, <5>1, <5>2 DEF result
      <4> QED
        BY <4>2, <4>3
    <3>2. CASE result # b.streak.phase
      <4>1. count = 1 /\ m - count = b.through /\ count <= m
        BY <1>1, <3>2 DEF count
      <4>2. \A j \in (m - count + 1)..m : rs[j] = result
        BY <1>1, <4>1 DEF result
      <4>3. b.through = 0 \/ rs[b.through] # result
        <5>1. CASE old = 0
          BY <1>3, <1>6, <5>1 DEF StreakRead
        <5>2. CASE old # 0
          <6>1. \A j \in (b.through - old + 1)..b.through : rs[j] = b.streak.phase
            BY <1>3, <5>2 DEF StreakRead
          <6>2. b.through \in (b.through - old + 1)..b.through
            BY <1>1, <5>2
          <6> QED
            BY <3>2, <6>1, <6>2
        <5> QED
          BY <5>1, <5>2
      <4> QED
        BY <4>1, <4>2, <4>3
    <3> QED
      BY <3>1, <3>2
  <2>5. StreakRead(e, rs)
    BY <1>6, <1>e, <2>a, <2>2, <2>3, <2>4 DEF StreakRead
  <2>6. ~e.abort => ~Window(rs, m)
    <3> SUFFICES ASSUME ~(count >= Threshold), Window(rs, m) PROVE FALSE
      BY <2>3, <2>a
    <3>1. m >= Threshold /\ \A j \in (m - Threshold + 1)..m : rs[j] = result
      BY DEF Window, result
    <3>2. m - count \in (m - Threshold + 1)..m /\ m - count # 0
      BY <1>1, <1>e, <2>2, <2>4, <3>1
    <3> QED
      BY <2>4, <3>1, <3>2
  <2>7. e.through <= n /\ \A i \in 1..m : rs[i] # "pending"
    BY <1>1, <1>2, <1>3, <1>4, <1>e, <2>3 DEF result, m
  <2>8. ~e.abort => \A i \in 1..m : ~Window(rs, i)
    BY <1>3, <1>4, <2>6
  <2> QED
    BY <1>e, <2>a, <2>3, <2>5, <2>7, <2>8 DEF ReadOf
<1>7. ReadOf(e, rs, n) /\ e.through = m
  BY <1>5, <1>6
<1> QED
  BY <1>7

LEMMA NatSetInduction ==
    ASSUME NEW S, 0 \in S, \A n \in Nat : n \in S => n + 1 \in S
    PROVE  Nat \subseteq S
<1> DEFINE T == Nat \ S
           R == OpToRel(<, Nat)
<1> SUFFICES ASSUME T # {} PROVE FALSE
  OBVIOUS
<1>1. IsWellFoundedOn(R, Nat)
  BY NatLessThanWellFounded
<1>2. T \subseteq Nat
  OBVIOUS
<1> HIDE DEF T, R
<1>3. PICK x \in T : \A y \in T : ~ (<<y, x>> \in R)
  BY <1>1, <1>2, WFMin
<1>4. \A y \in T : ~(y < x)
  BY <1>3, <1>2 DEF R, OpToRel
<1>5. x \in Nat /\ x # 0 /\ x - 1 \in Nat /\ x - 1 < x
  BY <1>2, <1>3 DEF T
<1>6. x - 1 \notin T
  BY <1>4, <1>5
<1> QED
  BY <1>3, <1>5, <1>6 DEF T

\* g is the book after each of the first n rounds of observeCompletedLegs.
Rounded(g, b, rs, n) ==
    g = [k \in 0..n |->
            IF k = 0 THEN b
            ELSE LET prev == g[k - 1]
                 IN  IF \/ prev.abort \/ prev.through = Len(legs)
                        \/ prev.through < Len(legs) /\ rs[prev.through + 1] = "pending"
                     THEN prev
                     ELSE Observed(prev, rs[prev.through + 1])]

LEMMA RoundsExist == ASSUME NEW b, NEW rs PROVE \A n \in Nat : \E g : Rounded(g, b, rs, n)
<1> DEFINE next(x) == IF Stuck(x, rs, Len(legs)) THEN x ELSE Observed(x, rs[x.through + 1])
           S == {n \in Nat : \E g : Rounded(g, b, rs, n)}
<1>1. \A g, n : Rounded(g, b, rs, n) <=> g = [k \in 0..n |-> IF k = 0 THEN b ELSE next(g[k - 1])]
  BY DEF Rounded, Stuck
<1> HIDE DEF next
<1>2. 0 \in S
  <2> DEFINE h == [k \in 0..0 |-> b]
  <2>a. h = [k \in 0..0 |-> IF k = 0 THEN b ELSE next(h[k - 1])]
    OBVIOUS
  <2>1. Rounded(h, b, rs, 0)
    BY <1>1, <2>a
  <2> QED
    BY <2>1
<1>3. ASSUME NEW n \in Nat, n \in S PROVE n + 1 \in S
  <2>1. PICK g : Rounded(g, b, rs, n)
    BY <1>3
  <2>2. g = [k \in 0..n |-> IF k = 0 THEN b ELSE next(g[k - 1])]
    BY <1>1, <2>1
  <2> DEFINE h == [k \in 0..(n + 1) |-> IF k = n + 1 THEN next(g[n]) ELSE g[k]]
  <2>3. \A k \in 0..(n + 1) : h[k] = IF k = 0 THEN b ELSE next(h[k - 1])
    BY <2>2
  <2>4. h = [k \in 0..(n + 1) |-> IF k = 0 THEN b ELSE next(h[k - 1])]
    BY <2>3
  <2>5. Rounded(h, b, rs, n + 1)
    BY <1>1, <2>4
  <2> QED
    BY <2>5
<1> HIDE DEF S
<1>4. Nat \subseteq S
  BY <1>2, <1>3, NatSetInduction
<1> QED
  BY <1>4 DEF S

\* observeCompletedLegs reads the results that are there, up to the first that is not or
\* to the one that gives the run up.
LEMMA ObservedIsRead ==
    ASSUME NEW n \in Nat, n = Len(legs), NEW rs, \A j \in 1..n : rs[j] \in Results,
           NEW b, ReadOf(b, rs, n)
    PROVE  LET e == observeCompletedLegs(b, rs) IN ReadOf(e, rs, n) /\ Stuck(e, rs, n)
<1>1. CASE b.abort
  BY <1>1, AbortStays DEF Stuck
<1>2. CASE ~b.abort
  <2> DEFINE g == CHOOSE g : Rounded(g, b, rs, Len(legs))
  <2>1. Rounded(g, b, rs, n)
    BY RoundsExist
  <2>2. observeCompletedLegs(b, rs) = g[n]
    BY <1>2 DEF observeCompletedLegs, Rounded
  <2> HIDE DEF g
  <2>3. /\ g[0] = b
        /\ \A k \in 1..n : g[k] = IF Stuck(g[k - 1], rs, n) THEN g[k - 1]
                                  ELSE Observed(g[k - 1], rs[g[k - 1].through + 1])
    <3> DEFINE next(x) == IF Stuck(x, rs, n) THEN x ELSE Observed(x, rs[x.through + 1])
    <3>1. g = [k \in 0..n |-> IF k = 0 THEN b ELSE next(g[k - 1])]
      BY <2>1 DEF Rounded, Stuck
    <3> HIDE DEF next
    <3>2. g[0] = b /\ \A k \in 1..n : g[k] = next(g[k - 1])
      BY <3>1
    <3> QED
      BY <3>2 DEF next
  <2> DEFINE S == {k \in Nat : k \in 0..n =>
                      ReadOf(g[k], rs, n) /\ (Stuck(g[k], rs, n) \/ g[k].through >= k)}
  <2>4. 0 \in S
    <3>1. b.through \in Nat
      BY DEF ReadOf, BookType
    <3> QED
      BY <2>3, <3>1
  <2>5. ASSUME NEW k \in Nat, k \in S PROVE k + 1 \in S
    <3> SUFFICES ASSUME k + 1 \in 0..n
                 PROVE  ReadOf(g[k + 1], rs, n) /\ (Stuck(g[k + 1], rs, n) \/ g[k + 1].through >= k + 1)
      OBVIOUS
    <3>1. ReadOf(g[k], rs, n) /\ (Stuck(g[k], rs, n) \/ g[k].through >= k)
      BY <2>5
    <3>2. g[k + 1] = IF Stuck(g[k], rs, n) THEN g[k] ELSE Observed(g[k], rs[g[k].through + 1])
      BY <2>3
    <3>3. CASE Stuck(g[k], rs, n)
      BY <3>1, <3>2, <3>3
    <3>4. CASE ~Stuck(g[k], rs, n)
      <4>1. ReadOf(g[k + 1], rs, n) /\ g[k + 1].through = g[k].through + 1
        BY <3>1, <3>2, <3>4, ObservedReads
      <4>2. g[k].through \in Nat /\ g[k].through >= k
        BY <3>1, <3>4 DEF ReadOf, BookType
      <4> QED
        BY <4>1, <4>2
    <3> QED
      BY <3>3, <3>4
  <2> HIDE DEF S
  <2>6. Nat \subseteq S
    BY <2>4, <2>5, NatSetInduction
  <2>7. ReadOf(g[n], rs, n) /\ (Stuck(g[n], rs, n) \/ g[n].through >= n)
    BY <2>6 DEF S
  <2>8. g[n].through >= n => Stuck(g[n], rs, n)
    <3>1. g[n].through \in Nat /\ g[n].through <= n
      BY <2>7 DEF ReadOf, BookType
    <3> QED
      BY <3>1 DEF Stuck
  <2> QED
    BY <2>2, <2>7, <2>8
<1> QED
  BY <1>1, <1>2

\* A result that was pending is not among those read.
LEMMA NewResultReads ==
    ASSUME NEW n \in Nat, NEW rs, NEW ss, NEW i \in 1..n, rs[i] = "pending",
           \A j \in 1..n : j # i => ss[j] = rs[j], NEW b, ReadOf(b, rs, n)
    PROVE  ReadOf(b, ss, n)
<1>1. /\ b \in BookType /\ b.through \in Nat /\ b.through <= n /\ b.streak.count \in Nat
      /\ Threshold \in Nat \ {0} /\ StreakRead(b, rs)
  BY MirrorAssumption DEF ReadOf, BookType, MirrorAssumption
<1>2. ASSUME NEW j \in 1..b.through PROVE ss[j] = rs[j] /\ rs[j] # "pending"
  <2>1. rs[j] # "pending"
    BY DEF ReadOf
  <2> QED
    BY <1>1, <2>1
<1>3. StreakRead(b, ss)
  <2> DEFINE count == b.streak.count
             first == b.through - count
  <2>1. count <= b.through
    BY <1>1 DEF StreakRead
  <2>2. count = 0 => b.through = 0 \/ ss[b.through] \in {"passed", "run"}
    <3>1. count = 0 => b.through = 0 \/ rs[b.through] \in {"passed", "run"}
      BY <1>1 DEF StreakRead
    <3>2. b.through # 0 => b.through \in 1..b.through
      BY <1>1
    <3> QED
      BY <1>2, <3>1, <3>2
  <2>3. ASSUME count # 0
        PROVE  /\ b.streak.phase \notin {"passed", "run"}
               /\ \A j \in (first + 1)..b.through : ss[j] = b.streak.phase
               /\ first = 0 \/ ss[first] # b.streak.phase
    <3>1. /\ b.streak.phase \notin {"passed", "run"}
          /\ \A j \in (first + 1)..b.through : rs[j] = b.streak.phase
          /\ first = 0 \/ rs[first] # b.streak.phase
      BY <1>1, <2>3 DEF StreakRead
    <3>2. \A j \in (first + 1)..b.through : j \in 1..b.through
      BY <1>1, <2>1
    <3>3. first = 0 \/ first \in 1..b.through
      BY <1>1, <2>1
    <3> QED
      BY <1>2, <3>1, <3>2, <3>3
  <2> QED
    BY <2>1, <2>2, <2>3 DEF StreakRead
<1>4. ASSUME NEW j \in 1..b.through, ~Window(rs, j) PROVE ~Window(ss, j)
  <2> SUFFICES ASSUME Window(ss, j) PROVE Window(rs, j)
    BY <1>4
  <2>1. j >= Threshold /\ \A k \in (j - Threshold + 1)..j : k \in 1..b.through
    BY <1>1 DEF Window
  <2>2. ss[j] = rs[j] /\ \A k \in (j - Threshold + 1)..j : ss[k] = rs[k]
    BY <1>2, <2>1
  <2> QED
    BY <2>1, <2>2 DEF Window
<1>5. ~b.abort => \A j \in 1..b.through : ~Window(ss, j)
  BY <1>4 DEF ReadOf
<1>6. \A j \in 1..b.through : ss[j] # "pending"
  BY <1>2
<1>7. b.abort <=> b.streak.count >= Threshold
  BY DEF ReadOf
<1> QED
  BY <1>1, <1>3, <1>5, <1>6, <1>7 DEF ReadOf

BookInv == ReadOf(book, results, Len(legs)) /\ Stuck(book, results, Len(legs))

LEMMA NewBookReads ==
    ASSUME NEW n \in Nat, NEW rs, n # 0 => rs[1] = "pending"
    PROVE  ReadOf(NewBook, rs, n) /\ Stuck(NewBook, rs, n)
<1> DEFINE b == NewBook
<1>1. PICK z \in Nat : z = 0
  OBVIOUS
<1>2. b = [through |-> z, streak |-> [phase |-> "none", count |-> z], abort |-> FALSE]
  BY <1>1 DEF NewBook, NoStreak
<1>3. b \in BookType /\ b.through = z /\ b.streak.count = z /\ ~b.abort
  BY <1>2 DEF BookType
<1>4. Threshold \in Nat \ {0}
  BY MirrorAssumption DEF MirrorAssumption
<1> HIDE DEF b
<1>5. StreakRead(b, rs)
  BY <1>1, <1>3 DEF StreakRead
<1>6. ReadOf(b, rs, n)
  BY <1>1, <1>3, <1>4, <1>5 DEF ReadOf
<1>7. Stuck(b, rs, n)
  BY <1>1, <1>3 DEF Stuck
<1> QED
  BY <1>6, <1>7 DEF b


LEMMA MirrorStepReads ==
    ASSUME MirrorInv, BookInv, MirrorNext
    PROVE  BookInv'
<1>0. MirrorTypeOK /\ MirrorTypeOK'
  BY MirrorStepKeeps DEF MirrorInv
<1>1. CASE StartMirror \/ Reboot
  <2>1. book' = NewBook /\ results' = NoResults
    BY <1>1 DEF StartMirror, Reboot
  <2>2. Len(legs') \in 0..Cardinality(LegFiles) /\ Cardinality(LegFiles) \in Nat
    BY <1>0, LegCount DEF MirrorTypeOK
  <2>3. Len(legs') # 0 => 1 \in 1..Cardinality(LegFiles)
    BY <2>2
  <2>4. Len(legs') # 0 => NoResults[1] = "pending"
    BY <2>3, NoResultsTyped
  <2>5. Len(legs') \in Nat
    BY <2>2
  <2> QED
    BY <2>1, <2>4, <2>5, NewBookReads DEF BookInv
<1>2. ASSUME NEW s \in Slots, Down(s) PROVE BookInv'
  <2> DEFINE i == lane[s].index
             n == Len(legs)
  <2>1. Busy(s) /\ RunInv /\ UNCHANGED legs
    BY <1>2, BusyRuns DEF Down, Busy, MirrorInv
  <2>2. i \in Indices /\ results[i] = "pending"
    BY <2>1 DEF RunInv, LaneInv
  <2>3. PICK code \in {"zero", "nonzero", "rejected"} :
            /\ results' = [results EXCEPT ![i] = legResult(s, code)]
            /\ book' = observeCompletedLegs(book, results')
    BY <1>2 DEF Down
  <2> HIDE DEF i
  <2>4. n \in Nat /\ n <= Cardinality(LegFiles) /\ Cardinality(LegFiles) \in Nat /\ i \in 1..n
    BY <1>0, <2>2, LegCount DEF MirrorTypeOK, Indices
  <2>5. \A j \in 1..n : j # i => results'[j] = results[j]
    BY <1>0, <2>3, <2>4 DEF MirrorTypeOK
  <2>6. \A j \in 1..n : results'[j] \in Results
    <3>1. results' \in [1..Cardinality(LegFiles) -> Results]
      BY <1>0 DEF MirrorTypeOK, Results
    <3> QED
      BY <2>4, <3>1
  <2>7. ReadOf(book, results', n)
    BY <2>2, <2>4, <2>5, NewResultReads DEF BookInv
  <2>8. ReadOf(book', results', n) /\ Stuck(book', results', n)
    BY <2>3, <2>4, <2>6, <2>7, ObservedIsRead
  <2> QED
    BY <2>1, <2>8 DEF BookInv
<1>3. CASE UNCHANGED <<book, results, legs>>
  BY <1>3 DEF BookInv
<1> QED
  BY <1>1, <1>2, <1>3 DEF MirrorNext, EndMirror, Pick, SweepSlot, Boot, BeginCheckout, EndCheckout, PollStack,
     SeedOrRun, Unspawned, HelperRefuses

\* The results read are those of the legs that have ended without a gap.
LEMMA BookIsEarned == MirrorTypeOK /\ BookInv => AbortIsEarned
<1> SUFFICES ASSUME MirrorTypeOK, BookInv PROVE AbortIsEarned
  OBVIOUS
<1> DEFINE n == Len(legs)
           m == book.through
           count == book.streak.count
<1>1. /\ n \in Nat /\ m \in Nat /\ m <= n /\ count \in Nat /\ Threshold \in Nat \ {0}
      /\ StreakRead(book, results) /\ Indices = 1..n /\ book.abort \in BOOLEAN
  BY MirrorAssumption, LegCount DEF MirrorTypeOK, BookInv, ReadOf, BookType, MirrorAssumption, Indices
<1>2. \A j \in 1..m : results[j] # "pending" /\ j \in completed
  BY <1>1 DEF BookInv, ReadOf, completed
<1>3. ASSUME book.abort PROVE m \in completed /\ Window(results, m)
  <2>1. count >= Threshold
    BY <1>3 DEF BookInv, ReadOf
  <2>2. /\ count <= m /\ book.streak.phase \notin {"passed", "run"}
        /\ \A j \in (m - count + 1)..m : results[j] = book.streak.phase
    BY <1>1, <2>1 DEF StreakRead
  <2>3. m \in 1..m /\ m >= Threshold /\ m \in (m - count + 1)..m
    BY <1>1, <2>1, <2>2
  <2>4. \A j \in (m - Threshold + 1)..m : j \in (m - count + 1)..m
    BY <1>1, <2>1, <2>2
  <2>5. results[m] = book.streak.phase
    BY <2>2, <2>3
  <2> QED
    BY <1>2, <2>2, <2>3, <2>4, <2>5 DEF Window
<1>4. ASSUME ~book.abort, NEW i \in completed PROVE ~Window(results, i)
  <2>1. i \in 1..n /\ \A j \in 1..i : results[j] # "pending"
    BY <1>1 DEF completed
  <2>2. m = n \/ (m < n /\ results[m + 1] = "pending")
    BY <1>4 DEF BookInv, Stuck
  <2>3. i \in 1..m
    <3>1. CASE i <= m
      BY <1>1, <2>1, <3>1
    <3>2. CASE ~(i <= m)
      <4>1. m + 1 \in 1..i /\ m < n
        BY <1>1, <2>1, <3>2
      <4> QED
        BY <1>1, <2>1, <2>2, <4>1
    <3> QED
      BY <3>1, <3>2
  <2> QED
    BY <1>4, <2>3 DEF BookInv, ReadOf
<1>5. (\E i \in completed : Window(results, i)) <=> book.abort
  BY <1>3, <1>4
<1> QED
  BY <1>5 DEF AbortIsEarned, Window

-----------------------------------------------------------------------------
(* The runners together.                                                   *)

VenueInv == RailInv /\ MirrorInv /\ DrillInv

LEMMA VenueInit == Init => VenueInv
  BY RailAssumption, RailInitInv, MirrorInitInv, DrillInitInv DEF Init, VenueInv

LEMMA StutterKeeps ==
    /\ RailInv /\ UNCHANGED railVars => RailInv'
    /\ MirrorInv /\ UNCHANGED mirrorVars => MirrorInv'
    /\ DrillInv /\ UNCHANGED drillVars => DrillInv'
<1>1. ASSUME RailInv, UNCHANGED railVars PROVE RailInv'
  BY <1>1 DEF railVars, RailInv, RailTypeOK, DriverInv, Alone, OwnJournal, WroteAll, SweepInv,
              Mocha, At
<1>2. ASSUME MirrorInv, UNCHANGED mirrorVars PROVE MirrorInv'
  BY <1>2 DEF mirrorVars, MirrorInv, MirrorTypeOK, RunInv, LaneInv, OwnLegs, LegInv, CheckoutInv,
              GreenRunIsGreen, Busy, SomeFailed, Failed, Indices
<1>3. ASSUME DrillInv, UNCHANGED drillVars PROVE DrillInv'
  BY <1>3 DEF drillVars, DrillInv, DrillTypeOK, NodeInv, Told, Harmless, Steady, Pristine, Up,
              Running, current
<1> QED
  BY <1>1, <1>2, <1>3

LEMMA VenueStep == VenueInv /\ [Next]_venueVars => VenueInv'
<1> SUFFICES ASSUME VenueInv, [Next]_venueVars PROVE VenueInv'
  OBVIOUS
<1>1. \/ MirrorNext /\ UNCHANGED railVars /\ UNCHANGED drillVars
      \/ RailNext /\ UNCHANGED mirrorVars /\ UNCHANGED drillVars
      \/ DrillNext /\ UNCHANGED mirrorVars /\ UNCHANGED railVars
      \/ UNCHANGED railVars /\ UNCHANGED mirrorVars /\ UNCHANGED drillVars
  BY DEF Next, venueVars
<1> QED
  BY <1>1, RailAssumption, RailStepKeeps, MirrorStepKeeps, DrillStepKeeps, StutterKeeps
     DEF VenueInv

LEMMA VenueInvariant == Spec => []VenueInv
<1> QED
  BY VenueInit, VenueStep, PTL DEF Spec

(* Whatever the legs, the lanes and what docker keeps: a runner that exits 0 *)
(* ran every leg, all passed, and its lanes left nothing behind.             *)
THEOREM GreenRunsAreGreen == Spec => []GreenRunIsGreen
<1>1. VenueInv => GreenRunIsGreen
  BY DEF VenueInv, MirrorInv
<1> QED
  BY <1>1, VenueInvariant, PTL

(* No lane boots a stack over the volumes of an earlier one.                *)
THEOREM NoSurvivorIsBootedOver == Spec => NoBootOverASurvivor
<1>1. VenueInv =>
        [\A s \in Slots :
            (lane[s].at = "boot" /\ lane'[s].at \notin {"boot", "idle"}) => s \notin held]_mirrorVars
  BY DEF VenueInv, MirrorInv
<1> QED
  BY <1>1, VenueInvariant, PTL DEF NoBootOverASurvivor

(* The run is given up exactly when, of the legs ended without a gap, some  *)
(* Threshold in a row failed in one phase other than run: for any number of *)
(* legs and lanes, in whatever order the lanes end them                     *)
(* (observeCompletedLegs).                                                  *)
THEOREM AbortsAreEarned == Spec => []AbortIsEarned
<1>1. Init => BookInv
  <2> SUFFICES ASSUME Init PROVE BookInv
    OBVIOUS
  <2>1. book = NewBook /\ Len(legs) = 0
    BY EmptySeq DEF Init, MirrorInit
  <2> QED
    BY <2>1, NewBookReads DEF BookInv
<1>2. VenueInv /\ BookInv /\ [Next]_venueVars => BookInv'
  <2> SUFFICES ASSUME VenueInv, BookInv, [Next]_venueVars PROVE BookInv'
    OBVIOUS
  <2>1. MirrorNext \/ UNCHANGED mirrorVars
    BY DEF Next, venueVars
  <2>2. CASE UNCHANGED mirrorVars
    BY <2>2 DEF mirrorVars, BookInv
  <2> QED
    BY <2>1, <2>2, MirrorStepReads DEF VenueInv
<1>3. VenueInv /\ BookInv => AbortIsEarned
  BY BookIsEarned DEF VenueInv, MirrorInv
<1> QED
  BY <1>1, <1>2, <1>3, VenueInvariant, PTL DEF Spec

(* A green exit and a PASS rest on what the driver's own child journalled.  *)
THEOREM GreenDrivesAreTheirOwn == Spec => GreenDriveIsItsOwn
<1> DEFINE Own ==
      /\ \A d \in Drivers :
            (At(d, "triage") /\ driver'[d].code = 0 /\ driver[d].alone) =>
                /\ WroteAll(d, Rail[driver[d].drive]["full"].titles)
                /\ ~driver[d].timedOut
      /\ \A n \in Drives : \A l \in DOMAIN Rail[n] :
            (sweep.verdicts[n][l] # "PASS" /\ sweep'.verdicts[n][l] = "PASS") =>
                LET d == sweep.driver
                IN  driver[d].cleared /\ driver[d].alone => WroteAll(d, Rail[n][l].titles)
<1>1. ASSUME RailInv, RailNext PROVE Own
  <2>1. ASSUME NEW d \in Drivers, At(d, "triage"), driver'[d].code = 0, driver[d].alone
        PROVE  WroteAll(d, Rail[driver[d].drive]["full"].titles) /\ ~driver[d].timedOut
    <3>1. driver[d].cleared /\ OwnJournal(d)
      BY <1>1, <2>1 DEF RailInv, DriverInv, At
    <3> QED
      BY <1>1, <2>1, <3>1, GreenDriverIsInTime DEF OwnJournal
  <2>2. ASSUME NEW n \in Drives, NEW l \in DOMAIN Rail[n],
               sweep.verdicts[n][l] # "PASS", sweep'.verdicts[n][l] = "PASS",
               driver[sweep.driver].cleared, driver[sweep.driver].alone
        PROVE  WroteAll(sweep.driver, Rail[n][l].titles)
    <3>1. sweep.driver \in Drivers /\ driver[sweep.driver].drive = n
      BY <1>1, <2>2, RailAssumption, PassIsOfTheSweptDrive
    <3>2. WroteAll(sweep.driver, Rail[n]["full"].titles)
      BY <1>1, <2>2, <3>1 DEF RailInv, OwnJournal
    <3>3. Rail[n][l].titles \subseteq Rail[n]["full"].titles
      BY <2>2, RailAssumption, TitlesOfALeg
    <3> QED
      BY <3>2, <3>3 DEF WroteAll
  <2> QED
    BY <2>1, <2>2
<1> HIDE DEF Own
<1>2. VenueInv /\ [Next]_venueVars => [Own]_railVars
  BY <1>1 DEF VenueInv, Next, venueVars
<1>3. [][Own]_railVars => GreenDriveIsItsOwn
  BY DEF GreenDriveIsItsOwn, Own
<1> QED
  BY <1>2, <1>3, VenueInvariant, PTL DEF Spec

(* However many validators, wherever they stall or die: a phase of the drill *)
(* waits for its outcome under its own faults on its own victims, and under  *)
(* no other fault but one whose lifting was never confirmed.                 *)
THEOREM DrillFaultsAreThePhases == Spec => []FaultsAreThePhases
<1>1. VenueInv => FaultsAreThePhases
  BY DrillInvIsEnough DEF VenueInv
<1> QED
  BY <1>1, VenueInvariant, PTL

(* However many validators, wherever they stall or die: as long as no test  *)
(* or hook has failed, B and E pass on a round with exactly a quorum of      *)
(* votes, C and F on none that had one (evaluateLiveness, evaluateBoundary), *)
(* and the last hook leaves no schema behind.                                *)
THEOREM GreenDrillsAreEarned == Spec => GreenDrillIsEarned
<1> DEFINE Earned ==
      /\ (drill.pc = "wait" /\ drill'.pc = "clear" /\ ~drill'.red) =>
            IF current \in Boundary THEN round.of = current => round.votes < quorumFor
            ELSE round = [of |-> current, votes |-> quorumFor]
      /\ (drill'.pc = "over" /\ ~drill'.red) => \A v \in Validators : ~validator'[v].schema
<1>1. Init => EarnInv
  BY DrillInitEarns DEF Init
<1>2. VenueInv /\ EarnInv /\ [Next]_venueVars => EarnInv'
  <2>1. UNCHANGED drillVars /\ EarnInv => EarnInv'
    BY DEF drillVars, EarnInv, NothingEarly, VictimsInv, VotesInv, Proposed, Late, Quiet, current
  <2> QED
    BY <2>1, DrillStepEarns DEF Next, venueVars, VenueInv
<1>3. ASSUME DrillInv, EarnInv, DrillNext PROVE Earned
  <2>1. EarnInv'
    BY <1>3, DrillStepEarns
  <2>2. (drill'.pc = "over" /\ ~drill'.red) => \A v \in Validators : ~validator'[v].schema
    BY <2>1 DEF EarnInv, NothingEarly
  <2>3. ASSUME drill.pc = "wait", drill'.pc = "clear" PROVE Judge
    BY <1>3, <2>3 DEF DrillNext, StartMesh, CheckMesh, realign, findLeader, applyFaults, Propose,
       clearFaults, realignAfter, Forge, dropDb, stop, ReadsLate, CatchesUp, Lapses, Applies
  <2> QED
    BY <1>3, <2>2, <2>3, VerdictIsEarned
<1> HIDE DEF Earned
<1>4. VenueInv /\ EarnInv /\ [Next]_venueVars => [Earned]_drillVars
  BY <1>3 DEF VenueInv, Next, venueVars
<1>5. [][Earned]_drillVars => GreenDrillIsEarned
  BY DEF GreenDrillIsEarned, Earned
<1> QED
  BY <1>1, <1>2, <1>4, <1>5, VenueInvariant, PTL DEF Spec
=============================================================================
