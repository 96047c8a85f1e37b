------------------------------ MODULE MirrorLegs ------------------------------
(***************************************************************************)
(* The attest-mirror aggregate runner (scripts/run-attest-mirror.js), its  *)
(* stack driver (attest-mirror-stack-driver.sh), the readiness helper the  *)
(* driver calls and the checkout of the mixed hub.  Lanes take the legs in *)
(* order, each leg with a stack of its own in its lane's slot.  Docker     *)
(* leaves things behind and the machine reboots under the runner.          *)
(***************************************************************************)
EXTENDS Integers, FiniteSets, Sequences

CONSTANTS
    LegFiles,     \* the leg files of the repository, in the order of their names
    MixedLegs,    \* those of them that need the mixed hub (the BF6 leg)
    Asks,         \* what the operator may ask for: sets of files, {} asks for all
    Concurrency,  \* lanes (ATTEST_MIRROR_CONCURRENCY, 1 to 3)
    Threshold,    \* ENV_FAILURE_ABORT_THRESHOLD
    MaxPolls,     \* polls of the readiness helper before its deadline
    MaxRunners    \* bound on the runner's invocations

ASSUME MirrorAssumption ==
    /\ LegFiles \subseteq Nat \ {0} /\ IsFiniteSet(LegFiles) /\ MixedLegs \subseteq LegFiles
    /\ Concurrency \in 1..3
    /\ Threshold \in Nat \ {0} /\ MaxPolls \in Nat \ {0} /\ MaxRunners \in Nat

VARIABLES
    mirror,    \* the runner: "off", "running" or "done", its exit code, its count,
               \* and the leg a lane takes next
    legs,      \* the selected legs, in order
    book,      \* completedThrough, the streak and abort of runAll
    results,   \* by index of the leg: "pending", "passed" or the phase that failed
    lane,      \* by slot: the worker, its leg and the driver call it is in
    held,      \* slots of whose project docker holds volumes, running or left over
    checkouts  \* the directories of the mixed hub, by slot and index of their leg

mirrorVars == <<mirror, legs, book, results, lane, held, checkouts>>

Slots == 0..(Concurrency - 1)
Probes == <<"schema", "indexer", "miners">>
Indices == 1..Len(legs)
NoStreak == [phase |-> "none", count |-> 0]
NewBook == [through |-> 0, streak |-> NoStreak, abort |-> FALSE]
NoResults == [i \in 1..Cardinality(LegFiles) |-> "pending"]
Idle == [at |-> "pick", index |-> 0, failure |-> "none", probe |-> 1, polls |-> 0,
         took |-> FALSE,    \* the lane took a leg of this run
         blind |-> FALSE]   \* docker would not list what its last down had left
Off == [Idle EXCEPT !.at = "idle"]

\* The same leg asked for twice runs once, in sorted order.
listLegs(asked) ==
    LET chosen == IF asked = {} THEN LegFiles ELSE asked
        rank(f) == Cardinality({g \in chosen : g <= f})
    IN  [i \in 1..Cardinality(chosen) |-> CHOOSE f \in chosen : rank(f) = i]

Goto(s, phase) == lane' = [lane EXCEPT ![s].at = phase]

-----------------------------------------------------------------------------
(* The driver's phases.  Every one answers 0, another code, or cannot be   *)
(* spawned at all (runDriver).                                             *)

\* What a phase that answered `code` leaves as the leg's failure.
failureAfter(s, phase, code) ==
    CASE code = "zero" -> lane[s].failure
      [] code = "nonzero" -> phase
      [] OTHER -> "spawn"

\* The phase ended: 0 goes on to the one after it, the rest goes down.
PhaseEnds(s, phase, code, after) ==
    lane' = [lane EXCEPT ![s] =
        [@ EXCEPT !.at = IF code = "zero" THEN after ELSE "down",
                  !.failure = failureAfter(s, phase, code), !.probe = 1, !.polls = 0]]

Unspawned(s) ==
    /\ lane[s].at \in {"up", "ready", "seed", "run"}
    /\ lane[s].at = "ready" => lane[s].probe = 1 /\ lane[s].polls = 0
    /\ PhaseEnds(s, lane[s].at, "rejected", "down")
    /\ UNCHANGED <<mirror, legs, book, results, held, checkouts>>

\* Mutant: a driver that trusts the down before it.
BootsOverWhatIsLeft(s) ==
    /\ lane[s].at = "up" /\ Goto(s, "boot")
    /\ UNCHANGED <<mirror, legs, book, results, held, checkouts>>

\* The helper of the ready phase has a module or a value missing.
HelperRefuses(s) ==
    /\ lane[s].at = "ready" /\ lane[s].probe = 1 /\ lane[s].polls = 0
    /\ PhaseEnds(s, "ready", "nonzero", "down")
    /\ UNCHANGED <<mirror, legs, book, results, held, checkouts>>

\* Compose down, then up to ten sweeps by label: best effort, all of it.
SweepSlot(s) ==
    /\ lane[s].at = "up"
    /\ \E left \in SUBSET (held \cap {s}) :
        /\ held' = (held \ {s}) \cup left
        /\ IF left # {}
           THEN PhaseEnds(s, "up", "nonzero", "down")
           ELSE Goto(s, "boot")
    /\ UNCHANGED <<mirror, legs, book, results, checkouts>>

\* setup-stack.sh, which may fail half way.
Boot(s) ==
    /\ lane[s].at = "boot"
    /\ \/ /\ held' \in {held, held \cup {s}}
          /\ PhaseEnds(s, "up", "nonzero", "down")
       \/ /\ held' = held \cup {s}
          /\ IF legs[lane[s].index] \in MixedLegs
             THEN Goto(s, "mix")
             ELSE PhaseEnds(s, "up", "zero", "ready")
    /\ UNCHANGED <<mirror, legs, book, results, checkouts>>

\* The directory at the leg's path (targetPaths), and the one a clone makes.
MixedHub(s) == {c \in checkouts : c.slot = s /\ c.index = lane[s].index}
NewCheckout(s) == [slot |-> s, index |-> lane[s].index, run |-> mirror.runs, marked |-> FALSE]

\* createMixedCheckout: a directory already there is refused, a failed clone
\* is removed again; until the marker is written the directory is torn.
BeginCheckout(s) ==
    /\ lane[s].at = "mix"
    /\ IF MixedHub(s) # {}
       THEN PhaseEnds(s, "up", "nonzero", "down") /\ UNCHANGED checkouts
       ELSE /\ Goto(s, "cloning")
            /\ checkouts' = checkouts \cup {NewCheckout(s)}
    /\ UNCHANGED <<mirror, legs, book, results, held>>

EndCheckout(s) ==
    /\ lane[s].at = "cloning"
    /\ \/ /\ checkouts' = (checkouts \ MixedHub(s)) \cup {[NewCheckout(s) EXCEPT !.marked = TRUE]}
          /\ PhaseEnds(s, "up", "zero", "ready")
       \/ /\ checkouts' = checkouts \ MixedHub(s)
          /\ PhaseEnds(s, "up", "nonzero", "down")
    /\ UNCHANGED <<mirror, legs, book, results, held>>

\* waitForStack: the probes of stackReady one after the other, from the first
\* again when one does not answer, until the deadline has passed.
PollStack(s) ==
    /\ lane[s].at = "ready"
    /\ \E up \in BOOLEAN :
        CASE up /\ lane[s].probe < Len(Probes) ->
                lane' = [lane EXCEPT ![s].probe = @ + 1]
          [] up /\ lane[s].probe = Len(Probes) ->
                PhaseEnds(s, "ready", "zero", "seed")
          [] ~up /\ lane[s].polls + 1 < MaxPolls ->
                lane' = [lane EXCEPT ![s].probe = 1, ![s].polls = @ + 1]
          [] OTHER -> PhaseEnds(s, "ready", "nonzero", "down")
    /\ UNCHANGED <<mirror, legs, book, results, held, checkouts>>

SeedOrRun(s) ==
    /\ lane[s].at \in {"seed", "run"}
    /\ \E code \in {"zero", "nonzero"} :
        PhaseEnds(s, lane[s].at, code, IF lane[s].at = "seed" THEN "run" ELSE "down")
    /\ UNCHANGED <<mirror, legs, book, results, held, checkouts>>

\* removeMixedCheckout: a directory without its marker is not removed, and
\* a leg that needs no mixed hub has none removed.
RemovedHub(s) ==
    IF legs[lane[s].index] \in MixedLegs THEN {c \in MixedHub(s) : c.marked} ELSE {}

-----------------------------------------------------------------------------
(* The runner.                                                             *)

\* Mutant: a streak that goes on when the failing phase changes.
StreakOfAnyPhase(b, result) ==
    IF result \in {"passed", "run"}
    THEN [b EXCEPT !.through = @ + 1, !.streak = NoStreak]
    ELSE [b EXCEPT !.through = @ + 1,
                   !.streak = [phase |-> result, count |-> @.count + 1],
                   !.abort = b.streak.count + 1 >= Threshold]

\* One result of the completed prefix after another is read into the streak.
Observed(b, result) ==
    IF result \in {"passed", "run"}
    THEN [b EXCEPT !.through = @ + 1, !.streak = NoStreak]
    ELSE LET count == IF result = b.streak.phase THEN b.streak.count + 1 ELSE 1
         IN  [b EXCEPT !.through = @ + 1,
                       !.streak = [phase |-> result, count |-> count],
                       !.abort = count >= Threshold]

\* observeCompletedLegs over the results as they are now.
observeCompletedLegs(b, rs) ==
    LET after[k \in 0..Len(legs)] ==
            IF k = 0 THEN b
            ELSE LET prev == after[k - 1]
                 IN  IF \/ prev.abort \/ prev.through = Len(legs)
                        \/ prev.through < Len(legs) /\ rs[prev.through + 1] = "pending"
                     THEN prev
                     ELSE Observed(prev, rs[prev.through + 1])
    IN  IF b.abort THEN b ELSE after[Len(legs)]

\* Mutant: a runner that does not look at what down answers.
DownIsNotLookedAt(s, code) ==
    IF lane[s].failure # "none" THEN lane[s].failure ELSE "passed"

\* What the leg's result is after a down that answered `code`.
legResult(s, code) ==
    IF lane[s].failure # "none" THEN lane[s].failure
    ELSE IF code = "zero" THEN "passed" ELSE "down"

\* The down phase answers 0 when `compose down` (of a compose file that is
\* there) and the removal did and docker lists nothing of the project any more.
\* A list that fails is read as an empty one, and nothing is then known of what
\* is left.  Whatever it answers, the leg has its result, which is read at once.
Down(s) ==
    /\ lane[s].at = "down"
    /\ \E left \in SUBSET (held \cap {s}), listed \in BOOLEAN,
          code \in {"zero", "nonzero", "rejected"} :
        /\ checkouts' = IF code = "rejected" THEN checkouts ELSE checkouts \ RemovedHub(s)
        /\ code = "zero" =>
               /\ listed => left = {}
               /\ legs[lane[s].index] \in MixedLegs => MixedHub(s) \subseteq RemovedHub(s)
        /\ code = "rejected" => left = held \cap {s}
        /\ held' = (held \ {s}) \cup left
        /\ results' = [results EXCEPT ![lane[s].index] = legResult(s, code)]
        /\ book' = observeCompletedLegs(book, results')
        /\ lane' = [lane EXCEPT ![s] = [Idle EXCEPT !.took = TRUE, !.blind = ~listed /\ left # {}]]
    /\ UNCHANGED <<mirror, legs>>

\* A lane takes the next leg, or finds there is none, or that the run aborts.
Pick(s) ==
    /\ mirror.pc = "running" /\ lane[s].at = "pick"
    /\ IF book.abort \/ mirror.next > Len(legs)
       THEN Goto(s, "idle") /\ UNCHANGED mirror
       ELSE /\ lane' = [lane EXCEPT ![s] = [Idle EXCEPT !.at = "up", !.index = mirror.next,
                                                          !.took = TRUE]]
            /\ mirror' = [mirror EXCEPT !.next = @ + 1]
    /\ UNCHANGED <<legs, book, results, held, checkouts>>

\* Whether the helper's modules resolve is a fact of the machine.
preflightReadinessHelper == BOOLEAN

\* main: what is asked for is selected and checked, or refused with exit 1.
\* With a run id of its own the runner sees none of the earlier checkouts;
\* with ATTEST_MIRROR_RUN_ID set it may find them.
StartMirror ==
    /\ mirror.pc # "running" /\ mirror.runs < MaxRunners
    /\ \E asked \in Asks, ownId \in BOOLEAN, resolves \in preflightReadinessHelper :
        IF asked \subseteq LegFiles /\ resolves /\ listLegs(asked) # <<>>
        THEN /\ mirror' = [pc |-> "running", exit |-> 0, runs |-> mirror.runs + 1, next |-> 1]
             /\ legs' = listLegs(asked)
             /\ lane' = [s \in Slots |->
                    IF s < Len(listLegs(asked)) THEN Idle ELSE Off]
             /\ checkouts' = IF ownId THEN {} ELSE checkouts
        ELSE /\ mirror' = [pc |-> "done", exit |-> 1, runs |-> mirror.runs + 1, next |-> 1]
             /\ legs' = <<>>
             /\ UNCHANGED <<lane, checkouts>>
    /\ book' = NewBook /\ results' = NoResults
    /\ UNCHANGED held

\* Every lane is done: abort throws, or the exit code counts the failed legs.
EndMirror ==
    /\ mirror.pc = "running"
    /\ \A s \in Slots : lane[s].at = "idle"
    /\ LET failed == Cardinality({i \in Indices : results[i] \notin {"passed", "pending"}})
       IN  mirror' = [mirror EXCEPT !.pc = "done",
                                    !.exit = IF book.abort THEN 1
                                             ELSE IF failed > 255 THEN 255 ELSE failed]
    /\ UNCHANGED <<legs, book, results, lane, held, checkouts>>

\* The machine goes down under the runner: no lane reaches its down phase.
Reboot ==
    /\ mirror.pc = "running"
    /\ mirror' = [mirror EXCEPT !.pc = "done", !.exit = 1]
    /\ legs' = <<>> /\ book' = NewBook /\ results' = NoResults
    /\ lane' = [s \in Slots |-> Off]
    /\ UNCHANGED <<held, checkouts>>

MirrorNext ==
    \/ StartMirror \/ EndMirror \/ Reboot
    \/ \E s \in Slots :
        \/ Pick(s) \/ SweepSlot(s) \/ Boot(s) \/ BeginCheckout(s) \/ EndCheckout(s)
        \/ PollStack(s) \/ SeedOrRun(s) \/ Unspawned(s) \/ HelperRefuses(s) \/ Down(s)

MirrorInit ==
    /\ mirror = [pc |-> "off", exit |-> 0, runs |-> 0, next |-> 1]
    /\ legs = <<>>
    /\ book = NewBook /\ results = NoResults
    /\ lane = [s \in Slots |-> Off]
    /\ held = {}
    /\ checkouts = {}

-----------------------------------------------------------------------------

\* The legs from the first one on that have all ended.
completed == {i \in Indices : \A j \in 1..i : results[j] # "pending"}

(* The run is given up exactly when, of the legs ended without a gap, some  *)
(* Threshold in a row failed in one and the same phase other than run: in   *)
(* whatever order the lanes end them (observeCompletedLegs).                *)
AbortIsEarned ==
    book.abort <=>
        \E i \in completed :
            /\ i >= Threshold
            /\ results[i] \notin {"passed", "run"}
            /\ \A j \in (i - Threshold + 1)..i : results[j] = results[i]

(* A runner that exits 0 ran every leg it was asked for, every one of them  *)
(* passed, and no lane left a checkout behind, nor a stack, but for one     *)
(* whose last down docker did not list the project to.                      *)
GreenRunIsGreen ==
    (mirror.pc = "done" /\ mirror.exit = 0) =>
        /\ legs # <<>> /\ \A i \in Indices : results[i] = "passed"
        /\ \A s \in Slots : lane[s].took => s \notin held \/ lane[s].blind
        /\ \A c \in checkouts : c.run # mirror.runs

(* A stack is never booted over the volumes of an earlier one, whose        *)
(* datadir holds another root password, whatever reboots and failed downs   *)
(* left in the slot (the driver's comment at its up phase).                 *)
NoBootOverASurvivor ==
    [][\A s \in Slots : (lane[s].at = "boot" /\ lane'[s].at \notin {"boot", "idle"}) => s \notin held]_mirrorVars
=============================================================================
