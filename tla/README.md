# XChain end-to-end harness: TLA+ models

xchain-e2e-test drives a running XChain stack (a coin node, its miner, a UTXO
tracker, an encoder, an indexer with its database, a hub) through thousands of
on-chain actions and decides from what it can *see* of the stack whether each one
worked. The program is therefore mostly waiting, retrying, accounting and cleaning
up beside services it does not control. These models are about that: what the
harness may conclude, spend, leave behind and give up on, whatever the services do
in between.

- [Inventory](#inventory): components, state, operations, what is hard
- [Modules](#modules): what each models, and how it corresponds to the code
- [Runs](#runs): what TLC checks, on which bounds
- [Disagreements](#disagreements): where the code and its comments part, and what else
  was met while reading it
- [Proofs](#proofs): what holds for every value of the constants, and why
- [Simplifications](#simplifications) and [what is not modelled](#not-modelled)
- [Plan](#plan)

To check: `tlc -config X.cfg MCModule` for a run of the table below,
`tlapm M_proofs.tla` for a proof module.

## Inventory

| component | state it keeps | operations | what is hard |
|---|---|---|---|
| row waits, `src/db.js` `_waitFor`, `getConnection` | deadline, extensions, probe and write marks; connect attempts | poll, probe the pipeline, extend, connect, back off | a probe straddling the deadline, evidence that is stale, a dead pool under a live wait |
| row checks, `src/db.js` `checkX` | none | 43 queries built clause by clause from what the caller gave | null, 0 and '' as given values; spellings; empty WHERE |
| transaction pipeline, `test/transactionHelper/lib` | one shared list of coins for the next call | build, sign, broadcast a transaction or a commit/reveal pair, settle, retry | lost answers, a lagging tracker, evicted transactions, an abandoned call beside its successor |
| fixture-stake ledger, `test/helpers/stakeTeardown.js`, `stakeHelper.js` | a Map of stakes the run owes; the sweep's result | register, note, sweep, clear a wedge, settle, read the set, report | rows that land after their wait gave up, a stalled indexer, a budget, a delay |
| gas funding, `test/helpers/gasHelper.js` | a reservoir and its accounting per chain; miners' heartbeat | mint, bridge in, refill, send | partial failures of a long bridge, refills, fees, concurrent abandoned calls |
| chain rails, `test/helpers/chainRail.js` | process-wide globals and environment of the active chain | create, enter, exit a rail | every `await` under a swapped global; overlapping rails |
| bootstrap and root hooks, `test/initialCheck.test.js` | environment, connectors, baseline | resolve, ping, pace, afterEach barrier, afterAll | a hook that passes on a dirty stack, a redacted password that reaches a connector |
| hub connector, `src/XChainHubConnector.js` | last failures and refusals, whether secrets were redacted | call over several endpoints, config fetch | endpoints of different ages, degraded answers, 200s that are errors |
| miner and tracker connectors, `src/RegtestMinerConnector.js`, `src/XChainUtxoTrackerConnector.js` | none of their own | control calls, `quiesce` | a controller that answers 200 to everything; a barrier that lets a dirty stack through |
| disposable databases, `test/helpers/disposableHubDb.js`; live tier, `scripts/run-live-tier.js` | container, port, environment; roster, report, exit code | start, stop, reap, audit, classify | lanes that share one docker daemon, a reaper beside a live suite, a verdict nobody checks by hand |
| seed tools, `bin/seed-contract-state.js`, `bin/seed-escrow-state.js`, `bin/seed-preview.js` | a resume file: what is in flight and what is done | preflight, plan, submit, settle, fill, verify | killed at any await and run again against a chain that kept moving; every transaction costs money |
| attest-mirror runner, `scripts/run-attest-mirror.js` and its driver | lanes, results, a streak; docker volumes and checkouts on disk | up, ready, seed, run, down; abort | lanes end out of order; a reboot or a failed down leaves a stack behind |
| rail drives, `scripts/rail_leg_drive.js`, `rail_drive_sweep.js` | a journal file per drive, a mocha child | look for competitors, clear, spawn, limit, judge | a verdict read from a file that earlier or other runs also write |
| byzantine drill, `test/drills/physicalByzantine.drill.js` and `lib` | phase, leader, victims; per validator process its fault, unread commands, database | boot a mesh, command with timeout, inject faults, propose, judge, drop | commands read long after the driver gave up, faults left over from a failed phase, half a mesh |
| federation venues (rollcall, oracle batch, bridge) | processes, schemas and rows of other repositories' services | assemble, drive, read | mostly external state |
| coins, config, scripts, bin | none | lookups, text scanners, reports | - |

How they interact. A suite calls an action helper. The helper formats a message,
hands it to the transaction pipeline, and waits for a row: the wait (`_waitFor`)
polls a check (`checkX`) over a connection of the pool. Stake helpers also book in
the ledger, and *only when the row was seen*. A funded address takes gas from the
reservoir, whose refill runs a whole bridge under another chain's globals. The root
hooks run around all of it. All of the harness is one event loop: a step of the
models runs from one `await` to the next, and only an abandoned call (a test the
runner timed out, or a funding call whose budget ran out) ever runs beside another.
The tools are different: a live-tier lane, a mirror lane, a rail driver and a seed
tool are processes of their own on a shared machine or chain, which are killed and
run again, and what they meet there is what earlier ones left.

What makes each component correct:

- *waits*: bounded; find what is visible; extend on evidence only;
- *checks*: answer only what was asked, overlook nothing described, find nothing
  when nothing was asked;
- *pipeline*: however often it retries, a call is at most one action; it spends its
  own coins; what it saves for the next call can be spent;
- *ledger*: what stands on the indexer is owed; what survives the sweep is named;
  the sweep ends;
- *gas*: the accounting never believes in gas that is neither there nor on its way;
  a reservoir pays on its own chain; the globals and heartbeats are put back;
- *hooks and connectors*: a healthy hub wins; no sentinel authenticates; what the miner
  is believed to do it does; no test starts on a stack that never came to rest;
- *live tier*: an exit code says what happened; a suite keeps its database;
- *seed tools*: however often they are killed, no twin of work in flight, one contract,
  no order too many, nothing paid for against what the chain does not carry;
- *aggregate runners*: green means all ran, all passed and all is clean; a drive is
  judged by its own journal; an abort is earned;
- *drill*: a phase is judged under its own faults and no others; a green phase had the
  votes it claims, or lacked them.

`PROJECT.json` lists the hazards at their lines, with the properties that cover them
or the reason why none does.

## Modules

| module | models | checked by | proved in |
|---|---|---|---|
| `DbWait` | one adaptive wait and the connect loop under it | `MCDbWait` | `DbWait_proofs` |
| `RowChecks` | the check methods as the clauses they build | `MCRowChecks` | `DbWait_proofs` |
| `TxPipeline` | the pipeline, over several calls | `MCTxPipeline` | `TxPipeline_proofs` |
| `OneAction` | what a suite may rely on of a call; refined by `TxPipeline` | `MCTxPipeline` | `TxPipeline_proofs` |
| `StakeTeardown` | the stake helpers, ledger, sweep, report | `MCStakeTeardown` | `StakeTeardown_proofs` |
| `GasRail` | gas calls, reservoirs, rails, heartbeats, bridge | `MCGasRail` | `GasRail_proofs` |
| `RootRun` | the one program counter of a mocha run | through `Bootstrap` | - |
| `HubConnector` | a call over the endpoints, the config fetch | through `Bootstrap` | `Bootstrap_proofs` |
| `TestStack` | miner control, the quiescence barrier, the stack under a test | through `Bootstrap` | `Bootstrap_proofs` |
| `Bootstrap` | the root hooks; composes the two above | `MCBootstrap` | `Bootstrap_proofs` |
| `HubDb` | the disposable database and the docker daemon | through `LiveTier` | `LiveTier_proofs` |
| `LiveTier` | the runner of the live tier; composes `HubDb` | `MCLiveTier` | `LiveTier_proofs` |
| `SeedWire` | ledger, settling and submission of both seed tools; the chain | through `SeedTools` | `SeedTools_proofs` |
| `SeedContract`, `SeedEscrow` | what each tool reads, plans and does | through `SeedTools` | `SeedTools_proofs` |
| `SeedTools` | an operator runs one of them again and again; composes the three | `MCSeedTools` | `SeedTools_proofs` |
| `MirrorLegs` | the attest-mirror runner and its stack driver | through `VenueRuns` | `VenueRuns_proofs` |
| `RailDrives` | the rail driver, its mocha child, the sweep | through `VenueRuns` | `VenueRuns_proofs` |
| `Drill` | the byzantine drill, its driver and its validators | through `VenueRuns` | `VenueRuns_proofs` |
| `VenueRuns` | one operator, one of the three jobs | `MCVenueRuns` | `VenueRuns_proofs` |

Definitions whose comment begins with "Mutant:" are plausible bugs: variants of the
definition that follows them, kept to show that each property can fail. Nothing
else uses them.

**DbWait.** Time is discrete; `now` passes in every await. `Resume` is the loop test
and the decision to poll; `Connected`, `ConnectFails`, `Spent`, `Backoff` are
`getConnection`; `QueryFinds` and `QueryMisses` the poll; `NoProbe`, `PauseAndLoop`,
`PauseAndProbe` the sleep and the choice to probe; `ProbeTip` and `ProbeAnswers` the two
halves of `_probePipeline`, between which the venue moves; `Judge` everything the loop
does with an answer, extensions included. The node, the indexer, the action rows and
the database are external and move at any time.

**RowChecks.** Each method is a function from its parameters to the kind of clause it
builds (`exact`, `truthy`, `memo`, `number`, `flag`, `hex`, `amount`, `own`, `items`,
`ignored`), and `Passes` says what each kind lets through. `Poll` puts a request to a
table of rows; `AtOnce` bounds the parameters a request varies and `RowCount` the rows.
Values are `A`, `B`, `''`, `0`, null, and a second spelling of `A`; `CallersAssumption`
says which of them callers give to which kind of parameter. `Means` is what a caller
means by a value, stated apart from the clauses. `checkList` is the one method with a second
query, of the items of a list it found (`ItemsAgree`): the column it selects follows from
`type`, so without one, or with a type it knows no join for, that query fails and the
method answers null (`ItemTypes`). Its callers always give a type (`Always`); the run also
asks without.

**TxPipeline.** Per call: where it is (`pc`), its attempt, the coins it lists and
spends. `cache` is the shared `transactionState`. The actions follow
`createAndSendTransaction` and `_doCreateAndSendTransaction` await by await: `Start`,
`TakeCache`, `Build`, `BuildReveal`, `Send`, `SendReveal`, the three ways of settling, and
`Raise` with `DropCache` and `QuiesceEnds` for the retry; `StartSimple` and `Pick` are
`createSimpleTransaction`. A transaction is `<call, attempt, role, input>`. The node accepts
it if its input is spendable, and its answer may be lost; `MineBlock`, `TrackerIndexes`
and `Evict` are external.

**OneAction** has two variables, a phase per call and the set of calls whose action
stands. The node accepts a call's action at most once ever, whether or not the call
hears of it; it may forget it. `ImplementsOneAction` maps `settle` and `fallback` to
"heard" and everything before to "open".

**StakeTeardown.** `op[i]` is the i-th STAKE or UNSTAKE: its wait (`waiting`, `gaveup`,
`booked`) and its transaction are separate, since a row can land after its wait gave
up. `registerStake` and `noteUnstake` are the ledger's functions; the sweep's actions
follow `releaseStakes` and `clearWedgeIfPresent`; `Settle`, `ReadSet` and the
`NotSent`/`NotSettled`/`Leaked` classification end the run. The indexer applies
transactions late, may park on a stall, and keeps a released key for `Delay` blocks.

**GasRail.** Each call has its own `local` record (the key it closed over, the rails it
will put back, the amount, the miner) because in the code these are locals, while
`rail`, `reservoir`, `remaining` and `heartbeat` are shared. `Start` is `enterRail` and all
that runs before the first await; `FundReservoir`, `CreateRail`, `HeatBTC`, `HeatDest`, `Lock`,
`Credit`, `CoolBTC`, `CoolDest` follow `fillGasReservoir`, `bridgeGasIn` and
`withIdleMining`; `Send` and `Sent` are `sendFromGasReservoir`; `Leave` is `exitRail`, taken
on return and on throw. `Abandon` is a funding budget running out
(`bridgeRailVenue.fundUnderBudget`): the call goes on.

**HubConnector** is `_call`, `ping` and `getAllConfig`. `NextEndpoint` is an endpoint that does
not end the call; `Hears` the one that does, with `Result` what it returns. What an
endpoint may answer depends on the ask and on the keys the environment holds (`Answers`):
endpoints may be dead, up over a dead database, unwilling, or of the time before the
envelope that says whether passwords were withheld. `FetchHeard` asks at the credential
tier and, where that is turned down, in the old shape.

**TestStack** has the stack (mempool, the tracker's lag, which services answer, what holds
in the miner), the control calls with the five kinds of reply the miner's controller
gives (`unwrap`, `Control`, `setMockTime`), and `quiesce` poll by poll (`Poll`, `Nudge`,
`BudgetSpent`). A reply without a payload says nothing of whether the call took
effect; a miner that restarts forgets its settings.

**Bootstrap** runs the hooks of `initialCheck.test.js` over both: `FromEnvironment` or the hub,
`Resolves` with the credentials (`hubCredential`, `assertUnredactedCredential`), the pings,
the miner's deadline, the pace, then tests with `afterEach` between them, `HookFails` and
`afterAll`. The stack moves between any two of these.

**HubDb** is `startDisposableHubDb` and `stop`: probe and reuse, the lowest free port, create,
boot, wait. `docker run` is two steps, since the container exists before it runs.
**LiveTier** is `main` and `reapStaleFixtureContainers`: `Main` audits the roster and asks for
a blocker, `Lists`, `Inspects` and `Reaps` are the three docker commands of the reaper,
`Suite` what mocha reports of a suite, `Verdict` the report's exit code. Lanes are killed at
any step and leave their container.

**SeedWire** knows a transaction by the order it was broadcast in and gives it a `fate` on
the chain; `pending` is the resume file's ledger and `saved` the rest of the file.
`SettlePending` and `ClearPending` deal with what an earlier run left, `NodeAccepts` to
`Recheck` are `makeSubmitChecked`, `Killed` and `TornFile` end a run at any await. `lost` is a
ghost: the transactions whose txid no run ever had, or which the operator (or a torn
file) threw away. `listRows` is what a list of the explorer may read as: the truth, a document
without rows, or the rows less those whose status cannot be read; a request that fails is
another action. `misread` and, on the transaction it leads to, `blind` are ghosts that remember
a list that answered short. **SeedContract** follows `seed-contract-state.js` from preflight through
ISSUE, MINT, DEPLOY, fill and remove to the verification; **SeedEscrow** the order loop of
`seed-escrow-state.js`; **SeedTools** adds the operator, the indexer's verdicts and a
re-genesis between two runs.

**MirrorLegs** has a lane per docker slot; each takes the next leg (`Pick`) through the
driver's phases, and `PhaseEnds` sends it on or down. `held` is what docker keeps of a
slot, `checkouts` the mixed hub's directories, both of which outlive the runner;
`observeCompletedLegs` is the streak over the completed prefix. `Down` asks docker what is left,
and docker may not say: `blind` is a ghost for a driver that answered 0 over an
empty answer with something left. **RailDrives** has drivers
(`findCompetingDrive` to `Triage`), their mocha children, which outlive them, the journal
of each drive and the sweep.

**Drill** follows `physicalByzantine.drill.js` test by test: `StartMesh` and `CheckMesh` are the
first hook and A; `realign`, `findLeader`, `applyFaults`, `Propose`, `Judge`, `clearFaults`,
`realignAfter` are B, C, E and F, which differ in `mode`, in how many victims and in the verdict;
`Forge` is D; `dropDb` and `stop` the last hook. A `validator` is its process (up, stalled,
exited), its fault and the commands in its stdin (`inbox`). `sent` is `NodeHandle.send`: one
that is up handles a command before the driver goes on, a stalled one gets it in its
stdin and the driver times out, one that exited refuses. `ReadsLate` is the stalled one's
`handle`, later. The hubs are external: a `round` has a phase and a number of votes that
verify, fixed when the proposal reaches them, and `Applies` needs a quorum of them.
Two ghosts name who may be under a fault that is not the phase's: `unconfirmed`, who was
told to change its fault and never answered, and `drill.left`, victims that did answer when
another of their phase did not, so that its test failed with nobody to clear them.

**VenueRuns** chooses which of the three the operator runs.

`Bootstrap`, `LiveTier`, `SeedTools` and `VenueRuns` compose modules that share variables. The
others meet at the interfaces the code has: `StakeTeardown`, `TxPipeline` and `GasRail` take
from `DbWait` only that a wait ends, with the row or without it, at any time, and from
`RowChecks` what a row that was found says. `GasRail` makes one query's weakness visible
at that interface: a wait for a credit asks by address, tick and amount, so `Credit`
accepts any such row.

## Runs

| run | instance | what it shows |
|---|---|---|
| `stake_sweep` | two keys, one seeded before the run, one staked both for its capability and into a contract; 2 test transactions, 6 in all; tests may be abandoned | `StandingStakeIsOwed`, `SurvivorsAreReported`, `AtMostOneRetry`, `RunEnds` over every interleaving of late rows, stalls, the retry and the budget |
| `wait_deadline` | timeMax 3, one extension, two action rows, every fault: pool down, credential refused, failing query, dead probe | `WaitIsBounded`, `VisibleRowIsFound`, `ExtensionsNeedEvidence`, `WaitEnds` |
| `row_checks` | every method, any two of its parameters, two rows; lists with and without a type | `AnswersWhatWasAsked`, `FindsWhatIsThere` |
| `tx_pipeline` | three calls of two senders, the second a plain payment, the first may be abandoned; 2 attempts, one eviction | `OneSpendPerCall`, `OwnCoins`, `VerifiedCacheIsSpendable`, `CallsEnd`, `ImplementsOneAction` |
| `gas_rail` | three calls on litecoin, dogecoin, litecoin, the first may be abandoned | `RailsNest`, `OwnReservoir`, `BelievedIsCovered`, `QuietUnlessThrew`, `CallsEnd` |
| `seed_tools` | three runs of either tool, five transactions, one dropped or refused, reads that fail or answer short, torn files, one re-genesis; 3 keys, 2 orders | `OneInFlight`, `OneContract`, `DoneMeansSeeded`, `OrdersWithinTarget`, `ExecutesHitTheContract`, `RunEnds` |
| `bootstrap` | two hub endpoints, two secrets, three services, two tests, one outage | `HealthyAnswerWins`, `NoSentinelAuthenticates`, `NoTestOnADirtyStack`, `ControlsTookEffect`, `RunEnds` |
| `live_tier` | a lane beside a suite run by hand, rosters of up to two entries, two files with and without children, two ports, one kill | `VerdictIsEarned`, `StartedSuiteKeepsItsDatabase` |
| `venue_runs` | two runner invocations over three legs, one of them mixed, two lanes, a reboot; or two drivers over two drives and the sweep; or a drill of four validators, one labelled byzantine, one stall or exit (1.5 million states, three minutes) | `AbortIsEarned`, `GreenRunIsGreen`, `NoBootOverASurvivor`, `GreenDriveIsItsOwn`, `DriveEnds`; `FaultsAreThePhases`, `GreenDrillIsEarned` |

and three runs that end in a violation, below.

*Why the bounds are enough.* Two stake operations of tests are the shortest history in
which an unstake can note away a later stake; one entry's sweep costs at most two
sends, so six transactions let both entries of a key use their retry. A wait of 3 with
one extension contains a poll, a probe, an extension and a second deadline, and
`MinForExtension` 3 makes it eligible; connecting and probing take time of their own, so each
can straddle the deadline (a query takes none in this run, one of its own in
`wait_gives_up_behind`). A mark of the action rows moves only against an earlier one, so
two rows are needed for an extension that rests on writes alone: the first is sampled
before the second is written. The eligibility rule and the probe interval are parameters.
With three calls a list saved by the first and used by the third passes a payment of
the second, and an abandoned first call overlaps both; a second attempt reaches each
retry path, and attempts differ in nothing but their count. In `gas_rail` a bridge of 3
against a cost of 2 makes the third call a refill of the first one's reservoir, with
another chain's call in between. `RowChecks` needs pairs because a clause reads one
parameter, and own-address reads two.

Five transactions take the contract tool through DEPLOY, fill and remove with one sent
again, over a chain that had its gas or was given it by the run; three runs are a
kill, a rerun that settles what it left, and one after it. Keys 3 over 2 base keys with
batch 1 leave one fill and a `remove` that takes the count below the target. Of the fill
loop's two brakes the run reaches the one on progress; the one on rounds would need more
transactions than five. Two
endpoints are a degraded one before and after a healthy one; two polls are a nudge and
a look at what it did. One killed lane beside one by hand is the shortest history in
which a container is left, listed, inspected and removed while another boots. In
`venue_runs` the threshold is 2 where the code has 3, so that a streak, a broken streak and
a streak that changes phase all fit in three legs; a second invocation finds what the
first or a reboot left; two drivers are one and its competitor, or one and the
orphan of the other. Four validators are the smallest the planner allows, with f = 1: a
phase's victims are one or two, and one lapse suffices for a victim that never confirms
its fault, a leader that proposes a phase too late, a laggard, and a schema left
behind. The leader is one the plan does not label, so victims come from both lists.
The types of `StakeTeardown` and `TxPipeline` are proved for every constant and not in
their runs.

*Fairness.* `DbWait`, `TxPipeline` and `GasRail` assume weak fairness of the steps of a wait
or of a call, never of the venue: every await in the code returns or times out, and
the event loop resumes it. No block, row, credit or recovery is assumed to come.
`StakeTeardown` assumes it of the teardown's steps and of the running test's
own timeout; the sweep's unstake always ends because its wait does, which is `WaitEnds`.
`Bootstrap` assumes it of the harness, whose tests mocha's timeout ends, and of no
service. `SeedTools` assumes it of a running tool, whose requests have timeouts; nothing
makes the operator start another. `VenueRuns` assumes it of each driver's own steps, its
timers among them, and not of the child: `DriveEnds` is about a child that ignores its
signal. The mirror runner has no such property because its driver calls have no timeout, and
the drill claims nothing about ending.

*Deadlock* is checked where the system goes on or `Finished` stutters when all is over.
`bootstrap` and the runs of `LiveTier`, `SeedTools` and `VenueRuns` switch it off: a process
that has exited has no next step.

## Disagreements

Three runs check a sentence of the repository and find a state where the
code does otherwise. `PROJECT.json` quotes the lines.

- `wait_gives_up_behind`: a probe asked for before the deadline and answered after it
  may not extend, so a wait can end on a measured lag with extensions left.
- `gas_refill`: the wait of a refill is answered by the previous refill's credit, and
  the accounting counts gas before it lands. `BelievedIsCovered` shows the damage is
  bounded: what is believed is at least on its way.
- `live_tier_reaps`: a container that exists and is not yet running counts as stale, so a
  lane's reaper can remove the database of a suite that is starting beside it.
  `StartedSuiteKeepsItsDatabase` is what does hold: it excepts exactly those containers,
  which the ghost `early` collects.

What the properties above leave room for, found while translating and worth a
second look:

- *Waits.* The poll swallows `E2E_DB_UNREACHABLE` (`db.js:1359`, thrown at 142-149), so an
  unreachable pool does not end a wait before its time. A null last status after
  successful nudges drops their tally from the barrier's report. The funding wait of
  `cryptoHelper.js:102` nudges a sixth time and does not look again.
- *Pipeline.* A call can return while its transaction is unconfirmed
  (`02_do_create_and_send_transaction.js:215`, against 91-93); `txn-mempool-conflict` is not
  among the stale patterns (`01_create_and_send_transaction.js:36`).
- *Stakes.* Strict mode throws for keys that are only inside their deactivation delay
  (`stakeTeardown.js:515`, against 480-481).
- *Hub.* A 200 with only an error member is no refusal (`XChainHubConnector.js:106` and
  152-156). The hub's password wins over the environment's (`hubCredential`), and the names
  it falls back to are not those the harness otherwise reads (`initialCheck.test.js:146`).
- *Live tier.* With dead credentials set and no docker the suites skip themselves and the
  tier exits 1, not the venue's 95. A container inspected early (above). A port is probed
  long before it is bound.
- *Seed tools.* A kill between the broadcast of `remove` and the write of `tombstoned` sends
  a second `remove`; the flag and `fillNext` survive a re-genesis. An error document is an
  absent token, an empty balance or one key (`countLiveKeys` counts the document's
  fields), hence a second ISSUE, MINT or fill. A lookup of the contract that answers with one,
  and so does not throw, is "no contract yet" (`seed-contract-state.js:1395`) and a second
  DEPLOY follows, against "a lookup that FAILS is not a lookup that found nothing" (1382). An
  order whose status cannot be read counts as released (`seed-escrow-state.js:284`); the
  brake that its unit test says catches the twin (`seed_escrow_state_helpers.test.js:105-107`)
  compares counts that the twin itself raises. `OneContract` and `OrdersWithinTarget` are what
  does hold: they except exactly what was sent on a list that answered short. The resume file is rewritten in place.
- *Mirror runner.* A driver call has no timeout. Two runners on a host share the slots. With a
  fixed `ATTEST_MIRROR_RUN_ID`, a reboot in mid-clone leaves an unmarked directory that makes
  this leg's `up` refuse for ever. `down` ends on three tests that
  docker lists nothing, and a failing `docker ps` or `docker volume ls` reads as an empty list
  (`attest-mirror-stack-driver.sh:117-119`): it answers 0 with volumes left, and the run can end
  green over them; `GreenRunIsGreen` excepts them. A down that
  fails after an earlier failure is not reported.
- *Rail drives.* Two drivers may both find nobody before either spawns. A driver that ends
  before it removes the journal leaves yesterday's, which the sweep reads. The child's exit
  code is not part of the verdict, and the sweep's exit code says only that every drive
  has a reading.
- *Drill.* `applyFaults` stands outside the `try` (`physicalByzantine.drill.js:250`), so a victim
  that does not answer leaves the others faulted, with no `clearFaults`, into a phase that counts
  them as honest, against "whichever validators are faulted right now" (168-169); and `clearFaults`
  swallows failures. `FaultsAreThePhases` shows who may be left faulted by either, and that nobody
  else is. A phase
  that throws before its verdict is pushed is missing from the summary, whose RESULT can
  still be PASS, against "MISSING EVIDENCE IS NEVER A PASS" (`drillVerdict.js:19`); mocha does
  fail. The `proposed` event is never read, so C and F pass when the proposal was
  refused or never reached anyone: `GreenDrillIsEarned` can claim nothing more of them than
  "if there was a round, it had no quorum". `evaluateBoundary` passes an empty
  list. A deploy that fails in the middle of `startMesh` leaves the validators before it
  running, against the comment at `drillRunner.js:204`, and no failed start drops a
  schema. "One config key per phase" (`physicalByzantine.drill.js:109`) is one key with a
  value per phase.

## Proofs

Each proof module extends its component (`DbWait_proofs` the wait and the check methods it
polls) and cites only the named assumptions of its constants. TLC evaluates the assumptions in the runs.

| theorem | says | argument |
|---|---|---|
| `StakeTeardown_proofs!TypeCorrect` | types | - |
| `StandingStakesAreOwed`, `SweepNamesItsSurvivors` | `StandingStakeIsOwed`, `SurvivorsAreReported`, if the runner abandons no test | `IInv` |
| `RetriesAreBounded` | `AtMostOneRetry`, abandoned tests included | `RetryInv` |
| `DbWait_proofs!TypeCorrect`, `WaitsAreBounded` | `WaitIsBounded`, every tunable and every fault | `IInv`: `DeadlineBounded`, `Lateness` |
| `RowsAreFound` | `VisibleRowIsFound` | `FoundInv` |
| `ExtensionsAreEarned` | `ExtensionsNeedEvidence` | `EvidenceInv` |
| `AnswersAreAsked`, `NothingIsOverlooked` | `AnswersWhatWasAsked`, `FindsWhatIsThere`, any number of parameters and rows; lists without a usable type aside | `CallInv`, `MatchIsWanted` |
| `TxPipeline_proofs!TypeCorrect`, `CallsSpendOnce` | `OneSpendPerCall`, any plan, abandonment, eviction | `IInv`: `NodeHoldsThisAttempt` and its companions |
| `CallsAreOneAction` | `TxPipeline` implements `OneAction` | step by step from `IInv` |
| `CoinsAreOwn` | `OwnCoins` | `OwnInv` |
| `VerifiedListsAreSpendable` | `VerifiedCacheIsSpendable` | `SpendableInv` |
| `GasRail_proofs!TypeCorrect`, `RailsAreNested`, `ReservoirsAreOwn` | `RailsNest`, `OwnReservoir` | `Nested` |
| `AccountingIsCovered` | `BelievedIsCovered`, any number of calls and any amounts | `CoveredInv` |
| `HeartbeatsAreOff` | `QuietUnlessThrew`, also with abandoned calls | `HeartbeatsAnswered` |
| `Bootstrap_proofs!TypeCorrect`, `HealthyAnswersWin` | `HealthyAnswerWins` | `CallInv` |
| `SentinelsStayOut`, `TestsStartAtRest`, `BeliefsTakeEffect` | `NoSentinelAuthenticates`, `NoTestOnADirtyStack`, `ControlsTookEffect` | `RestInv` for the second |
| `LiveTier_proofs!TypeCorrect`, `SuitesKeepTheirDatabases` | `StartedSuiteKeepsItsDatabase` | `HostInv` |
| `VerdictsAreEarned` | `VerdictIsEarned` | `RunInv`, `HandInv` |
| `SeedTools_proofs!TypeCorrect`, `NoTwinInFlight`, `LedgerKnowsTheWire` | `OneInFlight`, `WireIsKnown` | `TypeInv`, `WireInv` |
| `OneContractPerChain`, `ExecutesAreOnChain` | `OneContract`, but for a DEPLOY on a lookup that answered short; `ExecutesHitTheContract` | `ContractInv` |
| `OrdersStayWithinTarget` | `OrdersWithinTarget`, but for an order on a list that answered short | `OrdersInv` |
| `RunsLeaveKeys` | `DoneMeansSeeded`, every target and batch | `CountInv` |
| `VenueRuns_proofs!DrillFaultsAreThePhases` | `FaultsAreThePhases`, every f, any stalls and exits | `DrillInv` |
| `GreenDrillsAreEarned` | `GreenDrillIsEarned`, every f, any stalls and exits | `EarnInv` |
| `AbortsAreEarned` | `AbortIsEarned`, any plan, lanes and threshold | `BookInv` |
| `VenueRuns_proofs!GreenRunsAreGreen` (but for a stack docker did not list), `NoSurvivorIsBootedOver`, `GreenDrivesAreTheirOwn` | `GreenRunIsGreen`, `NoBootOverASurvivor`, `GreenDriveIsItsOwn` | `VenueInv` |

*Stakes.* That a standing stake is owed is not inductive: an unstake that took effect
writes the ledger only when its row is seen, maybe after a new stake. The
strengthening says that at most one call is awaited (`OneAwaited`, where abandoned tests
are excluded), and that an unstake which took effect and is still awaited left nothing
booked (`AwaitedUnstakeCleared`). `OwedIsTracked` then carries an owed entry from the
sweep's snapshot to its result.

A second send is possible only for the entry at hand and only once: nothing was sent for
an entry before its turn, and one at most before its retry (`RetryInv`).

*Waits.* `WaitIsBounded` bounds `now`; the induction bounds the deadline by the extensions
used, and each await's start by its share of one overrun past the deadline (`Lateness`).
A probe that was asked for after the deadline found an extension left, which is why
the count cannot run over. A row that stays unseen is younger than the time since the
last poll that could have seen it, and each place in the loop has its share of one gap
(`SeenInv`). For the extensions, a tip that was read is at most the tip (`TipsAreSeen`),
a probe is asked for within one pass of the loop after it is due (`ProbesInTime`), and a
mark that moved has a write to show (`MarksAreWrites`).

*Rows.* What a check method filters by is read off the method (`KindIs`); on the values its
callers give, each kind of clause lets through exactly the rows that were meant
(`ClauseMeans`), so a row that matches is a row that is wanted (`MatchIsWanted`), the methods
that ignore a parameter aside. Then an answer of null means no row matched, or a list
that did had other items (`CallInv`), or was asked for with a type its items cannot be read
by.

*Pipeline.* What the node holds of a call was sent in its current attempt
(`NodeHoldsThisAttempt`): a retry follows only an error that proves nothing of this call
is there. That a reveal refused as stale has no commit on the node needs
`CarriersAreForReveals`. Whose coins a call lists follows from the saved list being of the
address it is saved for (`OwnInv`).

That a verified list is spendable rests on order. The calls of an address run one by one
(`SerialInv`), so they are mined and indexed in the order of their numbers (`OrderInv`). When
the tracker shows the last change, all the address has sent is therefore confirmed: nothing
on the node spends a listed coin, and no eviction takes back the transaction that made it
(`Lasting`). `ListInv` keeps that until the next call takes the list.

*Gas.* While nobody is given up on, the calls run one by one (`OneByOne`), so the saved
globals of the one at work are the suite's, and those its bridge saved are its
chain's (`OnItsRail`); reservoirs are then entered, live and are used on one chain
(`Housed`). For heartbeats each miner that is on has a call that will still switch it off,
or has failed to and will throw (`Answers`), unless some call threw already.

What a reservoir is worth is its balance, the locks still to be credited, and the fee and
the amount of a send not yet booked (`Worth`). The belief is never above that, also not with
the amount that a bridge has locked and has still to add (`Counted`, `Due`). Each call
locks once, so the sum over calls changes in one place at a time (`Fresh`).

*Hooks.* While a call is under way nothing healthy was heard, and what it kept is the last
body an unhealthy endpoint sent (`CallInv`). Under a barrier a stack at rest has been
noted to be, and a status that says so is judged at once (`RestInv`); without that a
nudge could make an earlier status stale.

*Live tier.* What is old or stopped serves nobody, what a lane is about to remove serves
nobody or was inspected before it was started (`NobodyNeeds`), and a lane has its own
container under its tests (`Served`). For the verdict, `RunInv` ties the report to what
each suite did.

*Seed tools.* Everything rests on `WireIsKnown`: a run plans only when nothing of its own is
unindexed and not lost, and while it sends that is the one transaction being sent
(`WireInv`), because settling comes before planning. So when it looks for a contract or
counts orders its reading holds until it is used: unless the list answered short, no index
means no DEPLOY but its own (`NoneButMine`), and open and sent orders together never pass the
count it read (`OrdersInv`). An order sent on a list that did answer in full is
within the target, whatever short ones came before it. A count of keys that was read once is never above the base keys and the bulk
keys the contract was given, its tombstone aside, and those only grow while a run lasts;
past the fill a run has counted its target (`CountInv`).

*Runners.* A leg taken and still pending is in exactly one busy lane (`LegInv`, `OwnLegs`), and
an idle lane's slot or a checkout of this run is left behind only if some leg failed
or docker did not list it (`LaneInv`, `CheckoutInv`), so a run without failures is clean but
for that. A driver that is `alone`
is the only one whose child runs (`Alone`), and from its clearing on the journal holds its
own entries only (`OwnJournal`).

The mirror runner's book is right about the results it has read (`ReadOf`): none is pending,
its streak is the longest at their end, and it aborts exactly when that reaches the
threshold. It reads on until it aborts or meets a leg that is pending (`Stuck`), so a
result that comes later changes nothing it has read. What the recursive reading of the
results returns is an induction over the plan's prefix.

*Drill.* A stalled validator acts later, so what counts is its fault and what its unread
commands can still do to it. `DrillInv` says that a validator outside `unconfirmed`,
`drill.left` and the victims has no fault and reads of none, and that a victim has the phase's and
reads of no other, because it answered before the phase went on. Both hold of any
record that is `Alike`, to which `Forge`, proposals, votes and lapses lead.

For a green drill, the victims are as many as the phase wants, because `turn` numbers the
validators it draws (`VictimsInv`). Those that withhold are not among the votes of the
phase's round, so votes and victims together are at most 3f + 1, and who has the value has
it from a round with a quorum (`VotesInv`). Nothing of a phase is there before its proposal
(`NothingEarly`). All of it is claimed while no phase was judged red.

*Induction over data.* The library's induction theorems take an operator, which the provers
cannot instantiate. Where a value is computed by recursion (sums over calls, the mirror
runner's reading, the first missing key) the proofs use induction in the form of a set
that contains 0 and the successor of each member (`NatSetInduction`), or of a least element
(`LeastOne`), both from the well-foundedness of the naturals.

*Model-checked only.* Liveness (`RunEnds` of three modules, `WaitEnds`, `CallsEnd` of two,
`DriveEnds`): the prover does not reason about fairness here. Every other property of the
passing runs, the invariants, action properties and the refinement, is a theorem.

## Simplifications

- StakeTeardown: one source per key; other suites' keys are left out; the sweep takes
  entries in any order; the budget is a flag that drops at any time; `Delay` stands for
  activation and burial; a wait may give up even if its row just landed. Abandoned
  tests void the ledger theorems: the code owes their stakes to nobody.
- DbWait: discrete time; performance records and log lines left out.
- RowChecks: any matching row may come first (the SQL states no order); the run varies two
  parameters over two rows, the theorems any number; joins abstracted to the row's own
  columns; '' and 0 are given only where some caller gives them.
- TxPipeline: the encoder picks any listed or tracker-confirmed coin and any encoding;
  amounts, fees and scripts are abstracted to which coin is spent; a fee-cap resend is
  part of the send; a block takes the whole mempool; two attempts stand for fifteen;
  an evicted transaction does not come back; only the first call may be abandoned.
- GasRail: the BTC leg (address, ISSUE, MINTs, lock, debit) is one action; MINT and SEND
  are one send and one wait each; amounts are small (1, headroom 1, bridge 3); calls may
  be abandoned by their budget only; a credit lands any time after its lock, or never.
  `RailsNest`, `OwnReservoir` and `BelievedIsCovered` are claimed while no call has been
  given up on, since the code does nothing to keep an abandoned call's rail off its
  successor.

- Bootstrap: what an endpoint answers is drawn anew at each ask, within what its kind may
  say; services fail only between the pings and
  the closing hook; the mempool and the lag are
  capped at one, which is all the barrier tells apart; a test sends, pauses the miner
  or pins the clock.
- LiveTier: a container's name is that of its lane; ten minutes pass only over containers
  nobody runs, since the suites are far shorter than `STALE_MS`; a suite by hand is one
  suite; of the roster's kinds of fault one of each is drawn.
- SeedTools: amounts, keys, fees and the cost estimate are facts of the venue, any of which
  may refuse the run; a contract has one code; both tools are not run at the same time; the
  lookup of a contract may read short by any row where only the whole list can be missing,
  which differs only where a chain has two contracts.
- VenueRuns: ports, paths and printing are left out; a driver call answers 0, another code
  or is not spawned; the three jobs are not run at the same time.
- Drill: sequence numbers and the rotation are left out (any of `Leaders` may lead); polls
  and timeouts are abstract, so a phase may be judged at any time after its proposal; the
  reads of one judgement, and the answers of one round of commands, are one step; the hubs
  hold the latest round only; of a validator that lapses the driver reads nothing. A leader
  that is up answers `propose` before its hub broadcasts, which may then fail
  (`lib/drillNode.js:267-271`): the model broadcasts at once or never.

## Not modelled

- *Message formats and key derivation*, the read-only RPC calls, performance records,
  reports and logging: no state, or wording only.
- *Coin definitions and the consensus pin*: tables of constants and lookups in them.
- *Address and funding helper*: key derivation, and one wait without state.
- *Native fee and oracle price helpers*: arithmetic on prices of other repositories' services.
- *The layout guards of the drill's planner*: arithmetic on its arguments; and the *verdict on
  excluded signatures*, which no drill calls.
- *Testnet settle and oracle batch drills, multi-validator venues, oracle batch replay, the
  rest of the bridge venue*: they assemble and command processes of other repositories, whose protocol is
  specified there; what remains here is argument lists and readings of external state.
- *Repository gates and reports*: text scanners and printers.
- *Test suites*: the users of the harness; their calls are the models' inputs.

The services themselves are external throughout: what they may do is stated in the modules
from how this repository uses them. `PROJECT.json` gives every component with its status
and reason.

## Plan

Done, in this order: StakeTeardown, DbWait, RowChecks, TxPipeline with OneAction, GasRail,
Bootstrap over HubConnector and TestStack, LiveTier over HubDb, SeedTools over SeedWire,
SeedContract and SeedEscrow, VenueRuns over MirrorLegs, RailDrives and Drill, and their proofs.

What would come next: a model of the waits of the testnet settle drill, and an abstract
specification "a run leaves the capability set no larger than it found it, or says so" for
StakeTeardown.
