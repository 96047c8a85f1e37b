------------------------------- MODULE DbWait -------------------------------
(***************************************************************************)
(* One wait of a suite for a row the indexer has not written yet: the      *)
(* adaptive deadline of Database._waitFor, the pipeline probe it consults, *)
(* and the bounded connect loop of Database.getConnection that every poll  *)
(* goes through (src/db.js).  Which rows a poll accepts is RowChecks.      *)
(*                                                                         *)
(* Time is discrete.  Every await takes some of it; the chain, the indexer *)
(* and the database, all external, move between any two steps.  An         *)
(* optional value is a set of at most one element.                         *)
(***************************************************************************)
EXTENDS Integers

CONSTANTS
    TimeMax,          \* timeMax of the wait
    MinForExtension,  \* WAIT_MIN_FOR_EXTENSION
    MaxExtensions,    \* WAIT_MAX_EXTENSIONS
    LagBlocks,        \* WAIT_LAG_BLOCKS
    ProbeInterval, ProbeMin, WriteIdleFloor,   \* WAIT_PROBE_INTERVAL_MS, _PROBE_MIN_MS, _WRITE_IDLE_MS
    ProbeCap,         \* WAIT_LAG_PROBE_MS
    Pause,            \* the sleep between two polls
    ConnectAttempts, ConnectBudget, ConnectPause,
    MaxAcquire,       \* bound: one pool.getConnection, the driver's acquire timeout
    MaxQuery,         \* bound: one query
    MaxHeight,        \* bound: chain height
    MaxWrites,        \* bound: action rows
    Faults            \* which of "down", "refused", "sql", "probe" happen

ASSUME DbWaitAssumption ==
    /\ TimeMax \in Nat /\ MinForExtension \in Nat /\ MaxExtensions \in Nat /\ LagBlocks \in Nat
    /\ ProbeInterval \in Nat /\ ProbeMin \in Nat /\ WriteIdleFloor \in Nat /\ ProbeCap \in Nat
    /\ Pause \in Nat \ {0}
    /\ ConnectAttempts \in Nat \ {0} /\ ConnectBudget \in Nat /\ ConnectPause \in Nat
    /\ MaxAcquire \in Nat /\ MaxQuery \in Nat /\ MaxHeight \in Nat /\ MaxWrites \in Nat
    /\ Faults \subseteq {"down", "refused", "sql", "probe"}

VARIABLES
    now,
    pc,           \* what the wait awaits
    deadline, extensions, nextProbeAt,
    expired,      \* was the deadline past when the running probe was asked for?
    tipSeen,      \* the running probe's chain tip, if the node answered
    lastLag,      \* the last probe's lag, if it had one
    writeMark, writeMoved,
    attempts, connectBy,     \* getConnection's attempt count and wall-clock deadline
    result,
    tip, idx, writes,        \* node height, indexer height, MAX(action_index)
    lastWriteAt,  \* when the last action row was written
    row,          \* when the awaited row became visible, if it did
    db,           \* what the database does with a connection attempt
    faults        \* what may go wrong in this behaviour: nothing, or all of Faults

loopVars    == <<deadline, extensions, nextProbeAt, writeMark, writeMoved>>
probeVars   == <<expired, tipSeen, lastLag>>
connectVars == <<attempts, connectBy>>
envVars     == <<tip, idx, writes, lastWriteAt, row, db, faults>>
vars == <<now, pc, loopVars, probeVars, connectVars, result, envVars>>

Greater(a, b) == IF a > b THEN a ELSE b
Lesser(a, b)  == IF a < b THEN a ELSE b

Eligible   == TimeMax >= MinForExtension
ProbeEvery == Greater(ProbeMin, Lesser(ProbeInterval, TimeMax \div 3))
WriteIdle  == Greater(WriteIdleFloor, 2 * ProbeEvery)

AtMostOne(S, T) == S \subseteq T /\ \A x, y \in S : x = y

TypeOK ==
    /\ now \in Nat
    /\ pc \in {"connect", "backoff", "query", "pause", "probe", "measure", "done"}
    /\ deadline \in Nat /\ extensions \in Nat /\ nextProbeAt \in Nat
    /\ expired \in BOOLEAN /\ AtMostOne(tipSeen, Nat) /\ AtMostOne(lastLag, Int)
    /\ AtMostOne(writeMark, Nat) /\ AtMostOne(writeMoved, Nat)
    /\ attempts \in Nat /\ connectBy \in Nat
    /\ result \in {"none", "row", "null"}
    /\ tip \in Nat /\ idx \in 0 .. tip /\ writes \in Nat
    /\ AtMostOne(lastWriteAt, Nat) /\ AtMostOne(row, Nat)
    /\ db \in {"up", "down", "refused"} /\ faults \subseteq Faults

Init ==
    /\ now = 0
    /\ deadline = TimeMax /\ extensions = 0 /\ nextProbeAt = ProbeEvery
    /\ expired = FALSE /\ tipSeen = {} /\ lastLag = {}
    /\ writeMark = {} /\ writeMoved = {}
    /\ attempts = 0 /\ connectBy = ConnectBudget
    /\ IF TimeMax > 0 THEN pc = "connect" /\ result = "none"
                      ELSE pc = "done" /\ result = "null"
    /\ tip = 1 /\ idx \in {0, 1} /\ writes \in {0, 1}
    /\ lastWriteAt = {} /\ row = {}
    /\ faults \in {{}, Faults}
    /\ db \in {"up"} \cup (faults \cap {"down", "refused"})

-----------------------------------------------------------------------------
(* The poll: getConnection, then the query of a check method.              *)

\* Mutant: an extension that goes back to sleep without asking for the row.
ResumeWithoutPoll(t, by) ==
    IF t < by
    THEN pc' = "pause" /\ attempts' = 0 /\ connectBy' = t + ConnectBudget /\ UNCHANGED result
    ELSE pc' = "done" /\ result' = "null" /\ UNCHANGED <<attempts, connectBy>>

\* The loop test at time t under deadline by: another poll, or give up.
Resume(t, by) ==
    IF t < by
    THEN pc' = "connect" /\ attempts' = 0 /\ connectBy' = t + ConnectBudget /\ UNCHANGED result
    ELSE pc' = "done" /\ result' = "null" /\ UNCHANGED <<attempts, connectBy>>

Connected(d) ==
    /\ pc = "connect" /\ db = "up"
    /\ now' = now + d
    /\ pc' = "query"
    /\ UNCHANGED <<loopVars, probeVars, connectVars, result, envVars>>

\* The retry budget is spent by attempts or by wall clock, whichever is first.
Spent(t) == attempts + 1 >= ConnectAttempts \/ t >= connectBy

\* A refusal is fatal at once; else retry until spent.  The wait catches the throw.
ConnectFails(d) ==
    /\ pc = "connect" /\ db # "up"
    /\ now' = now + d
    /\ attempts' = attempts + 1
    /\ IF db = "refused" \/ Spent(now + d)
       THEN pc' = "pause"
       ELSE pc' = "backoff"
    /\ UNCHANGED <<loopVars, probeVars, connectBy, result, envVars>>

Backoff ==
    /\ pc = "backoff"
    /\ now' = now + ConnectPause
    /\ pc' = "connect"
    /\ UNCHANGED <<loopVars, probeVars, connectVars, result, envVars>>

QueryFinds(d) ==
    /\ pc = "query" /\ row # {}
    /\ now' = now + d
    /\ pc' = "done" /\ result' = "row"
    /\ UNCHANGED <<loopVars, probeVars, connectVars, envVars>>

\* No row yet, or an SQL error the check method turned into null.
QueryMisses(d) ==
    /\ pc = "query" /\ (row = {} \/ "sql" \in faults)
    /\ now' = now + d
    /\ pc' = "pause"
    /\ UNCHANGED <<loopVars, probeVars, connectVars, result, envVars>>

-----------------------------------------------------------------------------
(* After the sleep: probe, or loop.                                        *)

\* Mutant: an expired wait probes whatever it has spent.
NoProbeUnlessDue(t) == ~Eligible \/ (t < deadline /\ t < nextProbeAt)

\* Not eligible; expired with the budget spent; or running and not due yet.
NoProbe(t) ==
    \/ ~Eligible
    \/ t >= deadline /\ extensions >= MaxExtensions
    \/ t < deadline /\ t < nextProbeAt

PauseAndLoop ==
    /\ pc = "pause" /\ NoProbe(now + Pause)
    /\ now' = now + Pause
    /\ Resume(now + Pause, deadline)
    /\ UNCHANGED <<loopVars, probeVars, envVars>>

PauseAndProbe ==
    /\ pc = "pause" /\ ~NoProbe(now + Pause)
    /\ now' = now + Pause
    /\ expired' = (now + Pause >= deadline)
    /\ pc' = "probe"
    /\ UNCHANGED <<loopVars, tipSeen, lastLag, connectVars, result, envVars>>

\* _probePipeline asks the node for its height first; a node may not be wired.
ProbeTip ==
    /\ pc = "probe"
    /\ tipSeen' \in {{tip}} \cup (IF "probe" \in faults THEN {{}} ELSE {})
    /\ pc' = "measure"
    /\ UNCHANGED <<now, loopVars, expired, lastLag, connectVars, result, envVars>>

Behind(lag)       == \E l \in lag : l > LagBlocks
Writing(moved, t) == \E m \in moved : t - m <= WriteIdle

\* Mutant: a mark that grows with the chain as well as with the action rows.
MovedWithChain(w, t) ==
    IF \E x \in w, m \in writeMark : x + tip > m THEN {t} ELSE writeMoved

\* When the write mark last advanced, given a sample w at time t.
Moved(w, t) == IF \E x \in w, m \in writeMark : x > m THEN {t} ELSE writeMoved

\* Mutant: samples pile up instead of replacing the mark.
MarkAccumulates(w) == writeMark \cup w

Mark(w) == IF w # {} /\ \A m \in writeMark : \E x \in w : x > m THEN w ELSE writeMark

\* The sample is booked; only a probe asked for after the deadline may extend it.
Judge(t, lag, w) ==
    LET extend == expired /\ (Behind(lag) \/ Writing(Moved(w, t), t))
        by     == IF extend THEN t + TimeMax ELSE deadline IN
    /\ now' = t
    /\ nextProbeAt' = t + ProbeEvery
    /\ lastLag' = lag
    /\ writeMoved' = Moved(w, t) /\ writeMark' = Mark(w)
    /\ extensions' = IF extend THEN extensions + 1 ELSE extensions
    /\ deadline' = by
    /\ Resume(t, by)
    /\ expired' = FALSE /\ tipSeen' = {}   \* locals of the iteration
    /\ UNCHANGED envVars

\* Both marks in one query; an empty actions table has no maximum.
ProbeAnswers(d) ==
    /\ pc = "measure" /\ db = "up"
    /\ Judge(now + d, {x - idx : x \in tipSeen}, IF writes = 0 THEN {} ELSE {writes})

\* Mutant: no cap, so a probe waits for the database to come back.
ProbeWaitsForDb(d) ==
    /\ pc = "measure" /\ db = "up" /\ "probe" \in faults
    /\ Judge(now + d, {}, {})

\* The probe failed or lost the race against its cap: neither signal counts.
ProbeUnavailable(d) ==
    /\ pc = "measure" /\ (db # "up" \/ "probe" \in faults)
    /\ Judge(now + d, {}, {})

-----------------------------------------------------------------------------
(* The venue, external.                                                    *)

MineBlock ==
    /\ pc # "done" /\ tip < MaxHeight
    /\ tip' = tip + 1
    /\ UNCHANGED <<now, pc, loopVars, probeVars, connectVars, result,
                   idx, writes, lastWriteAt, row, db, faults>>

\* The indexer finishes a block.
IndexBlock ==
    /\ pc # "done" /\ idx < tip
    /\ idx' = idx + 1
    /\ UNCHANGED <<now, pc, loopVars, probeVars, connectVars, result,
                   tip, writes, lastWriteAt, row, db, faults>>

\* The indexer writes an action row, perhaps the awaited one.
WriteAction ==
    /\ pc # "done" /\ writes < MaxWrites
    /\ writes' = writes + 1
    /\ lastWriteAt' = {now}
    /\ row' \in {row, IF row = {} THEN {now} ELSE row}
    /\ UNCHANGED <<now, pc, loopVars, probeVars, connectVars, result, tip, idx, db, faults>>

DbChanges ==
    /\ pc # "done"
    /\ db' \in {"up"} \cup (faults \cap {"down", "refused"}) /\ db' # db
    /\ UNCHANGED <<now, pc, loopVars, probeVars, connectVars, result,
                   tip, idx, writes, lastWriteAt, row, faults>>

Finished == pc = "done" /\ UNCHANGED vars

-----------------------------------------------------------------------------
Wait == \/ \E d \in 0 .. MaxAcquire : Connected(d) \/ ConnectFails(d)
        \/ Backoff
        \/ \E d \in 0 .. MaxQuery : QueryFinds(d) \/ QueryMisses(d)
        \/ PauseAndLoop \/ PauseAndProbe \/ ProbeTip
        \/ \E d \in 0 .. ProbeCap : ProbeAnswers(d) \/ ProbeUnavailable(d)

Venue == MineBlock \/ IndexBlock \/ WriteAction \/ DbChanges

Next == Wait \/ Venue \/ Finished

Spec == Init /\ [][Next]_vars

\* Acquire, query, sleep and probe all return: the driver and the timers see to it.
FairSpec == Spec /\ WF_vars(Wait)

-----------------------------------------------------------------------------
(* Properties.                                                             *)

\* The longest a poll, the sleep and the probe can run past the deadline.
Overrun == ConnectBudget + ConnectPause + MaxAcquire + MaxQuery + Pause + ProbeCap

(* A wedged or permanently busy stack still fails the wait: the extensions  *)
(* are capped, and with them the whole wait, whatever the indexer, the      *)
(* probe and the database do (_waitFor, getConnection).                     *)
WaitIsBounded ==
    /\ extensions <= MaxExtensions
    /\ now <= (MaxExtensions + 1) * (TimeMax + Overrun)

(* Why: an extension starts no later than one overrun past the deadline it  *)
(* replaces, and every await starts within its own share of the overrun.    *)
DeadlineBounded == deadline <= extensions * (TimeMax + Overrun) + TimeMax

Lateness ==
    /\ pc \in {"connect", "backoff", "query", "pause", "probe", "measure"} => result = "none"
    /\ pc \in {"connect", "backoff", "query", "pause"} => connectBy < deadline + ConnectBudget
    /\ pc = "connect" => now < connectBy + ConnectPause \/ (attempts = 0 /\ now <= connectBy)
    /\ pc = "backoff" => now < connectBy
    /\ pc = "query" => now <= connectBy + ConnectPause + MaxAcquire
    /\ pc = "pause" => now <= connectBy + ConnectPause + MaxAcquire + MaxQuery
    /\ pc \in {"probe", "measure"} => /\ now <= deadline + Overrun - ProbeCap
                                      /\ expired => extensions < MaxExtensions
    /\ pc = "done" => now <= deadline + Overrun

IInv == TypeOK /\ extensions <= MaxExtensions /\ DeadlineBounded /\ Lateness

\* The longest gap between two queries of the awaited row.
Gap == MaxQuery + Pause + ProbeCap + MaxAcquire

(* With a reachable database, a row that has been visible for longer than   *)
(* one loop iteration is not reported missing: every extension and every    *)
(* probe leads back to a poll (_waitFor).                                   *)
VisibleRowIsFound ==
    (result = "null" /\ faults \subseteq {"probe"}) => \A r \in row : now <= r + Gap

(* Waiting longer is bought with evidence only: when an extension is        *)
(* granted, the indexer is really behind the chain, or an action row was    *)
(* really written within the idle window and the sampling delay.  Empty     *)
(* blocks alone, which the regtest miner produces for ever, buy nothing.    *)
ExtensionsNeedEvidence ==
    [][(extensions' > extensions /\ faults \cap {"probe", "down", "refused"} = {}) =>
          \/ tip - idx > LagBlocks
          \/ \E w \in lastWriteAt : now' - w <= WriteIdle + ProbeEvery + Gap + ProbeCap]_vars

(* The wait ends, with the row or without it.                              *)
WaitEnds == <>(pc = "done")

(* The wait does not give up while the indexer is measurably behind and an  *)
(* extension is left: the comment on WAIT_LAG_BLOCKS calls that giving up   *)
(* "precisely when it was nearly done".                                     *)
NeverGivesUpBehind ==
    (result = "null" /\ Eligible /\ extensions < MaxExtensions) => ~Behind(lastLag)
=============================================================================
