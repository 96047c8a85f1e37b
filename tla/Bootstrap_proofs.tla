-------------------------- MODULE Bootstrap_proofs --------------------------
(***************************************************************************)
(* Theorems about the root hooks and the connectors under them, for every  *)
(* number of endpoints, services, polls, tests and outages.                *)
(***************************************************************************)
EXTENDS Bootstrap, SequenceTheorems, TLAPS

-----------------------------------------------------------------------------
(* The types, and where a call or a barrier stands.                        *)

Calling == {"ping", "tier", "bare"}

AnswerType == [http : {"ok", "refused", "silence"}, body : Bodies]
StatusType == [some : BOOLEAN, ready : BOOLEAN, pending : BOOLEAN]
Creds == [Secrets -> {"none", "env", "real", Sentinel}]

\* What an endpoint that is not healthy may leave a call with.
Kept == {Body(k) : k \in {"none", "degraded", "error"}}

HubTypes ==
    /\ keys \subseteq {"bulk", "cred"}
    /\ url \in 1..Endpoints /\ degraded \in Kept /\ refusal \in BOOLEAN
    /\ heard \in Seq(AnswerType)
    /\ tree \in Trees \cup {NoBody} /\ redacted \in BOOLEAN

StackTypes ==
    /\ mempool \in 0..MaxMempool /\ lag \in 0..MaxLag /\ up \subseteq Ran
    /\ miner \in Settings /\ believed \in Settings
    /\ status \in StatusType /\ settled \in BOOLEAN
    /\ ops \in Nat /\ outages \in Nat

\* A nudge that may fail was paid for by the poll before it.
BarrierTypes ==
    /\ polls \in 0..MaxPolls /\ mineErrors \in 0..MaxPolls
    /\ mineErrors + polls <= MaxPolls
    /\ pc = "nudge" => mineErrors + polls < MaxPolls

RunTypes ==
    /\ pc \in Labels /\ at \in Nat /\ failed \in BOOLEAN
    /\ creds \in Creds

\* A config that was fetched is one: what resolves it reads a tree.
Fetched == pc = "resolve" => tree \in Trees

TypeInv == HubTypes /\ StackTypes /\ BarrierTypes /\ RunTypes /\ Fetched

LEMMA Constants ==
    /\ Endpoints \in Nat \ {0} /\ MaxMempool \in Nat /\ MaxLag \in Nat
    /\ MaxPolls \in Nat \ {0} /\ MaxOps \in Nat /\ MaxReady \in Nat /\ MaxTests \in Nat \ {0}
BY HubAssumption, StackAssumption, BootstrapAssumption

LEMMA BodiesAre ==
    /\ Trees \subseteq Bodies /\ Kept \subseteq Bodies /\ NoBody \in Kept
    /\ \A k \in {"none", "pong", "degraded", "error"} : Body(k) \in Bodies /\ Body(k).kind = k
    /\ \A b \in Bodies : (b.kind = "tree" <=> b \in Trees) /\ (b.kind = "none" <=> b = NoBody)
    /\ \A b \in Kept : b.kind \in {"none", "degraded", "error"}
<1>1. \A k \in {"none", "pong", "degraded", "error"} : Body(k).kind = k
  BY DEF Body
<1>2. \A t \in Trees : t.kind = "tree"
  BY DEF Trees, Tree
<1>3. QED
  BY <1>1, <1>2 DEF Bodies, Kept, NoBody

\* Only a healthy endpoint sends a config, and only one that was asked for one.
LEMMA AnswersTyped ==
    ASSUME NEW l, NEW a \in Answers(l)
    PROVE  /\ a \in AnswerType /\ a.body \in Bodies
           /\ a.http # "ok" => a.body \in Kept
           /\ a.http = "silence" => a.body = NoBody
           /\ l \in {"tier", "bare"} => a.body \in Trees \cup Kept
<1>1. PICK h \in {"ok", "refused", "silence"}, b \in Bodies :
        /\ a = Answer(h, b)
        /\ h # "ok" => b \in Kept
        /\ h = "silence" => b = NoBody
        /\ l \in {"tier", "bare"} => b \in Trees \cup Kept
  <2>1. CASE a \in Faults
    BY <2>1, BodiesAre DEF Faults, Kept
  <2>2. CASE l = "ping" /\ a = Answer("ok", Body("pong"))
    BY <2>2, BodiesAre
  <2>3. CASE l # "ping" /\ a \in Configs(l)
    <3>1. \/ \E t \in Trees : a = Answer("ok", t)
          \/ \E h \in {"ok", "refused"} : a = Answer(h, Body("error"))
      <4>1. CASE l = "tier"
        <5>1. \/ \E t \in Trees \ {Tree("real", "no")} : a = Answer("ok", t)
              \/ \E h \in {"ok", "refused"} : a = Answer(h, Body("error"))
              \/ a = Answer("ok", Tree("real", "no"))
          BY <2>3, <4>1 DEF Configs
        <5>2. Tree("real", "no") \in Trees
          BY DEF Trees
        <5>3. QED
          BY <5>1, <5>2
      <4>2. CASE l # "tier"
        BY <2>3, <4>2 DEF Configs
      <4>3. QED
        BY <4>1, <4>2
    <3>2. QED
      BY <3>1, BodiesAre DEF Kept
  <2>4. QED
    BY <2>1, <2>2, <2>3 DEF Answers
<1>2. a.http = h /\ a.body = b /\ a \in AnswerType
  BY <1>1 DEF Answer, AnswerType
<1>3. QED
  BY <1>1, <1>2

\* What Ask leaves.
LEMMA AskDoes ==
    ASSUME NEW l, Ask(l)
    PROVE  /\ pc' = l /\ url' \in 1..Endpoints /\ refusal' \in BOOLEAN
           /\ heard' \in Seq(AnswerType) /\ heard' = <<>> /\ degraded' = NoBody
<1>1. <<>> \in Seq(AnswerType)
  OBVIOUS
<1>2. url' = 1 /\ 1 \in 1..Endpoints
  BY Constants DEF Ask
<1>3. QED
  BY <1>1, <1>2 DEF Ask

\* What a call does, an endpoint at a time.
LEMMA HubStepTyped ==
    ASSUME TypeInv, HubStep
    PROVE  TypeInv'
<1>. USE DEF TypeInv
<1>1. UNCHANGED <<stack, creds, at, failed>>
  BY DEF HubStep
<1>2. PICK a \in Answers(pc) :
        \/ \E l \in Calling : NextEndpoint(l, a)
        \/ PingHeard(a)
        \/ \E l \in {"tier", "bare"} : FetchHeard(l, a, "resolve")
  BY DEF HubStep, Calling
<1>3. StackTypes'
  BY <1>1 DEF stack, world, barrier, StackTypes
<1>4. ASSUME NEW l \in Calling, NextEndpoint(l, a) PROVE TypeInv'
  <2>1. a \in AnswerType /\ (a.http # "ok" => a.body \in Kept)
    BY <1>2, AnswersTyped
  <2>2. Fallback(a) \in Kept /\ Refused(a) \in BOOLEAN
    BY <2>1 DEF Fallback, Refused, HubTypes, Unhealthy
  <2>3. Append(heard, a) \in Seq(AnswerType)
    BY <2>1 DEF HubTypes
  <2>4. HubTypes'
    BY <1>4, <2>2, <2>3, Constants DEF NextEndpoint, HubTypes
  <2>5. pc' = pc /\ pc \in Calling
    BY <1>4 DEF NextEndpoint
  <2>6. BarrierTypes' /\ RunTypes' /\ Fetched'
    BY <1>1, <2>5 DEF stack, barrier, BarrierTypes, RunTypes, Fetched, Calling
  <2>7. QED
    BY <1>3, <2>4, <2>6
<1>5. ASSUME NEW l \in {"ping", "tier", "bare", "failed", "resolve"}, Ask(l), keys' = keys,
             tree' \in Trees \cup {NoBody}, redacted' \in BOOLEAN, l = "resolve" => tree' \in Trees
      PROVE  TypeInv'
  <2>1. HubTypes'
    BY <1>5, AskDoes, BodiesAre DEF HubTypes
  <2>2. pc' = l
    BY <1>5, AskDoes
  <2>3. BarrierTypes' /\ RunTypes' /\ Fetched'
    BY <1>1, <1>5, <2>2 DEF stack, barrier, BarrierTypes, RunTypes, Fetched, Labels, Tops
  <2>4. QED
    BY <1>3, <2>1, <2>3
<1>6. CASE PingHeard(a)
  <2>1. PICK l \in {"failed", "tier"} : Ask(l)
    BY <1>6 DEF PingHeard
  <2>2. UNCHANGED <<keys, tree, redacted>>
    BY <1>6 DEF PingHeard, Hears, NothingApplied
  <2>3. QED
    BY <1>5, <2>1, <2>2 DEF HubTypes
<1>7. ASSUME NEW l \in {"tier", "bare"}, FetchHeard(l, a, "resolve") PROVE TypeInv'
  <2>1. keys' = keys
    BY <1>7 DEF FetchHeard, Hears
  <2>2. CASE _usableConfigResult(Result(a))
    <3>1. tree' = Result(a) /\ redacted' \in BOOLEAN /\ Ask("resolve")
      BY <1>7, <2>2 DEF FetchHeard, _applyConfigResult
    <3>2. Result(a) \in Trees \cup Kept
      <4>1. a \in Answers(l)
        BY <1>7 DEF FetchHeard, Hears
      <4>2. QED
        BY <4>1, AnswersTyped DEF Result, Fallback, HubTypes
    <3>3. Result(a) \in Trees
      BY <2>2, <3>2, BodiesAre DEF _usableConfigResult
    <3>4. QED
      BY <1>5, <2>1, <3>1, <3>3
  <2>3. CASE ~_usableConfigResult(Result(a))
    <3>1. PICK m \in {"bare", "failed"} : Ask(m)
      BY <1>7, <2>3 DEF FetchHeard
    <3>2. UNCHANGED <<tree, redacted>>
      BY <1>7, <2>3 DEF FetchHeard, NothingApplied
    <3>3. QED
      BY <1>5, <2>1, <3>1, <3>2 DEF HubTypes
  <2>4. QED
    BY <2>2, <2>3
<1>8. QED
  BY <1>2, <1>4, <1>6, <1>7

LEMMA TypeInit == Init => TypeInv
<1> SUFFICES ASSUME Init PROVE TypeInv
  OBVIOUS
<1>. USE DEF Init, HubInit
<1>1. HubTypes
  <2>1. <<>> \in Seq(AnswerType) /\ 1 \in 1..Endpoints
    BY Constants
  <2>2. QED
    BY <2>1, BodiesAre DEF HubTypes
<1>2. StackTypes
  <2>1. miner \in Settings /\ believed \in Settings
    BY DEF Settings
  <2>2. status \in StatusType
    BY DEF NoAnswer, StatusType
  <2>3. up \subseteq Ran /\ settled \in BOOLEAN
    OBVIOUS
  <2>4. mempool \in 0..MaxMempool /\ lag \in 0..MaxLag /\ ops \in Nat /\ outages \in Nat
    BY Constants
  <2>5. QED
    BY <2>1, <2>2, <2>3, <2>4 DEF StackTypes
<1>3. BarrierTypes
  BY Constants DEF BarrierTypes
<1>4. RunTypes /\ Fetched
  BY DEF RunTypes, Fetched, Labels, Tops, Creds
<1>5. QED
  BY <1>1, <1>2, <1>3, <1>4 DEF TypeInv

-----------------------------------------------------------------------------
(* The miner's control calls.                                              *)

LEMMA SettingsTyped ==
    ASSUME NEW m \in Settings
    PROVE  /\ \A v \in {"default", "suite"} : [m EXCEPT !.pace = v] \in Settings
           /\ \A v \in {"real", "pinned"} : [m EXCEPT !.clock = v] \in Settings
           /\ \A v \in {"running", "paused"} : [m EXCEPT !.auto = v] \in Settings
           /\ [m EXCEPT !.pace = "default", !.auto = "running"] \in Settings
BY DEF Settings

\* A setting, and what it may be set to.
Sets(k, v) ==
    \/ k = "pace" /\ v \in {"default", "suite"}
    \/ k = "clock" /\ v \in {"real", "pinned"}
    \/ k = "auto" /\ v \in {"running", "paused"}

\* A call leaves both sides typed; what comes to be believed then holds.
LEMMA ControlDoes ==
    ASSUME miner \in Settings, believed \in Settings, NEW k, NEW v, Sets(k, v),
           NEW reply, NEW done, Control(k, v, reply, done)
    PROVE  /\ miner' \in Settings /\ believed' \in Settings
           /\ \A j \in DOMAIN believed : believed'[j] # believed[j] => miner'[j] = believed'[j]
<1>1. [miner EXCEPT ![k] = v] \in Settings /\ [believed EXCEPT ![k] = v] \in Settings
  BY SettingsTyped DEF Sets
<1>2. miner' \in Settings /\ believed' \in Settings
  BY <1>1 DEF Control
<1>3. CASE unwrap(reply)
  <2>1. done = TRUE
    BY <1>3 DEF Control, Meanings, unwrap
  <2>2. miner' = [miner EXCEPT ![k] = v] /\ believed' = [believed EXCEPT ![k] = v]
    BY <1>3, <2>1 DEF Control
  <2>3. k \in {"pace", "clock", "auto"} /\ DOMAIN miner = {"pace", "clock", "auto"} /\ DOMAIN believed = {"pace", "clock", "auto"}
    BY DEF Sets, Settings
  <2>4. QED
    BY <1>2, <2>2, <2>3
<1>4. CASE ~unwrap(reply)
  BY <1>2, <1>4 DEF Control
<1>5. QED
  BY <1>3, <1>4

LEMMA ClockDoes ==
    ASSUME miner \in Settings, believed \in Settings, NEW v \in {"real", "pinned"},
           NEW reply, NEW done, setMockTime(v, reply, done)
    PROVE  /\ miner' \in Settings /\ believed' \in Settings
           /\ \A j \in DOMAIN believed : believed'[j] # believed[j] => miner'[j] = believed'[j]
<1>1. CASE Control("clock", v, reply, done)
  BY <1>1, ControlDoes DEF Sets
<1>2. CASE miner' = [miner EXCEPT !.clock = v] /\ believed' = [believed EXCEPT !.clock = v]
  <2>1. miner' \in Settings /\ believed' \in Settings
    BY <1>2, SettingsTyped
  <2>2. DOMAIN miner = {"pace", "clock", "auto"} /\ DOMAIN believed = {"pace", "clock", "auto"}
    BY DEF Settings
  <2>3. QED
    BY <1>2, <2>1, <2>2
<1>3. QED
  BY <1>1, <1>2 DEF setMockTime

-----------------------------------------------------------------------------
(* The steps of the specification, in groups, and what each leaves alone.  *)

Controls ==
    \/ \E reply \in Replies, done \in BOOLEAN : setMiningTime(reply, done) \/ afterAll(reply, done)
    \/ /\ \E reply \in Replies, done \in BOOLEAN :
             \/ \E v \in {"running", "paused"} : Pauses(v, reply, done)
             \/ \E v \in {"real", "pinned"} : PinsClock(v, reply, done)
       /\ UNCHANGED <<hub, creds, at, failed>>

Barriers ==
    /\ \/ TestEnds \/ Sends \/ Poll \/ BudgetSpent
       \/ \E reply \in Replies, done \in BOOLEAN : Nudge(reply, done)
    /\ UNCHANGED <<hub, creds, at, failed>>

\* Neither the hub nor the stack moves.
Hooks == Pinged \/ MinerPinged \/ afterEach \/ HookFails \/ FromEnvironment \/ ResolveThrows

LEMMA NextIs ==
    ASSUME [Next]_vars
    PROVE  \/ UNCHANGED vars \/ HubStep \/ AsksTheHub \/ Hooks \/ Barriers \/ Controls \/ Environment
           \/ \E given \in SUBSET Secrets : Resolves(given)
BY DEF Next, Harness, InTest, Controls, Barriers, Hooks

LEMMA AsksTyped == ASSUME TypeInv, AsksTheHub PROVE TypeInv'
<1>1. UNCHANGED <<keys, tree, redacted, answer, stack, creds, at, failed>> /\ Ask("ping")
  BY DEF AsksTheHub
<1>2. HubTypes' /\ pc' = "ping"
  BY <1>1, AskDoes, BodiesAre DEF HubTypes, TypeInv
<1>3. QED
  BY <1>1, <1>2 DEF stack, world, barrier, TypeInv, StackTypes, BarrierTypes, RunTypes, Fetched,
     Labels

\* Creds that come out of a config, or of the environment.
LEMMA ResolvesTyped ==
    ASSUME TypeInv, NEW given \in SUBSET Secrets, Resolves(given)
    PROVE  TypeInv'
<1>1. /\ UNCHANGED <<keys, call, tree, redacted, stack, at, failed>> /\ pc' = "pings"
      /\ creds' = [s \in Secrets |-> hubCredential(tree.secrets, s \in given)]
      /\ pc = "resolve"
  BY DEF Resolves
<1>2. tree.secrets \in {"real", Sentinel}
  BY <1>1 DEF TypeInv, Fetched, Trees, Tree
<1>3. creds' \in Creds
  BY <1>1, <1>2 DEF hubCredential, Creds
<1>4. QED
  BY <1>1, <1>3 DEF stack, call, world, barrier, TypeInv, HubTypes, StackTypes, BarrierTypes,
     RunTypes, Fetched, Labels, Tops

LEMMA HooksTyped == ASSUME TypeInv, Hooks PROVE TypeInv'
<1>1. UNCHANGED <<hub, stack>>
  BY DEF Hooks, Pinged, MinerPinged, afterEach, HookFails, FromEnvironment, ResolveThrows
<1>2. pc' \in {"pings", "ready", "pace", "failed", "teardown", "test"}
  BY DEF Hooks, Pinged, MinerPinged, afterEach, HookFails, FromEnvironment, ResolveThrows
<1>3. at' \in Nat /\ failed' \in BOOLEAN
  <2>1. at' \in {at, at + 1, 0} /\ failed' \in {failed, TRUE}
    BY DEF Hooks, Pinged, MinerPinged, afterEach, HookFails, FromEnvironment, ResolveThrows
  <2>2. at \in Nat /\ failed \in BOOLEAN
    BY DEF TypeInv, RunTypes
  <2>3. at' \in Nat
    BY <2>1, <2>2
  <2>4. failed' \in BOOLEAN
    BY <2>1, <2>2, Zenon
  <2>5. QED
    BY <2>3, <2>4
<1>4. creds' \in Creds
  <2>1. creds' = creds \/ creds' = [s \in Secrets |-> "env"]
    BY DEF Hooks, Pinged, MinerPinged, afterEach, HookFails, FromEnvironment, ResolveThrows
  <2>2. QED
    BY <2>1 DEF TypeInv, RunTypes, Creds
<1>5. QED
  BY <1>1, <1>2, <1>3, <1>4 DEF hub, stack, call, world, barrier, TypeInv, HubTypes, StackTypes,
     BarrierTypes, RunTypes, Fetched, Labels, Tops

LEMMA ControlsTyped ==
    ASSUME TypeInv, Controls
    PROVE  /\ TypeInv'
           /\ \A j \in DOMAIN believed : believed'[j] # believed[j] => miner'[j] = believed'[j]
           /\ UNCHANGED <<hub, mempool, lag, up, outages, barrier, settled, at, creds>>
           /\ pc \in {"pace", "teardown", "test"} /\ pc' \in {"test", "failed", "off", "threw"}
           /\ pc' = "test" => pc \in {"pace", "test"}
<1>. miner \in Settings /\ believed \in Settings /\ ops \in Nat
  BY DEF TypeInv, StackTypes
<1>. DEFINE Told == /\ miner' \in Settings /\ believed' \in Settings
                    /\ \A j \in DOMAIN believed :
                         believed'[j] # believed[j] => miner'[j] = believed'[j]
<1>1. Told
  <2>1. ASSUME NEW reply, NEW done, setMiningTime(reply, done) \/ afterAll(reply, done)
        PROVE  Told
    <3>1. \E v \in {"default", "suite"} : Control("pace", v, reply, done)
      BY <2>1 DEF setMiningTime, afterAll
    <3>2. QED
      BY <3>1, ControlDoes DEF Sets
  <2>2. ASSUME NEW reply, NEW done, NEW v \in {"running", "paused"}, Pauses(v, reply, done)
        PROVE  Told
    <3>1. Control("auto", v, reply, done)
      BY <2>2 DEF Pauses
    <3>2. QED
      BY <3>1, ControlDoes DEF Sets
  <2>3. ASSUME NEW reply, NEW done, NEW v \in {"real", "pinned"}, PinsClock(v, reply, done)
        PROVE  Told
    <3>1. setMockTime(v, reply, done)
      BY <2>3 DEF PinsClock
    <3>2. QED
      BY <3>1, ClockDoes
  <2>4. QED
    BY <2>1, <2>2, <2>3 DEF Controls
<1>2. /\ UNCHANGED <<hub, mempool, lag, up, outages, barrier, settled, at, creds, failed>>
      /\ pc \in {"pace", "teardown", "test"} /\ pc' \in {"test", "failed", "off", "threw"}
      /\ pc' = "test" => pc \in {"pace", "test"}
      /\ ops' = ops \/ (ops > 0 /\ ops' = ops - 1)
  BY DEF Controls, setMiningTime, afterAll, Pauses, PinsClock, AfterCall, Does
<1>3. ops' \in Nat
  BY <1>2
<1>4. TypeInv'
  BY <1>1, <1>2, <1>3 DEF hub, call, barrier, TypeInv, HubTypes, StackTypes, BarrierTypes, RunTypes,
     Fetched, Labels, Tops
<1>5. QED
  BY <1>1, <1>2, <1>4

\* Steps that move the stack alone.
LEMMA StackMoves ==
    ASSUME TypeInv, UNCHANGED <<hub, creds, at, failed>>, StackTypes', BarrierTypes',
           pc' \in Labels, pc' # "resolve" \/ pc' = pc
    PROVE  TypeInv'
BY DEF hub, call, TypeInv, HubTypes, RunTypes, Fetched

LEMMA OneMoreError ==
    ASSUME NEW a \in Nat, NEW b \in Nat, NEW c \in Nat, NEW d \in Nat, NEW m \in Nat,
           a + b < m, c <= b, d <= a + 1
    PROVE  d + c <= m /\ c \in 0..m /\ d \in 0..m
OBVIOUS

LEMMA NudgeTyped ==
    ASSUME TypeInv, NEW reply, NEW done, Nudge(reply, done)
    PROVE  StackTypes' /\ BarrierTypes' /\ pc' = "poll"
<1>. mempool \in 0..MaxMempool /\ lag \in 0..MaxLag /\ MaxMempool \in Nat /\ MaxLag \in Nat
  BY Constants DEF TypeInv, StackTypes
<1>1. mempool' \in 0..MaxMempool /\ lag' \in 0..MaxLag
  BY DEF Nudge, Mined
<1>2. settled' \in BOOLEAN
  BY DEF Nudge, Rests, TypeInv, StackTypes, AtRest
<1>3. StackTypes'
  BY <1>1, <1>2 DEF Nudge, TypeInv, StackTypes
<1>4. /\ mineErrors' \in {mineErrors, mineErrors + 1} /\ polls' \in 0..polls
      /\ pc = "nudge" /\ pc' = "poll"
  BY DEF Nudge
<1>5. BarrierTypes'
  <2>1. mineErrors \in Nat /\ polls \in Nat /\ mineErrors + polls < MaxPolls
    BY <1>4, Constants DEF TypeInv, BarrierTypes
  <2>2. polls' \in Nat /\ polls' <= polls
    BY <1>4, <2>1
  <2>3. mineErrors' \in Nat /\ mineErrors' <= mineErrors + 1
    BY <1>4, <2>1
  <2>4. MaxPolls \in Nat
    BY Constants
  <2>5. mineErrors' + polls' <= MaxPolls /\ polls' \in 0..MaxPolls /\ mineErrors' \in 0..MaxPolls
    BY <2>1, <2>2, <2>3, <2>4, OneMoreError
  <2>6. pc' # "nudge"
    BY <1>4
  <2>7. QED
    BY <2>5, <2>6 DEF BarrierTypes
<1>6. QED
  BY <1>3, <1>4, <1>5

LEMMA BarriersTyped == ASSUME TypeInv, Barriers PROVE TypeInv'
<1>. mempool \in Nat /\ lag \in Nat /\ ops \in Nat
  BY Constants DEF TypeInv, StackTypes
<1>1. UNCHANGED <<hub, creds, at, failed>>
  BY DEF Barriers
<1>2. CASE \E reply \in Replies, done \in BOOLEAN : Nudge(reply, done)
  BY <1>1, <1>2, NudgeTyped, StackMoves DEF Labels
<1>3. CASE TestEnds
  <2>1. StackTypes'
    BY <1>3 DEF TestEnds, world, TypeInv, StackTypes, NoAnswer, StatusType, AtRest
  <2>2. BarrierTypes' /\ pc' = "poll"
    BY <1>3, Constants DEF TestEnds, BarrierTypes
  <2>3. QED
    BY <1>1, <2>1, <2>2, StackMoves DEF Labels
<1>4. CASE Sends
  <2>1. StackTypes'
    BY <1>4, Constants DEF Sends, Does, barrier, TypeInv, StackTypes
  <2>2. BarrierTypes' /\ pc' = pc /\ pc = "test"
    BY <1>4 DEF Sends, Does, barrier, TypeInv, BarrierTypes
  <2>3. QED
    BY <1>1, <2>1, <2>2, StackMoves DEF Labels, Tops
<1>5. CASE Poll
  <2>1. Probed \in StatusType
    BY DEF Probed, StatusType, NoAnswer, AtRest
  <2>2. StackTypes'
    BY <1>5, <2>1 DEF Poll, world, TypeInv, StackTypes
  <2>3. BarrierTypes' /\ pc' \in {"judge", "nudge", "poll"}
    BY <1>5, Constants DEF Poll, TypeInv, BarrierTypes
  <2>4. QED
    BY <1>1, <2>2, <2>3, StackMoves DEF Labels
<1>6. CASE BudgetSpent
  <2>1. StackTypes' /\ BarrierTypes' /\ pc' = "judge"
    BY <1>6 DEF BudgetSpent, stack, world, barrier, TypeInv, StackTypes, BarrierTypes
  <2>2. QED
    BY <1>1, <2>1, StackMoves DEF Labels
<1>7. QED
  BY <1>2, <1>3, <1>4, <1>5, <1>6 DEF Barriers

LEMMA EnvironmentTyped ==
    ASSUME TypeInv, Environment
    PROVE  /\ TypeInv' /\ UNCHANGED <<pc, hub, creds, at, failed, believed, polls, status>>
           /\ settled' = settled \/ settled' = (settled \/ AtRest')
<1>. mempool \in Nat /\ lag \in Nat /\ ops \in Nat /\ outages \in Nat
  BY Constants DEF TypeInv, StackTypes
<1>1. UNCHANGED <<pc, hub, creds, at, failed, believed, barrier>>
  BY DEF Environment, AutoMines, Follows, StrayArrives, Fails, Returns
<1>2. settled' = settled \/ settled' = (settled \/ AtRest')
  BY DEF Environment, AutoMines, Follows, StrayArrives, Fails, Returns, Rests
<1>3. settled' \in BOOLEAN
  BY <1>2 DEF TypeInv, StackTypes
<1>4. StackTypes'
  <2>1. CASE AutoMines \/ Follows \/ StrayArrives
    BY <1>1, <1>3, <2>1, Constants DEF AutoMines, Follows, StrayArrives, barrier, TypeInv, StackTypes
  <2>2. ASSUME NEW s \in Ran, Fails(s) \/ Returns(s) PROVE StackTypes'
    <3>1. miner' \in Settings
      BY <2>2, SettingsTyped DEF Fails, Returns, AfterRestart, TypeInv, StackTypes
    <3>2. QED
      BY <1>1, <1>3, <2>2, <3>1 DEF Fails, Returns, barrier, TypeInv, StackTypes
  <2>3. QED
    BY <2>1, <2>2 DEF Environment
<1>5. BarrierTypes'
  BY <1>1 DEF barrier, TypeInv, BarrierTypes
<1>6. pc \in Labels
  BY DEF TypeInv, RunTypes
<1>7. QED
  BY <1>1, <1>2, <1>4, <1>5, <1>6, StackMoves DEF barrier

LEMMA TypeStep == TypeInv /\ [Next]_vars => TypeInv'
<1> SUFFICES ASSUME TypeInv, [Next]_vars PROVE TypeInv'
  OBVIOUS
<1>1. CASE UNCHANGED vars
  BY <1>1 DEF vars, hub, call, stack, world, barrier, TypeInv, HubTypes, StackTypes, BarrierTypes,
     RunTypes, Fetched
<1>2. QED
  BY <1>1, NextIs, HubStepTyped, AsksTyped, HooksTyped, BarriersTyped, ControlsTyped,
     EnvironmentTyped, ResolvesTyped

(* The harness is at one of its awaits, a call is at one of its endpoints,  *)
(* and a barrier never counts more failed nudges than it has polls.         *)
THEOREM TypeCorrect == Spec => []TypeOK
<1>1. TypeInv => TypeOK
  BY BodiesAre DEF TypeInv, HubTypes, StackTypes, BarrierTypes, RunTypes, TypeOK, AnswerType, Creds
<1>2. QED
  BY <1>1, TypeInit, TypeStep, PTL DEF Spec

-----------------------------------------------------------------------------
(* The miner's settings and what the harness believes of them.             *)

LEMMA OnlyControlsTell ==
    ASSUME TypeInv, [Next]_vars
    PROVE  \/ believed' = believed
           \/ \A j \in DOMAIN believed : believed'[j] # believed[j] => miner'[j] = believed'[j]
<1>1. CASE HubStep \/ AsksTheHub \/ Hooks \/ UNCHANGED vars \/ \E given \in SUBSET Secrets : Resolves(given)
  BY <1>1 DEF HubStep, AsksTheHub, Hooks, Pinged, MinerPinged, afterEach, HookFails,
     FromEnvironment, ResolveThrows, Resolves, vars, stack
<1>2. CASE Barriers
  BY <1>2 DEF Barriers, TestEnds, Sends, Poll, BudgetSpent, Nudge, stack
<1>3. QED
  BY <1>1, <1>2, NextIs, ControlsTyped, EnvironmentTyped

(* A setting the harness comes to believe holds in the miner when the call  *)
(* returns, whatever the miner answers and whatever it did of the call.     *)
THEOREM BeliefsTakeEffect == Spec => ControlsTookEffect
<1>1. ASSUME TypeInv, [Next]_vars
      PROVE  [\A k \in DOMAIN believed : believed'[k] # believed[k] => miner'[k] = believed'[k]]_vars
  BY <1>1, OnlyControlsTell
<1>2. QED
  BY <1>1, TypeInit, TypeStep, PTL DEF Spec, ControlsTookEffect

-----------------------------------------------------------------------------
(* The sentinel.                                                           *)

LEMMA TreesThatSay == \A t \in Trees : t.withheld = "no" => t.secrets = "real"
BY DEF Trees, Tree, Sentinel

\* A fetch that returns leaves a tree, and takes it to be redacted unless it
\* says that it is not.
LEMMA FetchLeaves ==
    ASSUME TypeInv, NEW l \in {"tier", "bare"}, NEW a, FetchHeard(l, a, "resolve")
    PROVE  \/ UNCHANGED <<tree, redacted>>
           \/ tree' \in Trees /\ redacted' = (tree'.withheld # "no")
<1>1. CASE _usableConfigResult(Result(a))
  <2>1. tree' = Result(a) /\ redacted' = (Result(a).withheld # "no")
    BY <1>1 DEF FetchHeard, _applyConfigResult
  <2>2. a \in Answers(l)
    BY DEF FetchHeard, Hears
  <2>3. Result(a) \in Trees \cup Kept
    BY <2>2, AnswersTyped DEF Result, Fallback, TypeInv, HubTypes
  <2>4. Result(a) \in Trees
    BY <1>1, <2>3, BodiesAre DEF _usableConfigResult
  <2>5. QED
    BY <2>1, <2>4, Zenon
<1>2. CASE ~_usableConfigResult(Result(a))
  BY <1>2 DEF FetchHeard, NothingApplied
<1>3. QED
  BY <1>1, <1>2

LEMMA SecretsInit == Init => NoSentinelAuthenticates
BY DEF Init, HubInit, NoSentinelAuthenticates, Sentinel

LEMMA SecretsStep ==
    TypeInv /\ NoSentinelAuthenticates /\ [Next]_vars => NoSentinelAuthenticates'
<1> SUFFICES ASSUME TypeInv, NoSentinelAuthenticates, [Next]_vars
             PROVE  NoSentinelAuthenticates'
  OBVIOUS
<1>1. CASE HubStep
  <2>1. creds' = creds
    BY <1>1 DEF HubStep
  <2>2. UNCHANGED <<tree, redacted>> \/ (tree' \in Trees /\ redacted' = (tree'.withheld # "no"))
    <3>1. CASE \E l \in {"ping", "tier", "bare"}, a \in Answers(pc) : NextEndpoint(l, a)
      BY <3>1 DEF NextEndpoint
    <3>2. CASE \E a \in Answers(pc) : PingHeard(a)
      BY <3>2 DEF PingHeard, Hears, NothingApplied
    <3>3. CASE \E l \in {"tier", "bare"}, a \in Answers(pc) : FetchHeard(l, a, "resolve")
      BY <3>3, FetchLeaves
    <3>4. QED
      BY <1>1, <3>1, <3>2, <3>3 DEF HubStep
  <2>3. ~redacted' => tree'.secrets = "real"
    BY <2>2, TreesThatSay DEF NoSentinelAuthenticates
  <2>4. QED
    BY <2>1, <2>3 DEF NoSentinelAuthenticates
<1>2. ASSUME NEW given \in SUBSET Secrets, Resolves(given) PROVE NoSentinelAuthenticates'
  <2>1. \A s \in Secrets : creds'[s] # Sentinel
    BY <1>2 DEF Resolves, assertUnredactedCredential
  <2>2. QED
    BY <1>2, <2>1 DEF Resolves, NoSentinelAuthenticates
<1>3. CASE FromEnvironment
  BY <1>3 DEF FromEnvironment, hub, NoSentinelAuthenticates, Sentinel
<1>4. CASE UNCHANGED <<creds, tree, redacted>>
  BY <1>4 DEF NoSentinelAuthenticates
<1>5. CASE UNCHANGED vars \/ AsksTheHub \/ Barriers \/ Pinged \/ MinerPinged \/ afterEach \/ HookFails \/ ResolveThrows
  BY <1>4, <1>5 DEF vars, hub, AsksTheHub, Barriers, Pinged, MinerPinged, afterEach, HookFails,
     ResolveThrows
<1>6. CASE Controls \/ Environment
  BY <1>4, <1>6, ControlsTyped, EnvironmentTyped DEF hub
<1>7. QED
  BY <1>1, <1>2, <1>3, <1>5, <1>6, NextIs DEF Hooks

(* No connector is built with the sentinel of a withheld password, and a    *)
(* config that is not taken to be redacted holds the passwords, whatever    *)
(* order the hubs answer in, grant, withhold or fail.                       *)
THEOREM SentinelsStayOut == Spec => []NoSentinelAuthenticates
BY TypeInit, TypeStep, SecretsInit, SecretsStep, PTL DEF Spec

-----------------------------------------------------------------------------
(* The barrier between two tests.                                          *)

\* Under a barrier, a stack that is at rest has been noted to be; a status that
\* says so is judged at once, and no other one survives a nudge.
RestInv ==
    /\ pc \in {"poll", "nudge", "judge"} => (AtRest => settled)
    /\ pc \in {"poll", "nudge"} => ~status.ready
    /\ pc = "judge" => (status.ready => settled)
    /\ pc = "pace" => at = 0
    /\ pc = "test" => (at > 0 => settled)

LEMMA RestInit == Init => RestInv
BY DEF Init, RestInv

LEMMA RestStep == TypeInv /\ RestInv /\ [Next]_vars => RestInv'
<1> SUFFICES ASSUME TypeInv, RestInv, [Next]_vars PROVE RestInv'
  OBVIOUS
<1>1. CASE UNCHANGED <<stack, pc, at>>
  BY <1>1 DEF stack, world, barrier, RestInv, AtRest
<1>2. ASSUME pc' \notin {"poll", "nudge", "judge", "pace", "test"} PROVE RestInv'
  BY <1>2 DEF RestInv
<1>3. CASE HubStep \/ AsksTheHub
  <2>1. pc' \in {"ping", "tier", "bare", "failed", "resolve"}
    <3>1. CASE AsksTheHub
      BY <3>1 DEF AsksTheHub, Ask
    <3>2. CASE \E l \in {"ping", "tier", "bare"}, a \in Answers(pc) : NextEndpoint(l, a)
      BY <3>2 DEF NextEndpoint
    <3>3. CASE \E a \in Answers(pc) : PingHeard(a)
      BY <3>3 DEF PingHeard, Ask
    <3>4. CASE \E l \in {"tier", "bare"}, a \in Answers(pc) : FetchHeard(l, a, "resolve")
      BY <3>4 DEF FetchHeard, Ask
    <3>5. QED
      BY <1>3, <3>1, <3>2, <3>3, <3>4 DEF HubStep
  <2>2. QED
    BY <1>2, <2>1
<1>4. CASE \E given \in SUBSET Secrets : Resolves(given)
  BY <1>2, <1>4 DEF Resolves
<1>5. CASE Hooks
  <2>1. CASE afterEach
    <3>1. UNCHANGED stack /\ (pc' = "test" => status.ready) /\ pc' \in {"failed", "teardown", "test"}
      BY <2>1 DEF afterEach, Passes
    <3>2. pc = "judge"
      BY <2>1 DEF afterEach
    <3>3. pc' = "test" => settled'
      BY <3>1, <3>2 DEF stack, RestInv
    <3>4. QED
      BY <3>1, <3>3 DEF RestInv
  <2>2. CASE MinerPinged
    BY <2>2 DEF MinerPinged, RestInv
  <2>3. CASE Pinged \/ HookFails \/ FromEnvironment \/ ResolveThrows
    BY <1>2, <2>3 DEF Pinged, HookFails, FromEnvironment, ResolveThrows
  <2>4. QED
    BY <1>5, <2>1, <2>2, <2>3 DEF Hooks
<1>6. CASE Barriers
  <2>0. UNCHANGED at
    BY <1>6 DEF Barriers
  <2>1. CASE TestEnds
    BY <2>1 DEF TestEnds, world, RestInv, AtRest, NoAnswer
  <2>2. CASE Sends
    BY <2>0, <2>2 DEF Sends, Does, barrier, RestInv
  <2>3. CASE Poll
    <3>1. Probed.ready => AtRest
      BY DEF Probed, NoAnswer
    <3>2. AtRest => settled
      BY <2>3 DEF Poll, RestInv
    <3>3. /\ status' = Probed /\ settled' = settled /\ (AtRest' <=> AtRest)
          /\ pc' \in {"judge", "nudge", "poll"} /\ (pc' # "judge" => ~Probed.ready)
      BY <2>3 DEF Poll, world, AtRest
    <3>4. QED
      BY <3>1, <3>2, <3>3 DEF RestInv
  <2>4. CASE BudgetSpent
    BY <2>4 DEF BudgetSpent, stack, world, barrier, RestInv, AtRest
  <2>5. CASE \E reply \in Replies, done \in BOOLEAN : Nudge(reply, done)
    <3>1. pc = "nudge" /\ pc' = "poll" /\ status' = status /\ settled' = (settled \/ AtRest')
      BY <2>5 DEF Nudge, Rests
    <3>2. QED
      BY <3>1 DEF RestInv
  <2>6. QED
    BY <1>6, <2>1, <2>2, <2>3, <2>4, <2>5 DEF Barriers
<1>7. CASE Controls
  <2>1. /\ UNCHANGED <<barrier, settled, at>> /\ pc \in {"pace", "teardown", "test"}
        /\ pc' \in {"test", "failed", "off", "threw"} /\ (pc' = "test" => pc \in {"pace", "test"})
    BY <1>7, ControlsTyped
  <2>2. at \in Nat
    BY DEF TypeInv, RunTypes
  <2>3. QED
    BY <2>1, <2>2 DEF RestInv
<1>8. CASE Environment
  <2>1. UNCHANGED <<pc, at, status>> /\ (settled' = settled \/ settled' = (settled \/ AtRest'))
    BY <1>8, EnvironmentTyped
  <2>2. settled => settled'
    BY <2>1, Zenon
  <2>3. AtRest' => AtRest \/ settled'
    <3>1. CASE AutoMines \/ Follows
      BY <3>1 DEF AutoMines, Follows, Rests
    <3>2. CASE StrayArrives
      <4>1. mempool \in Nat /\ mempool' = mempool + 1
        BY <3>2, Constants DEF StrayArrives, TypeInv, StackTypes
      <4>2. mempool' # 0
        BY <4>1
      <4>3. QED
        BY <4>2 DEF AtRest
    <3>3. CASE \E s \in Ran : Fails(s) \/ Returns(s)
      BY <3>3 DEF Fails, Returns, AtRest
    <3>4. QED
      BY <1>8, <3>1, <3>2, <3>3 DEF Environment
  <2>4. QED
    BY <2>1, <2>2, <2>3 DEF RestInv
<1>9. QED
  BY <1>1, <1>3, <1>4, <1>5, <1>6, <1>7, <1>8, NextIs DEF vars

(* A test starts only over a stack that came to rest after the one before   *)
(* it, though late transactions, the miner's own blocks and restarts of any *)
(* service move it under the barrier and between two tests.                 *)
THEOREM TestsStartAtRest == Spec => []NoTestOnADirtyStack
<1>1. RestInv => NoTestOnADirtyStack
  BY DEF RestInv, NoTestOnADirtyStack
<1>2. QED
  BY <1>1, TypeInit, TypeStep, RestInit, RestStep, PTL DEF Spec

-----------------------------------------------------------------------------
(* The answer of a call over several endpoints.                            *)

SentBy(h, http) == {i \in DOMAIN h : h[i].http = http /\ h[i].body # NoBody}

\* r is the body the last unhealthy endpoint of h sent, if one did.
LastOf(h, r) ==
    IF SentBy(h, "refused") # {}
    THEN \E i \in SentBy(h, "refused") : r = h[i].body /\ \A j \in SentBy(h, "refused") : j <= i
    ELSE r = NoBody

\* While a call is under way nothing healthy was heard.
CallInv == SentBy(heard, "ok") = {} /\ LastOf(heard, degraded)

LEMMA NothingHeard ==
    /\ SentBy(<<>>, "ok") = {} /\ SentBy(<<>>, "refused") = {} /\ LastOf(<<>>, NoBody)
BY DEF SentBy, LastOf

\* One more answer.
LEMMA OneMoreAnswer ==
    ASSUME NEW h \in Seq(AnswerType), NEW a \in AnswerType, NEW http
    PROVE  LET g == Append(h, a)
           IN  /\ DOMAIN g = DOMAIN h \cup {Len(h) + 1} /\ g[Len(h) + 1] = a
               /\ \A i \in DOMAIN h : i \in Nat /\ i <= Len(h) /\ g[i] = h[i]
               /\ SentBy(g, http) = IF a.http = http /\ a.body # NoBody
                                    THEN SentBy(h, http) \cup {Len(h) + 1} ELSE SentBy(h, http)
<1>. DEFINE g == Append(h, a)
<1>1. DOMAIN g = 1..(Len(h) + 1) /\ DOMAIN h = 1..Len(h) /\ Len(h) \in Nat
  OBVIOUS
<1>2. g[Len(h) + 1] = a /\ \A i \in 1..Len(h) : g[i] = h[i]
  OBVIOUS
<1>3. DOMAIN g = DOMAIN h \cup {Len(h) + 1} /\ Len(h) + 1 \notin DOMAIN h
  BY <1>1
<1>4. \A i \in DOMAIN h : i \in Nat /\ i <= Len(h) /\ g[i] = h[i]
  BY <1>1, <1>2
<1>. HIDE DEF g
<1>5. SentBy(g, http) = IF a.http = http /\ a.body # NoBody
                        THEN SentBy(h, http) \cup {Len(h) + 1} ELSE SentBy(h, http)
  BY <1>2, <1>3, <1>4 DEF SentBy
<1>6. QED
  BY <1>2, <1>3, <1>4, <1>5 DEF g

LEMMA FallbackIsLast ==
    ASSUME NEW h \in Seq(AnswerType), NEW a \in AnswerType, NEW d, LastOf(h, d)
    PROVE  LastOf(Append(h, a), IF Unhealthy(a) THEN a.body ELSE d)
<1>. DEFINE g == Append(h, a)
<1>0. Unhealthy(a) <=> a.http = "refused" /\ a.body # NoBody
  BY BodiesAre DEF Unhealthy, AnswerType
<1>1. /\ g[Len(h) + 1] = a
      /\ \A i \in DOMAIN h : i \in Nat /\ i <= Len(h) /\ g[i] = h[i]
      /\ SentBy(g, "refused") = IF Unhealthy(a) THEN SentBy(h, "refused") \cup {Len(h) + 1}
                                ELSE SentBy(h, "refused")
  BY <1>0, OneMoreAnswer
<1>2. SentBy(h, "refused") \subseteq DOMAIN h /\ Len(h) \in Nat
  BY DEF SentBy
<1>. HIDE DEF g
<1>3. CASE Unhealthy(a)
  <2>1. Len(h) + 1 \in SentBy(g, "refused") /\ SentBy(g, "refused") = SentBy(h, "refused") \cup {Len(h) + 1}
    BY <1>1, <1>3
  <2>2. \A j \in SentBy(g, "refused") : j <= Len(h) + 1
    BY <1>1, <1>2, <2>1
  <2>3. LastOf(g, a.body)
    BY <1>1, <2>1, <2>2 DEF LastOf
  <2>4. QED
    BY <1>3, <2>3 DEF g
<1>4. CASE ~Unhealthy(a)
  <2>1. SentBy(g, "refused") = SentBy(h, "refused")
    BY <1>1, <1>4
  <2>2. LastOf(g, d)
    BY <1>1, <1>2, <2>1 DEF LastOf
  <2>3. QED
    BY <1>4, <2>2 DEF g
<1>5. QED
  BY <1>3, <1>4

\* What a call that ends returns, and what one that goes on keeps.
LEMMA CallGoesOn ==
    ASSUME TypeInv, CallInv, NEW a \in Answers(pc), NEW l, NextEndpoint(l, a)
    PROVE  CallInv'
<1>1. a \in AnswerType /\ heard \in Seq(AnswerType) /\ a.body \in Bodies
  BY AnswersTyped DEF TypeInv, HubTypes
<1>2. heard' = Append(heard, a) /\ degraded' = (IF Unhealthy(a) THEN a.body ELSE degraded)
  BY DEF NextEndpoint, Fallback
<1>3. ~(a.http = "ok" /\ a.body # NoBody)
  BY <1>1, BodiesAre DEF NextEndpoint, Healthy
<1>4. SentBy(heard', "ok") = {}
  BY <1>1, <1>2, <1>3, OneMoreAnswer DEF CallInv
<1>5. LastOf(heard', degraded')
  BY <1>1, <1>2, FallbackIsLast DEF CallInv
<1>6. QED
  BY <1>4, <1>5 DEF CallInv, SentBy, LastOf

LEMMA CallEnds ==
    ASSUME TypeInv, CallInv, NEW a \in Answers(pc), NEW l, Hears(l, a)
    PROVE  HealthyAnswerWins'
<1>. DEFINE g == Append(heard, a)
<1>1. a \in AnswerType /\ heard \in Seq(AnswerType) /\ a.body \in Bodies
  BY AnswersTyped DEF TypeInv, HubTypes
<1>2. answer'.heard = g /\ answer'.result = Result(a)
  BY DEF Hears
<1>3. Healthy(a) <=> a.http = "ok" /\ a.body # NoBody
  BY <1>1, BodiesAre DEF Healthy
<1>4. g[Len(heard) + 1] = a /\ Len(heard) + 1 \in Nat
  BY <1>1
<1>5. SentBy(g, "ok") = IF Healthy(a) THEN {Len(heard) + 1} ELSE {}
  BY <1>1, <1>3, OneMoreAnswer DEF CallInv
<1>6. LastOf(g, Fallback(a))
  BY <1>1, FallbackIsLast DEF CallInv, Fallback
<1>. HIDE DEF g
<1>7. CASE Healthy(a)
  <2>1. SentBy(g, "ok") = {Len(heard) + 1} /\ Result(a) = a.body
    BY <1>5, <1>7 DEF Result
  <2>2. \E i \in SentBy(g, "ok") : Result(a) = g[i].body /\ \A j \in SentBy(g, "ok") : i <= j
    BY <1>4, <2>1
  <2>3. QED
    BY <1>2, <2>1, <2>2 DEF HealthyAnswerWins, SentBy
<1>8. CASE ~Healthy(a)
  <2>1. SentBy(g, "ok") = {} /\ LastOf(g, Result(a))
    BY <1>5, <1>6, <1>8 DEF Result
  <2>2. QED
    BY <1>2, <2>1 DEF HealthyAnswerWins, SentBy, LastOf
<1>9. QED
  BY <1>7, <1>8

\* A call that starts has heard nothing.
LEMMA CallStarts == ASSUME NEW l, Ask(l) PROVE CallInv'
<1>1. heard' = <<>> /\ degraded' = NoBody
  BY DEF Ask
<1>2. QED
  BY <1>1, NothingHeard DEF CallInv, SentBy, LastOf

LEMMA AnswersInit == Init => CallInv /\ HealthyAnswerWins
<1> SUFFICES ASSUME Init PROVE CallInv /\ HealthyAnswerWins
  OBVIOUS
<1>1. heard = <<>> /\ degraded = NoBody /\ answer.heard = <<>> /\ answer.result = NoBody
  BY DEF Init, HubInit
<1>2. QED
  BY <1>1, NothingHeard DEF CallInv, HealthyAnswerWins, SentBy, LastOf

LEMMA AnswersStep ==
    TypeInv /\ CallInv /\ HealthyAnswerWins /\ [Next]_vars => CallInv' /\ HealthyAnswerWins'
<1> SUFFICES ASSUME TypeInv, CallInv, HealthyAnswerWins, [Next]_vars
             PROVE  CallInv' /\ HealthyAnswerWins'
  OBVIOUS
<1>1. ASSUME UNCHANGED <<heard, degraded>> PROVE CallInv'
  BY <1>1 DEF CallInv, SentBy, LastOf
<1>2. ASSUME UNCHANGED answer PROVE HealthyAnswerWins'
  BY <1>2 DEF HealthyAnswerWins
<1>3. CASE HubStep
  <2>1. CASE \E l \in {"ping", "tier", "bare"}, a \in Answers(pc) : NextEndpoint(l, a)
    BY <1>2, <2>1, CallGoesOn DEF NextEndpoint
  <2>2. CASE \E a \in Answers(pc) : PingHeard(a)
    BY <2>2, CallEnds, CallStarts DEF PingHeard
  <2>3. CASE \E l \in {"tier", "bare"}, a \in Answers(pc) : FetchHeard(l, a, "resolve")
    BY <2>3, CallEnds, CallStarts DEF FetchHeard
  <2>4. QED
    BY <1>3, <2>1, <2>2, <2>3 DEF HubStep
<1>4. CASE AsksTheHub
  BY <1>2, <1>4, CallStarts DEF AsksTheHub
<1>5. CASE \E given \in SUBSET Secrets : Resolves(given)
  <2>1. UNCHANGED <<heard, degraded>> /\ answer'.heard = <<>> /\ answer'.result = NoBody
    BY <1>5 DEF Resolves, call
  <2>2. HealthyAnswerWins'
    BY <2>1, NothingHeard DEF HealthyAnswerWins, SentBy
  <2>3. QED
    BY <1>1, <2>1, <2>2
<1>6. CASE UNCHANGED hub
  BY <1>1, <1>2, <1>6 DEF hub, call
<1>7. CASE UNCHANGED vars \/ Hooks \/ Barriers
  BY <1>6, <1>7 DEF vars, Hooks, Barriers, Pinged, MinerPinged, afterEach, HookFails,
     FromEnvironment, ResolveThrows
<1>8. CASE Controls \/ Environment
  BY <1>6, <1>8, ControlsTyped, EnvironmentTyped
<1>9. QED
  BY <1>3, <1>4, <1>5, <1>7, <1>8, NextIs

(* A call returns the first healthy body whatever was heard before it, and  *)
(* without one the last body an unhealthy endpoint sent, for every number   *)
(* of endpoints and every order in which they answer, refuse or are down.   *)
THEOREM HealthyAnswersWin == Spec => []HealthyAnswerWins
BY TypeInit, TypeStep, AnswersInit, AnswersStep, PTL DEF Spec

=============================================================================
