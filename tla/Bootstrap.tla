----------------------------- MODULE Bootstrap ------------------------------
(***************************************************************************)
(* The root hooks of a run (test/initialCheck.test.js) over the connectors *)
(* of HubConnector and TestStack: coordinates and credentials come from    *)
(* the environment or the hub's config, every service is pinged, the miner *)
(* is paced, then tests run one after the other with a barrier after each. *)
(***************************************************************************)
EXTENDS HubConnector, TestStack

CONSTANTS
    Secrets,      \* the credentials the harness authenticates with
    Services,     \* the services pinged, in order, before the miner
    MaxReady,     \* polls waitForReady's budget holds
    MaxTests      \* tests of the run

ASSUME BootstrapAssumption == MaxReady \in Nat /\ MaxTests \in Nat \ {0}

VARIABLES
    creds,        \* what the connectors were built with
    at,           \* services pinged; polls of the miner spent; tests run
    failed        \* has a hook failed?

vars == <<pc, hub, stack, creds, at, failed>>

Tops == {"start", "resolve", "pings", "ready", "pace", "test", "threw", "teardown", "off"}
Labels == Tops \cup {"ping", "tier", "bare", "failed", "poll", "nudge", "judge"}

Ran == {Services[i] : i \in 1..Len(Services)} \cup {"miner", "node", "tracker"}

-----------------------------------------------------------------------------
(* env-resolution *)

\* Every variable is set: the hub is not asked, and the credentials are those
\* of the environment.
FromEnvironment ==
    /\ pc = "start"
    /\ pc' = "pings" /\ creds' = [s \in Secrets |-> "env"]
    /\ UNCHANGED <<hub, stack, at, failed>>

AsksTheHub ==
    /\ pc = "start"
    /\ Ask("ping")
    /\ UNCHANGED <<keys, tree, redacted, answer, stack, creds, at, failed>>

HubStep ==
    /\ \E a \in Answers(pc) :
          \/ \E l \in {"ping", "tier", "bare"} : NextEndpoint(l, a)
          \/ PingHeard(a)
          \/ \E l \in {"tier", "bare"} : FetchHeard(l, a, "resolve")
    /\ UNCHANGED <<stack, creds, at, failed>>

\* A withheld password is replaced by one the environment gives under the name
\* the refusal asks for, or refused.
hubCredential(value, given) ==
    IF value # Sentinel THEN value ELSE IF given THEN "env" ELSE Sentinel

assertUnredactedCredential(value) == value # Sentinel

\* The tree may lack this chain, the environment may lack the explorer, and a
\* sentinel nothing replaces ends the run; the constructors do not await.
Resolves(given) ==
    LET found == [s \in Secrets |-> hubCredential(tree.secrets, s \in given)]
    IN  /\ pc = "resolve"
        /\ \A s \in Secrets : assertUnredactedCredential(found[s])
        /\ creds' = found /\ pc' = "pings"
        /\ answer' = [heard |-> <<>>, result |-> NoBody]
        /\ UNCHANGED <<keys, call, tree, redacted, stack, at, failed>>

ResolveThrows ==
    /\ pc = "resolve"
    /\ pc' = "failed"
    /\ UNCHANGED <<hub, stack, creds, at, failed>>

-----------------------------------------------------------------------------
(* service-pings *)

Pinged ==
    /\ pc = "pings"
    /\ IF at < Len(Services) /\ Services[at + 1] \notin up
       THEN pc' = "failed" /\ at' = 0
       ELSE IF at < Len(Services) THEN at' = at + 1 /\ UNCHANGED pc
       ELSE at' = 0 /\ pc' = "ready"
    /\ UNCHANGED <<hub, stack, creds, failed>>

\* Mutant: the miner is awaited without a deadline.
MinerAwaited ==
    /\ pc = "ready" /\ "miner" \in up
    /\ pc' = "pace" /\ at' = 0
    /\ UNCHANGED <<hub, stack, creds, failed>>

\* waitForReady: the wait is clamped to the deadline, and one ping follows it.
MinerPinged ==
    /\ pc = "ready"
    /\ IF "miner" \in up THEN pc' = "pace" /\ at' = 0
       ELSE IF at < MaxReady THEN at' = at + 1 /\ UNCHANGED pc
       ELSE pc' = "failed" /\ at' = 0
    /\ UNCHANGED <<hub, stack, creds, failed>>

setMiningTime(reply, done) ==
    /\ pc = "pace"
    /\ Control("pace", "suite", reply, done)
    /\ pc' = IF unwrap(reply) THEN "test" ELSE "failed"
    /\ UNCHANGED <<hub, mempool, lag, up, outages, barrier, ops, settled, creds, at, failed>>

-----------------------------------------------------------------------------
(* The tests, and the hook after each *)

InTest ==
    /\ \/ TestEnds \/ Sends \/ Poll \/ BudgetSpent
       \/ \E reply \in Replies, done \in BOOLEAN :
             \/ Nudge(reply, done)
             \/ \E v \in {"running", "paused"} : Pauses(v, reply, done)
             \/ \E v \in {"real", "pinned"} : PinsClock(v, reply, done)
    /\ UNCHANGED <<hub, creds, at, failed>>

afterEach ==
    /\ pc = "judge"
    /\ IF ~Passes THEN pc' = "failed" /\ UNCHANGED at
       ELSE /\ at' = at + 1
            /\ pc' = IF at' = MaxTests THEN "teardown" ELSE "test"
    /\ UNCHANGED <<hub, stack, creds, failed>>

\* A hook that throws ends the run; the closing hook runs all the same.
HookFails ==
    /\ pc = "failed"
    /\ pc' = "teardown" /\ failed' = TRUE
    /\ UNCHANGED <<hub, stack, creds, at>>

\* The miner gets its own pace back if it will; what it says fails nothing.
afterAll(reply, done) ==
    /\ pc = "teardown"
    /\ Control("pace", "default", reply, done)
    /\ pc' = "off"
    /\ UNCHANGED <<hub, mempool, lag, up, outages, barrier, ops, settled, creds, at, failed>>

-----------------------------------------------------------------------------
Init ==
    /\ HubInit
    /\ pc = "start"
    /\ mempool = 0 /\ lag = 0 /\ outages = 0 /\ ops = MaxOps /\ settled = FALSE
    /\ up \in {Ran, Ran \ {"miner"}}
    /\ miner = [pace |-> "default", clock |-> "real", auto |-> "running"]
    /\ believed = miner
    /\ polls = 0 /\ status = NoAnswer /\ mineErrors = 0
    /\ creds = [s \in Secrets |-> "none"] /\ at = 0 /\ failed = FALSE

Harness ==
    \/ FromEnvironment \/ AsksTheHub \/ HubStep
    \/ \E given \in SUBSET Secrets : Resolves(given)
    \/ ResolveThrows
    \/ Pinged \/ MinerPinged
    \/ \E reply \in Replies, done \in BOOLEAN : setMiningTime(reply, done) \/ afterAll(reply, done)
    \/ InTest \/ afterEach \/ HookFails

Environment ==
    /\ pc \notin {"start", "ping", "tier", "bare", "resolve", "off"}
    /\ AutoMines \/ Follows \/ StrayArrives \/ \E s \in Ran : Fails(s) \/ Returns(s)
    /\ UNCHANGED <<hub, creds, at, failed>>

Next == Harness \/ Environment

Spec == Init /\ [][Next]_vars

\* Every await of the harness returns, and the runner's timeout ends a test
\* whose own awaits do not.  Nothing is assumed of the services.
FairSpec == Spec /\ WF_vars(Harness)

-----------------------------------------------------------------------------
(* The types of the variables: the harness is at one of its awaits, and a   *)
(* call that is not under way is at its first endpoint.                     *)
TypeOK ==
    /\ pc \in Labels
    /\ keys \subseteq {"bulk", "cred"}
    /\ url \in 1..Endpoints /\ degraded \in Bodies /\ refusal \in BOOLEAN
    /\ heard \in Seq([http : {"ok", "refused", "silence"}, body : Bodies])
    /\ tree \in Trees \cup {NoBody} /\ redacted \in BOOLEAN
    /\ mempool \in 0..MaxMempool /\ lag \in 0..MaxLag /\ up \subseteq Ran
    /\ miner \in Settings /\ believed \in Settings
    /\ polls \in 0..MaxPolls /\ mineErrors \in 0..MaxPolls
    /\ creds \in [Secrets -> {"none", "env", "real", Sentinel}]
    /\ failed \in BOOLEAN /\ settled \in BOOLEAN

(* Whatever order the endpoints are in and whatever each answers, a call    *)
(* returns the first healthy body, only without one a body an unhealthy     *)
(* endpoint sent, the last, and null only if none sent any (_call).         *)
HealthyAnswerWins ==
    LET h == answer.heard
        sent(http) == {i \in DOMAIN h : h[i].http = http /\ h[i].body # NoBody}
    IN  IF sent("ok") # {}
        THEN \E i \in sent("ok") : answer.result = h[i].body /\ \A j \in sent("ok") : i <= j
        ELSE IF sent("refused") # {}
        THEN \E i \in sent("refused") : answer.result = h[i].body /\ \A j \in sent("refused") : j <= i
        ELSE answer.result = NoBody

(* No connector is built with the sentinel the hub puts in the place of a   *)
(* password, and a tree the connector does not call redacted has none: not  *)
(* the one a fallback ask brought, nor that of a hub of an older build.     *)
NoSentinelAuthenticates ==
    /\ \A s \in Secrets : creds[s] # Sentinel
    /\ ~redacted => tree.secrets = "real"

(* A test starts only if the stack came to rest after the one before it:    *)
(* the mempool empty and the tracker level with the node at one moment,     *)
(* though late transactions and blocks move both under the barrier.         *)
NoTestOnADirtyStack == pc = "test" /\ at > 0 => settled

(* What the harness comes to believe of the miner held when the call        *)
(* returned: an error object, an error member and an answer without its     *)
(* payload are never read as done (unwrap, and setMockTime's way round).    *)
ControlsTookEffect ==
    [][\A k \in DOMAIN believed : believed'[k] # believed[k] => miner'[k] = believed'[k]]_vars

(* A run ends whatever the services do: the hub's endpoints are tried once  *)
(* each, a miner that is never ready and a stack that never rests are given *)
(* up at their deadlines, and a failed hook still tears down.               *)
RunEnds == <>(pc = "off")
=============================================================================
