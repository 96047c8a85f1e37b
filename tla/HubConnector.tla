---------------------------- MODULE HubConnector ----------------------------
(***************************************************************************)
(* The connector to the hub (src/XChainHubConnector.js): a call tries the  *)
(* endpoints in turn and awaits each; a config fetch asks at the           *)
(* credential tier first and, where that was refused, in the old shape.    *)
(*                                                                         *)
(* Bootstrap.tla composes it with what uses it.  What an endpoint answers  *)
(* is an input of the step that hears it: endpoints are services of their  *)
(* own, of different ages, which come and go between two attempts.         *)
(***************************************************************************)
EXTENDS Naturals, Sequences, RootRun

CONSTANT Endpoints    \* number of hub endpoints configured

ASSUME HubAssumption == Endpoints \in Nat \ {0}

VARIABLES
    keys,         \* which hub keys the environment holds
    url,          \* the endpoint _call is at
    degraded,     \* the body kept from an unhealthy endpoint
    refusal,      \* lastHttpRefusal
    tree,         \* the config getAllConfig returned
    redacted,     \* lastConfigSecretsRedacted
    heard,        \* ghost: every answer of the call under way
    answer        \* ghost: what the last call heard and what it returned

call == <<url, degraded, refusal, heard>>
hub == <<keys, call, tree, redacted, answer>>

Sentinel == "[redacted]"

-----------------------------------------------------------------------------
(* Bodies and answers *)

Body(k) == [kind |-> k, secrets |-> "none", withheld |-> "unsaid"]

NoBody == Body("none")

\* withheld is the envelope's secrets_redacted; a bare tree cannot say.
Tree(s, w) == [kind |-> "tree", secrets |-> s, withheld |-> w]

Trees == {Tree("real", "no"), Tree(Sentinel, "yes"), Tree("real", "unsaid"),
          Tree(Sentinel, "unsaid")}

Bodies == Trees \cup {Body(k) : k \in {"none", "pong", "degraded", "error"}}

Answer(h, b) == [http |-> h, body |-> b]

\* Any request may meet a dead endpoint, one that is up over a dead database,
\* one that answers a bare error, or a 200 that carries an error member only.
Faults == {Answer("silence", NoBody), Answer("refused", Body("degraded")),
           Answer("refused", NoBody), Answer("ok", NoBody)}

HUB_API_KEY == IF "bulk" \in keys THEN "bulk" ELSE "none"

HUB_SECRETS_API_KEY == IF "cred" \in keys THEN "cred" ELSE HUB_API_KEY

\* Hubs as they answer a config ask: any may turn the tier down, withhold the
\* passwords, or be of the time before the envelope and serve a bare tree, with
\* the passwords or without.  Only an ask with a key is ever granted the tier.
Configs(ask) ==
    IF ask = "tier"
    THEN {Answer("ok", t) : t \in Trees \ {Tree("real", "no")}} \cup
         {Answer(h, Body("error")) : h \in {"ok", "refused"}} \cup
         {Answer("ok", Tree("real", "no")) : k \in {HUB_SECRETS_API_KEY} \ {"none"}}
    ELSE {Answer("ok", t) : t \in IF HUB_API_KEY = "none" THEN {}
                                  ELSE Trees \ {Tree("real", "no")}}

Answers(ask) ==
    Faults \cup IF ask = "ping" THEN {Answer("ok", Body("pong"))} ELSE Configs(ask)

-----------------------------------------------------------------------------
(* One call *)

Healthy(a) == a.http = "ok" /\ a.body.kind # "none"

Unhealthy(a) == a.http = "refused" /\ a.body.kind # "none"

\* What the call holds once it has heard a: the body to fall back on, and
\* whether any endpoint turned it down outright.
Fallback(a) == IF Unhealthy(a) THEN a.body ELSE degraded

Refused(a) == refusal \/ (a.http = "refused" /\ ~Unhealthy(a))

\* lastFailures and lastHttpRefusal start over with every call.
Ask(l) ==
    /\ pc' = l
    /\ url' = 1 /\ degraded' = NoBody /\ refusal' = FALSE /\ heard' = <<>>

NextEndpoint(l, a) ==
    /\ pc = l /\ a \in Answers(l) /\ ~Healthy(a) /\ url < Endpoints
    /\ degraded' = Fallback(a)
    /\ refusal' = Refused(a)
    /\ heard' = Append(heard, a)
    /\ url' = url + 1
    /\ UNCHANGED <<pc, keys, tree, redacted, answer>>

\* Mutant: a degraded body that was kept wins over a healthy one.
ResultDegradedFirst(a) == IF Healthy(a) /\ degraded = NoBody THEN a.body ELSE Fallback(a)

\* The answer that ends the call: a healthy one at once, else the last one.
Result(a) == IF Healthy(a) THEN a.body ELSE Fallback(a)

Hears(l, a) ==
    /\ pc = l /\ a \in Answers(l) /\ (Healthy(a) \/ url = Endpoints)
    /\ answer' = [heard |-> Append(heard, a), result |-> Result(a)]
    /\ UNCHANGED keys

-----------------------------------------------------------------------------
(* ping and getAllConfig *)

_usableConfigResult(b) == b.kind \notin {"none", "degraded", "error"}

\* Mutant: a tree that does not say is taken to hold everything.
TrustsABareTree(b) == tree' = b /\ redacted' = (b.withheld = "yes")

\* A hub that cannot say whether it withheld is taken to withhold.
_applyConfigResult(b) == tree' = b /\ redacted' = (b.withheld # "no")

NothingApplied == UNCHANGED <<tree, redacted>>

\* A degraded hub is up, so the fetch is tried; a null is no hub at all.
PingHeard(a) ==
    /\ Hears("ping", a)
    /\ Ask(IF Result(a) = NoBody THEN "failed" ELSE "tier")
    /\ NothingApplied

FetchHeard(l, a, done) ==
    /\ Hears(l, a)
    /\ IF _usableConfigResult(Result(a))
       THEN _applyConfigResult(Result(a)) /\ Ask(done)
       ELSE /\ NothingApplied
            /\ Ask(IF l = "tier" /\ (Refused(a) \/ Result(a).kind = "error")
                   THEN "bare" ELSE "failed")

HubInit ==
    /\ keys \in SUBSET {"bulk", "cred"}
    /\ url = 1 /\ degraded = NoBody /\ refusal = FALSE /\ heard = <<>>
    /\ tree = NoBody /\ redacted = TRUE
    /\ answer = [heard |-> <<>>, result |-> NoBody]

=============================================================================
