------------------------------- MODULE HubDb --------------------------------
(***************************************************************************)
(* The hub database of a suite (test/helpers/disposableHubDb.js) and the   *)
(* one docker daemon the processes of a host share.  A lane is a mocha     *)
(* process: one scripts/run-live-tier.js starts (LiveTier.tla), or a suite *)
(* somebody runs by hand.                                                  *)
(*                                                                         *)
(* `docker run -d` creates a container, which exists from then on under    *)
(* its name and with its state not running, and then starts it; the port   *)
(* is bound at the start.  Lanes interleave between any two commands.      *)
(***************************************************************************)
EXTENDS Naturals, FiniteSets

CONSTANTS
    Lanes,        \* the processes, which also name their containers
    Ports         \* ports the probe tries, lowest first: 1..Ports

ASSUME HubDbAssumption == Ports \in Nat \ {0}

VARIABLES
    pc,
    box,          \* per lane's container name: absent, created, running, stopped
    port,         \* per container, the host port it publishes
    old,          \* containers older than STALE_MS
    given,        \* the HUB_DB_* the lanes start with: none, dead, alive
    docker,       \* does the host have docker?
    own,          \* per lane: does HUB_DB_* name its own container?
    target        \* per lane, what its docker command names

host == <<box, port, old, docker>>

Boxes == {b \in Lanes : box[b] # "absent"}

\* A container that is not the lane's own, or a process, may hold a port.
Held == {port[b] : b \in {c \in Lanes : box[c] = "running"}}

Goto(p, l) == pc' = [pc EXCEPT ![p] = l]

\* rm -f takes a container in any state.
Removed(gone) ==
    /\ box' = [b \in Lanes |-> IF b \in gone THEN "absent" ELSE box[b]]
    /\ port' = [b \in Lanes |-> IF b \in gone THEN 0 ELSE port[b]]
    /\ old' = old \ gone

-----------------------------------------------------------------------------
(* startDisposableHubDb *)

\* A database the environment names is probed before it is trusted: one that
\* does not answer, such as one an earlier suite tore down, is passed over.
Answers(p) == IF own[p] THEN box[p] = "running" ELSE given = "alive"

Reuses(p) ==
    /\ pc[p] = "db" /\ Answers(p)
    /\ Goto(p, "tests")
    /\ UNCHANGED <<host, given, own, target>>

\* dockerAvailable: without it the suite is handed null, and skips itself.
NoDatabase(p) ==
    /\ pc[p] = "db" /\ ~Answers(p) /\ ~docker
    /\ Goto(p, "skips")
    /\ UNCHANGED <<host, given, own, target>>

\* The lowest port nothing is listening on, or an error where there is none.
firstFreePort(p) ==
    LET free == (1..Ports) \ Held
    IN  /\ pc[p] = "db" /\ ~Answers(p) /\ docker
        /\ IF free = {} THEN Goto(p, "dies") /\ UNCHANGED target
           ELSE /\ target' = [target EXCEPT ![p] = CHOOSE n \in free : \A k \in free : n <= k]
                /\ Goto(p, "create")
        /\ UNCHANGED <<host, given, own>>

\* A container of this name is removed first, whatever it is.
Creates(p) ==
    /\ pc[p] = "create"
    /\ box' = [box EXCEPT ![p] = "created"]
    /\ port' = [port EXCEPT ![p] = target[p]]
    /\ old' = old \ {p}
    /\ Goto(p, "boot")
    /\ UNCHANGED <<docker, given, own, target>>

\* A port somebody took since the probe, or a container somebody removed,
\* fails the command; the created container stays behind in the first case.
Boots(p) ==
    /\ pc[p] = "boot"
    /\ IF box[p] = "created" /\ port[p] \notin Held
       THEN box' = [box EXCEPT ![p] = "running"] /\ Goto(p, "ready")
       ELSE UNCHANGED box /\ Goto(p, "dies")
    /\ UNCHANGED <<port, old, docker, given, own, target>>

\* Polled until it takes connections: then the environment names it.
Ready(p) ==
    /\ pc[p] = "ready" /\ box[p] = "running"
    /\ own' = [own EXCEPT ![p] = TRUE]
    /\ Goto(p, "tests")
    /\ UNCHANGED <<host, given, target>>

NotReady(p) ==
    /\ pc[p] = "ready"
    /\ Removed({p})
    /\ Goto(p, "dies")
    /\ UNCHANGED <<docker, given, own, target>>

\* stop() of a handle that started a container; that of a reused one does
\* nothing.  What the start overwrote is put back.
stop(p) ==
    IF own[p] THEN Removed({p}) /\ own' = [own EXCEPT ![p] = FALSE]
    ELSE UNCHANGED <<box, port, old, own>>

-----------------------------------------------------------------------------
(* The host *)

\* Ten minutes pass.  The suites are timed far below that, so a container that
\* serves one is young; one nobody runs any more may be of any age.
Ages(b) ==
    /\ box[b] # "absent" /\ pc[b] \in {"killed", "off"}
    /\ old' = old \cup {b}
    /\ UNCHANGED <<pc, box, port, docker, given, own, target>>

\* The host stops what it runs for nobody, on a reboot for instance.
Stops(b) ==
    /\ box[b] = "running" /\ pc[b] \in {"killed", "off"}
    /\ box' = [box EXCEPT ![b] = "stopped"]
    /\ UNCHANGED <<pc, port, old, docker, given, own, target>>

=============================================================================
