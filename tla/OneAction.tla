----------------------------- MODULE OneAction -----------------------------
(***************************************************************************)
(* What a suite relies on when it awaits createAndSendTransaction or        *)
(* createSimpleTransaction: the coin node accepts the transaction that      *)
(* carries the call's action at most once, ever; a call that returns was    *)
(* told of it; a call that throws may have had it accepted or not.          *)
(***************************************************************************)
CONSTANT Calls

VARIABLES
    phase,     \* of each call: "open", "heard", "returned", "threw"
    standing   \* calls whose action the node holds
vars == <<phase, standing>>

Init == phase = [c \in Calls |-> "open"] /\ standing = {}

\* The node accepts the action and the call hears of it.
Accept(c) ==
    /\ phase[c] = "open" /\ phase' = [phase EXCEPT ![c] = "heard"]
    /\ standing' = standing \cup {c}

\* The node accepts the action and the answer is lost.
AcceptUnheard(c) ==
    /\ phase[c] = "open" /\ phase' = [phase EXCEPT ![c] = "threw"]
    /\ standing' = standing \cup {c}

Return(c) ==
    phase[c] = "heard" /\ phase' = [phase EXCEPT ![c] = "returned"] /\ UNCHANGED standing

Throw(c) ==
    phase[c] = "open" /\ phase' = [phase EXCEPT ![c] = "threw"] /\ UNCHANGED standing

\* The node forgets unconfirmed actions.
Forget == \E S \in SUBSET standing : standing' = standing \ S /\ UNCHANGED phase

Next == Forget \/ \E c \in Calls : Accept(c) \/ AcceptUnheard(c) \/ Return(c) \/ Throw(c)

Spec == Init /\ [][Next]_vars
=============================================================================
