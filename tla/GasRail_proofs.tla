--------------------------- MODULE GasRail_proofs ---------------------------
(***************************************************************************)
(* Theorems about GasRail, for every number of calls, chains, amounts and   *)
(* every choice of the calls that may be given up on.                       *)
(***************************************************************************)
EXTENDS GasRail, FiniteSetTheorems, WellFoundedInduction, TLAPS

USE GasRailAssumption DEF Calls

-----------------------------------------------------------------------------
(* Induction over data.  A set that holds 0 and the successor of each of   *)
(* its numbers holds every number; the values a recursive definition takes *)
(* are reached through the set of the arguments it is right for.           *)

LEMMA NatSetInduction ==
    ASSUME NEW S, 0 \in S, \A n \in Nat : n \in S => n + 1 \in S
    PROVE  Nat \subseteq S
<1> DEFINE T == Nat \ S
           R == OpToRel(<, Nat)
<1> SUFFICES ASSUME T # {} PROVE FALSE
  OBVIOUS
<1>1. IsWellFoundedOn(R, Nat)
  BY NatLessThanWellFounded
<1>2. T \subseteq Nat
  OBVIOUS
<1> HIDE DEF T, R
<1>3. PICK x \in T : \A y \in T : ~ (<<y, x>> \in R)
  BY <1>1, <1>2, WFMin
<1>4. \A y \in T : ~(y < x)
  BY <1>3, <1>2 DEF R, OpToRel
<1>5. x \in Nat /\ x # 0 /\ x - 1 \in Nat /\ x - 1 < x
  BY <1>2, <1>3 DEF T
<1>6. x - 1 \notin T
  BY <1>4, <1>5
<1> QED
  BY <1>3, <1>5, <1>6 DEF T

-----------------------------------------------------------------------------
(* Sums over the calls.                                                    *)

\* g sums the first values of f, up to the n-th.
Sums(g, f, n) == g = [i \in 0 .. n |-> IF i = 0 THEN 0 ELSE g[i - 1] + f[i]]

LEMMA SumsExist == ASSUME NEW f PROVE \A n \in Nat : \E g : Sums(g, f, n)
<1> DEFINE S == {n \in Nat : \E g : Sums(g, f, n)}
<1>1. 0 \in S
  <2>1. Sums([i \in 0 .. 0 |-> 0], f, 0)
    BY DEF Sums
  <2> QED
    BY <2>1
<1>2. ASSUME NEW n \in Nat, n \in S PROVE n + 1 \in S
  <2>1. PICK g : Sums(g, f, n)
    BY <1>2
  <2> DEFINE h == [i \in 0 .. (n + 1) |-> IF i = n + 1 THEN g[n] + f[i] ELSE g[i]]
  <2>2. \A i \in 0 .. (n + 1) : h[i] = IF i = 0 THEN 0 ELSE h[i - 1] + f[i]
    BY <2>1 DEF Sums
  <2>3. Sums(h, f, n + 1)
    BY <2>2 DEF Sums
  <2> QED
    BY <2>3
<1> HIDE DEF S
<1>3. Nat \subseteq S
  BY <1>1, <1>2, NatSetInduction
<1> QED
  BY <1>3 DEF S

\* What the recursive function of Total computes.
LEMMA TotalSums == ASSUME NEW f PROVE \E g : Sums(g, f, NCalls) /\ Total(f) = g[NCalls]
<1> DEFINE up == CHOOSE g : Sums(g, f, NCalls)
<1>1. Sums(up, f, NCalls)
  BY SumsExist
<1>2. Total(f) = up[NCalls]
  BY DEF Total, Sums
<1> QED
  BY <1>1, <1>2

\* A sum of amounts is an amount.
LEMMA TotalIsAmount == ASSUME NEW f \in [Calls -> Nat] PROVE Total(f) \in Nat
<1>1. PICK g : Sums(g, f, NCalls) /\ Total(f) = g[NCalls]
  BY TotalSums
<1> DEFINE S == {n \in Nat : n \in 0 .. NCalls => g[n] \in Nat}
<1>2. 0 \in S
  BY <1>1 DEF Sums
<1>3. ASSUME NEW n \in Nat, n \in S PROVE n + 1 \in S
  <2> SUFFICES ASSUME n + 1 \in 0 .. NCalls PROVE g[n + 1] \in Nat
    OBVIOUS
  <2>1. g[n + 1] = g[n] + f[n + 1]
    BY <1>1 DEF Sums
  <2>2. g[n] \in Nat /\ f[n + 1] \in Nat
    BY <1>3
  <2> QED
    BY <2>1, <2>2
<1> HIDE DEF S
<1>4. Nat \subseteq S
  BY <1>2, <1>3, NatSetInduction
<1>5. NCalls \in S /\ NCalls \in 0 .. NCalls
  BY <1>4
<1> QED
  BY <1>1, <1>5 DEF S

\* A sum changes by what one of its terms changes by.
LEMMA TotalChanges ==
    ASSUME NEW f \in [Calls -> Nat], NEW c \in Calls, NEW v \in Nat
    PROVE  Total([f EXCEPT ![c] = v]) = Total(f) + v - f[c]
<1> DEFINE e == [f EXCEPT ![c] = v]
<1>0. e \in [Calls -> Nat] /\ e[c] = v /\ \A d \in Calls : d # c => e[d] = f[d]
  OBVIOUS
<1> HIDE DEF e
<1>1. PICK g : Sums(g, f, NCalls) /\ Total(f) = g[NCalls]
  BY TotalSums
<1>2. PICK h : Sums(h, e, NCalls) /\ Total(e) = h[NCalls]
  BY TotalSums
<1> DEFINE S == {n \in Nat : n \in 0 .. NCalls =>
                    g[n] \in Int /\ h[n] = IF n < c THEN g[n] ELSE g[n] + v - f[c]}
<1>3. 0 \in S
  BY <1>1, <1>2 DEF Sums
<1>4. ASSUME NEW n \in Nat, n \in S PROVE n + 1 \in S
  <2> SUFFICES ASSUME n + 1 \in 0 .. NCalls
               PROVE  g[n + 1] \in Int /\ h[n + 1] = IF n + 1 < c THEN g[n + 1] ELSE g[n + 1] + v - f[c]
    OBVIOUS
  <2>1. g[n + 1] = g[n] + f[n + 1] /\ h[n + 1] = h[n] + e[n + 1]
    BY <1>1, <1>2 DEF Sums
  <2>2. g[n] \in Int /\ h[n] = IF n < c THEN g[n] ELSE g[n] + v - f[c]
    BY <1>4
  <2>3. f[n + 1] \in Nat /\ f[c] \in Nat /\ n + 1 \in Calls
    OBVIOUS
  <2>4. CASE n + 1 = c
    <3>1. e[n + 1] = v /\ f[n + 1] = f[c]
      BY <1>0, <2>4
    <3>2. n < c /\ ~(n + 1 < c)
      BY <2>4
    <3>3. h[n] = g[n]
      BY <2>2, <3>2
    <3>4. h[n + 1] = g[n] + v /\ g[n + 1] = g[n] + f[c]
      BY <2>1, <3>1, <3>3
    <3> QED
      BY <2>2, <2>3, <3>2, <3>4
  <2>5. CASE n + 1 # c
    <3>1. e[n + 1] = f[n + 1]
      BY <1>0, <2>3, <2>5
    <3> QED
      BY <2>1, <2>2, <2>3, <2>5, <3>1
  <2> QED
    BY <2>4, <2>5
<1> HIDE DEF S
<1>5. Nat \subseteq S
  BY <1>3, <1>4, NatSetInduction
<1>6. NCalls \in S /\ NCalls \in 0 .. NCalls /\ ~(NCalls < c)
  BY <1>5
<1>7. h[NCalls] = g[NCalls] + v - f[c]
  BY <1>6 DEF S
<1> QED
  BY <1>1, <1>2, <1>7 DEF e

-----------------------------------------------------------------------------
(* Types.                                                                  *)

LEMMA NoLocalsTyped == NoLocals \in Locals /\ Cardinality(NoLocals.using) <= 1
<1>1. NoLocals \in Locals
  BY DEF NoLocals, Locals
<1>2. NoLocals.using = {}
  BY DEF NoLocals
<1>3. Cardinality({}) = 0
  BY FS_EmptySet
<1> QED
  BY <1>1, <1>2, <1>3

LEMMA OneIsOne == ASSUME NEW c PROVE Cardinality({c}) <= 1 /\ Cardinality({}) <= 1
<1>1. Cardinality({c}) = 1
  BY FS_Singleton
<1>2. Cardinality({}) = 0
  BY FS_EmptySet
<1> QED
  BY <1>1, <1>2

\* What a call bridges is an amount.
LEMMA RefillIsAmount == ASSUME NEW left \in Int PROVE Refill(left) \in Nat
<1>1. Cost \in Int
  BY DEF Cost
<1> QED
  BY <1>1 DEF Refill

LEMMA GotoTyped ==
    ASSUME TypeOK, NEW c \in Calls, NEW l \in Labels, Goto(c, l)
    PROVE  pc' \in [Calls -> Labels]
  BY DEF TypeOK, Goto

LEMMA PlusTyped ==
    ASSUME NEW f \in [Calls -> Int], NEW ids, NEW n \in Int
    PROVE  Plus(f, ids, n) \in [Calls -> Int]
  BY DEF Plus

LEMMA LeaveTyped ==
    ASSUME TypeOK, NEW c \in Calls, NEW how \in Ended, Leave(c, how)
    PROVE  /\ pc' \in [Calls -> Labels] /\ rail' \in Chains
           /\ local' \in [Calls -> Locals] /\ \A d \in Calls : Cardinality(local'[d].using) <= 1
<1>1. pc' \in [Calls -> Labels]
  BY GotoTyped DEF Leave, Labels
<1>2. local \in [Calls -> Locals] /\ local' = [local EXCEPT ![c] = NoLocals]
  BY DEF TypeOK, Leave
<1>3. \A d \in Calls : Cardinality(local'[d].using) <= 1
  BY <1>2, NoLocalsTyped DEF TypeOK
<1>4. rail' \in Chains
  BY <1>2 DEF TypeOK, Leave, Locals
<1> QED
  BY <1>1, <1>2, <1>3, <1>4, NoLocalsTyped

LEMMA ForgetTyped ==
    ASSUME TypeOK, NEW k \in Chains, Forget(k)
    PROVE  reservoir' \in [Chains -> SUBSET Calls] /\ \A j \in Chains : Cardinality(reservoir'[j]) <= 1
<1>1. reservoir \in [Chains -> SUBSET Calls] /\ reservoir' = [reservoir EXCEPT ![k] = {}]
  BY DEF TypeOK, Forget
<1>2. \A j \in Chains : reservoir'[j] = {} \/ reservoir'[j] = reservoir[j]
  BY <1>1
<1> QED
  BY <1>1, <1>2, OneIsOne DEF TypeOK

LEMMA LocalFields ==
    ASSUME TypeOK, NEW c \in Calls
    PROVE  /\ local[c] \in Locals
           /\ local[c].key \in Chains /\ local[c].outer \in Chains /\ local[c].inner \in Chains
           /\ local[c].dest \in Chains /\ local[c].miner \in Chains /\ local[c].asked \in Nat
           /\ local[c].using \subseteq Calls
<1>1. local \in [Calls -> Locals]
  BY DEF TypeOK
<1>2. local[c] \in Locals
  BY <1>1
<1> QED
  BY <1>2 DEF Locals

LEMMA FillFailsTyped ==
    ASSUME TypeOK, NEW c \in Calls, FillFails(c)
    PROVE  /\ pc' \in [Calls -> Labels] /\ rail' \in Chains
           /\ local' \in [Calls -> Locals] /\ \A d \in Calls : Cardinality(local'[d].using) <= 1
           /\ reservoir' \in [Chains -> SUBSET Calls] /\ \A j \in Chains : Cardinality(reservoir'[j]) <= 1
<1>1. local[c].key \in Chains
  BY LocalFields
<1> QED
  BY <1>1, ForgetTyped, LeaveTyped DEF FillFails, Ended

\* One local set to a value of its type.
LEMMA LocalTyped ==
    ASSUME TypeOK, NEW c \in Calls, NEW r \in Locals, Cardinality(r.using) <= 1,
           local' = [local EXCEPT ![c] = r]
    PROVE  local' \in [Calls -> Locals] /\ \A d \in Calls : Cardinality(local'[d].using) <= 1
<1>1. local \in [Calls -> Locals]
  BY DEF TypeOK
<1>2. \A d \in Calls : local'[d] = r \/ local'[d] = local[d]
  BY <1>1
<1> QED
  BY <1>1, <1>2 DEF TypeOK

\* So is one whose field other than using is set to a value of its type.
LEMMA FieldTyped ==
    ASSUME TypeOK, NEW c \in Calls, NEW k \in Chains, NEW b \in BOOLEAN,
           \/ local' = local
           \/ local' = [local EXCEPT ![c].miner = k] \/ local' = [local EXCEPT ![c].inner = k]
           \/ local' = [local EXCEPT ![c].failed = b] \/ local' = [local EXCEPT ![c].restoreErr = b]
    PROVE  local' \in [Calls -> Locals] /\ \A d \in Calls : Cardinality(local'[d].using) <= 1
<1>1. local \in [Calls -> Locals] /\ local[c] \in Locals /\ Cardinality(local[c].using) <= 1
  BY DEF TypeOK
<1>2. CASE local' = local
  BY <1>2 DEF TypeOK
<1>3. CASE local' = [local EXCEPT ![c].miner = k]
  <2>1. [local[c] EXCEPT !.miner = k] \in Locals /\ [local[c] EXCEPT !.miner = k].using = local[c].using
    BY <1>1 DEF Locals
  <2>2. local' = [local EXCEPT ![c] = [local[c] EXCEPT !.miner = k]]
    BY <1>1, <1>3
  <2> QED
    BY <1>1, <2>1, <2>2, LocalTyped
<1>4. CASE local' = [local EXCEPT ![c].inner = k]
  <2>1. [local[c] EXCEPT !.inner = k] \in Locals /\ [local[c] EXCEPT !.inner = k].using = local[c].using
    BY <1>1 DEF Locals
  <2>2. local' = [local EXCEPT ![c] = [local[c] EXCEPT !.inner = k]]
    BY <1>1, <1>4
  <2> QED
    BY <1>1, <2>1, <2>2, LocalTyped
<1>5. CASE local' = [local EXCEPT ![c].failed = b]
  <2>1. [local[c] EXCEPT !.failed = b] \in Locals /\ [local[c] EXCEPT !.failed = b].using = local[c].using
    BY <1>1 DEF Locals
  <2>2. local' = [local EXCEPT ![c] = [local[c] EXCEPT !.failed = b]]
    BY <1>1, <1>5
  <2> QED
    BY <1>1, <2>1, <2>2, LocalTyped
<1>6. CASE local' = [local EXCEPT ![c].restoreErr = b]
  <2>1. [local[c] EXCEPT !.restoreErr = b] \in Locals /\ [local[c] EXCEPT !.restoreErr = b].using = local[c].using
    BY <1>1 DEF Locals
  <2>2. local' = [local EXCEPT ![c] = [local[c] EXCEPT !.restoreErr = b]]
    BY <1>1, <1>6
  <2> QED
    BY <1>1, <2>1, <2>2, LocalTyped
<1> QED
  BY <1>2, <1>3, <1>4, <1>5, <1>6

LEMMA InitTypes == Init => TypeOK
<1> SUFFICES ASSUME Init PROVE TypeOK
  OBVIOUS
<1>1. pc \in [Calls -> Labels] /\ abandoned \subseteq Calls /\ rail \in Chains /\ heartbeat \subseteq Chains
  BY DEF Init, Labels
<1>2. local \in [Calls -> Locals] /\ \A c \in Calls : Cardinality(local[c].using) <= 1
  <2>1. \A c \in Calls : local[c] = NoLocals
    BY DEF Init
  <2> QED
    BY <2>1, NoLocalsTyped DEF Init
<1>3. reservoir \in [Chains -> SUBSET Calls] /\ \A k \in Chains : Cardinality(reservoir[k]) <= 1
  BY OneIsOne DEF Init
<1>4. remaining \in [Calls -> Int] /\ balance \in [Calls -> Nat] /\ lives \in [Calls -> SUBSET Chains]
  BY DEF Init
<1>5. locks \in [Calls -> [Calls -> Nat]] /\ credits \in [Calls -> SUBSET Nat]
  BY DEF Init
<1> QED
  BY <1>1, <1>2, <1>3, <1>4, <1>5 DEF TypeOK

LEMMA StepTypes ==
    ASSUME TypeOK, NEW c \in Calls, Step(c)
    PROVE  TypeOK'
<1> USE DEF Labels, Ended
<1>1. CASE Start(c)
  <2> DEFINE k == IF Chain[c] = Home THEN rail ELSE Chain[c]
             L == IF Held(k) = {} THEN {0} ELSE {remaining[id] : id \in Held(k)}
  <2>1. k \in Chains
    BY DEF TypeOK
  <2>2. Held(k) \subseteq Calls /\ Cardinality(Held(k)) <= 1
    BY <2>1 DEF TypeOK, Held
  <2>3. L \subseteq Int
    <3>1. \A id \in Held(k) : remaining[id] \in Int
      BY <2>2 DEF TypeOK
    <3> QED
      BY <3>1
  <2>4. PICK left \in L : local' = [local EXCEPT ![c].outer = rail, ![c].key = k, ![c].dest = k,
                                       ![c].using = Held(k), ![c].asked = Refill(left)]
    BY <1>1 DEF Start
  <2>5. Refill(left) \in Nat
    BY <2>3, <2>4, RefillIsAmount
  <2> DEFINE r == [local[c] EXCEPT !.outer = rail, !.key = k, !.dest = k,
                                   !.using = Held(k), !.asked = Refill(left)]
  <2>6. local[c] \in Locals /\ rail \in Chains /\ local \in [Calls -> Locals]
    BY DEF TypeOK
  <2>7. r \in Locals /\ r.using = Held(k)
    BY <2>1, <2>2, <2>5, <2>6 DEF Locals
  <2>8. local' = [local EXCEPT ![c] = r]
    BY <2>4, <2>6
  <2>9. local' \in [Calls -> Locals] /\ \A d \in Calls : Cardinality(local'[d].using) <= 1
    BY <2>2, <2>7, <2>8, LocalTyped
  <2>10. rail' = k /\ Goto(c, FirstAwait(k)) /\ UNCHANGED <<abandoned, heartbeat, reservoir, remaining, ledger>>
    BY <1>1 DEF Start
  <2>11. FirstAwait(k) \in Labels
    BY DEF FirstAwait
  <2>12. pc' \in [Calls -> Labels]
    BY <2>10, <2>11, GotoTyped
  <2> HIDE DEF k
  <2> QED
    BY <2>1, <2>9, <2>10, <2>12 DEF TypeOK, ledger
<1>2. CASE Mint(c)
  <2>1. UNCHANGED <<abandoned, heartbeat, reservoir, remaining, ledger>>
    BY <1>2 DEF Mint
  <2> QED
    BY <1>2, <2>1, LeaveTyped DEF Mint, TypeOK, ledger
<1>3. CASE FundReservoir(c)
  <2>1. CASE Leave(c, "threw") /\ UNCHANGED <<lives, reservoir>>
    BY <1>3, <2>1, LeaveTyped DEF FundReservoir, TypeOK
  <2>2. CASE /\ Goto(c, "rail") /\ UNCHANGED rail
             /\ lives' = [lives EXCEPT ![c] = {rail}]
             /\ reservoir' = [reservoir EXCEPT ![local[c].key] = {c}]
             /\ local' = [local EXCEPT ![c].using = {c}, ![c].dest = rail]
    <3>1. local \in [Calls -> Locals] /\ local[c] \in Locals /\ rail \in Chains /\ local[c].key \in Chains
      BY DEF TypeOK, Locals
    <3> DEFINE r == [local[c] EXCEPT !.using = {c}, !.dest = rail]
    <3>2. r \in Locals /\ r.using = {c}
      BY <3>1 DEF Locals
    <3>3. local' = [local EXCEPT ![c] = r]
      BY <2>2, <3>1
    <3>4. local' \in [Calls -> Locals] /\ \A d \in Calls : Cardinality(local'[d].using) <= 1
      BY <3>2, <3>3, OneIsOne, LocalTyped
    <3>5. reservoir' \in [Chains -> SUBSET Calls]
      BY <2>2, <3>1 DEF TypeOK
    <3>6. \A k \in Chains : reservoir'[k] = {c} \/ reservoir'[k] = reservoir[k]
      BY <2>2, <3>1 DEF TypeOK
    <3>7. \A k \in Chains : Cardinality(reservoir'[k]) <= 1
      BY <3>6, OneIsOne DEF TypeOK
    <3>8. lives' \in [Calls -> SUBSET Chains]
      BY <2>2, <3>1 DEF TypeOK
    <3>9. pc' \in [Calls -> Labels]
      BY <2>2, GotoTyped
    <3> QED
      BY <1>3, <2>2, <3>4, <3>5, <3>7, <3>8, <3>9 DEF FundReservoir, TypeOK
  <2> QED
    BY <1>3, <2>1, <2>2 DEF FundReservoir
<1>4. CASE CreateRail(c)
  <2>1. UNCHANGED <<abandoned, heartbeat, remaining, lives, balance, locks, credits>>
    BY <1>4 DEF CreateRail, ledger
  <2>2. CASE FillFails(c)
    BY <2>1, <2>2, FillFailsTyped DEF TypeOK
  <2>3. CASE /\ Goto(c, "heatBTC") /\ local' = [local EXCEPT ![c].miner = rail]
             /\ UNCHANGED <<rail, reservoir>>
    <3>1. local' \in [Calls -> Locals] /\ \A d \in Calls : Cardinality(local'[d].using) <= 1
      BY <2>3, FieldTyped DEF TypeOK
    <3>2. pc' \in [Calls -> Labels]
      BY <2>3, GotoTyped
    <3> QED
      BY <2>1, <2>3, <3>1, <3>2 DEF TypeOK
  <2> QED
    BY <1>4, <2>2, <2>3 DEF CreateRail
<1>5. CASE HeatBTC(c)
  <2>1. UNCHANGED <<abandoned, remaining, lives, balance, locks, credits>> /\ heartbeat' \subseteq Chains
    BY <1>5 DEF HeatBTC, ledger, SwitchOn, TypeOK
  <2>2. CASE FillFails(c)
    BY <2>1, <2>2, FillFailsTyped DEF TypeOK
  <2>3. CASE Goto(c, "heatDest") /\ UNCHANGED <<rail, local, reservoir>>
    BY <2>1, <2>3, GotoTyped DEF TypeOK
  <2> QED
    BY <1>5, <2>2, <2>3 DEF HeatBTC
<1>6. CASE HeatDest(c)
  <2>1. UNCHANGED <<abandoned, remaining, lives, balance, locks, credits>> /\ heartbeat' \subseteq Chains
    BY <1>6 DEF HeatDest, ledger, SwitchOn, TypeOK, Locals
  <2>2. CASE FillFails(c)
    BY <2>1, <2>2, FillFailsTyped DEF TypeOK
  <2>3. CASE /\ Goto(c, "lock") /\ local' = [local EXCEPT ![c].inner = rail] /\ rail' = BTC
             /\ UNCHANGED reservoir
    <3>1. local' \in [Calls -> Locals] /\ \A d \in Calls : Cardinality(local'[d].using) <= 1
      BY <2>3, FieldTyped DEF TypeOK
    <3>2. pc' \in [Calls -> Labels]
      BY <2>3, GotoTyped
    <3> QED
      BY <2>1, <2>3, <3>1, <3>2 DEF TypeOK
  <2> QED
    BY <1>6, <2>2, <2>3 DEF HeatDest
<1>7. CASE Lock(c)
  <2>1. Bridged(c) \in [Calls -> [Calls -> Nat]]
    <3>1. local[c].asked \in Nat /\ locks \in [Calls -> [Calls -> Nat]]
      BY LocalFields DEF TypeOK
    <3>2. \A id \in Calls : [locks[id] EXCEPT ![c] = local[c].asked] \in [Calls -> Nat]
      BY <3>1
    <3> QED
      BY <3>1, <3>2 DEF Bridged
  <2>2. locks' \in [Calls -> [Calls -> Nat]]
    <3>1. locks' = locks \/ locks' = Bridged(c)
      BY <1>7 DEF Lock
    <3> QED
      BY <2>1, <3>1 DEF TypeOK
  <2>3. PICK l \in {"credit", "coolBTC"} : Goto(c, l)
    BY <1>7 DEF Lock
  <2>4. pc' \in [Calls -> Labels]
    BY <2>3, GotoTyped
  <2>5. local' = local \/ local' = [local EXCEPT ![c].failed = TRUE]
    BY <1>7 DEF Lock
  <2>6. local' \in [Calls -> Locals] /\ \A d \in Calls : Cardinality(local'[d].using) <= 1
    BY <2>5, FieldTyped DEF TypeOK
  <2>7. /\ rail' = local[c].inner
        /\ UNCHANGED <<abandoned, heartbeat, reservoir, remaining, lives, balance, credits>>
    BY <1>7 DEF Lock
  <2>8. rail' \in Chains
    BY <2>7, LocalFields
  <2> QED
    BY <2>2, <2>4, <2>6, <2>7, <2>8 DEF TypeOK
<1>8. CASE Credit(c)
  <2>1. UNCHANGED <<abandoned, rail, heartbeat, reservoir, remaining, lives, balance, locks, credits>>
    BY <1>8 DEF Credit, ledger
  <2>2. local' = local \/ local' = [local EXCEPT ![c].failed = TRUE]
    BY <1>8 DEF Credit
  <2>3. local' \in [Calls -> Locals] /\ \A d \in Calls : Cardinality(local'[d].using) <= 1
    BY <2>2, FieldTyped DEF TypeOK
  <2>4. pc' \in [Calls -> Labels]
    BY <1>8, GotoTyped DEF Credit
  <2> QED
    BY <2>1, <2>3, <2>4 DEF TypeOK
<1>9. CASE CoolBTC(c)
  <2>1. UNCHANGED <<abandoned, rail, reservoir, remaining, lives, balance, locks, credits>>
    BY <1>9 DEF CoolBTC, ledger
  <2>2. PICK off \in BOOLEAN : SwitchOff(BTC, off) /\ local' = [local EXCEPT ![c].restoreErr = ~off]
    BY <1>9 DEF CoolBTC
  <2>3. local' \in [Calls -> Locals] /\ \A d \in Calls : Cardinality(local'[d].using) <= 1
    BY <2>2, FieldTyped DEF TypeOK
  <2>4. heartbeat' \subseteq Chains
    BY <2>2 DEF SwitchOff, TypeOK
  <2>5. pc' \in [Calls -> Labels]
    BY <1>9, GotoTyped DEF CoolBTC
  <2> QED
    BY <2>1, <2>3, <2>4, <2>5 DEF TypeOK
<1>10. CASE CoolDest(c)
  <2>1. UNCHANGED <<abandoned, lives, balance, locks, credits>> /\ heartbeat' \subseteq Chains
    BY <1>10 DEF CoolDest, ledger, SwitchOff, TypeOK
  <2>2. CASE FillFails(c) /\ UNCHANGED remaining
    BY <2>1, <2>2, FillFailsTyped DEF TypeOK
  <2>3. CASE /\ Goto(c, "send") /\ UNCHANGED <<rail, local, reservoir>>
             /\ remaining' = Plus(remaining, local[c].using, local[c].asked)
    <3>1. remaining \in [Calls -> Int] /\ local[c].asked \in Int
      BY LocalFields DEF TypeOK
    <3>2. remaining' \in [Calls -> Int]
      BY <2>3, <3>1, PlusTyped
    <3>3. pc' \in [Calls -> Labels]
      BY <2>3, GotoTyped
    <3> QED
      BY <2>1, <2>3, <3>2, <3>3 DEF TypeOK
  <2> QED
    BY <1>10, <2>2, <2>3 DEF CoolDest
<1>11. CASE Send(c)
  <2>1. UNCHANGED <<abandoned, heartbeat, remaining, lives, locks, credits>>
    BY <1>11 DEF Send
  <2>2. CASE SendFails(c) /\ UNCHANGED balance
    <3>1. rail \in Chains
      BY DEF TypeOK
    <3> QED
      BY <2>1, <2>2, <3>1, ForgetTyped, LeaveTyped DEF SendFails, TypeOK
  <2>3. CASE /\ \E id \in local[c].using, fee \in 0 .. Headroom :
                   /\ balance[id] >= Amount + fee
                   /\ balance' = [balance EXCEPT ![id] = @ - (Amount + fee)]
             /\ Goto(c, "sent") /\ UNCHANGED <<rail, local, reservoir>>
    <3>1. local[c].using \subseteq Calls
      BY LocalFields
    <3>2. PICK id \in Calls, fee \in 0 .. Headroom :
                   /\ balance[id] >= Amount + fee
                   /\ balance' = [balance EXCEPT ![id] = @ - (Amount + fee)]
      BY <2>3, <3>1
    <3>3. balance[id] - (Amount + fee) \in Nat
      <4>1. balance[id] \in Nat /\ fee \in Nat
        BY <3>2 DEF TypeOK
      <4> QED
        BY <3>2, <4>1
    <3>4. balance' \in [Calls -> Nat]
      BY <3>2, <3>3 DEF TypeOK
    <3>5. pc' \in [Calls -> Labels]
      BY <2>3, GotoTyped
    <3> QED
      BY <2>1, <2>3, <3>4, <3>5 DEF TypeOK
  <2> QED
    BY <1>11, <2>2, <2>3 DEF Send
<1>12. CASE Sent(c)
  <2>1. UNCHANGED <<abandoned, heartbeat, lives, balance, locks, credits>>
    BY <1>12 DEF Sent, ledger
  <2>2. CASE SendFails(c) /\ UNCHANGED remaining
    <3>1. rail \in Chains
      BY DEF TypeOK
    <3> QED
      BY <2>1, <2>2, <3>1, ForgetTyped, LeaveTyped DEF SendFails, TypeOK
  <2>3. CASE Charge(c) /\ Leave(c, "returned") /\ UNCHANGED reservoir
    <3>1. remaining \in [Calls -> Int]
      BY DEF TypeOK
    <3>a. -Cost \in Int
      BY DEF Cost
    <3>2. remaining' \in [Calls -> Int]
      BY <2>3, <3>1, <3>a, PlusTyped DEF Charge
    <3> QED
      BY <2>1, <2>3, <3>2, LeaveTyped DEF TypeOK
  <2> QED
    BY <1>12, <2>2, <2>3 DEF Sent
<1> QED
  BY <1>1, <1>2, <1>3, <1>4, <1>5, <1>6, <1>7, <1>8, <1>9, <1>10, <1>11, <1>12 DEF Step
(* The type invariant: every reachable state is well typed, and a chain has *)
(* one reservoir at most (reservoirs).                                      *)
THEOREM TypeCorrect == Spec => []TypeOK
<1>1. Init => TypeOK
  BY InitTypes
<1>2. TypeOK /\ [Next]_vars => TypeOK'
  <2> SUFFICES ASSUME TypeOK, [Next]_vars PROVE TypeOK'
    OBVIOUS
  <2>1. CASE UNCHANGED vars
    BY <2>1 DEF vars, ledger, TypeOK
  <2>2. CASE \E c \in Calls : Step(c)
    BY <2>2, StepTypes
  <2>3. CASE \E c \in Calls : Abandon(c)
    BY <2>3 DEF Abandon, ledger, TypeOK
  <2>4. ASSUME NEW c \in Calls, NEW id \in Calls, CreditLands(c, id) PROVE TypeOK'
    <3>0. locks \in [Calls -> [Calls -> Nat]]
      BY DEF TypeOK
    <3>1. locks \in [Calls -> [Calls -> Nat]] /\ locks[id][c] \in Nat
      BY <3>0
    <3>2. locks' \in [Calls -> [Calls -> Nat]]
      BY <2>4, <3>1 DEF CreditLands
    <3>a. balance \in [Calls -> Nat]
      BY DEF TypeOK
    <3>d. balance[id] \in Nat
      BY <3>a
    <3>e. \A a, b \in Nat : a + b \in Nat
      OBVIOUS
    <3>b. balance[id] + locks[id][c] \in Nat
      BY <3>1, <3>d, <3>e
    <3>c. balance' = [balance EXCEPT ![id] = balance[id] + locks[id][c]]
      BY <2>4 DEF CreditLands
    <3>3. balance' \in [Calls -> Nat]
      BY <3>a, <3>b, <3>c
    <3>4. credits' \in [Calls -> SUBSET Nat]
      BY <2>4, <3>1 DEF CreditLands, TypeOK
    <3> QED
      BY <2>4, <3>2, <3>3, <3>4 DEF CreditLands, TypeOK
  <2> QED
    BY <2>1, <2>2, <2>3, <2>4 DEF Next, Finished
<1> QED
  BY <1>1, <1>2, PTL DEF Spec

-----------------------------------------------------------------------------
(* Heartbeats.                                                             *)

\* Call c will yet switch m off, or will throw for not having done so.
Answers(c, m) ==
    \/ m = BTC /\ pc[c] \in {"heatDest", "lock", "credit", "coolBTC"}
    \/ m = local[c].miner /\ pc[c] \in {"lock", "credit", "coolBTC", "coolDest"}
    \/ pc[c] = "coolDest" /\ local[c].restoreErr

Answered == \A m \in heartbeat : \E c \in Calls : Answers(c, m)
Threw    == \E c \in Calls : pc[c] = "threw"

HeartbeatsAnswered == Threw \/ Answered

\* A step of one call leaves the others where they are.
LEMMA OthersStay ==
    ASSUME TypeOK, NEW c \in Calls, Step(c)
    PROVE  \A d \in Calls : d # c => pc'[d] = pc[d] /\ local'[d] = local[d]
  BY ZenonT(60) DEF TypeOK, Step, Start, Mint, FundReservoir, CreateRail, HeatBTC, HeatDest, Lock, Credit, CoolBTC,
     CoolDest, Send, Sent, FillFails, SendFails, Leave, Goto

\* What has thrown stays thrown.
LEMMA ThrewStays == ASSUME TypeOK, Threw, [Next]_vars PROVE Threw'
<1>1. PICK d \in Calls : pc[d] = "threw"
  BY DEF Threw
<1>2. ASSUME NEW c \in Calls, Step(c) PROVE \A e \in Calls : e # c => pc'[e] = pc[e]
  BY <1>2, OthersStay
<1>3. ASSUME NEW c \in Calls, Step(c) PROVE pc[c] # "threw"
  BY <1>3 DEF Step, Start, Mint, FundReservoir, CreateRail, HeatBTC, HeatDest, Lock, Credit, CoolBTC,
     CoolDest, Send, Sent
<1>4. pc'[d] = "threw"
  <2>1. CASE \E c \in Calls : Step(c)
    BY <1>1, <1>2, <1>3, <2>1
  <2>2. CASE UNCHANGED pc
    BY <1>1, <2>2
  <2> QED
    BY <2>1, <2>2 DEF Next, Abandon, CreditLands, Finished, vars, ledger
<1> QED
  BY <1>4 DEF Threw

\* A call that throws accounts for every heartbeat.
LEMMA ThrowingAnswers == ASSUME TypeOK, NEW c \in Calls, Goto(c, "threw") PROVE Threw'
<1>1. pc'[c] = "threw"
  BY DEF TypeOK, Goto
<1> QED
  BY <1>1 DEF Threw

\* Heartbeats only call c changes are answered if those it left on are, and what it
\* answered for before and is still on it still answers for.
LEMMA OwnAnswers ==
    ASSUME TypeOK, Answered, NEW c \in Calls,
           \A d \in Calls : d # c => pc'[d] = pc[d] /\ local'[d] = local[d],
           \A m \in heartbeat' : (m \notin heartbeat \/ Answers(c, m)) => Answers(c, m)'
    PROVE  Answered'
<1>1. ASSUME NEW m \in heartbeat' PROVE \E d \in Calls : Answers(d, m)'
  <2>1. CASE m \notin heartbeat \/ Answers(c, m)
    BY <1>1, <2>1
  <2>2. CASE m \in heartbeat /\ ~Answers(c, m)
    <3>1. PICK d \in Calls : Answers(d, m)
      BY <2>2 DEF Answered
    <3>2. d # c
      BY <2>2, <3>1
    <3>3. Answers(d, m)'
      BY <3>1, <3>2 DEF Answers
    <3> QED
      BY <3>3
  <2> QED
    BY <2>1, <2>2
<1> QED
  BY <1>1 DEF Answered

\* A step away from the heartbeat leaves them as they were.
LEMMA CoolStep ==
    ASSUME TypeOK, Answered, NEW c \in Calls, Step(c), UNCHANGED heartbeat,
           pc[c] \in {"idle", "mint", "found", "rail", "send", "sent"}
    PROVE  Answered'
<1>1. \A d \in Calls : d # c => pc'[d] = pc[d] /\ local'[d] = local[d]
  BY OthersStay
<1>2. \A m : ~Answers(c, m)
  BY DEF Answers
<1> QED
  BY <1>1, <1>2, OwnAnswers

LEMMA StepAnswers ==
    ASSUME TypeOK, Answered, NEW c \in Calls, Step(c)
    PROVE  HeartbeatsAnswered'
<1> USE DEF HeartbeatsAnswered
<1>1. CASE pc[c] \in {"idle", "mint", "found", "rail", "send", "sent"}
  <2>1. UNCHANGED heartbeat
    BY <1>1 DEF Step, Start, Mint, FundReservoir, CreateRail, HeatBTC, HeatDest, Lock, Credit, CoolBTC,
       CoolDest, Send, Sent
  <2> QED
    BY <1>1, <2>1, CoolStep
<1>2. CASE HeatBTC(c)
  <2>1. CASE FillFails(c)
    BY <2>1, ThrowingAnswers DEF FillFails, Leave
  <2>2. CASE SwitchOn(BTC, TRUE) /\ Goto(c, "heatDest") /\ UNCHANGED local
    <3>1. pc'[c] = "heatDest" /\ \A d \in Calls : d # c => pc'[d] = pc[d]
      BY <2>2 DEF TypeOK, Goto
    <3>2. \A m \in heartbeat' : (m \notin heartbeat \/ Answers(c, m)) => Answers(c, m)'
      BY <1>2, <2>2, <3>1 DEF SwitchOn, Answers, HeatBTC
    <3> QED
      BY <2>2, <3>1, <3>2, OwnAnswers
  <2> QED
    BY <1>2, <2>1, <2>2 DEF HeatBTC
<1>3. CASE HeatDest(c)
  <2>1. CASE FillFails(c)
    BY <2>1, ThrowingAnswers DEF FillFails, Leave
  <2>2. CASE SwitchOn(local[c].miner, TRUE) /\ Goto(c, "lock") /\ local' = [local EXCEPT ![c].inner = rail]
    <3>1. pc'[c] = "lock" /\ \A d \in Calls : d # c => pc'[d] = pc[d] /\ local'[d] = local[d]
      BY <2>2 DEF TypeOK, Goto
    <3>2. local'[c].miner = local[c].miner
      BY <2>2, SMTT(20) DEF TypeOK, Locals
    <3>3. \A m \in heartbeat' : (m \notin heartbeat \/ Answers(c, m)) => Answers(c, m)'
      BY <1>3, <2>2, <3>1, <3>2 DEF SwitchOn, Answers, HeatDest
    <3> QED
      BY <3>1, <3>3, OwnAnswers
  <2> QED
    BY <1>3, <2>1, <2>2 DEF HeatDest
<1>4. CASE Lock(c) \/ Credit(c)
  <2>1. PICK l \in {"credit", "coolBTC"} : Goto(c, l)
    BY <1>4 DEF Lock, Credit
  <2>2. local' = local \/ local' = [local EXCEPT ![c].failed = TRUE]
    BY <1>4 DEF Lock, Credit
  <2>3. pc'[c] = l /\ \A d \in Calls : d # c => pc'[d] = pc[d] /\ local'[d] = local[d]
    BY <2>1, <2>2 DEF TypeOK, Goto
  <2>4. local'[c].miner = local[c].miner
    BY <2>2, SMTT(20) DEF TypeOK, Locals
  <2>5. UNCHANGED heartbeat /\ pc[c] \in {"lock", "credit"}
    BY <1>4 DEF Lock, Credit
  <2>6. \A m \in heartbeat' : (m \notin heartbeat \/ Answers(c, m)) => Answers(c, m)'
    BY <2>3, <2>4, <2>5 DEF Answers
  <2> QED
    BY <2>3, <2>6, OwnAnswers
<1>5. CASE CoolBTC(c)
  <2>1. PICK off \in BOOLEAN : SwitchOff(BTC, off) /\ local' = [local EXCEPT ![c].restoreErr = ~off]
    BY <1>5 DEF CoolBTC
  <2>2. pc'[c] = "coolDest" /\ \A d \in Calls : d # c => pc'[d] = pc[d] /\ local'[d] = local[d]
    BY <1>5, <2>1 DEF TypeOK, Goto, CoolBTC
  <2>3. local'[c].miner = local[c].miner /\ local'[c].restoreErr = ~off
    BY <2>1, SMTT(20) DEF TypeOK, Locals
  <2>4. heartbeat' \subseteq heartbeat /\ (off => BTC \notin heartbeat')
    BY <2>1 DEF SwitchOff
  <2>5. \A m \in heartbeat' : (m \notin heartbeat \/ Answers(c, m)) => Answers(c, m)'
    BY <1>5, <2>2, <2>3, <2>4 DEF Answers, CoolBTC
  <2> QED
    BY <2>2, <2>5, OwnAnswers
<1>6. CASE CoolDest(c)
  <2>1. PICK off \in BOOLEAN :
            /\ SwitchOff(local[c].miner, off)
            /\ \/ Failed(c, off) /\ FillFails(c)
               \/ ~Failed(c, off) /\ Goto(c, "send") /\ UNCHANGED local
    BY <1>6 DEF CoolDest
  <2>2. CASE FillFails(c)
    BY <2>2, ThrowingAnswers DEF FillFails, Leave
  <2>3. CASE ~Failed(c, off) /\ Goto(c, "send") /\ UNCHANGED local
    <3>1. off /\ ~local[c].restoreErr
      BY <2>3 DEF Failed
    <3>2. heartbeat' = heartbeat \ {local[c].miner}
      BY <2>1, <3>1 DEF SwitchOff
    <3>3. \A d \in Calls : d # c => pc'[d] = pc[d]
      BY <2>3 DEF TypeOK, Goto
    <3>4. \A m \in heartbeat' : ~Answers(c, m)
      BY <1>6, <3>1, <3>2 DEF Answers, CoolDest
    <3> QED
      BY <2>3, <3>2, <3>3, <3>4, OwnAnswers
  <2> QED
    BY <2>1, <2>2, <2>3
<1> QED
  BY <1>1, <1>2, <1>3, <1>4, <1>5, <1>6 DEF Step, Start, Mint, FundReservoir, CreateRail, Send, Sent

(* A heartbeat left on when all is over was made known: some call threw,   *)
(* whatever any miner answered and whoever was given up on (withIdleMining). *)
THEOREM HeartbeatsAreOff == Spec => []QuietUnlessThrew
<1>1. Init => HeartbeatsAnswered
  BY DEF Init, HeartbeatsAnswered, Answered
<1>2. TypeOK /\ HeartbeatsAnswered /\ [Next]_vars => HeartbeatsAnswered'
  <2> SUFFICES ASSUME TypeOK, HeartbeatsAnswered, [Next]_vars PROVE HeartbeatsAnswered'
    OBVIOUS
  <2>1. CASE Threw
    BY <2>1, ThrewStays DEF HeartbeatsAnswered
  <2>2. CASE Answered
    <3>1. CASE \E c \in Calls : Step(c)
      BY <2>2, <3>1, StepAnswers
    <3>2. CASE UNCHANGED <<pc, local, heartbeat>>
      BY <2>2, <3>2 DEF HeartbeatsAnswered, Answered, Answers
    <3> QED
      BY <3>1, <3>2 DEF Next, Abandon, CreditLands, Finished, vars, ledger
  <2> QED
    BY <2>1, <2>2 DEF HeartbeatsAnswered
<1>3. HeartbeatsAnswered => QuietUnlessThrew
  <2> SUFFICES ASSUME HeartbeatsAnswered, \A c \in Calls : pc[c] \in Ended, heartbeat # {}
               PROVE  Threw
    BY DEF QuietUnlessThrew, Threw
  <2>1. \A c \in Calls, m \in heartbeat : ~Answers(c, m)
    BY DEF Answers, Ended
  <2> QED
    BY <2>1 DEF HeartbeatsAnswered, Answered
<1> QED
  BY <1>1, <1>2, <1>3, TypeCorrect, PTL DEF Spec

-----------------------------------------------------------------------------
(* Rails and reservoirs, while no call has been given up on.               *)

\* Calls come one after another.
OneByOne == \A c, d \in Calls : (d < c /\ pc[c] # "idle") => pc[d] \in Ended

\* The chain in force while call c is at label l.
At(c, l) == IF l = "lock" THEN BTC ELSE Chain[c]

\* The call at work is on its chain, or in its bridge's rail, and will put back what is right.
OnItsRail(c) ==
    /\ rail = At(c, pc[c])
    /\ local[c].outer = Home /\ local[c].key = Chain[c]
    /\ pc[c] = "lock" => local[c].inner = Chain[c]

RailsOrdered ==
    /\ OneByOne
    /\ (\A c \in Calls : ~Active(c)) => rail = Home
    /\ \A c \in Calls : Active(c) => OnItsRail(c)

\* A reservoir lives on the chain of the call that funded it, is entered there, and is
\* used for calls of that chain.
Housed ==
    /\ \A id \in Calls : lives[id] \in {{}, {Chain[id]}}
    /\ \A k \in Chains : \A id \in reservoir[k] : Chain[id] = k /\ lives[id] = {k}
    /\ \A c \in Calls : Active(c) => \A id \in local[c].using : Chain[id] = Chain[c] /\ lives[id] = {Chain[c]}

Nested == abandoned = {} => RailsOrdered /\ Housed

LEMMA OnlyOneActive ==
    ASSUME TypeOK, OneByOne, NEW c \in Calls, Active(c), NEW d \in Calls, d # c
    PROVE  ~Active(d)
<1>1. CASE d < c
  BY <1>1 DEF OneByOne, Active
<1>2. CASE c < d
  BY <1>2 DEF OneByOne, Active
<1> QED
  BY <1>1, <1>2

\* The call at work goes on to another await.
LEMMA GoesOn ==
    ASSUME TypeOK, RailsOrdered, NEW c \in Calls, Active(c),
           NEW l \in Labels \ ({"idle"} \cup Ended), Goto(c, l),
           rail' = At(c, l), local'[c].outer = local[c].outer, local'[c].key = local[c].key,
           l = "lock" => local'[c].inner = Chain[c]
    PROVE  RailsOrdered' /\ \A d \in Calls : Active(d)' => d = c
<1>1. pc'[c] = l /\ \A d \in Calls : d # c => pc'[d] = pc[d]
  BY DEF TypeOK, Goto
<1>2. \A d \in Calls : d # c => ~Active(d)
  BY OnlyOneActive DEF RailsOrdered
<1>3. OneByOne'
  BY <1>1 DEF RailsOrdered, OneByOne, Active
<1>4. Active(c)' /\ \A d \in Calls : Active(d)' => d = c
  BY <1>1, <1>2 DEF Active
<1>5. OnItsRail(c)'
  <2>1. OnItsRail(c)
    BY DEF RailsOrdered
  <2> QED
    BY <1>1, <2>1 DEF OnItsRail, At
<1> QED
  BY <1>3, <1>4, <1>5 DEF RailsOrdered

\* The call at work ends, anywhere but inside its bridge's rail.
LEMMA Ends ==
    ASSUME TypeOK, RailsOrdered, NEW c \in Calls, Active(c), pc[c] # "lock",
           NEW how \in Ended, Leave(c, how)
    PROVE  RailsOrdered' /\ \A d \in Calls : ~Active(d)'
<1>1. pc'[c] = how /\ \A d \in Calls : d # c => pc'[d] = pc[d]
  BY DEF TypeOK, Goto, Leave
<1>2. \A d \in Calls : d # c => ~Active(d)
  BY OnlyOneActive DEF RailsOrdered
<1>3. OneByOne'
  BY <1>1 DEF RailsOrdered, OneByOne, Active
<1>4. \A d \in Calls : ~Active(d)'
  BY <1>1, <1>2 DEF Active
<1>5. OnItsRail(c)
  BY DEF RailsOrdered
<1>6. rail' = Home
  BY <1>5 DEF Leave, OnItsRail, At
<1> QED
  BY <1>3, <1>4, <1>6 DEF RailsOrdered

\* Reservoirs that stay where they are, or are forgotten, stay well housed for a call that
\* goes on with the one it had, and when no call does.
LEMMA StillHoused ==
    ASSUME TypeOK, Housed, UNCHANGED lives, NEW c \in Calls,
           \A k \in Chains : reservoir'[k] \subseteq reservoir[k],
           \A d \in Calls : Active(d)' => d = c,
           Active(c)' => Active(c) /\ local'[c].using = local[c].using
    PROVE  Housed'
<1>1. \A id \in Calls : lives'[id] \in {{}, {Chain[id]}}
  BY DEF Housed
<1>2. \A k \in Chains : \A id \in reservoir'[k] : Chain[id] = k /\ lives'[id] = {k}
  BY DEF Housed
<1>3. \A d \in Calls : Active(d)' => \A id \in local'[d].using : Chain[id] = Chain[d] /\ lives'[id] = {Chain[d]}
  BY DEF Housed
<1> QED
  BY <1>1, <1>2, <1>3 DEF Housed

LEMMA ForgottenShrinks ==
    ASSUME TypeOK, NEW k, Forget(k)
    PROVE  \A j \in Chains : reservoir'[j] \subseteq reservoir[j]
  BY DEF TypeOK, Forget

LEMMA FillFailsNested ==
    ASSUME TypeOK, RailsOrdered, Housed, NEW c \in Calls, Active(c), pc[c] # "lock", FillFails(c), UNCHANGED lives
    PROVE  RailsOrdered' /\ Housed'
<1>1. RailsOrdered' /\ \A d \in Calls : ~Active(d)'
  BY Ends DEF FillFails, Ended
<1>2. \A j \in Chains : reservoir'[j] \subseteq reservoir[j]
  BY ForgottenShrinks DEF FillFails
<1> QED
  BY <1>1, <1>2, StillHoused

\* A call starts with none at work and the suite's chain in force.
LEMMA StartsAlone ==
    ASSUME TypeOK, RailsOrdered, abandoned = {}, NEW c \in Calls, Start(c)
    PROVE  rail = Home /\ \A d \in Calls : ~Active(d)
<1>1. pc[c] = "idle" /\ \A d \in Calls : d < c => pc[d] \in Ended
  BY DEF Start
<1>2. \A d \in Calls : c < d => pc[d] = "idle"
  BY <1>1 DEF RailsOrdered, OneByOne, Ended
<1>3. \A d \in Calls : ~Active(d)
  <2> SUFFICES ASSUME NEW d \in Calls PROVE ~Active(d)
    OBVIOUS
  <2>1. CASE d < c
    BY <1>1, <2>1 DEF Active
  <2>2. CASE c < d
    BY <1>2, <2>2 DEF Active
  <2>3. CASE c = d
    BY <1>1, <2>3 DEF Active
  <2> QED
    BY <2>1, <2>2, <2>3
<1>4. rail = Home
  BY <1>3 DEF RailsOrdered
<1> QED
  BY <1>3, <1>4

LEMMA StartNested ==
    ASSUME TypeOK, RailsOrdered, Housed, abandoned = {}, NEW c \in Calls, Start(c)
    PROVE  RailsOrdered' /\ Housed'
<1>1. pc[c] = "idle" /\ \A d \in Calls : d < c => pc[d] \in Ended
  BY DEF Start
<1>2. \A d \in Calls : c < d => pc[d] = "idle"
  BY <1>1 DEF RailsOrdered, OneByOne, Ended
<1>3. \A d \in Calls : ~Active(d)
  BY StartsAlone
<1>4. rail = Home
  BY StartsAlone
<1>5. Goto(c, FirstAwait(Chain[c])) /\ rail' = Chain[c] /\ UNCHANGED <<reservoir, lives>>
  BY <1>4 DEF Start, ledger
<1>6. FirstAwait(Chain[c]) \in {"mint", "found", "send", "rail"}
  BY DEF FirstAwait
<1>7. pc'[c] \in {"mint", "found", "send", "rail"} /\ \A d \in Calls : d # c => pc'[d] = pc[d]
  BY <1>5, <1>6 DEF TypeOK, Goto
<1>8. \A d \in Calls : Active(d)' <=> d = c
  BY <1>3, <1>7 DEF Active, Ended
<1>9. local'[c].outer = Home /\ local'[c].key = Chain[c] /\ local'[c].using = reservoir[Chain[c]]
  <2>1. local \in [Calls -> Locals]
    BY DEF TypeOK
  <2>2. PICK left : local' = [local EXCEPT ![c].outer = rail, ![c].key = Chain[c], ![c].dest = Chain[c],
                                          ![c].using = Held(Chain[c]), ![c].asked = Refill(left)]
    BY <1>4 DEF Start
  <2> QED
    BY <1>4, <2>1, <2>2 DEF Locals, Held
<1>10. OneByOne'
  <2> SUFFICES ASSUME NEW d \in Calls, NEW e \in Calls, e < d, pc'[d] # "idle" PROVE pc'[e] \in Ended
    BY DEF OneByOne
  <2>1. ~(c < d)
    BY <1>2, <1>7
  <2>2. e # c /\ pc'[e] = pc[e]
    BY <1>7, <2>1
  <2>3. e < c
    BY <2>1
  <2> QED
    BY <1>1, <2>2, <2>3
<1>11. OnItsRail(c)'
  BY <1>5, <1>7, <1>9 DEF OnItsRail, At
<1>12. Housed'
  <2>1. Chain[c] \in Chains
    OBVIOUS
  <2>2. \A id \in local'[c].using : Chain[id] = Chain[c] /\ lives'[id] = {Chain[c]}
    BY <1>5, <1>9, <2>1 DEF Housed
  <2> QED
    BY <1>5, <1>8, <2>2 DEF Housed
<1> QED
  BY <1>8, <1>10, <1>11, <1>12 DEF RailsOrdered

\* A call goes on with the reservoir it had, or ends.
LEMMA QuietStep ==
    ASSUME TypeOK, RailsOrdered, Housed, NEW c \in Calls, Active(c), pc[c] # "lock",
           UNCHANGED <<reservoir, lives>>,
           \/ \E how \in Ended : Leave(c, how)
           \/ /\ \E l \in Labels \ ({"idle", "lock"} \cup Ended) : Goto(c, l)
              /\ UNCHANGED rail
              /\ local'[c].outer = local[c].outer /\ local'[c].key = local[c].key
              /\ local'[c].using = local[c].using
    PROVE  RailsOrdered' /\ Housed'
<1>1. CASE \E how \in Ended : Leave(c, how)
  <2>1. RailsOrdered' /\ \A d \in Calls : ~Active(d)'
    BY <1>1, Ends
  <2> QED
    BY <2>1, StillHoused
<1>2. CASE /\ \E l \in Labels \ ({"idle", "lock"} \cup Ended) : Goto(c, l)
           /\ UNCHANGED rail
           /\ local'[c].outer = local[c].outer /\ local'[c].key = local[c].key
           /\ local'[c].using = local[c].using
  <2>1. PICK l \in Labels \ ({"idle", "lock"} \cup Ended) : Goto(c, l)
    BY <1>2
  <2>2. OnItsRail(c)
    BY DEF RailsOrdered
  <2>3. rail' = At(c, l)
    BY <1>2, <2>1, <2>2 DEF OnItsRail, At
  <2>4. RailsOrdered' /\ \A d \in Calls : Active(d)' => d = c
    BY <1>2, <2>1, <2>3, GoesOn
  <2> QED
    BY <1>2, <2>4, StillHoused
<1> QED
  BY <1>1, <1>2

LEMMA SendFailsNested ==
    ASSUME TypeOK, RailsOrdered, Housed, NEW c \in Calls, Active(c), pc[c] # "lock", SendFails(c), UNCHANGED lives
    PROVE  RailsOrdered' /\ Housed'
<1>1. RailsOrdered' /\ \A d \in Calls : ~Active(d)'
  BY Ends DEF SendFails, Ended
<1>2. \A j \in Chains : reservoir'[j] \subseteq reservoir[j]
  BY ForgottenShrinks DEF SendFails
<1> QED
  BY <1>1, <1>2, StillHoused

LEMMA FundNested ==
    ASSUME TypeOK, RailsOrdered, Housed, NEW c \in Calls, FundReservoir(c)
    PROVE  RailsOrdered' /\ Housed'
<1>1. Active(c) /\ pc[c] = "found"
  BY DEF FundReservoir, Active, Ended
<1>2. OnItsRail(c)
  BY <1>1 DEF RailsOrdered
<1>3. CASE Leave(c, "threw") /\ UNCHANGED <<lives, reservoir>>
  BY <1>1, <1>3, QuietStep DEF Ended
<1>4. CASE /\ Goto(c, "rail") /\ UNCHANGED rail
           /\ lives' = [lives EXCEPT ![c] = {rail}]
           /\ reservoir' = [reservoir EXCEPT ![local[c].key] = {c}]
           /\ local' = [local EXCEPT ![c].using = {c}, ![c].dest = rail]
  <2>1. rail = Chain[c] /\ local[c].key = Chain[c] /\ Chain[c] \in Chains
    BY <1>1, <1>2 DEF OnItsRail, At
  <2>2. /\ local'[c].outer = local[c].outer /\ local'[c].key = local[c].key
        /\ local'[c].using = {c}
    BY <1>4, SMTT(20) DEF TypeOK, Locals
  <2>3. rail' = At(c, "rail")
    BY <1>4, <2>1 DEF At
  <2>4. RailsOrdered' /\ \A d \in Calls : Active(d)' => d = c
    BY <1>1, <1>4, <2>2, <2>3, GoesOn DEF Labels, Ended
  <2>5. lives'[c] = {Chain[c]} /\ \A id \in Calls : id # c => lives'[id] = lives[id]
    BY <1>4, <2>1 DEF TypeOK
  <2>6. reservoir'[Chain[c]] = {c} /\ \A k \in Chains : k # Chain[c] => reservoir'[k] = reservoir[k]
    BY <1>4, <2>1 DEF TypeOK
  <2>7. \A id \in Calls : lives'[id] \in {{}, {Chain[id]}}
    BY <2>5 DEF Housed
  <2>8. ASSUME NEW k \in Chains, NEW id \in reservoir'[k] PROVE Chain[id] = k /\ lives'[id] = {k}
    <3>1. CASE k = Chain[c]
      BY <2>5, <2>6, <2>8, <3>1
    <3>2. CASE k # Chain[c]
      <4>1. id \in reservoir[k] /\ id \in Calls
        BY <2>6, <2>8, <3>2 DEF TypeOK
      <4>2. Chain[id] = k /\ lives[id] = {k}
        BY <4>1 DEF Housed
      <4> QED
        BY <2>5, <3>2, <4>1, <4>2
    <3> QED
      BY <3>1, <3>2
  <2>9. \A d \in Calls : Active(d)' => \A id \in local'[d].using : Chain[id] = Chain[d] /\ lives'[id] = {Chain[d]}
    BY <2>2, <2>4, <2>5
  <2> QED
    BY <2>4, <2>7, <2>8, <2>9 DEF Housed
<1> QED
  BY <1>3, <1>4 DEF FundReservoir

LEMMA StepNested ==
    ASSUME TypeOK, Nested, NEW c \in Calls, Step(c), abandoned = {}
    PROVE  RailsOrdered' /\ Housed'
<1> RailsOrdered /\ Housed
  BY DEF Nested
<1> USE DEF Active, Ended, Labels
<1>1. CASE Start(c)
  BY <1>1, StartNested
<1>2. CASE Mint(c)
  BY <1>2, QuietStep DEF Mint, ledger
<1>3. CASE FundReservoir(c)
  BY <1>3, FundNested
<1>4. CASE CreateRail(c)
  <2>1. CASE FillFails(c)
    BY <1>4, <2>1, FillFailsNested DEF CreateRail, ledger
  <2>2. CASE Goto(c, "heatBTC") /\ local' = [local EXCEPT ![c].miner = rail] /\ UNCHANGED <<rail, reservoir>>
    <3>1. /\ local'[c].outer = local[c].outer /\ local'[c].key = local[c].key
          /\ local'[c].using = local[c].using
      BY <2>2, SMTT(20) DEF TypeOK, Locals
    <3> QED
      BY <1>4, <2>2, <3>1, QuietStep DEF CreateRail, ledger
  <2> QED
    BY <1>4, <2>1, <2>2 DEF CreateRail
<1>5. CASE HeatBTC(c)
  <2>1. CASE FillFails(c)
    BY <1>5, <2>1, FillFailsNested DEF HeatBTC, ledger
  <2>2. CASE Goto(c, "heatDest") /\ UNCHANGED <<rail, local, reservoir>>
    BY <1>5, <2>2, QuietStep DEF HeatBTC, ledger
  <2> QED
    BY <1>5, <2>1, <2>2 DEF HeatBTC
<1>6. CASE HeatDest(c)
  <2>1. CASE FillFails(c)
    BY <1>6, <2>1, FillFailsNested DEF HeatDest, ledger
  <2>2. CASE /\ Goto(c, "lock") /\ local' = [local EXCEPT ![c].inner = rail] /\ rail' = BTC
             /\ UNCHANGED reservoir
    <3>1. rail = Chain[c] /\ pc[c] = "heatDest"
      BY <1>6 DEF HeatDest, RailsOrdered, OnItsRail, At
    <3>2. /\ local'[c].outer = local[c].outer /\ local'[c].key = local[c].key
          /\ local'[c].using = local[c].using /\ local'[c].inner = Chain[c]
      BY <2>2, <3>1, SMTT(20) DEF TypeOK, Locals
    <3>3. rail' = At(c, "lock")
      BY <2>2 DEF At
    <3>4. RailsOrdered' /\ \A d \in Calls : Active(d)' => d = c
      BY <2>2, <3>1, <3>2, <3>3, GoesOn
    <3>5. UNCHANGED lives
      BY <1>6 DEF HeatDest, ledger
    <3> QED
      BY <2>2, <3>1, <3>2, <3>4, <3>5, StillHoused
  <2> QED
    BY <1>6, <2>1, <2>2 DEF HeatDest
<1>7. CASE Lock(c)
  <2>1. PICK l \in {"credit", "coolBTC"} : Goto(c, l)
    BY <1>7 DEF Lock
  <2>2. local' = local \/ local' = [local EXCEPT ![c].failed = TRUE]
    BY <1>7 DEF Lock
  <2>3. /\ local'[c].outer = local[c].outer /\ local'[c].key = local[c].key
        /\ local'[c].using = local[c].using
    BY <2>2, SMTT(20) DEF TypeOK, Locals
  <2>4. pc[c] = "lock" /\ rail' = local[c].inner /\ UNCHANGED <<reservoir, lives>>
    BY <1>7 DEF Lock
  <2>5. rail' = At(c, l)
    BY <2>4 DEF RailsOrdered, OnItsRail, At
  <2>6. RailsOrdered' /\ \A d \in Calls : Active(d)' => d = c
    BY <2>1, <2>3, <2>4, <2>5, GoesOn
  <2> QED
    BY <2>3, <2>4, <2>6, StillHoused
<1>8. CASE Credit(c) \/ CoolBTC(c)
  <2>1. PICK l \in {"coolBTC", "coolDest"} : Goto(c, l)
    BY <1>8 DEF Credit, CoolBTC
  <2>2. \/ local' = local \/ local' = [local EXCEPT ![c].failed = TRUE]
        \/ \E off \in BOOLEAN : local' = [local EXCEPT ![c].restoreErr = ~off]
    BY <1>8 DEF Credit, CoolBTC
  <2>3. /\ local'[c].outer = local[c].outer /\ local'[c].key = local[c].key
        /\ local'[c].using = local[c].using
    BY <2>2, SMTT(20) DEF TypeOK, Locals
  <2>4. pc[c] \in {"credit", "coolBTC"} /\ UNCHANGED <<rail, reservoir, lives>>
    BY <1>8 DEF Credit, CoolBTC, ledger
  <2> QED
    BY <2>1, <2>3, <2>4, QuietStep
<1>9. CASE CoolDest(c)
  <2>1. CASE FillFails(c)
    BY <1>9, <2>1, FillFailsNested DEF CoolDest, ledger
  <2>2. CASE Goto(c, "send") /\ UNCHANGED <<rail, local, reservoir>>
    BY <1>9, <2>2, QuietStep DEF CoolDest, ledger
  <2> QED
    BY <1>9, <2>1, <2>2 DEF CoolDest
<1>10. CASE Send(c)
  <2>1. CASE SendFails(c)
    BY <1>10, <2>1, SendFailsNested DEF Send
  <2>2. CASE Goto(c, "sent") /\ UNCHANGED <<rail, local, reservoir>>
    BY <1>10, <2>2, QuietStep DEF Send
  <2> QED
    BY <1>10, <2>1, <2>2 DEF Send
<1>11. CASE Sent(c)
  <2>1. CASE SendFails(c)
    BY <1>11, <2>1, SendFailsNested DEF Sent, ledger
  <2>2. CASE Leave(c, "returned") /\ UNCHANGED reservoir
    BY <1>11, <2>2, QuietStep DEF Sent, ledger
  <2> QED
    BY <1>11, <2>1, <2>2 DEF Sent
<1> QED
  BY <1>1, <1>2, <1>3, <1>4, <1>5, <1>6, <1>7, <1>8, <1>9, <1>10, <1>11 DEF Step

\* Nobody returns from being given up on.
LEMMA AbandonedStays == ASSUME [Next]_vars, abandoned' = {} PROVE abandoned = {}
  BY ZenonT(60) DEF Next, Step, Abandon, CreditLands, Finished, vars, ledger, Start, Mint, FundReservoir, CreateRail,
     HeatBTC, HeatDest, Lock, Credit, CoolBTC, CoolDest, Send, Sent

LEMMA NestedAlways == Spec => []Nested
<1>1. Init => Nested
  BY DEF Init, Nested, RailsOrdered, Housed, OneByOne, Active
<1>2. TypeOK /\ Nested /\ [Next]_vars => Nested'
  <2> SUFFICES ASSUME TypeOK, Nested, [Next]_vars, abandoned' = {} PROVE RailsOrdered' /\ Housed'
    BY DEF Nested
  <2>1. abandoned = {}
    BY AbandonedStays
  <2>2. CASE \E c \in Calls : Step(c)
    BY <2>1, <2>2, StepNested
  <2>3. CASE UNCHANGED <<pc, rail, local, reservoir, lives>>
    BY <2>1, <2>3 DEF Nested, RailsOrdered, Housed, OneByOne, Active, OnItsRail
  <2> QED
    BY <2>2, <2>3 DEF Next, Abandon, CreditLands, Finished, vars, ledger
<1> QED
  BY <1>1, <1>2, TypeCorrect, PTL DEF Spec

(* Unless a call was given up on, every await of a call finds the globals of *)
(* its chain, and between calls they are the suite's (withRail).           *)
THEOREM RailsAreNested == Spec => []RailsNest
<1>1. Nested => RailsNest
  BY DEF Nested, RailsOrdered, RailsNest, OnItsRail, At
<1> QED
  BY <1>1, NestedAlways, PTL

(* Unless a call was given up on, a reservoir pays only for calls of the   *)
(* chain it lives on (reservoirs).                                         *)
THEOREM ReservoirsAreOwn == Spec => []OwnReservoir
<1>1. Nested => OwnReservoir
  BY DEF Nested, Housed, OwnReservoir, Active, Ended
<1> QED
  BY <1>1, NestedAlways, PTL
-----------------------------------------------------------------------------
(* What the accounting believes.                                           *)

\* What a reservoir is believed to hold is on its ledger, on its way there or about
\* to be charged; a bridge that has not failed has more of it on the way than that.
Worth(id) == balance[id] + Coming(id) + Leaving(id)

\* Call c has bridged, and what it bridged is not yet counted.
Due(c) == pc[c] \in {"credit", "coolBTC", "coolDest"} /\ ~local[c].failed

Counted ==
    \A k \in Chains : \A id \in reservoir[k] :
        /\ remaining[id] <= Worth(id)
        /\ \A c \in Calls : (Due(c) /\ id \in local[c].using) => remaining[id] + local[c].asked <= Worth(id)

\* A call locks once, for the chain it came for; a reservoir nobody funded is empty.
Fresh ==
    /\ \A c \in Calls : pc[c] \in {"idle", "found"} => lives[c] = {}
    /\ \A id \in Calls : lives[id] = {} => remaining[id] = 0
    /\ \A c \in Calls : pc[c] \in {"idle", "mint", "found", "rail", "heatBTC", "heatDest", "lock"} =>
           \A id \in Calls : locks[id][c] = 0
    /\ \A c \in Calls : Active(c) => local[c].dest = Chain[c]

CoveredInv == abandoned = {} => Fresh /\ Counted

LEMMA CallsFinite == ASSUME NEW S, S \subseteq Calls PROVE Cardinality(S) \in Nat
<1>1. IsFiniteSet(Calls)
  BY FS_Interval
<1>2. IsFiniteSet(S)
  BY <1>1, FS_Subset
<1> QED
  BY <1>2, FS_CardinalityType

LEMMA WorthTyped ==
    ASSUME TypeOK, TypeOK', NEW id \in Calls
    PROVE  /\ Coming(id) \in Nat /\ Leaving(id) \in Int /\ Worth(id) \in Int /\ remaining[id] \in Int
           /\ Coming(id)' \in Nat /\ Leaving(id)' \in Int /\ Worth(id)' \in Int /\ remaining'[id] \in Int
           /\ balance[id] \in Nat /\ balance'[id] \in Nat
<1>1. locks[id] \in [Calls -> Nat] /\ locks'[id] \in [Calls -> Nat]
  BY DEF TypeOK
<1>2. Total(locks[id]) \in Nat /\ Total(locks'[id]) \in Nat
  BY <1>1, TotalIsAmount
<1>3. Cost \in Int
  BY DEF Cost
<1> DEFINE A == {c \in Calls : pc[c] = "sent" /\ id \in local[c].using}
           B == {c \in Calls : pc'[c] = "sent" /\ id \in local'[c].using}
<1>4. Cardinality(A) \in Nat /\ Cardinality(B) \in Nat
  BY CallsFinite
<1>5. Leaving(id) = Cost * Cardinality(A) /\ Leaving(id)' = Cost * Cardinality(B)
  BY DEF Leaving
<1> HIDE DEF A, B
<1>6. Leaving(id) \in Int /\ Leaving(id)' \in Int
  BY <1>3, <1>4, <1>5
<1>7. balance[id] \in Nat /\ balance'[id] \in Nat /\ remaining[id] \in Int /\ remaining'[id] \in Int
  BY DEF TypeOK
<1>8. Coming(id) \in Nat /\ Coming(id)' \in Nat
  BY <1>2 DEF Coming
<1>9. /\ Worth(id) = balance[id] + Coming(id) + Leaving(id)
      /\ Worth(id)' = balance'[id] + Coming(id)' + Leaving(id)'
  BY DEF Worth
<1>10. Worth(id) \in Int
  BY <1>6, <1>7, <1>8, <1>9
<1>11. Worth(id)' \in Int
  BY <1>6, <1>7, <1>8, <1>9
<1> QED
  BY <1>6, <1>7, <1>8, <1>10, <1>11

\* Sends between their validation and their charge are the same for a reservoir.
LEMMA LeavingStays ==
    ASSUME NEW id, \A d \in Calls : (pc'[d] = "sent" /\ id \in local'[d].using) <=> (pc[d] = "sent" /\ id \in local[d].using)
    PROVE  Leaving(id)' = Leaving(id)
<1>1. {d \in Calls : pc'[d] = "sent" /\ id \in local'[d].using} = {d \in Calls : pc[d] = "sent" /\ id \in local[d].using}
  OBVIOUS
<1> QED
  BY <1>1 DEF Leaving

\* One call at most has sent and is still to be charged.
LEMMA OneLeaves ==
    ASSUME NEW c \in Calls, NEW S, S \subseteq {c}
    PROVE  Cost * Cardinality(S) = IF c \in S THEN Cost ELSE 0
<1>1. Cost \in Int
  BY DEF Cost
<1>2. CASE c \in S
  <2>1. S = {c} /\ Cardinality({c}) = 1
    <3>1. S = {c}
      BY <1>2
    <3>2. Cardinality({c}) = 1
      BY FS_Singleton
    <3> QED
      BY <3>1, <3>2
  <2>2. Cost * Cardinality(S) = Cost * 1
    BY <2>1, Zenon
  <2>3. Cost * 1 = Cost
    BY <1>1
  <2> QED
    BY <1>2, <2>2, <2>3
<1>3. CASE c \notin S
  <2>1. S = {} /\ Cardinality({}) = 0
    BY <1>3, FS_EmptySet
  <2>2. Cost * Cardinality(S) = Cost * 0
    BY <2>1, Zenon
  <2>3. Cost * 0 = 0
    BY <1>1
  <2> QED
    BY <1>3, <2>2, <2>3
<1> QED
  BY <1>2, <1>3

LEMMA LeavingOf ==
    ASSUME NEW id, NEW c \in Calls, \A d \in Calls : d # c => pc[d] # "sent"
    PROVE  Leaving(id) = IF pc[c] = "sent" /\ id \in local[c].using THEN Cost ELSE 0
<1> DEFINE A == {d \in Calls : pc[d] = "sent" /\ id \in local[d].using}
<1>1. A \subseteq {c} /\ (c \in A <=> pc[c] = "sent" /\ id \in local[c].using)
  OBVIOUS
<1>2. Leaving(id) = Cost * Cardinality(A)
  BY DEF Leaving
<1> HIDE DEF A
<1> QED
  BY <1>1, <1>2, OneLeaves

LEMMA LeavingOfNext ==
    ASSUME NEW id, NEW c \in Calls, \A d \in Calls : d # c => pc'[d] # "sent"
    PROVE  Leaving(id)' = IF pc'[c] = "sent" /\ id \in local'[c].using THEN Cost ELSE 0
<1> DEFINE A == {d \in Calls : pc'[d] = "sent" /\ id \in local'[d].using}
<1>1. A \subseteq {c} /\ (c \in A <=> pc'[c] = "sent" /\ id \in local'[c].using)
  OBVIOUS
<1>2. Leaving(id)' = Cost * Cardinality(A)
  BY DEF Leaving
<1> HIDE DEF A
<1> QED
  BY <1>1, <1>2, OneLeaves

\* No reservoir that stays entered loses more than it is believed to have lost.
LEMMA StillCounted ==
    ASSUME TypeOK, TypeOK', Counted, NEW c \in Calls,
           \A d \in Calls : d # c => pc'[d] = pc[d] /\ local'[d] = local[d],
           \A k \in Chains : reservoir'[k] \subseteq reservoir[k],
           \A k \in Chains : \A id \in reservoir'[k] : remaining'[id] - remaining[id] <= Worth(id)' - Worth(id),
           Due(c)' => Due(c) /\ local'[c].using = local[c].using /\ local'[c].asked = local[c].asked
    PROVE  Counted'
<1> SUFFICES ASSUME NEW k \in Chains, NEW id \in reservoir'[k]
             PROVE  /\ remaining'[id] <= Worth(id)'
                    /\ \A d \in Calls : (Due(d)' /\ id \in local'[d].using) => remaining'[id] + local'[d].asked <= Worth(id)'
  BY DEF Counted
<1>1. id \in reservoir[k] /\ id \in Calls
  BY DEF TypeOK
<1>2. Worth(id) \in Int /\ Worth(id)' \in Int /\ remaining[id] \in Int /\ remaining'[id] \in Int
  BY <1>1, WorthTyped
<1>3. remaining[id] <= Worth(id) /\ remaining'[id] - remaining[id] <= Worth(id)' - Worth(id)
  BY <1>1 DEF Counted
<1>4. remaining'[id] <= Worth(id)'
  BY <1>2, <1>3
<1>5. ASSUME NEW d \in Calls, Due(d)', id \in local'[d].using PROVE remaining'[id] + local'[d].asked <= Worth(id)'
  <2>1. Due(d) /\ id \in local[d].using /\ local'[d].asked = local[d].asked
    BY <1>5 DEF Due
  <2>2. remaining[id] + local[d].asked <= Worth(id)
    BY <1>1, <2>1 DEF Counted
  <2>3. local[d].asked \in Nat
    BY LocalFields
  <2> QED
    BY <1>2, <1>3, <2>1, <2>2, <2>3
<1> QED
  BY <1>4, <1>5

\* The ledger and the accounting are left alone, and the call neither comes from nor goes
\* to the wait for its rows.
LEMMA QuietCounted ==
    ASSUME TypeOK, TypeOK', Counted, NEW c \in Calls,
           \A d \in Calls : d # c => pc'[d] = pc[d] /\ local'[d] = local[d],
           \A k \in Chains : reservoir'[k] \subseteq reservoir[k],
           UNCHANGED <<remaining, balance, locks>>, pc[c] # "sent", pc'[c] # "sent",
           Due(c)' => Due(c) /\ local'[c].using = local[c].using /\ local'[c].asked = local[c].asked
    PROVE  Counted'
<1>1. ASSUME NEW k \in Chains, NEW id \in reservoir'[k]
      PROVE  remaining'[id] - remaining[id] <= Worth(id)' - Worth(id)
  <2>1. id \in Calls
    BY DEF TypeOK
  <2>2. Leaving(id)' = Leaving(id)
    BY LeavingStays
  <2>3. Worth(id)' = Worth(id)
    BY <2>2 DEF Worth, Coming
  <2>4. Worth(id) \in Int /\ remaining[id] \in Int
    BY <2>1, WorthTyped
  <2> QED
    BY <2>3, <2>4
<1> QED
  BY <1>1, StillCounted

Early == {"idle", "mint", "found", "rail", "heatBTC", "heatDest", "lock"}

LEMMA StillFresh ==
    ASSUME TypeOK, Fresh, NEW c \in Calls,
           \A d \in Calls : d # c => pc'[d] = pc[d] /\ local'[d] = local[d],
           UNCHANGED <<lives, remaining, locks>>,
           pc'[c] \in {"idle", "found"} => pc[c] \in {"idle", "found"},
           pc'[c] \in Early => pc[c] \in Early,
           Active(c)' => local'[c].dest = Chain[c]
    PROVE  Fresh'
<1>1. \A d \in Calls : pc'[d] \in {"idle", "found"} => lives'[d] = {}
  BY DEF Fresh
<1>2. \A d \in Calls : pc'[d] \in Early => \A id \in Calls : locks'[id][d] = 0
  BY DEF Fresh, Early
<1>3. \A d \in Calls : Active(d)' => local'[d].dest = Chain[d]
  BY DEF Fresh, Active
<1> QED
  BY <1>1, <1>2, <1>3 DEF Fresh, Early

LEMMA QuietCovered ==
    ASSUME TypeOK, TypeOK', Fresh, Counted, NEW c \in Calls,
           \A d \in Calls : d # c => pc'[d] = pc[d] /\ local'[d] = local[d],
           \A k \in Chains : reservoir'[k] \subseteq reservoir[k],
           UNCHANGED <<lives, remaining, balance, locks>>, pc[c] # "sent", pc'[c] # "sent",
           pc'[c] \in {"idle", "found"} => pc[c] \in {"idle", "found"},
           pc'[c] \in Early => pc[c] \in Early,
           Active(c)' => local'[c].dest = Chain[c],
           Due(c)' => Due(c) /\ local'[c].using = local[c].using /\ local'[c].asked = local[c].asked
    PROVE  Fresh' /\ Counted'
<1>1. Fresh'
  BY StillFresh
<1>2. Counted'
  BY QuietCounted
<1> QED
  BY <1>1, <1>2

\* A call that goes on, or ends, without touching ledger or accounting.
LEMMA GoesOnCovered ==
    ASSUME TypeOK, TypeOK', Fresh, Counted, NEW c \in Calls, Active(c),
           \A d \in Calls : d # c => pc'[d] = pc[d] /\ local'[d] = local[d],
           UNCHANGED <<lives, remaining, balance, locks>>, pc[c] # "sent",
           \A k \in Chains : reservoir'[k] \subseteq reservoir[k],
           \/ \E how \in Ended : Leave(c, how)
           \/ /\ \E l \in Labels \ ({"idle", "found", "sent"} \cup Ended) :
                    /\ Goto(c, l) /\ (l \in Early => pc[c] \in Early)
                    /\ (l \in {"credit", "coolBTC", "coolDest"} => pc[c] \in {"credit", "coolBTC", "coolDest"})
              /\ local'[c].dest = local[c].dest /\ local'[c].using = local[c].using
              /\ local'[c].asked = local[c].asked /\ (local[c].failed => local'[c].failed)
    PROVE  Fresh' /\ Counted'
<1>1. CASE \E how \in Ended : Leave(c, how)
  <2>1. pc'[c] \in Ended
    BY <1>1 DEF Leave, Goto, TypeOK
  <2> QED
    BY <2>1, QuietCovered DEF Ended, Early, Active, Due
<1>2. CASE /\ \E l \in Labels \ ({"idle", "found", "sent"} \cup Ended) :
                 /\ Goto(c, l) /\ (l \in Early => pc[c] \in Early)
                 /\ (l \in {"credit", "coolBTC", "coolDest"} => pc[c] \in {"credit", "coolBTC", "coolDest"})
           /\ local'[c].dest = local[c].dest /\ local'[c].using = local[c].using
           /\ local'[c].asked = local[c].asked /\ (local[c].failed => local'[c].failed)
  <2>1. PICK l \in Labels \ ({"idle", "found", "sent"} \cup Ended) :
            /\ Goto(c, l) /\ (l \in Early => pc[c] \in Early)
            /\ (l \in {"credit", "coolBTC", "coolDest"} => pc[c] \in {"credit", "coolBTC", "coolDest"})
    BY <1>2
  <2>2. pc'[c] = l
    BY <2>1 DEF Goto, TypeOK
  <2>3. Active(c)' => local'[c].dest = Chain[c]
    BY <1>2 DEF Fresh
  <2>4. Due(c)' => Due(c) /\ local'[c].using = local[c].using /\ local'[c].asked = local[c].asked
    BY <1>2, <2>1, <2>2 DEF Due
  <2> QED
    BY <2>1, <2>2, <2>3, <2>4, QuietCovered
<1> QED
  BY <1>1, <1>2

LEMMA StartCovered ==
    ASSUME TypeOK, TypeOK', RailsOrdered, Fresh, Counted, abandoned = {}, NEW c \in Calls, Start(c)
    PROVE  Fresh' /\ Counted'
<1>1. rail = Home
  BY StartsAlone
<1>2. \A d \in Calls : d # c => pc'[d] = pc[d] /\ local'[d] = local[d]
  BY OthersStay DEF Step
<1>3. Goto(c, FirstAwait(Chain[c])) /\ UNCHANGED <<reservoir, lives, remaining, balance, locks>>
  BY <1>1 DEF Start, ledger
<1>4. pc[c] = "idle" /\ pc'[c] \in {"mint", "found", "send", "rail"}
  BY <1>3 DEF Start, FirstAwait, Goto, TypeOK
<1>5. local'[c].dest = Chain[c]
  <2>1. local \in [Calls -> Locals]
    BY DEF TypeOK
  <2>2. PICK left : local' = [local EXCEPT ![c].outer = rail, ![c].key = Chain[c], ![c].dest = Chain[c],
                                          ![c].using = Held(Chain[c]), ![c].asked = Refill(left)]
    BY <1>1 DEF Start
  <2> QED
    BY <2>1, <2>2 DEF Locals
<1> QED
  BY <1>2, <1>3, <1>4, <1>5, QuietCovered DEF Early, Due

LEMMA FundCovered ==
    ASSUME TypeOK, TypeOK', RailsOrdered, Housed, Fresh, Counted, NEW c \in Calls, FundReservoir(c)
    PROVE  Fresh' /\ Counted'
<1>1. Active(c) /\ pc[c] = "found"
  BY DEF FundReservoir, Active, Ended
<1>2. \A d \in Calls : d # c => pc'[d] = pc[d] /\ local'[d] = local[d]
  BY OthersStay DEF Step
<1>3. UNCHANGED <<remaining, balance, locks>>
  BY DEF FundReservoir
<1>4. CASE Leave(c, "threw") /\ UNCHANGED <<lives, reservoir>>
  BY <1>1, <1>2, <1>3, <1>4, GoesOnCovered DEF Ended
<1>5. CASE /\ Goto(c, "rail") /\ UNCHANGED rail
           /\ lives' = [lives EXCEPT ![c] = {rail}]
           /\ reservoir' = [reservoir EXCEPT ![local[c].key] = {c}]
           /\ local' = [local EXCEPT ![c].using = {c}, ![c].dest = rail]
  <2>1. rail = Chain[c] /\ local[c].key = Chain[c] /\ Chain[c] \in Chains
    BY <1>1 DEF RailsOrdered, OnItsRail, At
  <2>2. local'[c].dest = Chain[c]
    BY <1>5, <2>1, SMTT(20) DEF TypeOK, Locals
  <2>3. pc'[c] = "rail"
    BY <1>5 DEF TypeOK, Goto
  <2>4. lives'[c] # {} /\ \A id \in Calls : id # c => lives'[id] = lives[id]
    BY <1>5 DEF TypeOK
  <2>5. reservoir'[Chain[c]] = {c} /\ \A k \in Chains : k # Chain[c] => reservoir'[k] = reservoir[k]
    BY <1>5, <2>1 DEF TypeOK
  <2>6. Fresh'
    <3>1. \A d \in Calls : pc'[d] \in {"idle", "found"} => lives'[d] = {}
      BY <1>2, <2>3, <2>4 DEF Fresh
    <3>2. \A d \in Calls : pc'[d] \in Early => \A id \in Calls : locks'[id][d] = 0
      BY <1>1, <1>2, <1>3 DEF Fresh, Early
    <3>3. \A d \in Calls : Active(d)' => local'[d].dest = Chain[d]
      BY <1>2, <2>2 DEF Fresh, Active
    <3>4. \A id \in Calls : lives'[id] = {} => remaining'[id] = 0
      BY <1>3, <2>4 DEF Fresh
    <3> QED
      BY <3>1, <3>2, <3>3, <3>4 DEF Fresh, Early
  <2>7. \A id \in Calls : Worth(id)' = Worth(id)
    <3>1. \A id \in Calls : Leaving(id)' = Leaving(id)
      BY <1>1, <1>2, <2>3, LeavingStays
    <3> QED
      BY <1>3, <3>1 DEF Worth, Coming
  <2>8. \A d \in Calls : Due(d)' => Due(d) /\ local'[d] = local[d]
    BY <1>2, <2>3 DEF Due
  <2>9. ASSUME NEW k \in Chains, NEW id \in reservoir'[k]
        PROVE  /\ remaining'[id] <= Worth(id)'
               /\ \A d \in Calls : (Due(d)' /\ id \in local'[d].using) => remaining'[id] + local'[d].asked <= Worth(id)'
    <3>0. id \in Calls
      BY DEF TypeOK
    <3>1. CASE k = Chain[c]
      <4>1. id = c /\ remaining[c] = 0
        BY <1>1, <2>5, <2>9, <3>1 DEF Fresh
      <4>2. Coming(c) \in Nat /\ balance[c] \in Nat
        BY WorthTyped
      <4>3. Leaving(c) = 0
        <5>1. \A d \in Calls : pc[d] # "sent"
          BY <1>1, OnlyOneActive DEF RailsOrdered, Active, Ended
        <5> QED
          BY <5>1, LeavingOf
      <4>4. \A d \in Calls : ~Due(d)
        BY <1>1, OnlyOneActive DEF RailsOrdered, Active, Ended, Due
      <4>5. remaining'[id] = 0 /\ Worth(id)' = balance[c] + Coming(c)
        BY <1>3, <2>7, <4>1, <4>2, <4>3 DEF Worth
      <4>6. remaining'[id] <= Worth(id)'
        BY <4>2, <4>5
      <4> QED
        BY <2>8, <4>4, <4>6
    <3>2. CASE k # Chain[c]
      <4>1. id \in reservoir[k]
        BY <2>5, <2>9, <3>2
      <4>2. remaining[id] <= Worth(id)
        BY <4>1 DEF Counted
      <4>3. \A d \in Calls : (Due(d) /\ id \in local[d].using) => remaining[id] + local[d].asked <= Worth(id)
        BY <4>1 DEF Counted
      <4>4. remaining'[id] = remaining[id] /\ Worth(id)' = Worth(id)
        BY <1>3, <2>7, <3>0
      <4> QED
        BY <2>8, <4>2, <4>3, <4>4
    <3> QED
      BY <3>1, <3>2
  <2>10. Counted'
    BY <2>9 DEF Counted
  <2> QED
    BY <2>6, <2>10
<1> QED
  BY <1>4, <1>5 DEF FundReservoir

\* A reservoir of another chain than the call's is none it uses.
LEMMA OnlyItsOwn ==
    ASSUME Housed, NEW c \in Calls, Active(c), NEW k \in Chains, k # Chain[c], NEW id \in reservoir[k]
    PROVE  id \notin local[c].using
<1>1. Chain[id] = k
  BY DEF Housed
<1>2. ASSUME id \in local[c].using PROVE FALSE
  <2>1. Chain[id] = Chain[c]
    BY <1>2 DEF Housed
  <2> QED
    BY <1>1, <2>1
<1> QED
  BY <1>2

\* No call but the one at work waits for its rows or has bridged.
LEMMA OthersIdle ==
    ASSUME TypeOK, RailsOrdered, NEW c \in Calls, Active(c)
    PROVE  \A d \in Calls : d # c => ~Active(d) /\ pc[d] # "sent" /\ ~Due(d)
<1>1. \A d \in Calls : d # c => ~Active(d)
  BY OnlyOneActive DEF RailsOrdered
<1> QED
  BY <1>1 DEF Active, Ended, Due

LEMMA LockCovered ==
    ASSUME TypeOK, TypeOK', RailsOrdered, Housed, Fresh, Counted, NEW c \in Calls, Lock(c)
    PROVE  Fresh' /\ Counted'
<1>1. Active(c) /\ pc[c] = "lock"
  BY DEF Lock, Active, Ended
<1>2. \A d \in Calls : d # c => pc'[d] = pc[d] /\ local'[d] = local[d]
  BY OthersStay DEF Step
<1>3. UNCHANGED <<reservoir, remaining, lives, balance>>
  BY DEF Lock
<1>4. PICK l \in {"credit", "coolBTC"} : Goto(c, l)
  BY DEF Lock
<1>5. pc'[c] = l
  BY <1>4 DEF Goto, TypeOK
<1>6. local' = local \/ local' = [local EXCEPT ![c].failed = TRUE]
  BY DEF Lock
<1>7. /\ local'[c].dest = local[c].dest /\ local'[c].using = local[c].using /\ local'[c].asked = local[c].asked
      /\ local' = local \/ local'[c].failed
  BY <1>6, SMTT(20) DEF TypeOK, Locals
<1>8. local[c].dest = Chain[c] /\ local[c].asked \in Nat
  BY <1>1, LocalFields DEF Fresh
<1>9. locks' = locks \/ locks' = Bridged(c)
  BY DEF Lock
<1>10. \A id \in Calls : locks[id] \in [Calls -> Nat] /\ locks[id][c] = 0
  <2>1. locks \in [Calls -> [Calls -> Nat]]
    BY DEF TypeOK
  <2>2. \A id \in Calls : locks[id][c] = 0
    BY <1>1 DEF Fresh
  <2> QED
    BY <2>1, <2>2
<1>11. \A id \in Calls : Leaving(id)' = Leaving(id)
  BY <1>1, <1>2, <1>5, LeavingStays
\* What is on the way grows by what was asked for, where the lock is of use.
<1>12. ASSUME NEW id \in Calls
       PROVE  /\ Coming(id)' = Coming(id) \/ Coming(id)' = Coming(id) + local[c].asked
              /\ locks' = Bridged(c) /\ id \in local[c].using => Coming(id)' = Coming(id) + local[c].asked
              /\ Worth(id)' - Worth(id) = Coming(id)' - Coming(id)
  <2>1. Coming(id) = Total(locks[id]) /\ Coming(id)' = Total(locks'[id])
    BY DEF Coming
  <2>2. Total([locks[id] EXCEPT ![c] = local[c].asked]) = Total(locks[id]) + local[c].asked - locks[id][c]
    BY <1>8, <1>10, TotalChanges
  <2>3. Total(locks[id]) \in Nat /\ locks[id][c] = 0
    BY <1>10, TotalIsAmount
  <2>4. Total([locks[id] EXCEPT ![c] = local[c].asked]) = Total(locks[id]) + local[c].asked
    BY <1>8, <2>2, <2>3
  <2>5. locks'[id] = locks[id] \/ locks'[id] = [locks[id] EXCEPT ![c] = local[c].asked]
    BY <1>9 DEF Bridged
  <2>6. id \in local[c].using => local[c].dest \in lives[id]
    BY <1>1, <1>8 DEF Housed
  <2>7. locks' = Bridged(c) /\ id \in local[c].using => locks'[id] = [locks[id] EXCEPT ![c] = local[c].asked]
    BY <2>6 DEF Bridged
  <2>8. Worth(id)' - Worth(id) = Coming(id)' - Coming(id)
    <3>1. Leaving(id) \in Int /\ balance[id] \in Nat /\ Coming(id) \in Nat /\ Coming(id)' \in Nat
      BY WorthTyped
    <3>2. Leaving(id)' = Leaving(id) /\ balance'[id] = balance[id]
      BY <1>3, <1>11
    <3>3. Worth(id) = balance[id] + Coming(id) + Leaving(id) /\ Worth(id)' = balance[id] + Coming(id)' + Leaving(id)
      BY <3>2 DEF Worth
    <3> QED
      BY <3>1, <3>3
  <2> QED
    BY <2>1, <2>4, <2>5, <2>7, <2>8
<1>13. Fresh'
  <2>1. \A d \in Calls : pc'[d] \in {"idle", "found"} => lives'[d] = {}
    BY <1>2, <1>3, <1>5 DEF Fresh
  <2>2. ASSUME NEW d \in Calls, pc'[d] \in Early, NEW id \in Calls PROVE locks'[id][d] = 0
    <3>1. d # c
      BY <1>5, <2>2 DEF Early
    <3>2. locks[id][d] = 0
      BY <1>2, <2>2, <3>1 DEF Fresh, Early
    <3>3. locks'[id][d] = locks[id][d]
      BY <1>9, <1>10, <3>1 DEF Bridged
    <3> QED
      BY <3>2, <3>3
  <2>3. \A d \in Calls : Active(d)' => local'[d].dest = Chain[d]
    BY <1>2, <1>7, <1>8 DEF Fresh, Active
  <2>4. \A id \in Calls : lives'[id] = {} => remaining'[id] = 0
    BY <1>3 DEF Fresh
  <2> QED
    BY <2>1, <2>2, <2>3, <2>4 DEF Fresh, Early
<1>14. ASSUME NEW k \in Chains, NEW id \in reservoir'[k]
       PROVE  /\ remaining'[id] <= Worth(id)'
              /\ \A d \in Calls : (Due(d)' /\ id \in local'[d].using) => remaining'[id] + local'[d].asked <= Worth(id)'
  <2>1. id \in Calls /\ id \in reservoir[k]
    BY <1>3 DEF TypeOK
  <2>2. remaining'[id] = remaining[id] /\ remaining[id] <= Worth(id)
    BY <1>3, <2>1 DEF Counted
  <2>3. /\ Worth(id) \in Int /\ Worth(id)' \in Int /\ remaining[id] \in Int
        /\ Coming(id) \in Nat /\ Coming(id)' \in Nat
    BY <2>1, WorthTyped
  <2>4. Worth(id)' - Worth(id) = Coming(id)' - Coming(id)
    BY <1>12, <2>1
  <2>5. Coming(id)' = Coming(id) \/ Coming(id)' = Coming(id) + local[c].asked
    BY <1>12, <2>1
  <2>6. local[c].asked \in Nat
    BY LocalFields
  <2>7. remaining'[id] <= Worth(id)'
    BY <2>2, <2>3, <2>4, <2>5, <2>6
  <2>8. ASSUME NEW d \in Calls, Due(d)', id \in local'[d].using PROVE remaining'[id] + local'[d].asked <= Worth(id)'
    <3>1. d = c
      <4>1. ASSUME d # c PROVE FALSE
        <5>1. ~Due(d)
          BY <1>1, <4>1, OthersIdle
        <5> QED
          BY <1>2, <2>8, <4>1, <5>1 DEF Due
      <4> QED
        BY <4>1
    <3>2. ~local'[c].failed /\ id \in local[c].using
      BY <1>7, <2>8, <3>1 DEF Due
    <3>3. locks' = Bridged(c)
      <4>1. CASE local' = [local EXCEPT ![c].failed = TRUE]
        <5>1. local'[c].failed
          BY <4>1, SMTT(20) DEF TypeOK, Locals
        <5> QED
          BY <3>2, <5>1
      <4> QED
        BY <4>1 DEF Lock
    <3>4. Coming(id)' = Coming(id) + local[c].asked
      BY <1>12, <2>1, <3>2, <3>3
    <3>5. local'[d].asked = local[c].asked
      BY <1>7, <1>8, <3>1
    <3>6. Worth(id)' = Worth(id) + local[c].asked
      BY <2>3, <2>4, <2>6, <3>4
    <3> QED
      BY <2>2, <2>3, <2>6, <3>5, <3>6
  <2> QED
    BY <2>7, <2>8
<1>15. Counted'
  BY <1>14 DEF Counted
<1> QED
  BY <1>13, <1>15

LEMMA CoolDestCovered ==
    ASSUME TypeOK, TypeOK', RailsOrdered, Housed, Fresh, Counted, NEW c \in Calls, CoolDest(c)
    PROVE  Fresh' /\ Counted'
<1>1. Active(c) /\ pc[c] = "coolDest"
  BY DEF CoolDest, Active, Ended
<1>2. \A d \in Calls : d # c => pc'[d] = pc[d] /\ local'[d] = local[d]
  BY OthersStay DEF Step
<1>3. UNCHANGED <<lives, balance, locks>>
  BY DEF CoolDest, ledger
<1>4. CASE FillFails(c) /\ UNCHANGED remaining
  <2>1. \A k \in Chains : reservoir'[k] \subseteq reservoir[k]
    BY <1>4, ForgottenShrinks DEF FillFails
  <2> QED
    BY <1>1, <1>2, <1>3, <1>4, <2>1, GoesOnCovered DEF FillFails, Ended
<1>5. CASE /\ ~local[c].failed /\ Goto(c, "send") /\ UNCHANGED <<local, reservoir>>
           /\ remaining' = Plus(remaining, local[c].using, local[c].asked)
  <2>1. pc'[c] = "send"
    BY <1>5 DEF Goto, TypeOK
  <2>2. \A id \in Calls : Leaving(id)' = Leaving(id)
    BY <1>1, <1>2, <1>5, <2>1, LeavingStays
  <2>3. \A id \in Calls : Worth(id)' = Worth(id)
    BY <1>3, <2>2 DEF Worth, Coming
  <2>4. \A d \in Calls : ~Due(d)'
    BY <1>1, <1>2, <2>1, OthersIdle DEF Due
  <2>5. Due(c)
    BY <1>1, <1>5 DEF Due
  <2>6. ASSUME NEW k \in Chains, NEW id \in reservoir'[k] PROVE remaining'[id] <= Worth(id)'
    <3>1. id \in Calls /\ id \in reservoir[k]
      BY <1>5 DEF TypeOK
    <3>2. CASE id \in local[c].using
      <4>1. remaining'[id] = remaining[id] + local[c].asked
        BY <1>5, <3>1, <3>2 DEF Plus
      <4>2. remaining[id] + local[c].asked <= Worth(id)
        BY <2>5, <3>1, <3>2 DEF Counted
      <4> QED
        BY <2>3, <3>1, <4>1, <4>2
    <3>3. CASE id \notin local[c].using
      <4>1. remaining'[id] = remaining[id]
        BY <1>5, <3>1, <3>3 DEF Plus
      <4>2. remaining[id] <= Worth(id)
        BY <3>1 DEF Counted
      <4> QED
        BY <2>3, <3>1, <4>1, <4>2
    <3> QED
      BY <3>2, <3>3
  <2>7. Counted'
    BY <2>4, <2>6 DEF Counted
  <2>8. Fresh'
    <3>1. \A d \in Calls : pc'[d] \in {"idle", "found"} => lives'[d] = {}
      BY <1>2, <1>3, <2>1 DEF Fresh
    <3>2. \A d \in Calls : pc'[d] \in Early => \A id \in Calls : locks'[id][d] = 0
      BY <1>2, <1>3, <2>1 DEF Fresh, Early
    <3>3. \A d \in Calls : Active(d)' => local'[d].dest = Chain[d]
      BY <1>1, <1>2, <1>5 DEF Fresh, Active
    <3>4. ASSUME NEW id \in Calls, lives'[id] = {} PROVE remaining'[id] = 0
      <4>1. id \notin local[c].using
        BY <1>1, <1>3, <3>4 DEF Housed
      <4>2. remaining'[id] = remaining[id]
        BY <1>5, <4>1 DEF Plus
      <4> QED
        BY <1>3, <3>4, <4>2 DEF Fresh
    <3> QED
      BY <3>1, <3>2, <3>3, <3>4 DEF Fresh, Early
  <2> QED
    BY <2>7, <2>8
<1> QED
  BY <1>4, <1>5 DEF CoolDest, Failed

\* A send takes at most its cost from the ledger, and is then still to be charged.
LEMMA SendCovered ==
    ASSUME TypeOK, TypeOK', RailsOrdered, Housed, Fresh, Counted, NEW c \in Calls, Send(c)
    PROVE  Fresh' /\ Counted'
<1>1. Active(c) /\ pc[c] = "send"
  BY DEF Send, Active, Ended
<1>2. \A d \in Calls : d # c => pc'[d] = pc[d] /\ local'[d] = local[d]
  BY OthersStay DEF Step
<1>3. UNCHANGED <<remaining, lives, locks>>
  BY DEF Send
<1>4. CASE SendFails(c) /\ UNCHANGED balance
  <2>1. \A k \in Chains : reservoir'[k] \subseteq reservoir[k]
    BY <1>4, ForgottenShrinks DEF SendFails
  <2> QED
    BY <1>1, <1>2, <1>3, <1>4, <2>1, GoesOnCovered DEF SendFails, Ended
<1>5. CASE /\ \E id \in local[c].using, fee \in 0 .. Headroom :
                balance' = [balance EXCEPT ![id] = @ - (Amount + fee)]
           /\ Goto(c, "sent") /\ UNCHANGED <<local, reservoir>>
  <2>1. PICK spent \in local[c].using, fee \in 0 .. Headroom :
            balance' = [balance EXCEPT ![spent] = @ - (Amount + fee)]
    BY <1>5
  <2>2. pc'[c] = "sent" /\ UNCHANGED local
    BY <1>5 DEF Goto, TypeOK
  <2>3. ASSUME NEW k \in Chains, NEW id \in reservoir'[k]
        PROVE  remaining'[id] - remaining[id] <= Worth(id)' - Worth(id)
    <3>1. id \in Calls /\ spent \in Calls
      BY <2>1, LocalFields DEF TypeOK
    <3>2. Leaving(id) = 0
      <4>1. \A d \in Calls : d # c => pc[d] # "sent"
        BY <1>1, OthersIdle
      <4> QED
        BY <1>1, <4>1, LeavingOf
    <3>3. Leaving(id)' = IF id \in local[c].using THEN Cost ELSE 0
      <4>1. \A d \in Calls : d # c => pc'[d] # "sent"
        BY <1>1, <1>2, OthersIdle
      <4> QED
        BY <2>2, <4>1, LeavingOfNext
    <3>4. balance'[id] = IF id = spent THEN balance[id] - (Amount + fee) ELSE balance[id]
      BY <2>1, <3>1 DEF TypeOK
    <3>5. /\ balance[id] \in Nat /\ Coming(id) \in Nat /\ remaining[id] \in Int
          /\ Cost = Amount + Headroom /\ fee \in Nat /\ fee <= Headroom
      <4>1. balance[id] \in Nat /\ Coming(id) \in Nat /\ remaining[id] \in Int
        BY <3>1, WorthTyped
      <4>2. fee \in Nat /\ fee <= Headroom
        OBVIOUS
      <4> QED
        BY <4>1, <4>2 DEF Cost
    <3>6. balance'[id] + Leaving(id)' >= balance[id]
      BY <2>1, <3>3, <3>4, <3>5
    <3>7. Leaving(id)' \in Int /\ balance'[id] \in Int
      BY <3>3, <3>4, <3>5
    <3>8. Worth(id) = balance[id] + Coming(id) /\ Worth(id)' = balance'[id] + Coming(id) + Leaving(id)'
      BY <1>3, <3>2, <3>5 DEF Worth, Coming
    <3>9. remaining'[id] = remaining[id]
      BY <1>3
    <3>10. remaining'[id] - remaining[id] = 0
      BY <3>5, <3>9
    <3>11. Worth(id)' - Worth(id) >= 0
      BY <3>5, <3>6, <3>7, <3>8
    <3>12. Worth(id)' \in Int /\ Worth(id) \in Int
      BY <3>1, WorthTyped
    <3> QED
      BY <3>10, <3>11, <3>12
  <2>4. Counted'
    <3>1. ~Due(c)'
      BY <2>2 DEF Due
    <3>2. \A k \in Chains : reservoir'[k] \subseteq reservoir[k]
      BY <1>5
    <3> QED
      BY <1>2, <2>3, <3>1, <3>2, StillCounted
  <2>5. Fresh'
    <3>1. local'[c].dest = Chain[c]
      BY <1>1, <2>2 DEF Fresh
    <3> QED
      BY <1>2, <1>3, <2>2, <3>1, StillFresh DEF Early
  <2> QED
    BY <2>4, <2>5
<1> QED
  BY <1>4, <1>5 DEF Send

\* The charge is the most the send can have taken; a send that is not known to be valid is
\* not charged, and its reservoir is forgotten.
LEMMA SentCovered ==
    ASSUME TypeOK, TypeOK', RailsOrdered, Housed, Fresh, Counted, NEW c \in Calls, Sent(c)
    PROVE  Fresh' /\ Counted'
<1>1. Active(c) /\ pc[c] = "sent"
  BY DEF Sent, Active, Ended
<1>2. \A d \in Calls : d # c => pc'[d] = pc[d] /\ local'[d] = local[d]
  BY OthersStay DEF Step
<1>3. UNCHANGED <<lives, balance, locks>>
  BY DEF Sent, ledger
<1>4. PICK how \in Ended : Leave(c, how)
  BY DEF Sent, SendFails, Ended
<1>5. pc'[c] \in Ended
  BY <1>4 DEF Leave, Goto, TypeOK
<1>6. \A k \in Chains : reservoir'[k] \subseteq reservoir[k]
  BY ForgottenShrinks DEF Sent, SendFails
<1>7. ASSUME NEW id \in Calls
      PROVE  /\ Worth(id)' = IF id \in local[c].using THEN Worth(id) - Cost ELSE Worth(id)
             /\ Cost \in Int /\ Worth(id) \in Int /\ remaining[id] \in Int
  <2>1. \A d \in Calls : d # c => pc[d] # "sent" /\ pc'[d] # "sent"
    BY <1>1, <1>2, OthersIdle
  <2>2. Leaving(id) = IF id \in local[c].using THEN Cost ELSE 0
    BY <1>1, <2>1, LeavingOf
  <2>3. Leaving(id)' = 0
    BY <1>5, <2>1, LeavingOfNext DEF Ended
  <2>4. balance[id] \in Nat /\ Coming(id) \in Nat /\ Cost \in Int /\ Worth(id) \in Int /\ remaining[id] \in Int
    <3>1. balance[id] \in Nat /\ Coming(id) \in Nat /\ Worth(id) \in Int /\ remaining[id] \in Int
      BY WorthTyped
    <3>2. Cost \in Int
      BY DEF Cost
    <3> QED
      BY <3>1, <3>2
  <2>5. Worth(id) = balance[id] + Coming(id) + Leaving(id) /\ Worth(id)' = balance[id] + Coming(id) + Leaving(id)'
    BY <1>3 DEF Worth, Coming
  <2> QED
    BY <2>2, <2>3, <2>4, <2>5
<1>8. ASSUME NEW k \in Chains, NEW id \in reservoir'[k]
      PROVE  remaining'[id] - remaining[id] <= Worth(id)' - Worth(id)
  <2>1. id \in Calls /\ id \in reservoir[k]
    BY <1>6 DEF TypeOK
  <2>2. CASE Charge(c)
    <3>1. remaining'[id] = IF id \in local[c].using THEN remaining[id] + (-Cost) ELSE remaining[id]
      BY <2>1, <2>2 DEF Charge, Plus
    <3> QED
      BY <1>7, <2>1, <3>1
  <2>3. CASE SendFails(c) /\ UNCHANGED remaining
    <3>1. rail = Chain[c]
      BY <1>1 DEF RailsOrdered, OnItsRail, At
    <3>2. k # Chain[c]
      BY <1>8, <2>3, <3>1 DEF SendFails, Forget, TypeOK
    <3>3. id \notin local[c].using
      BY <1>1, <2>1, <3>2, OnlyItsOwn
    <3> QED
      BY <1>7, <2>1, <2>3, <3>3
  <2> QED
    BY <2>2, <2>3 DEF Sent
<1>9. Counted'
  <2>1. ~Due(c)'
    BY <1>5 DEF Due, Ended
  <2> QED
    BY <1>2, <1>6, <1>8, <2>1, StillCounted
<1>10. Fresh'
  <2>1. \A d \in Calls : pc'[d] \in {"idle", "found"} => lives'[d] = {}
    BY <1>2, <1>3, <1>5 DEF Fresh, Ended
  <2>2. \A d \in Calls : pc'[d] \in Early => \A id \in Calls : locks'[id][d] = 0
    BY <1>2, <1>3, <1>5 DEF Fresh, Early, Ended
  <2>3. \A d \in Calls : Active(d)' => local'[d].dest = Chain[d]
    BY <1>2, <1>5 DEF Fresh, Active
  <2>4. ASSUME NEW id \in Calls, lives'[id] = {} PROVE remaining'[id] = 0
    <3>1. id \notin local[c].using
      BY <1>1, <1>3, <2>4 DEF Housed
    <3>2. remaining'[id] = remaining[id]
      BY <3>1 DEF Sent, Charge, Plus
    <3> QED
      BY <1>3, <2>4, <3>2 DEF Fresh
  <2> QED
    BY <2>1, <2>2, <2>3, <2>4 DEF Fresh, Early
<1> QED
  BY <1>9, <1>10

\* What lands is no longer on its way.
LEMMA CreditCovered ==
    ASSUME TypeOK, TypeOK', Fresh, Counted, NEW c \in Calls, NEW at \in Calls, CreditLands(c, at)
    PROVE  Fresh' /\ Counted'
<1>1. UNCHANGED <<pc, local, reservoir, remaining, lives>>
  BY DEF CreditLands
<1>2. \A id \in Calls : locks[id] \in [Calls -> Nat] /\ locks[id][c] \in Nat
  <2>1. locks \in [Calls -> [Calls -> Nat]]
    BY DEF TypeOK
  <2> QED
    BY <2>1
<1>3. locks' = [locks EXCEPT ![at] = [locks[at] EXCEPT ![c] = 0]]
  <2>1. locks \in [Calls -> [Calls -> Nat]]
    BY DEF TypeOK
  <2>2. locks' = [locks EXCEPT ![at][c] = 0]
    BY DEF CreditLands
  <2> QED
    BY <2>1, <2>2
<1>4. balance' = [balance EXCEPT ![at] = balance[at] + locks[at][c]]
  BY DEF CreditLands, TypeOK
<1>5. \A id \in Calls : locks'[id] = IF id = at THEN [locks[at] EXCEPT ![c] = 0] ELSE locks[id]
  BY <1>3 DEF TypeOK
<1>6. ASSUME NEW id \in Calls PROVE Worth(id)' = Worth(id)
  <2>1. Leaving(id)' = Leaving(id)
    BY <1>1, LeavingStays
  <2>2. balance[id] \in Nat /\ Coming(id) \in Nat /\ Leaving(id) \in Int
    BY WorthTyped
  <2>3. CASE id = at
    <3>1. Coming(id)' = Total([locks[at] EXCEPT ![c] = 0])
      BY <1>5, <2>3 DEF Coming
    <3>2. Total([locks[at] EXCEPT ![c] = 0]) = Total(locks[at]) + 0 - locks[at][c]
      BY <1>2, TotalChanges
    <3>3. Coming(id) = Total(locks[at])
      BY <2>3 DEF Coming
    <3>4. balance'[id] = balance[id] + locks[at][c]
      BY <1>4, <2>3 DEF TypeOK
    <3>5. locks[at][c] \in Nat
      BY <1>2
    <3>6. Coming(id)' = Coming(id) - locks[at][c]
      BY <2>2, <3>1, <3>2, <3>3, <3>5
    <3>7. balance'[id] + Coming(id)' = balance[id] + Coming(id)
      BY <2>2, <3>4, <3>5, <3>6
    <3> QED
      BY <2>1, <3>7 DEF Worth
  <2>4. CASE id # at
    <3>1. locks'[id] = locks[id] /\ balance'[id] = balance[id]
      BY <1>4, <1>5, <2>4 DEF TypeOK
    <3> QED
      BY <2>1, <3>1 DEF Worth, Coming
  <2> QED
    BY <2>3, <2>4
<1>7. ASSUME NEW k \in Chains, NEW id \in reservoir'[k]
      PROVE  remaining'[id] - remaining[id] <= Worth(id)' - Worth(id)
  <2>1. id \in Calls /\ remaining'[id] = remaining[id]
    BY <1>1 DEF TypeOK
  <2>2. Worth(id) \in Int /\ remaining[id] \in Int
    BY <2>1, WorthTyped
  <2> QED
    BY <1>6, <2>1, <2>2
<1>8. Counted'
  <2>1. Due(c)' => Due(c) /\ local'[c].using = local[c].using /\ local'[c].asked = local[c].asked
    BY <1>1 DEF Due
  <2> QED
    BY <1>1, <1>7, <2>1, StillCounted
<1>9. Fresh'
  <2>1. \A d, id \in Calls : locks[id][d] = 0 => locks'[id][d] = 0
    BY <1>2, <1>5
  <2> QED
    BY <1>1, <2>1 DEF Fresh, Active
<1> QED
  BY <1>8, <1>9

LEMMA StepCovered ==
    ASSUME TypeOK, TypeOK', Nested, CoveredInv, NEW c \in Calls, Step(c), abandoned = {}
    PROVE  Fresh' /\ Counted'
<1> RailsOrdered /\ Housed /\ Fresh /\ Counted
  BY DEF Nested, CoveredInv
<1>0. \A d \in Calls : d # c => pc'[d] = pc[d] /\ local'[d] = local[d]
  BY OthersStay
<1>1. CASE Start(c)
  BY <1>1, StartCovered
<1>2. CASE Mint(c)
  <2>1. pc[c] = "mint" /\ UNCHANGED <<lives, remaining, balance, locks, reservoir>> /\ \E how \in Ended : Leave(c, how)
    BY <1>2 DEF Mint, ledger, Ended
  <2> QED
    BY <1>0, <2>1, GoesOnCovered DEF Active, Ended
<1>3. CASE FundReservoir(c)
  BY <1>3, FundCovered
<1>4. CASE CreateRail(c) \/ HeatBTC(c) \/ HeatDest(c) \/ Credit(c) \/ CoolBTC(c)
  <2>1. UNCHANGED <<lives, remaining, balance, locks>> /\ Active(c) /\ pc[c] # "sent"
    BY <1>4 DEF CreateRail, HeatBTC, HeatDest, Credit, CoolBTC, ledger, Active, Ended
  <2>2. CASE FillFails(c)
    <3>1. \A k \in Chains : reservoir'[k] \subseteq reservoir[k]
      BY <2>2, ForgottenShrinks DEF FillFails
    <3> QED
      BY <1>0, <2>1, <2>2, <3>1, GoesOnCovered DEF FillFails, Ended
  <2>3. CASE ~FillFails(c)
    <3>1. UNCHANGED reservoir
      BY <1>4, <2>3 DEF CreateRail, HeatBTC, HeatDest, Credit, CoolBTC
    <3>2. \E l \in {"heatBTC", "heatDest", "lock", "coolBTC", "coolDest"} :
             /\ Goto(c, l) /\ (l \in Early => pc[c] \in Early)
             /\ (l \in {"credit", "coolBTC", "coolDest"} => pc[c] \in {"credit", "coolBTC", "coolDest"})
      BY <1>4, <2>3 DEF CreateRail, HeatBTC, HeatDest, Credit, CoolBTC, Early
    <3>3. \/ local' = local
          \/ local' = [local EXCEPT ![c].miner = rail] \/ local' = [local EXCEPT ![c].inner = rail]
          \/ local' = [local EXCEPT ![c].failed = TRUE]
          \/ \E off \in BOOLEAN : local' = [local EXCEPT ![c].restoreErr = ~off]
      BY <1>4, <2>3 DEF CreateRail, HeatBTC, HeatDest, Credit, CoolBTC
    <3>4. /\ local'[c].dest = local[c].dest /\ local'[c].using = local[c].using
          /\ local'[c].asked = local[c].asked /\ (local[c].failed => local'[c].failed)
      BY <3>3, SMTT(20) DEF TypeOK, Locals
    <3> QED
      BY <1>0, <2>1, <3>1, <3>2, <3>4, GoesOnCovered DEF Labels, Ended
  <2> QED
    BY <2>2, <2>3
<1>5. CASE Lock(c)
  BY <1>5, LockCovered
<1>6. CASE CoolDest(c)
  BY <1>6, CoolDestCovered
<1>7. CASE Send(c)
  BY <1>7, SendCovered
<1>8. CASE Sent(c)
  BY <1>8, SentCovered
<1> QED
  BY <1>1, <1>2, <1>3, <1>4, <1>5, <1>6, <1>7, <1>8 DEF Step

LEMMA InitCovered == Init => CoveredInv
<1> SUFFICES ASSUME Init PROVE Fresh /\ Counted
  BY DEF CoveredInv
<1>1. Fresh
  <2>1. \A c \in Calls : lives[c] = {} /\ remaining[c] = 0 /\ \A id \in Calls : locks[id][c] = 0
    BY DEF Init
  <2>2. \A c \in Calls : ~Active(c)
    BY DEF Init, Active
  <2> QED
    BY <2>1, <2>2 DEF Fresh
<1>2. \A k \in Chains : reservoir[k] = {}
  BY DEF Init
<1> QED
  BY <1>1, <1>2 DEF Counted

(* Unless a call was given up on, what the accounting believes a reservoir *)
(* in use holds is on the ledger, on its way there or about to be charged: *)
(* over any number of refills and sends, whatever fees they paid, whichever *)
(* failed and whichever lock answered whichever wait (fillGasReservoir,    *)
(* sendFromGasReservoir, RESERVOIR_FEE_HEADROOM).                          *)
THEOREM AccountingIsCovered == Spec => []BelievedIsCovered
<1>1. Init => CoveredInv
  BY InitCovered
<1>2. TypeOK /\ TypeOK' /\ Nested /\ CoveredInv /\ [Next]_vars => CoveredInv'
  <2> SUFFICES ASSUME TypeOK, TypeOK', Nested, CoveredInv, [Next]_vars, abandoned' = {} PROVE Fresh' /\ Counted'
    BY DEF CoveredInv
  <2>1. abandoned = {} /\ Fresh /\ Counted
    BY AbandonedStays DEF CoveredInv
  <2>2. CASE \E c \in Calls : Step(c)
    BY <2>1, <2>2, StepCovered
  <2>3. CASE \E c, id \in Calls : CreditLands(c, id)
    BY <2>1, <2>3, CreditCovered
  <2>4. CASE UNCHANGED <<pc, local, reservoir, remaining, ledger>>
    <3>1. \A id : Worth(id)' = Worth(id)
      BY <2>4 DEF Worth, Coming, Leaving, ledger
    <3>2. Counted'
      BY <2>1, <2>4, <3>1 DEF Counted, Due
    <3>3. Fresh'
      BY <2>1, <2>4 DEF Fresh, Active, ledger
    <3> QED
      BY <3>2, <3>3
  <2> QED
    BY <2>2, <2>3, <2>4 DEF Next, Abandon, Finished, vars
<1>3. CoveredInv => BelievedIsCovered
  BY DEF CoveredInv, Counted, BelievedIsCovered, Worth
<1> QED
  BY <1>1, <1>2, <1>3, TypeCorrect, NestedAlways, PTL DEF Spec

=============================================================================
