----------------------- MODULE StakeTeardown_proofs -----------------------
(***************************************************************************)
(* Proofs about StakeTeardown: the types for every run, and, until the     *)
(* runner abandons a test, that what a helper booked is owed until it is   *)
(* swept, that whatever survives the sweep is named in its result and that *)
(* an entry costs it two transactions at most.                             *)
(***************************************************************************)
EXTENDS StakeTeardown, FiniteSetTheorems, TLAPS

LEMMA NoOpType == NoOp \in OpRecord
<1>1. NoEntry \in Entries  BY StakeTeardownAssumption DEF NoEntry
<1>2. QED  BY <1>1 DEF NoOp, OpRecord, Acts

LEMMA BroadcastType ==
    ASSUME TypeOK, NEW act \in Acts, NEW e \in Entries, Broadcast(act, e)
    PROVE  /\ op' \in [OpIds -> OpRecord] /\ nops' \in 0 .. MaxOps /\ nops' = nops + 1
           /\ 0 .. nops \subseteq 0 .. nops' /\ nops + 1 \in 0 .. nops'
<1>1. nops + 1 \in OpIds /\ nops' = nops + 1
  BY StakeTeardownAssumption DEF TypeOK, RunType, Broadcast, OpIds
<1>2. [act |-> act, e |-> e, st |-> "waiting", tx |-> "pending", at |-> node] \in OpRecord
  BY DEF TypeOK, VenueType, OpRecord
<1>3. op' \in [OpIds -> OpRecord]
  BY <1>1, <1>2 DEF TypeOK, RunType, Broadcast
<1>4. QED  BY <1>1, <1>3, StakeTeardownAssumption DEF TypeOK, RunType, Broadcast, OpIds

LEMMA InitType == Init => TypeOK
<1> SUFFICES ASSUME Init PROVE TypeOK  OBVIOUS
<1>1. RunType
  BY NoOpType, StakeTeardownAssumption DEF Init, RunType
<1>2. VenueType
  BY StakeTeardownAssumption DEF Init, VenueType
<1>3. SweepType
  <2>1. pc \in Phases  BY DEF Init, Phases
  <2>2. sweepOp \in 0 .. nops  BY DEF Init
  <2>3. QED  BY <2>1, <2>2 DEF Init, SweepType
<1>4. EndType
  BY DEF Init, EndType
<1>5. QED  BY <1>1, <1>2, <1>3, <1>4 DEF TypeOK

LEMMA TestSendsType ==
    ASSUME TypeOK, NEW act \in {"stake", "unstake", "partial"}, NEW e \in Entries, TestSends(act, e)
    PROVE  TypeOK'
<1>1. /\ op' \in [OpIds -> OpRecord] /\ nops' \in 0 .. MaxOps /\ nops' = nops + 1
      /\ 0 .. nops \subseteq 0 .. nops' /\ nops + 1 \in 0 .. nops'
  BY BroadcastType DEF TestSends, Acts
<1>2. RunType'
  BY <1>1 DEF TestSends, TypeOK, RunType
<1>3. VenueType'
  BY <1>1 DEF TestSends, TypeOK, VenueType, venueVars
<1>4. SweepType' /\ EndType'
  BY <1>1 DEF TestSends, TypeOK, SweepType, EndType, sweepVars, endVars
<1>5. QED  BY <1>2, <1>3, <1>4 DEF TypeOK

LEMMA TestEndsType ==
    ASSUME TypeOK, NEW i \in OpIds, TestSees(i) \/ TestGivesUp(i)
    PROVE  TypeOK'
<1>1. op' \in [OpIds -> OpRecord]
  BY DEF TestSees, TestGivesUp, TypeOK, RunType, OpRecord
<1>2. ledger' \in [Entries -> {"absent", "owed", "released"}]
  <2>1. op[i].e \in Entries  BY DEF TypeOK, RunType, OpRecord
  <2>2. QED  BY <2>1 DEF TestSees, TestGivesUp, registerStake, noteUnstake, TypeOK, RunType
<1>3. RunType'
  BY <1>1, <1>2 DEF TestSees, TestGivesUp, TypeOK, RunType
<1>4. QED
  BY <1>3 DEF TestSees, TestGivesUp, TypeOK, VenueType, SweepType, EndType,
              venueVars, sweepVars, endVars

LEMMA MochaTimesOutType == ASSUME TypeOK, MochaTimesOut PROVE TypeOK'
BY DEF MochaTimesOut, TypeOK, RunType, VenueType, SweepType, EndType,
       venueVars, sweepVars, endVars

LEMMA BlocksType ==
    ASSUME TypeOK, MineBlock \/ IndexBlock \/ Stall \/ Unstall
    PROVE  TypeOK'
<1>1. VenueType'
  BY DEF MineBlock, IndexBlock, Stall, Unstall, TypeOK, RunType, VenueType, runVars
<1>2. QED
  BY <1>1 DEF MineBlock, IndexBlock, Stall, Unstall, TypeOK, RunType, SweepType, EndType,
              runVars, sweepVars, endVars

LEMMA IndexTxType ==
    ASSUME TypeOK, NEW i \in OpIds, IndexTx(i)
    PROVE  TypeOK'
<1>1. idx \in Nat /\ i \in 0 .. nops /\ op[i].e \in Entries
  BY DEF IndexTx, OpIds, TypeOK, RunType, VenueType, OpRecord
<1>2. op' \in [OpIds -> OpRecord]
  BY <1>1 DEF IndexTx, TypeOK, RunType, OpRecord
<1>3. live' \in [Entries -> SUBSET (0 .. nops)]
  BY <1>1 DEF IndexTx, TypeOK, VenueType
<1>4. fading' \in [Entries -> SUBSET ((0 .. nops) \X Nat)]
  <2>1. idx + Delay \in Nat
    BY <1>1, StakeTeardownAssumption
  <2>2. live[op[i].e] \X {idx + Delay} \subseteq (0 .. nops) \X Nat
    BY <1>1, <2>1 DEF TypeOK, VenueType
  <2>3. fading[op[i].e] \cup (live[op[i].e] \X {idx + Delay}) \in SUBSET ((0 .. nops) \X Nat)
    BY <1>1, <2>2 DEF TypeOK, VenueType
  <2>4. QED  BY <1>1, <2>3 DEF IndexTx, TypeOK, VenueType
<1>5. RunType' /\ VenueType'
  BY <1>2, <1>3, <1>4 DEF IndexTx, TypeOK, RunType, VenueType
<1>6. QED
  BY <1>5 DEF IndexTx, TypeOK, SweepType, EndType, sweepVars, endVars

LEMMA StartTeardownType == ASSUME TypeOK, StartTeardown PROVE TypeOK'
<1>1. SweepType'
  BY DEF StartTeardown, outstanding, TypeOK, SweepType, Phases, Sweeping, runVars
<1>2. QED
  BY <1>1 DEF StartTeardown, TypeOK, RunType, VenueType, EndType, runVars, venueVars

LEMMA SweepSendsType ==
    ASSUME TypeOK, NEW e \in Entries, SweepSends(e)
    PROVE  TypeOK'
<1>1. CASE Broadcast("release", e) /\ sweepOp' = nops + 1 /\ pc' = "unstaking"
  <2>1. /\ op' \in [OpIds -> OpRecord] /\ nops' \in 0 .. MaxOps /\ nops' = nops + 1
        /\ 0 .. nops \subseteq 0 .. nops' /\ nops + 1 \in 0 .. nops'
    BY <1>1, BroadcastType DEF Acts
  <2>2. RunType' /\ VenueType'
    BY <2>1 DEF SweepSends, TypeOK, RunType, VenueType, venueVars
  <2>3. SweepType' /\ EndType'
    BY <1>1, <2>1 DEF SweepSends, TypeOK, SweepType, EndType, endVars, Phases, Sweeping
  <2>4. QED  BY <2>2, <2>3 DEF TypeOK
<1>2. CASE pc' = "probing" /\ UNCHANGED <<op, nops, sweepOp>>
  <2>1. RunType' /\ VenueType'
    BY <1>2 DEF SweepSends, TypeOK, RunType, VenueType, venueVars
  <2>2. SweepType' /\ EndType'
    BY <1>2 DEF SweepSends, TypeOK, SweepType, EndType, endVars, Phases, Sweeping
  <2>3. QED  BY <2>1, <2>2 DEF TypeOK
<1>3. QED  BY <1>1, <1>2 DEF SweepSends

LEMMA RetrySendsType == ASSUME TypeOK, RetrySends PROVE TypeOK'
<1>1. PICK e \in cur : Broadcast("release", e)
  BY DEF RetrySends
<1>2. e \in Entries
  BY <1>1 DEF TypeOK, SweepType
<1>3. /\ op' \in [OpIds -> OpRecord] /\ nops' \in 0 .. MaxOps /\ nops' = nops + 1
      /\ 0 .. nops \subseteq 0 .. nops' /\ nops + 1 \in 0 .. nops'
  BY <1>1, <1>2, BroadcastType DEF Acts
<1>4. RunType' /\ VenueType'
  BY <1>3 DEF RetrySends, TypeOK, RunType, VenueType, venueVars
<1>5. SweepType' /\ EndType'
  BY <1>3 DEF RetrySends, TypeOK, SweepType, EndType, endVars, Phases, Sweeping
<1>6. QED  BY <1>4, <1>5 DEF TypeOK

LEMMA SweepAwaitsType ==
    ASSUME TypeOK, SweepAccepted \/ SweepTimesOut
    PROVE  TypeOK'
<1>1. op' \in [OpIds -> OpRecord]
  BY DEF SweepAccepted, SweepTimesOut, TypeOK, RunType, OpRecord
<1>2. RunType'
  BY <1>1 DEF SweepAccepted, SweepTimesOut, TypeOK, RunType
<1>3. SweepType'
  BY DEF SweepAccepted, SweepTimesOut, NextEntry, TypeOK, RunType, SweepType, Phases, Sweeping
<1>4. VenueType' /\ EndType'
  BY DEF SweepAccepted, SweepTimesOut, TypeOK, VenueType, EndType, venueVars, endVars
<1>5. QED  BY <1>2, <1>3, <1>4 DEF TypeOK

LEMMA SweepStepsType ==
    ASSUME TypeOK, NEW e \in Entries,
           \/ BudgetRunsOut \/ SkipEntry(e) \/ ProbeSeesWedge \/ NudgeMines
           \/ ReleaseFails \/ SweepEnds \/ Settle
    PROVE  TypeOK'
<1>1. RunType' /\ EndType'
  BY DEF BudgetRunsOut, SkipEntry, ProbeSeesWedge, NudgeMines, ReleaseFails, SweepEnds,
         Settle, TypeOK, RunType, EndType, runVars, endVars
<1>2. VenueType'
  BY StakeTeardownAssumption
     DEF BudgetRunsOut, SkipEntry, ProbeSeesWedge, NudgeMines, ReleaseFails, SweepEnds,
         Settle, TypeOK, VenueType, runVars, venueVars
<1>3. SweepType'
  <2>1. CASE BudgetRunsOut \/ SkipEntry(e)
    BY <2>1 DEF BudgetRunsOut, SkipEntry, TypeOK, SweepType, runVars
  <2>2. CASE ProbeSeesWedge \/ NudgeMines
    BY <2>2 DEF ProbeSeesWedge, NudgeMines, TypeOK, SweepType, runVars, Phases, Sweeping
  <2>3. CASE ReleaseFails
    BY <2>3 DEF ReleaseFails, NextEntry, TypeOK, RunType, SweepType, runVars, Phases, Sweeping
  <2>4. CASE SweepEnds \/ Settle
    BY <2>4 DEF SweepEnds, Settle, TypeOK, SweepType, runVars, Phases, Sweeping
  <2>5. QED  BY <2>1, <2>2, <2>3, <2>4
<1>4. QED  BY <1>1, <1>2, <1>3 DEF TypeOK

LEMMA ReadSetType == ASSUME TypeOK, ReadSet PROVE TypeOK'
<1>1. EndType'
  BY DEF ReadSet, CapabilitySet, TypeOK, EndType
<1>2. SweepType'
  BY DEF ReadSet, TypeOK, SweepType, runVars, Phases, Sweeping
<1>3. RunType' /\ VenueType'
  BY DEF ReadSet, TypeOK, RunType, VenueType, runVars, venueVars
<1>4. QED  BY <1>1, <1>2, <1>3 DEF TypeOK

LEMMA StutterType == ASSUME TypeOK, UNCHANGED vars PROVE TypeOK'
BY DEF vars, runVars, venueVars, sweepVars, endVars, TypeOK, RunType, VenueType, SweepType, EndType

LEMMA NextType == TypeOK /\ [Next]_vars => TypeOK'
<1> SUFFICES ASSUME TypeOK, [Next]_vars PROVE TypeOK'  OBVIOUS
<1>1. CASE Tests
  BY <1>1, TestSendsType, TestEndsType, MochaTimesOutType DEF Tests
<1>2. CASE Venue
  BY <1>2, BlocksType, IndexTxType DEF Venue
<1>3. CASE StartTeardown
  BY <1>3, StartTeardownType
<1>4. CASE Sweep
  <2>1. \E e \in Entries : TRUE
    BY StakeTeardownAssumption
  <2>2. QED
    BY <1>4, <2>1, SweepAwaitsType, SweepStepsType, SweepSendsType, RetrySendsType, ReadSetType
       DEF Sweep
<1>5. CASE UNCHANGED vars
  BY <1>5, StutterType
<1>6. QED  BY <1>1, <1>2, <1>3, <1>4, <1>5 DEF Next, Finished

(* Every reachable state is well typed, for every set of keys and every bound. *)
THEOREM TypeCorrect == Spec => []TypeOK
<1>1. QED  BY InitType, NextType, PTL DEF Spec

-----------------------------------------------------------------------------
(* The inductive invariant: Parts, until the runner abandons a test.       *)

LEMMA OpTyped ==
    ASSUME TypeOK, NEW i \in 1 .. nops
    PROVE  /\ i \in OpIds /\ i \in Nat /\ i # 0 /\ op[i] \in OpRecord
           /\ op[i].e \in Entries /\ nops \in Nat
<1>1. i \in OpIds /\ i # 0 /\ i \in Nat /\ nops \in Nat
  BY StakeTeardownAssumption DEF TypeOK, RunType, OpIds
<1>2. QED  BY <1>1 DEF TypeOK, RunType, OpRecord

LEMMA InitParts == Init => Parts
<1> SUFFICES ASSUME Init PROVE Parts  OBVIOUS
<1>1. \A e \in Entries : \A i \in live[e] : i = 0
  BY DEF Init
<1>2. 1 .. nops = {}
  BY DEF Init
<1>3. QED
  BY <1>1, <1>2 DEF Init, Parts, LiveAreStakes, BookedAreValid, OneAwaited,
     AwaitedUnstakeCleared, SweepState, OwedIsTracked, BookedStakeIsOwed

\* What a new call can touch: it is not in force, not booked, not yet valid.
LEMMA BroadcastFacts ==
    ASSUME TypeOK, NEW act \in Acts, NEW e \in Entries, Broadcast(act, e)
    PROVE  /\ nops \in Nat /\ nops' = nops + 1 /\ nops + 1 \in OpIds
           /\ \A i \in OpIds : i # nops + 1 => op'[i] = op[i]
           /\ op'[nops + 1].st = "waiting" /\ op'[nops + 1].tx = "pending"
           /\ op'[nops + 1].act = act /\ op'[nops + 1].e = e
           /\ \A f \in Entries : \A i \in live[f] : i # nops + 1 /\ (i # 0 => i \in 1 .. nops)
           /\ 1 .. nops \subseteq OpIds /\ 1 .. nops' = 1 .. nops \cup {nops + 1}
<1>1. nops \in Nat /\ nops' = nops + 1 /\ nops + 1 \in OpIds
  BY StakeTeardownAssumption DEF TypeOK, RunType, Broadcast, OpIds
<1>2. /\ \A i \in OpIds : i # nops + 1 => op'[i] = op[i]
      /\ op'[nops + 1] = [act |-> act, e |-> e, st |-> "waiting", tx |-> "pending", at |-> node]
  BY <1>1 DEF TypeOK, RunType, Broadcast
<1>3. \A f \in Entries : \A i \in live[f] : i \in 0 .. nops
  BY DEF TypeOK, VenueType
<1>4. 1 .. nops \subseteq OpIds /\ 1 .. nops' = 1 .. nops \cup {nops + 1}
  BY <1>1, StakeTeardownAssumption DEF TypeOK, RunType, OpIds
<1>5. QED  BY <1>1, <1>2, <1>3, <1>4

LEMMA TestSendsParts ==
    ASSUME TypeOK, Parts, NEW act \in {"stake", "unstake", "partial"}, NEW e \in Entries, TestSends(act, e)
    PROVE  Parts'
<1>1. TypeOK /\ Broadcast(act, e) /\ pc = "tests" /\ fg = 0 /\ fg' = nops + 1
      /\ UNCHANGED <<ledger, live, pc, todo, cur, sweepOp, failed, skipped>>
  BY DEF TestSends, venueVars, sweepVars
<1>2. /\ nops \in Nat /\ nops' = nops + 1 /\ nops + 1 \in OpIds
      /\ \A i \in OpIds : i # nops + 1 => op'[i] = op[i]
      /\ op'[nops + 1].st = "waiting" /\ op'[nops + 1].tx = "pending"
      /\ op'[nops + 1].act = act /\ op'[nops + 1].e = e
      /\ \A f \in Entries : \A i \in live[f] : i # nops + 1 /\ (i # 0 => i \in 1 .. nops)
      /\ 1 .. nops \subseteq OpIds /\ 1 .. nops' = 1 .. nops \cup {nops + 1}
  BY <1>1, BroadcastFacts DEF Acts
<1>3. sweepOp = 0
  BY <1>1 DEF Parts, OneAwaited
<1>4. LiveAreStakes' /\ BookedStakeIsOwed'
  BY <1>1, <1>2 DEF Parts, LiveAreStakes, BookedStakeIsOwed
<1>5. BookedAreValid'
  BY <1>1, <1>2 DEF Parts, BookedAreValid, Acts
<1>6. OneAwaited'
  BY <1>1, <1>2, <1>3 DEF Parts, OneAwaited
<1>7. AwaitedUnstakeCleared'
  <2>1. \A i \in 1 .. nops : i \in OpIds /\ op[i].e \in Entries
    BY <1>1, OpTyped
  <2>2. QED  BY <1>1, <1>2, <2>1 DEF Parts, AwaitedUnstakeCleared
<1>8. SweepState' /\ OwedIsTracked'
  BY <1>1 DEF Parts, SweepState, OwedIsTracked
<1>9. QED  BY <1>4, <1>5, <1>6, <1>7, <1>8 DEF Parts

\* The call the running test awaits is the only one TestSees and TestGivesUp can move.
LEMMA AwaitedIsForeground ==
    ASSUME TypeOK, Parts, NEW i \in OpIds, TestSees(i) \/ TestGivesUp(i)
    PROVE  /\ i \in 1 .. nops /\ i = fg /\ fg' = 0 /\ pc = "tests" /\ sweepOp = 0
           /\ op[i].e \in Entries
           /\ \A j \in 1 .. nops : j # i => op[j].st # "waiting"
<1>1. i \in 1 .. nops /\ op[i].st = "waiting" /\ i # sweepOp /\ i # 0
  BY StakeTeardownAssumption DEF TestSees, TestGivesUp, TypeOK, RunType, OpIds
<1>2. i = fg /\ pc = "tests" /\ sweepOp = 0
  BY <1>1 DEF Parts, OneAwaited
<1>3. fg' = 0 /\ \A j \in 1 .. nops : j # i => op[j].st # "waiting"
  <2>1. \A j \in 1 .. nops : j \in OpIds /\ j # 0
    BY OpTyped
  <2>2. QED  BY <1>1, <1>2, <2>1 DEF TestSees, TestGivesUp, Parts, OneAwaited
<1>4. QED  BY <1>1, <1>2, <1>3, OpTyped

LEMMA TestSeesParts ==
    ASSUME TypeOK, Parts, NEW i \in OpIds, TestSees(i)
    PROVE  Parts'
<1>1. /\ i \in 1 .. nops /\ i = fg /\ fg' = 0 /\ pc = "tests" /\ sweepOp = 0
      /\ op[i].e \in Entries /\ \A j \in 1 .. nops : j # i => op[j].st # "waiting"
  BY AwaitedIsForeground
<1>2. /\ op[i].st = "waiting" /\ op[i].tx = "valid"
      /\ \A j \in OpIds : j # i => op'[j] = op[j]
      /\ op'[i].st = "booked" /\ op'[i].tx = op[i].tx /\ op'[i].act = op[i].act
      /\ op'[i].e = op[i].e
  BY DEF TestSees, TypeOK, RunType, OpRecord
<1>3. UNCHANGED <<nops, live, pc, todo, cur, sweepOp, failed, skipped>>
  BY DEF TestSees, venueVars, sweepVars
<1>4. \A j \in 1 .. nops : j \in OpIds /\ j # 0
  BY OpTyped
<1>5. \A e \in Entries : \A j \in live[e] : j # 0 => j \in 1 .. nops
  BY <1>4, StakeTeardownAssumption DEF TypeOK, RunType, VenueType
<1>6. LiveAreStakes'
  BY <1>2, <1>3, <1>4, <1>5 DEF Parts, LiveAreStakes
<1>7. BookedAreValid' /\ OneAwaited' /\ AwaitedUnstakeCleared'
  BY <1>1, <1>2, <1>3, <1>4 DEF Parts, BookedAreValid, OneAwaited, AwaitedUnstakeCleared
<1>8. SweepState' /\ OwedIsTracked'
  BY <1>1, <1>3 DEF Parts, SweepState, OwedIsTracked
<1>9. BookedStakeIsOwed'
  <2>1. SUFFICES ASSUME NEW e \in Entries, NEW j \in live[e], j # 0, op'[j].st = "booked"
                 PROVE  ledger'[e] = "owed"
    BY <1>3 DEF BookedStakeIsOwed
  <2>2. op[j].act = "stake" /\ op[j].e = e /\ j \in 1 .. nops
    BY <2>1, <1>5 DEF Parts, LiveAreStakes
  <2>3. CASE op[i].act = "stake"
    <3>1. ledger' = [ledger EXCEPT ![op[i].e] = "owed"]
      BY <2>3 DEF TestSees, registerStake
    <3>2. j = i \/ (j # i /\ ledger[e] = "owed")
      BY <1>2, <1>4, <2>1, <2>2 DEF Parts, BookedStakeIsOwed
    <3>3. QED  BY <3>1, <3>2, <2>2, <1>1 DEF TypeOK, RunType
  <2>4. CASE op[i].act # "stake"
    <3>1. j # i /\ op[j].st = "booked" /\ ledger[e] = "owed"
      BY <1>2, <1>4, <2>1, <2>2, <2>4 DEF Parts, BookedStakeIsOwed
    <3>2. CASE op[i].act = "partial"
      BY <3>1, <3>2, <2>4 DEF TestSees, noteUnstake
    <3>3. CASE op[i].act \in {"unstake", "release"}
      <4>1. e # op[i].e
        BY <1>1, <1>2, <3>1, <3>3, <2>1 DEF Parts, AwaitedUnstakeCleared
      <4>2. QED
        BY <4>1, <3>1, <2>4, <1>1 DEF TestSees, noteUnstake, TypeOK, RunType
    <3>4. op[i].act \in Acts
      BY <1>1 DEF Parts, BookedAreValid
    <3>5. QED  BY <3>2, <3>3, <3>4, <2>4 DEF Acts
  <2>5. QED  BY <2>3, <2>4
<1>10. QED  BY <1>6, <1>7, <1>8, <1>9 DEF Parts

LEMMA TestGivesUpParts ==
    ASSUME TypeOK, Parts, NEW i \in OpIds, TestGivesUp(i)
    PROVE  Parts'
<1>1. /\ i \in 1 .. nops /\ i = fg /\ fg' = 0 /\ pc = "tests" /\ sweepOp = 0
      /\ op[i].e \in Entries /\ \A j \in 1 .. nops : j # i => op[j].st # "waiting"
  BY AwaitedIsForeground
<1>2. /\ \A j \in OpIds : j # i => op'[j] = op[j]
      /\ op'[i].st = "gaveup" /\ op'[i].tx = op[i].tx /\ op'[i].act = op[i].act
      /\ op'[i].e = op[i].e
  BY DEF TestGivesUp, TypeOK, RunType, OpRecord
<1>3. UNCHANGED <<ledger, nops, live, pc, todo, cur, sweepOp, failed, skipped>>
  BY DEF TestGivesUp, venueVars, sweepVars
<1>4. \A j \in 1 .. nops : j \in OpIds /\ j # 0
  BY OpTyped
<1>5. \A e \in Entries : \A j \in live[e] : j # 0 => j \in 1 .. nops
  BY <1>4, StakeTeardownAssumption DEF TypeOK, RunType, VenueType
<1>6. LiveAreStakes' /\ BookedStakeIsOwed'
  BY <1>2, <1>3, <1>4, <1>5 DEF Parts, LiveAreStakes, BookedStakeIsOwed
<1>7. BookedAreValid' /\ OneAwaited' /\ AwaitedUnstakeCleared'
  BY <1>1, <1>2, <1>3, <1>4 DEF Parts, BookedAreValid, OneAwaited, AwaitedUnstakeCleared
<1>8. SweepState' /\ OwedIsTracked'
  BY <1>1, <1>3 DEF Parts, SweepState, OwedIsTracked
<1>9. QED  BY <1>6, <1>7, <1>8 DEF Parts

LEMMA BlocksParts ==
    ASSUME TypeOK, Parts, MineBlock \/ IndexBlock \/ Stall \/ Unstall
    PROVE  Parts'
<1>1. UNCHANGED <<ledger, op, nops, fg, live, pc, todo, cur, sweepOp, failed, skipped>>
  BY DEF MineBlock, IndexBlock, Stall, Unstall, runVars, sweepVars
<1>2. QED
  BY <1>1 DEF Parts, LiveAreStakes, BookedAreValid, OneAwaited,
     AwaitedUnstakeCleared, SweepState, OwedIsTracked, BookedStakeIsOwed

LEMMA IndexTxParts ==
    ASSUME TypeOK, Parts, NEW i \in OpIds, IndexTx(i)
    PROVE  Parts'
<1> DEFINE e == op[i].e
<1>1. i \in 1 .. nops /\ op[i].tx = "pending" /\ e \in Entries /\ op[i].act \in Acts
  <2>1. i \in 1 .. nops /\ op[i].tx = "pending"
    BY StakeTeardownAssumption DEF IndexTx, TypeOK, RunType, OpIds
  <2>2. QED  BY <2>1, OpTyped DEF Parts, BookedAreValid
<1>2. /\ \A j \in OpIds : j # i => op'[j] = op[j]
      /\ op'[i].st = op[i].st /\ op'[i].act = op[i].act /\ op'[i].e = op[i].e
      /\ op'[i].tx \in {"valid", "rejected"}
      /\ op[i].act = "stake" => op'[i].tx = "valid"
  BY DEF IndexTx, TypeOK, RunType, OpRecord
<1>3. UNCHANGED <<ledger, nops, fg, pc, todo, cur, sweepOp, failed, skipped>>
  BY DEF IndexTx, sweepVars
<1>4. \A j \in 1 .. nops : j \in OpIds /\ j # 0 /\ op[j].e \in Entries
  BY OpTyped
<1>5. \A f \in Entries : \A j \in live[f] : j # 0 => j \in 1 .. nops /\ j # i
  <2>1. \A f \in Entries : \A j \in live[f] : j # 0 => j \in 1 .. nops
    BY <1>4, StakeTeardownAssumption DEF TypeOK, RunType, VenueType
  <2>2. QED  BY <2>1, <1>1 DEF Parts, LiveAreStakes
<1>6. op[i].st # "booked"
  BY <1>1 DEF Parts, BookedAreValid
<1>7. /\ \A f \in Entries : f # e => live'[f] = live[f]
      /\ \A j \in live'[e] : j \in live[e] \/ (j = i /\ op[i].act = "stake")
      /\ op[i].act \in {"unstake", "release"} => live'[e] = {}
  BY <1>1 DEF IndexTx, TypeOK, VenueType
<1>8. LiveAreStakes' /\ BookedStakeIsOwed'
  <2>1. SUFFICES ASSUME NEW f \in Entries, NEW j \in live'[f], j # 0
                 PROVE  /\ op'[j].act = "stake" /\ op'[j].e = f /\ op'[j].tx = "valid"
                        /\ op'[j].st = "booked" => ledger[f] = "owed"
    BY <1>3 DEF LiveAreStakes, BookedStakeIsOwed
  <2>2. CASE j \in live[f]
    <3>1. op'[j] = op[j]
      BY <1>2, <1>4, <1>5, <2>1, <2>2
    <3>2. QED
      BY <3>1, <2>1, <2>2 DEF Parts, LiveAreStakes, BookedStakeIsOwed
  <2>3. CASE j \notin live[f]
    <3>1. f = e /\ j = i /\ op[i].act = "stake"
      BY <1>7, <2>1, <2>3
    <3>2. QED  BY <3>1, <1>2, <1>6
  <2>4. QED  BY <2>2, <2>3
<1>9. BookedAreValid' /\ OneAwaited'
  BY <1>2, <1>3, <1>4, <1>6 DEF Parts, BookedAreValid, OneAwaited
<1>10. AwaitedUnstakeCleared'
  <2>1. SUFFICES ASSUME NEW k \in 1 .. nops, op'[k].st = "waiting", op'[k].tx = "valid",
                        op'[k].act \in {"unstake", "release"},
                        NEW j \in live'[op'[k].e], j # 0
                 PROVE  op'[j].st # "booked"
    BY <1>3 DEF AwaitedUnstakeCleared
  <2>2. CASE k = i
    BY <2>1, <2>2, <1>2, <1>7
  <2>3. CASE k # i
    <3>1. op'[k] = op[k] /\ op[k].e \in Entries
      BY <2>3, <1>2, <1>4
    <3>2. CASE j \in live[op[k].e]
      BY <3>1, <3>2, <2>1, <1>2, <1>4, <1>5 DEF Parts, AwaitedUnstakeCleared
    <3>3. CASE j \notin live[op[k].e]
      BY <3>1, <3>3, <2>1, <1>2, <1>6, <1>7
    <3>4. QED  BY <3>2, <3>3
  <2>4. QED  BY <2>2, <2>3
<1>11. SweepState'
  <2>1. sweepOp # 0 => sweepOp \in 1 .. nops
    BY StakeTeardownAssumption DEF TypeOK, RunType, SweepType
  <2>2. sweepOp # 0 => /\ op'[sweepOp].act = op[sweepOp].act
                       /\ op'[sweepOp].st = op[sweepOp].st /\ op'[sweepOp].e = op[sweepOp].e
    BY <2>1, <1>2, <1>4
  <2>3. QED  BY <2>2, <1>3 DEF Parts, SweepState
<1>12. OwedIsTracked'
  BY <1>3 DEF Parts, OwedIsTracked
<1>13. QED  BY <1>8, <1>9, <1>10, <1>11, <1>12 DEF Parts

LEMMA StartTeardownParts == ASSUME TypeOK, Parts, StartTeardown PROVE Parts'
<1>1. UNCHANGED <<ledger, op, nops, fg, live, cur, sweepOp, failed, skipped>> /\ fg = 0 /\ sweepOp = 0
      /\ cur = {} /\ (pc' # "sweep" => todo' = {})
      /\ pc' \in {"sweep", "read", "done"}
  BY DEF StartTeardown, outstanding, runVars, venueVars, Parts, OneAwaited, SweepState
<1>2. LiveAreStakes' /\ BookedAreValid' /\ AwaitedUnstakeCleared' /\ BookedStakeIsOwed' /\ OneAwaited'
  BY <1>1 DEF Parts, LiveAreStakes, BookedAreValid, OneAwaited, AwaitedUnstakeCleared,
     BookedStakeIsOwed
<1>3. SweepState'
  BY <1>1 DEF SweepState
<1>4. OwedIsTracked'
  BY <1>1 DEF StartTeardown, outstanding, OwedIsTracked
<1>5. QED  BY <1>2, <1>3, <1>4 DEF Parts

\* A step of the sweep that sends the release of entry e.
LEMMA ReleaseSentParts ==
    ASSUME TypeOK, Parts, NEW e \in Entries, Broadcast("release", e), pc \in {"sweep", "retry"},
           cur' = {e}, sweepOp' = nops + 1, pc' = "unstaking",
           todo \subseteq todo' \cup cur', cur \subseteq cur',
           UNCHANGED <<ledger, fg, live, failed, skipped>>
    PROVE  Parts'
<1>1. /\ nops \in Nat /\ nops' = nops + 1 /\ nops + 1 \in OpIds
      /\ \A i \in OpIds : i # nops + 1 => op'[i] = op[i]
      /\ op'[nops + 1].st = "waiting" /\ op'[nops + 1].tx = "pending"
      /\ op'[nops + 1].act = "release" /\ op'[nops + 1].e = e
      /\ \A f \in Entries : \A i \in live[f] : i # nops + 1 /\ (i # 0 => i \in 1 .. nops)
      /\ 1 .. nops \subseteq OpIds /\ 1 .. nops' = 1 .. nops \cup {nops + 1}
  BY BroadcastFacts DEF Acts
<1>2. fg = 0 /\ sweepOp = 0
  BY DEF Parts, OneAwaited
<1>3. \A i \in 1 .. nops : op[i].st # "waiting" /\ op[i].e \in Entries /\ i # 0
  BY <1>2, OpTyped DEF Parts, OneAwaited
<1>4. LiveAreStakes' /\ BookedStakeIsOwed'
  BY <1>1 DEF Parts, LiveAreStakes, BookedStakeIsOwed
<1>5. BookedAreValid'
  BY <1>1 DEF Parts, BookedAreValid, Acts
<1>6. OneAwaited'
  BY <1>1, <1>2, <1>3 DEF OneAwaited
<1>7. AwaitedUnstakeCleared'
  BY <1>1, <1>3 DEF AwaitedUnstakeCleared
<1>8. SweepState'
  BY <1>1 DEF SweepState
<1>9. OwedIsTracked'
  BY <1>1 DEF Parts, OwedIsTracked
<1>10. QED  BY <1>4, <1>5, <1>6, <1>7, <1>8, <1>9 DEF Parts

LEMMA SweepSendsParts ==
    ASSUME TypeOK, Parts, NEW e \in Entries, SweepSends(e)
    PROVE  Parts'
<1>1. UNCHANGED <<ledger, fg, live, failed, skipped>> /\ pc = "sweep" /\ cur = {} /\ cur' = {e}
      /\ todo \subseteq todo' \cup cur' /\ fg = 0 /\ sweepOp = 0
  BY DEF SweepSends, venueVars, Parts, SweepState, OneAwaited
<1>2. CASE Broadcast("release", e) /\ sweepOp' = nops + 1 /\ pc' = "unstaking"
  BY <1>1, <1>2, ReleaseSentParts
<1>3. CASE pc' = "probing" /\ UNCHANGED <<op, nops, sweepOp>>
  <2>1. LiveAreStakes' /\ BookedAreValid' /\ AwaitedUnstakeCleared' /\ BookedStakeIsOwed' /\ OneAwaited'
    BY <1>1, <1>3 DEF Parts, LiveAreStakes, BookedAreValid, OneAwaited,
       AwaitedUnstakeCleared, BookedStakeIsOwed
  <2>2. SweepState' /\ OwedIsTracked'
    BY <1>1, <1>3 DEF Parts, SweepState, OwedIsTracked
  <2>3. QED  BY <2>1, <2>2 DEF Parts
<1>4. QED  BY <1>2, <1>3 DEF SweepSends

LEMMA RetrySendsParts == ASSUME TypeOK, Parts, RetrySends PROVE Parts'
<1>1. PICK e \in Entries : cur = {e}
  BY DEF RetrySends, Parts, SweepState
<1>2. Broadcast("release", e) /\ pc = "retry" /\ cur' = {e} /\ sweepOp' = nops + 1
      /\ pc' = "unstaking" /\ UNCHANGED <<ledger, fg, live, failed, skipped, todo>>
  BY <1>1 DEF RetrySends, venueVars
<1>3. QED  BY <1>1, <1>2, ReleaseSentParts

\* The sweep's own wait ends: by the row, or by its timeout.
LEMMA SweepAwaitsParts ==
    ASSUME TypeOK, Parts, SweepAccepted \/ SweepTimesOut
    PROVE  Parts'
<1> DEFINE s == sweepOp
<1>1. /\ s \in 1 .. nops /\ s \in OpIds /\ pc = "unstaking" /\ fg = 0
      /\ op[s].act = "release" /\ op[s].st = "waiting" /\ cur = {op[s].e} /\ op[s].e \in Entries
  <2>1. /\ pc = "unstaking" /\ s # 0 /\ fg = 0
        /\ op[s].act = "release" /\ op[s].st = "waiting" /\ cur = {op[s].e}
    BY DEF SweepAccepted, SweepTimesOut, Parts, SweepState, OneAwaited
  <2>2. s \in 1 .. nops
    BY <2>1, StakeTeardownAssumption DEF TypeOK, RunType, SweepType
  <2>3. QED  BY <2>1, <2>2, OpTyped
<1>2. /\ \A j \in OpIds : j # s => op'[j] = op[j]
      /\ op'[s].st \in {"booked", "gaveup"} /\ op'[s].tx = op[s].tx
      /\ op'[s].act = "release" /\ op'[s].e = op[s].e
      /\ op'[s].st = "booked" => op[s].tx = "valid" /\ SweepAccepted
  BY <1>1 DEF SweepAccepted, SweepTimesOut, TypeOK, RunType, OpRecord
<1>3. UNCHANGED <<nops, fg, live, todo, skipped>> /\ sweepOp' = 0
      /\ pc' \in {"sweep", "probing"}
  BY DEF SweepAccepted, SweepTimesOut, NextEntry, venueVars
<1>4. \A j \in 1 .. nops : j \in OpIds /\ j # 0 /\ (j # s => op[j].st # "waiting")
  BY <1>1, OpTyped DEF Parts, OneAwaited
<1>5. \A e \in Entries : \A j \in live[e] : j # 0 => j \in 1 .. nops /\ j # s /\ op'[j] = op[j]
  <2>1. \A e \in Entries : \A j \in live[e] : j # 0 => j \in 1 .. nops
    BY <1>4, StakeTeardownAssumption DEF TypeOK, RunType, VenueType
  <2>2. QED  BY <2>1, <1>1, <1>2, <1>4 DEF Parts, LiveAreStakes
<1>6. LiveAreStakes'
  BY <1>3, <1>5 DEF Parts, LiveAreStakes
<1>7. BookedAreValid' /\ OneAwaited' /\ AwaitedUnstakeCleared'
  BY <1>1, <1>2, <1>3, <1>4 DEF Parts, BookedAreValid, OneAwaited, AwaitedUnstakeCleared, Acts
<1>8. CASE SweepAccepted
  <2>1. op[s].tx = "valid" /\ ledger' = [e \in Entries |-> IF e \in cur THEN "released" ELSE ledger[e]]
        /\ pc' = "sweep" /\ cur' = {} /\ UNCHANGED failed
    BY <1>8 DEF SweepAccepted, NextEntry
  <2>2. BookedStakeIsOwed'
    BY <2>1, <1>1, <1>3, <1>5 DEF Parts, BookedStakeIsOwed, AwaitedUnstakeCleared
  <2>3. SweepState' /\ OwedIsTracked'
    BY <2>1, <1>1, <1>3 DEF Parts, SweepState, OwedIsTracked
  <2>4. QED  BY <1>6, <1>7, <2>2, <2>3 DEF Parts
<1>9. CASE SweepTimesOut
  <2>1. UNCHANGED ledger /\ \/ pc' = "sweep" /\ cur' = {} /\ failed' = failed \cup cur
                            \/ pc' = "probing" /\ UNCHANGED <<cur, failed>>
    BY <1>9 DEF SweepTimesOut, NextEntry
  <2>2. BookedStakeIsOwed'
    BY <2>1, <1>3, <1>5 DEF Parts, BookedStakeIsOwed
  <2>3. SweepState' /\ OwedIsTracked'
    BY <2>1, <1>1, <1>3 DEF Parts, SweepState, OwedIsTracked
  <2>4. QED  BY <1>6, <1>7, <2>2, <2>3 DEF Parts
<1>10. QED  BY <1>8, <1>9

LEMMA SweepStepsParts ==
    ASSUME TypeOK, Parts, NEW e \in Entries,
           \/ BudgetRunsOut \/ SkipEntry(e) \/ ProbeSeesWedge \/ NudgeMines
           \/ ReleaseFails \/ SweepEnds \/ Settle \/ ReadSet \/ UNCHANGED vars
    PROVE  Parts'
<1>1. UNCHANGED <<ledger, op, nops, fg, live>>
  BY DEF BudgetRunsOut, SkipEntry, ProbeSeesWedge, NudgeMines, ReleaseFails, SweepEnds,
         Settle, ReadSet, vars, runVars, venueVars
<1>2. \/ UNCHANGED <<pc, sweepOp>>
      \/ pc \notin {"tests", "unstaking"} /\ sweepOp' = 0
  <2>1. CASE BudgetRunsOut \/ SkipEntry(e) \/ UNCHANGED vars
    BY <2>1 DEF BudgetRunsOut, SkipEntry, vars, sweepVars
  <2>2. CASE ReleaseFails
    BY <2>2 DEF ReleaseFails, NextEntry
  <2>3. CASE ProbeSeesWedge \/ NudgeMines \/ SweepEnds \/ Settle \/ ReadSet
    BY <2>3 DEF ProbeSeesWedge, NudgeMines, SweepEnds, Settle, ReadSet, Parts, OneAwaited
  <2>4. QED  BY <2>1, <2>2, <2>3
<1>3. LiveAreStakes' /\ BookedAreValid' /\ AwaitedUnstakeCleared' /\ BookedStakeIsOwed'
  BY <1>1 DEF Parts, LiveAreStakes, BookedAreValid, AwaitedUnstakeCleared, BookedStakeIsOwed
<1>4. OneAwaited'
  BY <1>1, <1>2 DEF Parts, OneAwaited
<1>5. SweepState' /\ OwedIsTracked'
  <2>1. CASE BudgetRunsOut \/ SkipEntry(e) \/ UNCHANGED vars
    BY <2>1, <1>1 DEF BudgetRunsOut, SkipEntry, vars, sweepVars, Parts, SweepState, OwedIsTracked
  <2>2. CASE ProbeSeesWedge \/ NudgeMines
    BY <2>2, <1>1 DEF ProbeSeesWedge, NudgeMines, Parts, SweepState, OwedIsTracked
  <2>3. CASE ReleaseFails
    BY <2>3, <1>1 DEF ReleaseFails, NextEntry, Parts, SweepState, OwedIsTracked
  <2>4. CASE SweepEnds \/ Settle \/ ReadSet
    BY <2>4, <1>1 DEF SweepEnds, Settle, ReadSet, Parts, SweepState, OwedIsTracked
  <2>5. QED  BY <2>1, <2>2, <2>3, <2>4
<1>6. QED  BY <1>3, <1>4, <1>5 DEF Parts

\* No step forgives an abandonment, and the runner's timeout is the one that commits it.
LEMMA AbandonedStays ==
    ASSUME TypeOK, [Next]_vars, ~abandoned'
    PROVE  ~abandoned /\ ~MochaTimesOut
<1>1. abandoned' = abandoned \/ abandoned' = TRUE
  BY DEF Next, Tests, Venue, Sweep, Finished, TestSends, TestSees, TestGivesUp, MochaTimesOut,
         MineBlock, IndexBlock, IndexTx, Stall, Unstall, StartTeardown, BudgetRunsOut, SkipEntry,
         SweepSends, SweepAccepted, SweepTimesOut, ProbeSeesWedge, NudgeMines, RetrySends,
         ReleaseFails, SweepEnds, Settle, ReadSet, vars, endVars
<1>2. MochaTimesOut => abandoned'
  BY DEF MochaTimesOut
<1>3. QED  BY <1>1, <1>2

LEMMA NextIInv == IInv /\ [Next]_vars => IInv'
<1> SUFFICES ASSUME TypeOK, [Next]_vars, ~abandoned', ~abandoned => Parts PROVE Parts'
  BY NextType DEF IInv
<1>0. Parts /\ ~MochaTimesOut
  BY AbandonedStays
<1>1. CASE Tests
  BY <1>0, <1>1, TestSendsParts, TestSeesParts, TestGivesUpParts DEF Tests
<1>2. CASE Venue
  BY <1>0, <1>2, BlocksParts, IndexTxParts DEF Venue
<1>3. CASE StartTeardown
  BY <1>0, <1>3, StartTeardownParts
<1>4. PICK e \in Entries : TRUE
  BY StakeTeardownAssumption
<1>5. CASE Sweep
  BY <1>0, <1>5, <1>4, SweepAwaitsParts, SweepStepsParts, SweepSendsParts, RetrySendsParts DEF Sweep
<1>6. CASE UNCHANGED vars
  BY <1>0, <1>6, <1>4, SweepStepsParts
<1>7. QED  BY <1>1, <1>2, <1>3, <1>5, <1>6 DEF Next, Finished

LEMMA Invariance == Spec => []IInv
<1>1. Init => IInv  BY InitType, InitParts DEF IInv
<1>2. IInv /\ [Next]_vars => IInv'  BY NextIInv
<1>3. QED  BY <1>1, <1>2, PTL DEF Spec

(* Until the runner abandons a test, a stake whose helper returned and      *)
(* which is still in force is owed on the ledger, whatever order the tests *)
(* stake, unstake and stake again in and however late the indexer is.      *)
THEOREM StandingStakesAreOwed == Spec => []StandingStakeIsOwed
<1>1. IInv => StandingStakeIsOwed  BY DEF IInv, Parts, StandingStakeIsOwed
<1>2. QED  BY <1>1, Invariance, PTL

(* If the runner abandoned no test, a booked stake that survives the sweep *)
(* is in its failed or skipped list, for any number of entries, retries    *)
(* and stalls.                                                             *)
THEOREM SweepNamesItsSurvivors == Spec => []SurvivorsAreReported
<1>1. IInv => SurvivorsAreReported
  <2>1. SUFFICES ASSUME TypeOK, Parts, pc \in {"settle", "read", "done"}, Release, NEW e \in Entries,
                        NEW i \in live[e], i # 0, ~Unbooked(i)
                 PROVE  e \in failed \cup skipped
    BY DEF SurvivorsAreReported, IInv
  <2>2. i \in 1 .. nops
    BY <2>1, StakeTeardownAssumption DEF TypeOK, RunType, VenueType
  <2>3. op[i].st = "booked"
    BY <2>1, <2>2, OpTyped DEF Parts, BookedAreValid, Unbooked, OpRecord
  <2>4. ledger[e] = "owed"
    BY <2>1, <2>3 DEF Parts, BookedStakeIsOwed
  <2>5. QED  BY <2>1, <2>4 DEF Parts, OwedIsTracked, SweepState
<1>2. QED  BY <1>1, Invariance, PTL

-----------------------------------------------------------------------------
(* What the sweep sends for an entry.                                      *)

SentFor(e) == {i \in 1 .. nops : op[i].e = e /\ op[i].act = "release"}

\* Nothing before its turn, one before the retry, the retry in one pass only.
RetryInv ==
    /\ pc = "tests" => cur = {} /\ \A e \in Entries : SentFor(e) = {}
    /\ \A e \in todo : SentFor(e) = {}
    /\ \A e, f \in cur : e = f
    /\ \A e \in cur : /\ e \notin todo
                      /\ pc # "unstaking" \/ ~retried => Cardinality(SentFor(e)) <= 1
    /\ \A e \in Entries : Cardinality(SentFor(e)) <= 2

LEMMA SentIsFinite == ASSUME TypeOK, NEW e PROVE IsFiniteSet(SentFor(e)) /\ Cardinality(SentFor(e)) \in Nat
<1>1. nops \in Nat
  BY StakeTeardownAssumption DEF TypeOK, RunType
<1>2. IsFiniteSet(1 .. nops)
  BY <1>1, FS_Interval
<1>3. SentFor(e) \subseteq 1 .. nops
  BY DEF SentFor
<1>4. QED
  BY <1>2, <1>3, FS_Subset, FS_CardinalityType

\* No step changes what a call was sent for.
LEMMA SentStays ==
    ASSUME TypeOK, nops' = nops, \A i \in OpIds : op'[i].act = op[i].act /\ op'[i].e = op[i].e
    PROVE  \A e \in Entries : SentFor(e)' = SentFor(e)
<1>1. \A i \in 1 .. nops : i \in OpIds
  BY OpTyped
<1>2. QED
  BY <1>1 DEF SentFor

\* A call more is one more for its entry, if the sweep sent it.
LEMMA SentGrows ==
    ASSUME TypeOK, NEW act \in Acts, NEW e \in Entries, Broadcast(act, e)
    PROVE  /\ \A f \in Entries : f # e \/ act # "release" => SentFor(f)' = SentFor(f)
           /\ Cardinality(SentFor(e)) \in Nat /\ Cardinality(SentFor(e)') \in Nat
           /\ Cardinality(SentFor(e)') <= Cardinality(SentFor(e)) + 1
<1>1. /\ nops \in Nat /\ \A i \in 1 .. nops : op'[i] = op[i] /\ i # nops + 1
      /\ op'[nops + 1].act = act /\ op'[nops + 1].e = e
      /\ 1 .. nops' = 1 .. nops \cup {nops + 1}
  BY BroadcastFacts
<1>2. \A f \in Entries : f # e \/ act # "release" => SentFor(f)' = SentFor(f)
  BY <1>1 DEF SentFor
<1>3. SentFor(e)' = SentFor(e) \/ SentFor(e)' = SentFor(e) \cup {nops + 1}
  BY <1>1 DEF SentFor
<1>4. nops + 1 \notin SentFor(e) /\ IsFiniteSet(SentFor(e)) /\ Cardinality(SentFor(e)) \in Nat
  BY <1>1, SentIsFinite DEF SentFor
<1>5. Cardinality(SentFor(e) \cup {nops + 1}) = Cardinality(SentFor(e)) + 1
  BY <1>4, FS_AddElement
<1>6. QED
  BY <1>2, <1>3, <1>4, <1>5

LEMMA RetryInit == Init => RetryInv
<1> SUFFICES ASSUME Init PROVE RetryInv  OBVIOUS
<1>1. \A e : SentFor(e) = {}
  BY DEF Init, SentFor
<1>2. QED
  BY <1>1, FS_EmptySet DEF Init, RetryInv

\* The sweep moves on, or lets go of the entry in hand, and sends nothing.
LEMMA QuietRetry ==
    ASSUME TypeOK, RetryInv, pc' # "tests", \A e \in Entries : SentFor(e)' = SentFor(e),
           todo' \subseteq todo,
           \/ cur' = {}
           \/ /\ UNCHANGED <<cur, retried>>
              /\ pc' = pc \/ pc # "unstaking" \/ ~retried
    PROVE  RetryInv'
<1>1. todo \subseteq Entries /\ cur \subseteq Entries
  BY DEF TypeOK, SweepType
<1>2. \A e \in todo' : SentFor(e)' = {}
  BY <1>1 DEF RetryInv
<1>3. \A e \in cur' : e \notin todo' /\ (pc' # "unstaking" \/ ~retried' => Cardinality(SentFor(e)') <= 1)
  BY <1>1 DEF RetryInv
<1>4. QED
  BY <1>2, <1>3 DEF RetryInv

\* The sweep sends for an entry: for the first time, or in its one retry.
LEMMA SendRetry ==
    ASSUME TypeOK, RetryInv, NEW e \in Entries, Broadcast("release", e),
           cur' = {e}, pc' = "unstaking",
           \/ e \in todo /\ retried' = FALSE /\ todo' = todo \ {e}
           \/ e \in cur /\ pc = "retry" /\ retried' = TRUE /\ todo' = todo
    PROVE  RetryInv'
<1>1. /\ \A f \in Entries : f # e => SentFor(f)' = SentFor(f)
      /\ Cardinality(SentFor(e)) \in Nat /\ Cardinality(SentFor(e)') \in Nat
      /\ Cardinality(SentFor(e)') <= Cardinality(SentFor(e)) + 1
  BY SentGrows DEF Acts
<1>2. todo \subseteq Entries
  BY DEF TypeOK, SweepType
<1>3. ASSUME Cardinality(SentFor(e)') <= 2, e \notin todo', todo' \subseteq todo,
             ~retried' => Cardinality(SentFor(e)') <= 1
      PROVE  RetryInv'
  <2>1. \A f \in Entries : Cardinality(SentFor(f)') <= 2
    BY <1>1, <1>3 DEF RetryInv
  <2>2. \A f \in todo' : SentFor(f)' = {}
    BY <1>1, <1>2, <1>3 DEF RetryInv
  <2>3. QED
    BY <1>3, <2>1, <2>2 DEF RetryInv
<1>4. CASE e \in todo /\ retried' = FALSE /\ todo' = todo \ {e}
  <2>1. Cardinality(SentFor(e)) = 0
    BY <1>4, FS_EmptySet DEF RetryInv
  <2>2. Cardinality(SentFor(e)') <= 1 /\ Cardinality(SentFor(e)') <= 2
    BY <1>1, <2>1
  <2>3. QED
    BY <1>3, <1>4, <2>2
<1>5. CASE e \in cur /\ pc = "retry" /\ retried' = TRUE /\ todo' = todo
  <2>1. Cardinality(SentFor(e)) <= 1 /\ e \notin todo
    BY <1>5 DEF RetryInv
  <2>2. Cardinality(SentFor(e)') <= 2
    BY <1>1, <2>1
  <2>3. QED
    BY <1>3, <1>5, <2>1, <2>2
<1>6. QED
  BY <1>4, <1>5

LEMMA RetryStep == TypeOK /\ RetryInv /\ [Next]_vars => RetryInv'
<1> SUFFICES ASSUME TypeOK, RetryInv, [Next]_vars PROVE RetryInv'  OBVIOUS
<1>0. retried \in BOOLEAN /\ todo \subseteq Entries /\ cur \subseteq Entries
  BY DEF TypeOK, SweepType
<1>1. CASE Tests
  <2>1. ASSUME NEW act \in {"stake", "unstake", "partial"}, NEW e \in Entries, TestSends(act, e)
        PROVE  RetryInv'
    <3>1. Broadcast(act, e) /\ UNCHANGED <<pc, todo, cur, retried>> /\ act \in Acts /\ act # "release"
      BY <2>1 DEF TestSends, sweepVars, Acts
    <3>2. \A f \in Entries : SentFor(f)' = SentFor(f)
      BY <3>1, SentGrows
    <3>3. QED
      BY <1>0, <3>1, <3>2 DEF RetryInv
  <2>2. ASSUME NEW i \in OpIds, TestSees(i) \/ TestGivesUp(i) PROVE RetryInv'
    <3>1. \A j \in OpIds : op'[j].act = op[j].act /\ op'[j].e = op[j].e
      BY <2>2 DEF TestSees, TestGivesUp, TypeOK, RunType, OpRecord
    <3>2. nops' = nops /\ UNCHANGED <<pc, todo, cur, retried>>
      BY <2>2 DEF TestSees, TestGivesUp, sweepVars
    <3>3. QED
      BY <1>0, <3>1, <3>2, SentStays DEF RetryInv
  <2>3. CASE MochaTimesOut
    <3>1. nops' = nops /\ op' = op /\ UNCHANGED <<pc, todo, cur, retried>>
      BY <2>3 DEF MochaTimesOut, sweepVars
    <3>2. QED
      BY <1>0, <3>1, SentStays DEF RetryInv
  <2>4. QED
    BY <1>1, <2>1, <2>2, <2>3 DEF Tests
<1>2. CASE Venue \/ Finished \/ UNCHANGED vars
  <2>1. nops' = nops /\ UNCHANGED <<pc, todo, cur, retried>>
    BY <1>2 DEF Venue, MineBlock, IndexBlock, Stall, Unstall, IndexTx, Finished, vars, runVars, sweepVars
  <2>2. \A j \in OpIds : op'[j].act = op[j].act /\ op'[j].e = op[j].e
    <3>1. ASSUME NEW i \in OpIds, IndexTx(i) PROVE \A j \in OpIds : op'[j].act = op[j].act /\ op'[j].e = op[j].e
      BY <3>1 DEF IndexTx, TypeOK, RunType, OpRecord
    <3>2. QED
      BY <1>2, <3>1 DEF Venue, MineBlock, IndexBlock, Stall, Unstall, Finished, vars, runVars
  <2>3. QED
    BY <1>0, <2>1, <2>2, SentStays DEF RetryInv
<1>3. CASE StartTeardown
  <2>1. /\ nops' = nops /\ op' = op /\ pc = "tests" /\ pc' \in {"done", "read", "sweep"}
        /\ todo' \subseteq Entries /\ cur' = cur
    BY <1>3 DEF StartTeardown, runVars, outstanding
  <2>2. \A e \in Entries : SentFor(e)' = SentFor(e) /\ SentFor(e)' = {}
    BY <2>1, SentStays DEF RetryInv
  <2>3. cur' = {} /\ \A e \in todo' : SentFor(e)' = {}
    BY <2>1, <2>2 DEF RetryInv
  <2>4. QED
    BY <2>1, <2>2, <2>3 DEF RetryInv
<1>4. CASE Sweep
  <2>1. ASSUME NEW e \in Entries, SweepSends(e) PROVE RetryInv'
    <3>1. /\ e \in todo /\ todo' = todo \ {e} /\ cur' = {e} /\ retried' = FALSE
          /\ \/ Broadcast("release", e) /\ pc' = "unstaking"
             \/ pc' = "probing" /\ UNCHANGED <<op, nops>>
      BY <2>1 DEF SweepSends
    <3>2. CASE pc' = "probing" /\ UNCHANGED <<op, nops>>
      <4>1. \A f \in Entries : SentFor(f)' = SentFor(f)
        BY <3>2, SentStays
      <4>2. SentFor(e)' = {} /\ Cardinality({}) = 0
        BY <3>1, <4>1, FS_EmptySet DEF RetryInv
      <4>3. QED
        BY <1>0, <3>1, <3>2, <4>1, <4>2 DEF RetryInv
    <3>3. QED
      BY <3>1, <3>2, SendRetry
  <2>2. CASE RetrySends
    <3>1. PICK e \in cur : Broadcast("release", e)
      BY <2>2 DEF RetrySends
    <3>2. /\ pc = "retry" /\ retried' = TRUE /\ pc' = "unstaking" /\ UNCHANGED <<todo, cur>>
      BY <2>2 DEF RetrySends
    <3>3. cur = {e} /\ e \in Entries
      BY <1>0, <3>1, <3>2 DEF RetryInv
    <3>4. QED
      BY <3>1, <3>2, <3>3, SendRetry
  <2>3. CASE SweepAccepted \/ SweepTimesOut
    <3>0. \/ op' = [op EXCEPT ![sweepOp].st = "booked"]
          \/ op' = [op EXCEPT ![sweepOp].st = "gaveup"]
      BY <2>3 DEF SweepAccepted, SweepTimesOut
    <3>1. \A j \in OpIds : op'[j].act = op[j].act /\ op'[j].e = op[j].e
      <4>1. op \in [OpIds -> OpRecord]
        BY DEF TypeOK, RunType
      <4>2. CASE op' = [op EXCEPT ![sweepOp].st = "booked"]
        BY <4>1, <4>2 DEF OpRecord
      <4>3. CASE op' = [op EXCEPT ![sweepOp].st = "gaveup"]
        BY <4>1, <4>3 DEF OpRecord
      <4>4. QED
        BY <3>0, <4>2, <4>3
    <3>n. nops' = nops
      BY <2>3 DEF SweepAccepted, SweepTimesOut
    <3>2. \A e \in Entries : SentFor(e)' = SentFor(e)
      BY <3>n, <3>1, SentStays
    <3>3. /\ pc' # "tests" /\ todo' = todo
          /\ cur' = {} \/ (UNCHANGED <<cur, retried>> /\ ~retried)
      BY <2>3 DEF SweepAccepted, SweepTimesOut, NextEntry
    <3>4. QED
      BY <3>2, <3>3, QuietRetry
  <2>4. CASE \/ BudgetRunsOut \/ ProbeSeesWedge \/ NudgeMines \/ ReleaseFails
             \/ SweepEnds \/ Settle \/ ReadSet \/ \E e \in Entries : SkipEntry(e)
    <3>1. UNCHANGED <<op, nops>>
      BY <2>4 DEF BudgetRunsOut, ProbeSeesWedge, NudgeMines, ReleaseFails, SweepEnds, Settle, ReadSet,
         SkipEntry, runVars
    <3>2. /\ pc' # "tests" /\ todo' \subseteq todo
          /\ cur' = {} \/ (UNCHANGED <<cur, retried>> /\ (pc' = pc \/ pc # "unstaking"))
      BY <2>4 DEF BudgetRunsOut, ProbeSeesWedge, NudgeMines, ReleaseFails, SweepEnds, Settle, ReadSet,
         SkipEntry, NextEntry, Sweeping
    <3>3. QED
      BY <3>1, <3>2, SentStays, QuietRetry
  <2>5. QED
    BY <1>4, <2>1, <2>2, <2>3, <2>4 DEF Sweep
<1>5. QED
  BY <1>1, <1>2, <1>3, <1>4 DEF Next

(* However long the sweep, a stall or a retry lasts, an entry costs it at   *)
(* most two broadcasts (releaseStakes).                                     *)
THEOREM RetriesAreBounded == Spec => []AtMostOneRetry
<1>1. RetryInv => AtMostOneRetry
  BY DEF RetryInv, AtMostOneRetry, SentFor
<1>2. QED
  BY <1>1, InitType, NextType, RetryInit, RetryStep, PTL DEF Spec
===========================================================================
