---------------------------- MODULE DbWait_proofs ----------------------------
(***************************************************************************)
(* A wait for a row is bounded whatever the stack does, finds the row that *)
(* is there and waits longer on evidence only, for every value of the      *)
(* tunables; and the check methods it polls answer the rows that were      *)
(* asked for, for every request callers make and every table.              *)
(*                                                                         *)
(* The argument for the wait: a poll, the sleep and the probe together     *)
(* take at most Overrun once the deadline has been found in the future     *)
(* (Lateness), so an extension moves the deadline by at most TimeMax +     *)
(* Overrun (DeadlineBounded), and at most MaxExtensions are granted.  For  *)
(* the rows: each method is read off as kinds of parameter (KindIs), and   *)
(* on what callers give a kind's clause says what they mean (ClauseMeans). *)
(***************************************************************************)
EXTENDS DbWait, RowChecks, TLAPS

USE DbWaitAssumption

Share == TimeMax + Overrun

LEMMA Sizes ==
    /\ Overrun \in Nat /\ Share \in Nat /\ ProbeEvery \in Nat /\ WriteIdle \in Nat
    /\ Overrun = ConnectBudget + ConnectPause + MaxAcquire + MaxQuery + Pause + ProbeCap
<1>1. TimeMax \div 3 \in Nat
  OBVIOUS
<1>2. QED
  BY <1>1 DEF Overrun, Share, ProbeEvery, WriteIdle, Greater, Lesser

LEMMA OneMore == ASSUME NEW a \in Nat, NEW k \in Nat PROVE (a + 1) * k = a * k + k
  OBVIOUS

LEMMA Product == ASSUME NEW a \in Nat, NEW k \in Nat PROVE a * k \in Nat
  OBVIOUS

LEMMA Monotone ==
    ASSUME NEW a \in Nat, NEW b \in Nat, NEW k \in Nat, a <= b PROVE a * k <= b * k
<1>1. PICK c \in Nat : b = a + c
  <2>1. b - a \in Nat /\ b = a + (b - a)
    OBVIOUS
  <2>2. QED
    BY <2>1
<1>2. b * k = a * k + c * k
  BY <1>1
<1>3. c * k \in Nat /\ a * k \in Nat
  BY Product
<1>4. QED
  BY <1>2, <1>3

-----------------------------------------------------------------------------
(* The pieces of a step.                                                   *)

LEMMA InitIInv == Init => IInv
<1> SUFFICES ASSUME Init PROVE IInv
  OBVIOUS
<1> USE Sizes
<1>1. TypeOK
  <2>1. /\ now \in Nat /\ deadline \in Nat /\ extensions \in Nat /\ nextProbeAt \in Nat
        /\ attempts \in Nat /\ connectBy \in Nat
        /\ tip \in Nat /\ idx \in 0 .. tip /\ writes \in Nat
    BY DEF Init
  <2>2. pc \in {"connect", "done"} /\ result \in {"none", "null"}
    BY DEF Init
  <2>3. expired \in BOOLEAN /\ db \in {"up", "down", "refused"} /\ faults \subseteq Faults
    BY DEF Init
  <2>4. /\ AtMostOne(tipSeen, Nat) /\ AtMostOne(lastLag, Int) /\ AtMostOne(writeMark, Nat)
        /\ AtMostOne(writeMoved, Nat) /\ AtMostOne(lastWriteAt, Nat) /\ AtMostOne(row, Nat)
    BY DEF Init, AtMostOne
  <2>5. QED
    BY <2>1, <2>2, <2>3, <2>4 DEF TypeOK
<1>2. extensions <= MaxExtensions /\ DeadlineBounded
  BY DEF Init, DeadlineBounded, Share
<1>3. Lateness
  BY DEF Init, Lateness
<1>4. QED
  BY <1>1, <1>2, <1>3 DEF IInv

(* The loop test keeps every clock of the iteration it starts, or ends it. *)
LEMMA ResumeKeeps ==
    ASSUME TypeOK, NEW t \in Nat, NEW by \in Nat, Resume(t, by),
           now' = t, deadline' = by, t <= by + Overrun,
           result = "none"
    PROVE  /\ pc' \in {"connect", "done"} /\ result' \in {"none", "null"}
           /\ attempts' \in Nat /\ connectBy' \in Nat
           /\ Lateness'
<1> USE Sizes
<1>1. CASE t < by
  <2>1. /\ pc' = "connect" /\ attempts' = 0 /\ connectBy' = t + ConnectBudget
        /\ result' = result
    BY <1>1 DEF Resume
  <2>2. QED
    BY <1>1, <2>1 DEF Lateness
<1>2. CASE ~(t < by)
  <2>1. pc' = "done" /\ result' = "null" /\ attempts' = attempts /\ connectBy' = connectBy
    BY <1>2 DEF Resume
  <2>2. QED
    BY <1>2, <2>1 DEF Lateness, TypeOK
<1>3. QED
  BY <1>1, <1>2

LEMMA JudgeKeeps ==
    ASSUME IInv, NEW d \in 0 .. ProbeCap, pc = "measure",
           NEW lag, AtMostOne(lag, Int), NEW w, AtMostOne(w, Nat),
           Judge(now + d, lag, w)
    PROVE  IInv'
<1> USE Sizes DEF IInv
<1> DEFINE t == now + d
           by == deadline'
<1>0. t \in Nat /\ result = "none" /\ now <= deadline + Overrun - ProbeCap
      /\ t <= deadline + Overrun
  BY DEF TypeOK, Lateness
<1>1. CASE extensions' = extensions + 1 /\ deadline' = t + TimeMax /\ expired
  <2>1. extensions < MaxExtensions
    BY <1>1 DEF Lateness
  <2>2. Resume(t, t + TimeMax) /\ now' = t
    BY <1>1 DEF Judge
  <2>3. /\ pc' \in {"connect", "done"} /\ result' \in {"none", "null"}
        /\ attempts' \in Nat /\ connectBy' \in Nat /\ Lateness'
    BY <1>0, <1>1, <2>2, ResumeKeeps
  <2>4. extensions \in Nat /\ deadline \in Nat
    BY DEF TypeOK
  <2>5. DeadlineBounded'
    <3>1. deadline <= extensions * Share + TimeMax
      BY DEF DeadlineBounded, Share
    <3>2. (extensions + 1) * Share = extensions * Share + Share /\ extensions * Share \in Nat
      BY <2>4, OneMore, Product
    <3>3. deadline' <= (extensions + 1) * Share + TimeMax
      BY <1>0, <1>1, <2>4, <3>1, <3>2 DEF Share
    <3>4. QED
      BY <1>1, <3>3 DEF DeadlineBounded, Share, Overrun
  <2>6. TypeOK'
    <3>1. /\ now' = t /\ nextProbeAt' = t + ProbeEvery /\ lastLag' = lag
          /\ writeMoved' = Moved(w, t) /\ writeMark' = Mark(w)
          /\ expired' = FALSE /\ tipSeen' = {}
          /\ tip' = tip /\ idx' = idx /\ writes' = writes /\ lastWriteAt' = lastWriteAt
          /\ row' = row /\ db' = db /\ faults' = faults
      BY DEF Judge, envVars
    <3>2. AtMostOne(Moved(w, t), Nat) /\ AtMostOne(Mark(w), Nat)
      BY <1>0 DEF Moved, Mark, AtMostOne, TypeOK
    <3>3. expired' \in BOOLEAN /\ faults' \subseteq Faults
      BY <3>1 DEF TypeOK
    <3>5. /\ AtMostOne(tipSeen, Nat)' /\ AtMostOne(lastLag, Int)' /\ AtMostOne(writeMark, Nat)'
          /\ AtMostOne(writeMoved, Nat)' /\ AtMostOne(lastWriteAt, Nat)' /\ AtMostOne(row, Nat)'
      BY <3>1, <3>2 DEF TypeOK, AtMostOne
    <3>6. /\ nextProbeAt' \in Nat /\ tip' \in Nat /\ idx' \in 0 .. tip' /\ writes' \in Nat
          /\ db' \in {"up", "down", "refused"}
      BY <1>0, <3>1 DEF TypeOK
    <3>4. QED
      BY <1>0, <1>1, <2>3, <2>4, <3>1, <3>3, <3>5, <3>6 DEF TypeOK
  <2>7. QED
    BY <1>1, <2>1, <2>4, <2>3, <2>5, <2>6
<1>2. CASE extensions' = extensions /\ deadline' = deadline
  <2>2. Resume(t, deadline) /\ now' = t
    BY <1>2 DEF Judge
  <2>4. extensions \in Nat /\ deadline \in Nat
    BY DEF TypeOK
  <2>3. /\ pc' \in {"connect", "done"} /\ result' \in {"none", "null"}
        /\ attempts' \in Nat /\ connectBy' \in Nat /\ Lateness'
    BY <1>0, <1>2, <2>2, <2>4, ResumeKeeps
  <2>5. DeadlineBounded'
    BY <1>2 DEF DeadlineBounded, Overrun
  <2>6. TypeOK'
    <3>1. /\ now' = t /\ nextProbeAt' = t + ProbeEvery /\ lastLag' = lag
          /\ writeMoved' = Moved(w, t) /\ writeMark' = Mark(w)
          /\ expired' = FALSE /\ tipSeen' = {}
          /\ tip' = tip /\ idx' = idx /\ writes' = writes /\ lastWriteAt' = lastWriteAt
          /\ row' = row /\ db' = db /\ faults' = faults
      BY DEF Judge, envVars
    <3>2. AtMostOne(Moved(w, t), Nat) /\ AtMostOne(Mark(w), Nat)
      BY <1>0 DEF Moved, Mark, AtMostOne, TypeOK
    <3>3. expired' \in BOOLEAN /\ faults' \subseteq Faults
      BY <3>1 DEF TypeOK
    <3>5. /\ AtMostOne(tipSeen, Nat)' /\ AtMostOne(lastLag, Int)' /\ AtMostOne(writeMark, Nat)'
          /\ AtMostOne(writeMoved, Nat)' /\ AtMostOne(lastWriteAt, Nat)' /\ AtMostOne(row, Nat)'
      BY <3>1, <3>2 DEF TypeOK, AtMostOne
    <3>6. /\ nextProbeAt' \in Nat /\ tip' \in Nat /\ idx' \in 0 .. tip' /\ writes' \in Nat
          /\ db' \in {"up", "down", "refused"}
      BY <1>0, <3>1 DEF TypeOK
    <3>4. QED
      BY <1>0, <1>2, <2>3, <2>4, <3>1, <3>3, <3>5, <3>6 DEF TypeOK
  <2>7. QED
    BY <1>2, <2>3, <2>5, <2>6
<1>3. QED
  BY <1>1, <1>2 DEF Judge

-----------------------------------------------------------------------------
(* Every step keeps the invariant.                                         *)

LEMMA NextIInv == IInv /\ [Next]_vars => IInv'
<1> SUFFICES ASSUME IInv, [Next]_vars PROVE IInv'
  OBVIOUS
<1> USE Sizes DEF IInv
<1>1. ASSUME NEW d \in 0 .. MaxAcquire, Connected(d) PROVE IInv'
  <2>1. TypeOK'
    BY <1>1 DEF Connected, TypeOK, AtMostOne, loopVars, probeVars, connectVars, envVars
  <2>2. Lateness'
    BY <1>1 DEF Connected, Lateness, TypeOK, loopVars, probeVars, connectVars, envVars
  <2>3. QED
    BY <1>1, <2>1, <2>2 DEF Connected, DeadlineBounded, Overrun, loopVars
<1>2. ASSUME NEW d \in 0 .. MaxAcquire, ConnectFails(d) PROVE IInv'
  <2>1. TypeOK'
    <3>2. now' \in Nat /\ pc' \in {"pause", "backoff"} /\ attempts' \in Nat
      BY <1>2 DEF ConnectFails, TypeOK
    <3>3. UNCHANGED <<loopVars, probeVars, connectBy, result, envVars>>
      BY <1>2 DEF ConnectFails
    <3>4. QED
      BY <3>2, <3>3 DEF TypeOK, AtMostOne, loopVars, probeVars, envVars
  <2>2. Lateness'
    BY <1>2 DEF ConnectFails, Spent, Lateness, TypeOK, loopVars, probeVars, connectVars, envVars
  <2>3. QED
    BY <1>2, <2>1, <2>2 DEF ConnectFails, DeadlineBounded, Overrun, loopVars
<1>3. CASE Backoff
  <2>1. TypeOK'
    BY <1>3 DEF Backoff, TypeOK, AtMostOne, loopVars, probeVars, connectVars, envVars
  <2>2. Lateness'
    BY <1>3 DEF Backoff, Lateness, TypeOK, loopVars, probeVars, connectVars, envVars
  <2>3. QED
    BY <1>3, <2>1, <2>2 DEF Backoff, DeadlineBounded, Overrun, loopVars
<1>4. ASSUME NEW d \in 0 .. MaxQuery, QueryFinds(d) PROVE IInv'
  <2>1. TypeOK'
    BY <1>4 DEF QueryFinds, TypeOK, AtMostOne, loopVars, probeVars, connectVars, envVars
  <2>2. Lateness'
    BY <1>4 DEF QueryFinds, Lateness, TypeOK, loopVars, probeVars, connectVars, envVars
  <2>3. QED
    BY <1>4, <2>1, <2>2 DEF QueryFinds, DeadlineBounded, Overrun, loopVars
<1>5. ASSUME NEW d \in 0 .. MaxQuery, QueryMisses(d) PROVE IInv'
  <2>1. TypeOK'
    BY <1>5 DEF QueryMisses, TypeOK, AtMostOne, loopVars, probeVars, connectVars, envVars
  <2>2. Lateness'
    BY <1>5 DEF QueryMisses, Lateness, TypeOK, loopVars, probeVars, connectVars, envVars
  <2>3. QED
    BY <1>5, <2>1, <2>2 DEF QueryMisses, DeadlineBounded, Overrun, loopVars
<1>6. CASE PauseAndLoop
  <2>1. Resume(now + Pause, deadline) /\ now' = now + Pause /\ deadline' = deadline
        /\ now + Pause \in Nat /\ deadline \in Nat /\ result = "none"
        /\ now + Pause <= deadline + Overrun
    BY <1>6 DEF PauseAndLoop, loopVars, TypeOK, Lateness
  <2>2. /\ pc' \in {"connect", "done"} /\ result' \in {"none", "null"}
        /\ attempts' \in Nat /\ connectBy' \in Nat /\ Lateness'
    BY <2>1, ResumeKeeps
  <2>3. TypeOK'
    BY <1>6, <2>1, <2>2 DEF PauseAndLoop, TypeOK, AtMostOne, loopVars, probeVars, envVars
  <2>4. QED
    BY <1>6, <2>2, <2>3 DEF PauseAndLoop, DeadlineBounded, Overrun, loopVars
<1>7. CASE PauseAndProbe
  <2>1. TypeOK'
    BY <1>7 DEF PauseAndProbe, TypeOK, AtMostOne, loopVars, probeVars, connectVars, envVars
  <2>2. Lateness'
    <3>1. /\ pc' = "probe" /\ result' = "none" /\ now' = now + Pause
          /\ deadline' = deadline /\ extensions' = extensions
      BY <1>7 DEF PauseAndProbe, Lateness, loopVars
    <3>2. now' <= deadline' + Overrun - ProbeCap
      BY <1>7, <3>1 DEF PauseAndProbe, Lateness, TypeOK
    <3>3. ASSUME expired' PROVE extensions' < MaxExtensions
      <4>1. now + Pause >= deadline
        BY <1>7, <3>3 DEF PauseAndProbe
      <4>2. extensions \in Nat /\ ~(extensions >= MaxExtensions)
        BY <1>7, <4>1 DEF PauseAndProbe, NoProbe, TypeOK
      <4>3. QED
        BY <3>1, <4>2
    <3>4. QED
      BY <3>1, <3>2, <3>3 DEF Lateness
  <2>3. QED
    BY <1>7, <2>1, <2>2 DEF PauseAndProbe, DeadlineBounded, Overrun, loopVars
<1>8. CASE ProbeTip
  <2>1. TypeOK'
    BY <1>8 DEF ProbeTip, TypeOK, AtMostOne, loopVars, probeVars, connectVars, envVars
  <2>2. Lateness'
    BY <1>8 DEF ProbeTip, Lateness, TypeOK, loopVars, probeVars, connectVars, envVars
  <2>3. QED
    BY <1>8, <2>1, <2>2 DEF ProbeTip, DeadlineBounded, Overrun, loopVars
<1>9. ASSUME NEW d \in 0 .. ProbeCap, ProbeAnswers(d) PROVE IInv'
  <2>1. AtMostOne({x - idx : x \in tipSeen}, Int)
    <3>1. idx \in Int /\ tipSeen \subseteq Nat /\ \A x, y \in tipSeen : x = y
      BY DEF TypeOK, AtMostOne
    <3>2. \A x \in tipSeen : x - idx \in Int
      BY <3>1
    <3>3. QED
      BY <3>1, <3>2 DEF AtMostOne
  <2>2. AtMostOne(IF writes = 0 THEN {} ELSE {writes}, Nat)
    BY DEF TypeOK, AtMostOne
  <2>3. QED
    BY <1>9, <2>1, <2>2, JudgeKeeps DEF ProbeAnswers
<1>10. ASSUME NEW d \in 0 .. ProbeCap, ProbeUnavailable(d) PROVE IInv'
  <2>1. AtMostOne({}, Int) /\ AtMostOne({}, Nat)
    BY DEF AtMostOne
  <2>2. QED
    BY <1>10, <2>1, JudgeKeeps DEF ProbeUnavailable
<1>11. CASE Venue
  <2>1. /\ now' = now /\ pc' = pc /\ result' = result /\ UNCHANGED loopVars
        /\ UNCHANGED probeVars /\ UNCHANGED connectVars
    BY <1>11 DEF Venue, MineBlock, IndexBlock, WriteAction, DbChanges
  <2>2. /\ tip' \in Nat /\ idx' \in 0 .. tip' /\ writes' \in Nat
        /\ AtMostOne(lastWriteAt', Nat) /\ AtMostOne(row', Nat)
        /\ db' \in {"up", "down", "refused"} /\ faults' \subseteq Faults
    <3>1. CASE MineBlock
      BY <3>1 DEF MineBlock, TypeOK
    <3>2. CASE IndexBlock
      BY <3>2 DEF IndexBlock, TypeOK
    <3>3. CASE WriteAction
      BY <3>3 DEF WriteAction, TypeOK, AtMostOne
    <3>4. CASE DbChanges
      BY <3>4 DEF DbChanges, TypeOK
    <3>5. QED
      BY <1>11, <3>1, <3>2, <3>3, <3>4 DEF Venue
  <2>3. QED
    BY <2>1, <2>2 DEF TypeOK, Lateness, DeadlineBounded, Overrun, loopVars, probeVars, connectVars
<1>12. CASE UNCHANGED vars
  BY <1>12 DEF vars, loopVars, probeVars, connectVars, envVars, TypeOK, Lateness,
               DeadlineBounded, Overrun, AtMostOne
<1>13. QED
  BY <1>1, <1>2, <1>3, <1>4, <1>5, <1>6, <1>7, <1>8, <1>9, <1>10, <1>11, <1>12
     DEF Next, Wait, Finished

-----------------------------------------------------------------------------
(* Every reachable state is well typed (all of DbWait).                    *)
THEOREM TypeCorrect == Spec => []TypeOK
<1>1. IInv => TypeOK
  BY DEF IInv
<1>2. QED
  BY InitIInv, NextIInv, <1>1, PTL DEF Spec

(* A wait takes at most MaxExtensions extensions and ends within as many    *)
(* shares of timeMax plus one overrun, for every tunable and every         *)
(* behaviour of the chain, the indexer and the database (_waitFor).         *)
THEOREM WaitsAreBounded == Spec => []WaitIsBounded
<1>1. IInv => WaitIsBounded
  <2> SUFFICES ASSUME IInv PROVE WaitIsBounded
    OBVIOUS
  <2> USE Sizes DEF IInv
  <2>1. extensions \in Nat /\ deadline \in Nat /\ now \in Nat /\ connectBy \in Nat
    BY DEF TypeOK
  <2>2. now <= deadline + Overrun
    BY <2>1 DEF Lateness, TypeOK
  <2>3. deadline + Overrun <= extensions * Share + Share
    BY <2>1, Product DEF DeadlineBounded, Share, Overrun
  <2>4. extensions * Share + Share = (extensions + 1) * Share
    BY <2>1, OneMore
  <2>5. (extensions + 1) * Share <= (MaxExtensions + 1) * Share
    BY <2>1, Monotone
  <2>6. extensions * Share \in Nat /\ (extensions + 1) * Share \in Nat /\ (MaxExtensions + 1) * Share \in Nat
    BY <2>1, Product
  <2>7. now <= (MaxExtensions + 1) * Share
    BY <2>1, <2>2, <2>3, <2>4, <2>5, <2>6
  <2>8. QED
    BY <2>7 DEF WaitIsBounded, Share, Overrun
<1>2. QED
  BY InitIInv, NextIInv, <1>1, PTL DEF Spec

-----------------------------------------------------------------------------
(* A row that is there is found.                                           *)

\* The database of a run that has no such fault stays up.
UpInv == faults \cap {"down", "refused"} = {} => db = "up" /\ pc # "backoff"

\* How long a row may have been visible at each await.
SeenInv ==
    faults \subseteq {"probe"} =>
        \A r \in row : /\ pc = "pause" => now <= r
                       /\ pc \in {"probe", "measure"} => now <= r + Pause
                       /\ pc = "connect" => now <= r + Pause + ProbeCap
                       /\ pc = "done" => result = "row" \/ now <= r + Gap

FoundInv == UpInv /\ SeenInv

\* The loop test, with the row visible for at most a sleep and a probe.
LEMMA ResumeSees ==
    ASSUME NEW t \in Nat, NEW by, Resume(t, by), now' = t, row' = row, row \subseteq Nat,
           \A r \in row : t <= r + Pause + ProbeCap
    PROVE  /\ pc' \in {"connect", "done"}
           /\ \A r \in row' : now' <= r + Pause + ProbeCap /\ now' <= r + Gap
<1>1. \A r \in row : t <= r + Gap
  BY DEF Gap
<1>2. QED
  BY <1>1 DEF Resume

LEMMA FoundInit == Init => FoundInv
BY DEF Init, FoundInv, UpInv, SeenInv

LEMMA FoundStep == IInv /\ FoundInv /\ [Next]_vars => FoundInv'
<1> SUFFICES ASSUME IInv, FoundInv, [Next]_vars PROVE FoundInv'
  OBVIOUS
<1>t. now \in Nat /\ row \subseteq Nat
  BY DEF IInv, TypeOK, AtMostOne
<1>n. pc # "done" => result = "none"
  BY DEF IInv, TypeOK, Lateness
<1>1. CASE UNCHANGED vars
  BY <1>1 DEF vars, envVars, FoundInv, UpInv, SeenInv
<1>2. CASE Venue
  <2>1. UNCHANGED <<now, pc, result, faults>> /\ pc # "done"
    BY <1>2 DEF Venue, MineBlock, IndexBlock, WriteAction, DbChanges
  <2>2. UpInv'
    BY <1>2, <2>1 DEF Venue, MineBlock, IndexBlock, WriteAction, DbChanges, FoundInv, UpInv
  <2>3. row' = row \/ row' = {now}
    BY <1>2 DEF Venue, MineBlock, IndexBlock, WriteAction, DbChanges
  <2>4. SeenInv'
    <3>1. CASE row' = row
      BY <2>1, <3>1 DEF FoundInv, SeenInv
    <3>2. CASE row' = {now}
      <4>1. \A r \in row' : now' <= r /\ now' <= r + Pause /\ now' <= r + Pause + ProbeCap
        BY <1>t, <2>1, <3>2
      <4>2. pc' # "done"
        BY <2>1
      <4>3. QED
        BY <4>1, <4>2 DEF SeenInv
    <3>3. QED
      BY <2>3, <3>1, <3>2
  <2>5. QED
    BY <2>2, <2>4 DEF FoundInv
<1>3. CASE Wait
  <2>1. UNCHANGED <<row, db, faults>>
    BY <1>3 DEF Wait, Connected, ConnectFails, Backoff, QueryFinds, QueryMisses, PauseAndLoop,
       PauseAndProbe, ProbeTip, ProbeAnswers, ProbeUnavailable, Judge, envVars
  <2>2. UpInv'
    <3>1. pc' = "backoff" => db # "up" \/ pc = "backoff"
      BY <1>3 DEF Wait, Connected, ConnectFails, Backoff, QueryFinds, QueryMisses, PauseAndLoop,
         PauseAndProbe, ProbeTip, ProbeAnswers, ProbeUnavailable, Judge, Resume
    <3>2. QED
      BY <2>1, <3>1 DEF FoundInv, UpInv
  <2>3. ASSUME faults \subseteq {"probe"} PROVE SeenInv'
    <3>0. db = "up" /\ pc # "backoff" /\ "sql" \notin faults
      BY <2>3 DEF FoundInv, UpInv
    <3>a. \A r \in row : /\ pc = "pause" => now <= r
                         /\ pc \in {"probe", "measure"} => now <= r + Pause
      BY <2>3 DEF FoundInv, SeenInv
    <3>1. CASE \E d \in 0 .. MaxAcquire : Connected(d) \/ ConnectFails(d)
      BY <3>0, <3>1 DEF Connected, ConnectFails, SeenInv
    <3>2. CASE Backoff
      BY <3>0, <3>2 DEF Backoff
    <3>3. CASE \E d \in 0 .. MaxQuery : QueryFinds(d)
      BY <3>3 DEF QueryFinds, SeenInv
    <3>4. CASE \E d \in 0 .. MaxQuery : QueryMisses(d)
      BY <2>1, <3>0, <3>4 DEF QueryMisses, SeenInv
    <3>5. CASE PauseAndLoop
      <4>1. now + Pause \in Nat /\ \A r \in row : now + Pause <= r + Pause + ProbeCap
        BY <1>t, <3>5, <3>a DEF PauseAndLoop
      <4>2. Resume(now + Pause, deadline) /\ now' = now + Pause
        BY <3>5 DEF PauseAndLoop
      <4>3. /\ pc' \in {"connect", "done"}
            /\ \A r \in row' : now' <= r + Pause + ProbeCap /\ now' <= r + Gap
        BY <1>t, <2>1, <4>1, <4>2, ResumeSees
      <4>4. QED
        BY <4>3 DEF SeenInv
    <3>6. CASE PauseAndProbe
      <4>1. \A r \in row' : now' <= r + Pause
        BY <1>t, <2>1, <3>6, <3>a DEF PauseAndProbe
      <4>2. QED
        BY <3>6, <4>1 DEF PauseAndProbe, SeenInv
    <3>7. CASE ProbeTip
      BY <2>1, <3>7, <3>a DEF ProbeTip, SeenInv
    <3>8. ASSUME NEW d \in 0 .. ProbeCap, NEW lag, NEW w, pc = "measure", Judge(now + d, lag, w)
          PROVE  SeenInv'
      <4>1. now + d \in Nat /\ \A r \in row : now + d <= r + Pause + ProbeCap
        BY <1>t, <3>8, <3>a
      <4>2. now' = now + d /\ \E by : Resume(now + d, by)
        BY <3>8 DEF Judge
      <4>3. /\ pc' \in {"connect", "done"}
            /\ \A r \in row' : now' <= r + Pause + ProbeCap /\ now' <= r + Gap
        BY <1>t, <2>1, <4>1, <4>2, ResumeSees
      <4>4. QED
        BY <4>3 DEF SeenInv
    <3>9. QED
      BY <1>3, <3>1, <3>2, <3>3, <3>4, <3>5, <3>6, <3>7, <3>8 DEF Wait, ProbeAnswers, ProbeUnavailable
  <2>4. SeenInv'
    BY <2>1, <2>3 DEF SeenInv
  <2>5. QED
    BY <2>2, <2>4 DEF FoundInv
<1>4. QED
  BY <1>1, <1>2, <1>3 DEF Next, Finished

(* With a reachable database, a row that has been visible for longer than   *)
(* one pass of the loop is never reported missing, for every value of the   *)
(* tunables and whatever the probe does (_waitFor).                         *)
THEOREM RowsAreFound == Spec => []VisibleRowIsFound
<1>1. IInv /\ FoundInv => VisibleRowIsFound
  BY DEF IInv, TypeOK, Lateness, FoundInv, SeenInv, VisibleRowIsFound
<1>2. QED
  BY <1>1, InitIInv, NextIInv, FoundInit, FoundStep, PTL DEF Spec

-----------------------------------------------------------------------------
(* What buys an extension.                                                 *)

Faultless == faults \cap {"probe", "down", "refused"} = {}

\* A probe is asked for within one pass of the loop after it is due.
ProbesInTime ==
    Eligible => /\ pc = "connect" => now <= nextProbeAt
                /\ pc = "query" => now <= nextProbeAt + MaxAcquire
                /\ pc = "pause" => now <= nextProbeAt + MaxAcquire + MaxQuery
                /\ pc \in {"probe", "measure"} => now <= nextProbeAt + MaxAcquire + MaxQuery + Pause

\* A sampled mark behind the writes, or one that moved, has a write to show.
MarksAreWrites ==
    /\ nextProbeAt <= now + ProbeEvery
    /\ \A w \in lastWriteAt : w <= now
    /\ \A m \in writeMark : m <= writes /\ (m < writes => \E w \in lastWriteAt : nextProbeAt <= w + ProbeEvery)
    /\ \A m \in writeMoved : \E w \in lastWriteAt : m <= w + ProbeEvery + Gap

TipsAreSeen == (pc \in {"probe", "measure"} => Eligible) /\ \A x \in tipSeen : x <= tip

EvidenceInv == TipsAreSeen /\ (Faultless => ProbesInTime /\ MarksAreWrites)

\* The step that samples, and what it samples.
LEMMA SampleStep ==
    ASSUME IInv, FoundInv, EvidenceInv, Faultless, NEW d \in 0 .. ProbeCap, ProbeAnswers(d)
    PROVE  /\ EvidenceInv'
           /\ extensions' > extensions =>
                \/ tip - idx > LagBlocks
                \/ \E w \in lastWriteAt : now' - w <= WriteIdle + ProbeEvery + Gap + ProbeCap
<1> DEFINE t == now + d
           lag == {x - idx : x \in tipSeen}
           w0 == IF writes = 0 THEN {} ELSE {writes}
<1>t. /\ now \in Nat /\ t \in Nat /\ nextProbeAt \in Nat /\ writes \in Nat /\ tip \in Nat /\ idx \in Nat
      /\ lastWriteAt \subseteq Nat /\ writeMark \subseteq Nat /\ writeMoved \subseteq Nat
      /\ tipSeen \subseteq Nat /\ extensions \in Nat
      /\ \A x, y \in writeMark : x = y
      /\ ProbeEvery \in Nat /\ WriteIdle \in Nat /\ Gap \in Nat
      /\ Gap = MaxQuery + Pause + ProbeCap + MaxAcquire
  BY Sizes DEF IInv, TypeOK, AtMostOne, Gap
<1>j. /\ pc = "measure" /\ Judge(t, lag, w0)
      /\ now' = t /\ nextProbeAt' = t + ProbeEvery /\ pc' \in {"connect", "done"}
      /\ writeMoved' = Moved(w0, t) /\ writeMark' = Mark(w0) /\ tipSeen' = {}
      /\ UNCHANGED <<tip, idx, writes, lastWriteAt, faults>>
  BY DEF ProbeAnswers, Judge, Resume, envVars
<1>1. t <= nextProbeAt + Gap
  BY <1>t, <1>j DEF EvidenceInv, TipsAreSeen, ProbesInTime
<1>2. \A m \in writeMoved' : \E w \in lastWriteAt : m <= w + ProbeEvery + Gap
  <2>1. CASE \E x \in w0, m \in writeMark : x > m
    <3>1. PICK m \in writeMark : writes > m
      BY <2>1
    <3>2. PICK w \in lastWriteAt : nextProbeAt <= w + ProbeEvery
      BY <1>t, <3>1 DEF EvidenceInv, MarksAreWrites
    <3>3. t <= w + ProbeEvery + Gap
      BY <1>t, <1>1, <3>2
    <3>4. writeMoved' = {t}
      BY <1>j, <2>1 DEF Moved
    <3>5. QED
      BY <3>2, <3>3, <3>4
  <2>2. CASE ~\E x \in w0, m \in writeMark : x > m
    BY <1>j, <2>2 DEF Moved, EvidenceInv, MarksAreWrites
  <2>3. QED
    BY <2>1, <2>2
<1>3. \A m \in writeMark' : m = writes
  <2>1. CASE w0 # {} /\ \A m \in writeMark : \E x \in w0 : x > m
    <3>1. writeMark' = w0 /\ w0 = {writes}
      BY <1>j, <2>1 DEF Mark
    <3>2. QED
      BY <3>1
  <2>2. CASE w0 = {}
    <3>1. writes = 0 /\ writeMark' = writeMark
      BY <1>j, <2>2 DEF Mark
    <3>2. QED
      BY <1>t, <3>1 DEF EvidenceInv, MarksAreWrites
  <2>3. CASE w0 # {} /\ \E m \in writeMark : ~(\E x \in w0 : x > m)
    <3>1. PICK m \in writeMark : ~(writes > m)
      BY <2>3
    <3>2. writeMark' = writeMark
      BY <1>j, <2>3 DEF Mark
    <3>3. m = writes
      BY <1>t, <3>1 DEF EvidenceInv, MarksAreWrites
    <3>4. QED
      BY <1>t, <3>1, <3>2, <3>3
  <2>4. QED
    BY <2>1, <2>2, <2>3
<1>4. EvidenceInv'
  <2>1. ProbesInTime'
    BY <1>t, <1>j DEF ProbesInTime
  <2>2. \A w \in lastWriteAt : w <= t
    BY <1>t DEF EvidenceInv, MarksAreWrites
  <2>3. MarksAreWrites'
    <3>1. \A w \in lastWriteAt' : w <= now'
      BY <1>j, <2>2
    <3>0. writes' = writes /\ writes \in Nat
      BY <1>t, <1>j
    <3>2. \A m \in writeMark' : m <= writes' /\ ~(m < writes')
      BY <1>3, <3>0
    <3>3. \A m \in writeMoved' : \E w \in lastWriteAt' : m <= w + ProbeEvery + Gap
      <4>1. ASSUME NEW m \in writeMoved' PROVE \E w \in lastWriteAt' : m <= w + ProbeEvery + Gap
        <5>1. PICK w \in lastWriteAt : m <= w + ProbeEvery + Gap
          BY <1>2, <4>1
        <5>2. lastWriteAt' = lastWriteAt
          BY <1>j
        <5>3. QED
          BY <5>1, <5>2
      <4>2. QED
        BY <4>1
    <3>5. nextProbeAt' <= now' + ProbeEvery
      BY <1>t, <1>j
    <3>6. \A m \in writeMark' : m < writes' => \E w \in lastWriteAt' : nextProbeAt' <= w + ProbeEvery
      BY <3>2
    <3>4. QED
      BY <3>1, <3>2, <3>3, <3>5, <3>6 DEF MarksAreWrites
  <2>4. TipsAreSeen'
    BY <1>j DEF TipsAreSeen
  <2>5. QED
    BY <2>1, <2>3, <2>4 DEF EvidenceInv
<1>5. ASSUME extensions' > extensions
      PROVE  \/ tip - idx > LagBlocks
             \/ \E w \in lastWriteAt : now' - w <= WriteIdle + ProbeEvery + Gap + ProbeCap
  <2>1. Behind(lag) \/ Writing(Moved(w0, t), t)
    BY <1>t, <1>j, <1>5 DEF Judge
  <2>2. CASE Behind(lag)
    <3>1. PICK x \in tipSeen : x - idx > LagBlocks
      BY <2>2 DEF Behind
    <3>2. x <= tip
      BY <3>1 DEF EvidenceInv, TipsAreSeen
    <3>3. QED
      BY <1>t, <3>1, <3>2
  <2>3. CASE Writing(Moved(w0, t), t)
    <3>1. PICK m \in writeMoved' : t - m <= WriteIdle
      BY <1>j, <2>3 DEF Writing
    <3>2. PICK w \in lastWriteAt : m <= w + ProbeEvery + Gap
      BY <1>2, <3>1
    <3>3. m \in Nat
      BY <1>t, <1>j, <3>1 DEF Moved
    <3>4. t - w <= WriteIdle + ProbeEvery + Gap + ProbeCap
      BY <1>t, <3>1, <3>2, <3>3
    <3>5. QED
      BY <1>j, <3>2, <3>4
  <2>4. QED
    BY <2>1, <2>2, <2>3
<1>6. QED
  BY <1>4, <1>5

LEMMA EvidenceInit == Init => EvidenceInv
<1> SUFFICES ASSUME Init PROVE EvidenceInv
  OBVIOUS
<1>1. now = 0 /\ nextProbeAt = ProbeEvery /\ ProbeEvery \in Nat /\ pc \in {"connect", "done"}
      /\ tipSeen = {} /\ writeMark = {} /\ writeMoved = {} /\ lastWriteAt = {}
  BY Sizes DEF Init
<1>2. QED
  BY <1>1 DEF EvidenceInv, TipsAreSeen, ProbesInTime, MarksAreWrites

LEMMA Later ==
    ASSUME NEW a \in Nat, NEW b \in Nat, NEW c \in Nat, NEW k \in Nat, a <= b + k, b <= c
    PROVE  a <= c + k
OBVIOUS

LEMMA EvidenceStep ==
    ASSUME IInv, FoundInv, EvidenceInv, [Next]_vars
    PROVE  /\ EvidenceInv'
           /\ extensions' > extensions /\ Faultless =>
                \/ tip - idx > LagBlocks
                \/ \E w \in lastWriteAt : now' - w <= WriteIdle + ProbeEvery + Gap + ProbeCap
<1>t. /\ now \in Nat /\ nextProbeAt \in Nat /\ writes \in Nat /\ tip \in Nat
      /\ lastWriteAt \subseteq Nat /\ writeMark \subseteq Nat /\ writeMoved \subseteq Nat
      /\ tipSeen \subseteq Nat /\ extensions \in Nat
      /\ ProbeEvery \in Nat
  BY Sizes DEF IInv, TypeOK, AtMostOne
<1>x. ~(extensions > extensions)
  BY <1>t
<1>1. CASE UNCHANGED vars
  BY <1>1, <1>x DEF vars, loopVars, probeVars, envVars, EvidenceInv, TipsAreSeen, Faultless, ProbesInTime,
     MarksAreWrites
<1>2. CASE Venue
  <2>1. UNCHANGED <<now, pc, loopVars, probeVars, faults>>
    BY <1>2 DEF Venue, MineBlock, IndexBlock, WriteAction, DbChanges
  <2>2. \/ UNCHANGED <<writes, lastWriteAt>> /\ tip' \in {tip, tip + 1}
        \/ writes' = writes + 1 /\ lastWriteAt' = {now} /\ tip' = tip
    BY <1>2 DEF Venue, MineBlock, IndexBlock, WriteAction, DbChanges
  <2>3. TipsAreSeen'
    BY <1>t, <2>1, <2>2 DEF probeVars, EvidenceInv, TipsAreSeen
  <2>4. Faultless => ProbesInTime'
    BY <2>1 DEF loopVars, EvidenceInv, ProbesInTime
  <2>5. ASSUME Faultless PROVE MarksAreWrites'
    <3>1. UNCHANGED <<now, writeMark, writeMoved, nextProbeAt>>
      BY <2>1 DEF loopVars
    <3>2. MarksAreWrites /\ Gap \in Nat
      BY <2>5 DEF EvidenceInv, Gap
    <3>3. CASE UNCHANGED <<writes, lastWriteAt>>
      BY <3>1, <3>2, <3>3 DEF MarksAreWrites
    <3>4. CASE writes' = writes + 1 /\ lastWriteAt' = {now}
      <4>1. \A w \in lastWriteAt : w \in Nat /\ w <= now
        BY <1>t, <3>2 DEF MarksAreWrites
      <4>2. \A m \in writeMark : m <= writes'
        BY <1>t, <3>2, <3>4 DEF MarksAreWrites
      <4>3. nextProbeAt <= now + ProbeEvery
        BY <3>2 DEF MarksAreWrites
      <4>4. \A m \in writeMoved : m <= now + ProbeEvery + Gap
        BY <1>t, <3>2, <4>1 DEF MarksAreWrites
      <4>5. QED
        BY <1>t, <3>1, <3>4, <4>2, <4>3, <4>4 DEF MarksAreWrites
    <3>5. QED
      BY <2>2, <3>3, <3>4
  <2>6. QED
    BY <1>x, <2>1, <2>3, <2>4, <2>5 DEF loopVars, EvidenceInv, Faultless
<1>3. CASE \E d \in 0 .. ProbeCap : ProbeAnswers(d) \/ ProbeUnavailable(d)
  <2>1. PICK d \in 0 .. ProbeCap : ProbeAnswers(d) \/ ProbeUnavailable(d)
    BY <1>3
  <2>2. CASE Faultless
    <3>1. ProbeAnswers(d)
      BY <2>1, <2>2 DEF ProbeUnavailable, FoundInv, UpInv, Faultless
    <3>2. QED
      BY <2>2, <3>1, SampleStep
  <2>3. CASE ~Faultless
    <3>1. faults' = faults /\ tipSeen' = {} /\ pc' \in {"connect", "done"}
      BY <2>1 DEF ProbeAnswers, ProbeUnavailable, Judge, Resume, envVars
    <3>2. QED
      BY <2>3, <3>1 DEF EvidenceInv, TipsAreSeen, Faultless
  <2>4. QED
    BY <2>2, <2>3
<1>4. CASE /\ Wait /\ ~\E d \in 0 .. ProbeCap : ProbeAnswers(d) \/ ProbeUnavailable(d)
  <2>0. UNCHANGED <<loopVars, envVars>>
    BY <1>4 DEF Wait, Connected, ConnectFails, Backoff, QueryFinds, QueryMisses, PauseAndLoop,
       PauseAndProbe, ProbeTip
  <2>1. now' \in Nat /\ now <= now'
    BY <1>t, <1>4, Sizes DEF Wait, Connected, ConnectFails, Backoff, QueryFinds, QueryMisses, PauseAndLoop,
       PauseAndProbe, ProbeTip
  <2>2. TipsAreSeen'
    <3>0. \A x \in tipSeen : x <= tip
      BY DEF EvidenceInv, TipsAreSeen
    <3>m. tipSeen' \in {tipSeen, {tip}, {}}
      BY <1>4 DEF Wait, Connected, ConnectFails, Backoff, QueryFinds, QueryMisses, PauseAndLoop,
         PauseAndProbe, ProbeTip, probeVars
    <3>1. \A x \in tipSeen' : x <= tip
      BY <1>t, <3>0, <3>m
    <3>2. pc' \in {"probe", "measure"} => Eligible
      BY <1>4 DEF Wait, Connected, ConnectFails, Backoff, QueryFinds, QueryMisses, PauseAndLoop,
         PauseAndProbe, ProbeTip, Resume, NoProbe, EvidenceInv, TipsAreSeen
    <3>3. QED
      BY <2>0, <3>1, <3>2 DEF envVars, TipsAreSeen
  <2>3. Faultless => MarksAreWrites'
    <3>1. UNCHANGED <<writes, lastWriteAt, writeMark, writeMoved, nextProbeAt>>
      BY <2>0 DEF loopVars, envVars
    <3>2. ASSUME MarksAreWrites PROVE MarksAreWrites'
      <4>1. \A w \in lastWriteAt : w \in Nat /\ w <= now'
        BY <1>t, <2>1, <3>2 DEF MarksAreWrites
      <4>2. nextProbeAt <= now' + ProbeEvery
        <5>1. now \in Nat /\ now' \in Nat /\ now <= now' /\ nextProbeAt \in Nat /\ ProbeEvery \in Nat
          BY <1>t, <2>1
        <5>2. nextProbeAt <= now + ProbeEvery
          BY <3>2 DEF MarksAreWrites
        <5>3. QED
          BY <5>1, <5>2, Later
      <4>3. QED
        BY <3>1, <3>2, <4>1, <4>2 DEF MarksAreWrites
    <3>3. QED
      BY <3>2 DEF EvidenceInv
  <2>4. ASSUME Faultless, Eligible PROVE ProbesInTime'
    <3>0. db = "up" /\ pc # "backoff"
      BY <2>4 DEF FoundInv, UpInv, Faultless
    <3>p. ProbesInTime
      BY <2>4 DEF EvidenceInv
    <3>n. nextProbeAt' = nextProbeAt
      BY <2>0 DEF loopVars
    <3>1. CASE \E d \in 0 .. MaxAcquire : Connected(d) \/ ConnectFails(d)
      BY <1>t, <2>4, <3>0, <3>1, <3>n, <3>p DEF Connected, ConnectFails, ProbesInTime
    <3>2. CASE Backoff
      BY <3>0, <3>2 DEF Backoff
    <3>3. CASE \E d \in 0 .. MaxQuery : QueryFinds(d) \/ QueryMisses(d)
      BY <1>t, <2>4, <3>3, <3>n, <3>p DEF QueryFinds, QueryMisses, ProbesInTime
    <3>4. CASE PauseAndLoop
      <4>1. now' = now + Pause /\ Resume(now + Pause, deadline) /\ NoProbe(now + Pause)
        BY <3>4 DEF PauseAndLoop
      <4>2. pc' = "connect" => now + Pause < deadline
        BY <4>1 DEF Resume
      <4>3. pc' = "connect" => now + Pause < nextProbeAt
        BY <2>4, <4>1, <4>2 DEF NoProbe, IInv, TypeOK
      <4>4. pc' \in {"connect", "done"}
        BY <4>1 DEF Resume
      <4>5. QED
        BY <1>t, <3>n, <4>1, <4>3, <4>4 DEF ProbesInTime
    <3>5. CASE PauseAndProbe
      BY <1>t, <2>4, <3>5, <3>n, <3>p DEF PauseAndProbe, ProbesInTime
    <3>6. CASE ProbeTip
      BY <1>t, <2>4, <3>6, <3>n, <3>p DEF ProbeTip, ProbesInTime
    <3>7. QED
      BY <1>4, <3>1, <3>2, <3>3, <3>4, <3>5, <3>6 DEF Wait
  <2>5. Faultless => ProbesInTime'
    BY <2>4 DEF ProbesInTime, Eligible
  <2>6. QED
    BY <1>x, <2>0, <2>2, <2>3, <2>5 DEF loopVars, envVars, EvidenceInv, Faultless
<1>5. QED
  BY <1>1, <1>2, <1>3, <1>4 DEF Next, Finished

(* An extension is granted only to an indexer that is behind the chain, or  *)
(* after an action row written within the idle window and one sampling      *)
(* period, for every value of the tunables: empty blocks buy nothing        *)
(* (_waitFor, _probePipeline).                                              *)
THEOREM ExtensionsAreEarned == Spec => ExtensionsNeedEvidence
<1>1. ASSUME IInv, FoundInv, EvidenceInv, [Next]_vars
      PROVE  [(extensions' > extensions /\ faults \cap {"probe", "down", "refused"} = {}) =>
                  \/ tip - idx > LagBlocks
                  \/ \E w \in lastWriteAt : now' - w <= WriteIdle + ProbeEvery + Gap + ProbeCap]_vars
  BY <1>1, EvidenceStep DEF Faultless
<1>2. IInv /\ FoundInv /\ EvidenceInv /\ [Next]_vars => EvidenceInv'
  BY EvidenceStep
<1>3. QED
  BY <1>1, <1>2, InitIInv, NextIInv, FoundInit, FoundStep, EvidenceInit, PTL DEF Spec, ExtensionsNeedEvidence

-----------------------------------------------------------------------------
(* The rows.  A parameter's kind says what its clause accepts; which kinds *)
(* a method has is read off its definition.                                *)

Plain == {"exact", "memo", "truthy", "hex", "number", "amount", "ignored"}

Fits(f) == \A c \in DOMAIN f :
    /\ c # "items"
    /\ f[c] \in Plain \/ (f[c] = "flag" /\ c = "deactivated")
    /\ c = "deactivated" => f[c] = "flag"

LEMMA AsFits ==
    ASSUME NEW kind \in Plain, NEW C, "items" \notin C, "deactivated" \notin C
    PROVE  Fits(As(kind, C))
BY DEF Fits, As

LEMMA FlagFits == Fits(As("flag", {"deactivated"}))
BY DEF Fits, As

LEMMA JoinFits ==
    ASSUME NEW f, NEW g, Fits(f), Fits(g)
    PROVE  Fits(f ++ g)
<1>1. DOMAIN (f ++ g) = (DOMAIN f) \cup (DOMAIN g)
  BY DEF ++
<1>2. \A c \in DOMAIN (f ++ g) : (f ++ g)[c] = IF c \in DOMAIN f THEN f[c] ELSE g[c]
  BY DEF ++
<1>. DEFINE h == f ++ g
<1>3. \A c \in DOMAIN h : (c \in DOMAIN f /\ h[c] = f[c]) \/ (c \in DOMAIN g /\ h[c] = g[c])
  BY <1>1, <1>2
<1>. HIDE DEF h
<1>4. Fits(h)
  BY <1>3 DEF Fits
<1>5. QED
  BY <1>4 DEF h

\* Every method but the two with a parameter of their own kind.
LEMMA MethodFits ==
    ASSUME NEW m \in DOMAIN Check, m # "list", m # "dispenser"
    PROVE  Fits(Check[m])
<1>1. /\ Fits(checkCredit) /\ Fits(checkDebit) /\ Fits(checkDispense)
      /\ Fits(checkDispenserStatus)
  BY AsFits DEF checkCredit, checkDebit, checkDispense, checkDispenserStatus, Plain
<1>2. /\ Fits(checkAddressOption) /\ Fits(checkMessage) /\ Fits(checkPrice)
      /\ Fits(checkFile)
  BY AsFits DEF checkAddressOption, checkMessage, checkPrice, checkFile, Plain
<1>3. /\ Fits(checkSleep) /\ Fits(checkSweep) /\ Fits(checkDividend)
      /\ Fits(checkCallback)
  BY AsFits DEF checkSleep, checkSweep, checkDividend, checkCallback, Plain
<1>4. Fits(checkSwap) /\ Fits(checkSwapMatch) /\ Fits(checkBatch) /\ Fits(checkLink)
  BY AsFits DEF checkSwap, checkSwapMatch, checkBatch, checkLink, Plain
<1>5. /\ Fits(checkCoinpay) /\ Fits(checkCoinpayObligation) /\ Fits(checkContract)
      /\ Fits(checkExecution)
  BY AsFits DEF checkCoinpay, checkCoinpayObligation, checkContract, checkExecution, Plain
<1>6. Fits(checkDeposit) /\ Fits(checkWithdrawal) /\ Fits(checkRewardClaim)
  BY AsFits DEF checkDeposit, checkWithdrawal, checkRewardClaim, Plain
<1>7. Fits(checkIssue) /\ Fits(checkSend) /\ Fits(checkMint)
  BY AsFits, JoinFits DEF checkIssue, checkSend, checkMint, Plain
<1>8. Fits(checkBroadcast) /\ Fits(checkAirdrop) /\ Fits(checkDestroy)
  BY AsFits, JoinFits DEF checkBroadcast, checkAirdrop, checkDestroy, Plain
<1>9. Fits(checkOrder) /\ Fits(checkOrderMatch) /\ Fits(checkStake)
  BY AsFits, JoinFits DEF checkOrder, checkOrderMatch, checkStake, Plain
<1>10. /\ Fits(checkUnstake) /\ Fits(checkAttestationRequest)
       /\ Fits(checkAttestationResponse)
  BY AsFits, JoinFits DEF checkUnstake, checkAttestationRequest, checkAttestationResponse, Plain
<1>11. Fits(checkStakeKeyRevocation)
  BY AsFits, JoinFits DEF checkStakeKeyRevocation, Plain
<1>12. Fits(checkContractStake)
  BY AsFits, JoinFits DEF checkContractStake, Plain
<1>13. Fits(checkContractUnstake)
  BY AsFits, JoinFits DEF checkContractUnstake, Plain
<1>14. Fits(checkContractDelegation)
  BY AsFits, JoinFits DEF checkContractDelegation, Plain
<1>15. Fits(checkSlashEvent)
  BY AsFits, JoinFits DEF checkSlashEvent, Plain
<1>16. Fits(checkDelegation)
  <2>1. Fits(As("hex", {"signingPubkey"})) /\ Fits(As("truthy", {"source", "txHash", "status"}))
    BY AsFits DEF Plain
  <2>2. QED
    BY <2>1, FlagFits, JoinFits DEF checkDelegation
<1>17. QED
  BY <1>1, <1>2, <1>3, <1>4, <1>5, <1>6, <1>7, <1>8, <1>9, <1>10, <1>11, <1>12, <1>13, <1>14, <1>15, <1>16 DEF Check

\* The kind of each parameter of each method.
LEMMA KindIs ==
    ASSUME NEW m \in DOMAIN Check, NEW c \in DOMAIN Check[m]
    PROVE  \/ Check[m][c] \in Plain /\ c # "deactivated" /\ c # "items"
           \/ Check[m][c] = "flag" /\ c = "deactivated"
           \/ Check[m][c] = "items" /\ c = "items" /\ m = "list"
           \/ Check[m][c] = "own" /\ c = "getAddress" /\ m = "dispenser"
<1>1. CASE m = "list"
  <2>1. Fits(As("memo", {"memo"}))
    BY AsFits DEF Plain
  <2>2. Fits(As("exact", {"blockIndex", "txHash", "source", "type", "edit", "listActionIndex", "status"}))
    BY AsFits DEF Plain
  <2>3. Check[m] = checkList
    BY <1>1 DEF Check
  <2>4. QED
    BY <1>1, <2>1, <2>2, <2>3 DEF checkList, Fits, ++, As, Plain
<1>2. CASE m = "dispenser"
  <2>1. Check[m] = checkDispenser
    BY <1>2 DEF Check
  <2>2. QED
    BY <1>2, <2>1 DEF checkDispenser, ++, As, Plain
<1>3. CASE m # "list" /\ m # "dispenser"
  BY <1>3, MethodFits DEF Fits
<1>4. QED
  BY <1>1, <1>2, <1>3

\* What a call asks, and what a poll leaves: every row answered matches, and
\* null means that none did or that a matching list had other items.
CallInv ==
    /\ method \in DOMAIN Check
    /\ DOMAIN request \subseteq DOMAIN Check[method]
    /\ \A c \in DOMAIN request : request[c] \in Given[Check[method][c]] \cup Omitted(c)
    /\ \A r \in table : DOMAIN r = DOMAIN request
    /\ answer \subseteq {r \in table : Matches(r) /\ ItemsAgree(r)}
    /\ answered /\ answer = {} /\ HasWhere =>
           \/ \A r \in table : ~Matches(r)
           \/ \E s \in table : Matches(s) /\ ~ItemsAgree(s)

LEMMA CallInit == CheckInit => CallInv
<1> SUFFICES ASSUME CheckInit PROVE CallInv
  OBVIOUS
<1>1. PICK C \in SUBSET (DOMAIN Check[method]) :
        /\ request \in Requests(C)
        /\ \A r \in table : r \in RowsOver(C)
  <2>1. PICK f \in [1..AtOnce -> DOMAIN Check[method]] :
          LET D == {f[i] : i \in 1..AtOnce} IN
          /\ request \in Requests(D)
          /\ \E t \in [1..RowCount -> RowsOver(D)] : table = {t[i] : i \in 1..RowCount}
    BY DEF CheckInit
  <2>. DEFINE D == {f[i] : i \in 1..AtOnce}
  <2>2. D \subseteq DOMAIN Check[method]
    BY <2>1
  <2>3. request \in Requests(D) /\ \E t \in [1..RowCount -> RowsOver(D)] : table = {t[i] : i \in 1..RowCount}
    BY <2>1
  <2>. HIDE DEF D
  <2>4. \A r \in table : r \in RowsOver(D)
    BY <2>3
  <2>5. QED
    BY <2>2, <2>3, <2>4
<1>2. DOMAIN request = C /\ \A c \in C : request[c] \in Given[Check[method][c]] \cup Omitted(c)
  BY <1>1 DEF Requests
<1>3. \A r \in table : DOMAIN r = C
  BY <1>1 DEF RowsOver
<1>4. method \in DOMAIN Check /\ answer = {} /\ answered = FALSE
  BY CallersAssumption DEF CheckInit
<1>5. QED
  BY <1>2, <1>3, <1>4 DEF CallInv

LEMMA CallStep == CallInv /\ [CheckNext]_checkVars => CallInv'
<1> SUFFICES ASSUME CallInv, [CheckNext]_checkVars PROVE CallInv'
  OBVIOUS
<1>1. UNCHANGED <<method, request, table>>
  BY DEF CheckNext, Poll, Answered, checkVars
<1>2. /\ \A r : Matches(r)' <=> Matches(r)
      /\ \A r : ItemsAgree(r)' <=> ItemsAgree(r)
      /\ HasWhere' <=> HasWhere
  BY <1>1 DEF Matches, ItemsAgree, HasWhere, OwnAddress, Asked, Always
<1>3. CASE UNCHANGED checkVars
  BY <1>1, <1>2, <1>3 DEF CallInv, checkVars
<1>4. CASE Poll
  <2>. DEFINE rows == {r \in table : HasWhere /\ Matches(r)}
  <2>1. \/ \E r \in rows : answer' = {x \in {r} : ItemsAgree(x)}
        \/ rows = {} /\ answer' = {}
    BY <1>4 DEF Poll
  <2>2. answer' \subseteq {r \in table : Matches(r) /\ ItemsAgree(r)}
    BY <2>1
  <2>3. ASSUME answer' = {}, HasWhere
        PROVE  \/ \A r \in table : ~Matches(r)
               \/ \E s \in table : Matches(s) /\ ~ItemsAgree(s)
    <3>1. CASE rows = {}
      BY <2>3, <3>1
    <3>2. ASSUME NEW r \in rows, answer' = {x \in {r} : ItemsAgree(x)}
          PROVE  Matches(r) /\ ~ItemsAgree(r) /\ r \in table
      BY <2>3, <3>2
    <3>3. QED
      BY <2>1, <3>1, <3>2
  <2>4. QED
    BY <1>1, <1>2, <2>2, <2>3 DEF CallInv
<1>5. QED
  BY <1>3, <1>4 DEF CheckNext, Answered

LEMMA CallAlways == CheckSpec => []CallInv
BY CallInit, CallStep, PTL DEF CheckSpec

\* On what callers give, the clause of a parameter says what they mean by it.
LEMMA ClauseMeans ==
    ASSUME CallInv, NEW c \in DOMAIN request, NEW v,
           Check[method][c] \in Plain \cup {"flag"}
    PROVE  Passes(Check[method][c], request[c], v) <=> Means(c, request[c], v)
<1>. DEFINE k == Check[method][c]
            q == request[c]
<1>1. c # "items" /\ k \in Kinds /\ (k = "flag" <=> c = "deactivated")
  BY KindIs DEF CallInv, Plain, Kinds
<1>2. q = "none" \/ q \in Given[k]
  BY <1>1 DEF CallInv, Omitted
<1>3. /\ q \in Values
      /\ k # "ignored" => /\ q = "empty" => k \in {"memo", "truthy", "own"}
                          /\ q = "zero" => k \in {"number", "flag"}
                          /\ q = "respeltA" => k \in {"hex", "amount"}
      /\ k = "flag" => q \in {"none", "A", "zero"}
  BY <1>1, <1>2, CallersAssumption, RowChecksAssumption DEF Values
<1>. HIDE DEF k, q
<1>4. Means(c, q, v) <=>
        ((q # "none" /\ k # "ignored") =>
            /\ c = "deactivated" => ((v # "null") <=> (q = "A"))
            /\ q = "empty" => (k = "memo" => v = "null")
            /\ c # "deactivated" /\ q # "empty" => v = Respell(q))
  BY DEF Means, k
<1>5. Passes(k, q, v) <=> Means(c, q, v)
  <2>. USE DEF Passes, Memo, Number, Hex, Respell, Falsy
  <2>1. CASE k = "ignored"
    BY <1>4, <2>1
  <2>2. CASE k \in {"exact", "truthy", "number"}
    BY <1>1, <1>3, <1>4, <2>2 DEF Values
  <2>3. CASE k = "memo"
    BY <1>1, <1>3, <1>4, <2>3 DEF Values
  <2>4. CASE k \in {"hex", "amount"}
    BY <1>1, <1>3, <1>4, <2>4 DEF Values
  <2>5. CASE k = "flag"
    BY <1>1, <1>3, <1>4, <2>5
  <2>6. QED
    BY <2>1, <2>2, <2>3, <2>4, <2>5 DEF k, Plain
<1>6. QED
  BY <1>5 DEF k, q

\* A parameter that is not given lets every row through.
LEMMA NotAsked ==
    ASSUME CallInv, NEW r \in table, NEW c \in DOMAIN Check[method], c \notin DOMAIN request
    PROVE  /\ Passes(Check[method][c], Asked(c), Column(r, c))
           /\ c = "items" => Column(r, c) = Asked(c)
<1>. DEFINE k == Check[method][c]
<1>1. /\ Column(r, c) = "A" /\ Asked(c) \in {"none", "A"}
      /\ c = "items" => Asked(c) = "A"
  BY KindIs DEF CallInv, Asked, Column, Always, Plain
<1>2. k \in Kinds /\ (k = "items" <=> c = "items")
  BY KindIs DEF CallInv, Plain, Kinds
<1>. HIDE DEF k
<1>3. Passes(k, Asked(c), Column(r, c))
  BY <1>1, <1>2 DEF Passes, Memo, Number, Hex, Respell, Falsy, Kinds
<1>4. QED
  BY <1>1, <1>3 DEF k

\* What a parameter that is given asks of a row.
LEMMA IsAsked ==
    ASSUME CallInv, NEW r \in table, NEW c \in DOMAIN request,
           method = "dispenser" => OwnAddress(r)
    PROVE  (Passes(Check[method][c], Asked(c), Column(r, c)) /\ (c = "items" => Column(r, c) = Asked(c)))
               <=> Means(c, request[c], r[c])
<1>. DEFINE k == Check[method][c]
            q == request[c]
            v == r[c]
<1>1. Asked(c) = q /\ Column(r, c) = v
  BY DEF CallInv, Asked, Column
<1>2. \/ k \in Plain \cup {"flag"} /\ c # "items"
      \/ k = "items" /\ c = "items" /\ method = "list"
      \/ k = "own" /\ c = "getAddress" /\ method = "dispenser"
  BY KindIs DEF CallInv
<1>3. k = "items" => q \in {"A", "B"}
  <2>1. ASSUME k = "items" PROVE q \in Given["items"]
    <3>1. q \in Given[k] \cup Omitted(c)
      BY DEF CallInv
    <3>2. Omitted(c) = {}
      BY <1>2, <2>1 DEF Omitted, Plain
    <3>3. QED
      BY <2>1, <3>1, <3>2
  <2>2. Given["items"] \subseteq {"A", "B"}
    BY CallersAssumption, RowChecksAssumption DEF Values, Kinds
  <2>3. QED
    BY <2>1, <2>2
<1>4. k = "own" => q \in {"none", "empty", "A", "B"}
  BY <1>2, CallersAssumption, RowChecksAssumption DEF CallInv, Omitted, Values, Kinds
<1>5. Means(c, q, v) <=>
        ((q # "none" /\ k # "ignored") =>
            /\ c = "deactivated" => ((v # "null") <=> (q = "A"))
            /\ q = "empty" => (k = "memo" => v = "null")
            /\ c # "deactivated" /\ q # "empty" => v = Respell(q))
  BY DEF Means
<1>6. CASE k \in Plain \cup {"flag"} /\ c # "items"
  BY <1>1, <1>6, ClauseMeans
<1>7. CASE k = "items" /\ c = "items"
  <2>1. Passes(k, Asked(c), Column(r, c))
    BY <1>7 DEF Passes
  <2>. HIDE DEF k, q, v
  <2>2. Means(c, q, v) <=> v = q
    BY <1>3, <1>5, <1>7 DEF Respell
  <2>3. QED
    BY <1>1, <1>7, <2>1, <2>2 DEF k, q, v
<1>8. CASE k = "own" /\ c = "getAddress" /\ method = "dispenser"
  <2>1. Passes(k, Asked(c), Column(r, c))
    BY <1>8 DEF Passes
  <2>2. q \in Falsy \/ v = q
    BY <1>1, <1>8 DEF OwnAddress
  <2>. HIDE DEF k, q, v
  <2>3. Means(c, q, v)
    BY <1>4, <1>5, <1>8, <2>2 DEF Respell, Falsy
  <2>4. QED
    BY <1>8, <2>1, <2>3 DEF k, q, v
<1>9. QED
  BY <1>2, <1>6, <1>7, <1>8

\* checkList is the method that takes items.
LEMMA ListTakesItems ==
    ASSUME NEW m \in DOMAIN Check
    PROVE  m = "list" => "items" \in DOMAIN Check[m]
<1>1. ASSUME m = "list" PROVE Check[m] = checkList
  BY <1>1 DEF Check
<1>2. QED
  BY <1>1 DEF checkList, ++, As

\* The rows a poll may answer are the rows the caller means, of a type whose
\* items the method can name.
NamesItems == method = "list" => Asked("type") \in ItemTypes

LEMMA MatchIsWanted ==
    ASSUME CallInv, NEW r \in table
    PROVE  (Matches(r) /\ ItemsAgree(r)) <=> (Wanted(r) /\ NamesItems)
<1>1. ASSUME Matches(r), ItemsAgree(r) PROVE Wanted(r) /\ NamesItems
  <2>1. method = "dispenser" => OwnAddress(r)
    BY <1>1 DEF Matches
  <2>2. ASSUME NEW c \in DOMAIN request PROVE Means(c, request[c], r[c])
    <3>1. c \in DOMAIN Check[method] /\ Passes(Check[method][c], Asked(c), Column(r, c))
      BY <1>1 DEF Matches, CallInv
    <3>2. c = "items" => Column(r, c) = Asked(c)
      BY <1>1, <3>1, KindIs DEF ItemsAgree, CallInv, Plain
    <3>3. QED
      BY <2>1, <3>1, <3>2, IsAsked
  <2>3. NamesItems
    BY <1>1 DEF ItemsAgree, NamesItems
  <2>4. QED
    BY <2>1, <2>2, <2>3 DEF Wanted
<1>2. ASSUME Wanted(r), NamesItems PROVE Matches(r) /\ ItemsAgree(r)
  <2>1. method = "dispenser" => OwnAddress(r)
    BY <1>2 DEF Wanted
  <2>2. ASSUME NEW c \in DOMAIN Check[method]
        PROVE  /\ Passes(Check[method][c], Asked(c), Column(r, c))
               /\ c = "items" => Column(r, c) = Asked(c)
    <3>1. CASE c \in DOMAIN request
      BY <1>2, <2>1, <3>1, IsAsked DEF Wanted
    <3>2. CASE c \notin DOMAIN request
      BY <3>2, NotAsked
    <3>3. QED
      BY <3>1, <3>2
  <2>3. ItemsAgree(r)
    BY <1>2, <2>2, ListTakesItems DEF ItemsAgree, NamesItems, CallInv
  <2>4. QED
    BY <2>1, <2>2, <2>3 DEF Matches
<1>3. QED
  BY <1>1, <1>2

(* Whatever a check method answers has every value the caller gave and the *)
(* method filters on, for requests of any number of parameters and tables  *)
(* of any number of rows, on the values callers give.                      *)
THEOREM AnswersAreAsked == CheckSpec => []AnswersWhatWasAsked
<1>1. CallInv => AnswersWhatWasAsked
  <2> SUFFICES ASSUME CallInv, NEW r \in answer PROVE Wanted(r)
    BY DEF AnswersWhatWasAsked
  <2>1. r \in table /\ Matches(r) /\ ItemsAgree(r)
    BY DEF CallInv
  <2>2. QED
    BY <2>1, MatchIsWanted
<1>2. QED
  BY <1>1, CallAlways, PTL

(* A row the request describes is found, with hex asked for in the other   *)
(* case or an amount padded; a list is, when its type is one whose items   *)
(* checkList can name, unless another list matches and is looked at first. *)
THEOREM NothingIsOverlooked == CheckSpec => []FindsWhatIsThere
<1>1. CallInv => FindsWhatIsThere
  <2> SUFFICES ASSUME CallInv, answered, answer = {}, HasWhere, NamesItems,
                      NEW r \in table, Wanted(r)
               PROVE  \E s \in table \ {r} : method = "list" /\ Matches(s)
    BY DEF FindsWhatIsThere, NamesItems
  <2>1. Matches(r) /\ ItemsAgree(r)
    BY MatchIsWanted
  <2>2. PICK s \in table : Matches(s) /\ ~ItemsAgree(s)
    BY <2>1 DEF CallInv
  <2>3. s # r /\ method = "list"
    BY <2>1, <2>2 DEF ItemsAgree
  <2>4. QED
    BY <2>2, <2>3
<1>2. QED
  BY <1>1, CallAlways, PTL
=============================================================================
