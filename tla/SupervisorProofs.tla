-------------------------- MODULE SupervisorProofs --------------------------
(***************************************************************************)
(* Machine-checked proofs about nw-sup, for every set of units, tiers,     *)
(* faults and clients, every backlog and any number of requests and        *)
(* signals.                                                                *)
(*                                                                         *)
(* The argument is one induction: IInv (module SupervisorProps) holds      *)
(* initially and is preserved by every step.  Its parts are proved one     *)
(* lemma each, with a case for every action that can disturb the part;     *)
(* the properties the runs check follow from IInv, and so does the step    *)
(* simulation that makes nw-sup an implementation of Lifecycle.            *)
(***************************************************************************)
EXTENDS SupervisorProps, SequenceTheorems, TLAPS

-------------------------------------------------------------------------------
(* Lemmas about the operators *)

\* What a stop signal, or SIGKILL, leaves of the house's record.
LEMMA SendStopType ==
  ASSUME TypeHouse, SendStop
  PROVE  told' \in {"no", "stop", "kill"} /\ lost' \in BOOLEAN
  BY DEF TypeHouse, SendStop

LEMMA SendKillType ==
  ASSUME TypeHouse, SendKill
  PROVE  told' \in {"no", "stop", "kill"} /\ lost' \in BOOLEAN
  BY DEF TypeHouse, SendKill

\* Serving removes one connection from the queue; a client adds one; a client
\* being served only changes its own.
LEMMA TailQueue ==
  ASSUME TypeCtl, queue # <<>>
  PROVE  /\ Tail(queue) \in Seq(Connection)
         /\ Len(Tail(queue)) = Len(queue) - 1
         /\ Head(queue) \in Connection
  BY HeadTailProperties DEF TypeCtl

LEMMA ConnectQueue ==
  ASSUME TypeCtl, Connect
  PROVE  /\ queue' \in Seq(Connection)
         /\ Len(queue') = Len(queue) + 1
         /\ queue' # <<>>
<1>1. PICK v \in Verbs : queue' = Append(queue, [verb |-> v, gone |-> FALSE])
  BY DEF Connect
<1>2. [verb |-> v, gone |-> FALSE] \in Connection
  BY ClientAssumption DEF Connection
<1> QED
  BY <1>1, <1>2, AppendProperties DEF TypeCtl

LEMMA EditQueue ==
  ASSUME TypeCtl, queue # <<>>, Speak \/ HangUp
  PROVE  /\ queue' \in Seq(Connection)
         /\ Len(queue') = Len(queue)
         /\ queue' # <<>>
<1>1. Len(queue) \in Nat \ {0} /\ 1 \in 1 .. Len(queue)
  BY EmptySeq DEF TypeCtl
<1>2. \E c \in Connection : queue' = [queue EXCEPT ![1] = c]
  <2>1. CASE Speak
    BY <2>1, ClientAssumption DEF Speak, Connection
  <2>2. CASE HangUp
    BY <2>2, HeadTailProperties DEF HangUp, Connection, TypeCtl
  <2> QED
    BY <2>1, <2>2
<1>3. queue' \in Seq(Connection) /\ Len(queue') = Len(queue)
  BY <1>1, <1>2, ExceptSeq DEF TypeCtl
<1> QED
  BY <1>1, <1>3, EmptySeq

\* What nw_decide says of a death, read backwards: what must have been so.
LEMMA VerdictMeaning ==
  ASSUME TypeOK
  PROVE  /\ Verdict \in {"EXIT_SUP", "IDLE", "SPENT", "RESTART"}
         /\ Verdict \in {"SPENT", "RESTART"} =>
              ~stopping /\ ~stop_requested /\ unit.lock
         /\ Verdict = "SPENT" => deaths >= unit.budget
         /\ Verdict = "RESTART" => ~(deaths >= unit.budget)
         /\ Verdict = "IDLE" =>
              ~stopping /\ (stop_requested \/ ~unit.lock)
         /\ Verdict = "EXIT_SUP" =>
              stopping \/ (unit.oneshot /\ ~stop_requested)
  BY DEF Verdict, NwDecide, DecideStopping, DecideExited, DecideChildless,
         TypeOK, TypeFlags

LEMMA UnitFacts ==
  ASSUME TypeOK
  PROVE  /\ unit.lock \in BOOLEAN /\ unit.oneshot \in BOOLEAN
         /\ unit.caught \in BOOLEAN /\ unit.stubborn \in BOOLEAN
         /\ unit.budget \in Nat /\ unit.grace \in Nat
  BY UnitsAssumption DEF TypeOK, AllUnits

-------------------------------------------------------------------------------
(* The induction, part by part *)

\* Every step keeps every variable in its range.
LEMMA TypeInd == ASSUME IInv, [Next]_vars PROVE TypeOK'
<1> USE DEF IInv, TypeOK
<1>0. /\ UNCHANGED flagVars => TypeFlags'
      /\ UNCHANGED waitVars => TypeWait'
      /\ UNCHANGED sigVars => TypeSig'
      /\ UNCHANGED houseVars => TypeHouse'
      /\ UNCHANGED cgVars => TypeCg'
      /\ UNCHANGED ctlVars => TypeCtl'
      /\ UNCHANGED unit => (unit \in Units)'
  BY DEF flagVars, waitVars, sigVars, houseVars, cgVars, ctlVars,
         TypeFlags, TypeWait, TypeSig, TypeHouse, TypeCg, TypeCtl
<1>1. CASE Boot \/ BootFails \/ LoopTop \/ IdleEnter \/ IdleAccept
            \/ IdlePollFails \/ WaitEnter \/ WaitPollFails \/ JudgeExit
  BY <1>0, <1>1 DEF Boot, BootFails, LoopTop, IdleEnter, IdleAccept, IdlePollFails, WaitEnter, WaitPollFails, JudgeExit,
       PCs, Waiting, Exited
<1>2. CASE IdleServe
  <2>1. pc' \in PCs
    BY <1>2 DEF IdleServe, IdleStart, PCs, Waiting, Exited
  <2>2. TypeFlags'
    BY <1>2 DEF IdleServe, IdleStart, TypeFlags
  <2>3. TypeCtl'
    BY <1>2, TailQueue DEF IdleServe, Served, Serving, TypeCtl
  <2> QED
    BY <1>0, <1>2, <2>1, <2>2, <2>3 DEF IdleServe
<1>3. CASE OpenGeneration
  <2>1. pc' \in PCs
    BY <1>3 DEF OpenGeneration, PCs, Waiting, Exited
  <2>2. TypeCg'
    BY <1>3 DEF OpenGeneration, TypeCg
  <2> QED
    BY <1>0, <1>3, <2>1, <2>2 DEF OpenGeneration
<1>4. CASE OpenFails
  <2>1. pc' \in PCs
    BY <1>4 DEF OpenFails, PCs, Waiting, Exited
  <2>2. TypeCg'
    BY <1>4 DEF OpenFails, TypeCg
  <2> QED
    BY <1>0, <1>4, <2>1, <2>2 DEF OpenFails
<1>5. CASE CloneHouse
  <2>1. pc' \in PCs
    BY <1>5 DEF CloneHouse, PCs, Waiting, Exited
  <2>2. TypeHouse'
    BY <1>5 DEF CloneHouse, Alive, TypeHouse
  <2> QED
    BY <1>0, <1>5, <2>1, <2>2 DEF CloneHouse
<1>6. CASE CloneFails
  <2>1. pc' \in PCs
    BY <1>6 DEF CloneFails, PCs, Waiting, Exited
  <2>2. TypeCg'
    BY <1>6 DEF CloneFails, TypeCg
  <2> QED
    BY <1>0, <1>6, <2>1, <2>2 DEF CloneFails
<1>7. CASE AssignChild
  <2>1. pc' \in PCs
    BY <1>7 DEF AssignChild, PCs, Waiting, Exited
  <2>2. TypeFlags'
    BY <1>7 DEF AssignChild, TypeFlags
  <2> QED
    BY <1>0, <1>7, <2>1, <2>2 DEF AssignChild
<1>8. CASE PostFork
  <2>1. pc' \in PCs
    BY <1>8 DEF PostFork, PCs, Waiting, Exited
  <2>2. TypeHouse'
    BY <1>8, SendStopType DEF PostFork, TypeHouse
  <2> QED
    BY <1>0, <1>8, <2>1, <2>2 DEF PostFork
<1>9. CASE WaitOpen
  <2>1. pc' \in PCs
    BY <1>9 DEF WaitOpen, PCs, Waiting, Exited
  <2>2. TypeWait'
    BY <1>9, TiersAssumption DEF WaitOpen, TypeWait
  <2>3. TypeSig'
    BY <1>9 DEF WaitOpen, TypeSig
  <2> QED
    BY <1>0, <1>9, <2>1, <2>2, <2>3 DEF WaitOpen
<1>10. CASE WaitCheck
  <2>1. pc' \in PCs
    BY <1>10 DEF WaitCheck, PCs, Waiting, Exited
  <2>2. TypeWait'
    BY <1>10 DEF WaitCheck, TypeWait
  <2> QED
    BY <1>0, <1>10, <2>1, <2>2 DEF WaitCheck
<1>11. CASE SpinExpires
  <2>1. pc' \in PCs
    BY <1>11 DEF SpinExpires, PCs, Waiting, Exited
  <2>2. TypeHouse'
    BY <1>11, SendKillType DEF SpinExpires, TypeHouse
  <2> QED
    BY <1>0, <1>11, <2>1, <2>2 DEF SpinExpires
<1>12. CASE WaitPoll
  <2>1. pc' \in PCs
    BY <1>12 DEF WaitPoll, PCs, Waiting, Exited
  <2>2. TypeWait'
    BY <1>12 DEF WaitPoll, Ready, TypeWait
  <2> QED
    BY <1>0, <1>12, <2>1, <2>2 DEF WaitPoll
<1>13. CASE WaitServe
  <2>1. pc' \in PCs
    BY <1>13 DEF WaitServe, PCs, Waiting, Exited
  <2>2. TypeFlags'
    BY <1>13 DEF WaitServe, CtlStop, TypeFlags
  <2>3. TypeHouse'
    BY <1>13, SendStopType DEF WaitServe, CtlStop, TypeHouse
  <2>4. TypeCtl'
    BY <1>13, TailQueue DEF WaitServe, Served, Serving, TypeCtl
  <2> QED
    BY <1>0, <1>13, <2>1, <2>2, <2>3, <2>4 DEF WaitServe
<1>14. CASE WaitHouse
  <2>1. pc' \in PCs
    BY <1>14 DEF WaitHouse, PCs, Waiting, Exited
  <2>2. TypeSig'
    BY <1>14 DEF WaitHouse, TypeSig
  <2>3. TypeHouse'
    BY <1>14 DEF WaitHouse, Collect, TypeHouse
  <2> QED
    BY <1>0, <1>14, <2>1, <2>2, <2>3 DEF WaitHouse
<1>15. CASE SpinTry
  <2>1. pc' \in PCs
    BY <1>15 DEF SpinTry, PCs, Waiting, Exited
  <2>2. TypeHouse'
    BY <1>15 DEF SpinTry, Collect, TypeHouse
  <2> QED
    BY <1>0, <1>15, <2>1, <2>2 DEF SpinTry
<1>16. CASE ArmedCycle
  <2>1. pc' \in PCs
    BY <1>16 DEF ArmedCycle, PCs, Waiting, Exited
  <2>2. TypeFlags'
    BY <1>16 DEF ArmedCycle, DeliverPending, TypeFlags
  <2>3. TypeWait'
    BY <1>16 DEF ArmedCycle, TypeWait
  <2>4. TypeSig'
    BY <1>16 DEF ArmedCycle, DeliverPending, TypeSig
  <2>5. TypeHouse'
    BY <1>16, SendStopType DEF ArmedCycle, TypeHouse
  <2> QED
    BY <1>0, <1>16, <2>1, <2>2, <2>3, <2>4, <2>5 DEF ArmedCycle
<1>17. CASE ArmedReady
  <2>1. pc' \in PCs
    BY <1>17 DEF ArmedReady, PCs, Waiting, Exited
  <2>2. TypeFlags'
    BY <1>17 DEF ArmedReady, DeliverPending, TypeFlags
  <2>3. TypeSig'
    BY <1>17 DEF ArmedReady, DeliverPending, TypeSig
  <2>4. TypeHouse'
    BY <1>17, SendStopType DEF ArmedReady, TypeHouse
  <2> QED
    BY <1>0, <1>17, <2>1, <2>2, <2>3, <2>4 DEF ArmedReady
<1>18. CASE ArmedExpires
  <2>1. pc' \in PCs
    BY <1>18 DEF ArmedExpires, PCs, Waiting, Exited
  <2>2. TypeFlags'
    BY <1>18 DEF ArmedExpires, DeliverPending, TypeFlags
  <2>3. TypeSig'
    BY <1>18 DEF ArmedExpires, DeliverPending, TypeSig
  <2>4. TypeHouse'
    BY <1>18, SendKillType DEF ArmedExpires, TypeHouse
  <2> QED
    BY <1>0, <1>18, <2>1, <2>2, <2>3, <2>4 DEF ArmedExpires
<1>19. CASE Reap
  <2>1. pc' \in PCs
    BY <1>19 DEF Reap, PCs, Waiting, Exited
  <2>2. TypeHouse'
    BY <1>19 DEF Reap, Collect, TypeHouse
  <2> QED
    BY <1>0, <1>19, <2>1, <2>2 DEF Reap
<1>20. CASE ForgetChild
  <2>1. pc' \in PCs
    BY <1>20 DEF ForgetChild, PCs, Waiting, Exited
  <2>2. TypeFlags'
    BY <1>20 DEF ForgetChild, TypeFlags
  <2> QED
    BY <1>0, <1>20, <2>1, <2>2 DEF ForgetChild
<1>21. CASE Sweep
  <2>1. pc' \in PCs
    BY <1>21 DEF Sweep, PCs, Waiting, Exited
  <2>2. TypeCg'
    <3>1. cg_gen > 0
      BY <1>21 DEF Sweep, Opened, InHouse
    <3>2. cg_gen \in Nat /\ cg_gen - 1 \in 0 .. (cg_gen - 1)
      BY <3>1 DEF TypeCg
    <3>3. UNCHANGED <<cg_gen, dirs, kids>>
      BY <1>21 DEF Sweep
    <3>4. doomed' \subseteq doomed \cup {cg_gen - 1}
      BY <1>21 DEF Sweep
    <3>5. doomed' \subseteq 0 .. (cg_gen - 1)
      BY <3>2, <3>4 DEF TypeCg
    <3> QED
      BY <3>3, <3>5 DEF TypeCg
  <2> QED
    BY <1>0, <1>21, <2>1, <2>2 DEF Sweep
<1>22. CASE RemoveCgroup
  <2>1. pc' \in PCs
    BY <1>22 DEF RemoveCgroup, PCs, Waiting, Exited
  <2>2. TypeCg'
    BY <1>22 DEF RemoveCgroup, TypeCg
  <2> QED
    BY <1>0, <1>22, <2>1, <2>2 DEF RemoveCgroup
<1>23. CASE JudgeIdle
  <2>1. pc' \in PCs
    BY <1>23 DEF JudgeIdle, PCs, Waiting, Exited
  <2>2. TypeFlags'
    BY <1>23 DEF JudgeIdle, TypeFlags
  <2> QED
    BY <1>0, <1>23, <2>1, <2>2 DEF JudgeIdle
<1>24. CASE JudgeDeath
  <2>1. pc' \in PCs
    BY <1>24 DEF JudgeDeath, PCs, Waiting, Exited
  <2>2. TypeFlags'
    BY <1>24 DEF JudgeDeath, TypeFlags
  <2> QED
    BY <1>0, <1>24, <2>1, <2>2 DEF JudgeDeath
<1>25. CASE Term
  <2>1. pc' \in PCs
    BY <1>25 DEF Term, PCs, Waiting, Exited
  <2>2. TypeFlags'
    BY <1>25 DEF Term, OnTerm, TypeFlags
  <2>3. TypeSig'
    <3>1. pend' \in BOOLEAN
      <4>1. CASE pc = "armed"
        BY <1>25, <4>1 DEF Term
      <4>2. CASE pc # "armed"
        BY <1>25, <4>2 DEF Term, TypeSig
      <4> QED
        BY <4>1, <4>2
    <3>2. UNCHANGED <<chldBlocked, chldPending>> /\ terms' = terms + 1
      BY <1>25 DEF Term
    <3> QED
      BY <3>1, <3>2 DEF TypeSig
  <2>4. TypeHouse'
    BY <1>25, SendStopType DEF Term, OnTerm, TypeHouse
  <2> QED
    BY <1>0, <1>25, <2>1, <2>2, <2>3, <2>4 DEF Term
<1>26. CASE Connect
  <2>1. TypeCtl'
    <3>1. asks' = asks + 1
      BY <1>26 DEF Connect
    <3> QED
      BY <1>26, <3>1, ConnectQueue DEF TypeCtl
  <2> QED
    BY <1>0, <1>26, <2>1 DEF Connect
<1>27. CASE Speak
  <2>1. TypeCtl'
    BY <1>27, EditQueue DEF Speak, Served, TypeCtl
  <2> QED
    BY <1>0, <1>27, <2>1 DEF Speak
<1>28. CASE HangUp
  <2>1. TypeCtl'
    BY <1>28, EditQueue DEF HangUp, Served, TypeCtl
  <2> QED
    BY <1>0, <1>28, <2>1 DEF HangUp
<1>29. CASE HouseReset
  <2>1. TypeHouse'
    BY <1>29 DEF HouseReset, Alive, TypeHouse
  <2> QED
    BY <1>0, <1>29, <2>1 DEF HouseReset
<1>30. CASE HouseExec
  <2>1. TypeHouse'
    BY <1>30 DEF HouseExec, Alive, TypeHouse
  <2> QED
    BY <1>0, <1>30, <2>1 DEF HouseExec
<1>31. CASE HouseEnds
  <2>1. TypeSig'
    BY <1>31 DEF HouseEnds, TypeSig
  <2>2. TypeHouse'
    BY <1>31 DEF HouseEnds, TypeHouse
  <2> QED
    BY <1>0, <1>31, <2>1, <2>2 DEF HouseEnds
<1>32. CASE KidForked
  <2>1. TypeCg'
    BY <1>32 DEF KidForked, Opened, TypeCg
  <2> QED
    BY <1>0, <1>32, <2>1 DEF KidForked
<1>33. CASE KidsEnd
  <2>1. TypeCg'
    BY <1>33 DEF KidsEnd, TypeCg
  <2> QED
    BY <1>0, <1>33, <2>1 DEF KidsEnd
<1>34. CASE UNCHANGED vars
  BY <1>0, <1>34 DEF vars
<1> QED
  BY <1>1, <1>2, <1>3, <1>4, <1>5, <1>6, <1>7, <1>8, <1>9, <1>10,
     <1>11, <1>12, <1>13, <1>14, <1>15, <1>16, <1>17, <1>18, <1>19, <1>20,
     <1>21, <1>22, <1>23, <1>24, <1>25, <1>26, <1>27, <1>28, <1>29, <1>30,
     <1>31, <1>32, <1>33, <1>34
  DEF Next, Step, Client, House

\* A process belongs to a generation that has been opened.
LEMMA OpenedInd == ASSUME IInv, [Next]_vars PROVE Opened'
<1> USE DEF IInv, Opened, InHouse, Waiting, TypeOK, TypeCg, flagVars, waitVars,
        sigVars, houseVars, cgVars, ctlVars
<1>1. CASE Boot \/ BootFails \/ LoopTop \/ IdleEnter \/ IdleAccept
          \/ IdlePollFails
  BY <1>1
  DEF Boot, BootFails, LoopTop, IdleEnter, IdleAccept, IdlePollFails
<1>2. CASE IdleServe
  BY <1>2
  DEF IdleServe, IdleStart
<1>3. CASE OpenGeneration \/ OpenFails \/ CloneHouse \/ CloneFails
          \/ AssignChild \/ PostFork
  <2>1. CASE OpenGeneration
    BY <2>1 DEF OpenGeneration
  <2>2. CASE OpenFails
    BY <2>2 DEF OpenFails
  <2>3. CASE CloneHouse
    BY <2>3 DEF CloneHouse
  <2>4. CASE CloneFails
    BY <2>4 DEF CloneFails
  <2>5. CASE AssignChild
    BY <2>5 DEF AssignChild
  <2>6. CASE PostFork
    BY <2>6 DEF PostFork
  <2> QED
    BY <1>3, <2>1, <2>2, <2>3, <2>4, <2>5, <2>6
<1>4. CASE WaitOpen \/ WaitCheck \/ SpinExpires \/ WaitEnter \/ WaitPoll
          \/ WaitPollFails
  BY <1>4
  DEF WaitOpen, WaitCheck, SpinExpires, WaitEnter, WaitPoll, WaitPollFails
<1>5. CASE WaitServe
  BY <1>5
  DEF WaitServe
<1>6. CASE WaitHouse \/ SpinTry \/ Reap
  BY <1>6
  DEF WaitHouse, Collect, SpinTry, Reap
<1>7. CASE ArmedCycle \/ ArmedReady \/ ArmedExpires
  BY <1>7
  DEF ArmedCycle, ArmedReady, ArmedExpires
<1>8. CASE ForgetChild \/ Sweep \/ RemoveCgroup
  BY <1>8
  DEF ForgetChild, Sweep, RemoveCgroup
<1>9. CASE JudgeExit \/ JudgeIdle \/ JudgeDeath
  BY <1>9
  DEF JudgeExit, JudgeIdle, JudgeDeath
<1>10. CASE Term
  BY <1>10
  DEF Term
<1>11. CASE Connect \/ Speak \/ HangUp
  BY <1>11
  DEF Connect, Speak, HangUp
<1>12. CASE HouseReset \/ HouseExec \/ HouseEnds \/ KidForked \/ KidsEnd
  <2>1. CASE HouseReset
    BY <2>1 DEF HouseReset
  <2>2. CASE HouseExec
    BY <2>2 DEF HouseExec
  <2>3. CASE HouseEnds
    BY <2>3 DEF HouseEnds, Alive
  <2>4. CASE KidForked
    BY <2>4 DEF KidForked
  <2>5. CASE KidsEnd
    BY <2>5 DEF KidsEnd
  <2> QED
    BY <1>12, <2>1, <2>2, <2>3, <2>4, <2>5
<1>13. CASE UNCHANGED vars
  BY <1>13 DEF vars
<1> QED
  BY <1>1, <1>2, <1>3, <1>4, <1>5, <1>6, <1>7, <1>8, <1>9, <1>10, <1>11,
     <1>12, <1>13
  DEF Next, Step, Client, House

\* A connection is served only if there is one.
LEMMA ServedInd == ASSUME IInv, [Next]_vars PROVE Served'
<1> USE DEF IInv, Served, Serving, flagVars, waitVars, sigVars, houseVars,
        cgVars, ctlVars
<1>1. CASE Boot \/ BootFails \/ LoopTop \/ IdleEnter \/ IdleAccept
          \/ IdlePollFails
  BY <1>1
  DEF Boot, BootFails, LoopTop, IdleEnter, IdleAccept, IdlePollFails
<1>2. CASE IdleServe
  BY <1>2
  DEF IdleServe, IdleStart
<1>3. CASE OpenGeneration \/ OpenFails \/ CloneHouse \/ CloneFails
          \/ AssignChild \/ PostFork
  BY <1>3
  DEF OpenGeneration, OpenFails, CloneHouse, CloneFails, AssignChild,
      PostFork
<1>4. CASE WaitOpen \/ WaitCheck \/ SpinExpires \/ WaitEnter \/ WaitPoll
          \/ WaitPollFails
  BY <1>4 DEF WaitOpen, WaitCheck, SpinExpires, WaitEnter, WaitPoll, WaitPollFails,
            Ready
<1>5. CASE WaitServe
  BY <1>5
  DEF WaitServe
<1>6. CASE WaitHouse \/ SpinTry \/ Reap
  BY <1>6
  DEF WaitHouse, Collect, SpinTry, Reap
<1>7. CASE ArmedCycle \/ ArmedReady \/ ArmedExpires
  BY <1>7
  DEF ArmedCycle, ArmedReady, ArmedExpires
<1>8. CASE ForgetChild \/ Sweep \/ RemoveCgroup
  BY <1>8
  DEF ForgetChild, Sweep, RemoveCgroup
<1>9. CASE JudgeExit \/ JudgeIdle \/ JudgeDeath
  BY <1>9
  DEF JudgeExit, JudgeIdle, JudgeDeath
<1>10. CASE Term
  BY <1>10
  DEF Term
<1>11. CASE Connect \/ Speak \/ HangUp
  BY <1>11, ConnectQueue, EditQueue DEF Connect, Speak, HangUp, TypeOK
<1>12. CASE HouseReset \/ HouseExec \/ HouseEnds \/ KidForked \/ KidsEnd
  BY <1>12
  DEF HouseReset, HouseExec, HouseEnds, KidForked, KidsEnd
<1>13. CASE UNCHANGED vars
  BY <1>13 DEF vars
<1> QED
  BY <1>1, <1>2, <1>3, <1>4, <1>5, <1>6, <1>7, <1>8, <1>9, <1>10, <1>11,
     <1>12, <1>13
  DEF Next, Step, Client, House

\* No house outside the part of the loop that waits for it.
LEMMA OneHouseInd == ASSUME IInv, [Next]_vars PROVE OneHouse'
<1> USE DEF IInv, OneHouse, HasProcess, Waiting, flagVars, waitVars, sigVars,
        houseVars, cgVars, ctlVars
<1>1. CASE Boot \/ BootFails \/ LoopTop \/ IdleEnter \/ IdleAccept
          \/ IdlePollFails
  BY <1>1
  DEF Boot, BootFails, LoopTop, IdleEnter, IdleAccept, IdlePollFails
<1>2. CASE IdleServe
  BY <1>2
  DEF IdleServe, IdleStart
<1>3. CASE OpenGeneration \/ OpenFails \/ CloneHouse \/ CloneFails
          \/ AssignChild \/ PostFork
  BY <1>3
  DEF OpenGeneration, OpenFails, CloneHouse, CloneFails, AssignChild,
      PostFork
<1>4. CASE WaitOpen \/ WaitCheck \/ SpinExpires \/ WaitEnter \/ WaitPoll
          \/ WaitPollFails
  BY <1>4
  DEF WaitOpen, WaitCheck, SpinExpires, WaitEnter, WaitPoll, WaitPollFails
<1>5. CASE WaitServe
  BY <1>5
  DEF WaitServe
<1>6. CASE WaitHouse \/ SpinTry \/ Reap
  BY <1>6
  DEF WaitHouse, Collect, SpinTry, Reap
<1>7. CASE ArmedCycle \/ ArmedReady \/ ArmedExpires
  BY <1>7
  DEF ArmedCycle, ArmedReady, ArmedExpires
<1>8. CASE ForgetChild \/ Sweep \/ RemoveCgroup
  BY <1>8
  DEF ForgetChild, Sweep, RemoveCgroup
<1>9. CASE JudgeExit \/ JudgeIdle \/ JudgeDeath
  BY <1>9
  DEF JudgeExit, JudgeIdle, JudgeDeath
<1>10. CASE Term
  BY <1>10
  DEF Term
<1>11. CASE Connect \/ Speak \/ HangUp
  BY <1>11
  DEF Connect, Speak, HangUp
<1>12. CASE HouseReset \/ HouseExec \/ HouseEnds \/ KidForked \/ KidsEnd
  <2>1. CASE HouseReset
    BY <2>1 DEF HouseReset
  <2>2. CASE HouseExec
    BY <2>2 DEF HouseExec
  <2>3. CASE HouseEnds
    BY <2>3 DEF HouseEnds, Alive
  <2>4. CASE KidForked
    BY <2>4 DEF KidForked
  <2>5. CASE KidsEnd
    BY <2>5 DEF KidsEnd
  <2> QED
    BY <1>12, <2>1, <2>2, <2>3, <2>4, <2>5
<1>13. CASE UNCHANGED vars
  BY <1>13 DEF vars
<1> QED
  BY <1>1, <1>2, <1>3, <1>4, <1>5, <1>6, <1>7, <1>8, <1>9, <1>10, <1>11,
     <1>12, <1>13
  DEF Next, Step, Client, House

\* The handler's `child' follows the program's position.
LEMMA ChildInd == ASSUME IInv, [Next]_vars PROVE ChildKnown'
<1> USE DEF IInv, ChildKnown, Waiting, Exited, TypeOK, TypeFlags, flagVars,
        waitVars, sigVars, houseVars, cgVars, ctlVars
<1>1. CASE Boot \/ BootFails \/ LoopTop \/ IdleEnter \/ IdleAccept
          \/ IdlePollFails
  BY <1>1
  DEF Boot, BootFails, LoopTop, IdleEnter, IdleAccept, IdlePollFails
<1>2. CASE IdleServe
  BY <1>2
  DEF IdleServe, IdleStart
<1>3. CASE OpenGeneration \/ OpenFails \/ CloneHouse \/ CloneFails
          \/ AssignChild \/ PostFork
  BY <1>3
  DEF OpenGeneration, OpenFails, CloneHouse, CloneFails, AssignChild,
      PostFork
<1>4. CASE WaitOpen \/ WaitCheck \/ SpinExpires \/ WaitEnter \/ WaitPoll
          \/ WaitPollFails
  BY <1>4
  DEF WaitOpen, WaitCheck, SpinExpires, WaitEnter, WaitPoll, WaitPollFails
<1>5. CASE WaitServe
  BY <1>5
  DEF WaitServe
<1>6. CASE WaitHouse \/ SpinTry \/ Reap
  BY <1>6
  DEF WaitHouse, Collect, SpinTry, Reap
<1>7. CASE ArmedCycle \/ ArmedReady \/ ArmedExpires
  BY <1>7
  DEF ArmedCycle, ArmedReady, ArmedExpires
<1>8. CASE ForgetChild \/ Sweep \/ RemoveCgroup
  BY <1>8
  DEF ForgetChild, Sweep, RemoveCgroup
<1>9. CASE JudgeExit \/ JudgeIdle \/ JudgeDeath
  BY <1>9
  DEF JudgeExit, JudgeIdle, JudgeDeath
<1>10. CASE Term
  BY <1>10
  DEF Term
<1>11. CASE Connect \/ Speak \/ HangUp
  BY <1>11
  DEF Connect, Speak, HangUp
<1>12. CASE HouseReset \/ HouseExec \/ HouseEnds \/ KidForked \/ KidsEnd
  BY <1>12
  DEF HouseReset, HouseExec, HouseEnds, KidForked, KidsEnd
<1>13. CASE UNCHANGED vars
  BY <1>13 DEF vars
<1> QED
  BY <1>1, <1>2, <1>3, <1>4, <1>5, <1>6, <1>7, <1>8, <1>9, <1>10, <1>11,
     <1>12, <1>13
  DEF Next, Step, Client, House

\* `stopped' follows the program's position.
LEMMA StoppedInd == ASSUME IInv, [Next]_vars PROVE StoppedKnown'
<1> USE DEF IInv, StoppedKnown, InHouse, Waiting, TypeOK, TypeFlags, flagVars,
        waitVars, sigVars, houseVars, cgVars, ctlVars
<1>1. CASE Boot \/ BootFails \/ LoopTop \/ IdleEnter \/ IdleAccept
          \/ IdlePollFails
  BY <1>1
  DEF Boot, BootFails, LoopTop, IdleEnter, IdleAccept, IdlePollFails
<1>2. CASE IdleServe
  BY <1>2
  DEF IdleServe, IdleStart
<1>3. CASE OpenGeneration \/ OpenFails \/ CloneHouse \/ CloneFails
          \/ AssignChild \/ PostFork
  <2>1. CASE OpenGeneration
    BY <2>1 DEF OpenGeneration
  <2>2. CASE OpenFails
    BY <2>2 DEF OpenFails
  <2>3. CASE CloneHouse
    BY <2>3 DEF CloneHouse
  <2>4. CASE CloneFails
    BY <2>4 DEF CloneFails
  <2>5. CASE AssignChild
    BY <2>5 DEF AssignChild
  <2>6. CASE PostFork
    BY <2>6 DEF PostFork
  <2> QED
    BY <1>3, <2>1, <2>2, <2>3, <2>4, <2>5, <2>6
<1>4. CASE WaitOpen \/ WaitCheck \/ SpinExpires \/ WaitEnter \/ WaitPoll
          \/ WaitPollFails
  BY <1>4
  DEF WaitOpen, WaitCheck, SpinExpires, WaitEnter, WaitPoll, WaitPollFails
<1>5. CASE WaitServe
  BY <1>5
  DEF WaitServe
<1>6. CASE WaitHouse \/ SpinTry \/ Reap
  BY <1>6
  DEF WaitHouse, Collect, SpinTry, Reap
<1>7. CASE ArmedCycle \/ ArmedReady \/ ArmedExpires
  BY <1>7
  DEF ArmedCycle, ArmedReady, ArmedExpires
<1>8. CASE ForgetChild \/ Sweep \/ RemoveCgroup
  BY <1>8
  DEF ForgetChild, Sweep, RemoveCgroup
<1>9. CASE JudgeExit \/ JudgeIdle \/ JudgeDeath
  BY <1>9
  DEF JudgeExit, JudgeIdle, JudgeDeath
<1>10. CASE Term
  BY <1>10
  DEF Term
<1>11. CASE Connect \/ Speak \/ HangUp
  BY <1>11
  DEF Connect, Speak, HangUp
<1>12. CASE HouseReset \/ HouseExec \/ HouseEnds \/ KidForked \/ KidsEnd
  BY <1>12
  DEF HouseReset, HouseExec, HouseEnds, KidForked, KidsEnd
<1>13. CASE UNCHANGED vars
  BY <1>13 DEF vars
<1> QED
  BY <1>1, <1>2, <1>3, <1>4, <1>5, <1>6, <1>7, <1>8, <1>9, <1>10, <1>11,
     <1>12, <1>13
  DEF Next, Step, Client, House

\* A STOP does not outlive the house it was for.
LEMMA ConsumedInd == ASSUME IInv, [Next]_vars PROVE StopIsConsumed'
<1> USE DEF IInv, StopIsConsumed, InHouse, Waiting, Exited, flagVars, waitVars,
        sigVars, houseVars, cgVars, ctlVars
<1>1. CASE Boot \/ BootFails \/ LoopTop \/ IdleEnter \/ IdleAccept
          \/ IdlePollFails
  BY <1>1
  DEF Boot, BootFails, LoopTop, IdleEnter, IdleAccept, IdlePollFails
<1>2. CASE IdleServe
  BY <1>2
  DEF IdleServe, IdleStart
<1>3. CASE OpenGeneration \/ OpenFails \/ CloneHouse \/ CloneFails
          \/ AssignChild \/ PostFork
  BY <1>3
  DEF OpenGeneration, OpenFails, CloneHouse, CloneFails, AssignChild,
      PostFork
<1>4. CASE WaitOpen \/ WaitCheck \/ SpinExpires \/ WaitEnter \/ WaitPoll
          \/ WaitPollFails
  BY <1>4
  DEF WaitOpen, WaitCheck, SpinExpires, WaitEnter, WaitPoll, WaitPollFails
<1>5. CASE WaitServe
  BY <1>5
  DEF WaitServe
<1>6. CASE WaitHouse \/ SpinTry \/ Reap
  BY <1>6
  DEF WaitHouse, Collect, SpinTry, Reap
<1>7. CASE ArmedCycle \/ ArmedReady \/ ArmedExpires
  BY <1>7
  DEF ArmedCycle, ArmedReady, ArmedExpires
<1>8. CASE ForgetChild \/ Sweep \/ RemoveCgroup
  BY <1>8
  DEF ForgetChild, Sweep, RemoveCgroup
<1>9. CASE JudgeExit \/ JudgeIdle \/ JudgeDeath
  <2>1. CASE JudgeExit
    BY <2>1, VerdictMeaning DEF JudgeExit
  <2>2. CASE JudgeIdle
    BY <2>2, VerdictMeaning DEF JudgeIdle
  <2>3. CASE JudgeDeath
    BY <2>3, VerdictMeaning DEF JudgeDeath
  <2> QED
    BY <1>9, <2>1, <2>2, <2>3
<1>10. CASE Term
  BY <1>10
  DEF Term
<1>11. CASE Connect \/ Speak \/ HangUp
  BY <1>11
  DEF Connect, Speak, HangUp
<1>12. CASE HouseReset \/ HouseExec \/ HouseEnds \/ KidForked \/ KidsEnd
  BY <1>12
  DEF HouseReset, HouseExec, HouseEnds, KidForked, KidsEnd
<1>13. CASE UNCHANGED vars
  BY <1>13 DEF vars
<1> QED
  BY <1>1, <1>2, <1>3, <1>4, <1>5, <1>6, <1>7, <1>8, <1>9, <1>10, <1>11,
     <1>12, <1>13
  DEF Next, Step, Client, House

\* Bounded waits and signals have a reason that lasts as long as they do.
LEMMA ReasonInd == ASSUME IInv, [Next]_vars PROVE SignalHasReason'
<1> USE DEF IInv, SignalHasReason, InHouse, Waiting, TypeOK, TypeFlags,
        flagVars, waitVars, sigVars, houseVars, cgVars, ctlVars
<1>1. CASE Boot \/ BootFails \/ LoopTop \/ IdleEnter \/ IdleAccept
          \/ IdlePollFails
  BY <1>1
  DEF Boot, BootFails, LoopTop, IdleEnter, IdleAccept, IdlePollFails
<1>2. CASE IdleServe
  BY <1>2
  DEF IdleServe, IdleStart
<1>3. CASE OpenGeneration \/ OpenFails \/ CloneHouse \/ CloneFails
          \/ AssignChild \/ PostFork
  <2>1. CASE OpenGeneration
    BY <2>1 DEF OpenGeneration
  <2>2. CASE OpenFails
    BY <2>2 DEF OpenFails
  <2>3. CASE CloneHouse
    BY <2>3 DEF CloneHouse
  <2>4. CASE CloneFails
    BY <2>4 DEF CloneFails
  <2>5. CASE AssignChild
    BY <2>5 DEF AssignChild
  <2>6. CASE PostFork
    BY <2>6 DEF PostFork, SendStop, NwDecide, DecideStopping
  <2> QED
    BY <1>3, <2>1, <2>2, <2>3, <2>4, <2>5, <2>6
<1>4. CASE WaitOpen \/ WaitCheck \/ SpinExpires \/ WaitEnter \/ WaitPoll
          \/ WaitPollFails
  <2>1. CASE WaitOpen
    BY <2>1 DEF WaitOpen
  <2>2. CASE WaitCheck
    BY <2>2 DEF WaitCheck, Armed
  <2>3. CASE SpinExpires
    BY <2>3 DEF SpinExpires, SendKill, Armed
  <2>4. CASE WaitEnter
    BY <2>4 DEF WaitEnter
  <2>5. CASE WaitPoll
    BY <2>5 DEF WaitPoll
  <2>6. CASE WaitPollFails
    BY <2>6 DEF WaitPollFails
  <2> QED
    BY <1>4, <2>1, <2>2, <2>3, <2>4, <2>5, <2>6
<1>5. CASE WaitServe
  BY <1>5 DEF WaitServe, CtlStop, SendStop
<1>6. CASE WaitHouse \/ SpinTry \/ Reap
  BY <1>6
  DEF WaitHouse, Collect, SpinTry, Reap
<1>7. CASE ArmedCycle \/ ArmedReady \/ ArmedExpires
  BY <1>7 DEF ArmedCycle, ArmedReady, ArmedExpires, DeliverPending, SendStop, SendKill
<1>8. CASE ForgetChild \/ Sweep \/ RemoveCgroup
  BY <1>8
  DEF ForgetChild, Sweep, RemoveCgroup
<1>9. CASE JudgeExit \/ JudgeIdle \/ JudgeDeath
  <2>1. CASE JudgeExit
    BY <2>1 DEF JudgeExit
  <2>2. CASE JudgeIdle
    BY <2>2 DEF JudgeIdle
  <2>3. CASE JudgeDeath
    BY <2>3 DEF JudgeDeath
  <2> QED
    BY <1>9, <2>1, <2>2, <2>3
<1>10. CASE Term
  BY <1>10 DEF Term, OnTerm, SendStop
<1>11. CASE Connect \/ Speak \/ HangUp
  BY <1>11
  DEF Connect, Speak, HangUp
<1>12. CASE HouseReset \/ HouseExec \/ HouseEnds \/ KidForked \/ KidsEnd
  BY <1>12
  DEF HouseReset, HouseExec, HouseEnds, KidForked, KidsEnd
<1>13. CASE UNCHANGED vars
  BY <1>13 DEF vars
<1> QED
  BY <1>1, <1>2, <1>3, <1>4, <1>5, <1>6, <1>7, <1>8, <1>9, <1>10, <1>11,
     <1>12, <1>13
  DEF Next, Step, Client, House

\* A known STOP or shutdown has been signalled once the post-fork check is behind.
LEMMA SentInd == ASSUME IInv, [Next]_vars PROVE StopSent'
<1> USE DEF IInv, StopSent, Waiting, Alive, TypeOK, TypeFlags, flagVars,
        waitVars, sigVars, houseVars, cgVars, ctlVars
<1>1. CASE Boot \/ BootFails \/ LoopTop \/ IdleEnter \/ IdleAccept
          \/ IdlePollFails
  BY <1>1
  DEF Boot, BootFails, LoopTop, IdleEnter, IdleAccept, IdlePollFails
<1>2. CASE IdleServe
  BY <1>2
  DEF IdleServe, IdleStart
<1>3. CASE OpenGeneration \/ OpenFails \/ CloneHouse \/ CloneFails
          \/ AssignChild \/ PostFork
  <2>1. CASE OpenGeneration
    BY <2>1 DEF OpenGeneration
  <2>2. CASE OpenFails
    BY <2>2 DEF OpenFails
  <2>3. CASE CloneHouse
    BY <2>3 DEF CloneHouse
  <2>4. CASE CloneFails
    BY <2>4 DEF CloneFails
  <2>5. CASE AssignChild
    BY <2>5 DEF AssignChild
  <2>6. CASE PostFork
    BY <2>6 DEF PostFork, SendStop, NwDecide, DecideStopping
  <2> QED
    BY <1>3, <2>1, <2>2, <2>3, <2>4, <2>5, <2>6
<1>4. CASE WaitOpen \/ WaitCheck \/ SpinExpires \/ WaitEnter \/ WaitPoll
          \/ WaitPollFails
  <2>1. CASE WaitOpen
    BY <2>1 DEF WaitOpen
  <2>2. CASE WaitCheck
    BY <2>2 DEF WaitCheck
  <2>3. CASE SpinExpires
    BY <2>3 DEF SpinExpires, SendKill
  <2>4. CASE WaitEnter
    BY <2>4 DEF WaitEnter
  <2>5. CASE WaitPoll
    BY <2>5 DEF WaitPoll
  <2>6. CASE WaitPollFails
    BY <2>6 DEF WaitPollFails
  <2> QED
    BY <1>4, <2>1, <2>2, <2>3, <2>4, <2>5, <2>6
<1>5. CASE WaitServe
  BY <1>5 DEF WaitServe, CtlStop, SendStop, NwDecide, DecideStopping
<1>6. CASE WaitHouse \/ SpinTry \/ Reap
  BY <1>6
  DEF WaitHouse, Collect, SpinTry, Reap
<1>7. CASE ArmedCycle \/ ArmedReady \/ ArmedExpires
  BY <1>7 DEF ArmedCycle, ArmedReady, ArmedExpires, DeliverPending, SendStop, SendKill
<1>8. CASE ForgetChild \/ Sweep \/ RemoveCgroup
  BY <1>8
  DEF ForgetChild, Sweep, RemoveCgroup
<1>9. CASE JudgeExit \/ JudgeIdle \/ JudgeDeath
  BY <1>9
  DEF JudgeExit, JudgeIdle, JudgeDeath
<1>10. CASE Term
  BY <1>10 DEF Term, OnTerm, SendStop, ChildKnown
<1>11. CASE Connect \/ Speak \/ HangUp
  BY <1>11
  DEF Connect, Speak, HangUp
<1>12. CASE HouseReset \/ HouseExec \/ HouseEnds \/ KidForked \/ KidsEnd
  BY <1>12
  DEF HouseReset, HouseExec, HouseEnds, KidForked, KidsEnd
<1>13. CASE UNCHANGED vars
  BY <1>13 DEF vars
<1> QED
  BY <1>1, <1>2, <1>3, <1>4, <1>5, <1>6, <1>7, <1>8, <1>9, <1>10, <1>11,
     <1>12, <1>13
  DEF Next, Step, Client, House

\* The budget is a hard total.
LEMMA BudgetInd == ASSUME IInv, [Next]_vars PROVE BudgetIsHard'
<1> USE DEF IInv, BudgetIsHard, TypeOK, TypeFlags, flagVars, waitVars, sigVars,
        houseVars, cgVars, ctlVars
<1>1. CASE Boot \/ BootFails \/ LoopTop \/ IdleEnter \/ IdleAccept
          \/ IdlePollFails
  BY <1>1
  DEF Boot, BootFails, LoopTop, IdleEnter, IdleAccept, IdlePollFails
<1>2. CASE IdleServe
  BY <1>2
  DEF IdleServe, IdleStart
<1>3. CASE OpenGeneration \/ OpenFails \/ CloneHouse \/ CloneFails
          \/ AssignChild \/ PostFork
  BY <1>3
  DEF OpenGeneration, OpenFails, CloneHouse, CloneFails, AssignChild,
      PostFork
<1>4. CASE WaitOpen \/ WaitCheck \/ SpinExpires \/ WaitEnter \/ WaitPoll
          \/ WaitPollFails
  BY <1>4
  DEF WaitOpen, WaitCheck, SpinExpires, WaitEnter, WaitPoll, WaitPollFails
<1>5. CASE WaitServe
  BY <1>5
  DEF WaitServe
<1>6. CASE WaitHouse \/ SpinTry \/ Reap
  BY <1>6
  DEF WaitHouse, Collect, SpinTry, Reap
<1>7. CASE ArmedCycle \/ ArmedReady \/ ArmedExpires
  BY <1>7
  DEF ArmedCycle, ArmedReady, ArmedExpires
<1>8. CASE ForgetChild \/ Sweep \/ RemoveCgroup
  BY <1>8
  DEF ForgetChild, Sweep, RemoveCgroup
<1>9. CASE JudgeExit \/ JudgeIdle \/ JudgeDeath
  <2>1. CASE JudgeExit
    BY <2>1, VerdictMeaning, UnitFacts DEF JudgeExit
  <2>2. CASE JudgeIdle
    BY <2>2, VerdictMeaning, UnitFacts DEF JudgeIdle
  <2>3. CASE JudgeDeath
    BY <2>3, VerdictMeaning, UnitFacts DEF JudgeDeath
  <2> QED
    BY <1>9, <2>1, <2>2, <2>3
<1>10. CASE Term
  BY <1>10
  DEF Term
<1>11. CASE Connect \/ Speak \/ HangUp
  BY <1>11
  DEF Connect, Speak, HangUp
<1>12. CASE HouseReset \/ HouseExec \/ HouseEnds \/ KidForked \/ KidsEnd
  BY <1>12
  DEF HouseReset, HouseExec, HouseEnds, KidForked, KidsEnd
<1>13. CASE UNCHANGED vars
  BY <1>13 DEF vars
<1> QED
  BY <1>1, <1>2, <1>3, <1>4, <1>5, <1>6, <1>7, <1>8, <1>9, <1>10, <1>11,
     <1>12, <1>13
  DEF Next, Step, Client, House

\* Each generation is paid for by a death, a request or the first start.
LEMMA LedgerInd == ASSUME IInv, [Next]_vars PROVE Ledger'
<1> USE DEF IInv, Ledger, Owed, TypeOK, TypeFlags, TypeCg, TypeCtl, flagVars,
        waitVars, sigVars, houseVars, cgVars, ctlVars
<1>1. CASE Boot \/ BootFails \/ LoopTop \/ IdleEnter \/ IdleAccept
          \/ IdlePollFails
  <2>1. CASE Boot
    BY <2>1 DEF Boot
  <2>2. CASE BootFails
    BY <2>2 DEF BootFails
  <2>3. CASE LoopTop
    BY <2>3 DEF LoopTop
  <2>4. CASE IdleEnter
    BY <2>4 DEF IdleEnter
  <2>5. CASE IdleAccept
    BY <2>5 DEF IdleAccept
  <2>6. CASE IdlePollFails
    BY <2>6 DEF IdlePollFails
  <2> QED
    BY <1>1, <2>1, <2>2, <2>3, <2>4, <2>5, <2>6
<1>2. CASE IdleServe
  <2>1. queue # <<>>
    BY <1>2 DEF IdleServe, Served, Serving
  <2>2. Len(queue') = Len(queue) - 1 /\ Len(queue) \in Nat
    BY <1>2, <2>1, TailQueue DEF IdleServe
  <2>3. Owed = 0 /\ Owed' \in {0, 1}
    BY <1>2 DEF IdleServe
  <2>4. UNCHANGED <<unit, deaths, asks, cg_gen>>
    BY <1>2 DEF IdleServe
  <2> HIDE DEF Owed
  <2> QED
    BY <2>2, <2>3, <2>4
<1>3. CASE OpenGeneration \/ OpenFails \/ CloneHouse \/ CloneFails
          \/ AssignChild \/ PostFork
  <2>1. CASE OpenGeneration
    BY <2>1 DEF OpenGeneration, StoppedKnown
  <2>2. CASE OpenFails
    BY <2>2 DEF OpenFails, StoppedKnown
  <2>3. CASE CloneHouse
    BY <2>3 DEF CloneHouse
  <2>4. CASE CloneFails
    BY <2>4 DEF CloneFails
  <2>5. CASE AssignChild
    BY <2>5 DEF AssignChild
  <2>6. CASE PostFork
    BY <2>6 DEF PostFork
  <2> QED
    BY <1>3, <2>1, <2>2, <2>3, <2>4, <2>5, <2>6
<1>4. CASE WaitOpen \/ WaitCheck \/ SpinExpires \/ WaitEnter \/ WaitPoll
          \/ WaitPollFails
  BY <1>4
  DEF WaitOpen, WaitCheck, SpinExpires, WaitEnter, WaitPoll, WaitPollFails
<1>5. CASE WaitServe
  <2>1. queue # <<>>
    BY <1>5 DEF WaitServe, Served, Serving
  <2>2. queue' = Tail(queue) /\ Len(queue') = Len(queue) - 1 /\ Len(queue) \in Nat
    BY <1>5, <2>1, TailQueue DEF WaitServe
  <2> QED
    BY <1>5, <2>2 DEF WaitServe
<1>6. CASE WaitHouse \/ SpinTry \/ Reap
  BY <1>6
  DEF WaitHouse, Collect, SpinTry, Reap
<1>7. CASE ArmedCycle \/ ArmedReady \/ ArmedExpires
  BY <1>7
  DEF ArmedCycle, ArmedReady, ArmedExpires
<1>8. CASE ForgetChild \/ Sweep \/ RemoveCgroup
  BY <1>8
  DEF ForgetChild, Sweep, RemoveCgroup
<1>9. CASE JudgeExit \/ JudgeIdle \/ JudgeDeath
  <2>1. CASE JudgeExit
    BY <2>1, VerdictMeaning DEF JudgeExit
  <2>2. CASE JudgeIdle
    BY <2>2, VerdictMeaning DEF JudgeIdle
  <2>3. CASE JudgeDeath
    BY <2>3, VerdictMeaning DEF JudgeDeath
  <2> QED
    BY <1>9, <2>1, <2>2, <2>3
<1>10. CASE Term
  <2>1. Owed' = Owed
    BY <1>10 DEF Term, StoppedKnown
  <2>2. UNCHANGED <<unit, deaths, asks, cg_gen, queue>>
    BY <1>10 DEF Term
  <2> HIDE DEF Owed
  <2> QED
    BY <2>1, <2>2
<1>11. CASE Connect \/ Speak \/ HangUp
  <2>1. CASE Connect
    <3>1. asks' = asks + 1 /\ Len(queue') = Len(queue) + 1
      BY <2>1, ConnectQueue DEF Connect
    <3>2. UNCHANGED <<unit, pc, flagVars, cg_gen>>
      BY <2>1 DEF Connect
    <3> QED
      BY <3>1, <3>2
  <2>2. CASE Speak \/ HangUp
    <3>1. Len(queue') = Len(queue)
      BY <2>2, EditQueue DEF Speak, HangUp, Served
    <3>2. UNCHANGED <<unit, pc, flagVars, cg_gen, asks>>
      BY <2>2 DEF Speak, HangUp
    <3> QED
      BY <3>1, <3>2
  <2> QED
    BY <1>11, <2>1, <2>2
<1>12. CASE HouseReset \/ HouseExec \/ HouseEnds \/ KidForked \/ KidsEnd
  BY <1>12
  DEF HouseReset, HouseExec, HouseEnds, KidForked, KidsEnd
<1>13. CASE UNCHANGED vars
  BY <1>13 DEF vars
<1> QED
  BY <1>1, <1>2, <1>3, <1>4, <1>5, <1>6, <1>7, <1>8, <1>9, <1>10, <1>11,
     <1>12, <1>13
  DEF Next, Step, Client, House

\* What a house leaves behind is swept before anything follows.
LEMMA SweepInd == ASSUME IInv, [Next]_vars PROVE StragglersDoomed'
<1> USE DEF IInv, StragglersDoomed, InHouse, Waiting, TypeOK, TypeCg, flagVars,
        waitVars, sigVars, houseVars, cgVars, ctlVars
<1>1. CASE Boot \/ BootFails \/ LoopTop \/ IdleEnter \/ IdleAccept
          \/ IdlePollFails
  <2>1. CASE Boot
    BY <2>1 DEF Boot
  <2>2. CASE BootFails
    BY <2>2 DEF BootFails
  <2>3. CASE LoopTop
    BY <2>3 DEF LoopTop
  <2>4. CASE IdleEnter
    BY <2>4 DEF IdleEnter
  <2>5. CASE IdleAccept
    BY <2>5 DEF IdleAccept
  <2>6. CASE IdlePollFails
    BY <2>6 DEF IdlePollFails
  <2> QED
    BY <1>1, <2>1, <2>2, <2>3, <2>4, <2>5, <2>6
<1>2. CASE IdleServe
  BY <1>2
  DEF IdleServe, IdleStart
<1>3. CASE OpenGeneration \/ OpenFails \/ CloneHouse \/ CloneFails
          \/ AssignChild \/ PostFork
  <2>1. CASE OpenGeneration
    BY <2>1 DEF OpenGeneration
  <2>2. CASE OpenFails
    BY <2>2 DEF OpenFails
  <2>3. CASE CloneHouse
    BY <2>3 DEF CloneHouse
  <2>4. CASE CloneFails
    BY <2>4 DEF CloneFails
  <2>5. CASE AssignChild
    BY <2>5 DEF AssignChild
  <2>6. CASE PostFork
    BY <2>6 DEF PostFork
  <2> QED
    BY <1>3, <2>1, <2>2, <2>3, <2>4, <2>5, <2>6
<1>4. CASE WaitOpen \/ WaitCheck \/ SpinExpires \/ WaitEnter \/ WaitPoll
          \/ WaitPollFails
  BY <1>4
  DEF WaitOpen, WaitCheck, SpinExpires, WaitEnter, WaitPoll, WaitPollFails
<1>5. CASE WaitServe
  BY <1>5
  DEF WaitServe
<1>6. CASE WaitHouse \/ SpinTry \/ Reap
  BY <1>6
  DEF WaitHouse, Collect, SpinTry, Reap
<1>7. CASE ArmedCycle \/ ArmedReady \/ ArmedExpires
  BY <1>7
  DEF ArmedCycle, ArmedReady, ArmedExpires
<1>8. CASE ForgetChild \/ Sweep \/ RemoveCgroup
  <2>1. CASE ForgetChild
    BY <2>1 DEF ForgetChild
  <2>2. CASE Sweep
    BY <2>2 DEF Sweep
  <2>3. CASE RemoveCgroup
    BY <2>3 DEF RemoveCgroup
  <2> QED
    BY <1>8, <2>1, <2>2, <2>3
<1>9. CASE JudgeExit \/ JudgeIdle \/ JudgeDeath
  BY <1>9
  DEF JudgeExit, JudgeIdle, JudgeDeath
<1>10. CASE Term
  BY <1>10
  DEF Term
<1>11. CASE Connect \/ Speak \/ HangUp
  BY <1>11
  DEF Connect, Speak, HangUp
<1>12. CASE HouseReset \/ HouseExec \/ HouseEnds \/ KidForked \/ KidsEnd
  <2>1. CASE HouseReset
    BY <2>1 DEF HouseReset
  <2>2. CASE HouseExec
    BY <2>2 DEF HouseExec
  <2>3. CASE HouseEnds
    BY <2>3 DEF HouseEnds
  <2>4. CASE KidForked
    BY <2>4 DEF KidForked, OneHouse, HasProcess
  <2>5. CASE KidsEnd
    BY <2>5 DEF KidsEnd
  <2> QED
    BY <1>12, <2>1, <2>2, <2>3, <2>4, <2>5
<1>13. CASE UNCHANGED vars
  BY <1>13 DEF vars
<1> QED
  BY <1>1, <1>2, <1>3, <1>4, <1>5, <1>6, <1>7, <1>8, <1>9, <1>10, <1>11,
     <1>12, <1>13
  DEF Next, Step, Client, House

-------------------------------------------------------------------------------
(* The invariant *)

LEMMA InitIInv == Init => IInv
<1> SUFFICES ASSUME Init PROVE IInv
  OBVIOUS
<1>1. TypeOK
  BY EmptySeq DEF Init, TypeOK, TypeFlags, TypeWait, TypeSig, TypeHouse, TypeCg,
     TypeCtl, PCs, AllTiers, Alive
<1>2. Opened /\ Served /\ OneHouse /\ ChildKnown /\ StoppedKnown /\ StopIsConsumed
  BY DEF Init, Opened, Served, OneHouse, ChildKnown, StoppedKnown, StopIsConsumed,
         InHouse, Waiting, Serving, Exited
<1>3. SignalHasReason /\ StopSent /\ BudgetIsHard /\ StragglersDoomed
  BY <1>1, UnitFacts DEF Init, SignalHasReason, StopSent, BudgetIsHard, Waiting,
     StragglersDoomed, InHouse
<1>4. Ledger
  <2>1. Len(queue) = 0
    BY EmptySeq DEF Init
  <2>2. Owed = IF unit.lock THEN 1 ELSE 0
    BY <1>1, UnitFacts DEF Init, Owed
  <2> HIDE DEF Owed
  <2> QED
    BY <2>1, <2>2 DEF Init, Ledger
<1> QED
  BY <1>1, <1>2, <1>3, <1>4 DEF IInv

LEMMA NextIInv == IInv /\ [Next]_vars => IInv'
  BY TypeInd, OpenedInd, ServedInd, OneHouseInd, ChildInd, StoppedInd,
     ConsumedInd, ReasonInd, SentInd, BudgetInd, LedgerInd, SweepInd
  DEF IInv

LEMMA Invariance == Spec => []IInv
  BY InitIInv, NextIInv, PTL DEF Spec

-------------------------------------------------------------------------------
(* The theorems *)

\* nw-sup's variables keep to their ranges, in every behaviour of main() and
\* wait_house().
THEOREM Typing == Spec => []TypeOK
<1>1. IInv => TypeOK
  BY DEF IInv
<1> QED
  BY <1>1, Invariance, PTL

\* The budget of decide.c is a hard total over the supervisor's whole life,
\* whatever clients, signals and crashes do.
THEOREM Budget == Spec => []BudgetIsHard
<1>1. IInv => BudgetIsHard
  BY DEF IInv
<1> QED
  BY <1>1, Invariance, PTL

\* house_cgroup_open_generation() is never called for free.
THEOREM Paid == Spec => []GenerationsPaid
<1>1. IInv => GenerationsPaid
  <2> SUFFICES ASSUME IInv PROVE GenerationsPaid
    OBVIOUS
  <2>1. Len(queue) \in Nat /\ Owed \in {0, 1} /\ cg_gen \in Nat
    BY LenProperties DEF IInv, TypeOK, TypeCtl, TypeCg, Owed
  <2>2. deaths \in Nat /\ asks \in Nat
    BY DEF IInv, TypeOK, TypeCtl, TypeFlags
  <2> HIDE DEF Owed
  <2> QED
    BY <2>1, <2>2 DEF IInv, Ledger, GenerationsPaid
<1> QED
  BY <1>1, Invariance, PTL

\* No TERM and no STOP is forgotten on the way to the house: not before the
\* fork, not between clone3 and `child = p', not later.
THEOREM StopReaches == Spec => []StopReachesHouse
<1>1. IInv => StopReachesHouse
  BY DEF IInv, StopSent, StopReachesHouse
<1> QED
  BY <1>1, Invariance, PTL

\* A STOP never carries over into the next generation's life.
THEOREM StopConsumed == Spec => []StopIsConsumed
<1>1. IInv => StopIsConsumed
  BY DEF IInv
<1> QED
  BY <1>1, Invariance, PTL

\* One house at a time, and none left when nw-sup leaves by its own decision.
THEOREM AtMostOneHouse == Spec => []OneHouse
<1>1. IInv => OneHouse
  BY DEF IInv
<1> QED
  BY <1>1, Invariance, PTL

\* mkdir never meets a directory that an earlier rmdir could not remove.
THEOREM Fresh == Spec => []GenerationFresh
<1>1. IInv => GenerationFresh
  BY DEF IInv, TypeOK, TypeCg, GenerationFresh
<1> QED
  BY <1>1, Invariance, PTL

\* Nothing a house left behind outlives the sweep unkilled.
THEOREM Swept == Spec => []StragglersDoomed
<1>1. IInv => StragglersDoomed
  BY DEF IInv
<1> QED
  BY <1>1, Invariance, PTL

\* A house that nw-sup signalled is never charged to the budget.
THEOREM NeverCharged == Spec => SignalledNeverCounts
<1>1. IInv /\ [Next]_vars => [deaths' # deaths => told = "no"]_vars
  <2> SUFFICES ASSUME IInv, Next, deaths' # deaths PROVE told = "no"
    OBVIOUS
  <2>1. JudgeDeath
    BY DEF Next, Step, Client, House, Boot, BootFails, LoopTop, IdleEnter,
       IdleAccept, IdlePollFails, IdleServe, OpenGeneration, OpenFails,
       CloneHouse, CloneFails, AssignChild, PostFork, WaitOpen, WaitCheck,
       SpinExpires, WaitEnter, WaitPoll, WaitPollFails, WaitServe, WaitHouse,
       SpinTry, ArmedCycle, ArmedReady, ArmedExpires, Reap, ForgetChild, Sweep,
       RemoveCgroup, JudgeExit, JudgeIdle, Term, Connect, Speak, HangUp,
       HouseReset, HouseExec, HouseEnds, KidForked, KidsEnd, flagVars
  <2>2. pc \in InHouse /\ ~stopping /\ ~stop_requested
    BY <2>1, VerdictMeaning DEF JudgeDeath, IInv, InHouse
  <2> QED
    BY <2>2 DEF IInv, SignalHasReason
<1> QED
  BY <1>1, Invariance, PTL DEF Spec, SignalledNeverCounts

-------------------------------------------------------------------------------
(* nw-sup implements Lifecycle *)

LEMMA PhaseFacts ==
  /\ pc \in Exited => phaseMap = "over"
  /\ pc \in InHouse => phaseMap = "up"
  /\ pc \notin Exited \cup InHouse =>
        phaseMap = IF stopped THEN "resting" ELSE "due"
  BY DEF phaseMap, Exited, InHouse, Waiting

LEMMA PhaseFactsPrime ==
  /\ pc' \in Exited => phaseMap' = "over"
  /\ pc' \in InHouse => phaseMap' = "up"
  /\ pc' \notin Exited \cup InHouse =>
        phaseMap' = IF stopped' THEN "resting" ELSE "due"
  BY DEF phaseMap, Exited, InHouse, Waiting

\* Every step of nw-sup is a step of Lifecycle or leaves it as it is.
LEMMA Simulation == ASSUME IInv, [Next]_vars PROVE [LC!LNext]_(LC!lcVars)
<1> USE PhaseFacts, PhaseFactsPrime DEF IInv, Exited, InHouse, Waiting
<1> USE DEF flagVars, waitVars, sigVars, houseVars, cgVars, ctlVars
<1>1. CASE Boot \/ BootFails
  <2>1. CASE Boot
    BY <2>1 DEF Boot, LC!lcVars
  <2>2. CASE BootFails
    BY <2>2 DEF BootFails, LC!LNext, LC!Break
  <2> QED
    BY <1>1, <2>1, <2>2
<1>2. CASE LoopTop
  BY <1>2 DEF LoopTop, LC!LNext, LC!Leave, LC!lcVars, StoppedKnown
<1>3. CASE IdleEnter \/ IdleAccept \/ IdlePollFails
  <2>1. CASE IdleEnter \/ IdleAccept
    BY <2>1 DEF IdleEnter, IdleAccept, LC!lcVars
  <2>2. CASE IdlePollFails
    BY <2>2 DEF IdlePollFails, LC!LNext, LC!Break
  <2> QED
    BY <1>3, <2>1, <2>2
<1>4. CASE IdleServe
  BY <1>4 DEF IdleServe, IdleStart, NwDecide, DecideStopping, DecideChildless,
     StoppedKnown, LC!LNext, LC!Break, LC!Leave, LC!Grant, LC!lcVars
<1>5. CASE OpenGeneration \/ OpenFails \/ CloneFails \/ AssignChild \/ PostFork
  <2>1. CASE OpenGeneration
    BY <2>1 DEF OpenGeneration, LC!lcVars
  <2>2. CASE AssignChild \/ PostFork
    BY <2>2 DEF AssignChild, PostFork, LC!lcVars
  <2>3. CASE OpenFails \/ CloneFails
    BY <2>3 DEF OpenFails, CloneFails, LC!LNext, LC!Break
  <2> QED
    BY <1>5, <2>1, <2>2, <2>3
<1>6. CASE CloneHouse
  BY <1>6 DEF CloneHouse, StoppedKnown, LC!LNext, LC!Launch, LC!lcVars
<1>7. CASE WaitOpen \/ WaitCheck \/ SpinExpires \/ WaitEnter \/ WaitPoll
  BY <1>7 DEF WaitOpen, WaitCheck, SpinExpires, WaitEnter, WaitPoll, LC!lcVars
<1>8. CASE WaitPollFails
  BY <1>8 DEF WaitPollFails, LC!LNext, LC!Break, LC!lcVars
<1>9. CASE WaitServe
  <2>1. stop_requested' \in {stop_requested, TRUE}
    BY <1>9 DEF WaitServe, CtlStop
  <2>2. UNCHANGED <<unit, deaths, stopping>> /\ phaseMap = "up"
    BY <1>9 DEF WaitServe
  <2>3. pc' = "piped" \/ pc' \in {"waitCheck", "waitHouse"}
    BY <1>9 DEF WaitServe
  <2>4. CASE pc' = "piped"
    BY <2>1, <2>2, <2>4 DEF LC!LNext, LC!Break
  <2>5. CASE pc' \in {"waitCheck", "waitHouse"}
    BY <2>1, <2>2, <2>5 DEF LC!LNext, LC!Ask, LC!lcVars
  <2> QED
    BY <2>3, <2>4, <2>5
<1>10. CASE WaitHouse \/ SpinTry \/ Reap \/ ForgetChild \/ Sweep \/ RemoveCgroup
  BY <1>10 DEF WaitHouse, SpinTry, Reap, ForgetChild, Sweep, RemoveCgroup,
     LC!lcVars
<1>11. CASE ArmedCycle \/ ArmedReady \/ ArmedExpires
  BY <1>11 DEF ArmedCycle, ArmedReady, ArmedExpires, DeliverPending, LC!LNext,
     LC!Close, LC!lcVars, TypeOK, TypeFlags, TypeSig
<1>12. CASE JudgeExit
  BY <1>12, VerdictMeaning DEF JudgeExit, LC!LNext, LC!Leave, LC!Complete,
     LC!lcVars
<1>13. CASE JudgeIdle
  BY <1>13, VerdictMeaning DEF JudgeIdle, LC!LNext, LC!Rest, LC!lcVars
<1>14. CASE JudgeDeath
  <2>1. deaths <= unit.budget /\ deaths \in Nat /\ unit.budget \in Nat
    BY <1>14, UnitFacts DEF JudgeDeath, BudgetIsHard, TypeOK, TypeFlags
  <2>2. CASE Verdict = "SPENT"
    BY <1>14, <2>1, <2>2, VerdictMeaning DEF JudgeDeath, LC!LNext, LC!Spend,
       LC!Unrequested, LC!lcVars
  <2>3. CASE Verdict = "RESTART"
    BY <1>14, <2>1, <2>3, VerdictMeaning DEF JudgeDeath, StoppedKnown, LC!LNext,
       LC!Charge, LC!Unrequested, LC!lcVars
  <2> QED
    BY <1>14, <2>2, <2>3 DEF JudgeDeath
<1>15. CASE Term
  BY <1>15 DEF Term, OnTerm, StoppedKnown, LC!LNext, LC!Close, LC!lcVars
<1>16. CASE Client \/ House
  BY <1>16 DEF Client, House, Connect, Speak, HangUp, HouseReset, HouseExec,
     HouseEnds, KidForked, KidsEnd, LC!lcVars
<1>17. CASE UNCHANGED vars
  BY <1>17 DEF vars, LC!lcVars, phaseMap
<1> QED
  BY <1>1, <1>2, <1>3, <1>4, <1>5, <1>6, <1>7, <1>8, <1>9, <1>10, <1>11, <1>12,
     <1>13, <1>14, <1>15, <1>16, <1>17 DEF Next, Step

\* nw-sup, with all its windows and its failures, implements the abstract
\* life of a unit.
THEOREM Implements == Spec => Refinement
<1>1. Init => LC!LInit
  BY UnitsAssumption DEF Init, LC!LInit, phaseMap, Exited, InHouse, Waiting,
     AllUnits
<1>2. IInv /\ [Next]_vars => [LC!LNext]_(LC!lcVars)
  BY Simulation
<1> QED
  BY <1>1, <1>2, Invariance, PTL DEF Spec, Refinement, LC!LSpec
===============================================================================
