--------------------------- MODULE AgentTurnProofs ---------------------------
(* Theorems about AgentTurn, for any numbers of turns, conversations, tool *)
(* calls, workers and clients, and with no bound but the constants'.       *)
EXTENDS AgentTurn, TLAPS

USE DEF turnVars, callVars, dispatchVars, inputVars, queueVars, goVars, storeVars

-----------------------------------------------------------------------------
(* The types.                                                              *)

LEMMA InitTypes == Init => TypeOK
BY TurnAssumption
DEF Init, TypeOK, Status, CallStatus, Approval, NoCheckpoint, Checkpoint,
    NoSubmission, Idle, NoRun, Run, Input

LEMMA MoveTypes ==
    ASSUME TypeOK, NEW k \in Slot, k \in Busy, NEW pc \in Pc, Move(k, pc)
    PROVE  worker' \in [Slot -> {Idle} \cup Job]
<1>1. worker[k] \in Job
  BY DEF TypeOK, Busy
<1>2. [worker[k] EXCEPT !.pc = pc] \in Job
  BY <1>1 DEF Job
<1>. QED
  BY <1>2 DEF TypeOK, Move

LEMMA CutTypes ==
    ASSUME TypeOK, NEW k \in Busy
    PROVE  [worker[k] EXCEPT !.cut = TRUE] \in Job
<1>1. worker[k] \in Job
  BY DEF TypeOK, Busy
<1>. QED
  BY <1>1 DEF Job

LEMMA CloseTypes ==
    ASSUME TypeOK, NEW T, CloseCalls(T)
    PROVE  call' \in [Call -> CallStatus] /\ approval' \in [Call -> Approval]
BY DEF TypeOK, CloseCalls, CallStatus, Approval

LEMMA FinishTypes ==
    ASSUME TypeOK, NEW t \in Turn, NEW s \in Status, Finish(t, s)
    PROVE  /\ status' \in [Turn -> Status]
           /\ checkpoint' \in [Turn -> Checkpoint]
           /\ call' \in [Call -> CallStatus]
           /\ approval' \in [Call -> Approval]
<1>1. NoCheckpoint \in Checkpoint
  BY DEF NoCheckpoint, Checkpoint
<1>2. CASE Unfinished(t)
  BY <1>1, <1>2, CloseTypes DEF TypeOK, Finish
<1>3. CASE ~Unfinished(t)
  BY <1>3 DEF TypeOK, Finish
<1>. QED
  BY <1>2, <1>3

LEMMA IncludedTypes ==
    ASSUME TypeOK, NEW t \in Turn, NEW read \in Nat
    PROVE  Included(t, read) \in [Turn -> Input]
<1>1. inputs[t] \in Input
  BY DEF TypeOK
<1>2. \A n \in Nat : [inputs[t] EXCEPT !.included = n] \in Input
  BY <1>1 DEF Input
<1>3. inputs[t].included \in Nat
  BY <1>1 DEF Input
<1>. QED
  BY <1>2, <1>3 DEF TypeOK, Included

LEMMA TypeStep == TypeOK /\ [Next]_vars => TypeOK'
<1>. SUFFICES ASSUME TypeOK, [Next]_vars PROVE TypeOK'
  OBVIOUS
<1>1. ASSUME NEW c \in Client, NEW t \in Turn, Stamp(c, t) PROVE TypeOK'
  BY <1>1, BoundAssumption DEF TypeOK, Stamp
<1>2. ASSUME NEW c \in Client, Admit(c) PROVE TypeOK'
  <2>1. submission[c] \in [turn : Turn, at : Nat]
    BY <1>2 DEF TypeOK, Admit
  <2>2. submission' \in [Client -> {NoSubmission} \cup [turn : Turn, at : Nat]]
    BY <1>2 DEF TypeOK, Admit
  <2>3. status' \in [Turn -> Status] /\ stamp' \in [Turn -> Nat]
    BY <1>2, <2>1 DEF TypeOK, Admit, Status, Parked
  <2>. QED
    BY <1>2, <2>2, <2>3 DEF TypeOK, Admit
<1>3. ASSUME NEW k \in Slot, NEW t \in Turn, Reserve(k, t) PROVE TypeOK'
  BY <1>3, BoundAssumption DEF TypeOK, Reserve, Job0, Job, Pc, Busy
<1>4. ASSUME NEW K \in SUBSET (Slot \ Busy), NEW seat \in [K -> Runnable], Claim(seat)
      PROVE  TypeOK'
  <2>1. \A k \in K : seat[k] \in Turn
    BY DEF Runnable
  <2>2. \A k \in K :
          Job0(seat[k], generation[seat[k]] + 1, "claimed", FALSE, 0) \in Job
    BY <2>1 DEF TypeOK, Job0, Job, Pc
  <2>3. worker' \in [Slot -> {Idle} \cup Job]
    BY <1>4, <2>2 DEF TypeOK, Claim
  <2>4. status' \in [Turn -> Status] /\ generation' \in [Turn -> Nat]
    BY <1>4 DEF TypeOK, Claim, Status, Executing
  <2>5. inputs' \in [Turn -> Input]
    <3>1. \A t \in Turn : [inputs[t] EXCEPT !.claimed = inputs[t].received] \in Input
      BY DEF TypeOK, Input
    <3>. QED
      BY <1>4, <3>1 DEF TypeOK, Claim
  <2>6. inputPause' \in [Turn -> BOOLEAN] /\ unread' \in [Turn -> BOOLEAN]
    BY <1>4 DEF TypeOK, Claim
  <2>. QED
    BY <1>4, <2>3, <2>4, <2>5, <2>6 DEF TypeOK, Claim
<1>5. ASSUME NEW k \in Slot, AdmitDirect(k) PROVE TypeOK'
  <2>. DEFINE t == worker[k].turn
  <2>1. worker[k] \in Job /\ t \in Turn
    BY <1>5 DEF TypeOK, AdmitDirect, At, Busy, Job
  <2>2. Job0(t, 1, "claimed", TRUE, 0) \in Job
    BY <2>1 DEF Job0, Job, Pc
  <2>3. CASE Release(k) /\ UNCHANGED <<status, stamp, generation>>
    BY <1>5, <2>3 DEF TypeOK, AdmitDirect, Release
  <2>4. CASE /\ status' = [status EXCEPT ![t] = "running"]
             /\ stamp' = [stamp EXCEPT ![t] = worker[k].at]
             /\ generation' = [generation EXCEPT ![t] = 1]
             /\ worker' = [worker EXCEPT ![k] = Job0(t, 1, "claimed", TRUE, 0)]
    <3>1. worker[k].at \in Nat
      BY <2>1 DEF Job
    <3>2. status' \in [Turn -> Status]
      BY <2>4 DEF TypeOK, Status, Executing
    <3>3. worker' \in [Slot -> {Idle} \cup Job]
      BY <2>2, <2>4 DEF TypeOK
    <3>4. stamp' \in [Turn -> Nat] /\ generation' \in [Turn -> Nat]
      BY <2>4, <3>1 DEF TypeOK
    <3>. QED
      BY <1>5, <3>2, <3>3, <3>4 DEF TypeOK, AdmitDirect
  <2>. QED
    BY <1>5, <2>3, <2>4 DEF AdmitDirect
<1>6. ASSUME NEW k \in Slot, Register(k) PROVE TypeOK'
  BY <1>6, MoveTypes DEF TypeOK, Register, At, Pc
<1>7. ASSUME NEW k \in Slot, NEW pc \in Pc, k \in Busy, Check(k, pc)
      PROVE  worker' \in [Slot -> {Idle} \cup Job]
  <2>1. CASE Release(k)
    BY <2>1 DEF TypeOK, Release
  <2>2. CASE ~Release(k)
    BY <1>7, <2>2, MoveTypes DEF Check, Pc
  <2>. QED
    BY <2>1, <2>2
<1>8. ASSUME NEW k \in Slot, Start(k) PROVE TypeOK'
  BY <1>8, <1>7 DEF TypeOK, Start, At, Pc
<1>9. ASSUME NEW k \in Slot, PrepareFails(k) PROVE TypeOK'
  BY <1>9, MoveTypes DEF TypeOK, PrepareFails, At, Pc
<1>10. ASSUME NEW k \in Slot, ContextFails(k) PROVE TypeOK'
  BY <1>10, <1>7 DEF TypeOK, ContextFails, At, Pc
<1>11. ASSUME NEW k \in Slot, StartRun(k) PROVE TypeOK'
  <2>1. worker[k] \in Job /\ k \in Busy
    BY <1>11 DEF TypeOK, StartRun, At, Busy
  <2>2. run' \in [Turn -> Run]
    <3>. DEFINE t == worker[k].turn
    <3>1. t \in Turn /\ worker[k].generation \in Nat
      BY <2>1 DEF Job
    <3>2. checkpoint[t].read \in Nat
      BY <3>1 DEF TypeOK, Checkpoint
    <3>3. \A g, n \in Nat : [NoRun EXCEPT !.generation = g, !.read = n] \in Run
      BY DEF NoRun, Run
    <3>4. [NoRun EXCEPT !.generation = worker[k].generation,
                        !.read = checkpoint[t].read] \in Run
      BY <3>1, <3>2, <3>3
    <3>5. run' = [run EXCEPT ![t] = [NoRun EXCEPT !.generation = worker[k].generation,
                                                  !.read = checkpoint[t].read]]
      BY <1>11 DEF StartRun
    <3>. HIDE DEF t
    <3>. QED
      BY <3>4, <3>5 DEF TypeOK
  <2>3. worker' \in [Slot -> {Idle} \cup Job]
    BY <1>11, <2>1, MoveTypes DEF StartRun, Pc
  <2>. QED
    BY <1>11, <2>2, <2>3 DEF TypeOK, StartRun
<1>12. ASSUME NEW k \in Slot, StreamBreaks(k) PROVE TypeOK'
  BY <1>12, MoveTypes DEF TypeOK, StreamBreaks, At, Pc
<1>13. ASSUME NEW k \in Slot, ForwardPause(k) PROVE TypeOK'
  <2>1. worker[k].turn \in Turn
    BY <1>13 DEF TypeOK, ForwardPause, At, Busy, Job
  <2>2. \A t \in Turn : [run[t] EXCEPT !.signalled = TRUE] \in Run
    BY DEF TypeOK, Run
  <2>3. run' = [run EXCEPT ![worker[k].turn].signalled = TRUE]
    BY <1>13 DEF ForwardPause
  <2>4. run' \in [Turn -> Run]
    BY <2>1, <2>2, <2>3 DEF TypeOK
  <2>. QED
    BY <1>13, <2>4 DEF TypeOK, ForwardPause
<1>14. ASSUME NEW k \in Slot, IncludeInputs(k) PROVE TypeOK'
  <2>. DEFINE t == worker[k].turn
  <2>1. worker[k] \in Job /\ k \in Busy /\ t \in Turn
    BY <1>14 DEF TypeOK, IncludeInputs, At, Busy, Job
  <2>2. inputs' \in [Turn -> Input]
    <3>1. run[t].read \in Nat
      BY <2>1 DEF TypeOK, Run
    <3>. QED
      BY <1>14, <2>1, <3>1, IncludedTypes DEF TypeOK, IncludeInputs
  <2>3. worker' \in [Slot -> {Idle} \cup Job]
    BY <1>14, <2>1, MoveTypes DEF TypeOK, IncludeInputs, Pc
  <2>. QED
    BY <1>14, <2>2, <2>3 DEF TypeOK, IncludeInputs
<1>15. ASSUME NEW k \in Slot, NEW event \in Final, RunEnds(k, event) PROVE TypeOK'
  <2>. DEFINE t == worker[k].turn
  <2>1. worker[k] \in Job /\ t \in Turn
    BY <1>15 DEF TypeOK, RunEnds, At, Busy, Job
  <2>2. run' \in [Turn -> Run]
    BY <1>15 DEF TypeOK, RunEnds, EndRun, NoRun, Run
  <2>3. run[t].asked \in SUBSET Call /\ run[t].read \in Nat
    BY <2>1 DEF TypeOK, Run
  <2>4. worker'[k] \in Job /\ worker' = [worker EXCEPT ![k] = worker'[k]]
    BY <1>15, <2>1, <2>3 DEF TypeOK, RunEnds, Job, Pc
  <2>. QED
    BY <1>15, <2>2, <2>4 DEF TypeOK, RunEnds
<1>16. ASSUME NEW k \in Slot, PersistEvent(k) PROVE TypeOK'
  <2>. DEFINE t == worker[k].turn
             kept == [saved |-> TRUE, pending |-> worker[k].pending,
                      read |-> worker[k].read]
  <2>1. worker[k] \in Job /\ k \in Busy /\ t \in Turn
    BY <1>16 DEF TypeOK, PersistEvent, At, Busy, Job
  <2>2. kept \in Checkpoint
    BY <2>1 DEF Checkpoint, Job
  <2>3. worker' \in [Slot -> {Idle} \cup Job]
    BY <1>16, <2>1, MoveTypes DEF PersistEvent, Pc
  <2>4. inputs' \in [Turn -> Input]
    <3>1. worker[k].read \in Nat
      BY <2>1 DEF Job
    <3>. QED
      BY <1>16, <2>1, <3>1, IncludedTypes DEF TypeOK, PersistEvent
  <2>5. CASE Finish(t, "failed") /\ UNCHANGED inputPause
    BY <1>16, <2>1, <2>3, <2>4, <2>5, FinishTypes
    DEF TypeOK, PersistEvent, Status, Ended
  <2>6. CASE UNCHANGED <<turnVars, callVars, inputPause>>
    BY <1>16, <2>3, <2>4, <2>6 DEF TypeOK, PersistEvent
  <2>7. CASE /\ status' = [status EXCEPT
                    ![t] = StatusAfterPause(t, worker[k].event, worker[k].pending)]
             /\ checkpoint' = [checkpoint EXCEPT ![t] = kept]
             /\ inputPause' = [inputPause EXCEPT ![t] = FALSE]
             /\ UNCHANGED callVars
    <3>1. status' \in [Turn -> Status]
      BY <2>7 DEF TypeOK, StatusAfterPause, Status, Parked
    <3>2. checkpoint' \in [Turn -> Checkpoint] /\ inputPause' \in [Turn -> BOOLEAN]
      BY <2>2, <2>7 DEF TypeOK
    <3>. QED
      BY <1>16, <2>3, <2>4, <2>7, <3>1, <3>2 DEF TypeOK, PersistEvent
  <2>. QED
    BY <1>16, <2>5, <2>6, <2>7 DEF PersistEvent
<1>17. ASSUME NEW k \in Slot, PersistCut(k) PROVE TypeOK'
  BY <1>17, MoveTypes DEF TypeOK, PersistCut, At, Pc
<1>18. ASSUME NEW k \in Slot, FinishRead(k) PROVE TypeOK'
  <2>1. CASE Release(k)
    BY <1>18, <2>1 DEF TypeOK, FinishRead, Release
  <2>2. CASE ~Release(k)
    BY <1>18, <2>2, MoveTypes DEF TypeOK, FinishRead, At, Pc
  <2>. QED
    BY <2>1, <2>2
<1>19. ASSUME NEW k \in Slot, FinishWrite(k) PROVE TypeOK'
  <2>1. worker[k].turn \in Turn
    BY <1>19 DEF TypeOK, FinishWrite, At, Busy, Job
  <2>2. worker' \in [Slot -> {Idle} \cup Job]
    BY <1>19 DEF TypeOK, FinishWrite, Release
  <2>. QED
    BY <1>19, <2>1, <2>2, FinishTypes DEF TypeOK, FinishWrite, Status, Ended
<1>20. ASSUME NEW t \in Turn, RunStops(t) PROVE TypeOK'
  BY <1>20 DEF TypeOK, RunStops, EndRun, NoRun, Run
<1>21. ASSUME NEW t \in Turn, ReadInputs(t) PROVE TypeOK'
  <2>1. inputs[t].claimed \in Nat
    BY DEF TypeOK, Input
  <2>2. run' \in [Turn -> Run]
    BY <1>21, <2>1 DEF TypeOK, ReadInputs, Run
  <2>. QED
    BY <1>21, <2>2 DEF TypeOK, ReadInputs
<1>22. ASSUME NEW t \in Turn, SendCommit(t) PROVE TypeOK'
  BY <1>22 DEF TypeOK, SendCommit
<1>23. ASSUME NEW t \in Turn, BeginCommit(t) PROVE TypeOK'
  BY <1>23 DEF TypeOK, BeginCommit, Status, Executing
<1>24. ASSUME NEW t \in Turn, SaveExchange(t) PROVE TypeOK'
  BY <1>24 DEF TypeOK, SaveExchange
<1>25. ASSUME NEW t \in Turn, SaveFails(t) PROVE TypeOK'
  BY <1>25, FinishTypes DEF TypeOK, SaveFails, Status, Ended
<1>26. ASSUME NEW t \in Turn, CompleteCommit(t) PROVE TypeOK'
  <2>1. status' \in [Turn -> Status]
    BY <1>26 DEF TypeOK, CompleteCommit, Status, Ended
  <2>2. checkpoint' \in [Turn -> Checkpoint]
    <3>1. NoCheckpoint \in Checkpoint
      BY DEF NoCheckpoint, Checkpoint
    <3>. QED
      BY <1>26, <3>1 DEF TypeOK, CompleteCommit
  <2>3. commit' \in [Turn -> {"none", "sent", "begun", "saved", "done"}]
    BY <1>26 DEF TypeOK, CompleteCommit
  <2>. QED
    BY <1>26, <2>1, <2>2, <2>3 DEF TypeOK, CompleteCommit
<1>27. ASSUME NEW t \in Turn, CommitReply(t) PROVE TypeOK'
  <2>1. run[t] \in Run
    BY DEF TypeOK
  <2>2. [run[t] EXCEPT !.committed = TRUE] \in Run
    BY <2>1 DEF Run
  <2>3. run' \in [Turn -> Run]
    BY <1>27, <2>2 DEF TypeOK, CommitReply
  <2>. QED
    BY <1>27, <2>3 DEF TypeOK, CommitReply
<1>28. ASSUME NEW t \in Turn, CommitLost(t) PROVE TypeOK'
  BY <1>28 DEF TypeOK, CommitLost
<1>29. ASSUME NEW t \in Turn, Pause(t) PROVE TypeOK'
  BY <1>29 DEF TypeOK, Pause, Status, Executing, Parked
<1>30. ASSUME NEW t \in Turn, Resume(t) PROVE TypeOK'
  BY <1>30 DEF TypeOK, Resume, Status, Parked
<1>31. ASSUME NEW t \in Turn, AppendInput(t) PROVE TypeOK'
  <2>1. inputs' \in [Turn -> Input]
    BY <1>31 DEF TypeOK, AppendInput, Input
  <2>2. status' \in [Turn -> Status]
    BY <1>31 DEF TypeOK, AppendInput, Status, Executing, Parked
  <2>3. inputPause' \in [Turn -> BOOLEAN] /\ unread' \in [Turn -> BOOLEAN]
    BY <1>31 DEF TypeOK, AppendInput
  <2>. QED
    BY <1>31, <2>1, <2>2, <2>3 DEF TypeOK, AppendInput
<1>32. ASSUME NEW t \in Turn, CancelTurn(t) PROVE TypeOK'
  <2>1. CASE Finish(t, "cancelled") /\ UNCHANGED cancelling
    BY <1>32, <2>1, FinishTypes DEF TypeOK, CancelTurn, Status, Ended
  <2>2. CASE /\ status' = [status EXCEPT ![t] = "cancel_requested"]
             /\ cancelling' = cancelling \cup {t}
             /\ UNCHANGED <<checkpoint, callVars>>
    BY <1>32, <2>2 DEF TypeOK, CancelTurn, Status, Executing
  <2>. QED
    BY <1>32, <2>1, <2>2 DEF CancelTurn
<1>33. ASSUME NEW t \in Turn, CancelSignal(t) PROVE TypeOK'
  <2>1. \A k \in Busy : [worker[k] EXCEPT !.cut = TRUE] \in Job
    BY CutTypes
  <2>. QED
    BY <1>33, <2>1 DEF TypeOK, CancelSignal
<1>34. ASSUME NEW c \in Call, BeginCall(c) PROVE TypeOK'
  <2>1. TurnOf[c] \in Turn
    BY CallAssumption
  <2>2. run[TurnOf[c]] \in Run
    BY <2>1 DEF TypeOK
  <2>3. [run[TurnOf[c]] EXCEPT !.asked = @ \cup {c}] \in Run
    BY <2>2 DEF Run
  <2>4. run' \in [Turn -> Run]
    BY <1>34, <2>3 DEF TypeOK, BeginCall
  <2>. QED
    BY <1>34, <2>4 DEF TypeOK, BeginCall, CallStatus, OpenCall, Approval
<1>35. ASSUME NEW c \in Call, StartCall(c) PROVE TypeOK'
  BY <1>35 DEF TypeOK, StartCall, CallStatus, OpenCall
<1>36. ASSUME NEW c \in Call, NEW result \in {"completed", "failed"}, EndCall(c, result)
       PROVE  TypeOK'
  BY <1>36 DEF TypeOK, EndCall, CallStatus
<1>37. ASSUME NEW c \in Call, CancelCall(c) PROVE TypeOK'
  BY <1>37 DEF TypeOK, CancelCall, CallStatus, Approval
<1>38. ASSUME NEW c \in Call, NEW decision \in {"approved", "rejected"},
              Resolve(c, decision)
       PROVE  TypeOK'
  BY <1>38 DEF TypeOK, Resolve, CallStatus, OpenCall, Approval, Status, Parked
<1>39. ASSUME Shutdown PROVE TypeOK'
  <2>1. \A k \in Busy : [worker[k] EXCEPT !.cut = TRUE] \in Job
    BY CutTypes
  <2>. QED
    BY <1>39, <2>1 DEF TypeOK, Shutdown
<1>40. ASSUME Restart PROVE TypeOK'
  <2>. DEFINE lost == {t \in Turn : status[t] \in Executing}
  <2>1. CloseCalls(lost)
    BY <1>40 DEF Restart
  <2>2. call' \in [Call -> CallStatus] /\ approval' \in [Call -> Approval]
    BY <2>1, CloseTypes
  <2>3. status' \in [Turn -> Status] /\ checkpoint' \in [Turn -> Checkpoint]
    BY <1>40 DEF TypeOK, Restart, Status, Ended, NoCheckpoint, Checkpoint
  <2>. QED
    BY <1>40, <2>2, <2>3 DEF TypeOK, Restart
<1>41. CASE UNCHANGED vars
  BY <1>41 DEF TypeOK, vars
<1>. QED
  BY <1>1, <1>2, <1>3, <1>4, <1>5, <1>6, <1>8, <1>9, <1>10, <1>11, <1>12, <1>13, <1>14,
     <1>15, <1>16, <1>17, <1>18, <1>19, <1>20, <1>21, <1>22, <1>23, <1>24, <1>25, <1>26,
     <1>27, <1>28, <1>29, <1>30, <1>31, <1>32, <1>33, <1>34, <1>35, <1>36, <1>37, <1>38,
     <1>39, <1>40, <1>41
  DEF Next, Submission, Dispatch, Worker, Commit, User, Tool

\* Every variable keeps its type, whatever the numbers of turns, tool calls,
\* workers and clients: no row, and no worker, run or request in memory, reaches
\* a combination of fields that the code does not name.
THEOREM TypeCorrect == Spec => []TypeOK
BY InitTypes, TypeStep, PTL DEF Spec
=============================================================================
