--------------------------- MODULE AgentTurnSafety ---------------------------
(* The safety of AgentTurn, proved for any numbers of turns, conversations, *)
(* tool calls, workers and clients, in three parts: its exclusion and its  *)
(* point of no return; that it implements ConversationQueue, step by step; *)
(* and what claims, pauses, inputs, approvals and endings keep of a turn.  *)
EXTENDS AgentTurnProofs

USE DEF turnVars, callVars, dispatchVars, inputVars, queueVars, goVars, storeVars

-----------------------------------------------------------------------------
(* The inductive invariant.  Exclusion alone is not inductive: a commit    *)
(* makes a turn execute again whatever it was doing, so a turn must not be *)
(* parked while its run or its commit request lives; and that depends on   *)
(* there being one worker to end the run before the turn is parked.        *)

Begun(t) == status[t] \in Executing \cup Ended

\* The workers that hold a turn, a direct admission in flight holds none yet.
Employed == {k \in Busy : worker[k].pc # "admitting"}

Working == {"claimed", "registered", "ready", "streaming"}
Parking == {"waiting_approval", "paused", "recovery"}
Kept    == {"committing", "committed", "failed"}

Owned == \A t \in Turn : Live(t) \/ commit[t] # "none" => Begun(t)

OneJob ==
    /\ \A k \in Employed : status[worker[k].turn] # "absent"
    /\ \A j, k \in Employed : worker[j].turn = worker[k].turn => j = k

\* A worker with a run to start or to follow has its turn begun, one about to
\* park its turn has seen the run end, one about to cancel has seen the request.
JobOwns(k) ==
    LET t == worker[k].turn IN
    /\ worker[k].pc \in Working => Begun(t)
    /\ worker[k].pc = "event" /\ worker[k].event \in Parking =>
        ~Live(t) /\ commit[t] = "none"
    /\ worker[k].pc = "cancelling" => status[t] \in {"cancel_requested"} \cup Ended

JobsOwn == \A k \in Employed : JobOwns(k)

Answered ==
    \A t \in Turn :
        /\ commit[t] \in {"begun", "saved"} => status[t] \in Kept
        /\ commit[t] = "saved" \/ status[t] = "committed" => t \in exchange
        /\ t \in exchange => status[t] \in Kept

Safe == OneExecuting /\ Owned /\ OneJob /\ JobsOwn /\ Answered

IInv == TypeOK /\ Safe

LEMMA InitSafe == Init => Safe
BY DEF Init, Safe, OneExecuting, Owned, OneJob, JobsOwn, Answered, Employed, Busy,
       Live, NoRun, Executing, Kept

-----------------------------------------------------------------------------
(* Most steps disturb nothing: they start no turn, no run and no commit,   *)
(* park nothing and give no worker a turn.                                 *)

Orderly(s, r) ==
    /\ r \in Executing => s \in Executing
    /\ s \in Executing => r \in Executing \cup Ended
    /\ s \in Ended => r = s
    /\ s = "absent" <=> r = "absent"
    /\ s = "committing" => r \in {"committing", "failed"}
    /\ s = "cancel_requested" => r \in {s} \cup Ended
    /\ r = "committed" => s = "committed"

Joins(s, r) == s = "absent" /\ r = "accepted"

Continues(k) ==
    /\ k \in Employed
    /\ worker'[k].turn = worker[k].turn
    /\ worker'[k].pc \in Working => worker[k].pc \in Working
    /\ worker'[k].pc = "event" =>
        \/ worker[k].pc = "event" /\ worker'[k].event = worker[k].event
        \/ worker'[k].event \in Parking =>
             run'[worker[k].turn].generation = 0 /\ commit'[worker[k].turn] = "none"
    /\ worker'[k].pc = "cancelling" =>
        \/ worker[k].pc = "cancelling"
        \/ status[worker[k].turn] \in {"cancel_requested"} \cup Ended

LEMMA JobTurn == ASSUME TypeOK, NEW k \in Busy PROVE worker[k] \in Job /\ worker[k].turn \in Turn
BY DEF TypeOK, Busy, Job

LEMMA Undisturbed ==
    ASSUME IInv,
           \A t \in Turn : Orderly(status[t], status'[t]) \/ Joins(status[t], status'[t]),
           \A t \in Turn : run'[t].generation > 0 => Live(t),
           \A t \in Turn : commit'[t] \in {"none", commit[t]},
           \A k \in Employed' : Continues(k),
           UNCHANGED exchange
    PROVE  Safe'
<1>1. OneExecuting'
  BY DEF IInv, Safe, OneExecuting, Orderly, Joins, Executing
<1>2. \A t \in Turn : Begun(t) => Begun(t)'
  BY DEF Begun, Orderly, Joins, Executing, Ended
<1>3. Owned'
  BY <1>2 DEF IInv, Safe, Owned, Live
<1>4. OneJob'
  <2>1. \A k \in Employed' : worker[k].turn \in Turn
    BY JobTurn DEF IInv, Continues, Employed
  <2>. QED
    BY <2>1 DEF IInv, Safe, OneJob, Continues, Orderly, Joins
<1>5. JobsOwn'
  <2>. SUFFICES ASSUME NEW k \in Employed' PROVE JobOwns(k)'
    BY DEF JobsOwn
  <2>. DEFINE t == worker[k].turn
  <2>1. k \in Employed /\ t \in Turn /\ worker'[k].turn = t /\ worker[k] \in Job
    BY JobTurn DEF IInv, Continues, Employed
  <2>2. /\ JobOwns(k) /\ Continues(k)
        /\ Orderly(status[t], status'[t]) \/ Joins(status[t], status'[t])
    BY <2>1 DEF IInv, Safe, JobsOwn
  <2>3. (worker[k].pc \in Working => Begun(t))'
    BY <1>2, <2>1, <2>2 DEF JobOwns, Continues, Begun
  <2>4. (worker[k].pc = "event" /\ worker[k].event \in Parking =>
            ~Live(t) /\ commit[t] = "none")'
    BY <2>1, <2>2 DEF JobOwns, Continues, Live, IInv, TypeOK, Run
  <2>5. (worker[k].pc = "cancelling" => status[t] \in {"cancel_requested"} \cup Ended)'
    BY <2>1, <2>2 DEF JobOwns, Continues, Orderly, Joins, Ended
  <2>. QED
    BY <2>1, <2>3, <2>4, <2>5 DEF JobOwns
<1>6. Answered'
  BY DEF IInv, Safe, Answered, Orderly, Joins, Kept, Ended
<1>. QED
  BY <1>1, <1>3, <1>4, <1>5, <1>6 DEF Safe

LEMMA Closing ==
    ASSUME TypeOK, NEW t \in Turn, NEW s \in {"cancelled", "failed"}, Finish(t, s),
           s = "cancelled" => status[t] # "committing"
    PROVE  \A u \in Turn : Orderly(status[u], status'[u])
<1>1. ASSUME NEW u \in Turn, u # t \/ ~Unfinished(t) PROVE status'[u] = status[u]
  <2>1. CASE Unfinished(t)
    BY <1>1, <2>1 DEF TypeOK, Finish
  <2>2. CASE ~Unfinished(t)
    BY <2>2 DEF Finish
  <2>. QED
    BY <2>1, <2>2
<1>2. Unfinished(t) => status'[t] = s
  BY DEF TypeOK, Finish
<1>3. Orderly(status[t], status'[t])
  BY <1>1, <1>2 DEF Orderly, Unfinished, Executing, Ended
<1>. QED
  BY <1>1, <1>3 DEF Orderly

LEMMA SameStatus ==
    ASSUME UNCHANGED status
    PROVE  \A u \in Turn : Orderly(status[u], status'[u])
BY DEF Orderly

LEMMA SameWorkers ==
    ASSUME UNCHANGED worker
    PROVE  \A k \in Employed' : Continues(k)
BY DEF Continues, Employed, Busy

LEMMA Moving ==
    ASSUME TypeOK, NEW k \in Employed, NEW pc \in Pc, Move(k, pc),
           pc \in Working => worker[k].pc \in Working,
           pc # "event",
           pc = "cancelling" => status[worker[k].turn] \in {"cancel_requested"} \cup Ended
    PROVE  \A j \in Employed' : Continues(j)
<1>1. worker[k] \in Job /\ k \in Slot
  BY JobTurn DEF Employed, Busy
<1>2. worker'[k] = [worker[k] EXCEPT !.pc = pc]
  BY <1>1 DEF TypeOK, Move
<1>3. \A j \in Slot : j # k => worker'[j] = worker[j]
  BY DEF TypeOK, Move
<1>4. Continues(k)
  BY <1>1, <1>2 DEF Continues, Job
<1>5. \A j \in Employed' : j # k => Continues(j)
  BY <1>3 DEF Continues, Employed, Busy
<1>. QED
  BY <1>4, <1>5

LEMMA Releasing ==
    ASSUME TypeOK, NEW k \in Slot, Release(k)
    PROVE  \A j \in Employed' : Continues(j)
BY DEF TypeOK, Release, Continues, Employed, Busy

LEMMA Checking ==
    ASSUME TypeOK, NEW k \in Employed, NEW pc \in {"ready", "failing"}, Check(k, pc),
           worker[k].pc \in Working
    PROVE  \A j \in Employed' : Continues(j)
<1>1. CASE Release(k)
  BY <1>1, Releasing DEF Employed, Busy
<1>2. CASE ~Release(k)
  BY <1>2, Moving DEF Check, Pc, Working
<1>. QED
  BY <1>1, <1>2

\* The steps that change a status, and not more than that.

LEMMA Admitting ==
    ASSUME TypeOK, NEW c \in Client, Admit(c)
    PROVE  \A u \in Turn : Orderly(status[u], status'[u]) \/ Joins(status[u], status'[u])
<1>1. submission[c].turn \in Turn
  BY DEF TypeOK, Admit
<1>. QED
  BY <1>1 DEF TypeOK, Admit, Orderly, Joins

LEMMA Restarting ==
    ASSUME TypeOK, Restart
    PROVE  \A u \in Turn : Orderly(status[u], status'[u])
BY DEF TypeOK, Restart, Orderly, Executing, Ended

LEMMA Finishing ==
    ASSUME IInv, NEW k \in Slot, FinishWrite(k)
    PROVE  \A u \in Turn : Orderly(status[u], status'[u])
<1>. DEFINE t == worker[k].turn
<1>1. k \in Employed /\ t \in Turn
  BY JobTurn DEF FinishWrite, At, Employed, IInv
<1>2. worker[k].pc = "cancelling" => status[t] # "committing"
  BY <1>1 DEF IInv, Safe, JobsOwn, JobOwns, Ended
<1>. QED
  BY <1>1, <1>2, Closing DEF FinishWrite, IInv

LEMMA Commanding ==
    ASSUME TypeOK, NEW t \in Turn,
           Pause(t) \/ Resume(t) \/ AppendInput(t) \/ CancelTurn(t)
    PROVE  \A u \in Turn : Orderly(status[u], status'[u])
<1>1. CASE Pause(t) \/ Resume(t) \/ AppendInput(t)
  <2>1. \A u \in Turn : u # t => status'[u] = status[u]
    BY <1>1 DEF Pause, Resume, AppendInput, TypeOK
  <2>2. \/ status[t] \in {"running", "pausing"} /\ status'[t] \in {"running", "pausing"}
        \/ status[t] \in Parked /\ status'[t] \in Parked
    BY <1>1 DEF Pause, PausesAtOnce, Resume, AppendInput, StopsForInput, Parked, TypeOK
  <2>. QED
    BY <2>1, <2>2 DEF Orderly, Parked, Executing, Ended
<1>2. CASE status[t] \in Parked /\ Finish(t, "cancelled")
  BY <1>2, Closing DEF Parked
<1>3. CASE /\ status[t] \in Cancellable
           /\ status' = [status EXCEPT ![t] = "cancel_requested"]
  BY <1>3 DEF Cancellable, Orderly, Executing, Ended, TypeOK
<1>. QED
  BY <1>1, <1>2, <1>3 DEF CancelTurn

LEMMA Calling ==
    ASSUME TypeOK, NEW c \in Call, Tool(c)
    PROVE  \A u \in Turn : Orderly(status[u], status'[u])
<1>1. CASE UNCHANGED status
  BY <1>1, SameStatus
<1>2. ASSUME NEW decision \in {"approved", "rejected"}, Resolve(c, decision)
      PROVE  \A u \in Turn : Orderly(status[u], status'[u])
  BY <1>2 DEF Resolve, TypeOK, Orderly, Executing, Ended
<1>. QED
  BY <1>1, <1>2 DEF Tool, BeginCall, StartCall, CancelCall, EndCall

LEMMA Undisturbing ==
    ASSUME IInv,
           \A t \in Turn : Orderly(status[t], status'[t]) \/ Joins(status[t], status'[t]),
           \A k \in Employed' : Continues(k),
           UNCHANGED <<commit, run, exchange>>
    PROVE  Safe'
BY Undisturbed DEF Live

-----------------------------------------------------------------------------
(* The steps that do disturb: they start a turn, a run or a commit, store  *)
(* the reply, or park the turn.                                            *)

LEMMA ClaimApart ==
    ASSUME IInv, NEW t \in Runnable, NEW u \in Runnable
    PROVE  ~Sibling(t, u)
<1>. SUFFICES ASSUME Sibling(t, u) PROVE FALSE
  OBVIOUS
<1>1. t \in Turn /\ u \in Turn /\ t \in Nat /\ u \in Nat /\ t # u
  BY TurnAssumption DEF Runnable, Sibling
<1>2. stamp[t] \in Nat /\ stamp[u] \in Nat
  BY <1>1 DEF IInv, TypeOK
<1>3. Older(t, u) \/ Older(u, t)
  BY <1>1, <1>2 DEF Older
<1>4. ~Older(t, u) /\ ~Older(u, t)
  BY <1>1 DEF Runnable, Sibling, Queued
<1>. QED
  BY <1>3, <1>4

LEMMA ClaimSafe ==
    ASSUME IInv, NEW K \in SUBSET (Slot \ Busy), NEW seat \in [K -> Runnable], Claim(seat)
    PROVE  Safe'
<1>. DEFINE taken == {seat[k] : k \in K}
<1>1. K = DOMAIN seat /\ taken \subseteq Turn /\ taken \subseteq Runnable
  BY DEF Claim, Runnable
<1>2. \A t \in Turn : status'[t] = IF t \in taken THEN "running" ELSE status[t]
  BY <1>1 DEF Claim
<1>3. \A t \in taken : status[t] = "accepted" /\ t \notin Active
  BY <1>1 DEF Runnable
<1>4. /\ \A k \in K : worker'[k].turn = seat[k] /\ worker'[k].pc = "claimed"
      /\ \A k \in Slot \ K : worker'[k] = worker[k]
  BY <1>1 DEF Claim, Job0
<1>5. UNCHANGED <<commit, run, exchange>>
  BY DEF Claim
<1>. HIDE DEF taken
<1>6. \A t, u \in taken : ~Sibling(t, u)
  BY <1>1, ClaimApart
<1>7. OneExecuting'
  <2>. SUFFICES ASSUME NEW t \in Turn, NEW u \in Turn, Sibling(t, u),
                       status'[t] \in Executing, status'[u] \in Executing
                PROVE  FALSE
    BY DEF OneExecuting, Sibling
  <2>1. CASE t \in taken
    BY <1>1, <1>2, <1>6, <2>1 DEF Runnable, Blocking, Sibling
  <2>2. CASE u \in taken
    BY <1>1, <1>2, <1>6, <2>2 DEF Runnable, Blocking, Sibling
  <2>3. CASE t \notin taken /\ u \notin taken
    BY <1>2, <2>3 DEF IInv, Safe, OneExecuting
  <2>. QED
    BY <2>1, <2>2, <2>3
<1>8. Owned'
  BY <1>2, <1>5 DEF IInv, Safe, Owned, Begun, Live, Executing
<1>9. \A k \in K : seat[k] \in taken /\ seat[k] \in Turn /\ k \in Slot
  BY <1>1 DEF taken
<1>10. OneJob'
  <2>1. \A k \in Employed' : k \in K \/ (k \in Employed /\ worker'[k] = worker[k])
    BY <1>4, <1>9 DEF Employed, Busy
  <2>2. \A k \in K : worker'[k].turn = seat[k]
    BY <1>4
  <2>3. \A k \in Employed : worker[k].turn \in Active /\ worker[k].turn \in Turn
    BY JobTurn DEF Active, Employed, IInv
  <2>4. \A j, k \in K : j # k => seat[j] # seat[k]
    BY <1>1 DEF Claim
  <2>5. \A k \in Employed' : status'[worker'[k].turn] # "absent"
    BY <1>2, <1>9, <2>1, <2>2, <2>3 DEF IInv, Safe, OneJob
  <2>6. \A j, k \in Employed' : worker'[j].turn = worker'[k].turn => j = k
    BY <1>3, <1>9, <2>1, <2>2, <2>3, <2>4 DEF IInv, Safe, OneJob
  <2>. QED
    BY <2>5, <2>6 DEF OneJob
<1>11. JobsOwn'
  <2>. SUFFICES ASSUME NEW k \in Employed' PROVE JobOwns(k)'
    BY DEF JobsOwn
  <2>1. CASE k \in K
    BY <1>2, <1>4, <1>9, <2>1 DEF JobOwns, Begun, Executing
  <2>2. CASE k \notin K
    <3>1. k \in Employed /\ worker'[k] = worker[k] /\ worker[k].turn \in Turn
      BY <1>4, <2>2, JobTurn DEF Employed, Busy, IInv
    <3>2. status'[worker[k].turn] = status[worker[k].turn]
      BY <1>2, <1>3, <3>1 DEF Active, Employed
    <3>. QED
      BY <1>5, <3>1, <3>2 DEF IInv, Safe, JobsOwn, JobOwns, Begun, Live
  <2>. QED
    BY <2>1, <2>2
<1>12. Answered'
  BY <1>2, <1>3, <1>5 DEF IInv, Safe, Answered, Kept
<1>. QED
  BY <1>7, <1>8, <1>10, <1>11, <1>12 DEF Safe

LEMMA AdmitDirectSafe ==
    ASSUME IInv, NEW k \in Slot, AdmitDirect(k)
    PROVE  Safe'
<1>. DEFINE t == worker[k].turn
<1>1. k \in Busy /\ t \in Turn /\ worker[k].pc = "admitting"
  BY JobTurn DEF AdmitDirect, At, IInv
<1>2. UNCHANGED <<commit, run, exchange>>
  BY DEF AdmitDirect
<1>3. CASE Release(k) /\ UNCHANGED status
  BY <1>2, <1>3, Releasing, SameStatus, Undisturbing DEF IInv
<1>4. CASE ~(Release(k) /\ UNCHANGED status)
  <2>1. /\ status[t] = "absent"
        /\ \A u \in Turn : Sibling(u, t) => ~Unfinished(u)
        /\ status' = [status EXCEPT ![t] = "running"]
        /\ worker' = [worker EXCEPT ![k] = Job0(t, 1, "claimed", TRUE, 0)]
    BY <1>4 DEF AdmitDirect
  <2>2. status'[t] = "running" /\ \A u \in Turn : u # t => status'[u] = status[u]
    BY <1>1, <2>1 DEF IInv, TypeOK
  <2>3. /\ worker'[k].turn = t /\ worker'[k].pc = "claimed"
        /\ \A j \in Slot : j # k => worker'[j] = worker[j]
    BY <2>1 DEF IInv, TypeOK, Job0
  <2>4. \A j \in Employed' : j # k =>
            j \in Employed /\ worker'[j] = worker[j] /\ worker[j].turn \in Turn \ {t}
    BY <2>1, <2>3, JobTurn DEF Employed, Busy, IInv, Safe, OneJob
  <2>5. OneExecuting'
    BY <2>1, <2>2, <1>1 DEF IInv, Safe, OneExecuting, Sibling, Unfinished, Executing, Ended
  <2>6. Owned'
    BY <1>2, <2>2 DEF IInv, Safe, Owned, Begun, Live, Executing
  <2>7. OneJob'
    BY <2>2, <2>3, <2>4 DEF IInv, Safe, OneJob
  <2>8. JobsOwn'
    <3>. SUFFICES ASSUME NEW j \in Employed' PROVE JobOwns(j)'
      BY DEF JobsOwn
    <3>1. CASE j = k
      BY <2>2, <2>3, <3>1 DEF JobOwns, Begun, Executing
    <3>2. CASE j # k
      BY <1>2, <2>2, <2>4, <3>2 DEF IInv, Safe, JobsOwn, JobOwns, Begun, Live
    <3>. QED
      BY <3>1, <3>2
  <2>9. Answered'
    BY <1>2, <2>1, <2>2 DEF IInv, Safe, Answered, Kept
  <2>. QED
    BY <2>5, <2>6, <2>7, <2>8, <2>9 DEF Safe
<1>. QED
  BY <1>3, <1>4

LEMMA StartRunSafe ==
    ASSUME IInv, NEW k \in Slot, StartRun(k)
    PROVE  Safe'
<1>. DEFINE t == worker[k].turn
<1>1. k \in Employed /\ t \in Turn /\ worker[k] \in Job /\ worker[k].pc = "ready"
  BY JobTurn DEF StartRun, At, IInv, Employed
<1>2. UNCHANGED <<commit, status, exchange>>
  BY DEF StartRun
<1>3. \A j \in Employed' : /\ j \in Employed
                        /\ worker'[j].turn = worker[j].turn
  <2>1. \A j \in Slot : j # k => worker'[j] = worker[j]
    BY DEF StartRun, Move, IInv, TypeOK
  <2>2. worker'[k] = [worker[k] EXCEPT !.pc = "streaming"]
    BY DEF StartRun, Move, IInv, TypeOK
  <2>. QED
    BY <1>1, <2>1, <2>2 DEF Continues, Employed, Busy, Job, Working
<1>4. \A u \in Turn : u # t => run'[u] = run[u]
  BY DEF StartRun, IInv, TypeOK
<1>5. Begun(t)
  BY <1>1 DEF IInv, Safe, JobsOwn, JobOwns, Working
<1>6. OneExecuting' /\ Answered'
  BY <1>2 DEF IInv, Safe, OneExecuting, Answered
<1>7. Owned'
  BY <1>2, <1>4, <1>5 DEF IInv, Safe, Owned, Begun, Live
<1>8. OneJob'
  BY <1>2, <1>3 DEF IInv, Safe, OneJob, Continues
<1>9. JobsOwn'
  <2>. SUFFICES ASSUME NEW j \in Employed' PROVE JobOwns(j)'
    BY DEF JobsOwn
  <2>1. CASE j = k
    BY <1>1, <1>2, <1>5, <2>1 DEF StartRun, Move, IInv, TypeOK, Job, JobOwns, Begun
  <2>2. CASE j # k
    <3>1. j \in Employed /\ worker'[j] = worker[j] /\ worker[j].turn \in Turn \ {t}
      BY <1>1, <2>2, JobTurn DEF StartRun, Move, Employed, Busy, IInv, TypeOK, Safe, OneJob
    <3>. QED
      BY <1>2, <1>4, <3>1 DEF IInv, Safe, JobsOwn, JobOwns, Begun, Live
  <2>. QED
    BY <2>1, <2>2
<1>. QED
  BY <1>6, <1>7, <1>8, <1>9 DEF Safe

LEMMA PersistEventSafe ==
    ASSUME IInv, NEW k \in Slot, PersistEvent(k)
    PROVE  Safe'
<1>. DEFINE t == worker[k].turn
<1>1. k \in Employed /\ t \in Turn /\ worker[k] \in Job /\ worker[k].pc = "event"
  BY JobTurn DEF PersistEvent, At, IInv, Employed
<1>2. UNCHANGED <<commit, run, exchange>>
  BY DEF PersistEvent
<1>3. \A j \in Employed' : Continues(j)
  BY <1>1, Moving DEF PersistEvent, IInv, Working, Pc
<1>4. CASE UNCHANGED status
  BY <1>2, <1>3, <1>4, SameStatus, Undisturbing
<1>5. CASE Finish(t, "failed")
  BY <1>1, <1>2, <1>3, <1>5, Closing, Undisturbing DEF IInv
<1>6. CASE ~(UNCHANGED status) /\ ~Finish(t, "failed")
  <2>1. /\ worker[k].event \in Parking
        /\ status[t] \in {"pausing", "running", "waiting_approval"}
        /\ status' = [status EXCEPT
                ![t] = StatusAfterPause(t, worker[k].event, worker[k].pending)]
    BY <1>6 DEF PersistEvent, SavesCheckpoint, Parking
  <2>2. status'[t] \in {"accepted", "paused", "waiting_approval"}
    BY <1>1, <2>1 DEF StatusAfterPause, IInv, TypeOK
  <2>3. \A u \in Turn : u # t => status'[u] = status[u]
    BY <2>1 DEF IInv, TypeOK
  <2>4. ~Live(t) /\ commit[t] = "none"
    BY <1>1, <2>1 DEF IInv, Safe, JobsOwn, JobOwns
  <2>5. OneExecuting'
    BY <2>2, <2>3 DEF IInv, Safe, OneExecuting, Executing
  <2>6. Owned'
    BY <1>2, <2>3, <2>4 DEF IInv, Safe, Owned, Begun, Live
  <2>7. OneJob'
    BY <1>1, <1>3, <2>2, <2>3, JobTurn
    DEF IInv, Safe, OneJob, Continues, Employed
  <2>8. JobsOwn'
    <3>. SUFFICES ASSUME NEW j \in Employed' PROVE JobOwns(j)'
      BY DEF JobsOwn
    <3>1. CASE j = k
      BY <1>1, <3>1 DEF PersistEvent, Move, IInv, TypeOK, Job, JobOwns, Working
    <3>2. CASE j # k
      <4>1. j \in Employed /\ worker'[j] = worker[j] /\ worker[j].turn \in Turn \ {t}
        BY <1>1, <3>2, JobTurn
        DEF PersistEvent, Move, Employed, Busy, IInv, TypeOK, Safe, OneJob
      <4>. QED
        BY <1>2, <2>3, <4>1 DEF IInv, Safe, JobsOwn, JobOwns, Begun, Live
    <3>. QED
      BY <3>1, <3>2
  <2>9. Answered'
    BY <1>1, <1>2, <2>1, <2>2, <2>3, <2>4 DEF IInv, Safe, Answered, Kept
  <2>. QED
    BY <2>5, <2>6, <2>7, <2>8, <2>9 DEF Safe
<1>. QED
  BY <1>4, <1>5, <1>6

LEMMA SendCommitSafe ==
    ASSUME IInv, NEW t \in Turn, SendCommit(t)
    PROVE  Safe'
<1>1. UNCHANGED <<status, worker, run, exchange>> /\ Live(t) /\ commit'[t] = "sent"
  BY DEF SendCommit, IInv, TypeOK
<1>2. \A u \in Turn : u # t => commit'[u] = commit[u]
  BY DEF SendCommit, IInv, TypeOK
<1>3. OneExecuting' /\ OneJob'
  BY <1>1 DEF IInv, Safe, OneExecuting, OneJob, Employed, Busy
<1>4. Owned'
  BY <1>1, <1>2 DEF IInv, Safe, Owned, Begun, Live
<1>5. JobsOwn'
  <2>. SUFFICES ASSUME NEW k \in Employed' PROVE JobOwns(k)'
    BY DEF JobsOwn
  <2>1. k \in Employed /\ worker'[k] = worker[k] /\ worker[k].turn \in Turn
    BY <1>1, JobTurn DEF Employed, Busy, IInv
  <2>. QED
    BY <1>1, <1>2, <2>1 DEF IInv, Safe, JobsOwn, JobOwns, Begun, Live
<1>6. Answered'
  BY <1>1, <1>2 DEF IInv, Safe, Answered
<1>. QED
  BY <1>3, <1>4, <1>5, <1>6 DEF Safe

LEMMA BeginCommitSafe ==
    ASSUME IInv, NEW t \in Turn, BeginCommit(t)
    PROVE  Safe'
<1>1. UNCHANGED <<worker, run, exchange>> /\ commit[t] = "sent" /\ Begun(t)
  BY DEF BeginCommit, IInv, Safe, Owned
<1>2. \A u \in Turn : u # t => commit'[u] = commit[u] /\ status'[u] = status[u]
  BY DEF BeginCommit, IInv, TypeOK
<1>3. CASE UNCHANGED status /\ ~MayCommit(t)
  <2>1. \A u \in Turn : commit'[u] \in {"none", commit[u]}
    BY <1>3 DEF BeginCommit, IInv, TypeOK
  <2>. QED
    BY <1>1, <1>3, <2>1, SameStatus, SameWorkers, Undisturbed DEF Live
<1>4. CASE MayCommit(t)
  <2>1. commit'[t] = "begun" /\ status'[t] \in {"committing", "committed"}
    BY <1>4 DEF BeginCommit, IInv, TypeOK
  <2>2. \/ status'[t] = status[t]
        \/ status'[t] = "committing" /\ status[t] \in Executing \ {"cancel_requested"}
    BY <1>1, <1>4 DEF BeginCommit, MayCommit, Begun, Executing, Ended, IInv, TypeOK
  <2>3. OneExecuting'
    BY <1>2, <2>1, <2>2 DEF IInv, Safe, OneExecuting
  <2>4. Owned'
    BY <1>1, <1>2, <2>1 DEF IInv, Safe, Owned, Begun, Live, Executing, Ended
  <2>5. OneJob'
    <3>1. \A k \in Employed' : k \in Employed /\ worker[k].turn \in Turn
      BY <1>1, JobTurn DEF Employed, Busy, IInv
    <3>. QED
      BY <1>1, <1>2, <2>1, <3>1 DEF IInv, Safe, OneJob
  <2>6. JobsOwn'
    <3>. SUFFICES ASSUME NEW k \in Employed' PROVE JobOwns(k)'
      BY DEF JobsOwn
    <3>1. k \in Employed /\ worker'[k] = worker[k] /\ worker[k].turn \in Turn
      BY <1>1, JobTurn DEF Employed, Busy, IInv
    <3>2. JobOwns(k)
      BY <3>1 DEF IInv, Safe, JobsOwn
    <3>3. CASE worker[k].turn = t
      BY <1>1, <2>1, <2>2, <3>1, <3>2, <3>3
      DEF JobOwns, Begun, Live, Executing, Ended
    <3>4. CASE worker[k].turn # t
      BY <1>1, <1>2, <3>1, <3>2, <3>4 DEF JobOwns, Begun, Live
    <3>. QED
      BY <3>3, <3>4
  <2>7. Answered'
    BY <1>1, <1>2, <2>1, <2>2 DEF IInv, Safe, Answered, Kept
  <2>. QED
    BY <2>3, <2>4, <2>5, <2>6, <2>7 DEF Safe
<1>. QED
  BY <1>3, <1>4 DEF BeginCommit, IInv, TypeOK

LEMMA SaveExchangeSafe ==
    ASSUME IInv, NEW t \in Turn, SaveExchange(t)
    PROVE  Safe'
<1>1. /\ UNCHANGED <<status, worker, run>> /\ exchange' = exchange \cup {t}
      /\ commit[t] = "begun" /\ commit'[t] = "saved"
      /\ \A u \in Turn : u # t => commit'[u] = commit[u]
  BY DEF SaveExchange, IInv, TypeOK
<1>2. OneExecuting' /\ OneJob'
  BY <1>1 DEF IInv, Safe, OneExecuting, OneJob, Employed, Busy
<1>3. Owned'
  BY <1>1 DEF IInv, Safe, Owned, Begun, Live
<1>4. JobsOwn'
  <2>. SUFFICES ASSUME NEW k \in Employed' PROVE JobOwns(k)'
    BY DEF JobsOwn
  <2>1. k \in Employed /\ worker'[k] = worker[k] /\ worker[k].turn \in Turn
    BY <1>1, JobTurn DEF Employed, Busy, IInv
  <2>. QED
    BY <1>1, <2>1 DEF IInv, Safe, JobsOwn, JobOwns, Begun, Live
<1>5. Answered'
  BY <1>1 DEF IInv, Safe, Answered
<1>. QED
  BY <1>2, <1>3, <1>4, <1>5 DEF Safe

LEMMA CompleteCommitSafe ==
    ASSUME IInv, NEW t \in Turn, CompleteCommit(t)
    PROVE  Safe'
<1>1. /\ UNCHANGED <<worker, run, exchange>>
      /\ commit[t] = "saved" /\ status[t] \in Kept /\ t \in exchange
  BY DEF CompleteCommit, IInv, Safe, Answered
<1>2. /\ status'[t] \in Kept \ {"committing"}
      /\ status'[t] = status[t] \/ status[t] = "committing"
      /\ \A u \in Turn : u # t => status'[u] = status[u] /\ commit'[u] = commit[u]
      /\ commit'[t] \in {"done", "none"}
  BY <1>1 DEF CompleteCommit, Kept, IInv, TypeOK
<1>3. OneExecuting'
  BY <1>2 DEF IInv, Safe, OneExecuting, Executing, Kept
<1>4. Owned'
  BY <1>1, <1>2 DEF IInv, Safe, Owned, Begun, Live, Executing, Ended, Kept
<1>5. OneJob'
  <2>1. \A k \in Employed' : k \in Employed /\ worker[k].turn \in Turn
    BY <1>1, JobTurn DEF Employed, Busy, IInv
  <2>. QED
    BY <1>1, <1>2, <2>1 DEF IInv, Safe, OneJob, Kept
<1>6. JobsOwn'
  <2>. SUFFICES ASSUME NEW k \in Employed' PROVE JobOwns(k)'
    BY DEF JobsOwn
  <2>1. k \in Employed /\ worker'[k] = worker[k] /\ worker[k].turn \in Turn
    BY <1>1, JobTurn DEF Employed, Busy, IInv
  <2>2. JobOwns(k)
    BY <2>1 DEF IInv, Safe, JobsOwn
  <2>3. CASE worker[k].turn = t
    BY <1>1, <1>2, <2>1, <2>2, <2>3 DEF JobOwns, Begun, Live, Ended, Kept
  <2>4. CASE worker[k].turn # t
    BY <1>1, <1>2, <2>1, <2>2, <2>4 DEF JobOwns, Begun, Live
  <2>. QED
    BY <2>3, <2>4
<1>7. Answered'
  BY <1>1, <1>2 DEF IInv, Safe, Answered, Kept
<1>. QED
  BY <1>3, <1>4, <1>5, <1>6, <1>7 DEF Safe

\* A worker that is cut off goes on with what it does.
LEMMA Cutting ==
    ASSUME TypeOK, TypeOK',
           \A k \in Busy' : /\ k \in Busy
                            /\ \/ worker'[k] = [worker[k] EXCEPT !.cut = TRUE]
                               \/ worker'[k] = worker[k]
    PROVE  \A k \in Employed' : Continues(k)
<1>. SUFFICES ASSUME NEW k \in Employed' PROVE Continues(k)
  OBVIOUS
<1>1. k \in Busy' /\ k \in Busy /\ worker[k] \in Job /\ worker'[k].pc # "admitting"
  BY JobTurn DEF Employed
<1>2. worker'[k].pc = worker[k].pc /\ worker'[k].turn = worker[k].turn
      /\ worker'[k].event = worker[k].event
  BY <1>1 DEF Job
<1>. QED
  BY <1>1, <1>2 DEF Continues, Employed

-----------------------------------------------------------------------------
LEMMA SafeStep == IInv /\ [Next]_vars => Safe'
<1>. SUFFICES ASSUME IInv, [Next]_vars PROVE Safe'
  OBVIOUS
<1>. TypeOK /\ TypeOK'
  BY TypeStep DEF IInv
<1>1. CASE Submission
  <2>1. ASSUME NEW c \in Client, Admit(c) PROVE Safe'
    BY <2>1, Admitting, SameWorkers, Undisturbing DEF Admit
  <2>2. ASSUME NEW c \in Client, NEW t \in Turn, Stamp(c, t) PROVE Safe'
    BY <2>2, SameStatus, SameWorkers, Undisturbing DEF Stamp
  <2>3. ASSUME NEW k \in Slot, NEW t \in Turn, Reserve(k, t) PROVE Safe'
    <3>1. worker'[k].pc = "admitting" /\ \A j \in Slot : j # k => worker'[j] = worker[j]
      BY <2>3 DEF TypeOK, Reserve, Job0
    <3>2. \A j \in Employed' : j # k /\ j \in Employed /\ worker'[j] = worker[j]
      BY <3>1 DEF Employed, Busy
    <3>3. \A j \in Employed' : Continues(j)
      BY <3>2 DEF Continues
    <3>. QED
      BY <2>3, <3>3, SameStatus, Undisturbing DEF Reserve
  <2>. QED
    BY <1>1, <2>1, <2>2, <2>3 DEF Submission
<1>2. CASE Dispatch
  BY <1>2, ClaimSafe DEF Dispatch
<1>3. CASE Shutdown
  <2>1. \A k \in Busy' : k \in Busy /\ worker'[k] = [worker[k] EXCEPT !.cut = TRUE]
    BY <1>3 DEF TypeOK, Shutdown, Busy
  <2>2. \A k \in Employed' : Continues(k)
    BY <2>1, Cutting
  <2>. QED
    BY <1>3, <2>2, SameStatus, Undisturbing DEF Shutdown
<1>4. CASE Restart
  <2>1. \A k \in Employed' : Continues(k)
    BY <1>4 DEF Restart, Employed, Busy
  <2>. QED
    BY <1>4, <2>1, Restarting, Undisturbed DEF Restart, Live
<1>5. ASSUME NEW k \in Slot, Worker(k) PROVE Safe'
  <2>1. CASE AdmitDirect(k)
    BY <2>1, AdmitDirectSafe
  <2>2. CASE Register(k)
    BY <2>2, SameStatus, Moving, Undisturbing
    DEF Register, At, Employed, Working, Pc
  <2>3. CASE Start(k)
    BY <2>3, SameStatus, Checking, Undisturbing DEF Start, At, Employed, Working
  <2>4. CASE PrepareFails(k)
    BY <2>4, SameStatus, Moving, Undisturbing
    DEF PrepareFails, At, Employed, Working, Pc
  <2>5. CASE ContextFails(k)
    BY <2>5, SameStatus, Checking, Undisturbing
    DEF ContextFails, At, Employed, Working
  <2>6. CASE StartRun(k)
    BY <2>6, StartRunSafe
  <2>7. CASE StreamBreaks(k)
    BY <2>7, SameStatus, Moving, Undisturbing
    DEF StreamBreaks, At, Employed, Working, Pc
  <2>8. CASE ForwardPause(k)
    <3>1. UNCHANGED <<status, worker, commit, exchange>>
      BY <2>8 DEF ForwardPause
    <3>2. \A t \in Turn : run'[t].generation = run[t].generation
      BY <2>8 DEF ForwardPause, TypeOK, Run
    <3>. QED
      BY <3>1, <3>2, SameStatus, SameWorkers, Undisturbed DEF Live
  <2>9. CASE IncludeInputs(k)
    <3>1. \A j \in Employed' : Continues(j)
      <4>1. CASE UNCHANGED worker
        BY <4>1, SameWorkers
      <4>2. CASE Move(k, "ended")
        BY <2>9, <4>2, Moving DEF IncludeInputs, At, Employed, Working, Pc
      <4>. QED
        BY <2>9, <4>1, <4>2 DEF IncludeInputs
    <3>. QED
      BY <2>9, <3>1, SameStatus, Undisturbing DEF IncludeInputs
  <2>10. ASSUME NEW event \in Final, RunEnds(k, event) PROVE Safe'
    <3>. DEFINE t == worker[k].turn
    <3>1. k \in Employed /\ t \in Turn /\ worker[k] \in Job
      BY <2>10, JobTurn DEF RunEnds, At, Employed
    <3>2. UNCHANGED <<status, commit, exchange>>
      BY <2>10 DEF RunEnds
    <3>3. run'[t].generation = 0 /\ \A u \in Turn : u # t => run'[u] = run[u]
      BY <2>10, <3>1 DEF RunEnds, EndRun, NoRun, TypeOK
    <3>4. \A j \in Slot : j # k => worker'[j] = worker[j]
      BY <2>10 DEF RunEnds, TypeOK
    <3>5. /\ worker'[k].turn = t /\ worker'[k].pc = "event" /\ worker'[k].event = event
          /\ event \in Parking => commit[t] = "none"
      BY <2>10, <3>1 DEF RunEnds, TypeOK, Job, Parking
    <3>6. \A j \in Employed' : Continues(j)
      BY <3>1, <3>2, <3>3, <3>4, <3>5 DEF Continues, Employed, Busy, Working
    <3>. QED
      BY <3>2, <3>3, <3>6, SameStatus, Undisturbed DEF Live
  <2>11. CASE PersistEvent(k)
    BY <2>11, PersistEventSafe
  <2>12. CASE PersistCut(k)
    BY <2>12, SameStatus, Moving, Undisturbing
    DEF PersistCut, At, Employed, Working, Pc
  <2>13. CASE FinishRead(k)
    <3>1. \A j \in Employed' : Continues(j)
      <4>1. CASE Release(k)
        BY <4>1, Releasing
      <4>2. CASE ~Release(k)
        BY <2>13, <4>2, Moving DEF FinishRead, At, Employed, Working, Pc
      <4>. QED
        BY <4>1, <4>2
    <3>. QED
      BY <2>13, <3>1, SameStatus, Undisturbing DEF FinishRead
  <2>14. CASE FinishWrite(k)
    BY <2>14, Finishing, Releasing, Undisturbing DEF FinishWrite
  <2>. QED
    BY <1>5, <2>1, <2>2, <2>3, <2>4, <2>5, <2>6, <2>7, <2>8, <2>9, <2>10, <2>11, <2>12,
       <2>13, <2>14 DEF Worker
<1>6. ASSUME NEW t \in Turn, RunStops(t) \/ ReadInputs(t) PROVE Safe'
  <2>1. UNCHANGED <<status, worker, commit, exchange>>
    BY <1>6 DEF RunStops, ReadInputs
  <2>2. \A u \in Turn : run'[u].generation > 0 => Live(u)
    <3>1. CASE RunStops(t)
      BY <3>1 DEF RunStops, EndRun, NoRun, Live, TypeOK
    <3>2. CASE ReadInputs(t)
      BY <3>2 DEF ReadInputs, Live, TypeOK, Run
    <3>. QED
      BY <1>6, <3>1, <3>2
  <2>. QED
    BY <2>1, <2>2, SameStatus, SameWorkers, Undisturbed
<1>7. ASSUME NEW t \in Turn, Commit(t) PROVE Safe'
  <2>1. CASE SaveFails(t)
    BY <2>1, Closing, SameWorkers, Undisturbed DEF SaveFails, TypeOK, Live
  <2>2. CASE CommitReply(t)
    <3>1. UNCHANGED <<status, worker, exchange>>
      BY <2>2 DEF CommitReply
    <3>2. \A u \in Turn : run'[u].generation = run[u].generation
      BY <2>2 DEF CommitReply, TypeOK, Run
    <3>3. \A u \in Turn : commit'[u] \in {"none", commit[u]}
      BY <2>2 DEF CommitReply, TypeOK
    <3>. QED
      BY <3>1, <3>2, <3>3, SameStatus, SameWorkers, Undisturbed DEF Live
  <2>3. CASE CommitLost(t)
    BY <2>3, SameStatus, SameWorkers, Undisturbed DEF CommitLost, TypeOK, Live
  <2>. QED
    BY <1>7, <2>1, <2>2, <2>3, SendCommitSafe, BeginCommitSafe, SaveExchangeSafe,
       CompleteCommitSafe DEF Commit
<1>8. ASSUME NEW t \in Turn, User(t) PROVE Safe'
  <2>1. CASE Pause(t) \/ Resume(t) \/ AppendInput(t) \/ CancelTurn(t)
    BY <2>1, Commanding, SameWorkers, Undisturbing
    DEF Pause, Resume, AppendInput, CancelTurn
  <2>2. CASE CancelSignal(t)
    <3>1. \A k \in Slot : \/ k \in Busy /\ worker'[k] = [worker[k] EXCEPT !.cut = TRUE]
                          \/ worker'[k] = worker[k]
      BY <2>2 DEF CancelSignal
    <3>2. \A k \in Busy' : /\ k \in Busy
                           /\ \/ worker'[k] = [worker[k] EXCEPT !.cut = TRUE]
                              \/ worker'[k] = worker[k]
      BY <3>1 DEF Busy
    <3>3. \A k \in Employed' : Continues(k)
      BY <3>2, Cutting
    <3>. QED
      BY <2>2, <3>3, SameStatus, Undisturbing DEF CancelSignal
  <2>. QED
    BY <1>8, <2>1, <2>2 DEF User
<1>9. ASSUME NEW c \in Call, Tool(c) PROVE Safe'
  <2>1. UNCHANGED <<worker, commit, exchange>>
    BY <1>9 DEF Tool, BeginCall, StartCall, CancelCall, EndCall, Resolve
  <2>2. \A u \in Turn : run'[u].generation = run[u].generation
    BY <1>9 DEF Tool, BeginCall, StartCall, CancelCall, EndCall, Resolve, TypeOK, Run
  <2>. QED
    BY <1>9, <2>1, <2>2, Calling, SameWorkers, Undisturbed DEF Live
<1>10. CASE UNCHANGED vars
  BY <1>10, SameStatus, SameWorkers, Undisturbing DEF vars
<1>. QED
  BY <1>1, <1>2, <1>3, <1>4, <1>5, <1>6, <1>7, <1>8, <1>9, <1>10 DEF Next

LEMMA Inductive == Spec => []IInv
<1>1. Init => IInv
  BY InitTypes, InitSafe DEF IInv
<1>2. IInv /\ [Next]_vars => IInv'
  BY TypeStep, SafeStep DEF IInv
<1>. QED
  BY <1>1, <1>2, PTL DEF Spec

\* At most one turn of a conversation executes, for any number of turns,
\* conversations, workers and clients, whatever is cancelled, lost or crashes.
THEOREM Exclusion == Spec => []OneExecuting
<1>1. IInv => OneExecuting
  BY DEF IInv, Safe
<1>. QED
  BY <1>1, Inductive, PTL

\* No cancellation hides a stored reply: a turn whose exchange is in the Store
\* is committing, committed or failed.
THEOREM RepliesNotCancelled == Spec => []ExchangeNotCancelled
<1>1. IInv => ExchangeNotCancelled
  BY DEF IInv, TypeOK, Safe, Answered, Kept, ExchangeNotCancelled
<1>. QED
  BY <1>1, Inductive, PTL

-----------------------------------------------------------------------------
Phase == [t \in Turn |-> PhaseOf(status[t])]

QueueStep == [Queue!Next]_(Queue!queue)

-----------------------------------------------------------------------------
LEMMA Phases ==
    ASSUME NEW s \in Status
    PROVE  /\ PhaseOf(s) = "absent" <=> s = "absent"
           /\ PhaseOf(s) = "queued" <=> s \in Parked
           /\ PhaseOf(s) = "working" <=> s \in Executing
           /\ PhaseOf(s) = "committed" <=> s = "committed"
           /\ PhaseOf(s) = "dropped" <=> s \in {"failed", "cancelled"}
           /\ PhaseOf(s) \in {"absent", "queued", "working", "committed", "dropped"}
BY DEF PhaseOf, Status, Parked, Executing, Ended

LEMMA SamePhase ==
    ASSUME TypeOK, TypeOK', \A t \in Turn : PhaseOf(status'[t]) = PhaseOf(status[t]),
           UNCHANGED <<stamp, exchange>>
    PROVE  UNCHANGED Queue!queue
BY DEF Queue!queue

\* A step that starts no turn and ends none as committed drops some turns.
LEMMA Dropping ==
    ASSUME TypeOK, TypeOK', \A t \in Turn : Orderly(status[t], status'[t]),
           UNCHANGED <<stamp, exchange>>
    PROVE  QueueStep
<1>. DEFINE T == {t \in Turn : /\ PhaseOf(status[t]) \in {"queued", "working"}
                               /\ PhaseOf(status'[t]) = "dropped"}
<1>1. \A t \in Turn : status[t] \in Status /\ status'[t] \in Status
  BY DEF TypeOK
<1>2. ASSUME NEW t \in Turn
      PROVE  PhaseOf(status'[t]) = IF t \in T THEN "dropped" ELSE PhaseOf(status[t])
  <2>1. Orderly(status[t], status'[t]) /\ status[t] \in Status /\ status'[t] \in Status
    BY <1>1
  <2>2. CASE status[t] \in Executing \cup Parked
    BY <2>1, <2>2, Phases DEF Orderly, Status, Executing, Parked, Ended
  <2>3. CASE status[t] \in Ended \cup {"absent"}
    BY <2>1, <2>3, Phases DEF Orderly, Ended
  <2>. QED
    BY <2>1, <2>2, <2>3 DEF Status
<1>3. Queue!Drop(T)
  BY <1>2 DEF Queue!Drop
<1>. QED
  BY <1>3 DEF QueueStep, Queue!Next

LEMMA ClaimQueue ==
    ASSUME IInv, TypeOK', NEW K \in SUBSET (Slot \ Busy), NEW seat \in [K -> Runnable],
           Claim(seat)
    PROVE  QueueStep
<1>. DEFINE taken == {seat[k] : k \in K}
<1>1. taken \subseteq Runnable /\ taken \subseteq Turn
  BY DEF Claim, Runnable
<1>2. \A t \in Turn : status'[t] = IF t \in taken THEN "running" ELSE status[t]
  BY DEF Claim
<1>. HIDE DEF taken
<1>3. \A t \in Turn : status[t] \in Status
  BY DEF IInv, TypeOK
<1>4. ASSUME NEW t \in taken, NEW u \in Turn, Queue!Sibling(u, t)
      PROVE  /\ u \notin taken /\ status[u] \notin Executing
             /\ status[u] \in Parked => ~Queue!Before(u, t)
  <2>1. Sibling(u, t) /\ t \in Runnable
    BY <1>1, <1>4 DEF Queue!Sibling, Sibling
  <2>2. u \notin taken
    BY <1>1, <2>1, ClaimApart
  <2>. QED
    BY <2>1, <2>2
    DEF Runnable, Blocking, Queued, Parked, Executing, Older, Queue!Before
<1>5. "running" \in Status /\ PhaseOf("running") = "working"
  BY Phases DEF Status, Executing
<1>6. \A t \in taken : PhaseOf(status[t]) = "queued"
  BY <1>1, <1>3, Phases DEF Runnable, Parked
<1>7. Queue!Start(taken)
  BY <1>1, <1>2, <1>3, <1>4, <1>5, <1>6, Phases DEF Queue!Start, Claim
<1>. QED
  BY <1>1, <1>7 DEF QueueStep, Queue!Next

LEMMA AdmitQueue ==
    ASSUME IInv, TypeOK', NEW c \in Client, Admit(c)
    PROVE  QueueStep
<1>. DEFINE t == submission[c].turn
<1>1. t \in Turn /\ submission[c].at \in Nat
  BY DEF Admit, IInv, TypeOK
<1>2. CASE status[t] = "absent"
  <2>1. /\ status'[t] = "accepted" /\ \A u \in Turn : u # t => status'[u] = status[u]
        /\ stamp' = [stamp EXCEPT ![t] = submission[c].at] /\ UNCHANGED exchange
    BY <1>1, <1>2 DEF Admit, IInv, TypeOK
  <2>2. PhaseOf(status[t]) = "absent" /\ PhaseOf(status'[t]) = "queued"
    BY <1>2, <2>1, Phases DEF Status, Parked
  <2>3. Queue!TakesTicket(t)
    BY <1>1, <2>1 DEF Queue!TakesTicket, IInv, TypeOK
  <2>4. Queue!Enqueue(t)
    BY <1>1, <2>1, <2>2, <2>3 DEF Queue!Enqueue
  <2>. QED
    BY <1>1, <2>4 DEF QueueStep, Queue!Next
<1>3. CASE status[t] # "absent"
  BY <1>3, SamePhase DEF Admit, IInv, QueueStep
<1>. QED
  BY <1>2, <1>3

LEMMA AdmitDirectQueue ==
    ASSUME IInv, TypeOK', NEW k \in Slot, AdmitDirect(k)
    PROVE  QueueStep
<1>. DEFINE t == worker[k].turn
<1>1. t \in Turn /\ worker[k].at \in Nat
  BY JobTurn DEF AdmitDirect, At, IInv, Job
<1>2. UNCHANGED exchange
  BY DEF AdmitDirect
<1>3. CASE UNCHANGED <<status, stamp>>
  BY <1>2, <1>3, SamePhase DEF IInv, QueueStep
<1>4. CASE ~UNCHANGED <<status, stamp>>
  <2>1. /\ status[t] = "absent"
        /\ \A u \in Turn : Sibling(u, t) => ~Unfinished(u)
        /\ status' = [status EXCEPT ![t] = "running"]
        /\ stamp' = [stamp EXCEPT ![t] = worker[k].at]
    BY <1>4 DEF AdmitDirect
  <2>2. PhaseOf(status[t]) = "absent" /\ PhaseOf(status'[t]) = "working"
    BY <1>1, <2>1, Phases DEF IInv, TypeOK, Status, Executing
  <2>3. Queue!TakesTicket(t)
    BY <1>1, <2>1 DEF Queue!TakesTicket, IInv, TypeOK
  <2>4. ASSUME NEW u \in Turn, Queue!Sibling(u, t)
        PROVE  PhaseOf(status[u]) \notin {"queued", "working"}
    <3>1. status[u] \in Status /\ status[u] \in Ended \cup {"absent"}
      BY <2>1, <2>4 DEF Queue!Sibling, Sibling, Unfinished, IInv, TypeOK
    <3>. QED
      BY <3>1, Phases DEF Parked, Executing, Ended
  <2>5. \A u \in Turn : u # t => status'[u] = status[u]
    BY <2>1 DEF IInv, TypeOK
  <2>6. Queue!StartDirect(t)
    BY <1>1, <1>2, <2>2, <2>3, <2>4, <2>5 DEF Queue!StartDirect
  <2>. QED
    BY <1>1, <2>6 DEF QueueStep, Queue!Next
<1>. QED
  BY <1>3, <1>4

LEMMA PersistEventQueue ==
    ASSUME IInv, TypeOK', NEW k \in Slot, PersistEvent(k)
    PROVE  QueueStep /\ \A u \in Turn : status[u] \in Ended => status'[u] = status[u]
<1>. DEFINE t == worker[k].turn
<1>1. t \in Turn /\ UNCHANGED <<stamp, exchange>>
  BY JobTurn DEF PersistEvent, At, IInv
<1>2. CASE UNCHANGED status
  BY <1>1, <1>2, SamePhase DEF IInv, QueueStep
<1>3. CASE Finish(t, "failed")
  <2>1. \A u \in Turn : Orderly(status[u], status'[u])
    BY <1>1, <1>3, Closing DEF IInv
  <2>. QED
    BY <1>1, <2>1, Dropping DEF IInv, Orderly
<1>4. CASE ~(UNCHANGED status) /\ ~Finish(t, "failed")
  <2>1. /\ status[t] \in {"pausing", "running", "waiting_approval"}
        /\ status' = [status EXCEPT
                ![t] = StatusAfterPause(t, worker[k].event, worker[k].pending)]
    BY <1>4 DEF PersistEvent, SavesCheckpoint
  <2>2. status'[t] \in {"accepted", "paused", "waiting_approval"}
    BY <1>1, <2>1 DEF StatusAfterPause, IInv, TypeOK
  <2>3. \A u \in Turn : u # t => status'[u] = status[u]
    BY <2>1 DEF IInv, TypeOK
  <2>4. status[t] \in Status /\ status'[t] \in Status /\ PhaseOf(status'[t]) = "queued"
    BY <2>1, <2>2, Phases DEF Status, Parked, Executing
  <2>5. CASE status[t] = "waiting_approval"
    <3>1. PhaseOf(status[t]) = "queued"
      BY <2>4, <2>5, Phases DEF Parked
    <3>. QED
      BY <1>1, <2>1, <2>3, <2>4, <3>1, SamePhase DEF IInv, QueueStep, Ended
  <2>6. CASE status[t] # "waiting_approval"
    <3>1. PhaseOf(status[t]) = "working"
      BY <2>1, <2>4, <2>6, Phases DEF Executing
    <3>2. t \notin exchange
      BY <1>1, <2>1, <2>6 DEF IInv, Safe, Answered, Kept
    <3>3. Queue!Park(t)
      BY <1>1, <2>3, <2>4, <3>1, <3>2 DEF Queue!Park
    <3>. QED
      BY <1>1, <2>1, <2>3, <3>3 DEF QueueStep, Queue!Next, Ended
  <2>. QED
    BY <2>5, <2>6
<1>. QED
  BY <1>2, <1>3, <1>4

LEMMA BeginCommitQueue ==
    ASSUME IInv, TypeOK', NEW t \in Turn, BeginCommit(t)
    PROVE  QueueStep /\ \/ UNCHANGED status
                        \/ /\ status[t] \in Executing \ {"cancel_requested"}
                           /\ status' = [status EXCEPT ![t] = "committing"]
<1>1. Begun(t) /\ UNCHANGED <<stamp, exchange>>
  BY DEF BeginCommit, IInv, Safe, Owned
<1>2. CASE UNCHANGED status
  BY <1>1, <1>2, SamePhase DEF IInv, QueueStep
<1>3. CASE ~UNCHANGED status
  <2>1. /\ status[t] \in Executing \ {"cancel_requested"}
        /\ status' = [status EXCEPT ![t] = "committing"]
    BY <1>1, <1>3 DEF BeginCommit, MayCommit, Begun, Executing, Ended, IInv, TypeOK
  <2>2. PhaseOf(status[t]) = "working" /\ PhaseOf(status'[t]) = "working"
    BY <2>1, Phases DEF Executing, Status, IInv, TypeOK
  <2>3. \A u \in Turn : PhaseOf(status'[u]) = PhaseOf(status[u])
    BY <2>1, <2>2 DEF IInv, TypeOK
  <2>. QED
    BY <1>1, <2>1, <2>3, SamePhase DEF IInv, QueueStep
<1>. QED
  BY <1>2, <1>3

LEMMA SaveExchangeQueue ==
    ASSUME IInv, TypeOK', NEW t \in Turn, SaveExchange(t)
    PROVE  QueueStep
<1>1. UNCHANGED <<status, stamp>> /\ exchange' = exchange \cup {t}
  BY DEF SaveExchange
<1>2. CASE t \in exchange
  <2>1. exchange' = exchange
    BY <1>1, <1>2
  <2>. QED
    BY <1>1, <2>1, SamePhase DEF IInv, QueueStep
<1>3. CASE t \notin exchange
  <2>1. status[t] \in {"committing", "failed"} /\ status[t] \in Status
    BY <1>3 DEF SaveExchange, IInv, TypeOK, Safe, Answered, Kept
  <2>2. PhaseOf(status[t]) \in {"working", "dropped"}
    BY <2>1, Phases DEF Executing
  <2>3. Queue!Answer(t)
    BY <1>1, <1>3, <2>2 DEF Queue!Answer
  <2>. QED
    BY <2>3 DEF QueueStep, Queue!Next
<1>. QED
  BY <1>2, <1>3

LEMMA CompleteCommitQueue ==
    ASSUME IInv, TypeOK', NEW t \in Turn, CompleteCommit(t)
    PROVE  QueueStep /\ \/ UNCHANGED status
                        \/ /\ status[t] = "committing"
                           /\ status' = [status EXCEPT ![t] = "committed"]
<1>1. UNCHANGED <<stamp, exchange>> /\ t \in exchange /\ status[t] \in Kept
  BY DEF CompleteCommit, IInv, Safe, Answered
<1>2. CASE UNCHANGED status
  BY <1>1, <1>2, SamePhase DEF IInv, QueueStep
<1>3. CASE ~UNCHANGED status
  <2>1. /\ status[t] = "committing"
        /\ status' = [status EXCEPT ![t] = "committed"]
    BY <1>1, <1>3 DEF CompleteCommit, Kept
  <2>2. PhaseOf(status[t]) = "working" /\ PhaseOf(status'[t]) = "committed"
    BY <2>1, Phases DEF Executing, Ended, Status, IInv, TypeOK
  <2>3. \A u \in Turn : u # t => status'[u] = status[u]
    BY <2>1 DEF IInv, TypeOK
  <2>4. Queue!Commit(t)
    BY <1>1, <2>2, <2>3 DEF Queue!Commit
  <2>. QED
    BY <2>1, <2>4 DEF QueueStep, Queue!Next
<1>. QED
  BY <1>2, <1>3

-----------------------------------------------------------------------------
NoReturn(s, r) ==
    /\ s \in Ended => r = s
    /\ s = "committing" => r \in {"committing", "committed", "failed"}
    /\ s = "cancel_requested" => r \in {"cancel_requested", "cancelled", "failed"}

LEMMA OrderlyStep ==
    ASSUME IInv, TypeOK', \A t \in Turn : Orderly(status[t], status'[t]),
           UNCHANGED <<stamp, exchange>>
    PROVE  QueueStep /\ \A t \in Turn : NoReturn(status[t], status'[t])
<1>1. QueueStep
  BY Dropping DEF IInv
<1>2. \A t \in Turn : NoReturn(status[t], status'[t])
  BY DEF Orderly, NoReturn, Ended
<1>. QED
  BY <1>1, <1>2

LEMMA EveryStep ==
    IInv /\ TypeOK' /\ [Next]_vars =>
        QueueStep /\ \A t \in Turn : NoReturn(status[t], status'[t])
<1>. DEFINE Goal == QueueStep /\ \A t \in Turn : NoReturn(status[t], status'[t])
<1>. SUFFICES ASSUME IInv, TypeOK', [Next]_vars PROVE Goal
  OBVIOUS
<1>. TypeOK
  BY DEF IInv
<1>0. ASSUME UNCHANGED <<status, stamp, exchange>> PROVE Goal
  BY <1>0, SameStatus, OrderlyStep
<1>1. CASE Submission
  <2>1. ASSUME NEW c \in Client, Admit(c) PROVE Goal
    <3>1. \A t \in Turn : NoReturn(status[t], status'[t])
      BY <2>1, Admitting DEF Orderly, Joins, NoReturn, Ended
    <3>. QED
      BY <2>1, <3>1, AdmitQueue
  <2>. QED
    BY <1>0, <1>1, <2>1 DEF Submission, Stamp, Reserve
<1>2. CASE Dispatch
  <2>. SUFFICES ASSUME NEW K \in SUBSET (Slot \ Busy), NEW seat \in [K -> Runnable],
                       Claim(seat)
                PROVE  Goal
    BY <1>2 DEF Dispatch
  <2>1. \A t \in Turn : status'[t] = status[t] \/ status[t] = "accepted"
    BY DEF Claim, Runnable
  <2>2. \A t \in Turn : NoReturn(status[t], status'[t])
    BY <2>1 DEF NoReturn, Ended
  <2>. QED
    BY <2>2, ClaimQueue
<1>3. CASE Shutdown \/ UNCHANGED vars
  BY <1>0, <1>3 DEF Shutdown, vars
<1>4. CASE Restart
  BY <1>4, Restarting, OrderlyStep DEF Restart
<1>5. ASSUME NEW k \in Slot, Worker(k) PROVE Goal
  <2>1. CASE AdmitDirect(k)
    <3>1. \A t \in Turn : status'[t] = status[t] \/ status[t] = "absent"
      BY <2>1 DEF AdmitDirect, TypeOK
    <3>2. \A t \in Turn : NoReturn(status[t], status'[t])
      BY <3>1 DEF NoReturn, Ended
    <3>. QED
      BY <2>1, <3>2, AdmitDirectQueue
  <2>2. CASE PersistEvent(k)
    <3>1. \A t \in Turn : status[t] \in {"committing", "cancel_requested"} =>
                            status'[t] \in {status[t], "failed"}
      BY <2>2, JobTurn
      DEF PersistEvent, SavesCheckpoint, Finish, At, TypeOK, Unfinished
    <3>2. \A t \in Turn : NoReturn(status[t], status'[t])
      BY <2>2, <3>1, PersistEventQueue DEF NoReturn
    <3>. QED
      BY <2>2, <3>2, PersistEventQueue
  <2>3. CASE FinishWrite(k)
    BY <2>3, Finishing, OrderlyStep DEF FinishWrite
  <2>. QED
    BY <1>0, <1>5, <2>1, <2>2, <2>3
    DEF Worker, Register, Start, PrepareFails, ContextFails, StartRun, StreamBreaks,
        ForwardPause, IncludeInputs, RunEnds, PersistCut, FinishRead
<1>6. ASSUME NEW t \in Turn, RunStops(t) \/ ReadInputs(t) PROVE Goal
  BY <1>0, <1>6 DEF RunStops, ReadInputs
<1>7. ASSUME NEW t \in Turn, Commit(t) PROVE Goal
  <2>1. CASE BeginCommit(t)
    <3>1. \A u \in Turn : NoReturn(status[u], status'[u])
      BY <2>1, BeginCommitQueue DEF NoReturn, Executing, Ended, TypeOK
    <3>. QED
      BY <2>1, <3>1, BeginCommitQueue
  <2>2. CASE SaveExchange(t)
    <3>1. \A u \in Turn : NoReturn(status[u], status'[u])
      BY <2>2 DEF SaveExchange, NoReturn
    <3>. QED
      BY <2>2, <3>1, SaveExchangeQueue
  <2>3. CASE SaveFails(t)
    BY <2>3, Closing, OrderlyStep DEF SaveFails
  <2>4. CASE CompleteCommit(t)
    <3>1. \A u \in Turn : NoReturn(status[u], status'[u])
      BY <2>4, CompleteCommitQueue DEF NoReturn, Ended, TypeOK
    <3>. QED
      BY <2>4, <3>1, CompleteCommitQueue
  <2>. QED
    BY <1>0, <1>7, <2>1, <2>2, <2>3, <2>4 DEF Commit, SendCommit, CommitReply, CommitLost
<1>8. ASSUME NEW t \in Turn, User(t) PROVE Goal
  <2>1. CASE CancelSignal(t)
    BY <1>0, <2>1 DEF CancelSignal
  <2>2. CASE ~CancelSignal(t)
    BY <1>8, <2>2, Commanding, OrderlyStep
    DEF User, Pause, Resume, AppendInput, CancelTurn
  <2>. QED
    BY <2>1, <2>2
<1>9. ASSUME NEW c \in Call, Tool(c) PROVE Goal
  <2>1. UNCHANGED <<stamp, exchange>>
    BY <1>9 DEF Tool, BeginCall, StartCall, CancelCall, EndCall, Resolve
  <2>. QED
    BY <1>9, <2>1, Calling, OrderlyStep
<1>. QED
  BY <1>1, <1>2, <1>3, <1>4, <1>5, <1>6, <1>7, <1>8, <1>9 DEF Next

\* A terminal state is final, and a turn whose commit has begun ends committed
\* or failed, whatever the user, a worker or a restart does.
THEOREM CommitIsFinal == Spec => PointOfNoReturn
<1>. DEFINE Step == \A t \in Turn :
        /\ status[t] \in Ended => status'[t] = status[t]
        /\ status[t] = "committing" => status'[t] \in {"committing", "committed", "failed"}
        /\ status[t] = "cancel_requested" => status'[t] \in
            {"cancel_requested", "cancelled", "failed"}
<1>1. IInv /\ TypeOK' /\ [Next]_vars => [Step]_status
  BY EveryStep DEF NoReturn
<1>2. IInv => TypeOK
  BY DEF IInv
<1>. QED
  BY <1>1, <1>2, Inductive, PTL DEF Spec, PointOfNoReturn

\* Every step of a turn is a step of the conversation's queue or none of its
\* business: turns work alone, in their place, and are answered at most once.
THEOREM QueueImplemented == Spec => ImplementsQueue
<1>1. Init => Queue!Init
  <2>1. PhaseOf("absent") = "absent"
    BY Phases DEF Status
  <2>. QED
    BY <2>1 DEF Init, Queue!Init
<1>2. IInv /\ TypeOK' /\ [Next]_vars => [Queue!Next]_(Queue!queue)
  BY EveryStep DEF QueueStep
<1>3. IInv => TypeOK
  BY DEF IInv
<1>. QED
  BY <1>1, <1>2, <1>3, Inductive, PTL DEF Spec, ImplementsQueue, Queue!Spec

-----------------------------------------------------------------------------
(* What else the rows say, and the workers and runs know of them.          *)

Starting == {"claimed", "registered", "ready"}

\* A run and a worker are of the current dispatch, and a worker that has yet to
\* ask for a run finds none.
Current ==
    /\ \A t \in Turn : Live(t) => run[t].generation = generation[t]
    /\ \A k \in Employed : /\ worker[k].generation > 0
                           /\ worker[k].generation = generation[worker[k].turn]
                           /\ worker[k].pc \in Starting => ~Live(worker[k].turn)

\* Only a committed turn is known to be committed, by its request's handler, by
\* its run and by the worker that got the final event.
Replied ==
    /\ \A t \in Turn : commit[t] = "done" \/ run[t].committed => status[t] = "committed"
    /\ \A k \in Employed : worker[k].pc = "event" =>
        /\ Begun(worker[k].turn)
        /\ worker[k].event = "committed" => status[worker[k].turn] = "committed"

\* A turn waits for calls of its own.
Named ==
    /\ \A t \in Turn : /\ run[t].asked \subseteq CallsOf(t)
                       /\ checkpoint[t].pending \subseteq CallsOf(t)
    /\ \A k \in Employed : worker[k].pc = "event" =>
           worker[k].pending \subseteq CallsOf(worker[k].turn)

\* What a run has read, and what its worker will store of it, is not behind the
\* receipts, since it started from a checkpoint that was not.
Receipted(t) ==
    /\ inputs[t].included <= inputs[t].claimed /\ inputs[t].claimed <= inputs[t].received
    /\ ~Begun(t) => checkpoint[t].read = inputs[t].included
    /\ status[t] \notin Ended /\ Live(t) => inputs[t].included <= run[t].read

Reports(k) ==
    LET t == worker[k].turn IN
    status[t] \notin Ended =>
        /\ worker[k].pc \in Starting => checkpoint[t].read = inputs[t].included
        /\ worker[k].pc = "event" /\ worker[k].event \in Parking =>
               inputs[t].included <= worker[k].read

\* A pause of the user's is not mixed with an input's, and neither is forgotten.
Halted(t) ==
    /\ held[t] => /\ status[t] \notin {"absent", "accepted", "running", "waiting_approval"}
                  /\ ~inputPause[t]
    /\ unread[t] => /\ status[t] \notin {"absent", "running"}
                    /\ checkpoint[t].pending # {} =>
                           status[t] \notin {"accepted", "waiting_approval"}

\* What a turn waits for, at every point of its life.
Decided(t) ==
    /\ ~checkpoint[t].saved => checkpoint[t].pending = {}
    /\ status[t] = "absent" => ~checkpoint[t].saved /\ generation[t] = 0
    /\ ~Begun(t) =>
        /\ generation[t] > 0 => checkpoint[t].saved
        /\ PendingOf(t) \subseteq checkpoint[t].pending
        /\ \A c \in checkpoint[t].pending : Consistent(c)
    /\ status[t] = "waiting_approval" => PendingOf(t) # {}
    /\ status[t] \in {"accepted", "committing"} \cup Ended => PendingOf(t) = {}
    /\ status[t] \in Ended => ~checkpoint[t].saved
    /\ status[t] \in {"failed", "cancelled"} => \A c \in CallsOf(t) : call[c] \notin OpenCall

Good ==
    /\ IInv /\ Current /\ Replied /\ Named
    /\ \A t \in Turn : Receipted(t) /\ Halted(t) /\ Decided(t)
    /\ \A k \in Employed : Reports(k)

LEMMA InitGood == Init => Good
<1>. SUFFICES ASSUME Init PROVE Good
  OBVIOUS
<1>1. IInv
  BY InitTypes, InitSafe DEF IInv
<1>2. Employed = {}
  BY DEF Init, Employed, Busy
<1>3. \A t \in Turn : /\ ~Live(t) /\ ~run[t].committed /\ commit[t] = "none"
                     /\ run[t].asked = {} /\ checkpoint[t].pending = {}
  BY DEF Init, Live, NoRun, NoCheckpoint
<1>4. Current /\ Replied /\ Named
  BY <1>2, <1>3 DEF Current, Replied, Named
<1>5. ASSUME NEW t \in Turn PROVE Receipted(t) /\ Halted(t) /\ Decided(t)
  <2>1. PendingOf(t) = {}
    BY DEF Init, PendingOf, CallsOf
  <2>2. /\ status[t] = "absent" /\ generation[t] = 0 /\ ~held[t] /\ ~unread[t]
        /\ ~checkpoint[t].saved /\ checkpoint[t].pending = {} /\ checkpoint[t].read = 0
        /\ inputs[t].included = 0 /\ inputs[t].claimed = 0 /\ inputs[t].received = 0
    BY DEF Init, NoCheckpoint
  <2>. QED
    BY <1>3, <2>1, <2>2 DEF Receipted, Halted, Decided, Ended
<1>. QED
  BY <1>1, <1>2, <1>4, <1>5 DEF Good

-----------------------------------------------------------------------------
(* Workers: all but the claimed, and the one whose run ends, go on with    *)
(* what they had.                                                          *)

Stays(k) ==
    /\ k \in Employed
    /\ worker'[k].turn = worker[k].turn /\ worker'[k].generation = worker[k].generation
    /\ worker'[k].pc \in Starting => worker[k].pc \in Starting
    /\ worker'[k].pc = "event" =>
           /\ worker[k].pc = "event" /\ worker'[k].event = worker[k].event
           /\ worker'[k].pending = worker[k].pending /\ worker'[k].read = worker[k].read

LEMMA StaysAsIs == UNCHANGED worker => \A k \in Employed' : Stays(k)
BY DEF Stays, Employed, Busy

LEMMA StaysMoved ==
    ASSUME TypeOK, NEW k \in Employed, NEW pc \in Pc, Move(k, pc), pc # "event",
           pc \in Starting => worker[k].pc \in Starting
    PROVE  \A j \in Employed' : Stays(j)
<1>1. worker[k] \in Job /\ k \in Slot
  BY JobTurn DEF Employed, Busy
<1>2. worker'[k] = [worker[k] EXCEPT !.pc = pc]
  BY <1>1 DEF TypeOK, Move
<1>3. \A j \in Slot : j # k => worker'[j] = worker[j]
  BY DEF TypeOK, Move
<1>4. Stays(k)
  BY <1>1, <1>2 DEF Stays, Job
<1>5. \A j \in Employed' : j # k => Stays(j)
  BY <1>3 DEF Stays, Employed, Busy
<1>. QED
  BY <1>4, <1>5

LEMMA StaysReleased ==
    ASSUME TypeOK, NEW k \in Slot, Release(k)
    PROVE  \A j \in Employed' : Stays(j)
BY DEF TypeOK, Release, Stays, Employed, Busy

LEMMA StaysCut ==
    ASSUME TypeOK, TypeOK',
           \A k \in Busy' : /\ k \in Busy
                            /\ \/ worker'[k] = [worker[k] EXCEPT !.cut = TRUE]
                               \/ worker'[k] = worker[k]
    PROVE  \A j \in Employed' : Stays(j)
<1>. SUFFICES ASSUME NEW j \in Employed' PROVE Stays(j)
  OBVIOUS
<1>1. j \in Busy' /\ j \in Busy /\ worker[j] \in Job /\ worker'[j].pc # "admitting"
  BY JobTurn DEF Employed
<1>. QED
  BY <1>1 DEF Stays, Employed, Job

\* The steps of a worker that changes nothing but what it does next.
Ways(k) ==
    \/ Register(k) \/ Start(k) \/ PrepareFails(k) \/ ContextFails(k) \/ StreamBreaks(k)
    \/ PersistCut(k) \/ FinishRead(k)

LEMMA StaysOnItsWay ==
    ASSUME TypeOK, NEW k \in Slot, Ways(k)
    PROVE  (\A j \in Employed' : Stays(j)) /\ UNCHANGED <<storeVars, queueVars, goVars, commit, run>>
<1>1. k \in Employed /\ worker[k].pc \in Pc
  BY JobTurn DEF Ways, Register, Start, PrepareFails, ContextFails, StreamBreaks,
                 PersistCut, FinishRead, At, Employed, Job
<1>2. UNCHANGED <<storeVars, queueVars, goVars, commit, run>>
  BY DEF Ways, Register, Start, PrepareFails, ContextFails, StreamBreaks, PersistCut,
         FinishRead
<1>3. CASE Release(k)
  BY <1>2, <1>3, StaysReleased
<1>4. CASE ~Release(k)
  <2>1. \E pc \in Pc : /\ Move(k, pc) /\ pc # "event"
                       /\ pc \in Starting => worker[k].pc \in Starting
    BY <1>4 DEF Ways, Register, Start, PrepareFails, ContextFails, StreamBreaks,
                PersistCut, FinishRead, Check, At, Pc, Starting
  <2>. QED
    BY <1>1, <1>2, <2>1, StaysMoved
<1>. QED
  BY <1>3, <1>4

LEMMA Staying ==
    ASSUME TypeOK, TypeOK', [Next]_vars, ~Dispatch,
           \A k \in Slot : ~AdmitDirect(k),
           \A k \in Slot, event \in Final : ~RunEnds(k, event)
    PROVE  \A j \in Employed' : Stays(j)
<1>. DEFINE Goal == \A j \in Employed' : Stays(j)
<1>1. ASSUME NEW k \in Slot, Worker(k) PROVE Goal
  <2>1. CASE Ways(k)
    BY <2>1, StaysOnItsWay
  <2>2. CASE StartRun(k)
    BY <2>2, StaysMoved DEF StartRun, At, Employed, Pc, Starting
  <2>3. CASE IncludeInputs(k)
    <3>1. CASE UNCHANGED worker
      BY <3>1, StaysAsIs
    <3>2. CASE Move(k, "ended")
      BY <2>3, <3>2, StaysMoved DEF IncludeInputs, At, Employed, Pc, Starting
    <3>. QED
      BY <2>3, <3>1, <3>2 DEF IncludeInputs
  <2>4. CASE ForwardPause(k)
    BY <2>4, StaysAsIs DEF ForwardPause
  <2>5. CASE PersistEvent(k)
    BY <2>5, StaysMoved DEF PersistEvent, At, Employed, Pc, Starting
  <2>6. CASE FinishWrite(k)
    BY <2>6, StaysReleased DEF FinishWrite
  <2>. QED
    BY <1>1, <2>1, <2>2, <2>3, <2>4, <2>5, <2>6 DEF Worker, Ways
<1>2. CASE Submission
  <2>1. ASSUME NEW k \in Slot, NEW t \in Turn, Reserve(k, t) PROVE Goal
    <3>1. k \notin Employed' /\ \A j \in Slot : j # k => worker'[j] = worker[j]
      BY <2>1 DEF TypeOK, Reserve, Job0, Employed
    <3>. QED
      BY <3>1 DEF Stays, Employed, Busy
  <2>. QED
    BY <1>2, <2>1, StaysAsIs DEF Submission, Admit, Stamp
<1>3. CASE Shutdown
  <2>1. \A k \in Slot : worker'[k] = IF k \in Busy THEN [worker[k] EXCEPT !.cut = TRUE] ELSE Idle
    BY <1>3 DEF Shutdown
  <2>2. \A k \in Busy' : k \in Busy /\ worker'[k] = [worker[k] EXCEPT !.cut = TRUE]
    BY <2>1 DEF Busy
  <2>. QED
    BY <2>2, StaysCut
<1>4. CASE Restart
  BY <1>4 DEF Restart, Employed, Busy
<1>5. ASSUME NEW t \in Turn, CancelSignal(t) PROVE Goal
  <2>1. \A k \in Slot : \/ k \in Busy /\ worker'[k] = [worker[k] EXCEPT !.cut = TRUE]
                        \/ worker'[k] = worker[k]
    BY <1>5 DEF CancelSignal
  <2>2. \A k \in Busy' : /\ k \in Busy
                         /\ \/ worker'[k] = [worker[k] EXCEPT !.cut = TRUE]
                            \/ worker'[k] = worker[k]
    BY <2>1 DEF Busy
  <2>. QED
    BY <2>2, StaysCut
<1>6. ASSUME NEW t \in Turn,
             RunStops(t) \/ ReadInputs(t) \/ Commit(t) \/ (User(t) /\ ~CancelSignal(t))
      PROVE  Goal
  <2>1. UNCHANGED worker
    BY <1>6 DEF RunStops, ReadInputs, Commit, SendCommit, BeginCommit, SaveExchange,
                SaveFails, CompleteCommit, CommitReply, CommitLost, User, Pause, Resume,
                AppendInput, CancelTurn
  <2>. QED
    BY <2>1, StaysAsIs
<1>7. ASSUME NEW c \in Call, Tool(c) PROVE Goal
  BY <1>7, StaysAsIs DEF Tool, BeginCall, StartCall, CancelCall, EndCall, Resolve
<1>8. CASE UNCHANGED vars
  BY <1>8, StaysAsIs DEF vars
<1>. QED
  BY <1>1, <1>2, <1>3, <1>4, <1>5, <1>6, <1>7, <1>8 DEF Next

\* The new workers hold turns that had none, and whose rows had begun nothing.
LEMMA Claimed ==
    ASSUME IInv, NEW K \in SUBSET (Slot \ Busy), NEW seat \in [K -> Runnable], Claim(seat)
    PROVE  /\ \A k \in K : /\ worker'[k].turn = seat[k] /\ worker'[k].pc = "claimed"
                           /\ seat[k] \in Turn /\ worker'[k].generation > 0
                           /\ worker'[k].generation = generation'[seat[k]]
                           /\ status[seat[k]] = "accepted"
           /\ \A k \in Employed' \ K :
                  /\ Stays(k) /\ worker'[k] = worker[k] /\ worker[k].turn \in Turn
                  /\ \A j \in K : worker[k].turn # seat[j]
           /\ \A t \in Turn : \/ /\ \E k \in K : seat[k] = t
                                 /\ status[t] = "accepted" /\ status'[t] = "running"
                              \/ /\ \A k \in K : seat[k] # t
                                 /\ status'[t] = status[t] /\ generation'[t] = generation[t]
                                 /\ inputs'[t] = inputs[t] /\ unread'[t] = unread[t]
                                 /\ inputPause'[t] = inputPause[t]
           /\ UNCHANGED <<checkpoint, call, approval, held, exchange, commit, run>>
<1>. DEFINE taken == {seat[k] : k \in K}
<1>1. K = DOMAIN seat /\ taken \subseteq Turn /\ taken \subseteq Runnable
  BY DEF Runnable
<1>2. /\ \A t \in Turn : /\ status'[t] = (IF t \in taken THEN "running" ELSE status[t])
                         /\ generation'[t] = (IF t \in taken THEN generation[t] + 1
                                              ELSE generation[t])
                         /\ inputPause'[t] = (t \notin taken /\ inputPause[t])
                         /\ unread'[t] = (t \notin taken /\ unread[t])
                         /\ t \notin taken => inputs'[t] = inputs[t]
      /\ \A k \in Slot : worker'[k] = IF k \in K
                THEN Job0(seat[k], generation[seat[k]] + 1, "claimed", FALSE, 0)
                ELSE worker[k]
      /\ UNCHANGED <<checkpoint, call, approval, held, exchange, commit, run>>
  BY <1>1 DEF Claim
<1>3. \A t \in taken : status[t] = "accepted" /\ t \notin Active
  BY <1>1 DEF Runnable
<1>4. \A k \in K : seat[k] \in taken /\ k \in Slot
  OBVIOUS
<1>. HIDE DEF taken
<1>5. ASSUME NEW k \in K
      PROVE  /\ worker'[k].turn = seat[k] /\ worker'[k].pc = "claimed" /\ seat[k] \in Turn
             /\ worker'[k].generation = generation'[seat[k]] /\ worker'[k].generation > 0
             /\ status[seat[k]] = "accepted"
  <2>1. worker'[k] = Job0(seat[k], generation[seat[k]] + 1, "claimed", FALSE, 0)
    BY <1>2, <1>4
  <2>. QED
    BY <1>1, <1>2, <1>3, <1>4, <2>1 DEF Job0, IInv, TypeOK
<1>6. ASSUME NEW k \in Employed' \ K
      PROVE  /\ Stays(k) /\ worker'[k] = worker[k] /\ worker[k].turn \in Turn
             /\ \A j \in K : worker[k].turn # seat[j]
  <2>1. k \in Slot /\ worker'[k] = worker[k] /\ k \in Employed
    BY <1>2 DEF Employed, Busy
  <2>2. worker[k].turn \in Active /\ worker[k].turn \in Turn
    BY <2>1, JobTurn DEF Active, Employed, IInv
  <2>. QED
    BY <1>3, <1>4, <2>1, <2>2 DEF Stays
<1>7. ASSUME NEW t \in Turn
      PROVE  \/ /\ \E k \in K : seat[k] = t
                /\ status[t] = "accepted" /\ status'[t] = "running"
             \/ /\ \A k \in K : seat[k] # t
                /\ status'[t] = status[t] /\ generation'[t] = generation[t]
                /\ inputs'[t] = inputs[t] /\ unread'[t] = unread[t]
                /\ inputPause'[t] = inputPause[t]
  <2>1. CASE t \in taken
    BY <1>2, <1>3, <2>1 DEF taken
  <2>2. CASE t \notin taken
    <3>1. \A k \in K : seat[k] # t
      BY <1>4, <2>2
    <3>2. inputPause[t] \in BOOLEAN /\ unread[t] \in BOOLEAN
      BY DEF IInv, TypeOK
    <3>3. inputPause'[t] = inputPause[t] /\ unread'[t] = unread[t]
      BY <1>2, <2>2, <3>2
    <3>. QED
      BY <1>2, <2>2, <3>1, <3>3
  <2>. QED
    BY <2>1, <2>2
<1>. QED
  BY <1>2, <1>5, <1>6, <1>7

LEMMA Admitted ==
    ASSUME IInv, NEW k \in Slot, AdmitDirect(k), NEW t, t = worker[k].turn
    PROVE  \/ /\ UNCHANGED <<storeVars, commit, run>>
              /\ \A j \in Employed' : Stays(j)
           \/ /\ t \in Turn /\ status[t] = "absent"
              /\ status' = [status EXCEPT ![t] = "running"]
              /\ generation' = [generation EXCEPT ![t] = 1]
              /\ worker'[k].turn = t /\ worker'[k].pc = "claimed"
              /\ worker'[k].generation > 0 /\ worker'[k].generation = generation'[t]
              /\ \A j \in Employed' : j # k => Stays(j) /\ worker[j].turn \in Turn \ {t}
              /\ UNCHANGED <<checkpoint, call, approval, inputPause, held, inputs, unread,
                             exchange, commit, run>>
<1>1. k \in Busy /\ t \in Turn /\ worker[k].pc = "admitting"
  BY JobTurn DEF AdmitDirect, At, IInv
<1>2. UNCHANGED <<checkpoint, callVars, inputPause, held, inputVars, exchange, commit, run>>
  BY DEF AdmitDirect
<1>3. CASE Release(k) /\ UNCHANGED <<status, generation>>
  BY <1>2, <1>3, StaysReleased DEF IInv
<1>4. CASE ~(Release(k) /\ UNCHANGED <<status, generation>>)
  <2>1. /\ status[t] = "absent"
        /\ status' = [status EXCEPT ![t] = "running"]
        /\ generation' = [generation EXCEPT ![t] = 1]
        /\ worker' = [worker EXCEPT ![k] = Job0(t, 1, "claimed", TRUE, 0)]
    BY <1>4 DEF AdmitDirect
  <2>2. /\ worker'[k].turn = t /\ worker'[k].pc = "claimed" /\ worker'[k].generation = 1
        /\ \A j \in Slot : j # k => worker'[j] = worker[j]
    BY <2>1 DEF IInv, TypeOK, Job0
  <2>3. \A j \in Employed' : j # k => Stays(j) /\ worker[j].turn \in Turn \ {t}
    BY <2>1, <2>2, JobTurn DEF Stays, Employed, Busy, IInv, Safe, OneJob
  <2>4. generation'[t] = 1
    BY <1>1, <2>1 DEF IInv, TypeOK
  <2>5. worker'[k].generation > 0 /\ worker'[k].generation = generation'[t]
    BY <2>2, <2>4
  <2>6. UNCHANGED <<checkpoint, call, approval, inputPause, held, inputs, unread,
                    exchange, commit, run>>
    BY <1>2
  <2>. QED
    BY <1>1, <2>1, <2>2, <2>3, <2>5, <2>6
<1>. QED
  BY <1>3, <1>4

LEMMA Ending ==
    ASSUME IInv, NEW k \in Slot, NEW event \in Final, RunEnds(k, event), NEW t,
           t = worker[k].turn
    PROVE  /\ UNCHANGED <<storeVars, commit>>
           /\ k \in Employed /\ t \in Turn /\ worker[k].pc = "streaming"
           /\ run[t].generation = worker[k].generation /\ run' = [run EXCEPT ![t] = NoRun]
           /\ worker'[k].turn = t /\ worker'[k].generation = worker[k].generation
           /\ worker'[k].pc = "event" /\ worker'[k].event = event
           /\ worker'[k].pending \subseteq run[t].asked /\ worker'[k].read = run[t].read
           /\ event = "committed" => run[t].committed
           /\ \A j \in Employed' : j # k => Stays(j) /\ worker[j].turn \in Turn \ {t}
<1>1. k \in Employed /\ t \in Turn /\ worker[k] \in Job /\ worker[k].pc = "streaming"
  BY JobTurn DEF RunEnds, At, Employed, IInv
<1>2. \A j \in Slot : j # k => worker'[j] = worker[j]
  BY DEF RunEnds, IInv, TypeOK
<1>3. /\ worker'[k].turn = t /\ worker'[k].generation = worker[k].generation
      /\ worker'[k].pc = "event" /\ worker'[k].event = event
      /\ worker'[k].pending \subseteq run[t].asked /\ worker'[k].read = run[t].read
  BY <1>1 DEF RunEnds, IInv, TypeOK, Job
<1>4. \A j \in Employed' : j # k => Stays(j) /\ worker[j].turn \in Turn \ {t}
  BY <1>1, <1>2, JobTurn DEF Stays, Employed, Busy, IInv, Safe, OneJob
<1>. QED
  BY <1>1, <1>3, <1>4 DEF RunEnds, EndRun

\* Runs go on, end, or are new.
LEMMA Runs ==
    ASSUME TypeOK, [Next]_vars, \A k \in Slot : ~StartRun(k), NEW t \in Turn
    PROVE  /\ run'[t].generation \in {0, run[t].generation}
           /\ run'[t].generation = 0 \/ run[t].read <= run'[t].read
           /\ run'[t].committed => run[t].committed \/ CommitReply(t)
<1>. DEFINE Goal == /\ run'[t].generation \in {0, run[t].generation}
                    /\ run'[t].generation = 0 \/ run[t].read <= run'[t].read
                    /\ run'[t].committed => run[t].committed \/ CommitReply(t)
<1>0. run \in [Turn -> Run] /\ run[t] \in Run /\ run[t].generation \in Nat /\ run[t].read \in Nat
  BY DEF TypeOK, Run
<1>1. CASE run'[t] = run[t]
  BY <1>0, <1>1
<1>2. ASSUME NEW u \in Turn, run' = [run EXCEPT ![u] = NoRun] PROVE Goal
  BY <1>0, <1>2 DEF NoRun
<1>3. ASSUME NEW k \in Slot, ForwardPause(k) PROVE Goal
  <2>1. run' = [run EXCEPT ![worker[k].turn].signalled = TRUE]
    BY <1>3 DEF ForwardPause
  <2>. QED
    BY <1>0, <2>1 DEF Run
<1>4. ASSUME NEW u \in Turn, ReadInputs(u) PROVE Goal
  <2>1. inputs[u].claimed \in Nat
    BY DEF TypeOK, Input
  <2>2. run' = [run EXCEPT ![u].read = inputs[u].claimed] /\ run[u].read < inputs[u].claimed
    BY <1>4 DEF ReadInputs
  <2>. QED
    BY <1>0, <2>1, <2>2 DEF Run
<1>5. ASSUME NEW u \in Turn, CommitReply(u) PROVE Goal
  <2>1. run' = [run EXCEPT ![u].committed = TRUE]
    BY <1>5 DEF CommitReply
  <2>. QED
    BY <1>0, <1>5, <2>1 DEF Run
<1>6. ASSUME NEW c \in Call, BeginCall(c) PROVE Goal
  <2>1. run' = run \/ run' = [run EXCEPT ![TurnOf[c]].asked = @ \cup {c}]
    BY <1>6 DEF BeginCall
  <2>. QED
    BY <1>0, <2>1 DEF Run
<1>7. CASE Submission \/ Shutdown \/ Restart
  BY <1>1, <1>7 DEF Submission, Admit, Stamp, Reserve, Shutdown, Restart
<1>8. CASE Dispatch
  BY <1>1, <1>8 DEF Dispatch, Claim
<1>9. ASSUME NEW k \in Slot, Worker(k) PROVE Goal
  <2>1. ASSUME NEW event \in Final, RunEnds(k, event) PROVE Goal
    BY <1>2, <2>1, JobTurn DEF RunEnds, EndRun, At
  <2>2. CASE Ways(k) \/ AdmitDirect(k)
    BY <1>1, <2>2, StaysOnItsWay DEF AdmitDirect
  <2>3. CASE IncludeInputs(k) \/ PersistEvent(k) \/ FinishWrite(k)
    BY <1>1, <2>3 DEF IncludeInputs, PersistEvent, FinishWrite
  <2>. QED
    BY <1>3, <1>9, <2>1, <2>2, <2>3 DEF Worker, Ways
<1>10. ASSUME NEW u \in Turn, RunStops(u) \/ Commit(u) \/ User(u) PROVE Goal
  <2>1. CASE RunStops(u)
    BY <1>2, <2>1 DEF RunStops, EndRun
  <2>2. CASE Commit(u)
    BY <1>1, <1>5, <2>2 DEF Commit, SendCommit, BeginCommit, SaveExchange, SaveFails,
                            CompleteCommit, CommitLost
  <2>3. CASE User(u)
    BY <1>1, <2>3 DEF User, Pause, Resume, AppendInput, CancelTurn, CancelSignal
  <2>. QED
    BY <1>10, <2>1, <2>2, <2>3
<1>11. ASSUME NEW c \in Call, Tool(c) PROVE Goal
  BY <1>1, <1>6, <1>11 DEF Tool, StartCall, CancelCall, EndCall, Resolve
<1>12. CASE UNCHANGED vars
  BY <1>1, <1>12 DEF vars
<1>. QED
  BY <1>4, <1>7, <1>8, <1>9, <1>10, <1>11, <1>12 DEF Next

LEMMA CurrentLaw ==
    ASSUME IInv, Current, UNCHANGED generation, \A k \in Employed' : Stays(k),
           \A t \in Turn : run'[t].generation \in {0, run[t].generation}
    PROVE  Current'
<1>1. \A t \in Turn : Live(t)' => Live(t) /\ run'[t].generation = run[t].generation
  BY DEF Live
<1>2. \A k \in Employed' : /\ k \in Employed /\ worker[k].turn \in Turn
                           /\ worker'[k].turn = worker[k].turn
                           /\ worker'[k].generation = worker[k].generation
                           /\ worker'[k].pc \in Starting => worker[k].pc \in Starting
  BY JobTurn DEF IInv, Stays, Employed
<1>. QED
  BY <1>1, <1>2 DEF Current, Live

LEMMA CurrentKept == ASSUME Good, TypeOK', [Next]_vars PROVE Current'
<1>. IInv /\ Current /\ TypeOK
  BY DEF Good, IInv
<1>1. ASSUME NEW K \in SUBSET (Slot \ Busy), NEW seat \in [K -> Runnable], Claim(seat)
      PROVE  Current'
  <2>1. \A t \in Turn : status[t] = "accepted" => ~Live(t)
    BY DEF IInv, Safe, Owned, Begun, Executing, Ended
  <2>2. \A t \in Turn : Live(t)' => Live(t) /\ generation'[t] = generation[t] /\ run'[t] = run[t]
    BY <1>1, <2>1, Claimed DEF Live
  <2>3. ASSUME NEW k \in Employed'
        PROVE  (/\ worker[k].generation > 0
                /\ worker[k].generation = generation[worker[k].turn]
                /\ worker[k].pc \in Starting => ~Live(worker[k].turn))'
    <3>1. CASE k \in K
      <4>1. /\ worker'[k].turn = seat[k] /\ worker'[k].generation > 0
            /\ worker'[k].generation = generation'[seat[k]]
            /\ seat[k] \in Turn /\ status[seat[k]] = "accepted"
        BY <1>1, <3>1, Claimed
      <4>2. ~Live(seat[k])'
        BY <2>1, <2>2, <4>1
      <4>. QED
        BY <4>1, <4>2
    <3>2. CASE k \notin K
      <4>1. /\ k \in Employed /\ worker'[k] = worker[k] /\ worker[k].turn \in Turn
            /\ \A j \in K : worker[k].turn # seat[j]
        BY <1>1, <2>3, <3>2, Claimed DEF Stays
      <4>2. \A t \in Turn : (\A j \in K : seat[j] # t) => generation'[t] = generation[t]
        BY <1>1, Claimed
      <4>3. generation'[worker[k].turn] = generation[worker[k].turn]
        BY <4>1, <4>2
      <4>. QED
        BY <2>2, <4>1, <4>3 DEF Current
    <3>. QED
      BY <3>1, <3>2
  <2>. QED
    BY <2>2, <2>3 DEF Current, Live
<1>2. ASSUME NEW k \in Slot, AdmitDirect(k) PROVE Current'
  <2>. PICK t : t = worker[k].turn
    OBVIOUS
  <2>1. CASE UNCHANGED <<storeVars, commit, run>> /\ \A j \in Employed' : Stays(j)
    BY <2>1, CurrentLaw
  <2>2. CASE ~(UNCHANGED <<storeVars, commit, run>> /\ \A j \in Employed' : Stays(j))
    <3>1. /\ t \in Turn /\ status[t] = "absent"
          /\ generation' = [generation EXCEPT ![t] = 1]
          /\ worker'[k].turn = t /\ worker'[k].generation > 0
          /\ worker'[k].generation = generation'[t]
          /\ \A j \in Employed' : j # k => Stays(j) /\ worker[j].turn \in Turn \ {t}
          /\ UNCHANGED run
      BY <1>2, <2>2, Admitted
    <3>2. ~Live(t)
      BY <3>1 DEF IInv, Safe, Owned, Begun, Executing, Ended
    <3>3. \A u \in Turn : u # t => generation'[u] = generation[u]
      BY <3>1 DEF TypeOK
    <3>. QED
      BY <3>1, <3>2, <3>3 DEF Current, Live, Stays
  <2>. QED
    BY <2>1, <2>2
<1>3. ASSUME NEW k \in Slot, StartRun(k) PROVE Current'
  <2>. DEFINE t == worker[k].turn
  <2>1. k \in Employed /\ t \in Turn /\ worker[k] \in Job /\ worker[k].pc = "ready"
    BY <1>3, JobTurn DEF StartRun, At, Employed
  <2>2. run'[t].generation = worker[k].generation /\ \A u \in Turn : u # t => run'[u] = run[u]
    BY <1>3, <2>1 DEF StartRun, TypeOK, NoRun
  <2>3. worker'[k] = [worker[k] EXCEPT !.pc = "streaming"]
        /\ \A j \in Slot : j # k => worker'[j] = worker[j]
    BY <1>3, <2>1 DEF StartRun, Move, TypeOK
  <2>4. \A j \in Employed' : /\ j \in Employed /\ worker[j].turn \in Turn
                             /\ worker'[j].turn = worker[j].turn
                             /\ worker'[j].generation = worker[j].generation
                             /\ worker'[j].pc \in Starting =>
                                    worker[j].pc \in Starting /\ worker[j].turn # t
    BY <2>1, <2>3, JobTurn DEF IInv, Safe, OneJob, Employed, Busy, Job, Starting
  <2>5. UNCHANGED generation
    BY <1>3 DEF StartRun
  <2>. QED
    BY <2>1, <2>2, <2>4, <2>5 DEF Current, Live
<1>4. ASSUME NEW k \in Slot, NEW event \in Final, RunEnds(k, event) PROVE Current'
  <2>. PICK t : t = worker[k].turn
    OBVIOUS
  <2>1. /\ UNCHANGED generation /\ k \in Employed /\ t \in Turn
        /\ run' = [run EXCEPT ![t] = NoRun]
        /\ worker'[k].turn = t /\ worker'[k].generation = worker[k].generation
        /\ worker'[k].pc = "event"
        /\ \A j \in Employed' : j # k => Stays(j) /\ worker[j].turn \in Turn \ {t}
    BY <1>4, Ending
  <2>2. run'[t].generation = 0 /\ \A u \in Turn : u # t => run'[u] = run[u]
    BY <2>1 DEF TypeOK, NoRun
  <2>. QED
    BY <2>1, <2>2 DEF Current, Live, Stays, Starting
<1>5. ASSUME ~Dispatch, \A k \in Slot : ~AdmitDirect(k) /\ ~StartRun(k),
             \A k \in Slot, event \in Final : ~RunEnds(k, event)
      PROVE  Current'
  <2>1. UNCHANGED generation
    <3>1. ASSUME NEW k \in Slot, Worker(k) PROVE UNCHANGED generation
      BY <1>5, <3>1, StaysOnItsWay DEF Worker, Ways, ForwardPause, IncludeInputs, PersistEvent, FinishWrite
    <3>2. ASSUME NEW t \in Turn, Commit(t) \/ User(t) \/ RunStops(t) \/ ReadInputs(t)
          PROVE  UNCHANGED generation
      BY <3>2 DEF Commit, SendCommit, BeginCommit, SaveExchange, SaveFails, CompleteCommit,
                  CommitReply, CommitLost, User, Pause, Resume, AppendInput, CancelTurn,
                  CancelSignal, RunStops, ReadInputs
    <3>3. ASSUME NEW c \in Call, Tool(c) PROVE UNCHANGED generation
      BY <3>3 DEF Tool, BeginCall, StartCall, CancelCall, EndCall, Resolve
    <3>4. CASE Submission \/ Shutdown \/ Restart \/ UNCHANGED vars
      BY <3>4 DEF Submission, Admit, Stamp, Reserve, Shutdown, Restart, vars
    <3>. QED
      BY <1>5, <3>1, <3>2, <3>3, <3>4 DEF Next
  <2>. QED
    BY <1>5, <2>1, Staying, Runs, CurrentLaw
<1>. QED
  BY <1>1, <1>2, <1>3, <1>4, <1>5 DEF Dispatch

\* A turn that has begun is parked by its worker and by nothing else.
LEMMA BegunLasts ==
    ASSUME IInv, TypeOK', [Next]_vars, NEW t \in Turn, Begun(t),
           \A k \in Slot : PersistEvent(k) => worker[k].turn # t
    PROVE  Begun(t)'
<1>. TypeOK
  BY DEF IInv
<1>1. CASE status'[t] = status[t]
  BY <1>1 DEF Begun
<1>2. CASE Orderly(status[t], status'[t])
  BY <1>2 DEF Begun, Orderly
<1>3. ASSUME NEW k \in Slot, Worker(k) PROVE Begun(t)'
  <2>1. CASE AdmitDirect(k)
    <3>. PICK u : u = worker[k].turn
      OBVIOUS
    <3>1. \/ status' = status
          \/ status[u] = "absent" /\ status' = [status EXCEPT ![u] = "running"]
      BY <2>1 DEF AdmitDirect
    <3>2. status'[t] = status[t] \/ status[t] = "absent"
      BY <3>1 DEF TypeOK
    <3>. QED
      BY <1>1, <3>2 DEF Begun, Executing, Ended
  <2>2. CASE FinishWrite(k)
    BY <1>2, <2>2, Finishing
  <2>3. CASE PersistEvent(k)
    <3>1. worker[k].turn \in Turn /\ worker[k].turn # t
      BY <2>3, JobTurn DEF PersistEvent, At
    <3>2. status'[t] = status[t]
      BY <2>3, <3>1 DEF PersistEvent, Finish, TypeOK
    <3>. QED
      BY <1>1, <3>2
  <2>. QED
    BY <1>1, <1>3, <2>1, <2>2, <2>3, StaysOnItsWay
    DEF Worker, Ways, StartRun, ForwardPause, IncludeInputs, RunEnds
<1>4. ASSUME NEW u \in Turn, Commit(u) PROVE Begun(t)'
  <2>1. CASE BeginCommit(u)
    BY <1>1, <2>1 DEF BeginCommit, Begun, Executing, TypeOK
  <2>2. CASE SaveFails(u)
    BY <1>2, <2>2, Closing DEF SaveFails
  <2>3. CASE CompleteCommit(u)
    BY <1>1, <2>3 DEF CompleteCommit, Begun, Ended, TypeOK
  <2>. QED
    BY <1>1, <1>4, <2>1, <2>2, <2>3 DEF Commit, SendCommit, SaveExchange, CommitReply,
                                        CommitLost
<1>5. ASSUME NEW u \in Turn, User(u) \/ RunStops(u) \/ ReadInputs(u) PROVE Begun(t)'
  BY <1>1, <1>2, <1>5, Commanding DEF User, CancelSignal, RunStops, ReadInputs
<1>6. ASSUME NEW c \in Call, Tool(c) PROVE Begun(t)'
  BY <1>2, <1>6, Calling
<1>7. CASE Submission
  <2>1. ASSUME NEW c \in Client, Admit(c) PROVE Begun(t)'
    BY <1>2, <2>1, Admitting DEF Joins, Begun, Executing, Ended
  <2>. QED
    BY <1>1, <1>7, <2>1 DEF Submission, Stamp, Reserve
<1>8. CASE Dispatch
  BY <1>1, <1>8, Claimed DEF Dispatch, Begun, Executing
<1>9. CASE Restart
  BY <1>2, <1>9, Restarting
<1>. QED
  BY <1>1, <1>3, <1>4, <1>5, <1>6, <1>7, <1>8, <1>9 DEF Next, Shutdown, vars

LEMMA EndedLasts ==
    ASSUME IInv, TypeOK', [Next]_vars, NEW t \in Turn, status[t] \in Ended
    PROVE  status'[t] = status[t]
BY EveryStep DEF NoReturn

\* A worker that has an event has not been given its turn just now.
LEMMA Arriving ==
    ASSUME IInv, NEW k \in Employed', worker'[k].pc # "claimed"
    PROVE  /\ \A K \in SUBSET (Slot \ Busy) : \A seat \in [K -> Runnable] :
                  Claim(seat) => Stays(k)
           /\ \A j \in Slot : AdmitDirect(j) => Stays(k)
<1>1. ASSUME NEW K \in SUBSET (Slot \ Busy), NEW seat \in [K -> Runnable], Claim(seat)
      PROVE  Stays(k)
  <2>1. \A i \in K : worker'[i].pc = "claimed"
    BY <1>1, Claimed
  <2>2. \A i \in Employed' \ K : Stays(i)
    BY <1>1, Claimed
  <2>. QED
    BY <2>1, <2>2
<1>2. ASSUME NEW j \in Slot, AdmitDirect(j) PROVE Stays(k)
  <2>. PICK t : t = worker[j].turn
    OBVIOUS
  <2>1. \/ \A i \in Employed' : Stays(i)
        \/ worker'[j].pc = "claimed" /\ \A i \in Employed' : i # j => Stays(i)
    BY <1>2, Admitted
  <2>. QED
    BY <2>1
<1>. QED
  BY <1>1, <1>2

LEMMA RepliedKept == ASSUME Good, TypeOK', [Next]_vars PROVE Replied'
<1>. IInv /\ Replied /\ TypeOK
  BY DEF Good, IInv
<1>0. ASSUME NEW t \in Turn, status[t] = "committed" PROVE status'[t] = "committed"
  BY <1>0, EndedLasts DEF Ended
<1>1. ASSUME NEW t \in Turn, commit'[t] = "done" PROVE status'[t] = "committed"
  <2>1. commit[t] = "done" \/ CompleteCommit(t)
    <3>1. ASSUME NEW u \in Turn, Commit(u) PROVE commit[t] = "done" \/ CompleteCommit(t)
      <4>1. \/ commit' = commit \/ commit' = [commit EXCEPT ![u] = "none"]
            \/ commit' = [commit EXCEPT ![u] = "sent"] \/ commit' = [commit EXCEPT ![u] = "begun"]
            \/ commit' = [commit EXCEPT ![u] = "saved"]
            \/ CompleteCommit(u) /\ \A v \in Turn : v # u => commit'[v] = commit[v]
        BY <3>1 DEF Commit, SendCommit, BeginCommit, SaveExchange, SaveFails,
                    CompleteCommit, CommitReply, CommitLost, TypeOK
      <4>. QED
        BY <1>1, <4>1 DEF TypeOK
    <3>2. ASSUME NEW k \in Slot, Worker(k) PROVE UNCHANGED commit
      BY <3>2, StaysOnItsWay DEF Worker, Ways, AdmitDirect, StartRun, ForwardPause, IncludeInputs, RunEnds,
                  PersistEvent, FinishWrite
    <3>3. ASSUME NEW u \in Turn, User(u) \/ RunStops(u) \/ ReadInputs(u) PROVE UNCHANGED commit
      BY <3>3 DEF User, Pause, Resume, AppendInput, CancelTurn, CancelSignal, RunStops,
                  ReadInputs
    <3>4. ASSUME NEW c \in Call, Tool(c) PROVE UNCHANGED commit
      BY <3>4 DEF Tool, BeginCall, StartCall, CancelCall, EndCall, Resolve
    <3>5. CASE Submission \/ Dispatch \/ Shutdown \/ UNCHANGED vars
      BY <1>1, <3>5 DEF Submission, Admit, Stamp, Reserve, Dispatch, Claim, Shutdown, vars
    <3>6. CASE Restart
      BY <1>1, <3>6 DEF Restart
    <3>. QED
      BY <1>1, <3>1, <3>2, <3>3, <3>4, <3>5, <3>6 DEF Next
  <2>2. CASE CompleteCommit(t)
    BY <1>1, <2>2 DEF CompleteCommit, TypeOK
  <2>. QED
    BY <1>0, <2>1, <2>2 DEF Replied
<1>2. ASSUME NEW t \in Turn, run'[t].committed PROVE status'[t] = "committed"
  <2>1. CASE \E k \in Slot : StartRun(k)
    <3>1. PICK k \in Slot : StartRun(k)
      BY <2>1
    <3>2. run' = [run EXCEPT ![worker[k].turn] =
                [NoRun EXCEPT !.generation = worker[k].generation,
                              !.read = checkpoint[worker[k].turn].read]]
      BY <3>1 DEF StartRun
    <3>3. run[t].committed
      BY <1>2, <3>2 DEF NoRun, TypeOK
    <3>. QED
      BY <1>0, <3>3 DEF Replied
  <2>2. CASE run[t].committed
    BY <1>0, <2>2 DEF Replied
  <2>3. CASE CommitReply(t)
    BY <1>0, <2>3 DEF CommitReply, Replied
  <2>. QED
    BY <1>2, <2>1, <2>2, <2>3, Runs
<1>3. ASSUME NEW k \in Employed', worker'[k].pc = "event"
      PROVE  /\ Begun(worker[k].turn)'
             /\ worker'[k].event = "committed" => status'[worker'[k].turn] = "committed"
  <2>1. ASSUME Stays(k)
        PROVE  /\ Begun(worker[k].turn)'
               /\ worker'[k].event = "committed" => status'[worker'[k].turn] = "committed"
    <3>. PICK t : t = worker[k].turn
      OBVIOUS
    <3>1. /\ k \in Employed /\ t \in Turn /\ worker'[k].turn = t /\ worker[k].pc = "event"
          /\ worker'[k].event = worker[k].event
      BY <1>3, <2>1, JobTurn DEF Stays, Employed
    <3>2. Begun(t) /\ (worker[k].event = "committed" => status[t] = "committed")
      BY <3>1 DEF Replied
    <3>3. ASSUME NEW j \in Slot, PersistEvent(j) PROVE worker[j].turn # t
      <4>1. j \in Employed /\ worker[j] \in Job /\ worker'[j] = [worker[j] EXCEPT !.pc = "ended"]
        BY <3>3, JobTurn DEF PersistEvent, At, Employed, Move, TypeOK
      <4>2. worker'[j].pc = "ended"
        BY <4>1 DEF Job
      <4>3. j # k
        BY <1>3, <4>2
      <4>. QED
        BY <3>1, <4>1, <4>3 DEF IInv, Safe, OneJob
    <3>4. Begun(t)'
      BY <3>1, <3>2, <3>3, BegunLasts
    <3>. QED
      BY <1>0, <3>1, <3>2, <3>4 DEF Begun
  <2>2. ASSUME NEW K \in SUBSET (Slot \ Busy), NEW seat \in [K -> Runnable], Claim(seat)
        PROVE  Stays(k)
    BY <1>3, <2>2, Arriving
  <2>3. ASSUME NEW j \in Slot, AdmitDirect(j) PROVE Stays(k)
    BY <1>3, <2>3, Arriving
  <2>4. ASSUME NEW j \in Slot, NEW event \in Final, RunEnds(j, event), ~Stays(k)
        PROVE  /\ Begun(worker[k].turn)'
               /\ worker'[k].event = "committed" => status'[worker'[k].turn] = "committed"
    <3>. PICK t : t = worker[j].turn
      OBVIOUS
    <3>1. /\ j = k /\ UNCHANGED status /\ k \in Employed /\ t \in Turn /\ worker'[k].turn = t
          /\ worker[k].pc = "streaming" /\ worker'[k].event = event
          /\ event = "committed" => run[t].committed
      BY <1>3, <2>4, Ending
    <3>2. Begun(t)
      BY <3>1 DEF IInv, Safe, JobsOwn, JobOwns, Working
    <3>. QED
      BY <3>1, <3>2 DEF Replied, Begun
  <2>. QED
    BY <1>3, <2>1, <2>2, <2>3, <2>4, Staying DEF Dispatch
<1>. QED
  BY <1>1, <1>2, <1>3 DEF Replied

-----------------------------------------------------------------------------
(* Rows.                                                                   *)

Silent ==
    UNCHANGED <<status, generation, inputPause, held, inputs, unread, checkpoint, call,
                approval>>

\* The steps that change a row of a turn or of a call.
Telling ==
    \/ (\E c \in Client : Admit(c)) \/ Dispatch \/ Restart
    \/ \E k \in Slot : AdmitDirect(k) \/ IncludeInputs(k) \/ PersistEvent(k) \/ FinishWrite(k)
    \/ \E t \in Turn : \/ BeginCommit(t) \/ SaveFails(t) \/ CompleteCommit(t)
                       \/ Pause(t) \/ Resume(t) \/ AppendInput(t) \/ CancelTurn(t)
    \/ \E c \in Call : Tool(c)

LEMMA SilentOrTelling == ASSUME TypeOK, [Next]_vars PROVE Silent \/ Telling
<1>1. ASSUME NEW k \in Slot, Worker(k), ~Telling PROVE Silent
  <2>1. CASE Ways(k)
    BY <2>1, StaysOnItsWay DEF Silent
  <2>2. CASE StartRun(k) \/ ForwardPause(k) \/ \E event \in Final : RunEnds(k, event)
    BY <2>2 DEF StartRun, ForwardPause, RunEnds, Silent
  <2>. QED
    BY <1>1, <2>1, <2>2 DEF Worker, Ways, Telling
<1>2. ASSUME NEW t \in Turn, RunStops(t) \/ ReadInputs(t) \/ Commit(t) \/ User(t), ~Telling
      PROVE  Silent
  BY <1>2 DEF RunStops, ReadInputs, Commit, SendCommit, SaveExchange, CommitReply,
              CommitLost, User, CancelSignal, Telling, Silent
<1>3. CASE Submission \/ Dispatch \/ Shutdown \/ Restart \/ UNCHANGED vars
  BY <1>3 DEF Submission, Stamp, Reserve, Shutdown, vars, Telling, Silent
<1>4. ASSUME NEW c \in Call, Tool(c) PROVE Telling
  BY <1>4 DEF Telling
<1>. QED
  BY <1>1, <1>2, <1>3, <1>4 DEF Next

\* The pauses.

Eases(s, r) ==
    \/ r = s \/ r \in {"committing", "cancel_requested"} \cup Ended
    \/ s = "absent" \/ (s = "waiting_approval" /\ r = "accepted")

Quiet(t) ==
    /\ held'[t] = held[t] /\ inputPause'[t] = inputPause[t] /\ unread'[t] = unread[t]
    /\ Eases(status[t], status'[t])
    /\ checkpoint'[t].pending \in {checkpoint[t].pending, {}}

LEMMA QuietHalted == ASSUME NEW t \in Turn, Halted(t), Quiet(t) PROVE Halted(t)'
BY DEF Halted, Quiet, Eases, Ended

LEMMA FinishRows ==
    ASSUME TypeOK, NEW t \in Turn, NEW s \in {"failed", "cancelled"}, Finish(t, s), NEW u \in Turn
    PROVE  \/ /\ status'[u] = status[u] /\ checkpoint'[u] = checkpoint[u]
              /\ \A c \in CallsOf(u) : call'[c] = call[c] /\ approval'[c] = approval[c]
           \/ /\ status'[u] = s /\ checkpoint'[u] = NoCheckpoint
              /\ \A c \in CallsOf(u) : call'[c] \notin OpenCall
<1>1. CASE u = t /\ Unfinished(t)
  <2>1. status'[u] = s /\ checkpoint'[u] = NoCheckpoint
    BY <1>1 DEF Finish, TypeOK
  <2>2. \A c \in CallsOf(u) : call'[c] \notin OpenCall
    BY <1>1 DEF Finish, CloseCalls, CallsOf, TypeOK, OpenCall
  <2>. QED
    BY <2>1, <2>2
<1>2. CASE u # t /\ Unfinished(t)
  <2>1. status'[u] = status[u] /\ checkpoint'[u] = checkpoint[u]
    BY <1>2 DEF Finish, TypeOK
  <2>2. \A c \in CallsOf(u) : call'[c] = call[c] /\ approval'[c] = approval[c]
    BY <1>2 DEF Finish, CloseCalls, CallsOf, TypeOK
  <2>. QED
    BY <2>1, <2>2
<1>3. CASE ~Unfinished(t)
  BY <1>3 DEF Finish
<1>. QED
  BY <1>1, <1>2, <1>3

LEMMA RestartRows ==
    ASSUME TypeOK, Restart, NEW u \in Turn
    PROVE  \/ /\ status'[u] = status[u] /\ checkpoint'[u] = checkpoint[u]
              /\ \A c \in CallsOf(u) : call'[c] = call[c] /\ approval'[c] = approval[c]
           \/ /\ status'[u] \in {"failed", "cancelled"} /\ checkpoint'[u] = NoCheckpoint
              /\ \A c \in CallsOf(u) : call'[c] \notin OpenCall
<1>. DEFINE lost == {t \in Turn : status[t] \in Executing}
<1>1. /\ status'[u] = IF u \notin lost THEN status[u]
                      ELSE IF status[u] = "cancel_requested" THEN "cancelled" ELSE "failed"
      /\ checkpoint'[u] = IF u \in lost THEN NoCheckpoint ELSE checkpoint[u]
      /\ CloseCalls(lost)
  BY DEF Restart
<1>. HIDE DEF lost
<1>2. CASE u \in lost
  <2>1. \A c \in CallsOf(u) : call'[c] \notin OpenCall
    BY <1>1, <1>2 DEF CloseCalls, CallsOf, TypeOK, OpenCall
  <2>. QED
    BY <1>1, <1>2, <2>1
<1>3. CASE u \notin lost
  <2>1. \A c \in CallsOf(u) : call'[c] = call[c] /\ approval'[c] = approval[c]
    BY <1>1, <1>3 DEF CloseCalls, CallsOf, TypeOK
  <2>. QED
    BY <1>1, <1>3, <2>1
<1>. QED
  BY <1>2, <1>3

\* What a worker stores of a run that parked: the guards, and the row it leaves.
LEMMA ParkedRows ==
    ASSUME IInv, NEW k \in Slot, PersistEvent(k), NEW t, t = worker[k].turn
    PROVE  /\ k \in Employed /\ t \in Turn /\ worker[k].pc = "event"
           /\ UNCHANGED <<generation, held, unread, commit, run>>
           /\ \/ /\ worker[k].event \in Parking
                 /\ worker[k].generation = generation[t]
                 /\ SavesCheckpoint(t, generation[t], worker[k].event, worker[k].pending)
                 /\ worker[k].read <= inputs[t].claimed
                 /\ status' = [status EXCEPT
                        ![t] = StatusAfterPause(t, worker[k].event, worker[k].pending)]
                 /\ checkpoint'[t].saved /\ checkpoint'[t].pending = worker[k].pending
                 /\ checkpoint'[t].read = worker[k].read
                 /\ inputs' = Included(t, worker[k].read)
                 /\ ~inputPause'[t]
                 /\ \A u \in Turn : u # t => checkpoint'[u] = checkpoint[u]
                                             /\ inputPause'[u] = inputPause[u]
                 /\ UNCHANGED <<call, approval>>
              \/ /\ worker[k].event = "failed" /\ Finish(t, "failed")
                 /\ UNCHANGED <<inputs, inputPause>>
              \/ /\ UNCHANGED <<status, checkpoint, call, approval, inputPause>>
                 /\ \/ UNCHANGED inputs
                    \/ /\ worker[k].event = "committed"
                       /\ worker[k].read <= inputs[t].claimed
                       /\ inputs' = Included(t, worker[k].read)
<1>1. k \in Employed /\ t \in Turn /\ worker[k].pc = "event" /\ worker[k] \in Job
  BY JobTurn DEF PersistEvent, At, Employed, IInv
<1>2. UNCHANGED <<generation, held, unread, commit, run>>
  BY DEF PersistEvent
<1>. DEFINE Saves == /\ worker[k].event \in {"waiting_approval", "paused", "recovery"}
                     /\ TakesReceipt(t, worker[k].generation, worker[k].read)
                     /\ SavesCheckpoint(t, worker[k].generation, worker[k].event, worker[k].pending)
<1>3. CASE Saves
  <2>1. /\ status' = [status EXCEPT
                  ![t] = StatusAfterPause(t, worker[k].event, worker[k].pending)]
        /\ checkpoint' = [checkpoint EXCEPT ![t] =
                  [saved |-> TRUE, pending |-> worker[k].pending, read |-> worker[k].read]]
        /\ inputPause' = [inputPause EXCEPT ![t] = FALSE]
        /\ inputs' = Included(t, worker[k].read)
        /\ UNCHANGED <<call, approval>>
    BY <1>3 DEF PersistEvent
  <2>2. /\ checkpoint'[t].saved /\ checkpoint'[t].pending = worker[k].pending
        /\ checkpoint'[t].read = worker[k].read /\ ~inputPause'[t]
        /\ \A u \in Turn : u # t => checkpoint'[u] = checkpoint[u]
                                    /\ inputPause'[u] = inputPause[u]
    BY <1>1, <2>1 DEF IInv, TypeOK
  <2>3. worker[k].generation = generation[t] /\ worker[k].read <= inputs[t].claimed
    BY <1>3 DEF TakesReceipt
  <2>. QED
    BY <1>1, <1>2, <1>3, <2>1, <2>2, <2>3 DEF Parking
<1>4. CASE ~Saves /\ worker[k].event = "failed"
  BY <1>1, <1>2, <1>4 DEF PersistEvent
<1>5. CASE ~Saves /\ worker[k].event # "failed"
  BY <1>1, <1>2, <1>5 DEF PersistEvent, TakesReceipt
<1>. QED
  BY <1>3, <1>4, <1>5

LEMMA Asking ==
    ASSUME TypeOK, [Next]_vars, NEW t \in Turn
    PROVE  run'[t].asked \subseteq run[t].asked \cup CallsOf(t)
<1>. DEFINE Goal == run'[t].asked \subseteq run[t].asked \cup CallsOf(t)
<1>0. run \in [Turn -> Run] /\ run[t] \in Run
  BY DEF TypeOK
<1>1. CASE UNCHANGED run
  BY <1>1
<1>2. ASSUME NEW k \in Slot, Worker(k) PROVE Goal
  <2>1. ASSUME NEW event \in Final, RunEnds(k, event) PROVE Goal
    BY <1>0, <2>1 DEF RunEnds, EndRun, NoRun
  <2>2. CASE StartRun(k)
    BY <1>0, <2>2 DEF StartRun, NoRun
  <2>3. CASE ForwardPause(k)
    <3>1. run' = [run EXCEPT ![worker[k].turn].signalled = TRUE]
      BY <2>3 DEF ForwardPause
    <3>. QED
      BY <1>0, <3>1 DEF Run
  <2>. QED
    BY <1>1, <1>2, <2>1, <2>2, <2>3, StaysOnItsWay
    DEF Worker, Ways, AdmitDirect, IncludeInputs, PersistEvent, FinishWrite
<1>3. ASSUME NEW u \in Turn, RunStops(u) \/ ReadInputs(u) \/ CommitReply(u) PROVE Goal
  <2>1. \/ run' = [run EXCEPT ![u] = NoRun]
        \/ run' = [run EXCEPT ![u].read = inputs[u].claimed]
        \/ run' = [run EXCEPT ![u].committed = TRUE]
    BY <1>3 DEF RunStops, EndRun, ReadInputs, CommitReply
  <2>. QED
    BY <1>0, <2>1 DEF Run, NoRun
<1>4. ASSUME NEW u \in Turn, User(u) \/ (Commit(u) /\ ~CommitReply(u)) PROVE Goal
  BY <1>1, <1>4 DEF User, Pause, Resume, AppendInput, CancelTurn, CancelSignal, Commit,
                    SendCommit, BeginCommit, SaveExchange, SaveFails, CompleteCommit, CommitLost
<1>5. ASSUME NEW c \in Call, Tool(c) PROVE Goal
  <2>1. run' = run \/ run' = [run EXCEPT ![TurnOf[c]].asked = @ \cup {c}]
    BY <1>5 DEF Tool, BeginCall, StartCall, CancelCall, EndCall, Resolve
  <2>. QED
    BY <1>0, <1>5, <2>1 DEF Run, CallsOf
<1>6. CASE Submission \/ Dispatch \/ Shutdown \/ Restart \/ UNCHANGED vars
  BY <1>1, <1>6 DEF Submission, Admit, Stamp, Reserve, Dispatch, Claim, Shutdown, Restart, vars
<1>. QED
  BY <1>2, <1>3, <1>4, <1>5, <1>6 DEF Next

\* A checkpoint is stored by the worker of its turn, and goes when the turn ends.
LEMMA Checkpoints ==
    ASSUME IInv, [Next]_vars, NEW t \in Turn
    PROVE  \/ checkpoint'[t] = checkpoint[t]
           \/ checkpoint'[t] = NoCheckpoint /\ status'[t] \in Ended
           \/ \E k \in Slot : /\ PersistEvent(k) /\ worker[k].turn = t
                             /\ worker[k].event \in Parking
                             /\ checkpoint'[t].pending = worker[k].pending
<1>. DEFINE Goal == \/ checkpoint'[t] = checkpoint[t]
                    \/ checkpoint'[t] = NoCheckpoint /\ status'[t] \in Ended
<1>. TypeOK
  BY DEF IInv
<1>0. ASSUME NEW u \in Turn, NEW s \in {"failed", "cancelled"}, Finish(u, s) PROVE Goal
  BY <1>0, FinishRows DEF Ended
<1>1. ASSUME NEW k \in Slot, PersistEvent(k)
      PROVE  \/ Goal
             \/ /\ worker[k].turn = t /\ worker[k].event \in Parking
                /\ checkpoint'[t].pending = worker[k].pending
  <2>. PICK u : u = worker[k].turn
    OBVIOUS
  <2>1. /\ u \in Turn
        /\ \/ /\ worker[k].event \in Parking /\ checkpoint'[u].pending = worker[k].pending
              /\ \A v \in Turn : v # u => checkpoint'[v] = checkpoint[v]
           \/ Finish(u, "failed") \/ UNCHANGED checkpoint
    BY <1>1, ParkedRows
  <2>. QED
    BY <1>0, <2>1
<1>2. ASSUME NEW k \in Slot, FinishWrite(k) PROVE Goal
  <2>1. worker[k].turn \in Turn /\ \E s \in {"failed", "cancelled"} : Finish(worker[k].turn, s)
    BY <1>2, JobTurn DEF FinishWrite, At
  <2>. QED
    BY <1>0, <2>1
<1>3. ASSUME NEW u \in Turn, SaveFails(u) PROVE Goal
  BY <1>0, <1>3 DEF SaveFails
<1>4. ASSUME NEW u \in Turn, CompleteCommit(u) PROVE Goal
  BY <1>4 DEF CompleteCommit, TypeOK, Ended
<1>5. ASSUME NEW u \in Turn, CancelTurn(u) PROVE Goal
  BY <1>0, <1>5 DEF CancelTurn
<1>6. CASE Restart
  BY <1>6, RestartRows DEF Ended
<1>7. CASE UNCHANGED checkpoint
  BY <1>7
<1>. QED
  BY <1>1, <1>2, <1>3, <1>4, <1>5, <1>6, <1>7, SilentOrTelling
  DEF Silent, Telling, Admit, Dispatch, Claim, AdmitDirect, IncludeInputs, BeginCommit,
      Pause, Resume, AppendInput, Tool, BeginCall, StartCall, CancelCall, EndCall, Resolve

LEMMA NamedKept == ASSUME Good, TypeOK', [Next]_vars PROVE Named'
<1>. IInv /\ Named /\ TypeOK
  BY DEF Good, IInv
<1>1. \A t \in Turn : run'[t].asked \subseteq CallsOf(t)
  BY Asking DEF Named
<1>2. ASSUME NEW t \in Turn PROVE checkpoint'[t].pending \subseteq CallsOf(t)
  <2>1. ASSUME NEW k \in Slot, PersistEvent(k), worker[k].turn = t
        PROVE  worker[k].pending \subseteq CallsOf(t)
    BY <2>1, ParkedRows DEF Named
  <2>. QED
    BY <2>1, Checkpoints DEF Named, NoCheckpoint
<1>3. ASSUME NEW k \in Employed', worker'[k].pc = "event"
      PROVE  worker'[k].pending \subseteq CallsOf(worker'[k].turn)
  <2>1. CASE Stays(k)
    BY <1>3, <2>1 DEF Stays, Named
  <2>2. ASSUME NEW K \in SUBSET (Slot \ Busy), NEW seat \in [K -> Runnable], Claim(seat)
        PROVE  Stays(k)
    BY <1>3, <2>2, Arriving
  <2>3. ASSUME NEW j \in Slot, AdmitDirect(j) PROVE Stays(k)
    BY <1>3, <2>3, Arriving
  <2>4. ASSUME NEW j \in Slot, NEW event \in Final, RunEnds(j, event), ~Stays(k)
        PROVE  worker'[k].pending \subseteq CallsOf(worker'[k].turn)
    <3>. PICK t : t = worker[j].turn
      OBVIOUS
    <3>1. j = k /\ t \in Turn /\ worker'[k].turn = t /\ worker'[k].pending \subseteq run[t].asked
      BY <1>3, <2>4, Ending
    <3>. QED
      BY <3>1 DEF Named
  <2>. QED
    BY <1>3, <2>1, <2>2, <2>3, <2>4, Staying DEF Dispatch
<1>. QED
  BY <1>1, <1>2, <1>3 DEF Named, CallsOf

LEMMA FinishQuiet ==
    ASSUME TypeOK, NEW t \in Turn, NEW s \in {"failed", "cancelled"}, Finish(t, s),
           UNCHANGED <<held, inputPause, unread>>, NEW u \in Turn
    PROVE  Quiet(u)
BY FinishRows DEF Quiet, Eases, Ended, NoCheckpoint

LEMMA ParkHalted ==
    ASSUME Good, NEW k \in Slot, PersistEvent(k), NEW u \in Turn
    PROVE  Halted(u)'
<1>. IInv /\ TypeOK /\ Halted(u)
  BY DEF Good, IInv
<1>. PICK t : t = worker[k].turn
  OBVIOUS
<1>1. /\ t \in Turn /\ UNCHANGED <<generation, held, unread>>
  BY ParkedRows
<1>2. CASE UNCHANGED <<status, checkpoint, inputPause>>
  BY <1>1, <1>2, QuietHalted DEF Quiet, Eases
<1>3. CASE Finish(t, "failed") /\ UNCHANGED inputPause
  BY <1>1, <1>3, FinishQuiet, QuietHalted
<1>4. CASE /\ worker[k].event \in Parking
           /\ SavesCheckpoint(t, generation[t], worker[k].event, worker[k].pending)
           /\ status' = [status EXCEPT
                ![t] = StatusAfterPause(t, worker[k].event, worker[k].pending)]
           /\ checkpoint'[t].pending = worker[k].pending /\ ~inputPause'[t]
           /\ \A v \in Turn : v # t => checkpoint'[v] = checkpoint[v]
                                       /\ inputPause'[v] = inputPause[v]
  <2>1. CASE u # t
    <3>1. status'[u] = status[u]
      BY <1>4, <2>1 DEF TypeOK
    <3>. QED
      BY <1>1, <1>4, <2>1, <3>1, QuietHalted DEF Quiet, Eases
  <2>2. CASE u = t
    <3>1. status'[t] = StatusAfterPause(t, worker[k].event, worker[k].pending)
      BY <1>1, <1>4 DEF TypeOK
    <3>2. status[t] \in {"running", "pausing"}
      <4>1. Begun(t)
        BY <1>1, ParkedRows DEF Good, Replied
      <4>2. status[t] \in {"running", "pausing", "waiting_approval"}
        BY <1>4 DEF SavesCheckpoint, Parking
      <4>. QED
        BY <4>1, <4>2 DEF Begun, Executing, Ended
    <3>3. held[t] => status'[t] = "paused"
      BY <2>2, <3>1, <3>2 DEF Halted, StatusAfterPause
    <3>4. unread[t] => status'[t] = "paused" \/ (status'[t] = "accepted" /\ worker[k].pending = {})
      BY <2>2, <3>1, <3>2 DEF Halted, StatusAfterPause
    <3>. QED
      BY <1>1, <1>4, <2>2, <3>3, <3>4 DEF Halted
  <2>. QED
    BY <2>1, <2>2
<1>. QED
  BY <1>2, <1>3, <1>4, ParkedRows

LEMMA UserHalted ==
    ASSUME TypeOK, NEW t \in Turn, Pause(t) \/ Resume(t) \/ AppendInput(t) \/ CancelTurn(t),
           NEW u \in Turn, Halted(u)
    PROVE  Halted(u)'
<1>1. CASE CancelTurn(t)
  <2>1. CASE Finish(t, "cancelled")
    BY <1>1, <2>1, FinishQuiet, QuietHalted DEF CancelTurn
  <2>2. CASE ~Finish(t, "cancelled")
    <3>1. status' = [status EXCEPT ![t] = "cancel_requested"]
          /\ UNCHANGED <<checkpoint, held, inputPause, unread>>
      BY <1>1, <2>2 DEF CancelTurn
    <3>2. Quiet(u)
      BY <3>1 DEF Quiet, Eases, TypeOK
    <3>. QED
      BY <3>2, QuietHalted
  <2>. QED
    BY <2>1, <2>2
<1>2. CASE u # t /\ ~CancelTurn(t)
  <2>1. Quiet(u)
    BY <1>2 DEF Pause, Resume, AppendInput, Quiet, Eases, TypeOK
  <2>. QED
    BY <2>1, QuietHalted
<1>3. CASE u = t /\ Pause(t)
  <2>1. /\ status'[t] \in {"pausing", "paused"} /\ ~inputPause'[t] /\ held'[t]
        /\ checkpoint' = checkpoint /\ unread' = unread
    BY <1>3 DEF Pause, TypeOK
  <2>. QED
    BY <1>3, <2>1 DEF Halted
<1>4. CASE u = t /\ Resume(t)
  <2>1. ~held'[t] /\ ~unread'[t]
    BY <1>4 DEF Resume, TypeOK
  <2>. QED
    BY <1>4, <2>1 DEF Halted
<1>5. CASE u = t /\ AppendInput(t)
  <2>1. /\ status[t] \in {"accepted", "running", "waiting_approval", "pausing", "paused"}
        /\ status'[t] = IF status[t] = "running" THEN "pausing"
                        ELSE IF StopsForInput(t) THEN "paused" ELSE status[t]
        /\ inputPause'[t] = (status[t] = "running" \/ (inputPause[t] /\ ~StopsForInput(t)))
        /\ unread'[t] /\ held' = held /\ checkpoint' = checkpoint
    BY <1>5 DEF AppendInput, TypeOK
  <2>. QED
    BY <1>5, <2>1 DEF Halted, StopsForInput
<1>. QED
  BY <1>1, <1>2, <1>3, <1>4, <1>5

LEMMA HaltedKept == ASSUME Good, [Next]_vars, NEW u \in Turn PROVE Halted(u)'
<1>. IInv /\ TypeOK /\ Halted(u)
  BY DEF Good, IInv
<1>0. ASSUME Quiet(u) PROVE Halted(u)'
  BY <1>0, QuietHalted
<1>1. CASE Silent
  BY <1>0, <1>1 DEF Silent, Quiet, Eases
<1>2. ASSUME NEW c \in Client, Admit(c) PROVE Halted(u)'
  <2>1. status'[u] = status[u] \/ status[u] = "absent"
    BY <1>2 DEF Admit, TypeOK
  <2>. QED
    BY <1>0, <1>2, <2>1 DEF Admit, Quiet, Eases
<1>3. ASSUME NEW K \in SUBSET (Slot \ Busy), NEW seat \in [K -> Runnable], Claim(seat)
      PROVE  Halted(u)'
  <2>1. CASE status'[u] = status[u] /\ unread'[u] = unread[u] /\ inputPause'[u] = inputPause[u]
    BY <1>0, <1>3, <2>1, Claimed DEF Quiet, Eases
  <2>2. CASE status[u] = "accepted" /\ status'[u] = "running"
    <3>1. ~unread'[u] /\ held' = held
      <4>1. u \in {seat[k] : k \in DOMAIN seat} \/ status'[u] = status[u]
        BY <1>3 DEF Claim
      <4>. QED
        BY <1>3, <2>2, <4>1 DEF Claim
    <3>. QED
      BY <2>2, <3>1 DEF Halted
  <2>. QED
    BY <1>3, <2>1, <2>2, Claimed
<1>4. CASE Restart
  <2>1. UNCHANGED <<held, inputPause, unread>>
    BY <1>4 DEF Restart
  <2>. QED
    BY <1>0, <1>4, <2>1, RestartRows DEF Quiet, Eases, Ended, NoCheckpoint
<1>5. ASSUME NEW k \in Slot, AdmitDirect(k) PROVE Halted(u)'
  <2>1. status'[u] = status[u] \/ status[u] = "absent"
    BY <1>5 DEF AdmitDirect, TypeOK
  <2>. QED
    BY <1>0, <1>5, <2>1 DEF AdmitDirect, Quiet, Eases
<1>6. ASSUME NEW k \in Slot, IncludeInputs(k) PROVE Halted(u)'
  BY <1>0, <1>6 DEF IncludeInputs, Quiet, Eases
<1>7. ASSUME NEW k \in Slot, FinishWrite(k) PROVE Halted(u)'
  <2>1. worker[k].turn \in Turn /\ UNCHANGED <<held, inputPause, unread>>
    BY <1>7, JobTurn DEF FinishWrite, At
  <2>. QED
    BY <1>0, <1>7, <2>1, FinishQuiet DEF FinishWrite
<1>8. ASSUME NEW t \in Turn, BeginCommit(t) \/ SaveFails(t) \/ CompleteCommit(t)
      PROVE  Halted(u)'
  <2>1. UNCHANGED <<held, inputPause, unread>>
    BY <1>8 DEF BeginCommit, SaveFails, CompleteCommit
  <2>2. CASE BeginCommit(t)
    BY <1>0, <2>1, <2>2 DEF BeginCommit, Quiet, Eases, TypeOK
  <2>3. CASE SaveFails(t)
    BY <1>0, <2>1, <2>3, FinishQuiet DEF SaveFails
  <2>4. CASE CompleteCommit(t)
    BY <1>0, <2>1, <2>4 DEF CompleteCommit, Quiet, Eases, TypeOK, Ended, NoCheckpoint
  <2>. QED
    BY <1>8, <2>2, <2>3, <2>4
<1>9. ASSUME NEW c \in Call, Tool(c) PROVE Halted(u)'
  <2>1. UNCHANGED <<checkpoint, held, inputPause, unread>>
    BY <1>9 DEF Tool, BeginCall, StartCall, CancelCall, EndCall, Resolve
  <2>2. Eases(status[u], status'[u])
    BY <1>9 DEF Tool, BeginCall, StartCall, CancelCall, EndCall, Resolve, Eases, TypeOK
  <2>. QED
    BY <1>0, <2>1, <2>2 DEF Quiet
<1>. QED
  BY <1>1, <1>2, <1>3, <1>4, <1>5, <1>6, <1>7, <1>8, <1>9, SilentOrTelling, ParkHalted,
     UserHalted DEF Telling, Dispatch

\* The decisions.  Most rows stay as they are, execute on, or end.
Plain(t) ==
    \/ /\ status'[t] = status[t] /\ generation'[t] = generation[t]
       /\ checkpoint'[t] = checkpoint[t]
       /\ \A c \in CallsOf(t) : call'[c] = call[c] /\ approval'[c] = approval[c]
    \/ status'[t] \in {"running", "pausing", "cancel_requested"} /\ checkpoint'[t] = checkpoint[t]
    \/ /\ status'[t] \in {"failed", "cancelled"} /\ checkpoint'[t] = NoCheckpoint
       /\ \A c \in CallsOf(t) : call'[c] \notin OpenCall

LEMMA PlainDecided ==
    ASSUME NEW t \in Turn, Decided(t), checkpoint[t].pending \subseteq CallsOf(t), Plain(t)
    PROVE  Decided(t)'
<1>1. CASE /\ status'[t] = status[t] /\ generation'[t] = generation[t]
           /\ checkpoint'[t] = checkpoint[t]
           /\ \A c \in CallsOf(t) : call'[c] = call[c] /\ approval'[c] = approval[c]
  <2>1. PendingOf(t)' = PendingOf(t)
    BY <1>1 DEF PendingOf, CallsOf
  <2>2. \A c \in CallsOf(t) : Consistent(c)' <=> Consistent(c)
    BY <1>1 DEF Consistent
  <2>3. Begun(t)' <=> Begun(t)
    BY <1>1 DEF Begun
  <2>. QED
    BY <1>1, <2>1, <2>2, <2>3 DEF Decided, CallsOf
<1>2. CASE status'[t] \in {"running", "pausing", "cancel_requested"} /\ checkpoint'[t] = checkpoint[t]
  <2>1. Begun(t)'
    BY <1>2 DEF Begun, Executing
  <2>. QED
    BY <1>2, <2>1 DEF Decided, Ended
<1>3. CASE /\ status'[t] \in {"failed", "cancelled"} /\ checkpoint'[t] = NoCheckpoint
           /\ \A c \in CallsOf(t) : call'[c] \notin OpenCall
  <2>1. Begun(t)' /\ PendingOf(t)' = {}
    BY <1>3 DEF Begun, Ended, PendingOf, CallsOf, OpenCall
  <2>. QED
    BY <1>3, <2>1 DEF Decided, NoCheckpoint, CallsOf
<1>. QED
  BY <1>1, <1>2, <1>3 DEF Plain

LEMMA FinishPlain ==
    ASSUME TypeOK, NEW t \in Turn, NEW s \in {"failed", "cancelled"}, Finish(t, s),
           UNCHANGED generation, NEW u \in Turn
    PROVE  Plain(u)
BY FinishRows DEF Plain

LEMMA ParkDecided ==
    ASSUME Good, NEW k \in Slot, PersistEvent(k), NEW u \in Turn
    PROVE  Decided(u)'
<1>. /\ IInv /\ TypeOK /\ Decided(u) /\ checkpoint[u].pending \subseteq CallsOf(u)
  BY DEF Good, IInv, Named
<1>. PICK t : t = worker[k].turn
  OBVIOUS
<1>1. /\ t \in Turn /\ UNCHANGED generation
  BY ParkedRows
<1>2. CASE UNCHANGED <<status, checkpoint, call, approval>>
  BY <1>1, <1>2, PlainDecided DEF Plain
<1>3. CASE Finish(t, "failed")
  BY <1>1, <1>3, FinishPlain, PlainDecided
<1>4. CASE /\ SavesCheckpoint(t, generation[t], worker[k].event, worker[k].pending)
           /\ status' = [status EXCEPT
                ![t] = StatusAfterPause(t, worker[k].event, worker[k].pending)]
           /\ checkpoint'[t].saved /\ checkpoint'[t].pending = worker[k].pending
           /\ \A v \in Turn : v # t => checkpoint'[v] = checkpoint[v]
           /\ UNCHANGED <<call, approval>>
  <2>1. CASE u # t
    <3>1. status'[u] = status[u]
      BY <1>4, <2>1 DEF TypeOK
    <3>. QED
      BY <1>1, <1>4, <2>1, <3>1, PlainDecided DEF Plain
  <2>2. CASE u = t
    <3>1. status'[t] = StatusAfterPause(t, worker[k].event, worker[k].pending)
      BY <1>1, <1>4 DEF TypeOK
    <3>2. /\ \A c \in worker[k].pending : Consistent(c)'
          /\ PendingOf(t) \subseteq worker[k].pending /\ PendingOf(t)' = PendingOf(t)
      BY <1>4 DEF SavesCheckpoint, Consistent, PendingOf, CallsOf
    <3>3. /\ status'[t] \in {"accepted", "paused", "waiting_approval"}
          /\ status'[t] = "waiting_approval" => PendingOf(t) # {}
          /\ status'[t] = "accepted" => PendingOf(t) = {}
      BY <3>1, <3>2 DEF StatusAfterPause
    <3>. QED
      BY <1>4, <2>2, <3>2, <3>3 DEF Decided, Ended
  <2>. QED
    BY <2>1, <2>2
<1>. QED
  BY <1>2, <1>3, <1>4, ParkedRows

LEMMA UserDecided ==
    ASSUME TypeOK, NEW t \in Turn, Pause(t) \/ Resume(t) \/ AppendInput(t) \/ CancelTurn(t),
           NEW u \in Turn, Decided(u), checkpoint[u].pending \subseteq CallsOf(u)
    PROVE  Decided(u)'
<1>0. ASSUME Plain(u) PROVE Decided(u)'
  BY <1>0, PlainDecided
<1>1. CASE CancelTurn(t)
  <2>1. UNCHANGED generation
    BY <1>1 DEF CancelTurn
  <2>2. CASE Finish(t, "cancelled")
    BY <1>0, <2>1, <2>2, FinishPlain
  <2>3. CASE ~Finish(t, "cancelled")
    <3>1. status' = [status EXCEPT ![t] = "cancel_requested"]
          /\ UNCHANGED <<checkpoint, call, approval>>
      BY <1>1, <2>3 DEF CancelTurn
    <3>. QED
      BY <1>0, <2>1, <3>1 DEF Plain, TypeOK
  <2>. QED
    BY <2>2, <2>3
<1>2. CASE ~CancelTurn(t)
  <2>1. UNCHANGED <<checkpoint, call, approval, generation>> /\ PendingOf(u)' = PendingOf(u)
        /\ \A c \in Call : Consistent(c)' <=> Consistent(c)
    BY <1>2 DEF Pause, Resume, AppendInput, PendingOf, CallsOf, Consistent
  <2>2. CASE status'[u] \in {status[u], "running", "pausing"}
    BY <1>0, <2>1, <2>2 DEF Plain
  <2>3. CASE status'[u] \notin {status[u], "running", "pausing"}
    <3>1. u = t /\ status[u] \in Parked
      BY <1>2, <2>3 DEF Pause, PausesAtOnce, Resume, AppendInput, StopsForInput, Parked, TypeOK
    <3>2. \/ status'[u] = "paused"
          \/ status'[u] = "waiting_approval" /\ PendingOf(u) # {}
          \/ status'[u] = "accepted" /\ PendingOf(u) = {}
      BY <1>2, <2>3, <3>1 DEF Pause, Resume, AppendInput, TypeOK
    <3>3. ~Begun(u) /\ status[u] # "absent"
      BY <3>1 DEF Begun, Parked, Executing, Ended
    <3>4. checkpoint[u].pending \subseteq Call
      BY DEF CallsOf
    <3>. QED
      BY <2>1, <3>2, <3>3, <3>4 DEF Decided, Ended
  <2>. QED
    BY <2>2, <2>3
<1>. QED
  BY <1>1, <1>2

\* While a turn is parked it has no run, so its calls are only decided.
LEMMA ToolDecided ==
    ASSUME Good, NEW d \in Call, Tool(d), NEW u \in Turn
    PROVE  Decided(u)'
<1>. /\ IInv /\ TypeOK /\ Decided(u) /\ checkpoint[u].pending \subseteq CallsOf(u)
     /\ Live(u) => Begun(u)
  BY DEF Good, IInv, Named, Safe, Owned
<1>0. ASSUME Plain(u) PROVE Decided(u)'
  BY <1>0, PlainDecided
<1>1. UNCHANGED <<checkpoint, generation>>
  BY DEF Tool, BeginCall, StartCall, CancelCall, EndCall, Resolve
<1>2. CASE TurnOf[d] # u
  <2>1. status'[u] = status[u]
    BY <1>2 DEF Tool, BeginCall, StartCall, CancelCall, EndCall, Resolve, TypeOK
  <2>2. \A c \in CallsOf(u) : call'[c] = call[c] /\ approval'[c] = approval[c]
    BY <1>2 DEF Tool, BeginCall, StartCall, CancelCall, EndCall, Resolve, CallsOf, TypeOK
  <2>. QED
    BY <1>0, <1>1, <2>1, <2>2 DEF Plain
<1>3. CASE TurnOf[d] = u /\ (BeginCall(d) \/ StartCall(d))
  <2>1. status'[u] = status[u] /\ status[u] \in {"running", "pausing"}
    BY <1>3 DEF BeginCall, StartCall
  <2>. QED
    BY <1>0, <1>1, <2>1 DEF Plain
<1>4. CASE TurnOf[d] = u /\ (CancelCall(d) \/ \E result \in {"completed", "failed"} : EndCall(d, result))
  <2>1. /\ status' = status /\ Begun(u) /\ call[d] = "running"
        /\ call'[d] \notin OpenCall /\ \A c \in Call : c # d => call'[c] = call[c]
    BY <1>4 DEF CancelCall, EndCall, TypeOK, OpenCall
  <2>2. PendingOf(u)' = PendingOf(u) /\ Begun(u)'
    BY <2>1 DEF PendingOf, CallsOf, OpenCall, Begun
  <2>3. \A c \in CallsOf(u) : call'[c] \in OpenCall => call[c] \in OpenCall
    BY <2>1 DEF CallsOf
  <2>4. status[u] \notin {"absent", "accepted", "waiting_approval"}
    BY <2>1 DEF Begun, Executing, Ended
  <2>. QED
    BY <1>1, <2>1, <2>2, <2>3, <2>4 DEF Decided, CallsOf
<1>5. ASSUME NEW decision \in {"approved", "rejected"}, Resolve(d, decision), TurnOf[d] = u
      PROVE  Decided(u)'
  <2>1. /\ d \in CallsOf(u) /\ call[d] = "pending_approval" /\ call'[d] = decision
        /\ approval'[d] = decision
        /\ \A c \in Call : c # d => call'[c] = call[c] /\ approval'[c] = approval[c]
        /\ status'[u] = IF status[u] = "waiting_approval" /\ checkpoint[u].saved
                             /\ PendingOf(u) = {d}
                        THEN "accepted" ELSE status[u]
    BY <1>5 DEF Resolve, TypeOK, CallsOf
  <2>2. PendingOf(u)' = PendingOf(u) \ {d} /\ d \in PendingOf(u)
    BY <2>1 DEF PendingOf, CallsOf
  <2>3. \A c \in Call : Consistent(c) => Consistent(c)'
    BY <2>1 DEF Consistent
  <2>4. status[u] # "absent" => (Begun(u)' <=> Begun(u))
    BY <2>1 DEF Begun, Executing, Ended
  <2>5. status[u] \notin {"accepted", "committing"} \cup Ended
    BY <2>2 DEF Decided
  <2>6. CASE status'[u] = status[u]
    <3>1. status[u] = "waiting_approval" => PendingOf(u)' # {}
      <4>1. status[u] = "waiting_approval" => checkpoint[u].saved
        BY <2>2 DEF Decided, Begun, Executing, Ended
      <4>. QED
        BY <2>1, <2>2, <2>6, <4>1
    <3>2. Begun(u)' <=> Begun(u)
      BY <2>6 DEF Begun
    <3>3. checkpoint[u].pending \subseteq Call
      BY DEF CallsOf
    <3>. QED
      BY <1>1, <2>2, <2>3, <2>5, <2>6, <3>1, <3>2, <3>3 DEF Decided, Ended
  <2>7. CASE status'[u] # status[u]
    <3>1. /\ status[u] = "waiting_approval" /\ status'[u] = "accepted" /\ PendingOf(u)' = {}
          /\ ~Begun(u)
      BY <2>1, <2>2, <2>7 DEF Begun, Executing, Ended
    <3>2. checkpoint[u].pending \subseteq Call
      BY DEF CallsOf
    <3>. QED
      BY <1>1, <2>3, <3>1, <3>2 DEF Decided, Ended
  <2>. QED
    BY <2>6, <2>7
<1>. QED
  BY <1>2, <1>3, <1>4, <1>5 DEF Tool

LEMMA CommitDecided ==
    ASSUME Good, NEW t \in Turn, BeginCommit(t) \/ SaveFails(t) \/ CompleteCommit(t),
           NEW u \in Turn
    PROVE  Decided(u)'
<1>. /\ IInv /\ TypeOK /\ Decided(u) /\ checkpoint[u].pending \subseteq CallsOf(u)
  BY DEF Good, IInv, Named
<1>0. ASSUME Plain(u) PROVE Decided(u)'
  BY <1>0, PlainDecided
<1>1. UNCHANGED generation
  BY DEF BeginCommit, SaveFails, CompleteCommit
<1>2. CASE SaveFails(t)
  BY <1>0, <1>1, <1>2, FinishPlain DEF SaveFails
<1>3. CASE BeginCommit(t)
  <2>1. UNCHANGED <<checkpoint, call, approval>> /\ PendingOf(u)' = PendingOf(u)
    BY <1>3 DEF BeginCommit, PendingOf, CallsOf
  <2>2. CASE status'[u] = status[u]
    BY <1>0, <1>1, <2>1, <2>2 DEF Plain
  <2>3. CASE status'[u] # status[u]
    <3>1. status'[u] = "committing" /\ PendingOf(u) = {} /\ Begun(u)'
      BY <1>3, <2>3 DEF BeginCommit, MayCommit, TypeOK, Begun, Executing
    <3>. QED
      BY <2>1, <3>1 DEF Decided, Ended
  <2>. QED
    BY <2>2, <2>3
<1>4. CASE CompleteCommit(t)
  <2>1. UNCHANGED <<call, approval>> /\ PendingOf(u)' = PendingOf(u)
    BY <1>4 DEF CompleteCommit, PendingOf, CallsOf
  <2>2. CASE u # t \/ status[t] # "committing"
    <3>1. status[t] \in Kept
      BY <1>4 DEF CompleteCommit, IInv, Safe, Answered
    <3>2. status'[u] = status[u] /\ checkpoint'[u] = checkpoint[u]
      BY <1>4, <2>2, <3>1 DEF CompleteCommit, TypeOK, Kept
    <3>. QED
      BY <1>0, <1>1, <2>1, <3>2 DEF Plain
  <2>3. CASE u = t /\ status[t] = "committing"
    <3>1. status'[u] = "committed" /\ checkpoint'[u] = NoCheckpoint /\ Begun(u)'
      BY <1>4, <2>3 DEF CompleteCommit, TypeOK, Begun, Ended
    <3>2. PendingOf(u) = {}
      BY <2>3 DEF Decided
    <3>. QED
      BY <2>1, <3>1, <3>2 DEF Decided, NoCheckpoint
  <2>. QED
    BY <2>2, <2>3
<1>. QED
  BY <1>2, <1>3, <1>4

LEMMA DecidedKept == ASSUME Good, [Next]_vars, NEW u \in Turn PROVE Decided(u)'
<1>. /\ IInv /\ TypeOK /\ Decided(u) /\ checkpoint[u].pending \subseteq CallsOf(u)
  BY DEF Good, IInv, Named
<1>0. ASSUME Plain(u) PROVE Decided(u)'
  BY <1>0, PlainDecided
<1>1. CASE Silent
  BY <1>0, <1>1 DEF Silent, Plain
<1>2. ASSUME NEW c \in Client, Admit(c) PROVE Decided(u)'
  <2>1. UNCHANGED <<checkpoint, generation, call, approval>>
    BY <1>2 DEF Admit
  <2>2. CASE status'[u] = status[u]
    BY <1>0, <2>1, <2>2 DEF Plain
  <2>3. CASE status'[u] # status[u]
    <3>1. status[u] = "absent" /\ status'[u] = "accepted" /\ ~Begun(u)
      BY <1>2, <2>3 DEF Admit, TypeOK, Begun, Executing, Ended
    <3>2. PendingOf(u) = {} /\ checkpoint[u].pending = {} /\ generation[u] = 0
      BY <3>1 DEF Decided
    <3>3. PendingOf(u)' = PendingOf(u)
      BY <2>1 DEF PendingOf, CallsOf
    <3>. QED
      BY <2>1, <3>1, <3>2, <3>3 DEF Decided, Ended
  <2>. QED
    BY <2>2, <2>3
<1>3. ASSUME NEW K \in SUBSET (Slot \ Busy), NEW seat \in [K -> Runnable], Claim(seat)
      PROVE  Decided(u)'
  <2>1. UNCHANGED <<checkpoint, call, approval>>
    BY <1>3, Claimed
  <2>2. \/ status'[u] = "running"
        \/ status'[u] = status[u] /\ generation'[u] = generation[u]
    BY <1>3, Claimed
  <2>. QED
    BY <1>0, <2>1, <2>2 DEF Plain
<1>4. CASE Restart
  <2>1. UNCHANGED generation
    BY <1>4 DEF Restart
  <2>. QED
    BY <1>0, <1>4, <2>1, RestartRows DEF Plain
<1>5. ASSUME NEW k \in Slot, AdmitDirect(k) PROVE Decided(u)'
  <2>1. UNCHANGED <<checkpoint, call, approval>>
    BY <1>5 DEF AdmitDirect
  <2>2. \/ status'[u] = "running"
        \/ status'[u] = status[u] /\ generation'[u] = generation[u]
    BY <1>5, JobTurn DEF AdmitDirect, At, TypeOK
  <2>. QED
    BY <1>0, <2>1, <2>2 DEF Plain
<1>6. ASSUME NEW k \in Slot, IncludeInputs(k) PROVE Decided(u)'
  BY <1>0, <1>6 DEF IncludeInputs, Plain
<1>7. ASSUME NEW k \in Slot, FinishWrite(k) PROVE Decided(u)'
  <2>1. worker[k].turn \in Turn /\ UNCHANGED generation
    BY <1>7, JobTurn DEF FinishWrite, At
  <2>. QED
    BY <1>0, <1>7, <2>1, FinishPlain DEF FinishWrite
<1>. QED
  BY <1>1, <1>2, <1>3, <1>4, <1>5, <1>6, <1>7, SilentOrTelling, ParkDecided, UserDecided,
     ToolDecided, CommitDecided DEF Telling, Dispatch

\* The receipts.
Grows(t) ==
    /\ inputs'[t].included = inputs[t].included
    /\ inputs[t].included <= inputs'[t].claimed /\ inputs'[t].claimed <= inputs'[t].received

LEMMA InputNats ==
    ASSUME TypeOK, NEW t \in Turn
    PROVE  /\ inputs[t].included \in Nat /\ inputs[t].claimed \in Nat
           /\ inputs[t].received \in Nat /\ run[t].read \in Nat /\ checkpoint[t].read \in Nat
BY DEF TypeOK, Input, Run, Checkpoint

LEMMA Reading ==
    ASSUME TypeOK, NEW t \in Turn, NEW read \in Nat, inputs' = Included(t, read)
    PROVE  /\ inputs'[t].included = IF read > inputs[t].included THEN read ELSE inputs[t].included
           /\ inputs'[t].claimed = inputs[t].claimed /\ inputs'[t].received = inputs[t].received
           /\ \A u \in Turn : u # t => inputs'[u] = inputs[u]
BY DEF TypeOK, Input, Included

LEMMA Growing ==
    ASSUME Good, [Next]_vars, NEW u \in Turn,
           \A k \in Slot : PersistEvent(k) \/ IncludeInputs(k) => worker[k].turn # u
    PROVE  Grows(u)
<1>. IInv /\ TypeOK /\ Receipted(u)
  BY DEF Good, IInv
<1>1. CASE inputs'[u] = inputs[u]
  BY <1>1 DEF Grows, Receipted
<1>2. ASSUME NEW K \in SUBSET (Slot \ Busy), NEW seat \in [K -> Runnable], Claim(seat)
      PROVE  Grows(u)
  <2>1. \/ inputs'[u] = [inputs[u] EXCEPT !.claimed = inputs[u].received]
        \/ inputs'[u] = inputs[u]
    BY <1>2 DEF Claim
  <2>2. inputs[u] \in Input
    BY DEF TypeOK
  <2>. QED
    BY <1>1, <2>1, <2>2, InputNats DEF Grows, Receipted, Input
<1>3. ASSUME NEW t \in Turn, AppendInput(t) PROVE Grows(u)
  <2>1. inputs' = [inputs EXCEPT ![t].received = @ + 1]
    BY <1>3 DEF AppendInput
  <2>2. inputs[u] \in Input
    BY DEF TypeOK
  <2>3. /\ inputs'[u].included = inputs[u].included /\ inputs'[u].claimed = inputs[u].claimed
        /\ inputs'[u].received \in {inputs[u].received, inputs[u].received + 1}
    BY <2>1, <2>2 DEF TypeOK, Input
  <2>. QED
    BY <2>3, InputNats DEF Grows, Receipted
<1>4. ASSUME NEW k \in Slot, PersistEvent(k) PROVE Grows(u)
  <2>. PICK t : t = worker[k].turn
    OBVIOUS
  <2>1. /\ t \in Turn /\ t # u /\ worker[k] \in Job
        /\ inputs' = inputs \/ inputs' = Included(t, worker[k].read)
    BY <1>4, ParkedRows, JobTurn DEF Employed
  <2>. QED
    BY <1>1, <2>1, Reading DEF Job
<1>5. ASSUME NEW k \in Slot, IncludeInputs(k) PROVE Grows(u)
  <2>. PICK t : t = worker[k].turn
    OBVIOUS
  <2>1. t \in Turn /\ t # u /\ (inputs' = inputs \/ inputs' = Included(t, run[t].read))
    BY <1>5, JobTurn DEF IncludeInputs, At
  <2>. QED
    BY <1>1, <2>1, Reading, InputNats
<1>6. CASE UNCHANGED inputs
  BY <1>1, <1>6
<1>. QED
  BY <1>2, <1>3, <1>4, <1>5, <1>6, SilentOrTelling
  DEF Silent, Telling, Admit, Dispatch, Restart, AdmitDirect, FinishWrite, BeginCommit,
      SaveFails, CompleteCommit, Pause, Resume, CancelTurn, Tool, BeginCall, StartCall,
      CancelCall, EndCall, Resolve

LEMMA ReceiptedKept == ASSUME Good, TypeOK', [Next]_vars, NEW u \in Turn PROVE Receipted(u)'
<1>. IInv /\ TypeOK /\ Receipted(u) /\ Current /\ Replied
  BY DEF Good, IInv
<1>1. ASSUME NEW k \in Slot, StartRun(k) PROVE Receipted(u)'
  <2>. PICK t : t = worker[k].turn
    OBVIOUS
  <2>1. k \in Employed /\ t \in Turn /\ worker[k].pc = "ready"
    BY <1>1, JobTurn DEF StartRun, At, Employed
  <2>2. UNCHANGED <<inputs, status, checkpoint>> /\ (Begun(u)' <=> Begun(u))
    BY <1>1 DEF StartRun, Begun
  <2>3. run'[t].read = checkpoint[t].read /\ \A v \in Turn : v # t => run'[v] = run[v]
    BY <1>1, <2>1 DEF StartRun, TypeOK, NoRun
  <2>4. status[t] \notin Ended => checkpoint[t].read = inputs[t].included
    BY <2>1 DEF Good, Reports, Starting
  <2>. QED
    BY <2>1, <2>2, <2>3, <2>4, InputNats DEF Receipted, Live
<1>2. ASSUME NEW k \in Slot, IncludeInputs(k), worker[k].turn = u PROVE Receipted(u)'
  <2>1. UNCHANGED <<status, checkpoint, run>> /\ Begun(u)'
    BY <1>2 DEF IncludeInputs, Begun, IInv, Safe, Owned
  <2>2. \/ inputs' = inputs
        \/ inputs' = Included(u, run[u].read) /\ run[u].read <= inputs[u].claimed
    BY <1>2 DEF IncludeInputs, TakesReceipt
  <2>3. /\ inputs'[u].included <= inputs'[u].claimed /\ inputs'[u].claimed <= inputs'[u].received
        /\ inputs'[u].included \in {inputs[u].included, run[u].read}
    BY <2>2, Reading, InputNats DEF Receipted
  <2>. QED
    BY <2>1, <2>3, InputNats DEF Receipted, Live
<1>3. ASSUME NEW k \in Slot, PersistEvent(k), worker[k].turn = u PROVE Receipted(u)'
  <2>1. k \in Employed /\ worker[k].pc = "event" /\ worker[k].read \in Nat /\ UNCHANGED <<commit, run>>
    BY <1>3, ParkedRows, JobTurn DEF Employed, Job
  <2>2. CASE /\ worker[k].event \in Parking
             /\ SavesCheckpoint(u, generation[u], worker[k].event, worker[k].pending)
             /\ worker[k].read <= inputs[u].claimed
             /\ checkpoint'[u].read = worker[k].read
             /\ inputs' = Included(u, worker[k].read)
    <3>1. ~Live(u)'
      BY <1>3, <2>1, <2>2 DEF IInv, Safe, JobsOwn, JobOwns, Live
    <3>2. status[u] \notin Ended
      BY <2>2 DEF SavesCheckpoint, Parking, Ended
    <3>3. inputs[u].included <= worker[k].read
      BY <1>3, <2>1, <2>2, <3>2 DEF Good, Reports
    <3>4. /\ inputs'[u].included = worker[k].read
          /\ inputs'[u].claimed = inputs[u].claimed /\ inputs'[u].received = inputs[u].received
      BY <2>1, <2>2, <3>3, Reading, InputNats
    <3>. QED
      BY <2>2, <3>1, <3>4 DEF Receipted
  <2>3. CASE Finish(u, "failed") /\ UNCHANGED inputs
    <3>1. \/ status'[u] = status[u] /\ checkpoint'[u] = checkpoint[u]
          \/ status'[u] \in Ended
      BY <2>3, FinishRows DEF Ended
    <3>. QED
      BY <2>1, <2>3, <3>1 DEF Receipted, Live, Begun
  <2>4. CASE UNCHANGED <<status, checkpoint, inputs>>
    BY <2>1, <2>4 DEF Receipted, Live, Begun
  <2>5. CASE /\ UNCHANGED <<status, checkpoint>> /\ worker[k].event = "committed"
             /\ worker[k].read <= inputs[u].claimed /\ inputs' = Included(u, worker[k].read)
    <3>1. status'[u] \in Ended
      BY <1>3, <2>1, <2>5 DEF Replied, Ended
    <3>2. inputs'[u].included <= inputs'[u].claimed /\ inputs'[u].claimed <= inputs'[u].received
      BY <2>1, <2>5, Reading, InputNats DEF Receipted
    <3>. QED
      BY <3>1, <3>2 DEF Receipted, Begun
  <2>. QED
    BY <1>3, <2>2, <2>3, <2>4, <2>5, ParkedRows
<1>4. ASSUME \A k \in Slot : ~StartRun(k),
             \A k \in Slot : PersistEvent(k) \/ IncludeInputs(k) => worker[k].turn # u
      PROVE  Receipted(u)'
  <2>1. Grows(u)
    BY <1>4, Growing
  <2>2. \/ checkpoint'[u] = checkpoint[u] \/ status'[u] \in Ended
    BY <1>4, Checkpoints
  <2>3. Begun(u) => Begun(u)'
    BY <1>4, BegunLasts
  <2>4. status[u] \in Ended => status'[u] \in Ended
    BY EndedLasts
  <2>5. Live(u)' => Live(u) /\ run[u].read <= run'[u].read
    BY <1>4, Runs DEF Live
  <2>6. /\ inputs'[u].included \in Nat /\ inputs[u].included \in Nat
        /\ run[u].read \in Nat /\ run'[u].read \in Nat
    BY DEF TypeOK, Input, Run
  <2>. QED
    BY <2>1, <2>2, <2>3, <2>4, <2>5, <2>6 DEF Receipted, Grows, Begun
<1>. QED
  BY <1>1, <1>2, <1>3, <1>4

LEMMA ReportsKept == ASSUME Good, TypeOK', [Next]_vars, NEW k \in Employed' PROVE Reports(k)'
<1>. IInv /\ TypeOK /\ Current /\ Replied
  BY DEF Good, IInv
<1>1. ASSUME Stays(k) PROVE Reports(k)'
  <2>. PICK t : t = worker[k].turn
    OBVIOUS
  <2>1. k \in Employed /\ t \in Turn /\ worker'[k].turn = t /\ Reports(k)
    BY <1>1, JobTurn DEF Stays, Employed, Good
  <2>2. CASE worker'[k].pc \notin Starting \cup {"event"} \/ status'[t] \in Ended
    BY <2>1, <2>2 DEF Reports
  <2>3. CASE worker'[k].pc \in Starting \cup {"event"} /\ status'[t] \notin Ended
    <3>1. status[t] \notin Ended
      BY <2>1, <2>3, EndedLasts
    <3>2. ASSUME NEW j \in Slot, PersistEvent(j) \/ IncludeInputs(j), worker[j].turn = t
          PROVE  FALSE
      <4>1. j \in Employed /\ worker[j] \in Job
        BY <3>2, JobTurn DEF PersistEvent, IncludeInputs, At, Employed
      <4>2. j = k
        BY <2>1, <3>2, <4>1 DEF IInv, Safe, OneJob
      <4>3. CASE IncludeInputs(j)
        BY <1>1, <2>3, <4>2, <4>3 DEF IncludeInputs, At, Stays, Starting
      <4>4. CASE PersistEvent(j)
        <5>1. worker[k].pc = "event" /\ worker'[k] = [worker[k] EXCEPT !.pc = "ended"]
          BY <4>2, <4>4 DEF PersistEvent, At, Move, TypeOK
        <5>2. worker'[k].pc = "ended"
          BY <4>1, <4>2, <5>1 DEF Job
        <5>. QED
          BY <2>3, <5>2 DEF Starting
      <4>. QED
        BY <3>2, <4>3, <4>4
    <3>3. inputs'[t].included = inputs[t].included
      BY <2>1, <3>2, Growing DEF Grows
    <3>4. checkpoint'[t] = checkpoint[t]
      BY <2>1, <2>3, <3>2, Checkpoints
    <3>. QED
      BY <1>1, <2>1, <3>1, <3>3, <3>4 DEF Reports, Stays
  <2>. QED
    BY <2>2, <2>3
<1>2. ASSUME NEW K \in SUBSET (Slot \ Busy), NEW seat \in [K -> Runnable], Claim(seat), k \in K
      PROVE  Reports(k)'
  <2>1. /\ worker'[k].turn = seat[k] /\ worker'[k].pc = "claimed" /\ seat[k] \in Turn
        /\ status[seat[k]] = "accepted"
    BY <1>2, Claimed
  <2>2. checkpoint[seat[k]].read = inputs[seat[k]].included
    BY <2>1 DEF Good, Receipted, Begun, Executing, Ended
  <2>3. UNCHANGED checkpoint /\ inputs'[seat[k]].included = inputs[seat[k]].included
    BY <1>2, <2>1 DEF Claim, TypeOK, Input
  <2>. QED
    BY <2>1, <2>2, <2>3 DEF Reports
<1>3. ASSUME NEW j \in Slot, AdmitDirect(j), ~Stays(k) PROVE Reports(k)'
  <2>. PICK t : t = worker[j].turn
    OBVIOUS
  <2>1. /\ j = k /\ t \in Turn /\ status[t] = "absent" /\ worker'[k].turn = t
        /\ worker'[k].pc = "claimed" /\ UNCHANGED <<checkpoint, inputs>>
    BY <1>3, Admitted
  <2>2. checkpoint[t].read = inputs[t].included
    BY <2>1 DEF Good, Receipted, Begun, Executing, Ended
  <2>. QED
    BY <2>1, <2>2 DEF Reports
<1>4. ASSUME NEW j \in Slot, NEW event \in Final, RunEnds(j, event), ~Stays(k) PROVE Reports(k)'
  <2>. PICK t : t = worker[j].turn
    OBVIOUS
  <2>1. /\ j = k /\ t \in Turn /\ k \in Employed /\ run[t].generation = worker[k].generation
        /\ UNCHANGED <<status, inputs>> /\ worker'[k].turn = t /\ worker'[k].pc = "event"
        /\ worker'[k].read = run[t].read
    BY <1>4, Ending
  <2>2. Live(t)
    BY <2>1 DEF Current, Live
  <2>3. status[t] \notin Ended => inputs[t].included <= run[t].read
    BY <2>1, <2>2 DEF Good, Receipted
  <2>. QED
    BY <2>1, <2>3 DEF Reports, Starting
<1>5. ASSUME NEW K \in SUBSET (Slot \ Busy), NEW seat \in [K -> Runnable], Claim(seat), k \notin K
      PROVE  Stays(k)
  BY <1>5, Claimed
<1>. QED
  BY <1>1, <1>2, <1>3, <1>4, <1>5, Staying DEF Dispatch

-----------------------------------------------------------------------------
LEMMA GoodKept == Good /\ [Next]_vars => Good'
<1>. SUFFICES ASSUME Good, [Next]_vars PROVE Good'
  OBVIOUS
<1>1. IInv' /\ TypeOK'
  BY TypeStep, SafeStep DEF Good, IInv
<1>. QED
  BY <1>1, CurrentKept, RepliedKept, NamedKept, ReceiptedKept, HaltedKept, DecidedKept,
     ReportsKept DEF Good

\* The inductive invariant: the queue's exclusion, and what workers, runs and rows
\* know of one another through claims, pauses, inputs, approvals and endings.
THEOREM GoodAlways == Spec => []Good
BY InitGood, GoodKept, PTL DEF Spec

\* A run and a commit request live only while their turn executes or after it has
\* ended, and a run is of the current dispatch, for any number of dispatches.
THEOREM RunOwnsTurnAlways == Spec => []RunOwnsTurn
<1>1. Good => RunOwnsTurn
  BY DEF Good, IInv, Safe, Owned, Begun, Current, RunOwnsTurn
<1>. QED
  BY <1>1, GoodAlways, PTL

\* A turn has one worker, of its current dispatch, which asks for a run only when
\* the sidecar has none.
THEOREM OneWorkerAlways == Spec => []OneWorkerPerTurn
<1>1. Good => OneWorkerPerTurn
  BY DEF Good, IInv, Safe, OneJob, Employed, Current, Starting, At, OneWorkerPerTurn
<1>. QED
  BY <1>1, GoodAlways, PTL

\* No wake-up is lost: a waiting turn has a decision to wait for, a queued one none.
THEOREM WaitsForDecisionAlways == Spec => []WaitsForDecision
<1>1. ASSUME Good PROVE WaitsForDecision
  <2>. SUFFICES ASSUME NEW t \in Turn
                PROVE  /\ status[t] = "waiting_approval" => PendingOf(t) # {} /\ checkpoint[t].saved
                       /\ status[t] = "accepted" => PendingOf(t) = {}
    BY DEF WaitsForDecision
  <2>1. Decided(t) /\ (status[t] = "waiting_approval" => ~Begun(t))
    BY <1>1 DEF Good, Begun, Executing, Ended
  <2>. QED
    BY <2>1 DEF Decided
<1>. QED
  BY <1>1, GoodAlways, PTL

\* A parked turn can be resumed: its checkpoint names what it waits for, and nothing
\* that is past a decision.
THEOREM ResumableAlways == Spec => []Resumable
<1>1. Good => Resumable
  BY DEF Good, Decided, Begun, Parked, Executing, Ended, Resumable
<1>. QED
  BY <1>1, GoodAlways, PTL

\* Whichever way a turn ends, no checkpoint and no decision is left of it.
THEOREM EndedHoldsNothingAlways == Spec => []EndedHoldsNothing
<1>1. ASSUME Good PROVE EndedHoldsNothing
  BY <1>1 DEF Good, Decided, Ended, EndedHoldsNothing
<1>. QED
  BY <1>1, GoodAlways, PTL

\* Approvals asked for before an input are not acted on before the user resumes.
THEOREM OldApprovalsAlways == Spec => []OldApprovalsHeld
<1>1. Good => OldApprovalsHeld
  BY DEF Good, Halted, OldApprovalsHeld
<1>. QED
  BY <1>1, GoodAlways, PTL

\* A user's pause stands until he resumes the turn or it ends, whatever approvals,
\* inputs and late checkpoints arrive.
THEOREM ManualPauseAlways == Spec => []ManualPauseHolds
<1>1. Good => ManualPauseHolds
  BY DEF Good, Halted, ManualPauseHolds
<1>. QED
  BY <1>1, GoodAlways, PTL

\* No input is receipted that the model has not been given, and a parked turn's
\* checkpoint holds exactly the inputs receipted.
THEOREM ReceiptsAlways == Spec => []ReceiptsAreRead
<1>1. ASSUME Good PROVE ReceiptsAreRead
  BY <1>1 DEF Good, Receipted, Begun, Parked, Executing, Ended, ReceiptsAreRead
<1>. QED
  BY <1>1, GoodAlways, PTL
=============================================================================
