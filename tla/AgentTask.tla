------------------------------ MODULE AgentTask ------------------------------
(***************************************************************************)
(* A background Agent task: work that the Store hands out under leases to  *)
(* workers of the sidecar, which may stop, answer late, or stop at an      *)
(* approval and go on later.                                               *)
(*                                                                         *)
(* The Store's side is runtime/agent_task, agent_task_checkpoint,          *)
(* agent_task_control and agent_task_input; the worker's side is the       *)
(* sidecar's background_worker.  A worker's command is a request: it reads *)
(* the Store's clock when it arrives, then waits for the one connection,   *)
(* and its worker may have given it up by the time it is served.           *)
(*                                                                         *)
(* Time is kept by counting down: a lease is the time it has left, a       *)
(* request's age the time since it read the clock, so that the code's      *)
(* LeaseUntil.After(now) reads lease + age > 0.  The tool calls modelled   *)
(* are platform tools; the order in which queued tasks are taken is left   *)
(* out.                                                                    *)
(***************************************************************************)
EXTENDS Integers, FiniteSets

CONSTANTS
    Task, Worker,
    Call, TaskOf,     \* the tool calls the model may make, and for which task
    Writes,           \* the calls whose access mode is not "read"
    Lease,            \* the length of a lease, in ticks
    MaxWait,          \* bound on the ticks a request waits for the connection
    MaxAttempts,      \* max_attempts of a new task
    MaxEvents         \* bound on users' commands, lost answers, crashes and
                      \* damaged checkpoints together

ASSUME CallAssumption == TaskOf \in [Call -> Task]
ASSUME ToolAssumption == Writes \subseteq Call
ASSUME TimeAssumption == Lease \in Nat /\ MaxWait \in Nat
ASSUME BoundAssumption == MaxAttempts \in Nat \ {0} /\ MaxEvents \in Nat
ASSUME NameAssumption == "gone" \notin Worker /\ "none" \notin Task

VARIABLES
    \* Rows of the Store.
    status, attempts, limit, inputPause, attempt, checkpoint, granted, results,
    call, caller, started, deleted,
    \* Requests the Store has received and not served; memory of the workers.
    requests, worker,
    \* How much of the bound on events has been used.
    events,
    \* History: an input that no claim or resumption has followed; the user's
    \* pause; the attempts that saved a checkpoint; the attempts the user had
    \* behind him when he last asked for a retry.
    unread, held, saved, retried

callVars  == <<call, caller, started>>
history   == <<unread, held, saved, retried>>
taskVars  == <<status, attempts, limit, inputPause, attempt, checkpoint, granted,
               results>>
vars == <<taskVars, callVars, deleted, requests, worker, events, history>>

-----------------------------------------------------------------------------
Active == {"running", "pausing"}
Parked == {"waiting_approval", "paused"}
Ended  == {"completed", "failed", "cancelled"}
Status == {"absent", "queued"} \cup Active \cup Parked \cup Ended

AttemptNo == 1 .. (MaxAttempts + MaxEvents)
\* A "corrupt" attempt failed with the code AGENT_RUN_STATE_CORRUPT.
AttemptStatus == {"absent", "running"} \cup Parked \cup
                 {"completed", "failed", "corrupt", "expired", "cancelled"}
NoAttempt == [status |-> "absent", token |-> 0, lease |-> 0]
Attempt   == [status : AttemptStatus, token : Nat, lease : Int]

Open       == {"pending_approval", "approved", "running"}
CallStatus == Open \cup {"absent", "rejected", "completed", "failed", "cancelled"}
CallsOf(t) == {c \in Call : TaskOf[c] = t}
\* The calls bound to attempt n of t.
Bound(t, n) == {c \in CallsOf(t) : caller[c] = n}

NoCheckpoint == [saved |-> FALSE, attempt |-> 0, pending |-> {}, intact |-> TRUE]
Checkpoint   == [saved : BOOLEAN, attempt : Nat, pending : SUBSET Call,
                 intact : BOOLEAN]

\* What a worker is given: an attempt at a task, and its token.
NoClaim == [task |-> "none", attempt |-> 0, token |-> 0]
Claimed == {NoClaim} \cup [task : Task, attempt : AttemptNo, token : Nat]
Op      == {"claim", "progress", "complete", "park", "fail"}
Kind    == {"none", "approval", "user", "recovery", "retryable", "final"}
Request == [from : Worker \cup {"gone"}, op : Op, kind : Kind,
            claim : Claimed, pending : SUBSET Call, age : Nat]

Pc     == {"idle", "claiming", "working", "completing", "parking", "broken",
           "failing"}
Idle   == [pc |-> "idle", claim |-> NoClaim, asked |-> {}, seen |-> FALSE]
Memory == [pc : Pc, claim : Claimed, asked : SUBSET Call,
           seen : BOOLEAN]

TypeOK ==
    /\ status \in [Task -> Status]
    /\ attempts \in [Task -> Nat] /\ limit \in [Task -> Nat]
    /\ \A t \in Task : attempts[t] <= limit[t]
    /\ inputPause \in [Task -> BOOLEAN]
    /\ attempt \in [Task -> [AttemptNo -> Attempt]]
    /\ checkpoint \in [Task -> Checkpoint]
    /\ granted \in [Task -> Nat]
    /\ results \in [Task -> SUBSET Nat]
    /\ call \in [Call -> CallStatus]
    /\ caller \in [Call -> Nat]
    /\ started \subseteq Call
    /\ deleted \in BOOLEAN
    /\ requests \subseteq Request
    /\ worker \in [Worker -> Memory]
    /\ events \in Nat
    /\ unread \in [Task -> BOOLEAN]
    /\ held \in [Task -> BOOLEAN]
    /\ saved \subseteq Task \X Nat
    /\ retried \in [Task -> Nat]

Init ==
    /\ status = [t \in Task |-> "absent"]
    /\ attempts = [t \in Task |-> 0]
    /\ limit = [t \in Task |-> MaxAttempts]
    /\ inputPause = [t \in Task |-> FALSE]
    /\ attempt = [t \in Task |-> [n \in AttemptNo |-> NoAttempt]]
    /\ checkpoint = [t \in Task |-> NoCheckpoint]
    /\ granted = [t \in Task |-> 0]
    /\ results = [t \in Task |-> {}]
    /\ call = [c \in Call |-> "absent"]
    /\ caller = [c \in Call |-> 0]
    /\ started = {}
    /\ deleted = FALSE
    /\ requests = {}
    /\ worker = [w \in Worker |-> Idle]
    /\ events = 0
    /\ unread = [t \in Task |-> FALSE]
    /\ held = [t \in Task |-> FALSE]
    /\ saved = {}
    /\ retried = [t \in Task |-> 0]

-----------------------------------------------------------------------------
(* Operators of the Store.  Definitions named Name_... are Name with a bug, *)
(* to test the properties.                                                 *)

Holds_AnyToken(k, age) ==
    LET a == attempt[k.task][k.attempt]
    IN ~deleted /\ a.status = "running" /\ status[k.task] \in Active /\ a.lease + age > 0
Holds_AnyAttempt(k, age) ==
    LET a == attempt[k.task][k.attempt]
    IN ~deleted /\ a.token = k.token /\ status[k.task] \in Active
\* The claim k still holds its task, by a clock read age ticks ago.
Holds(k, age) ==
    LET a == attempt[k.task][k.attempt]
    IN /\ ~deleted
       /\ a.token = k.token
       /\ a.status = "running" /\ status[k.task] \in Active
       /\ a.lease + age > 0

Risk_OnlyWrites(t, n) ==
    \E c \in Bound(t, n) : c \in Writes \cap started
\* Repeating the work of attempt n could repeat something that happened.
Risk(t, n) ==
    \/ checkpoint[t].saved
    \/ \E c \in Bound(t, n) : c \in Writes \cap started

RetryRisk_OnlyCheckpoint(t) == checkpoint[t].saved
RetryRisk(t) ==
    \/ checkpoint[t].saved
    \/ \E c \in CallsOf(t) : c \in Writes \cap started
    \/ \E n \in AttemptNo : attempt[t][n].status = "corrupt"

Expired_OnlyRunning(t, age) ==
    {n \in AttemptNo : /\ attempt[t][n].status = "running" /\ status[t] = "running"
                       /\ attempt[t][n].lease + age <= 0}
\* The attempts of t whose lease is over, by a clock read age ticks ago.
Expired(t, age) ==
    {n \in AttemptNo : /\ attempt[t][n].status = "running"
                       /\ status[t] \in Active
                       /\ attempt[t][n].lease + age <= 0}
\* An expired task is not given out again.
Lost_NotPausing(t, age) ==
    \E n \in Expired(t, age) : attempts[t] >= limit[t] \/ Risk(t, n)
Lost(t, age) ==
    \E n \in Expired(t, age) :
        attempts[t] >= limit[t] \/ Risk(t, n) \/ status[t] = "pausing"

\* An attempt comes to a stop and lets go of its lease.
Close(a, s) == [status |-> s, token |-> a.token, lease |-> 0]

CallsWithout(T) ==
    [c \in Call |-> IF TaskOf[c] \in T /\ call[c] \in Open THEN "cancelled" ELSE call[c]]
CancelTools_KeepsOpen(T) == call' = call
CancelTools(T) == call' = CallsWithout(T)

\* The rows once the claim has requeued or failed what expired.
Overdue(age) == {t \in Task : Expired(t, age) # {}}
StatusThen(age) ==
    [t \in Task |-> IF t \notin Overdue(age) THEN status[t]
                    ELSE IF Lost(t, age) THEN "failed" ELSE "queued"]
AttemptThen(age) ==
    [t \in Task |-> [n \in AttemptNo |->
        IF n \in Expired(t, age)
        THEN Close(attempt[t][n], "expired")
        ELSE attempt[t][n]]]
CheckpointThen_KeepsIt(age) == checkpoint
CheckpointThen(age) ==
    [t \in Task |-> IF t \in Overdue(age) THEN NoCheckpoint ELSE checkpoint[t]]

-----------------------------------------------------------------------------
(* Users.                                                                  *)

Event == events < MaxEvents /\ events' = events + 1

\* StartAgentTask: a proposed action is confirmed; confirming it again
\* returns the same task.
Start(t) ==
    /\ ~deleted /\ status[t] = "absent"
    /\ status' = [status EXCEPT ![t] = "queued"]
    /\ UNCHANGED <<attempts, limit, inputPause, attempt, checkpoint, granted, results,
                   callVars, deleted, requests, worker, events, history>>

Pause(t) ==
    /\ ~deleted /\ Event
    /\ \/ /\ status[t] = "running" \/ (status[t] = "pausing" /\ inputPause[t])
          /\ status' = [status EXCEPT ![t] = "pausing"]
       \/ /\ status[t] \in {"queued", "waiting_approval"}
          /\ status' = [status EXCEPT ![t] = "paused"]
    /\ inputPause' = [inputPause EXCEPT ![t] = FALSE]
    /\ held' = [held EXCEPT ![t] = TRUE]
    /\ UNCHANGED <<attempts, limit, attempt, checkpoint, granted, results, callVars,
                   deleted, requests, worker, unread, saved, retried>>

\* The paused task may go on: from its checkpoint, or from nothing.
CanResume(t) ==
    IF checkpoint[t].saved
    THEN /\ checkpoint[t].intact
         /\ attempt[t][checkpoint[t].attempt].status \in Parked
         /\ \A c \in checkpoint[t].pending :
                call[c] \in {"pending_approval", "approved", "rejected"}
    ELSE \A n \in AttemptNo : attempt[t][n].status \notin Parked \cup {"running"}

Resume_NeverWaits(t) == status' = [status EXCEPT ![t] = "queued"]
ResumeStatus(t) ==
    status' = [status EXCEPT ![t] =
        IF \E c \in checkpoint[t].pending : call[c] = "pending_approval"
        THEN "waiting_approval" ELSE "queued"]
Resume(t) ==
    /\ ~deleted /\ Event
    /\ status[t] = "paused" /\ CanResume(t)
    /\ ResumeStatus(t)
    /\ inputPause' = [inputPause EXCEPT ![t] = FALSE]
    /\ held' = [held EXCEPT ![t] = FALSE]
    /\ unread' = [unread EXCEPT ![t] = FALSE]
    /\ UNCHANGED <<attempts, limit, attempt, checkpoint, granted, results, callVars,
                   deleted, requests, worker, saved, retried>>

Live == {"running"} \cup Parked
CloseAttempts(t, s) ==
    attempt' = [attempt EXCEPT ![t] = [n \in AttemptNo |->
        IF attempt[t][n].status \in Live
        THEN Close(attempt[t][n], s)
        ELSE attempt[t][n]]]

Cancel(t) ==
    /\ ~deleted /\ Event
    /\ status[t] \notin {"absent", "completed", "cancelled"}
    /\ CloseAttempts(t, "cancelled")
    /\ status' = [status EXCEPT ![t] = "cancelled"]
    /\ CancelTools({t})
    /\ checkpoint' = [checkpoint EXCEPT ![t] = NoCheckpoint]
    /\ UNCHANGED <<attempts, limit, inputPause, granted, results, caller, started, deleted,
                   requests, worker, history>>

RaiseLimit_Never(t) == limit' = limit
RaiseLimit(t) ==
    limit' = [limit EXCEPT ![t] = IF @ <= attempts[t] THEN attempts[t] + 1 ELSE @]
Retry(t) ==
    /\ ~deleted /\ Event
    /\ status[t] \in {"failed", "cancelled"} /\ ~RetryRisk(t)
    /\ CancelTools({t})
    /\ checkpoint' = [checkpoint EXCEPT ![t] = NoCheckpoint]
    /\ RaiseLimit(t)
    /\ status' = [status EXCEPT ![t] = "queued"]
    /\ held' = [held EXCEPT ![t] = FALSE]
    /\ retried' = [retried EXCEPT ![t] = attempts[t]]
    /\ UNCHANGED <<attempts, inputPause, attempt, granted, results, caller, started,
                   deleted, requests, worker, unread, saved>>

InputStatus_KeepsWaiting(t) ==
    status' = [status EXCEPT ![t] = IF @ = "running" THEN "pausing" ELSE @]
InputStatus_OnlyWaiting(t) ==
    status' = [status EXCEPT ![t] =
        CASE @ = "running" -> "pausing"
          [] @ = "waiting_approval" -> "paused"
          [] OTHER -> @]
\* A new instruction never silently approves an old pending tool.
InputStatus(t) ==
    status' = [status EXCEPT ![t] =
        CASE @ = "running" -> "pausing"
          [] \/ @ = "waiting_approval"
             \/ @ = "queued" /\ checkpoint[t].pending # {} -> "paused"
          [] OTHER -> @]
PausesForInput_Always(t) ==
    inputPause' = [inputPause EXCEPT ![t] = status[t] \in Active]
\* A pause the input asks for ends with its checkpoint; a user's pause stands.
PausesForInput(t) ==
    inputPause' = [inputPause EXCEPT ![t] =
        status[t] = "running" \/ (@ /\ status'[t] = status[t])]
AppendInput(t) ==
    /\ ~deleted /\ Event
    /\ status[t] \notin {"absent"} \cup Ended
    /\ InputStatus(t)
    /\ PausesForInput(t)
    /\ unread' = [unread EXCEPT ![t] = TRUE]
    /\ UNCHANGED <<attempts, limit, attempt, checkpoint, granted, results, callVars,
                   deleted, requests, worker, held, saved, retried>>

Wake_AnyDecision(c) ==
    status' = [status EXCEPT ![TaskOf[c]] = IF @ = "waiting_approval" THEN "queued" ELSE @]
\* resumeApprovedAgentTaskTx: the last decision wakes a waiting task.
Wake(c) ==
    LET t == TaskOf[c]
    IN status' = [status EXCEPT ![t] =
           IF /\ @ = "waiting_approval" /\ checkpoint[t].saved
              /\ \A d \in Bound(t, caller[c]) \ {c} : call[d] # "pending_approval"
           THEN "queued" ELSE @]
Resolve(c) ==
    /\ call[c] = "pending_approval"
    /\ \E decision \in {"approved", "rejected"} :
           call' = [call EXCEPT ![c] = decision]
    /\ Wake(c)
    /\ UNCHANGED <<attempts, limit, inputPause, attempt, checkpoint, granted, results,
                   caller, started, deleted, requests, worker, events, history>>

DeleteProject ==
    /\ ~deleted /\ Event
    /\ deleted' = TRUE
    /\ CancelTools({t \in Task : status[t] \notin {"completed", "cancelled"}})
    /\ attempt' = [t \in Task |-> [n \in AttemptNo |->
           IF status[t] \notin {"completed", "cancelled"} /\ attempt[t][n].status \in Live
           THEN Close(attempt[t][n], "cancelled")
           ELSE attempt[t][n]]]
    /\ status' = [t \in Task |->
           IF status[t] \in {"absent", "completed"} THEN status[t] ELSE "cancelled"]
    /\ checkpoint' = [t \in Task |-> NoCheckpoint]
    /\ UNCHANGED <<attempts, limit, inputPause, granted, results, caller, started,
                   requests, worker, history>>

-----------------------------------------------------------------------------
(* Workers.                                                                *)

Go(w, pc) == [worker EXCEPT ![w].pc = pc]
\* The requests once w no longer waits for its own.
Abandoned(w) == {IF r.from = w THEN [r EXCEPT !.from = "gone"] ELSE r : r \in requests}
Ask(w, op, kind, pending) ==
    [from |-> w, op |-> op, kind |-> kind, claim |-> worker[w].claim,
     pending |-> pending, age |-> 0]

\* run_once: ask for a task.
Poll(w) ==
    /\ worker[w].pc = "idle"
    /\ requests' = requests \cup {Ask(w, "claim", "none", {})}
    /\ worker' = Go(w, "claiming")
    /\ UNCHANGED <<taskVars, callVars, deleted, events, history>>

\* A working worker's heartbeat renews its lease, and its answer shows a pause
\* that was asked for.  (The progress reports at the start and at the end renew
\* nothing: the first shows a pause as a heartbeat does, the last only fails
\* where the result would.)
Beat(w) ==
    /\ worker[w].pc = "working"
    /\ \A r \in requests : ~(r.op = "progress" /\ r.claim = worker[w].claim)
    /\ requests' = requests \cup {Ask(w, "progress", "none", {})}
    /\ UNCHANGED <<taskVars, callVars, deleted, worker, events, history>>

Claim(w) == worker[w].claim
Owns(w, c) == worker[w].pc = "working" /\ Claim(w).task = TaskOf[c]

\* The model asks for a tool; the Store registers it for the attempt, to be
\* decided by the user or to run at once, as the tool's policy says.
BeginCall(w, c) ==
    /\ Owns(w, c) /\ call[c] = "absent" /\ Holds(Claim(w), 0)
    /\ caller' = [caller EXCEPT ![c] = Claim(w).attempt]
    /\ \/ /\ call' = [call EXCEPT ![c] = "pending_approval"]
          /\ worker' = [worker EXCEPT ![w].asked = @ \cup {c}]
          /\ UNCHANGED started
       \/ /\ call' = [call EXCEPT ![c] = "running"]
          /\ started' = started \cup {c}
          /\ UNCHANGED worker
    /\ UNCHANGED <<taskVars, deleted, requests, events, history>>

\* A resumed worker runs what was approved.
StartCall(w, c) ==
    /\ Owns(w, c) /\ call[c] = "approved" /\ c \notin worker[w].asked
    /\ caller[c] = Claim(w).attempt /\ Holds(Claim(w), 0)
    /\ call' = [call EXCEPT ![c] = "running"]
    /\ started' = started \cup {c}
    /\ UNCHANGED <<taskVars, caller, deleted, requests, worker, events, history>>

EndCall(w, c) ==
    /\ Owns(w, c) /\ call[c] = "running"
    /\ caller[c] = Claim(w).attempt /\ Holds(Claim(w), 0)
    /\ \E result \in {"completed", "failed"} : call' = [call EXCEPT ![c] = result]
    /\ UNCHANGED <<taskVars, caller, started, deleted, requests, worker, events, history>>

\* The model's turn is over: no tool it started is still to end, unless what
\* became of it can no longer be told.  An approved tool that cannot be started
\* any more does not end the turn but breaks the run.
TurnOver(w) ==
    \A c \in Bound(Claim(w).task, Claim(w).attempt) :
        /\ call[c] = "running" => ~Holds(Claim(w), 0)
        /\ call[c] = "approved" => c \in worker[w].asked

Finish(w) ==
    /\ worker[w].pc = "working" /\ worker[w].asked = {} /\ TurnOver(w)
    /\ requests' = Abandoned(w) \cup {Ask(w, "complete", "none", {})}
    /\ worker' = Go(w, "completing")
    /\ UNCHANGED <<taskVars, callVars, deleted, events, history>>

\* The run stops at an approval, at the user's pause, or at a model failure
\* that leaves a state to go on from.
Park(w) ==
    /\ worker[w].pc = "working" /\ TurnOver(w)
    /\ \E kind \in {"approval", "user", "recovery"} :
        /\ CASE kind = "approval" -> worker[w].asked # {} /\ ~worker[w].seen
             [] kind = "user"     -> worker[w].seen
             [] kind = "recovery" -> worker[w].asked = {}
        /\ requests' = Abandoned(w) \cup {Ask(w, "park", kind, worker[w].asked)}
    /\ worker' = Go(w, "parking")
    /\ UNCHANGED <<taskVars, callVars, deleted, events, history>>

\* The model or a tool fails, or run_timeout_seconds have passed.
Break(w) ==
    /\ worker[w].pc = "working"
    /\ requests' = Abandoned(w)
    /\ worker' = Go(w, "broken")
    /\ UNCHANGED <<taskVars, callVars, deleted, events, history>>
Report(w) ==
    /\ worker[w].pc = "broken"
    /\ \E kind \in {"retryable", "final"} :
           requests' = requests \cup {Ask(w, "fail", kind, {})}
    /\ worker' = Go(w, "failing")
    /\ UNCHANGED <<taskVars, callVars, deleted, events, history>>

\* An answer does not come: the request may still be served.
GiveUp(w) ==
    /\ Event
    /\ \E r \in requests : r.from = w
    /\ requests' = Abandoned(w)
    /\ worker' = IF worker[w].pc \in {"claiming", "parking", "failing"}
                 THEN [worker EXCEPT ![w] = Idle] ELSE Go(w, "broken")
    /\ UNCHANGED <<taskVars, callVars, deleted, history>>

Crash(w) ==
    /\ Event
    /\ worker[w] # Idle
    /\ requests' = Abandoned(w)
    /\ worker' = [worker EXCEPT ![w] = Idle]
    /\ UNCHANGED <<taskVars, callVars, deleted, history>>

\* A saved run state no longer matches its hash or its schema.
Damage(t) ==
    /\ Event
    /\ checkpoint[t].saved /\ checkpoint[t].intact
    /\ checkpoint' = [checkpoint EXCEPT ![t].intact = FALSE]
    /\ UNCHANGED <<status, attempts, limit, inputPause, attempt, granted, results,
                   callVars, deleted, requests, worker, history>>

-----------------------------------------------------------------------------
(* The Store serves a request.                                             *)

Tell(r, memory) == worker' = [w \in Worker |-> IF w = r.from THEN memory ELSE worker[w]]
TellPc(r, pc)   == worker' = [w \in Worker |->
                       IF w = r.from THEN [worker[w] EXCEPT !.pc = pc] ELSE worker[w]]

NoTask(r) ==
    /\ \A t \in Task : StatusThen(r.age)[t] # "queued"
    /\ status' = StatusThen(r.age)
    /\ attempt' = AttemptThen(r.age)
    /\ checkpoint' = CheckpointThen(r.age)
    /\ CancelTools(Overdue(r.age))
    /\ Tell(r, Idle)
    /\ UNCHANGED <<attempts, granted, inputPause, unread>>

Given(r, t, n) ==
    LET claim == [task |-> t, attempt |-> n, token |-> granted[t] + 1]
    IN /\ attempt' = [AttemptThen(r.age) EXCEPT ![t][n] =
              [status |-> "running", token |-> claim.token, lease |-> Lease - r.age]]
       /\ granted' = [granted EXCEPT ![t] = @ + 1]
       /\ status' = [StatusThen(r.age) EXCEPT ![t] = "running"]
       /\ unread' = [unread EXCEPT ![t] = FALSE]
       /\ Tell(r, [pc |-> "working", claim |-> claim, asked |-> {}, seen |-> FALSE])

\* A new attempt starts from nothing.
TakeFresh(r, t) ==
    /\ ~CheckpointThen(r.age)[t].saved
    /\ \A n \in AttemptNo : attempt[t][n].status \notin Parked
    /\ attempts[t] + 1 \in AttemptNo
    /\ attempts' = [attempts EXCEPT ![t] = @ + 1]
    /\ Given(r, t, attempts[t] + 1)
    /\ checkpoint' = CheckpointThen(r.age)
    /\ CancelTools(Overdue(r.age))
    /\ UNCHANGED inputPause

Whole_AnyAttempt(t) ==
    LET p == checkpoint[t]
    IN p.intact /\ p.attempt = attempts[t] /\ \A c \in p.pending : call[c] # "cancelled"
\* The checkpoint of t is whole and its approvals are decided.
Whole(t) ==
    LET p == checkpoint[t]
    IN /\ p.intact
       /\ p.attempt = attempts[t]
       /\ attempt[t][p.attempt].status \in Parked
       /\ p.pending = {} => attempt[t][p.attempt].status = "paused"
       /\ \A c \in p.pending : call[c] \in {"approved", "rejected"}
       /\ \A c \in Bound(t, p.attempt) : call[c] # "pending_approval"
\* The attempt that saved the checkpoint goes on, under a new token.
TakeSaved(r, t) ==
    /\ CheckpointThen(r.age)[t].saved /\ Whole(t)
    /\ Given(r, t, checkpoint[t].attempt)
    /\ checkpoint' = CheckpointThen(r.age)
    /\ CancelTools(Overdue(r.age))
    /\ UNCHANGED <<attempts, inputPause>>

\* failAgentTaskResumeTx: the checkpoint stays, to keep the task from being
\* done again.
TakeCorrupt(r, t) ==
    /\ IF CheckpointThen(r.age)[t].saved THEN ~Whole(t)
       ELSE \E n \in AttemptNo : attempt[t][n].status \in Parked
    /\ status' = [StatusThen(r.age) EXCEPT ![t] = "failed"]
    /\ attempt' = [AttemptThen(r.age) EXCEPT ![t] = [n \in AttemptNo |->
           IF attempt[t][n].status \in Parked
           THEN Close(attempt[t][n], "corrupt")
           ELSE AttemptThen(r.age)[t][n]]]
    /\ checkpoint' = CheckpointThen(r.age)
    /\ CancelTools(Overdue(r.age) \cup {t})
    /\ inputPause' = [inputPause EXCEPT ![t] = FALSE]
    /\ Tell(r, Idle)
    /\ UNCHANGED <<attempts, granted, unread>>

ServeClaim(r) ==
    /\ r.op = "claim"
    /\ \/ NoTask(r)
       \/ \E t \in Task :
              /\ StatusThen(r.age)[t] = "queued" /\ ~deleted
              /\ TakeFresh(r, t) \/ TakeSaved(r, t) \/ TakeCorrupt(r, t)
    /\ requests' = requests \ {r}
    /\ UNCHANGED <<limit, results, caller, started, deleted, events, held, saved, retried>>

ServeProgress(r) ==
    /\ r.op = "progress"
    /\ requests' = requests \ {r}
    /\ LET k == r.claim
       IN IF Holds(k, r.age)
          THEN /\ attempt' = [attempt EXCEPT ![k.task][k.attempt].lease = Lease - r.age]
               /\ worker' = [w \in Worker |-> IF w # r.from THEN worker[w] ELSE
                     [worker[w] EXCEPT !.seen = @ \/ status[k.task] = "pausing"]]
          ELSE TellPc(r, "broken") /\ UNCHANGED attempt
    /\ UNCHANGED <<status, attempts, limit, inputPause, checkpoint, granted, results,
                   callVars, deleted, events, history>>

ServeComplete(r) ==
    /\ r.op = "complete"
    /\ requests' = requests \ {r}
    /\ LET k == r.claim
       IN IF Holds(k, r.age)
          THEN /\ status' = [status EXCEPT ![k.task] = "completed"]
               /\ attempt' = [attempt EXCEPT ![k.task][k.attempt] = Close(@, "completed")]
               /\ checkpoint' = [checkpoint EXCEPT ![k.task] = NoCheckpoint]
               /\ results' = [results EXCEPT ![k.task] = @ \cup {k.token}]
               /\ Tell(r, Idle)
          ELSE TellPc(r, "broken") /\ UNCHANGED <<status, attempt, checkpoint, results>>
    /\ UNCHANGED <<attempts, limit, inputPause, granted, callVars, deleted, events, history>>

\* The checkpoint r describes agrees with the calls of its attempt.
Consistent_IgnoresUnlisted(r) ==
    r.kind = "user" => status[r.claim.task] = "pausing"
Consistent(r) ==
    LET k == r.claim  mine == Bound(k.task, k.attempt)
    IN /\ r.kind = "user" => status[k.task] = "pausing"
       /\ r.kind = "recovery" =>
              \A c \in mine : /\ call[c] \notin Open
                              /\ c \in Writes \cap started => call[c] = "completed"
       /\ r.pending \subseteq mine
       /\ \A c \in r.pending : call[c] \in {"pending_approval", "approved", "rejected"}
       /\ \A c \in mine : call[c] = "pending_approval" => c \in r.pending

Undecided_Always(r) == r.pending # {}
\* The checkpoint names an approval that is still to be given.
Undecided(r) == \E c \in r.pending : call[c] = "pending_approval"
\* The state a task is left in by its checkpoint.
ParkedStatus(r) ==
    LET t == r.claim.task
    IN IF r.kind = "recovery" THEN "paused"
       ELSE IF status[t] = "pausing"
            THEN IF inputPause[t] /\ r.pending = {} THEN "queued" ELSE "paused"
       ELSE IF Undecided(r) THEN "waiting_approval" ELSE "queued"

\* PauseAgentTaskForApproval and CompleteAgentTaskPause.  A checkpoint that
\* is refused leaves the attempt to its lease.
ServePark(r) ==
    /\ r.op = "park"
    /\ requests' = requests \ {r}
    /\ Tell(r, Idle)
    /\ LET k == r.claim  t == r.claim.task
       IN IF Holds(k, r.age) /\ Consistent(r)
          THEN /\ checkpoint' = [checkpoint EXCEPT ![t] =
                      [saved |-> TRUE, attempt |-> k.attempt, pending |-> r.pending,
                       intact |-> TRUE]]
               /\ attempt' = [attempt EXCEPT ![t][k.attempt] = Close(@,
                      IF r.kind = "recovery" \/ status[t] = "pausing"
                      THEN "paused" ELSE "waiting_approval")]
               /\ status' = [status EXCEPT ![t] = ParkedStatus(r)]
               /\ inputPause' = [inputPause EXCEPT ![t] = FALSE]
               /\ saved' = saved \cup {<<t, k.attempt>>}
          ELSE UNCHANGED <<checkpoint, attempt, status, inputPause, saved>>
    /\ UNCHANGED <<attempts, limit, granted, results, callVars, deleted, events,
                   unread, held, retried>>

ServeFail(r) ==
    /\ r.op = "fail"
    /\ requests' = requests \ {r}
    /\ Tell(r, Idle)
    /\ LET k == r.claim  t == r.claim.task
           again == /\ r.kind = "retryable" /\ ~Risk(t, k.attempt)
                    /\ attempts[t] < limit[t] /\ status[t] # "pausing"
       IN IF Holds(k, r.age)
          THEN /\ CancelTools({t})
               /\ checkpoint' = [checkpoint EXCEPT ![t] = NoCheckpoint]
               /\ attempt' = [attempt EXCEPT ![t][k.attempt] = Close(@, "failed")]
               /\ status' = [status EXCEPT ![t] = IF again THEN "queued" ELSE "failed"]
          ELSE UNCHANGED <<call, checkpoint, attempt, status>>
    /\ UNCHANGED <<attempts, limit, inputPause, granted, results, caller, started, deleted,
                   events, history>>

Serve(r) == ServeClaim(r) \/ ServeProgress(r) \/ ServeComplete(r) \/ ServePark(r) \/ ServeFail(r)

\* Time passes, for the leases and for the requests that wait.
Tick ==
    /\ \A r \in requests : r.age < MaxWait
    /\ requests' = {[r EXCEPT !.age = @ + 1] : r \in requests}
    /\ attempt' = [t \in Task |-> [n \in AttemptNo |->
           IF attempt[t][n].status = "running" /\ attempt[t][n].lease > -MaxWait
           THEN [attempt[t][n] EXCEPT !.lease = @ - 1] ELSE attempt[t][n]]]
    /\ UNCHANGED <<status, attempts, limit, inputPause, checkpoint, granted, results,
                   callVars, deleted, worker, events, history>>

-----------------------------------------------------------------------------
User ==
    \/ \E t \in Task : \/ Start(t) \/ Pause(t) \/ Resume(t) \/ Cancel(t)
                       \/ Retry(t) \/ AppendInput(t)
    \/ \E c \in Call : Resolve(c)
    \/ DeleteProject
Step(w) ==
    \/ Poll(w) \/ Beat(w) \/ Finish(w) \/ Park(w) \/ Break(w)
    \/ Report(w) \/ GiveUp(w) \/ Crash(w)
    \/ \E c \in Call : BeginCall(w, c) \/ StartCall(w, c) \/ EndCall(w, c)
Next ==
    \/ User
    \/ \E w \in Worker : Step(w)
    \/ \E t \in Task : Damage(t)
    \/ \E r \in requests : Serve(r)
    \/ Tick

Spec == Init /\ [][Next]_vars

\* Workers poll, go on and are cut off by run_timeout_seconds; the Store serves
\* what it received, each kind of request of each worker in its turn; time
\* passes.
Fairness ==
    /\ \A w \in Worker :
           WF_vars(Poll(w) \/ Finish(w) \/ Park(w) \/ Break(w) \/ Report(w))
    /\ \A o \in Op, f \in Worker \cup {"gone"} :
           WF_vars(\E r \in requests : r.op = o /\ r.from = f /\ Serve(r))
    /\ SF_vars(Tick)
FairSpec == Spec /\ Fairness

-----------------------------------------------------------------------------
(* Properties.                                                             *)

\* Only the last attempt of a task is live, and the task's row says which way:
\* it runs exactly while its task does, and a parked one has the checkpoint
\* its task will go on from.  Claims, expiry, checkpoints and cancellation each
\* write both tables.
OneOwner ==
    \A t \in Task :
        /\ status[t] \in Active => attempt[t][attempts[t]].status = "running"
        /\ \A n \in AttemptNo :
            LET a == attempt[t][n].status
            IN /\ a \in Live => n = attempts[t]
               /\ a = "running" => status[t] \in Active
               /\ a \in Parked =>
                      /\ status[t] \in {"queued"} \cup Parked
                      /\ checkpoint[t].saved /\ checkpoint[t].attempt = n

\* A write that may have acted is never followed by another attempt at the
\* task, whoever asks for it: not after a failure, an expired lease, a
\* cancellation, nor at the user's retry.
WritesOnce ==
    \A c \in Writes \cap started : caller[c] = attempts[TaskOf[c]]

\* An attempt that saved a checkpoint is not followed by another, unless the
\* user asked for the task to be done again: approvals he gave are not put to
\* a second run of their own accord.
NoSilentRestart ==
    \A p \in saved : attempts[p[1]] > p[2] => retried[p[1]] >= p[2]

\* A task the user paused stays paused, or ends, until he resumes or retries
\* it, whatever arrives meanwhile.
ManualPauseHolds ==
    \A t \in Task : held[t] => /\ status[t] \in {"pausing", "paused"} \cup Ended
                               /\ status[t] = "pausing" => ~inputPause[t]

\* A task that has approvals to act on and an input the user added after he
\* was asked for them is not handed out before he resumes it.
OldApprovalsHeld ==
    \A t \in Task : status[t] = "queued" /\ checkpoint[t].pending # {} => ~unread[t]

\* A waiting task waits for a decision that is still to come; a queued task
\* that saved a checkpoint can go on from it.  Decisions may come before,
\* between and after the transactions that park the task.
NoLostWakeup ==
    \A t \in Task :
        /\ status[t] = "waiting_approval" =>
              \E c \in checkpoint[t].pending : call[c] = "pending_approval"
        /\ status[t] = "queued" /\ checkpoint[t].saved /\ checkpoint[t].intact =>
              Whole(t)

\* An ended task asks its user for nothing and leaves no approval that a
\* later run could act on; once its project is deleted, every task has ended.
EndedHoldsNothing ==
    \A t \in Task :
        /\ status[t] \in Ended =>
              \A c \in CallsOf(t) : call[c] \notin {"pending_approval", "approved"}
        /\ deleted => status[t] \in {"absent"} \cup Ended

\* A request that does not carry the task's newest token changes nothing of
\* the task: a worker that parked the task, lost its lease or gave up a request
\* has no say over the one that has it now, not even over its lease.
OnlyOwnerActs ==
    [][\A r \in requests :
           /\ requests' = requests \ {r}
           /\ r.op # "claim" /\ r.claim.token # granted[r.claim.task]
           => UNCHANGED taskVars]_vars

\* A task as the abstract specification sees it: given to one holder at a time
\* and answered at most once.
Phase(t) ==
    CASE status[t] = "absent" -> "absent"
      [] status[t] \in {"queued"} \cup Parked -> "open"
      [] status[t] \in Active -> "held"
      [] status[t] = "completed" -> "answered"
      [] OTHER -> "closed"
LW == INSTANCE LeasedWork
            WITH Item <- Task, state <- [t \in Task |-> Phase(t)],
                 grant <- granted, answers <- results
GivenAndAnswered == LW!Spec

\* Every task ends or comes to wait for its user: a worker that disappears
\* leaves its lease, and the lease brings the task back.
TaskSettles ==
    \A t \in Task : status[t] = "queued" ~> status[t] \in Parked \cup Ended

\* An input is given to an attempt, unless the task ends or its user is to
\* confirm.
InputIsGiven ==
    \A t \in Task : unread[t] ~> ~unread[t] \/ status[t] \in {"paused"} \cup Ended
=============================================================================
