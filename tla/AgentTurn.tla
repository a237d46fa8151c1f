------------------------------ MODULE AgentTurn ------------------------------
(***************************************************************************)
(* The life of an Agent turn: the message a user sends to a conversation,  *)
(* from its acceptance to its one terminal state.                          *)
(*                                                                         *)
(* Three parties share a turn.  The Go Store keeps it (runtime/agent_turn, *)
(* agent_turn_checkpoint, agent_turn_control, agent_turn_input,            *)
(* agent_tool): every command is one transaction on a single connection,   *)
(* hence one action here.  The Go turn manager (httpapi/                   *)
(* agent_turn_manager) claims accepted turns and gives each a worker,      *)
(* which streams from the Python sidecar; the worker reads and writes in   *)
(* separate transactions.  The sidecar runs the model, calls back over     *)
(* HTTP to register tool calls and to commit the reply, and ends its       *)
(* stream with one final event.                                            *)
(*                                                                         *)
(* The tool calls modelled are platform write tools.                       *)
(***************************************************************************)
EXTENDS Naturals, FiniteSets

CONSTANTS
    Turn,             \* the messages; their numbers order their ids
    Spoken,           \* those of a voice session, which dispatches them itself
    Conversation, ConversationOf,
    Call, TurnOf,     \* the tool calls the model may make, and for which turn
    NeedsApproval,    \* the calls to tools whose approval policy is "always"
    Slot,             \* the places in the manager's semaphore
    Client,           \* the HTTP requests that may be in flight at once
    MaxClock,         \* bound on the readings of the Store's clock
    MaxGeneration,    \* bound on the dispatches of one turn
    MaxInputs         \* bound on the inputs added to one turn

ASSUME TurnAssumption == Turn \subseteq Nat /\ Spoken \subseteq Turn
ASSUME ConversationAssumption == ConversationOf \in [Turn -> Conversation]
ASSUME CallAssumption == TurnOf \in [Call -> Turn] /\ NeedsApproval \subseteq Call
ASSUME BoundAssumption ==
    MaxClock \in Nat /\ MaxGeneration \in Nat /\ MaxInputs \in Nat

VARIABLES
    \* Rows of the Store.
    status, stamp, generation, inputPause, inputs, checkpoint,
    call, approval, exchange,
    \* Memory of the Go process.
    clock, serving, submission, worker, cancelling, commit,
    \* Memory of the sidecar.
    run,
    \* History: an input arrived that no dispatch or resumption has followed;
    \* the user paused the turn and has not resumed it.
    unread, held

turnVars     == <<status, checkpoint>>
callVars     == <<call, approval>>
dispatchVars == <<generation, inputPause, held>>
inputVars    == <<inputs, unread>>
queueVars    == <<clock, stamp, submission>>
goVars       == <<serving, cancelling>>
storeVars    == <<turnVars, callVars, dispatchVars, inputVars, exchange>>
vars == <<storeVars, queueVars, goVars, worker, commit, run>>

-----------------------------------------------------------------------------
Parked    == {"accepted", "waiting_approval", "paused"}
Executing == {"running", "pausing", "cancel_requested", "committing"}
Ended     == {"committed", "failed", "cancelled"}
Status    == {"absent"} \cup Parked \cup Executing \cup Ended
Unfinished(t) == status[t] \notin Ended \cup {"absent"}

OpenCall   == {"pending_approval", "approved", "running"}
CallStatus == OpenCall \cup {"absent", "rejected", "completed", "failed", "cancelled"}
Approval   == {"none", "pending", "approved", "rejected", "cancelled"}

CallsOf(t)   == {c \in Call : TurnOf[c] = t}
PendingOf(t) == {c \in CallsOf(t) : call[c] = "pending_approval"}

Input == [received : Nat, claimed : Nat, included : Nat]

NoCheckpoint == [saved |-> FALSE, pending |-> {}, read |-> 0]
Checkpoint   == [saved : BOOLEAN, pending : SUBSET Call, read : Nat]

Final == {"waiting_approval", "paused", "recovery", "committed", "failed"}
Pc    == {"admitting", "claimed", "registered", "ready", "streaming", "event",
          "ended", "cancelling", "failing"}
Idle  == [pc |-> "idle"]
Job   == [pc : Pc, turn : Turn, at : Nat, generation : Nat, direct : BOOLEAN,
          cut : BOOLEAN, event : Final \cup {"none"}, pending : SUBSET Call,
          read : Nat]

NoSubmission == [turn |-> "none"]
NoRun == [generation |-> 0, signalled |-> FALSE, committed |-> FALSE, asked |-> {},
          read |-> 0]
Run   == [generation : Nat, signalled : BOOLEAN, committed : BOOLEAN,
          asked : SUBSET Call, read : Nat]
Live(t) == run[t].generation > 0

Job0(t, g, pc, direct, at) ==
    [pc |-> pc, turn |-> t, at |-> at, generation |-> g, direct |-> direct,
     cut |-> FALSE, event |-> "none", pending |-> {}, read |-> 0]

Busy == {k \in Slot : worker[k] # Idle}
At(k, pc) == k \in Busy /\ worker[k].pc = pc
Move(k, pc) == worker' = [worker EXCEPT ![k].pc = pc]
\* Definitions named Name_... are Name with a bug, to test the properties.
Release_KeepsJob(k) == worker' = [worker EXCEPT ![k].pc = "idle"]
Release_KeepsPlace(k) == Move(k, "ended")
Release(k)  == worker' = [worker EXCEPT ![k] = Idle]
EndRun_OnlyResets(t) == run' = [run EXCEPT ![t].signalled = FALSE]
EndRun(t)   == run' = [run EXCEPT ![t] = NoRun]
Streaming(t) == \E k \in Busy : worker[k].pc = "streaming" /\ worker[k].turn = t

TypeOK ==
    /\ status \in [Turn -> Status]
    /\ stamp \in [Turn -> Nat]
    /\ generation \in [Turn -> Nat]
    /\ inputPause \in [Turn -> BOOLEAN]
    /\ inputs \in [Turn -> Input]
    /\ checkpoint \in [Turn -> Checkpoint]
    /\ call \in [Call -> CallStatus]
    /\ approval \in [Call -> Approval]
    /\ exchange \subseteq Turn
    /\ clock \in Nat
    /\ serving \in BOOLEAN
    /\ submission \in [Client -> {NoSubmission} \cup [turn : Turn, at : Nat]]
    /\ worker \in [Slot -> {Idle} \cup Job]
    /\ cancelling \subseteq Turn
    /\ commit \in [Turn -> {"none", "sent", "begun", "saved", "done"}]
    /\ run \in [Turn -> Run]
    /\ unread \in [Turn -> BOOLEAN]
    /\ held \in [Turn -> BOOLEAN]

Init ==
    /\ status = [t \in Turn |-> "absent"]
    /\ stamp = [t \in Turn |-> 0]
    /\ generation = [t \in Turn |-> 0]
    /\ inputPause = [t \in Turn |-> FALSE]
    /\ inputs = [t \in Turn |-> [received |-> 0, claimed |-> 0, included |-> 0]]
    /\ checkpoint = [t \in Turn |-> NoCheckpoint]
    /\ call = [c \in Call |-> "absent"]
    /\ approval = [c \in Call |-> "none"]
    /\ exchange = {}
    /\ clock = 0
    /\ serving = TRUE
    /\ submission = [c \in Client |-> NoSubmission]
    /\ worker = [k \in Slot |-> Idle]
    /\ cancelling = {}
    /\ commit = [t \in Turn |-> "none"]
    /\ run = [t \in Turn |-> NoRun]
    /\ unread = [t \in Turn |-> FALSE]
    /\ held = [t \in Turn |-> FALSE]

-----------------------------------------------------------------------------
(* Submission of a message.                                                *)

\* The Store reads its clock before its transaction: BeginTx waits for the one
\* connection, so requests may be admitted in another order than their stamps.
Stamp(c, t) ==
    /\ serving /\ submission[c] = NoSubmission
    /\ t \notin Spoken /\ status[t] = "absent"
    /\ \E at \in {clock, clock + 1} :
        /\ at <= MaxClock
        /\ clock' = at
        /\ submission' = [submission EXCEPT ![c] = [turn |-> t, at |-> at]]
    /\ UNCHANGED <<storeVars, stamp, goVars, worker, commit, run>>

\* The transaction.  A message already accepted is a replay: it answers with
\* the original turn and changes nothing.
Admit(c) ==
    /\ submission[c] # NoSubmission
    /\ submission' = [submission EXCEPT ![c] = NoSubmission]
    /\ LET t == submission[c].turn IN
        IF status[t] = "absent"
        THEN /\ status' = [status EXCEPT ![t] = "accepted"]
             /\ stamp' = [stamp EXCEPT ![t] = submission[c].at]
        ELSE UNCHANGED <<status, stamp>>
    /\ UNCHANGED <<checkpoint, callVars, dispatchVars, inputVars, clock, goVars,
                   exchange, worker, commit, run>>

-----------------------------------------------------------------------------
(* Dispatch.  The manager claims under dispatchMu: a direct admission in   *)
(* flight, or a claim not yet registered, keeps every other claim out.     *)

DispatchFree == \A k \in Busy : worker[k].pc \notin {"admitting", "claimed"}

Active_Forgotten == {}
Active == {worker[k].turn : k \in {j \in Busy : worker[j].pc # "admitting"}}

Older_NoTieBreak(u, t) == stamp[u] < stamp[t]
Older(u, t) == stamp[u] < stamp[t] \/ (stamp[u] = stamp[t] /\ u < t)

Sibling(u, t) == u # t /\ ConversationOf[u] = ConversationOf[t]

\* A turn that executes or waits for approval keeps its whole conversation
\* waiting; one that waits to execute, even paused, keeps the younger ones.
Blocking == Executing \cup {"waiting_approval"}
Queued   == {"accepted", "paused"}

Runnable ==
    {t \in Turn \ Active :
        /\ status[t] = "accepted"
        /\ \A u \in Turn : Sibling(u, t) =>
            /\ status[u] \notin Blocking
            /\ status[u] \in Queued => ~Older(u, t)}

\* One transaction claims the oldest runnable turns, as many as there are free
\* places, and gives each of them a new generation and the inputs received.
Claim(seat) ==
    LET taken  == {seat[k] : k \in DOMAIN seat}
        free   == Slot \ Busy
    IN
    /\ serving /\ DispatchFree
    /\ DOMAIN seat \subseteq free /\ taken # {} /\ taken \subseteq Runnable
    /\ \A j, k \in DOMAIN seat : j # k => seat[j] # seat[k]
    /\ taken # Runnable => DOMAIN seat = free
    /\ \A t \in taken, u \in Runnable \ taken : Older(t, u)
    /\ status' = [t \in Turn |-> IF t \in taken THEN "running" ELSE status[t]]
    /\ generation' =
        [t \in Turn |-> IF t \in taken THEN generation[t] + 1 ELSE generation[t]]
    /\ inputPause' = [t \in Turn |-> t \notin taken /\ inputPause[t]]
    /\ inputs' = [t \in Turn |-> IF t \in taken
                    THEN [inputs[t] EXCEPT !.claimed = inputs[t].received]
                    ELSE inputs[t]]
    /\ unread' = [t \in Turn |-> t \notin taken /\ unread[t]]
    /\ worker' = [k \in Slot |-> IF k \in DOMAIN seat
                    THEN Job0(seat[k], generation[seat[k]] + 1, "claimed", FALSE, 0)
                    ELSE worker[k]]
    /\ UNCHANGED <<checkpoint, callVars, held, queueVars, goVars, exchange, commit,
                   run>>

\* A direct dispatcher takes its place and the stamp before its transaction.
Reserve(k, t) ==
    /\ serving /\ DispatchFree /\ k \notin Busy /\ t \in Spoken
    /\ \E at \in {clock, clock + 1} :
        /\ at <= MaxClock
        /\ clock' = at
        /\ worker' = [worker EXCEPT ![k] = Job0(t, 0, "admitting", TRUE, at)]
    /\ UNCHANGED <<storeVars, stamp, submission, goVars, commit, run>>

\* Accept and claim in one transaction: refused while the conversation has an
\* unfinished turn; a replay never grants a second execution.
AdmitDirect(k) ==
    /\ At(k, "admitting")
    /\ LET t == worker[k].turn IN
        IF status[t] # "absent" \/ worker[k].cut
             \/ \E u \in Turn : Sibling(u, t) /\ Unfinished(u)
        THEN /\ Release(k)
             /\ UNCHANGED <<status, stamp, generation>>
        ELSE /\ status' = [status EXCEPT ![t] = "running"]
             /\ stamp' = [stamp EXCEPT ![t] = worker[k].at]
             /\ generation' = [generation EXCEPT ![t] = 1]
             /\ worker' = [worker EXCEPT ![k] = Job0(t, 1, "claimed", TRUE, 0)]
    /\ UNCHANGED <<checkpoint, callVars, inputPause, held, inputVars, clock, submission,
                   goVars, exchange, commit, run>>

-----------------------------------------------------------------------------
(* The end of a turn: one transaction closes its open tool calls, deletes  *)
(* its checkpoint and appends its terminal event.                          *)

CloseCalls_PendingOnly(T) ==
    /\ call' = [c \in Call |->
        IF TurnOf[c] \in T /\ call[c] = "pending_approval" THEN "cancelled" ELSE call[c]]
    /\ approval' = [c \in Call |->
        IF TurnOf[c] \in T /\ approval[c] = "pending" THEN "cancelled" ELSE approval[c]]

CloseCalls(T) ==
    /\ call' = [c \in Call |->
        IF TurnOf[c] \in T /\ call[c] \in OpenCall THEN "cancelled" ELSE call[c]]
    /\ approval' = [c \in Call |->
        IF TurnOf[c] \in T /\ call[c] \in OpenCall /\ approval[c] = "pending"
        THEN "cancelled" ELSE approval[c]]

Finish_NoGuard(t, s) ==
    /\ status' = [status EXCEPT ![t] = s]
    /\ checkpoint' = [checkpoint EXCEPT ![t] = NoCheckpoint]
    /\ CloseCalls({t})

Finish(t, s) ==
    IF Unfinished(t)
    THEN /\ status' = [status EXCEPT ![t] = s]
         /\ checkpoint' = [checkpoint EXCEPT ![t] = NoCheckpoint]
         /\ CloseCalls({t})
    ELSE UNCHANGED <<turnVars, callVars>>

-----------------------------------------------------------------------------
(* The worker of a turn, from its registration to its stream.              *)

\* From here a cancel request finds the worker's context.
Register(k) ==
    /\ At(k, "claimed")
    /\ Move(k, "registered")
    /\ UNCHANGED <<storeVars, queueVars, goVars, commit, run>>

\* finishIfCancelledOrTerminal: the status read decides what is written later.
Check(k, next) ==
    LET s == status[worker[k].turn] IN
    IF s \in Ended THEN Release(k)
    ELSE IF s = "cancel_requested" THEN Move(k, "cancelling")
    ELSE Move(k, next)

Start(k) ==
    /\ At(k, "registered")
    /\ Check(k, "ready")
    /\ UNCHANGED <<storeVars, queueVars, goVars, commit, run>>

\* ResolvePrincipal, or the checkpoint's restoration, fails: the turn will be
\* failed whatever its status has become.
PrepareFails(k) ==
    /\ At(k, "ready") /\ ~worker[k].direct
    /\ Move(k, "failing")
    /\ UNCHANGED <<storeVars, queueVars, goVars, commit, run>>

\* The runtime context cannot be loaded: a cancellation is looked for first.
ContextFails(k) ==
    /\ At(k, "ready") /\ ~worker[k].direct
    /\ Check(k, "failing")
    /\ UNCHANGED <<storeVars, queueVars, goVars, commit, run>>

\* The sidecar accepts the stream and starts a run of the turn.
StartRun(k) ==
    /\ At(k, "ready") /\ ~worker[k].cut
    /\ Move(k, "streaming")
    /\ run' = [run EXCEPT ![worker[k].turn] =
                [NoRun EXCEPT !.generation = worker[k].generation,
                              !.read = checkpoint[worker[k].turn].read]]
    /\ UNCHANGED <<storeVars, queueVars, goVars, commit>>

\* The stream cannot be opened, or is lost before its final event: by the
\* network, by the sidecar's death, or because the worker's context was cut.
\* The sidecar's run is told, but may live on for a while.
StreamBreaks(k) ==
    /\ At(k, "ready") \/ At(k, "streaming")
    /\ Move(k, "ended")
    /\ UNCHANGED <<storeVars, queueVars, goVars, commit, run>>

RunStops(t) ==
    /\ Live(t) /\ ~Streaming(t)
    /\ EndRun(t)
    /\ UNCHANGED <<storeVars, queueVars, goVars, worker, commit>>

\* forwardPauseRequests polls the status and passes a pause on to the run.
ForwardPause(k) ==
    /\ At(k, "streaming") /\ ~worker[k].direct /\ ~worker[k].cut
    /\ LET t == worker[k].turn IN
        /\ status[t] = "pausing" /\ Live(t) /\ ~run[t].signalled
        /\ run' = [run EXCEPT ![t].signalled = TRUE]
    /\ UNCHANGED <<storeVars, queueVars, goVars, worker, commit>>

\* The model has answered a request that held every input of this dispatch.
ReadInputs(t) ==
    /\ Live(t) /\ run[t].read < inputs[t].claimed
    /\ run' = [run EXCEPT ![t].read = inputs[t].claimed]
    /\ UNCHANGED <<storeVars, queueVars, goVars, worker, commit>>

\* The Store takes a receipt from the current dispatch only, and for a prefix
\* of the inputs that dispatch was given.
TakesReceipt(t, g, read) ==
    /\ g = generation[t] /\ read <= inputs[t].claimed
    /\ status[t] \in {"running", "pausing", "waiting_approval", "paused", "accepted",
                     "committing", "committed"}

Included_AllReceived(t, read) == [inputs EXCEPT ![t].included = inputs[t].received]

Included(t, read) ==
    [inputs EXCEPT ![t].included = IF read > @ THEN read ELSE @]

\* The run's receipt, one of its events; refused, it ends the stream.
IncludeInputs(k) ==
    /\ At(k, "streaming") /\ ~worker[k].cut
    /\ LET t == worker[k].turn IN
        /\ Live(t) /\ run[t].read > inputs[t].included
        /\ IF TakesReceipt(t, worker[k].generation, run[t].read)
           THEN inputs' = Included(t, run[t].read) /\ UNCHANGED worker
           ELSE Move(k, "ended") /\ UNCHANGED inputs
    /\ UNCHANGED <<turnVars, callVars, dispatchVars, unread, queueVars, goVars,
                   exchange, commit, run>>

-----------------------------------------------------------------------------
(* The end of a run, and what its worker stores of it.                     *)

\* The approved calls of the checkpoint a run resumed from come first.
Settled(t) == \A c \in checkpoint[t].pending : call[c] # "approved"

\* The run's task has ended before its final event is sent.  A run that has
\* committed never pauses; a failure may come at any time.
RunEnds(k, event) ==
    /\ At(k, "streaming")
    /\ LET t == worker[k].turn IN
        /\ run[t].generation = worker[k].generation
        /\ event = "committed" => run[t].committed
        /\ event \in {"waiting_approval", "paused", "recovery"} =>
            /\ ~run[t].committed /\ commit[t] = "none" /\ Settled(t)
            /\ generation[t] < MaxGeneration
        /\ event = "waiting_approval" => run[t].asked # {} /\ ~run[t].signalled
        /\ event = "paused" => run[t].signalled
        /\ worker' = [worker EXCEPT ![k].pc = "event", ![k].event = event,
                        ![k].pending = IF event \in {"waiting_approval", "paused"}
                                       THEN run[t].asked ELSE {},
                        ![k].read = run[t].read]
        /\ EndRun(t)
    /\ UNCHANGED <<storeVars, queueVars, goVars, commit>>

\* No call may be unfinished, and no write may be of unknown outcome, when a
\* run stops because its model failed.
RecoverySafe(t) ==
    \A c \in CallsOf(t) : call[c] \in {"absent", "rejected", "completed"}

\* The calls a checkpoint or a resumption may name: their decisions agree.
Consistent(c) ==
    <<call[c], approval[c]>> \in {<<"pending_approval", "pending">>,
        <<"approved", "approved">>, <<"rejected", "rejected">>}

SavesCheckpoint(t, g, event, pending) ==
    /\ g = generation[t]
    /\ status[t] \in CASE event = "paused"   -> {"pausing"}
                       [] event = "recovery" -> {"pausing", "running"}
                       [] OTHER -> {"running", "waiting_approval", "pausing"}
    /\ event = "recovery" => RecoverySafe(t)
    /\ \A c \in pending : Consistent(c)
    /\ PendingOf(t) \subseteq pending

StatusAfterPause_AlwaysWaits(t, event, pending) ==
    IF event # "waiting_approval" \/ status[t] = "pausing"
    THEN "paused" ELSE "waiting_approval"
StatusAfterPause_AlwaysGoesOn(t, event, pending) ==
    IF PendingOf(t) = {} THEN "accepted" ELSE "waiting_approval"

StatusAfterPause(t, event, pending) ==
    IF event # "waiting_approval" \/ status[t] = "pausing"
    THEN IF inputPause[t] /\ pending = {} /\ event # "recovery"
         THEN "accepted" ELSE "paused"
    ELSE IF PendingOf(t) = {} THEN "accepted" ELSE "waiting_approval"

\* persistEvent.  A checkpoint, or a receipt, the Store refuses is an error of
\* the stream; it stores a checkpoint and the receipt in it together.
PersistEvent(k) ==
    /\ At(k, "event") /\ ~worker[k].cut
    /\ Move(k, "ended")
    /\ LET t == worker[k].turn
           event == worker[k].event
           pending == worker[k].pending
           receipt == TakesReceipt(t, worker[k].generation, worker[k].read)
       IN
        IF event \in {"waiting_approval", "paused", "recovery"} /\ receipt
             /\ SavesCheckpoint(t, worker[k].generation, event, pending)
        THEN /\ status' = [status EXCEPT ![t] = StatusAfterPause(t, event, pending)]
             /\ checkpoint' = [checkpoint EXCEPT ![t] =
                    [saved |-> TRUE, pending |-> pending, read |-> worker[k].read]]
             /\ inputPause' = [inputPause EXCEPT ![t] = FALSE]
             /\ inputs' = Included(t, worker[k].read)
             /\ UNCHANGED callVars
        ELSE /\ IF event = "failed" THEN Finish(t, "failed")
                                    ELSE UNCHANGED <<turnVars, callVars>>
             /\ inputs' = IF event = "committed" /\ receipt
                          THEN Included(t, worker[k].read) ELSE inputs
             /\ UNCHANGED inputPause
    /\ UNCHANGED <<generation, held, unread, queueVars, goVars, exchange, commit, run>>

\* Nothing can be stored under a context that was cut.
PersistCut(k) ==
    /\ At(k, "event") /\ worker[k].cut
    /\ Move(k, "ended")
    /\ UNCHANGED <<storeVars, queueVars, goVars, commit, run>>

LeftAlone_CancelRequested == Ended \cup Parked \cup {"cancel_requested"}

\* A turn that has ended or is parked is no longer the worker's business.
LeftAlone == Ended \cup Parked

\* finishExecution reads the status in one transaction ...
FinishRead(k) ==
    /\ At(k, "ended")
    /\ LET s == status[worker[k].turn] IN
        IF s \in LeftAlone
        THEN Release(k)
        ELSE Move(k, IF s = "cancel_requested" THEN "cancelling" ELSE "failing")
    /\ UNCHANGED <<storeVars, queueVars, goVars, commit, run>>

\* ... and writes in another; a turn that has ended by then stays as it is.
FinishWrite(k) ==
    /\ At(k, "cancelling") \/ At(k, "failing")
    /\ Finish(worker[k].turn,
              IF worker[k].pc = "cancelling" THEN "cancelled" ELSE "failed")
    /\ Release(k)
    /\ UNCHANGED <<dispatchVars, inputVars, queueVars, goVars, exchange, commit, run>>

-----------------------------------------------------------------------------
(* The commit: one HTTP request of the run, three transactions.            *)

\* The sidecar refuses to commit while a call it registered awaits approval,
\* as far as it knows: the tools it runs in parallel may register more.
SendCommit(t) ==
    /\ Live(t) /\ ~run[t].committed /\ commit[t] = "none"
    /\ run[t].asked = {} /\ Settled(t)
    /\ commit' = [commit EXCEPT ![t] = "sent"]
    /\ UNCHANGED <<storeVars, queueVars, goVars, worker, run>>

MayCommit_Cancelled(t) ==
    status[t] \notin {"cancelled", "failed"} /\ PendingOf(t) = {}

MayCommit(t) ==
    \/ status[t] = "committed"
    \/ /\ status[t] \in {"accepted", "running", "pausing", "committing"}
       /\ PendingOf(t) = {}

BeginCommit(t) ==
    /\ commit[t] = "sent"
    /\ commit' = [commit EXCEPT ![t] = IF MayCommit(t) THEN "begun" ELSE "none"]
    /\ status' = [status EXCEPT
                    ![t] = IF MayCommit(t) /\ @ # "committed" THEN "committing" ELSE @]
    /\ UNCHANGED <<checkpoint, callVars, dispatchVars, inputVars, queueVars, goVars,
                   exchange, worker, run>>

SaveExchange(t) ==
    /\ commit[t] = "begun"
    /\ exchange' = exchange \cup {t}
    /\ commit' = [commit EXCEPT ![t] = "saved"]
    /\ UNCHANGED <<turnVars, callVars, dispatchVars, inputVars, queueVars, goVars,
                   worker, run>>

\* commitAgentDecision fails, before or after the exchange is stored.
SaveFails(t) ==
    /\ commit[t] \in {"begun", "saved"}
    /\ Finish(t, "failed")
    /\ commit' = [commit EXCEPT ![t] = "none"]
    /\ UNCHANGED <<dispatchVars, inputVars, queueVars, goVars, exchange, worker, run>>

CompleteCommit(t) ==
    /\ commit[t] = "saved"
    /\ IF status[t] \in {"committing", "running", "pausing"}
       THEN /\ status' = [status EXCEPT ![t] = "committed"]
            /\ checkpoint' = [checkpoint EXCEPT ![t] = NoCheckpoint]
       ELSE UNCHANGED turnVars
    /\ commit' = [commit EXCEPT ![t] = IF status'[t] = "committed" THEN "done" ELSE "none"]
    /\ UNCHANGED <<callVars, dispatchVars, inputVars, queueVars, goVars, exchange,
                   worker, run>>

CommitReply(t) ==
    /\ commit[t] = "done" /\ Live(t)
    /\ commit' = [commit EXCEPT ![t] = "none"]
    /\ run' = [run EXCEPT ![t].committed = TRUE]
    /\ UNCHANGED <<storeVars, queueVars, goVars, worker>>

\* The request's connection is lost; the handler stops where it is.
CommitLost(t) ==
    /\ commit[t] # "none"
    /\ commit' = [commit EXCEPT ![t] = "none"]
    /\ UNCHANGED <<storeVars, queueVars, goVars, worker, run>>

-----------------------------------------------------------------------------
(* Commands of the user.                                                   *)

PausesAtOnce_Running(t) == status[t] \in Parked \cup {"running"}
\* A turn without a worker pauses where it is, the others at their checkpoint.
PausesAtOnce(t) == status[t] \in Parked

Pause(t) ==
    /\ \/ /\ status[t] \in {"running", "pausing"}
          /\ status' = [status EXCEPT ![t] = "pausing"]
       \/ /\ PausesAtOnce(t)
          /\ status' = [status EXCEPT ![t] = "paused"]
    /\ inputPause' = [inputPause EXCEPT ![t] = FALSE]
    /\ held' = [held EXCEPT ![t] = TRUE]
    /\ UNCHANGED <<checkpoint, callVars, generation, inputVars, queueVars, goVars,
                   exchange, worker, commit, run>>

\* A turn that has started resumes from its checkpoint or not at all, and the
\* checkpoint must still agree with the calls it waits for.
Resume(t) ==
    /\ status[t] = "paused"
    /\ generation[t] > 0 => checkpoint[t].saved
    /\ \A c \in checkpoint[t].pending : Consistent(c)
    /\ checkpoint[t].saved => PendingOf(t) \subseteq checkpoint[t].pending
    /\ status' = [status EXCEPT
                    ![t] = IF PendingOf(t) # {} THEN "waiting_approval" ELSE "accepted"]
    /\ inputPause' = [inputPause EXCEPT ![t] = FALSE]
    /\ unread' = [unread EXCEPT ![t] = FALSE]
    /\ held' = [held EXCEPT ![t] = FALSE]
    /\ UNCHANGED <<checkpoint, callVars, generation, inputs, queueVars, goVars,
                   exchange, worker, commit, run>>

StopsForInput_OnlyWaiting(t) == status[t] = "waiting_approval"

\* A turn that would go on with old calls stops for the input.
StopsForInput(t) ==
    \/ status[t] = "waiting_approval"
    \/ status[t] = "accepted" /\ checkpoint[t].pending # {}

\* An input pauses a running turn on its own account: it goes on by itself.
AppendInput(t) ==
    /\ inputs[t].received < MaxInputs
    /\ status[t] \in {"accepted", "running", "waiting_approval", "pausing", "paused"}
    /\ inputs' = [inputs EXCEPT ![t].received = @ + 1]
    /\ unread' = [unread EXCEPT ![t] = TRUE]
    /\ status' = [status EXCEPT ![t] = IF @ = "running" THEN "pausing"
                                       ELSE IF StopsForInput(t) THEN "paused" ELSE @]
    /\ inputPause' = [inputPause EXCEPT
                        ![t] = status[t] = "running" \/ (@ /\ ~StopsForInput(t))]
    /\ UNCHANGED <<checkpoint, callVars, generation, held, queueVars, goVars, exchange,
                   worker, commit, run>>

Cancellable_Committing == Executing
Cancellable == {"running", "pausing", "cancel_requested"}

\* The transaction of a cancel request ...
CancelTurn(t) ==
    /\ \/ /\ status[t] \in Parked
          /\ Finish(t, "cancelled")
          /\ UNCHANGED cancelling
       \/ /\ status[t] \in Cancellable
          /\ status' = [status EXCEPT ![t] = "cancel_requested"]
          /\ cancelling' = cancelling \cup {t}
          /\ UNCHANGED <<checkpoint, callVars>>
    /\ UNCHANGED <<dispatchVars, inputVars, queueVars, serving, exchange, worker,
                   commit, run>>

\* ... after which its handler cuts the context of the worker it can find.
CancelSignal(t) ==
    /\ t \in cancelling
    /\ cancelling' = cancelling \ {t}
    /\ worker' = [k \in Slot |->
        IF /\ k \in Busy /\ worker[k].turn = t
           /\ worker[k].pc \notin {"admitting", "claimed"}
        THEN [worker[k] EXCEPT !.cut = TRUE] ELSE worker[k]]
    /\ UNCHANGED <<storeVars, queueVars, serving, commit, run>>

\* A decision on a tool call wakes its turn when it was the last one awaited.
Resolve(c, decision) ==
    LET t == TurnOf[c] IN
    /\ call[c] = "pending_approval" /\ approval[c] = "pending"
    /\ call' = [call EXCEPT ![c] = decision]
    /\ approval' = [approval EXCEPT ![c] = decision]
    /\ status' = [status EXCEPT ![t] =
        IF @ = "waiting_approval" /\ checkpoint[t].saved /\ PendingOf(t) = {c}
        THEN "accepted" ELSE @]
    /\ UNCHANGED <<checkpoint, dispatchVars, inputVars, queueVars, goVars, exchange,
                   worker, commit, run>>

-----------------------------------------------------------------------------
(* Tool calls, as the run asks for them.                                   *)

\* A call to a tool that needs no approval starts at once.
BeginCall(c) ==
    LET t == TurnOf[c] IN
    /\ Live(t) /\ ~run[t].committed /\ Settled(t)
    /\ call[c] = "absent" /\ status[t] \in {"running", "pausing"}
    /\ IF c \in NeedsApproval
       THEN /\ call' = [call EXCEPT ![c] = "pending_approval"]
            /\ approval' = [approval EXCEPT ![c] = "pending"]
            /\ run' = [run EXCEPT ![t].asked = @ \cup {c}]
       ELSE /\ call' = [call EXCEPT ![c] = "running"]
            /\ UNCHANGED <<approval, run>>
    /\ UNCHANGED <<turnVars, dispatchVars, inputVars, queueVars, goVars, exchange,
                   worker, commit>>

\* A resumed run executes the calls approved since.
StartCall(c) ==
    LET t == TurnOf[c] IN
    /\ Live(t) /\ c \in checkpoint[t].pending
    /\ call[c] = "approved" /\ status[t] \in {"running", "pausing"}
    /\ call' = [call EXCEPT ![c] = "running"]
    /\ UNCHANGED <<turnVars, approval, dispatchVars, inputVars, queueVars, goVars,
                   exchange, worker, commit, run>>

\* The result is stored whatever the turn's status has become.
EndCall(c, result) ==
    /\ Live(TurnOf[c]) /\ call[c] = "running"
    /\ call' = [call EXCEPT ![c] = result]
    /\ UNCHANGED <<turnVars, approval, dispatchVars, inputVars, queueVars, goVars,
                   exchange, worker, commit, run>>

\* A run whose stream is gone cancels the calls it has started.
CancelCall(c) ==
    /\ Live(TurnOf[c]) /\ ~Streaming(TurnOf[c]) /\ call[c] = "running"
    /\ call' = [call EXCEPT ![c] = "cancelled"]
    /\ approval' = [approval EXCEPT
                    ![c] = IF @ \in {"pending", "approved"} THEN "cancelled" ELSE @]
    /\ UNCHANGED <<turnVars, dispatchVars, inputVars, queueVars, goVars, exchange,
                   worker, commit, run>>

-----------------------------------------------------------------------------
(* The Go process stops, and starts again.                                 *)

\* The manager's context ends: nothing more is claimed, every worker is cut.
Shutdown ==
    /\ serving /\ serving' = FALSE
    /\ worker' = [k \in Slot |->
        IF k \in Busy THEN [worker[k] EXCEPT !.cut = TRUE] ELSE Idle]
    /\ UNCHANGED <<storeVars, queueVars, cancelling, commit, run>>

\* The process dies at any point and is started again: before the manager
\* runs, RecoverInterruptedAgentTurns ends the turns that were executing.  The
\* sidecar is another process, so its runs may outlive their streams.
Restart ==
    LET lost == {t \in Turn : status[t] \in Executing} IN
    /\ status' = [t \in Turn |-> IF t \notin lost THEN status[t]
                    ELSE IF status[t] = "cancel_requested" THEN "cancelled" ELSE "failed"]
    /\ checkpoint' = [t \in Turn |-> IF t \in lost THEN NoCheckpoint ELSE checkpoint[t]]
    /\ CloseCalls(lost)
    /\ serving' = TRUE
    /\ submission' = [c \in Client |-> NoSubmission]
    /\ worker' = [k \in Slot |-> Idle]
    /\ cancelling' = {}
    /\ commit' = [t \in Turn |-> "none"]
    /\ UNCHANGED <<dispatchVars, inputVars, clock, stamp, exchange, run>>

-----------------------------------------------------------------------------
Submission == \/ \E c \in Client : Admit(c) \/ \E t \in Turn : Stamp(c, t)
              \/ \E k \in Slot, t \in Turn : Reserve(k, t)

Dispatch == \E K \in SUBSET (Slot \ Busy) : \E seat \in [K -> Runnable] : Claim(seat)

Worker(k) ==
    \/ AdmitDirect(k) \/ Register(k) \/ Start(k)
    \/ PrepareFails(k) \/ ContextFails(k) \/ StartRun(k) \/ StreamBreaks(k)
    \/ ForwardPause(k) \/ IncludeInputs(k)
    \/ \E event \in Final : RunEnds(k, event)
    \/ PersistEvent(k) \/ PersistCut(k) \/ FinishRead(k) \/ FinishWrite(k)

Commit(t) ==
    \/ SendCommit(t) \/ BeginCommit(t) \/ SaveExchange(t) \/ SaveFails(t)
    \/ CompleteCommit(t) \/ CommitReply(t) \/ CommitLost(t)

User(t) ==
    \/ Pause(t) \/ Resume(t) \/ AppendInput(t) \/ CancelTurn(t) \/ CancelSignal(t)

Tool(c) ==
    \/ BeginCall(c) \/ StartCall(c) \/ CancelCall(c)
    \/ \E result \in {"completed", "failed"} : EndCall(c, result)
    \/ \E decision \in {"approved", "rejected"} : Resolve(c, decision)

Next ==
    \/ Submission \/ Dispatch \/ Shutdown \/ Restart
    \/ \E k \in Slot : Worker(k)
    \/ \E t \in Turn : RunStops(t) \/ ReadInputs(t) \/ Commit(t) \/ User(t)
    \/ \E c \in Call : Tool(c)

Spec == Init /\ [][Next]_vars

-----------------------------------------------------------------------------
(* What must hold.                                                         *)

\* At most one turn of a conversation executes: neither the queue's claims,
\* nor direct admission, nor a commit, nor a restart breaks the exclusion.
OneExecuting ==
    \A t, u \in Turn : Sibling(t, u) =>
        ~(status[t] \in Executing /\ status[u] \in Executing)

\* A run and a commit request live only while their turn executes or after it
\* has ended, and a run is of the current dispatch: a checkpointed turn is
\* never worked on by the run that left it, nor committed from the queue.
RunOwnsTurn ==
    \A t \in Turn :
        /\ Live(t) \/ commit[t] # "none" => status[t] \in Executing \cup Ended
        /\ Live(t) => run[t].generation = generation[t]

\* A turn has at most one worker, of its current dispatch, and the sidecar has
\* no run of the turn when a worker asks for one (it would refuse: 409).
OneWorkerPerTurn ==
    /\ \A j, k \in Busy :
        j # k /\ worker[j].pc # "admitting" /\ worker[k].pc # "admitting"
            => worker[j].turn # worker[k].turn
    /\ \A k \in Busy : worker[k].pc # "admitting" =>
        worker[k].generation = generation[worker[k].turn]
    /\ \A k \in Busy : At(k, "ready") => ~Live(worker[k].turn)

\* No wake-up is lost: a turn that waits for approval has a decision to wait
\* for, and a turn in the queue has none.
WaitsForDecision ==
    \A t \in Turn :
        /\ status[t] = "waiting_approval" => PendingOf(t) # {} /\ checkpoint[t].saved
        /\ status[t] = "accepted" => PendingOf(t) = {}

\* A parked turn can go on: it has a checkpoint if it ever started, which
\* names every call that awaits a decision and no call that is past it.
Resumable ==
    \A t \in Turn : status[t] \in Parked =>
        /\ generation[t] > 0 => checkpoint[t].saved
        /\ PendingOf(t) \subseteq checkpoint[t].pending
        /\ \A c \in checkpoint[t].pending : Consistent(c)

\* New input cannot silently run old approved calls: a turn whose checkpoint
\* holds calls is not on its way to run while the user has added an input and
\* not resumed it since.
OldApprovalsHeld ==
    \A t \in Turn :
        unread[t] /\ checkpoint[t].pending # {} =>
            status[t] \notin {"accepted", "waiting_approval"}

\* A turn the user paused does not go on by itself: neither the answer to an
\* approval, nor an input that would have paused it on its own account, nor a
\* checkpoint stored late takes the pause back.
ManualPauseHolds ==
    \A t \in Turn : held[t] => status[t] \notin {"accepted", "running", "waiting_approval"}

\* The Store's receipts agree with what the model has read.  An input that came
\* after the last dispatch is never receipted, and a turn that may be resumed
\* has in its checkpoint exactly the inputs receipted: the sidecar would refuse
\* to resume from another.
ReceiptsAreRead ==
    \A t \in Turn :
        /\ inputs[t].included <= inputs[t].claimed
        /\ checkpoint[t].saved /\ status[t] \in Parked =>
            checkpoint[t].read = inputs[t].included

\* An ended turn leaves nothing open: no checkpoint, no decision to be asked
\* of the user and, unless it was committed, no call in progress.
EndedHoldsNothing ==
    \A t \in Turn : status[t] \in Ended =>
        /\ ~checkpoint[t].saved /\ PendingOf(t) = {}
        /\ status[t] # "committed" => \A c \in CallsOf(t) : call[c] \notin OpenCall

\* The reply of a turn is not stored behind a cancellation: once the exchange
\* is in the Store the turn is never on its way to being cancelled.
ExchangeNotCancelled ==
    \A t \in exchange : status[t] \in {"committing", "committed", "failed"}

\* A terminal state is final, and committing is the point of no return: it
\* ends committed or failed, whatever the user, the worker or a restart does.
PointOfNoReturn ==
    [][\A t \in Turn :
        /\ status[t] \in Ended => status'[t] = status[t]
        /\ status[t] = "committing" => status'[t] \in {"committing", "committed", "failed"}
        /\ status[t] = "cancel_requested" => status'[t] \in
            {"cancel_requested", "cancelled", "failed"}]_status

-----------------------------------------------------------------------------
(* What the conversation's queue promises, and how the turns keep it.      *)

PhaseOf(s) == CASE s = "absent" -> "absent"
                [] s \in Parked -> "queued"
                [] s \in Executing -> "working"
                [] s = "committed" -> "committed"
                [] OTHER -> "dropped"

Queue == INSTANCE ConversationQueue
            WITH phase <- [t \in Turn |-> PhaseOf(status[t])],
                 ticket <- stamp, answered <- exchange

\* Every step of a turn is a step of the abstract queue, or none: a turn works
\* alone, in its place, and is answered once, whatever is cut, lost or crashes.
ImplementsQueue == Queue!Spec

-----------------------------------------------------------------------------
(* Progress.  A run is bounded by run_timeout_seconds and goroutines run,  *)
(* so every worker goes on.  The dispatcher ticks every 250 ms, so it      *)
(* claims once it can and goes on being able to: weak fairness, because a  *)
(* tick that finds no place is over, and nothing keeps the next place for  *)
(* it.  Nothing else is promised: not the user's commands, nor the signal  *)
(* after a cancel.                                                         *)

Fairness ==
    /\ WF_vars(Dispatch)
    /\ \A k \in Slot : WF_vars(Worker(k))

FairSpec == Spec /\ Fairness

\* A requested cancellation and a begun commit end: although the signal may find
\* no worker, or one that has already stored its last event, and the handler, the
\* run, the stream or the process may be lost between any two transactions.
EndingsEnd ==
    \A t \in Turn :
        status[t] \in {"cancel_requested", "committing"} ~> status[t] \in Ended

\* A turn the queue may run does not stay there while the process serves, unless
\* direct admissions, which reserve a place without queueing, never stop coming: no
\* worker keeps a place for ever, no tick passes it over, and it is claimed after
\* the last of any number of admissions.
RunnableIsClaimed ==
    \A t \in Turn :
        t \in Runnable ~>
            t \notin Runnable \/ ~serving \/ \E k \in Slot : At(k, "admitting")

-----------------------------------------------------------------------------
(* What the documents say, and the code does not keep.                     *)

\* The state machine of agent-turn-streaming.md: a requested cancellation has
\* one way to end, as cancelled.
CancelRequestedEndsCancelled ==
    [][\A t \in Turn : status[t] = "cancel_requested" =>
        status'[t] \in {"cancel_requested", "cancelled"}]_status

\* The turns of one conversation are serial: none starts while another has
\* started and has not ended.
SerialTurns ==
    \A t, u \in Turn : Sibling(t, u) /\ generation[t] > 0 /\ generation[u] > 0 =>
        ~(Unfinished(t) /\ Unfinished(u))
=============================================================================
