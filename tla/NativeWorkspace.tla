--------------------------- MODULE NativeWorkspace ---------------------------
(***************************************************************************)
(* The native workspace of one execution: the lease its SDK clients take,  *)
(* the row of its environment in the Store, the container that holds its   *)
(* files, and the snapshots of them.                                       *)
(*                                                                         *)
(* A call of NativeWorkspaceManager is three parts: a transaction that     *)
(* claims the environment (begin), a call of the engine outside of any     *)
(* transaction, and a transaction that records the outcome (finish).       *)
(* Between them the lease may lapse or change hands, the janitor may close *)
(* the environment, the project may be deleted, the process may die, and   *)
(* the engine may act without an answer.                                   *)
(*                                                                         *)
(* A refused call changes nothing and is no step; neither is one answered  *)
(* from a receipt, nor a renewal of a live lease, by which LeaseLapses is  *)
(* put off.  Files are the set of the effects they hold.  A claim's random *)
(* operation_id is named for the handler that made it, and renamed "lost"  *)
(* in the rows when that handler is gone.                                  *)
(***************************************************************************)
EXTENDS Naturals, Sequences, FiniteSets

CONSTANTS
    Handler,          \* the calls of the manager that may run at once
    Call, FileCall,   \* commands and file mutations; which are the latter
    Request,          \* requests to restore
    MaxGeneration, MaxEnvironment, MaxVersion    \* bounds

ASSUME NameAssumption == {"none", "lost", "janitor"} \cap (Handler \cup Call \cup Request) = {}
ASSUME KindAssumption == FileCall \subseteq Call /\ Call \cap Request = {}
ASSUME BoundAssumption == {MaxGeneration, MaxEnvironment, MaxVersion} \subseteq Nat

VARIABLES
    \* Rows of the Store.
    lease, env, command, restore, saved,
    \* The engine's containers, and their files.
    container, files,
    \* Memory: of the manager's calls, of the janitor, of the SDK's client.
    work, janitor, copy,
    \* History: how often an effect was had.
    acted

rowVars    == <<command, restore, saved>>
engineVars == <<container, files, acted>>
vars == <<lease, env, rowVars, engineVars, work, janitor, copy>>

-----------------------------------------------------------------------------
Environment == 1 .. MaxEnvironment
Operation   == Handler \cup {"none", "lost", "janitor"}

\* held: in time, by the present identity of the execution or by an earlier one,
\* or after lease_until by whoever it was.
Lease == [status : {"none", "reserved", "closing"}, generation : 0 .. MaxGeneration,
          held : {"current", "stale", "lapsed"}]

\* handle: the container's id was recorded.
Env == [id : 0 .. MaxEnvironment, handle : BOOLEAN, op : Operation,
        status : {"absent", "creating", "ready", "blocked", "closing", "closed"}]

\* The row of an effect or of a restoration; files: the snapshot it selected.
NoRow == [status |-> "none", env |-> 0, files |-> {}]
Row   == [status : {"none", "running", "completed", "failed", "deleted"},
          env : 0 .. MaxEnvironment, files : SUBSET Call]
Running(e, data) == [status |-> "running", env |-> e, files |-> data]

Version == [tree : Environment, files : SUBSET Call]

Kind   == {"create", "connect", "shutdown", "command", "export", "restore"}
Result == {"none", "ok", "failed", "preserved", "terminated"}
Idle   == [stage |-> "idle", kind |-> "connect", env |-> 0, generation |-> 0,
           fresh |-> FALSE, handle |-> FALSE, target |-> "none", result |-> "none"]
\* fresh: the environment was being created when the call claimed it.
Work   == [stage : {"idle", "create", "engine", "finish"}, kind : Kind,
           env : 0 .. MaxEnvironment, generation : 0 .. MaxGeneration,
           fresh : BOOLEAN, handle : BOOLEAN,
           target : Call \cup Request \cup {"none"}, result : Result]

\* An archive that a call exported for its client, and the version this one
\* takes to be the last.
NoCopy == [tree |-> 0, files |-> {}, parent |-> 0, generation |-> 0]
Copy   == [tree : 0 .. MaxEnvironment, files : SUBSET Call,
           parent : 0 .. MaxVersion, generation : 0 .. MaxGeneration]

Janitor == [stage : {"idle", "delete", "finish"}, env : 0 .. MaxEnvironment,
            handle : BOOLEAN]
Resting == [stage |-> "idle", env |-> 0, handle |-> FALSE]

\* Every variable has its type; the row of an environment in use knows its
\* container, and one that nothing can work in is claimed by nothing.
TypeOK ==
    /\ lease \in Lease /\ env \in Env
    /\ command \in [Call -> Row] /\ restore \in [Request -> Row]
    /\ saved \in Seq(Version) /\ Len(saved) <= MaxVersion
    /\ container \in [Environment -> {"none", "pending", "up", "gone"}]
    /\ files \in [Environment -> SUBSET Call]
    /\ work \in [Handler -> Work] /\ janitor \in Janitor /\ copy \in [Handler -> Copy]
    /\ acted \in [Call -> Nat]
    /\ env.status = "ready" => env.handle
    /\ env.status \in {"absent", "blocked", "closed"} => env.op = "none"

Init ==
    /\ lease = [status |-> "none", generation |-> 0, held |-> "lapsed"]
    /\ env = [id |-> 0, handle |-> FALSE, op |-> "none", status |-> "absent"]
    /\ command = [c \in Call |-> NoRow] /\ restore = [r \in Request |-> NoRow]
    /\ saved = <<>>
    /\ container = [e \in Environment |-> "none"]
    /\ files = [e \in Environment |-> {}]
    /\ work = [h \in Handler |-> Idle] /\ janitor = Resting
    /\ copy = [h \in Handler |-> NoCopy]
    /\ acted = [c \in Call |-> 0]

-----------------------------------------------------------------------------
(* The lease.  Definitions named Name_... are Name with a bug, to test the *)
(* properties.  A generation stands for the holder it was given to, and    *)
(* the access every call presents is one generation's.                     *)

Access(g) == lease.status = "reserved" /\ lease.generation = g /\ lease.held = "current"

\* First reservation, or takeover by another client once the execution was
\* dispatched again or the lease has lapsed.
Reserve ==
    /\ \/ lease.status = "none"
       \/ lease.status = "reserved" /\ ~Access(lease.generation)
    /\ lease.generation + 1 < MaxGeneration
    /\ lease' = [status |-> "reserved", generation |-> lease.generation + 1,
                 held |-> "current"]
    /\ UNCHANGED <<env, rowVars, engineVars, work, janitor, copy>>

LeaseLapses ==
    /\ lease.held # "lapsed" /\ lease' = [lease EXCEPT !.held = "lapsed"]
    /\ UNCHANGED <<env, rowVars, engineVars, work, janitor, copy>>

\* The execution is dispatched once more: its identity is a new one.
Dispatch ==
    /\ lease.held = "current" /\ lease' = [lease EXCEPT !.held = "stale"]
    /\ UNCHANGED <<env, rowVars, engineVars, work, janitor, copy>>

CloseProject ==
    /\ lease.status = "reserved" /\ lease.generation < MaxGeneration
    /\ lease' = [lease EXCEPT !.status = "closing", !.generation = @ + 1, !.held = "lapsed"]
    /\ command' = [c \in Call |-> IF command[c].status = "none" THEN command[c]
                                  ELSE [command[c] EXCEPT !.status = "deleted"]]
    /\ saved' = <<>>
    /\ UNCHANGED <<env, restore, engineVars, work, janitor, copy>>

-----------------------------------------------------------------------------
(* The transaction that begins an operation.                               *)

\* Every operation begins in an idle handler, for the lease's holder.
Begins(h) == work[h].stage = "idle" /\ Access(lease.generation)

\* createBindingTx: a new environment, and the engine is asked for its
\* container.
Bind(h, kind, target) ==
    /\ env.status \in {"absent", "closed"} /\ env.id < MaxEnvironment
    /\ env' = [id |-> env.id + 1, handle |-> FALSE, op |-> h,
               status |-> "creating"]
    /\ container' = [container EXCEPT ![env.id + 1] = "pending"]
    /\ work' = [work EXCEPT ![h] =
         [stage |-> "create", kind |-> kind, env |-> env.id + 1,
          generation |-> lease.generation, fresh |-> TRUE, handle |-> FALSE,
          target |-> target, result |-> "none"]]

Claimable == env.status = "ready" /\ env.handle /\ env.op = "none"

\* claimBindingTx: the one environment there is, if nothing holds it.
Claim(h, kind, target) ==
    /\ Claimable
    /\ env' = [env EXCEPT !.op = h]
    /\ work' = [work EXCEPT ![h] =
         [stage |-> "engine", kind |-> kind, env |-> env.id,
          generation |-> lease.generation, fresh |-> FALSE, handle |-> TRUE,
          target |-> target, result |-> "none"]]
    /\ UNCHANGED container

\* Ensure: the first environment, unless a snapshot says it was not the first.
Create(h) ==
    /\ Begins(h) /\ env.status = "absent" /\ saved = <<>>
    /\ Bind(h, "create", "none")
    /\ UNCHANGED <<lease, rowVars, files, acted, janitor, copy>>

\* Ensure and Probe of an environment there is.
Connect(h) ==
    /\ Begins(h) /\ Claim(h, "connect", "none")
    /\ UNCHANGED <<lease, rowVars, files, acted, janitor, copy>>

Shutdown(h) ==
    /\ Begins(h) /\ Claim(h, "shutdown", "none")
    /\ UNCHANGED <<lease, rowVars, files, acted, janitor, copy>>

Export(h) ==
    /\ Begins(h) /\ Claim(h, "export", "none")
    /\ UNCHANGED <<lease, rowVars, files, acted, janitor, copy>>

Replayable_Failed(c) == command[c].status \in {"none", "failed"}
Replayable(c) == command[c].status = "none"

\* beginCommand and beginFile: a row for each effect, once.
Command(h, c) ==
    /\ Begins(h) /\ Replayable(c) /\ Claim(h, "command", c)
    /\ command' = [command EXCEPT ![c] = Running(env.id, {})]
    /\ UNCHANGED <<lease, restore, saved, files, acted, janitor, copy>>

\* beginRestore of a new request, into a new environment or the ready one.
Restore(h, r, v) ==
    /\ Begins(h) /\ restore[r].status = "none"
    /\ \/ Bind(h, "restore", r)
       \/ Claim(h, "restore", r)
    /\ restore' = [restore EXCEPT ![r] = Running(env'.id, saved[v].files)]
    /\ UNCHANGED <<lease, command, saved, files, acted, janitor, copy>>

\* A request that was served reconnects to the environment it filled, and to
\* no other.
RestoreAgain(h, r) ==
    /\ Begins(h) /\ restore[r].status = "completed" /\ restore[r].env = env.id
    /\ Claim(h, "connect", "none")
    /\ UNCHANGED <<lease, rowVars, files, acted, janitor, copy>>

-----------------------------------------------------------------------------
(* The engine.  It may always fail, with or without effect, and its answer *)
(* may be lost; "preserved" and "terminated" are failures it vouches for:  *)
(* the files are as they were, or the container was removed.               *)

Up(h) == container[work[h].env] = "up"
Acts(h, K) == work[h].stage = "engine" /\ work[h].kind \in K

Answer(h, result) ==
    work' = [work EXCEPT ![h].stage = "finish", ![h].result = result]

\* An operation cut short takes its container with it; the engine may fail to
\* say so.
Aborts(h) ==
    /\ container' = [container EXCEPT ![work[h].env] = "gone"]
    /\ \E result \in {"terminated", "failed"} : Answer(h, result)

\* The engine carries out, however late, a creation it was sent.
Materialize(e) ==
    /\ container[e] = "pending"
    /\ container' = [container EXCEPT ![e] = "up"]
    /\ UNCHANGED <<lease, env, rowVars, files, acted, work, janitor, copy>>

\* CreateWorkspace answers: with the container, which Restore fills next; with
\* its id and an error; or with neither, whatever became of it.
Created(h) ==
    /\ work[h].stage = "create"
    /\ \/ /\ Up(h)
          /\ work' = [work EXCEPT ![h].handle = TRUE,
                ![h].stage = IF work[h].kind = "restore" THEN "engine" ELSE "finish",
                ![h].result = IF work[h].kind = "restore" THEN "none" ELSE "ok"]
       \/ \E known \in {FALSE, Up(h)} :
            work' = [work EXCEPT ![h].handle = known, ![h].stage = "finish",
                                 ![h].result = "failed"]
    /\ UNCHANGED <<lease, env, rowVars, engineVars, janitor, copy>>

\* ReconnectWorkspace only looks.
Reconnect(h) ==
    /\ Acts(h, {"connect"}) /\ Up(h) /\ Answer(h, "ok")
    /\ UNCHANGED <<lease, env, rowVars, engineVars, janitor, copy>>

\* ExecuteWorkspace and FileWorkspace.
Execute(h) ==
    LET c == work[h].target IN
    /\ Acts(h, {"command"}) /\ Up(h)
    /\ files' = [files EXCEPT ![work[h].env] = @ \cup {c}]
    /\ acted' = [acted EXCEPT ![c] = @ + 1]
    /\ \/ UNCHANGED container /\ \E result \in {"ok", "failed"} : Answer(h, result)
       \/ Aborts(h)
    /\ UNCHANGED <<lease, env, rowVars, janitor, copy>>

\* HydrateWorkspace writes into empty files only, or finds them identical.  A
\* part of the snapshot written before a failure is taken for all of it.
Hydrate(h) ==
    LET e == work[h].env
        data == restore[work[h].target].files IN
    /\ Acts(h, {"restore"}) /\ Up(h) /\ files[e] \in {{}, data}
    /\ files' = [files EXCEPT ![e] = data]
    /\ \E result \in {"ok", "failed"} : Answer(h, result)
    /\ UNCHANGED <<lease, env, rowVars, container, acted, janitor, copy>>

\* ExportWorkspace only reads.
ExportFiles(h) ==
    /\ Acts(h, {"export"}) /\ Up(h) /\ Answer(h, "ok")
    /\ UNCHANGED <<lease, env, rowVars, engineVars, janitor, copy>>

Remove(h) ==
    /\ Acts(h, {"shutdown"}) /\ Up(h)
    /\ container' = [container EXCEPT ![work[h].env] = "gone"]
    /\ \E result \in {"ok", "failed"} : Answer(h, result)
    /\ UNCHANGED <<lease, env, rowVars, files, acted, janitor, copy>>

\* An answer that the files are untouched: the container is busy, its contents
\* are not the snapshot's, the path is refused.
Preserved(h) ==
    /\ Acts(h, {"export", "restore", "command"})
    /\ work[h].kind = "command" => work[h].target \in FileCall
    /\ Answer(h, "preserved")
    /\ UNCHANGED <<lease, env, rowVars, engineVars, janitor, copy>>

\* Cut short before it had an effect.
Interrupted(h) ==
    /\ Acts(h, {"export", "restore", "command"}) /\ Up(h) /\ Aborts(h)
    /\ UNCHANGED <<lease, env, rowVars, files, acted, janitor, copy>>

EngineFails(h) ==
    /\ work[h].stage = "engine" /\ Answer(h, "failed")
    /\ UNCHANGED <<lease, env, rowVars, engineVars, janitor, copy>>

-----------------------------------------------------------------------------
(* The transaction that records the outcome.                               *)

Owns(h) == /\ env.id = work[h].env /\ env.op = h
           /\ env.status \in {"creating", "ready"}

Succeeds(h) == work[h].result = "ok" /\ Access(work[h].generation)

Outcomes_Preserved(h) ==
    CASE Succeeds(h) -> {IF work[h].kind = "shutdown" THEN "closed" ELSE "ready"}
      [] work[h].result = "terminated" -> {"closed"}
      [] OTHER -> {"blocked"} \cup
           IF work[h].result = "preserved" THEN {"ready"} ELSE {}
\* What the environment becomes.  Files vouched for are kept, unless they are
\* those of an environment just created, the access is gone, or the caller is.
Outcomes(h) ==
    CASE Succeeds(h) -> {IF work[h].kind = "shutdown" THEN "closed" ELSE "ready"}
      [] work[h].result = "terminated" -> {"closed"}
      [] OTHER -> {"blocked"} \cup
           IF /\ work[h].result = "preserved" /\ ~work[h].fresh
              /\ Access(work[h].generation) THEN {"ready"} ELSE {}

Freed_NoHandle(h, status) == [env EXCEPT !.status = status, !.op = "none"]
Freed(h, status) ==
    [env EXCEPT !.status = status, !.op = "none", !.handle = @ \/ work[h].handle]

Receipt(h) == IF Succeeds(h) THEN "completed" ELSE "failed"

Finish(h) ==
    LET w == work[h] IN
    /\ w.stage = "finish" /\ Owns(h)
    /\ w.kind = "command" => command[w.target].status = "running"
    /\ \E status \in Outcomes(h) : env' = Freed(h, status)
    /\ command' = IF w.kind # "command" THEN command
                  ELSE [command EXCEPT ![w.target].status = Receipt(h)]
    /\ restore' = IF w.kind # "restore" THEN restore
                  ELSE [restore EXCEPT ![w.target].status = Receipt(h)]
    /\ IF w.kind = "export" /\ Succeeds(h)
       THEN copy' = [copy EXCEPT ![h] =
              [tree |-> w.env, files |-> files[w.env], parent |-> Len(saved),
               generation |-> w.generation]]
       ELSE UNCHANGED copy
    /\ work' = [work EXCEPT ![h] = Idle]
    /\ UNCHANGED <<lease, saved, engineVars, janitor>>

\* What is left of a claim in the rows when its handler is gone.
Orphaned(H) == [env EXCEPT !.op = IF @ \in H THEN "lost" ELSE @]

\* The transaction fails, or finds the rows changed, and changes nothing.
Superseded(h) ==
    /\ work[h].stage = "finish"
    /\ env' = Orphaned({h})
    /\ work' = [work EXCEPT ![h] = Idle]
    /\ UNCHANGED <<lease, rowVars, engineVars, janitor, copy>>

Latest_Any(parent) == parent <= Len(saved)
Latest(parent) == parent = Len(saved)

\* SaveNativeWorkspaceSnapshot: over the version the client takes to be the
\* last, while nothing holds the environment.
Save(h) ==
    /\ copy[h] # NoCopy /\ Access(copy[h].generation)
    /\ env.status = "ready" /\ env.op = "none"
    /\ Latest(copy[h].parent) /\ Len(saved) < MaxVersion
    /\ saved' = Append(saved, [tree |-> copy[h].tree, files |-> copy[h].files])
    /\ copy' = [copy EXCEPT ![h] = NoCopy]
    /\ UNCHANGED <<lease, env, command, restore, engineVars, work, janitor>>

-----------------------------------------------------------------------------
(* The janitor, one loop of the process, and the process.                  *)

Abandoned == \/ lease.status = "closing" \/ lease.held = "lapsed"
             \/ env.status \in {"blocked", "closing"}

Sweep ==
    /\ janitor.stage = "idle"
    /\ env.status \in {"creating", "ready", "blocked", "closing"} /\ Abandoned
    /\ env' = [env EXCEPT !.status = "closing", !.op = "janitor"]
    /\ janitor' = [stage |-> "delete", env |-> env.id, handle |-> env.handle]
    /\ UNCHANGED <<lease, rowVars, engineVars, work, copy>>

\* Unconfirmed: an absent container is no proof of one deleted.
Unconfirmed ==
    /\ janitor' = Resting /\ env' = Orphaned({"janitor"})
    /\ UNCHANGED container

Confirms_Absent(e) ==
    /\ janitor' = [janitor EXCEPT !.stage = "finish"] /\ UNCHANGED env
    /\ container' = IF container[e] = "up" THEN [container EXCEPT ![e] = "gone"] ELSE container
Confirms(e) ==
    /\ container[e] = "up" /\ container' = [container EXCEPT ![e] = "gone"]
    /\ janitor' = [janitor EXCEPT !.stage = "finish"] /\ UNCHANGED env

\* FindWorkspace, when the id was never recorded, and DeleteWorkspace.
DeleteContainer ==
    /\ janitor.stage = "delete" /\ Confirms(janitor.env)
    /\ UNCHANGED <<lease, rowVars, files, acted, work, copy>>

DeleteFails ==
    /\ janitor.stage = "delete" /\ Unconfirmed
    /\ UNCHANGED <<lease, rowVars, files, acted, work, copy>>

\* The container goes and the answer is lost.
DeleteUnanswered ==
    /\ janitor.stage = "delete" /\ container[janitor.env] = "up"
    /\ container' = [container EXCEPT ![janitor.env] = "gone"]
    /\ janitor' = Resting /\ env' = Orphaned({"janitor"})
    /\ UNCHANGED <<lease, rowVars, files, acted, work, copy>>

ConfirmClosed ==
    /\ janitor.stage = "finish"
    /\ env.id = janitor.env /\ env.op = "janitor" /\ env.status = "closing"
    /\ env' = [env EXCEPT !.status = "closed", !.op = "none"]
    /\ command' = [c \in Call |->
         IF command[c].status = "running" /\ command[c].env = env.id
         THEN [command[c] EXCEPT !.status = "failed"] ELSE command[c]]
    /\ janitor' = Resting
    /\ UNCHANGED <<lease, restore, saved, engineVars, work, copy>>

\* The process dies.  The engine and the client do not.
Crash ==
    /\ work' = [h \in Handler |-> Idle] /\ janitor' = Resting
    /\ env' = Orphaned(Handler \cup {"janitor"})
    /\ UNCHANGED <<lease, rowVars, engineVars, copy>>

-----------------------------------------------------------------------------
Client == \/ Reserve
          \/ \E h \in Handler :
               \/ Create(h) \/ Connect(h) \/ Shutdown(h) \/ Export(h) \/ Save(h)
               \/ \E c \in Call : Command(h, c)
               \/ \E r \in Request : \/ \E v \in 1 .. Len(saved) : Restore(h, r, v)
                                     \/ RestoreAgain(h, r)

Engine(h) == \/ Created(h) \/ Reconnect(h) \/ Execute(h) \/ Hydrate(h) \/ ExportFiles(h)
             \/ Remove(h) \/ Preserved(h) \/ Interrupted(h) \/ EngineFails(h)

Clean == Sweep \/ DeleteContainer \/ DeleteFails \/ DeleteUnanswered \/ ConfirmClosed

Next ==
    \/ Client
    \/ \E h \in Handler : Engine(h) \/ Finish(h) \/ Superseded(h)
    \/ Clean
    \/ \E e \in Environment : Materialize(e)
    \/ LeaseLapses \/ Dispatch \/ CloseProject \/ Crash

Spec == Init /\ [][Next]_vars

-----------------------------------------------------------------------------
(* Properties.                                                             *)

\* No container is forgotten: one that the engine has, or may still create, is
\* the current environment's, and that environment is not closed.  A lost
\* creation, a late answer, a crash or a cleanup leaves none behind.
ContainersAccounted ==
    \A e \in Environment : container[e] \in {"pending", "up"} =>
        e = env.id /\ env.status # "closed"

Confirmed == {c \in Call : command[c].status = "completed"}

\* No effect is had twice, and none that was not had is confirmed.
ActsOnce == \A c \in Call : acted[c] <= 1 /\ (c \in Confirmed => acted[c] = 1)

\* The files of an environment that is ready and unclaimed are just what the
\* receipts say: they hold every effect confirmed in it and every snapshot it
\* was filled with, and nothing unconfirmed.
FilesAsConfirmed ==
    lease.status # "closing" /\ Claimable =>
        /\ files[env.id] \subseteq Confirmed
        /\ \A c \in Confirmed : command[c].env = env.id => c \in files[env.id]
        /\ \A r \in Request : restore[r].status = "completed" /\ restore[r].env = env.id =>
             restore[r].files \subseteq files[env.id]

\* The receipts of effects and restorations are true, whoever asked again, and
\* whatever was cut off between the engine and the Store.
ReceiptsAreTrue == ActsOnce /\ FilesAsConfirmed

Promise == INSTANCE WorkspaceFiles WITH
    Tree <- Environment, Effect <- Call,
    files <- [e \in Environment |-> files[e] \cap Confirmed],
    live <- IF env.status = "ready" /\ lease.status # "closing" THEN env.id ELSE 0,
    dropped <- {e \in Environment : \/ e < env.id
                                    \/ e = env.id /\ env.status \notin {"creating", "ready"}}

\* Every step of the workspace keeps the promise, or changes nothing of it.
KeepsFiles == Promise!Spec
=============================================================================
