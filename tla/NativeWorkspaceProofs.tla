------------------------ MODULE NativeWorkspaceProofs ------------------------
(* The invariant Known of NativeWorkspace is inductive: types, what a call *)
(* in progress and the rows know of its environment, and the containers    *)
(* accounted for.                                                          *)
EXTENDS NativeWorkspace, TLAPS

USE DEF rowVars, engineVars

-----------------------------------------------------------------------------
(* The parts of the invariant.                                             *)

Busy(h)    == work[h].stage # "idle"
Runs(h, k) == Busy(h) /\ work[h].kind = k
Ends(h, result) == work[h].stage = "finish" /\ work[h].result = result

\* Nothing is later than the environment there is.
Placed ==
    /\ env.status = "absent" <=> env.id = 0
    /\ \A h \in Handler : Busy(h) => work[h].env \in 1 .. env.id
    /\ janitor.stage # "idle" => janitor.env \in 1 .. env.id
    /\ \A c \in Call : command[c].env <= env.id
    /\ \A r \in Request : restore[r].env <= env.id
    /\ \A e \in Environment : e > env.id => files[e] = {}
    /\ \A h \in Handler : copy[h] # NoCopy => copy[h].tree \in 1 .. env.id

\* What a call in progress knows, and the row it was begun with.
BegunBy(h) ==
    /\ work[h].stage = "create" => work[h].fresh /\ work[h].kind \in {"create", "restore"}
    /\ work[h].stage = "engine" => work[h].kind # "create" /\ work[h].handle
    /\ work[h].stage = "finish" => work[h].result \in {"failed", "terminated"} \/ work[h].handle
    /\ work[h].stage = "finish" <=> work[h].result # "none"
    /\ Runs(h, "create") => work[h].fresh
    /\ Busy(h) /\ work[h].fresh => work[h].kind \in {"create", "restore"}
    /\ Runs(h, "command") => /\ work[h].target \in Call
                             /\ command[work[h].target].status # "none"
                             /\ command[work[h].target].env = work[h].env
    /\ Runs(h, "restore") => /\ work[h].target \in Request
                             /\ restore[work[h].target].status # "none"
                             /\ restore[work[h].target].env = work[h].env
Begun == \A h \in Handler : BegunBy(h)

\* A container somebody says is gone is gone.
Removed ==
    /\ \A h \in Handler :
         Ends(h, "terminated") \/ (Ends(h, "ok") /\ work[h].kind = "shutdown") =>
             container[work[h].env] = "gone"
    /\ janitor.stage = "finish" => container[janitor.env] = "gone"

\* The inductive invariant.
Known == TypeOK /\ Placed /\ Begun /\ Removed /\ ContainersAccounted

-----------------------------------------------------------------------------
(* Types.                                                                  *)

LEMMA Environments == Environment \subseteq 0 .. MaxEnvironment /\ 0 \in 0 .. MaxEnvironment
BY BoundAssumption DEF Environment

LEMMA IdleTyped == Idle \in Work
BY Environments, BoundAssumption DEF Idle, Work, Kind, Result

LEMMA RestingTyped == Resting \in Janitor
BY Environments DEF Resting, Janitor

LEMMA NoCopyTyped == NoCopy \in Copy
BY Environments, BoundAssumption DEF NoCopy, Copy

LEMMA NoRowTyped == NoRow \in Row
BY Environments DEF NoRow, Row

LEMMA InitTyped == Init => TypeOK
<1>. SUFFICES ASSUME Init PROVE TypeOK
  OBVIOUS
<1>1. lease \in Lease
  BY BoundAssumption DEF Init, Lease
<1>2. env \in Env
  BY Environments DEF Init, Env, Operation
<1>3. saved \in Seq(Version) /\ Len(saved) <= MaxVersion
  BY BoundAssumption DEF Init
<1>. QED
  BY <1>1, <1>2, <1>3, IdleTyped, RestingTyped, NoCopyTyped, NoRowTyped DEF Init, TypeOK

-----------------------------------------------------------------------------
(* What changes each variable.                                             *)

\* What a claim leaves alone, and the two kinds of it with all that each changes.
OthersKept == lease' = lease /\ saved' = saved /\ files' = files /\ acted' = acted
        /\ janitor' = janitor /\ copy' = copy
Binds ==
    \E h \in Handler, kind \in {"create", "restore"}, target \in Call \cup Request \cup {"none"} :
      /\ Begins(h) /\ Bind(h, kind, target) /\ OthersKept /\ command' = command
      /\ kind = "create" => env.status = "absent" /\ saved = <<>> /\ restore' = restore
      /\ kind = "restore" => target \in Request /\ \E v \in 1 .. Len(saved) : Restore(h, target, v)
Claims ==
    \E h \in Handler, kind \in Kind \ {"create"}, target \in Call \cup Request \cup {"none"} :
      /\ Begins(h) /\ Claim(h, kind, target) /\ OthersKept
      /\ IF kind = "command" THEN target \in Call /\ Command(h, target) ELSE command' = command
      /\ IF kind = "restore"
         THEN target \in Request /\ \E v \in 1 .. Len(saved) : Restore(h, target, v)
         ELSE restore' = restore

LEMMA ClientSteps ==
  Client => Reserve \/ Binds \/ Claims \/ \E h \in Handler : Save(h)
<1>1. ASSUME NEW h \in Handler, Create(h) PROVE Binds
  BY <1>1 DEF Create, Binds, OthersKept
<1>2. ASSUME NEW h \in Handler, NEW kind \in {"connect", "shutdown", "export"},
             Begins(h), Claim(h, kind, "none"),
             UNCHANGED <<lease, rowVars, files, acted, janitor, copy>>
      PROVE  Claims
  BY <1>2 DEF Claims, OthersKept, Kind
<1>3. ASSUME NEW h \in Handler, NEW c \in Call, Command(h, c) PROVE Claims
  <2>1. Begins(h) /\ Claim(h, "command", c) /\ OthersKept /\ restore' = restore
    BY <1>3 DEF Command, OthersKept
  <2>. QED
    BY <1>3, <2>1 DEF Claims, Kind
<1>4. ASSUME NEW h \in Handler, NEW r \in Request, NEW v \in 1 .. Len(saved), Restore(h, r, v)
      PROVE  Binds \/ Claims
  <2>1. Begins(h) /\ (Bind(h, "restore", r) \/ Claim(h, "restore", r)) /\ OthersKept /\ command' = command
    BY <1>4 DEF Restore, OthersKept
  <2>. QED
    BY <1>4, <2>1 DEF Binds, Claims, Kind
<1>. QED
  BY <1>1, <1>2, <1>3, <1>4 DEF Client, Connect, Shutdown, Export, RestoreAgain

LEMMA LeaseChanges ==
  [Next]_vars => UNCHANGED lease \/ Reserve \/ LeaseLapses \/ Dispatch \/ CloseProject
BY DEF vars, Next, Client, Engine, Clean, Create, Connect, Shutdown, Export, Save, Command,
  Restore, RestoreAgain, Created, Reconnect, Execute, Hydrate, ExportFiles, Remove, Preserved,
  Interrupted, EngineFails, Finish, Superseded, Sweep, DeleteContainer, DeleteFails,
  DeleteUnanswered, ConfirmClosed, Materialize, Crash

LEMMA EnvChanges ==
  [Next]_vars =>
    \/ UNCHANGED env \/ Binds \/ Claims
    \/ \E h \in Handler : Finish(h) \/ env' = Orphaned({h})
    \/ Sweep \/ env' = Orphaned({"janitor"}) \/ ConfirmClosed \/ env' = Orphaned(Handler \cup {"janitor"})
BY ClientSteps DEF Save, Reserve, vars, Next, Engine, Clean, Created, Reconnect, Execute, Hydrate,
  ExportFiles, Remove, Preserved, Interrupted, EngineFails, Superseded, DeleteContainer, DeleteFails,
  Unconfirmed, Confirms, LeaseLapses, Dispatch, CloseProject, DeleteUnanswered, Materialize, Crash

LEMMA RowChanges ==
  [Next]_vars =>
    /\ \/ UNCHANGED command \/ CloseProject \/ ConfirmClosed
       \/ \E h \in Handler : Finish(h) \/ \E c \in Call : Command(h, c)
    /\ \/ UNCHANGED restore
       \/ \E h \in Handler : Finish(h) \/ \E r \in Request, v \in 1 .. Len(saved) : Restore(h, r, v)
    /\ UNCHANGED saved \/ CloseProject \/ \E h \in Handler : Save(h)
    /\ UNCHANGED copy \/ \E h \in Handler : Save(h) \/ Finish(h)
BY DEF Binds, Claims, OthersKept, Kind, vars, Next, Client, Engine, Clean, Create, Connect,
  Shutdown, Export, Save, Command,
  Restore, RestoreAgain, Created, Reconnect, Execute, Hydrate, ExportFiles, Remove, Preserved,
  Interrupted, EngineFails, Finish, Superseded, Sweep, DeleteContainer, DeleteFails, Reserve, LeaseLapses,
  Dispatch, CloseProject, DeleteUnanswered, ConfirmClosed, Materialize, Crash

LEMMA EngineChanges ==
  [Next]_vars =>
    /\ \/ UNCHANGED container \/ Binds \/ DeleteContainer \/ DeleteUnanswered
       \/ \E h \in Handler : Execute(h) \/ Remove(h) \/ Interrupted(h)
       \/ \E e \in Environment : Materialize(e)
    /\ UNCHANGED files \/ \E h \in Handler : Execute(h) \/ Hydrate(h)
    /\ UNCHANGED acted \/ \E h \in Handler : Execute(h)
BY DEF Binds, OthersKept, vars, Next, Client, Engine, Clean, Create, Connect, Shutdown, Export,
  Save, Command,
  Restore, RestoreAgain, Claim, Created, Reconnect, Hydrate, ExportFiles, Preserved,
  EngineFails, Remove, Interrupted, DeleteContainer, DeleteUnanswered, Finish, Superseded, Sweep,
  DeleteFails, Unconfirmed, Reserve, LeaseLapses,
  Dispatch, CloseProject, ConfirmClosed, Materialize, Crash

LEMMA WorkChanges ==
  [Next]_vars =>
    /\ \/ UNCHANGED work \/ Binds \/ Claims \/ Crash
       \/ \E h \in Handler : Engine(h) \/ Finish(h) \/ Superseded(h)
    /\ UNCHANGED janitor \/ Clean \/ Crash
BY ClientSteps DEF Save, Reserve, Binds, Claims, OthersKept, vars, Next, Engine, Created,
  Reconnect, Execute,
  Hydrate, ExportFiles, Remove, Preserved, Interrupted, EngineFails, Clean, Finish, Superseded, Sweep,
  DeleteContainer, DeleteFails, LeaseLapses, Dispatch, CloseProject, DeleteUnanswered, ConfirmClosed,
  Materialize

-----------------------------------------------------------------------------
(* What an answer of the engine, and the claim of an environment, record.  *)

LEMMA Answered ==
  ASSUME TypeOK, NEW h \in Handler, Engine(h)
  PROVE  /\ work' \in [Handler -> Work]
         /\ \A g \in Handler \ {h} : work'[g] = work[g]
         /\ work'[h].kind = work[h].kind /\ work'[h].env = work[h].env
         /\ work'[h].generation = work[h].generation
         /\ work'[h].fresh = work[h].fresh /\ work'[h].target = work[h].target
         /\ \/ /\ work[h].stage = "engine" /\ work'[h].stage = "finish"
               /\ work'[h].handle = work[h].handle /\ work'[h].result # "none"
            \/ /\ work[h].stage = "create" /\ work'[h].stage = "engine"
               /\ work'[h].handle /\ work'[h].result = "none" /\ work[h].kind = "restore"
            \/ /\ work[h].stage = "create" /\ work'[h].stage = "finish"
               /\ work'[h].handle /\ work'[h].result = "ok" /\ work[h].kind # "restore"
            \/ /\ work[h].stage = "create" /\ work'[h].stage = "finish"
               /\ work'[h].result = "failed"
<1>1. work \in [Handler -> Work] /\ work[h] \in Work
  BY DEF TypeOK
<1>2. ASSUME NEW result \in Result \ {"none"}, Answer(h, result), work[h].stage = "engine" PROVE
        /\ work' \in [Handler -> Work]
        /\ \A g \in Handler \ {h} : work'[g] = work[g]
        /\ work'[h].kind = work[h].kind /\ work'[h].env = work[h].env
        /\ work'[h].generation = work[h].generation
        /\ work'[h].fresh = work[h].fresh /\ work'[h].target = work[h].target
        /\ work[h].stage = "engine" /\ work'[h].stage = "finish"
        /\ work'[h].handle = work[h].handle /\ work'[h].result # "none"
  BY <1>1, <1>2 DEF Answer, Work
<1>3. CASE Created(h)
  <2>1. CASE Up(h) /\ work' = [work EXCEPT ![h].handle = TRUE,
                ![h].stage = IF work[h].kind = "restore" THEN "engine" ELSE "finish",
                ![h].result = IF work[h].kind = "restore" THEN "none" ELSE "ok"]
    BY <1>1, <1>3, <2>1 DEF Created, Work, Result
  <2>2. CASE \E known \in {FALSE, Up(h)} :
            work' = [work EXCEPT ![h].handle = known, ![h].stage = "finish",
                                 ![h].result = "failed"]
    BY <1>1, <1>3, <2>2 DEF Created, Work, Result, Up
  <2>. QED
    BY <1>3, <2>1, <2>2 DEF Created
<1>4. CASE ~Created(h)
  <2>1. /\ \E result \in Result \ {"none"} : Answer(h, result)
        /\ work[h].stage = "engine"
    BY <1>4 DEF Engine, Reconnect, Execute, Hydrate, ExportFiles, Remove, Preserved,
         Interrupted, EngineFails, Acts, Aborts, Result
  <2>. QED
    BY <1>2, <2>1
<1>. QED
  BY <1>3, <1>4

\* h binds a new environment, and that is all it does; likewise h claims the one
\* there is.
BindsBy(h) ==
    /\ work[h].stage = "idle" /\ Access(lease.generation)
    /\ env.status \in {"absent", "closed"} /\ env.id + 1 \in Environment
    /\ env' = [id |-> env.id + 1, handle |-> FALSE, op |-> h, status |-> "creating"]
    /\ container' = [container EXCEPT ![env.id + 1] = "pending"]
    /\ work' \in [Handler -> Work] /\ \A g \in Handler \ {h} : work'[g] = work[g]
    /\ work'[h].stage = "create" /\ work'[h].kind \in {"create", "restore"}
    /\ work'[h].env = env.id + 1 /\ work'[h].generation = lease.generation
    /\ work'[h].fresh /\ ~work'[h].handle /\ work'[h].result = "none"
    /\ OthersKept /\ command' = command
    /\ work'[h].kind = "create" =>
         env.status = "absent" /\ saved = <<>> /\ restore' = restore
    /\ work'[h].kind = "restore" =>
         /\ work'[h].target \in Request /\ restore[work'[h].target].status = "none"
         /\ restore'[work'[h].target].status = "running"
         /\ restore'[work'[h].target].env = env.id + 1
         /\ \E v \in 1 .. Len(saved) : restore'[work'[h].target].files = saved[v].files
         /\ \A r \in Request \ {work'[h].target} : restore'[r] = restore[r]
ClaimsBy(h) ==
    /\ work[h].stage = "idle" /\ Claimable /\ Access(lease.generation)
    /\ env' = [env EXCEPT !.op = h] /\ container' = container
    /\ work' \in [Handler -> Work] /\ \A g \in Handler \ {h} : work'[g] = work[g]
    /\ work'[h].stage = "engine" /\ work'[h].kind # "create" /\ work'[h].env = env.id
    /\ work'[h].generation = lease.generation
    /\ ~work'[h].fresh /\ work'[h].handle /\ work'[h].result = "none"
    /\ OthersKept
    /\ work'[h].kind # "command" => command' = command
    /\ work'[h].kind = "command" =>
         /\ work'[h].target \in Call /\ command[work'[h].target].status = "none"
         /\ command'[work'[h].target].status = "running"
         /\ command'[work'[h].target].env = env.id
         /\ \A c \in Call \ {work'[h].target} : command'[c] = command[c]
    /\ work'[h].kind # "restore" => restore' = restore
    /\ work'[h].kind = "restore" =>
         /\ work'[h].target \in Request /\ restore[work'[h].target].status = "none"
         /\ restore'[work'[h].target].status = "running"
         /\ restore'[work'[h].target].env = env.id
         /\ \E v \in 1 .. Len(saved) : restore'[work'[h].target].files = saved[v].files
         /\ \A r \in Request \ {work'[h].target} : restore'[r] = restore[r]

LEMMA Selects ==
  ASSUME TypeOK, NEW h \in Handler, NEW r \in Request, NEW v \in 1 .. Len(saved), Restore(h, r, v)
  PROVE  /\ restore[r].status = "none" /\ restore'[r].status = "running"
         /\ restore'[r].env = env'.id /\ restore'[r].files = saved[v].files
         /\ \A q \in Request \ {r} : restore'[q] = restore[q]
BY DEF TypeOK, Restore, Running

LEMMA Bound == ASSUME TypeOK, Binds PROVE \E h \in Handler : BindsBy(h)
<1>1. PICK h \in Handler, kind \in {"create", "restore"}, target \in Call \cup Request \cup {"none"} :
        /\ Begins(h) /\ Bind(h, kind, target) /\ OthersKept /\ command' = command
        /\ kind = "create" => env.status = "absent" /\ saved = <<>> /\ restore' = restore
        /\ kind = "restore" => target \in Request /\ \E v \in 1 .. Len(saved) : Restore(h, target, v)
  BY DEF Binds
<1>2. env \in Env /\ lease \in Lease /\ work \in [Handler -> Work]
  BY DEF TypeOK
<1> DEFINE w == [stage |-> "create", kind |-> kind, env |-> env.id + 1,
                 generation |-> lease.generation, fresh |-> TRUE, handle |-> FALSE,
                 target |-> target, result |-> "none"]
<1>3. env.id + 1 \in Environment
  BY <1>1, <1>2, BoundAssumption DEF Bind, Env, Environment
<1>4. w \in Work
  BY <1>2, <1>3, BoundAssumption DEF Work, Kind, Result, Lease, Environment
<1>5. work' = [work EXCEPT ![h] = w]
  BY <1>1 DEF Bind
<1>6. work'[h] = w /\ work' \in [Handler -> Work] /\ \A g \in Handler \ {h} : work'[g] = work[g]
  BY <1>2, <1>4, <1>5
<1>7. kind = "restore" =>
        /\ target \in Request /\ restore[target].status = "none"
        /\ restore'[target].status = "running" /\ restore'[target].env = env'.id
        /\ \E v \in 1 .. Len(saved) : restore'[target].files = saved[v].files
        /\ \A r \in Request \ {target} : restore'[r] = restore[r]
  BY <1>1, Selects
<1>8. /\ env' = [id |-> env.id + 1, handle |-> FALSE, op |-> h, status |-> "creating"]
      /\ env'.id = env.id + 1
  BY <1>1 DEF Bind
<1>9. /\ w.stage = "create" /\ w.kind = kind /\ w.env = env.id + 1 /\ w.generation = lease.generation
      /\ w.fresh /\ ~w.handle /\ w.result = "none" /\ w.target = target
  OBVIOUS
<1>. QED
  BY <1>1, <1>2, <1>3, <1>6, <1>7, <1>8, <1>9 DEF BindsBy, Bind, Begins

LEMMA Claimed == ASSUME TypeOK, Claims PROVE \E h \in Handler : ClaimsBy(h)
<1>1. PICK h \in Handler, kind \in Kind \ {"create"}, target \in Call \cup Request \cup {"none"} :
        /\ Begins(h) /\ Claim(h, kind, target) /\ OthersKept
        /\ IF kind = "command" THEN target \in Call /\ Command(h, target) ELSE command' = command
        /\ IF kind = "restore"
           THEN target \in Request /\ \E v \in 1 .. Len(saved) : Restore(h, target, v)
           ELSE restore' = restore
  BY DEF Claims
<1>2. env \in Env /\ lease \in Lease /\ work \in [Handler -> Work]
  BY DEF TypeOK
<1> DEFINE w == [stage |-> "engine", kind |-> kind, env |-> env.id,
                 generation |-> lease.generation, fresh |-> FALSE, handle |-> TRUE,
                 target |-> target, result |-> "none"]
<1>3. w \in Work
  BY <1>2, BoundAssumption DEF Work, Kind, Result, Lease, Env
<1>4. work' = [work EXCEPT ![h] = w]
  BY <1>1 DEF Claim
<1>5. work'[h] = w /\ work' \in [Handler -> Work] /\ \A g \in Handler \ {h} : work'[g] = work[g]
  BY <1>2, <1>3, <1>4
<1>6. env' = [env EXCEPT !.op = h] /\ env'.id = env.id
  BY <1>1, <1>2 DEF Claim, Env
<1>7. kind = "restore" =>
        /\ target \in Request /\ restore[target].status = "none"
        /\ restore'[target].status = "running" /\ restore'[target].env = env'.id
        /\ \E v \in 1 .. Len(saved) : restore'[target].files = saved[v].files
        /\ \A r \in Request \ {target} : restore'[r] = restore[r]
  BY <1>1, Selects
<1>8. kind = "command" =>
        /\ target \in Call /\ command[target].status = "none"
        /\ command'[target].status = "running" /\ command'[target].env = env.id
        /\ \A c \in Call \ {target} : command'[c] = command[c]
  BY <1>1 DEF Command, Replayable, Running, TypeOK
<1>. QED
  BY <1>1, <1>5, <1>6, <1>7, <1>8 DEF ClaimsBy, Claim, Begins

-----------------------------------------------------------------------------
(* Types are kept.                                                         *)

LEMMA LeaseTyped == ASSUME TypeOK, [Next]_vars PROVE lease' \in Lease
<1>1. lease \in Lease
  BY DEF TypeOK
<1>2. CASE Reserve
  <2>1. lease.generation + 1 \in 0 .. MaxGeneration
    BY <1>1, <1>2, BoundAssumption DEF Reserve, Lease
  <2>. QED
    BY <1>2, <2>1 DEF Reserve, Lease
<1>3. CASE LeaseLapses
  BY <1>1, <1>3 DEF LeaseLapses, Lease
<1>4. CASE Dispatch
  BY <1>1, <1>4 DEF Dispatch, Lease
<1>5. CASE CloseProject
  <2>1. lease.generation + 1 \in 0 .. MaxGeneration
    BY <1>1, <1>5, BoundAssumption DEF CloseProject, Lease
  <2>. QED
    BY <1>1, <1>5, <2>1 DEF CloseProject, Lease
<1>. QED
  BY <1>1, <1>2, <1>3, <1>4, <1>5, LeaseChanges

LEMMA EnvTyped ==
  ASSUME TypeOK, Begun, [Next]_vars
  PROVE  /\ env' \in Env
         /\ env'.status = "ready" => env'.handle
         /\ env'.status \in {"absent", "blocked", "closed"} => env'.op = "none"
<1>1. /\ env \in Env
      /\ env.status = "ready" => env.handle
      /\ env.status \in {"absent", "blocked", "closed"} => env.op = "none"
  BY DEF TypeOK
<1>2. CASE UNCHANGED env
  BY <1>1, <1>2
<1>3. CASE Binds
  <2>1. PICK h \in Handler :
          /\ env.id + 1 \in Environment
          /\ env' = [id |-> env.id + 1, handle |-> FALSE, op |-> h, status |-> "creating"]
    BY <1>3, Bound DEF BindsBy
  <2>. QED
    BY <2>1, Environments DEF Env, Operation
<1>4. CASE Claims
  BY <1>4, <1>1, Claimed DEF ClaimsBy, Env, Operation, Claimable
<1>5. ASSUME NEW h \in Handler, Finish(h) PROVE
        /\ env' \in Env
        /\ env'.status = "ready" => env'.handle
        /\ env'.status \in {"absent", "blocked", "closed"} => env'.op = "none"
  <2>1. PICK status \in Outcomes(h) : env' = Freed(h, status)
    BY <1>5 DEF Finish
  <2>2. status \in {"ready", "closed", "blocked"}
    BY DEF Outcomes
  <2>3. work[h] \in Work
    BY DEF TypeOK
  <2>4. status = "ready" => work[h].handle
    BY <1>5, <2>1 DEF Outcomes, Succeeds, Begun, BegunBy, Finish
  <2>. QED
    BY <1>1, <2>1, <2>2, <2>3, <2>4 DEF Freed, Env, Operation, Work
<1>6. ASSUME NEW H, env' = Orphaned(H), H \subseteq Handler \cup {"janitor"} PROVE
        /\ env' \in Env
        /\ env'.status = "ready" => env'.handle
        /\ env'.status \in {"absent", "blocked", "closed"} => env'.op = "none"
  BY <1>1, <1>6, NameAssumption DEF Orphaned, Env, Operation
<1>7. CASE Sweep
  BY <1>7, <1>1 DEF Sweep, Env, Operation
<1>8. CASE ConfirmClosed
  BY <1>8, <1>1 DEF ConfirmClosed, Env, Operation
<1>. QED
  BY <1>2, <1>3, <1>4, <1>5, <1>6, <1>7, <1>8, EnvChanges

LEMMA RowsTyped ==
  ASSUME TypeOK, [Next]_vars
  PROVE  command' \in [Call -> Row] /\ restore' \in [Request -> Row]
<1>1. command \in [Call -> Row] /\ restore \in [Request -> Row] /\ env \in Env /\ work \in [Handler -> Work]
  BY DEF TypeOK
<1>0. ASSUME NEW row \in Row, NEW status \in {"completed", "failed", "deleted"}
      PROVE  [row EXCEPT !.status = status] \in Row
  BY DEF Row
<1>2. ASSUME CloseProject PROVE command' \in [Call -> Row]
  BY <1>0, <1>1, <1>2 DEF CloseProject
<1>3. ASSUME ConfirmClosed PROVE command' \in [Call -> Row]
  BY <1>0, <1>1, <1>3 DEF ConfirmClosed
<1>4. ASSUME NEW h \in Handler, Finish(h)
      PROVE  command' \in [Call -> Row] /\ restore' \in [Request -> Row]
  <2>1. Receipt(h) \in {"completed", "failed"}
    BY DEF Receipt
  <2>2. command' \in [Call -> Row]
    <3>1. command' = IF work[h].kind # "command" THEN command
                     ELSE [command EXCEPT ![work[h].target] =
                             [command[work[h].target] EXCEPT !.status = Receipt(h)]]
      BY <1>4 DEF Finish
    <3>2. ASSUME work[h].target \in Call
          PROVE  [command[work[h].target] EXCEPT !.status = Receipt(h)] \in Row
      BY <1>0, <1>1, <2>1, <3>2
    <3>. QED
      BY <1>1, <3>1, <3>2
  <2>3. restore' \in [Request -> Row]
    <3>1. restore' = IF work[h].kind # "restore" THEN restore
                     ELSE [restore EXCEPT ![work[h].target] =
                             [restore[work[h].target] EXCEPT !.status = Receipt(h)]]
      BY <1>4 DEF Finish
    <3>2. ASSUME work[h].target \in Request
          PROVE  [restore[work[h].target] EXCEPT !.status = Receipt(h)] \in Row
      BY <1>0, <1>1, <2>1, <3>2
    <3>. QED
      BY <1>1, <3>1, <3>2
  <2>. QED
    BY <2>2, <2>3
<1>5. ASSUME NEW h \in Handler, NEW c \in Call, Command(h, c)
      PROVE  command' \in [Call -> Row]
  BY <1>1, <1>5 DEF Command, Row, Running, Env
<1>6. ASSUME NEW h \in Handler, NEW r \in Request, NEW v \in 1 .. Len(saved), Restore(h, r, v)
      PROVE  restore' \in [Request -> Row]
  <2>1. env'.id \in 0 .. MaxEnvironment
    BY <1>1, <1>6, BoundAssumption DEF Restore, Bind, Claim, Env
  <2>2. saved[v].files \in SUBSET Call
    <3>1. saved \in Seq(Version)
      BY DEF TypeOK
    <3>2. saved[v] \in Version
      BY <3>1
    <3>. QED
      BY <3>2 DEF Version
  <2>. QED
    BY <1>1, <1>6, <2>1, <2>2 DEF Restore, Row, Running
<1>. QED
  BY <1>1, <1>2, <1>3, <1>4, <1>5, <1>6, RowChanges DEF CloseProject, ConfirmClosed

LEMMA SavedTyped ==
  ASSUME TypeOK, Placed, [Next]_vars
  PROVE  saved' \in Seq(Version) /\ Len(saved') <= MaxVersion
<1>1. saved \in Seq(Version) /\ Len(saved) <= MaxVersion
  BY DEF TypeOK
<1>2. CASE CloseProject
  BY <1>2, BoundAssumption DEF CloseProject
<1>3. ASSUME NEW h \in Handler, Save(h)
      PROVE  saved' \in Seq(Version) /\ Len(saved') <= MaxVersion
  <2>1. [tree |-> copy[h].tree, files |-> copy[h].files] \in Version
    <3>1. copy[h] \in Copy /\ env \in Env
      BY DEF TypeOK
    <3>2. copy[h].tree \in Environment
      BY <1>3, <3>1, BoundAssumption DEF Save, Placed, Environment, Env
    <3>. QED
      BY <3>1, <3>2 DEF Version, Copy
  <2>. QED
    BY <1>1, <1>3, <2>1, BoundAssumption DEF Save
<1>. QED
  BY <1>1, <1>2, <1>3, RowChanges

LEMMA EngineTyped ==
  ASSUME TypeOK, Begun, [Next]_vars
  PROVE  /\ container' \in [Environment -> {"none", "pending", "up", "gone"}]
         /\ files' \in [Environment -> SUBSET Call]
         /\ acted' \in [Call -> Nat]
<1>1. /\ container \in [Environment -> {"none", "pending", "up", "gone"}]
      /\ files \in [Environment -> SUBSET Call] /\ acted \in [Call -> Nat]
      /\ work \in [Handler -> Work] /\ restore \in [Request -> Row]
  BY DEF TypeOK
<1>2. container' \in [Environment -> {"none", "pending", "up", "gone"}]
  BY <1>1, EngineChanges, Bound DEF BindsBy, DeleteContainer, Confirms, DeleteUnanswered,
    Execute, Aborts,
     Remove, Interrupted, Materialize
<1>3. files' \in [Environment -> SUBSET Call]
  <2>1. ASSUME NEW h \in Handler, Execute(h) PROVE files' \in [Environment -> SUBSET Call]
    <3>1. work[h].target \in Call
      BY <2>1 DEF Execute, Acts, Begun, BegunBy, Runs, Busy
    <3>. QED
      BY <1>1, <2>1, <3>1 DEF Execute
  <2>2. ASSUME NEW h \in Handler, Hydrate(h) PROVE files' \in [Environment -> SUBSET Call]
    <3>1. restore[work[h].target] \in Row
      BY <1>1, <2>2 DEF Hydrate, Acts, Begun, BegunBy, Runs, Busy
    <3>2. restore[work[h].target].files \in SUBSET Call
      BY <3>1 DEF Row
    <3>. QED
      BY <1>1, <2>2, <3>2 DEF Hydrate
  <2>. QED
    BY <1>1, <2>1, <2>2, EngineChanges
<1>4. acted' \in [Call -> Nat]
  BY <1>1, EngineChanges DEF Execute
<1>. QED
  BY <1>2, <1>3, <1>4

LEMMA WorkTyped ==
  ASSUME TypeOK, [Next]_vars
  PROVE  work' \in [Handler -> Work] /\ janitor' \in Janitor
<1>1. work \in [Handler -> Work] /\ janitor \in Janitor /\ env \in Env
  BY DEF TypeOK
<1>2. work' \in [Handler -> Work]
  BY <1>1, WorkChanges, Bound, Claimed, Answered, IdleTyped DEF BindsBy, ClaimsBy, Finish,
    Superseded, Crash
<1>3. janitor' \in Janitor
  <2>1. CASE Sweep
    BY <1>1, <2>1 DEF Sweep, Janitor, Env
  <2>2. CASE DeleteContainer
    BY <1>1, <2>2 DEF DeleteContainer, Confirms, Janitor
  <2>3. CASE DeleteFails \/ DeleteUnanswered \/ ConfirmClosed \/ Crash
    BY <2>3, RestingTyped DEF DeleteFails, Unconfirmed, DeleteUnanswered, ConfirmClosed, Crash
  <2>. QED
    BY <1>1, <2>1, <2>2, <2>3, WorkChanges DEF Clean
<1>. QED
  BY <1>2, <1>3

LEMMA CopyTyped ==
  ASSUME TypeOK, Placed, [Next]_vars
  PROVE  copy' \in [Handler -> Copy]
<1>1. /\ copy \in [Handler -> Copy] /\ work \in [Handler -> Work]
      /\ files \in [Environment -> SUBSET Call]
      /\ saved \in Seq(Version) /\ Len(saved) <= MaxVersion
  BY DEF TypeOK
<1>2. ASSUME NEW h \in Handler, Save(h) PROVE copy' \in [Handler -> Copy]
  BY <1>1, <1>2, NoCopyTyped DEF Save
<1>3. ASSUME NEW h \in Handler, Finish(h) PROVE copy' \in [Handler -> Copy]
  <2> DEFINE c == [tree |-> work[h].env, files |-> files[work[h].env], parent |-> Len(saved),
                   generation |-> work[h].generation]
  <2>1. UNCHANGED copy \/ copy' = [copy EXCEPT ![h] = c]
    BY <1>3 DEF Finish
  <2>2. c \in Copy
    <3>1. work[h].env \in 1 .. env.id /\ env \in Env
      BY <1>3 DEF Finish, Placed, Busy, TypeOK
    <3>2. work[h].env \in Environment
      BY <3>1, BoundAssumption DEF Env, Environment
    <3>. QED
      BY <1>1, <3>2, BoundAssumption DEF Copy, Work
  <2>. QED
    BY <1>1, <2>1, <2>2
<1>. QED
  BY <1>1, <1>2, <1>3, RowChanges

LEMMA TypeKept == ASSUME TypeOK, Placed, Begun, [Next]_vars PROVE TypeOK'
BY LeaseTyped, EnvTyped, RowsTyped, SavedTyped, EngineTyped, WorkTyped, CopyTyped DEF TypeOK

-----------------------------------------------------------------------------
(* What a call knows, and where it is.                                     *)

LEMMA IdKept ==
  ASSUME TypeOK, [Next]_vars, ~Binds
  PROVE  env'.id = env.id
<1>1. env \in Env
  BY DEF TypeOK
<1>. QED
  BY <1>1, EnvChanges, Claimed DEF ClaimsBy, Env, Finish, Freed, Orphaned, Sweep, ConfirmClosed

LEMMA IdGrows == ASSUME TypeOK, [Next]_vars PROVE env'.id \in {env.id, env.id + 1}
BY IdKept, Bound DEF BindsBy

Started(c)  == command'[c].status = "running" /\ command'[c].env = env.id
Selected(r) == /\ restore'[r].status = "running" /\ restore'[r].env = env'.id
               /\ \E v \in 1 .. Len(saved) : restore'[r].files = saved[v].files

\* A row once begun keeps its environment and its snapshot, and never unbegins.
LEMMA RowsKept ==
  ASSUME TypeOK, Begun, [Next]_vars
  PROVE  /\ \A c \in Call :
              \/ command'[c] = command[c]
              \/ /\ command[c].status # "none" /\ command'[c].status # "none"
                 /\ command'[c].env = command[c].env
              \/ command[c].status = "none" /\ Started(c)
         /\ \A r \in Request :
              \/ restore'[r] = restore[r]
              \/ /\ restore[r].status # "none" /\ restore'[r].status \in {"completed", "failed"}
                 /\ restore'[r].env = restore[r].env /\ restore'[r].files = restore[r].files
              \/ restore[r].status = "none" /\ Selected(r)
<1>1. /\ command \in [Call -> Row] /\ restore \in [Request -> Row]
      /\ work \in [Handler -> Work]
  BY DEF TypeOK
<1>2. ASSUME NEW c \in Call
      PROVE  \/ command'[c] = command[c]
             \/ /\ command[c].status # "none" /\ command'[c].status # "none"
                /\ command'[c].env = command[c].env
             \/ command[c].status = "none" /\ Started(c)
  <2>1. CASE CloseProject \/ ConfirmClosed
    BY <1>1, <2>1 DEF CloseProject, ConfirmClosed, Row
  <2>2. ASSUME NEW h \in Handler, NEW d \in Call, Command(h, d)
        PROVE  \/ command'[c] = command[c]
               \/ command[c].status = "none" /\ Started(c)
    BY <1>1, <2>2 DEF Command, Replayable, Started, Running
  <2>3. ASSUME NEW h \in Handler, Finish(h)
        PROVE  \/ command'[c] = command[c]
               \/ /\ command[c].status # "none" /\ command'[c].status # "none"
                  /\ command'[c].env = command[c].env
    <3>1. CASE work[h].kind # "command"
      BY <2>3, <3>1 DEF Finish
    <3>2. CASE work[h].kind = "command"
      <4>1. /\ command' = [command EXCEPT ![work[h].target].status = Receipt(h)]
            /\ command[work[h].target].status = "running"
        BY <2>3, <3>2 DEF Finish
      <4>2. Receipt(h) # "none"
        BY DEF Receipt
      <4>. QED
        BY <1>1, <4>1, <4>2 DEF Row
    <3>. QED
      BY <3>1, <3>2
  <2>. QED
    BY <2>1, <2>2, <2>3, RowChanges
<1>3. ASSUME NEW r \in Request
      PROVE  \/ restore'[r] = restore[r]
             \/ /\ restore[r].status # "none" /\ restore'[r].status \in {"completed", "failed"}
                /\ restore'[r].env = restore[r].env /\ restore'[r].files = restore[r].files
             \/ restore[r].status = "none" /\ Selected(r)
  <2>1. ASSUME NEW h \in Handler, NEW q \in Request, NEW v \in 1 .. Len(saved), Restore(h, q, v)
        PROVE  \/ restore'[r] = restore[r]
               \/ restore[r].status = "none" /\ Selected(r)
    BY <1>1, <2>1 DEF Restore, Selected, Running
  <2>2. ASSUME NEW h \in Handler, Finish(h)
        PROVE  \/ restore'[r] = restore[r]
               \/ /\ restore[r].status # "none" /\ restore'[r].status \in {"completed", "failed"}
                  /\ restore'[r].env = restore[r].env /\ restore'[r].files = restore[r].files
    <3>1. CASE work[h].kind # "restore"
      BY <2>2, <3>1 DEF Finish
    <3>2. CASE work[h].kind = "restore"
      <4>1. /\ restore' = [restore EXCEPT ![work[h].target].status = Receipt(h)]
            /\ restore[work[h].target].status # "none"
        BY <2>2, <3>2 DEF Finish, Begun, BegunBy, Runs, Busy
      <4>2. Receipt(h) \in {"completed", "failed"}
        BY DEF Receipt
      <4>. QED
        BY <1>1, <4>1, <4>2 DEF Row
    <3>. QED
      BY <3>1, <3>2
  <2>. QED
    BY <2>1, <2>2, RowChanges
<1>. QED
  BY <1>2, <1>3

LEMMA PlacedKept == ASSUME TypeOK, Placed, Begun, [Next]_vars PROVE Placed'
<1>1. /\ env.id \in Nat /\ env \in Env
      /\ env'.id \in {env.id, env.id + 1} /\ 1 .. env.id \subseteq 1 .. env'.id
  BY IdGrows, BoundAssumption DEF TypeOK, Env
<1>2. ASSUME NEW h \in Handler, Busy(h)' PROVE work'[h].env \in 1 .. env'.id
  <2>. work \in [Handler -> Work] /\ (Busy(h) => work[h].env \in 1 .. env.id)
    BY DEF TypeOK, Placed
  <2>1. CASE UNCHANGED work
    BY <1>1, <1>2, <2>1 DEF Busy
  <2>2. CASE Binds
    BY <1>1, <1>2, <2>2, Bound DEF BindsBy, Busy
  <2>3. CASE Claims
    <3>1. PICK g \in Handler : ClaimsBy(g)
      BY <2>3, Claimed
    <3>2. env.id \in 1 .. env.id
      BY <1>1, <3>1 DEF ClaimsBy, Claimable, Placed
    <3>. QED
      BY <1>1, <1>2, <3>1, <3>2 DEF ClaimsBy, Busy
  <2>4. CASE Crash
    BY <1>2, <2>4 DEF Crash, Busy, Idle
  <2>5. ASSUME NEW g \in Handler, Engine(g) PROVE work'[h].env \in 1 .. env'.id
    BY <1>1, <1>2, <2>5, Answered DEF Busy
  <2>6. ASSUME NEW g \in Handler, work' = [work EXCEPT ![g] = Idle]
        PROVE  work'[h].env \in 1 .. env'.id
    BY <1>1, <1>2, <2>6 DEF Busy, Idle
  <2>. QED
    BY <2>1, <2>2, <2>3, <2>4, <2>5, <2>6, WorkChanges DEF Finish, Superseded
<1>3. janitor'.stage # "idle" => janitor'.env \in 1 .. env'.id
  <2>. janitor \in Janitor /\ (janitor.stage # "idle" => janitor.env \in 1 .. env.id)
    BY DEF TypeOK, Placed
  <2>1. CASE UNCHANGED janitor
    BY <1>1, <2>1
  <2>2. CASE Sweep
    <3>1. env.id \in 1 .. env.id
      BY <1>1, <2>2 DEF Sweep, Placed
    <3>. QED
      BY <1>1, <2>2, <3>1 DEF Sweep
  <2>3. CASE DeleteContainer
    BY <1>1, <2>3 DEF DeleteContainer, Confirms, Janitor
  <2>4. CASE DeleteFails \/ DeleteUnanswered \/ ConfirmClosed \/ Crash
    BY <2>4 DEF DeleteFails, DeleteUnanswered, ConfirmClosed, Crash, Unconfirmed, Resting
  <2>. QED
    BY <2>1, <2>2, <2>3, <2>4, WorkChanges DEF Clean
<1>4. /\ \A c \in Call : command'[c].env <= env'.id
      /\ \A r \in Request : restore'[r].env <= env'.id
  <2>1. /\ \A c \in Call : command[c].env <= env.id /\ command[c].env \in Nat
        /\ \A r \in Request : restore[r].env <= env.id /\ restore[r].env \in Nat
    BY BoundAssumption DEF TypeOK, Placed, Row
  <2>2. ASSUME NEW c \in Call PROVE command'[c].env <= env'.id
    <3>1. command'[c].env \in {command[c].env, env.id}
      BY RowsKept DEF Started, Selected
    <3>. QED
      BY <1>1, <2>1, <3>1
  <2>3. ASSUME NEW r \in Request PROVE restore'[r].env <= env'.id
    <3>1. CASE restore[r].status = "none"
      BY <1>1, <2>1, <3>1, RowsKept DEF Started, Selected
    <3>2. CASE restore[r].status # "none"
      BY <1>1, <2>1, <3>2, RowsKept
    <3>. QED
      BY <3>1, <3>2
  <2>. QED
    BY <2>2, <2>3
<1>5. \A e \in Environment : e > env'.id => files'[e] = {}
  <2>1. /\ files \in [Environment -> SUBSET Call] /\ Environment \subseteq Nat
        /\ \A e \in Environment : e > env.id => files[e] = {}
    BY BoundAssumption DEF TypeOK, Placed, Environment
  <2>2. ASSUME NEW h \in Handler, Busy(h) PROVE ~(work[h].env > env.id)
    BY <1>1, <2>2 DEF Placed
  <2>3. ASSUME NEW h \in Handler, Execute(h) PROVE \A e \in Environment : e > env'.id => files'[e] = {}
    BY <1>1, <2>1, <2>2, <2>3 DEF Execute, Acts, Busy
  <2>4. ASSUME NEW h \in Handler, Hydrate(h) PROVE \A e \in Environment : e > env'.id => files'[e] = {}
    BY <1>1, <2>1, <2>2, <2>4 DEF Hydrate, Acts, Busy
  <2>. QED
    BY <1>1, <2>1, <2>3, <2>4, EngineChanges
<1>6. ASSUME NEW h \in Handler, copy'[h] # NoCopy PROVE copy'[h].tree \in 1 .. env'.id
  <2>. copy \in [Handler -> Copy] /\ (copy[h] # NoCopy => copy[h].tree \in 1 .. env.id)
    BY DEF TypeOK, Placed
  <2>1. ASSUME NEW g \in Handler, Finish(g) PROVE copy'[h].tree \in 1 .. env'.id
    <3>1. work[g].env \in 1 .. env.id
      BY <2>1 DEF Finish, Busy, Placed
    <3>. QED
      BY <1>1, <1>6, <2>1, <3>1 DEF Finish
  <2>2. ASSUME NEW g \in Handler, Save(g) PROVE copy'[h].tree \in 1 .. env'.id
    BY <1>1, <1>6, <2>2 DEF Save
  <2>. QED
    BY <1>1, <1>6, <2>1, <2>2, RowChanges
<1>7. env'.status = "absent" <=> env'.id = 0
  <2>1. env.status = "absent" <=> env.id = 0
    BY DEF Placed
  <2>2. CASE Binds
    <3>1. env'.id = env.id + 1 /\ env'.status = "creating"
      BY <2>2, Bound DEF BindsBy
    <3>. QED
      BY <1>1, <3>1
  <2>3. CASE Claims
    BY <1>1, <2>1, <2>3, Claimed DEF ClaimsBy, Env
  <2>4. ASSUME NEW h \in Handler, Finish(h) PROVE env'.status = "absent" <=> env'.id = 0
    <3>1. PICK status \in Outcomes(h) : env' = Freed(h, status)
      BY <2>4 DEF Finish
    <3>2. status # "absent"
      BY DEF Outcomes
    <3>3. env.status # "absent"
      BY <2>4 DEF Finish, Owns
    <3>. QED
      BY <1>1, <2>1, <3>1, <3>2, <3>3 DEF Freed, Env
  <2>5. ASSUME NEW H, env' = Orphaned(H) PROVE env'.status = "absent" <=> env'.id = 0
    BY <1>1, <2>1, <2>5 DEF Orphaned, Env
  <2>6. CASE Sweep \/ ConfirmClosed
    BY <1>1, <2>1, <2>6 DEF Sweep, ConfirmClosed, Env
  <2>. QED
    BY <2>1, <2>2, <2>3, <2>4, <2>5, <2>6, EnvChanges
<1>. QED
  BY <1>2, <1>3, <1>4, <1>5, <1>6, <1>7 DEF Placed, Busy

LEMMA BegunKept == ASSUME TypeOK, Begun, [Next]_vars PROVE Begun'
<1>. SUFFICES ASSUME NEW h \in Handler PROVE BegunBy(h)'
  BY DEF Begun
<1>1. work \in [Handler -> Work] /\ env \in Env /\ BegunBy(h)
  BY DEF TypeOK, Begun
<1>2. /\ \A c \in Call : command[c].status # "none" =>
           command'[c].status # "none" /\ command'[c].env = command[c].env
      /\ \A r \in Request : restore[r].status # "none" =>
           restore'[r].status # "none" /\ restore'[r].env = restore[r].env
  BY RowsKept
<1>3. CASE work'[h] = work[h]
  BY <1>1, <1>2, <1>3 DEF BegunBy, Runs, Busy
<1>4. CASE work'[h] = Idle
  BY <1>4 DEF BegunBy, Runs, Busy, Idle
<1>5. CASE BindsBy(h)
  BY <1>5 DEF BindsBy, BegunBy, Runs, Busy
<1>6. CASE ClaimsBy(h)
  BY <1>6 DEF ClaimsBy, BegunBy, Runs, Busy
<1>7. CASE Engine(h)
  <2>1. /\ work'[h].kind = work[h].kind /\ work'[h].env = work[h].env
        /\ work'[h].fresh = work[h].fresh /\ work'[h].target = work[h].target
        /\ \/ /\ work[h].stage = "engine" /\ work'[h].stage = "finish"
              /\ work'[h].handle = work[h].handle /\ work'[h].result # "none"
           \/ /\ work[h].stage = "create" /\ work'[h].stage = "engine"
              /\ work'[h].handle /\ work'[h].result = "none" /\ work[h].kind = "restore"
           \/ /\ work[h].stage = "create" /\ work'[h].stage = "finish"
              /\ work'[h].handle /\ work'[h].result = "ok" /\ work[h].kind # "restore"
           \/ /\ work[h].stage = "create" /\ work'[h].stage = "finish"
              /\ work'[h].result = "failed"
    BY <1>7, Answered
  <2>. QED
    BY <1>1, <1>2, <2>1 DEF BegunBy, Runs, Busy
<1>8. ASSUME NEW g \in Handler, work' = [work EXCEPT ![g] = Idle] PROVE work'[h] \in {work[h], Idle}
  BY <1>1, <1>8
<1>9. ASSUME NEW g \in Handler, BindsBy(g) \/ ClaimsBy(g) \/ Engine(g), g # h PROVE work'[h] = work[h]
  BY <1>9, Answered DEF BindsBy, ClaimsBy
<1>. QED
  BY <1>3, <1>4, <1>5, <1>6, <1>7, <1>8, <1>9, WorkChanges, Bound, Claimed DEF Finish,
    Superseded, Crash

-----------------------------------------------------------------------------
(* Containers are accounted for.                                           *)

\* A container is made for a new environment; once gone it stays so.
LEMMA ContainerKept ==
  ASSUME TypeOK, [Next]_vars, NEW e \in Environment
  PROVE  \/ container'[e] = container[e] \/ container'[e] = "gone"
         \/ container[e] = "pending" /\ container'[e] = "up"
         \/ e = env.id + 1 /\ Binds
<1>1. container \in [Environment -> {"none", "pending", "up", "gone"}]
  BY DEF TypeOK
<1>. QED
  BY <1>1, EngineChanges, Bound DEF BindsBy, DeleteContainer, Confirms, DeleteUnanswered, Execute,
     Aborts, Remove, Interrupted, Materialize

LEMMA RemovedKept == ASSUME TypeOK, Placed, Begun, Removed, [Next]_vars PROVE Removed'
<1>1. /\ work \in [Handler -> Work] /\ janitor \in Janitor /\ env \in Env /\ env.id \in Nat
      /\ container \in [Environment -> {"none", "pending", "up", "gone"}]
      /\ 1 .. env.id \subseteq Environment \ {env.id + 1}
  BY BoundAssumption DEF TypeOK, Env, Environment
<1>2. \A e \in 1 .. env.id : container[e] = "gone" => container'[e] = "gone"
  BY <1>1, ContainerKept
<1>3. ASSUME NEW h \in Handler,
             Ends(h, "terminated")' \/ (Ends(h, "ok") /\ work[h].kind = "shutdown")'
      PROVE  container'[work'[h].env] = "gone"
  <2>1. CASE work'[h] = work[h]
    BY <1>2, <1>3, <2>1 DEF Removed, Placed, Busy, Ends
  <2>2. CASE work'[h] = Idle \/ BindsBy(h) \/ ClaimsBy(h)
    BY <1>3, <2>2 DEF Ends, Idle, BindsBy, ClaimsBy
  <2>3. CASE Engine(h)
    <3>1. work[h].env \in 1 .. env.id /\ work'[h].env = work[h].env
      BY <2>3, Answered DEF Placed, Busy
    <3>2. CASE work[h].stage = "create"
      BY <1>3, <2>3, <3>2, Answered DEF Ends, Begun, BegunBy
    <3>3. CASE work[h].stage = "engine"
      <4>1. ASSUME NEW result, Answer(h, result) PROVE work'[h].result = result
        BY <1>1, <4>1 DEF Answer, Work
      <4>0. work'[h].kind = work[h].kind
        BY <2>3, Answered
      <4>2. CASE Remove(h)
        BY <1>1, <3>1, <4>2 DEF Remove
      <4>3. CASE container' = [container EXCEPT ![work[h].env] = "gone"]
        BY <1>1, <3>1, <4>3
      <4>4. CASE Reconnect(h) \/ ExportFiles(h) \/ Preserved(h) \/ EngineFails(h) \/ Hydrate(h)
        BY <1>3, <4>0, <4>1, <4>4 DEF Ends, Reconnect, ExportFiles, Preserved, EngineFails,
          Hydrate, Acts
      <4>5. CASE work[h].kind = "command" /\ \E result \in {"ok", "failed"} : Answer(h, result)
        BY <1>3, <4>0, <4>1, <4>5 DEF Ends
      <4>. QED
        BY <2>3, <3>3, <4>2, <4>3, <4>4, <4>5 DEF Engine, Created, Execute, Interrupted, Aborts,
          Acts
    <3>. QED
      BY <2>3, <3>2, <3>3, Answered
  <2>4. ASSUME NEW g \in Handler, work' = [work EXCEPT ![g] = Idle] PROVE work'[h] \in {work[h], Idle}
    BY <1>1, <2>4
  <2>5. ASSUME NEW g \in Handler, BindsBy(g) \/ ClaimsBy(g) \/ Engine(g), g # h PROVE work'[h] = work[h]
    BY <2>5, Answered DEF BindsBy, ClaimsBy
  <2>. QED
    BY <2>1, <2>2, <2>3, <2>4, <2>5, WorkChanges, Bound, Claimed DEF Finish, Superseded, Crash
<1>4. ASSUME janitor'.stage = "finish" PROVE container'[janitor'.env] = "gone"
  <2>1. CASE UNCHANGED janitor
    BY <1>2, <1>4, <2>1 DEF Removed, Placed
  <2>2. CASE DeleteContainer
    BY <1>1, <1>4, <2>2 DEF DeleteContainer, Confirms, Placed, Janitor
  <2>3. CASE Sweep \/ DeleteFails \/ DeleteUnanswered \/ ConfirmClosed \/ Crash
    BY <1>4, <2>3 DEF Sweep, DeleteFails, Unconfirmed, DeleteUnanswered, ConfirmClosed, Crash,
      Resting
  <2>. QED
    BY <2>1, <2>2, <2>3, WorkChanges DEF Clean
<1>. QED
  BY <1>3, <1>4 DEF Removed, Ends

LEMMA AccountedKept ==
  ASSUME TypeOK, Placed, Begun, Removed, ContainersAccounted, [Next]_vars
  PROVE  ContainersAccounted'
<1>. SUFFICES ASSUME NEW e \in Environment, container'[e] \in {"pending", "up"}
              PROVE  e = env'.id /\ env'.status # "closed"
  BY DEF ContainersAccounted
<1>1. /\ env \in Env /\ env.id \in Nat /\ e \in Nat
      /\ container \in [Environment -> {"none", "pending", "up", "gone"}]
      /\ container' \in [Environment -> {"none", "pending", "up", "gone"}]
  BY EngineTyped, BoundAssumption DEF TypeOK, Env, Environment
<1>2. CASE Binds
  <2>1. PICK h \in Handler : BindsBy(h)
    BY <1>2, Bound
  <2>2. env'.id = env.id + 1 /\ env'.status = "creating"
    BY <2>1 DEF BindsBy
  <2>3. e # env.id + 1 => container'[e] = container[e]
    BY <1>1, <2>1 DEF BindsBy
  <2>4. container[e] \notin {"pending", "up"}
    <3>1. env.status = "closed" \/ env.id = 0
      BY <2>1 DEF BindsBy, Placed
    <3>. QED
      BY <3>1 DEF ContainersAccounted, Environment
  <2>. QED
    BY <2>2, <2>3, <2>4
<1>3. CASE ~Binds
  <2>1. container[e] \in {"pending", "up"}
    BY <1>1, <1>3, ContainerKept
  <2>2. e = env.id /\ env.status # "closed" /\ env'.id = env.id
    BY <1>3, <2>1, IdKept DEF ContainersAccounted
  <2>3. ASSUME NEW h \in Handler, Finish(h) PROVE e = env'.id /\ env'.status # "closed"
    <3>1. PICK status \in Outcomes(h) : env' = Freed(h, status)
      BY <2>3 DEF Finish
    <3>2. work[h].env = env.id /\ container' = container
      BY <2>3 DEF Finish, Owns
    <3>3. status # "closed"
      BY <2>1, <2>2, <2>3, <3>2 DEF Outcomes, Succeeds, Removed, Ends, Finish
    <3>. QED
      BY <1>1, <2>2, <3>1, <3>3 DEF Freed, Env
  <2>4. ~ConfirmClosed
    BY <2>1, <2>2 DEF ConfirmClosed, Removed
  <2>5. CASE Claims
    BY <1>1, <2>2, <2>5, Claimed DEF ClaimsBy, Env
  <2>6. CASE Sweep
    BY <1>1, <2>2, <2>6 DEF Sweep, Env
  <2>7. ASSUME NEW H, env' = Orphaned(H) PROVE e = env'.id /\ env'.status # "closed"
    BY <1>1, <2>2, <2>7 DEF Orphaned, Env
  <2>8. CASE UNCHANGED env
    BY <2>2, <2>8
  <2>. QED
    BY <1>3, <2>3, <2>4, <2>5, <2>6, <2>7, <2>8, EnvChanges
<1>. QED
  BY <1>2, <1>3

-----------------------------------------------------------------------------
LEMMA InitKnown == Init => Known
<1>1. Init => TypeOK
  BY InitTyped
<1>2. Init => Placed
  BY DEF Init, Placed, Busy, Idle, Resting, NoRow
<1>3. Init => Begun
  BY DEF Init, Begun, BegunBy, Runs, Busy, Idle
<1>4. Init => Removed
  BY DEF Init, Removed, Ends, Idle, Resting
<1>5. Init => ContainersAccounted
  BY DEF Init, ContainersAccounted
<1>. QED
  BY <1>1, <1>2, <1>3, <1>4, <1>5 DEF Known

LEMMA KnownKept == Known /\ [Next]_vars => Known'
BY TypeKept, PlacedKept, BegunKept, RemovedKept, AccountedKept DEF Known

\* What the invariant says is so in every state.
THEOREM KnownInvariant == Spec => []Known
BY InitKnown, KnownKept, PTL DEF Spec

\* Every variable has its type, whatever the calls, the bounds and their order.
THEOREM TypeCorrect == Spec => []TypeOK
BY KnownInvariant, PTL DEF Known

\* No container is forgotten, however many environments, calls, lost answers,
\* crashes and cleanups there are: the engine has, or may still create, the
\* current environment's at most, and not even that once it is closed.
THEOREM Accounted == Spec => []ContainersAccounted
BY KnownInvariant, PTL DEF Known
=============================================================================
