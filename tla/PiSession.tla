----------------------------- MODULE PiSession -----------------------------
(***************************************************************************)
(* The Pi session lifecycle of one mounted package instance                *)
(* (src/src/runtime.ts, one RuntimeState).                                 *)
(*                                                                         *)
(* DSH keeps several agents alive at once; Pi promises its extensions one  *)
(* linear runtime: session_start, then session_shutdown, then the next     *)
(* session_start.  startPiSession makes the hand-over, and it is entered   *)
(* from three places that nobody serialises: agent/created, the flush at   *)
(* the end of the mount, and every tool or command call.                   *)
(*                                                                         *)
(* A mount is owned by one agent (the engine's) or by none (a legacy root  *)
(* mount, which follows every root agent of the host).  Every await is a   *)
(* step boundary; a promise is named by the agent it is about and a number.*)
(***************************************************************************)
EXTENDS Naturals, FiniteSets

CONSTANTS
  Agents,      \* agents that may appear
  Children,    \* those of subagent origin, made by this instance
  NoAgent,     \* "undefined" for state.hostAgent and state.ownerAgent
  SessionOf,   \* the durable session of each agent
  MaxTasks,    \* bound: start tasks per agent
  Setups       \* the mounts explored: the owner, the agents that may appear, bounds on start
               \* tasks per agent and on ctx.reload() calls, whether handlers (and session
               \* exports) may throw, whether anything may happen while a start is under way

ASSUME NoAgentAssumption == NoAgent \notin Agents
ASSUME ChildrenAssumption == Children \subseteq Agents
ASSUME SetupsAssumption ==
  /\ MaxTasks \in Nat
  /\ Setups \subseteq [owner : (Agents \ Children) \cup {NoAgent}, agents : SUBSET Agents,
                      tasks : 0 .. MaxTasks, reloads : Nat, throws : BOOLEAN, overlap : BOOLEAN]

VARIABLES
  setup,      \* the mount explored, with state.ownerAgent; never changes
  life,       \* per agent: not created, live, or disposed
  adopted,    \* state.childAgents
  mount,      \* where applyPiPackage, a reload or the teardown effect is
  ready,      \* state.extensionsReady
  pending,    \* the keys of state.pendingSessionStarts
  queue,      \* agents the running flush or reload still has to start
  reload,     \* the reload or teardown under way, and the reloads so far
  active,     \* state.activeAgents
  host,       \* state.hostAgent
  shut,       \* state.piShutdownAgents
  shutTask,   \* state.shutdownTasks: per agent the promise's number, 0 if none
  closing,    \* state.pendingShutdowns: shutdown promises not yet settled
  rejected,   \* shutdown promises that rejected
  claims,     \* state.startedSessions
  current,    \* state.sessionStartTasks: per session, the task in flight
  task,       \* every start task made
  made,       \* per agent: start tasks made
  waits,      \* per caller of startPiSession: what it awaits
  sess,       \* what the extension saw last for each agent
  shuts       \* per agent: session_shutdown dispatches so far

hostVars  == <<setup, life, adopted>>
mountVars == <<mount, ready, pending, queue, reload, active>>
shutVars  == <<shut, shutTask, closing, shuts>>
startVars == <<claims, current, task, made, waits>>
vars == <<hostVars, mountVars, host, shutVars, rejected, startVars, sess>>

owner == setup.owner

Sessions == {SessionOf[a] : a \in Agents}

None    == <<NoAgent, 0>>
TaskId  == Agents \X (1 .. MaxTasks)
Promise == Agents \X Nat

\* A start task is handing over from the previous agent, preparing session
\* files, running session_start handlers, discovering resources, or settled.
Task == [phase : {"unused", "handoff", "exports", "starting", "resources", "done", "failed"},
         after : Promise \cup {None}]
InFlight == {"handoff", "exports", "starting", "resources"}

Caller  == {"created", "flush", "tool"} \X Agents
Wait    == [state : {"idle", "waiting", "through", "refused"}, on : TaskId \cup {None}]
Idle    == [state |-> "idle", on |-> None]
Through == [state |-> "through", on |-> None]
Refused == [state |-> "refused", on |-> None]

NoReload == [agent |-> NoAgent, by |-> NoAgent, on |-> None, drain |-> {}, count |-> 0]

TypeOK ==
  /\ setup \in Setups
  /\ life \in [Agents -> {"absent", "live", "gone"}]
  /\ adopted \in SUBSET Agents
  /\ mount \in {"loading", "flushing", "ready", "failed", "shutting", "reloading",
                "restarting", "closing", "draining", "closed", "broken"}
  /\ ready \in BOOLEAN
  /\ pending \in SUBSET Agents
  /\ queue \in SUBSET Agents
  /\ reload \in [agent : Agents \cup {NoAgent}, by : Agents \cup {NoAgent},
                 on : Promise \cup {None}, drain : SUBSET Promise, count : Nat]
  /\ active \in SUBSET Agents
  /\ host \in Agents \cup {NoAgent}
  /\ shut \in SUBSET Agents
  /\ shutTask \in [Agents -> Nat]
  /\ closing \in SUBSET Promise
  /\ rejected \in SUBSET Promise
  /\ claims \in SUBSET Sessions
  /\ current \in [Sessions -> TaskId \cup {None}]
  /\ task \in [TaskId -> Task]
  /\ made \in [Agents -> 0 .. MaxTasks]
  /\ waits \in [Caller -> Wait]
  /\ sess \in [Agents -> {"none", "starting", "up", "broken", "down"}]
  /\ shuts \in [Agents -> Nat]

-----------------------------------------------------------------------------
\* acceptsAgent, for an instance that is not the host anchor.
AcceptsAgent(a) ==
  \/ a \in adopted
  \/ IF owner # NoAgent THEN a = owner ELSE a \notin Children

Settled(p)  == p \notin closing
Rejected(p) == p \in rejected

NothingUnderWay ==
  /\ \A t \in TaskId : task[t].phase \notin InFlight
  /\ \A c \in Caller : waits[c].state # "waiting"

MayHappen == setup.overlap \/ NothingUnderWay

\* The promise shutdownPiSession(a) returns; None is already resolved.
ShutdownPromise(a) ==
  IF shutTask[a] # 0 THEN <<a, shutTask[a]>>
  ELSE IF a \in shut THEN None ELSE <<a, shuts[a] + 1>>

\* shutdownPiSession: memoised per agent, else session_shutdown is dispatched.
ShutdownPiSession(a) ==
  IF shutTask[a] # 0 \/ a \in shut
  THEN UNCHANGED <<shutVars, sess>>
  ELSE /\ shut' = shut \cup {a}
       /\ shuts' = [shuts EXCEPT ![a] = @ + 1]
       /\ shutTask' = [shutTask EXCEPT ![a] = shuts[a] + 1]
       /\ closing' = closing \cup {<<a, shuts[a] + 1>>}
       /\ sess' = [sess EXCEPT ![a] = "down"]

-----------------------------------------------------------------------------
Init ==
  /\ setup \in Setups
  /\ life \in [Agents -> {"absent", "live"}]
  /\ owner # NoAgent => life[owner] = "live"      \* mounted from agent/created
  /\ \A a \in Agents : life[a] = "live" => a \in setup.agents \ Children
  /\ adopted = {}
  /\ mount = "loading"
  /\ ready = FALSE
  /\ pending = {} /\ queue = {} /\ active = {}
  /\ reload = NoReload
  /\ host = NoAgent
  /\ shut = {} /\ closing = {} /\ rejected = {} /\ claims = {}
  /\ shutTask = [a \in Agents |-> 0]
  /\ current = [s \in Sessions |-> None]
  /\ task = [t \in TaskId |-> [phase |-> "unused", after |-> None]]
  /\ made = [a \in Agents |-> 0]
  /\ waits = [c \in Caller |-> Idle]
  /\ sess = [a \in Agents |-> "none"]
  /\ shuts = [a \in Agents |-> 0]

-----------------------------------------------------------------------------
(* startPiSession, from its first line up to its first await.              *)

\* The task that took the host session claims the durable one, or stops there.
ClaimFor(t) ==
  LET a == t[1] IN
    IF SessionOf[a] \in claims
    THEN /\ task' = [task EXCEPT ![t].phase = "done"]
         /\ current' = [current EXCEPT ![SessionOf[a]] = IF @ = t THEN None ELSE @]
         /\ UNCHANGED claims
    ELSE /\ task' = [task EXCEPT ![t].phase = "exports"]
         /\ claims' = claims \cup {SessionOf[a]}
         /\ UNCHANGED current

TakeHostSession(a) ==
  /\ host' = a
  /\ shut' = shut \ {a}
  /\ shutTask' = [shutTask EXCEPT ![a] = 0]

\* How the await of a caller ends; only a tool or a command then goes on here.
Resumed(c, phase) ==
  IF phase = "failed" THEN Refused ELSE IF c[1] = "tool" THEN Through ELSE Idle

\* Nothing to join: a new task, which hands over first when another agent has
\* the host session (its claim is released, its session_shutdown awaited).
BeginStart(c) ==
  LET a == c[2]
      t == <<a, made[a] + 1>>
      replacing == host \notin {NoAgent, a}
  IN /\ made[a] < setup.tasks
     /\ made' = [made EXCEPT ![a] = @ + 1]
     /\ IF replacing
        THEN /\ task' = [task EXCEPT ![t] = [phase |-> "handoff", after |-> ShutdownPromise(host)]]
             /\ claims' = claims \ {SessionOf[host]}
             /\ current' = [current EXCEPT ![SessionOf[host]] = None, ![SessionOf[a]] = t]
             /\ ShutdownPiSession(host)
             /\ waits' = [waits EXCEPT ![c] = [state |-> "waiting", on |-> t]]
             /\ UNCHANGED host
        ELSE /\ TakeHostSession(a)
             /\ IF SessionOf[a] \in claims
                THEN /\ task' = [task EXCEPT ![t].phase = "done"]
                     /\ waits' = [waits EXCEPT ![c] = Resumed(c, "done")]
                     /\ UNCHANGED <<claims, current>>
                ELSE /\ task' = [task EXCEPT ![t].phase = "exports"]
                     /\ claims' = claims \cup {SessionOf[a]}
                     /\ current' = [current EXCEPT ![SessionOf[a]] = t]
                     /\ waits' = [waits EXCEPT ![c] = [state |-> "waiting", on |-> t]]
             /\ UNCHANGED <<closing, shuts, sess>>
     /\ UNCHANGED rejected

StartPiSession(c) ==
  LET s == SessionOf[c[2]] IN
    /\ MayHappen
    /\ CASE ~AcceptsAgent(c[2]) ->
              /\ waits' = [waits EXCEPT ![c] = Resumed(c, "done")]
              /\ UNCHANGED <<host, shutVars, rejected, claims, current, task, made, sess>>
         [] AcceptsAgent(c[2]) /\ current[s] # None ->
              /\ waits' = [waits EXCEPT ![c] = [state |-> "waiting", on |-> current[s]]]
              /\ UNCHANGED <<host, shutVars, rejected, claims, current, task, made, sess>>
         [] OTHER -> BeginStart(c)

-----------------------------------------------------------------------------
(* The start task after each of its awaits.                                *)

\* A fault: the catch block keeps the claim.
FailTask_KeepsClaim(t) ==
  LET s == SessionOf[t[1]] IN
    /\ task' = [task EXCEPT ![t].phase = "failed"]
    /\ current' = [current EXCEPT ![s] = None]
    /\ sess' = [sess EXCEPT ![t[1]] = IF @ \in {"starting", "up"} THEN "broken" ELSE @]
    /\ UNCHANGED claims

\* The task's promise rejects: releasePiSessionClaim, then forget.
FailTask(t) ==
  LET s == SessionOf[t[1]] IN
    /\ task' = [task EXCEPT ![t].phase = "failed"]
    /\ claims' = claims \ {s}
    /\ current' = [current EXCEPT ![s] = None]
    /\ sess' = [sess EXCEPT ![t[1]] = IF @ \in {"starting", "up"} THEN "broken" ELSE @]

\* A fault: the hand-over does not await the previous session_shutdown.
TaskTakesOver_NoAwait(t) ==
  /\ task[t].phase = "handoff"
  /\ TakeHostSession(t[1])
  /\ ClaimFor(t)
  /\ UNCHANGED <<hostVars, mountVars, closing, shuts, rejected, made, waits, sess>>

\* session_shutdown of the previous agent has settled: take over.
TaskTakesOver(t) ==
  /\ task[t].phase = "handoff"
  /\ Settled(task[t].after)
  /\ ~Rejected(task[t].after)
  /\ TakeHostSession(t[1])
  /\ ClaimFor(t)
  /\ UNCHANGED <<hostVars, mountVars, closing, shuts, rejected, made, waits, sess>>

\* It rejected, outside the try block: no claim to release.
TaskHandoffFails(t) ==
  /\ task[t].phase = "handoff"
  /\ Settled(task[t].after)
  /\ Rejected(task[t].after)
  /\ task' = [task EXCEPT ![t].phase = "failed"]
  /\ current' = [current EXCEPT ![SessionOf[t[1]]] = IF @ = t THEN None ELSE @]
  /\ UNCHANGED <<hostVars, mountVars, host, shutVars, rejected, claims, made, waits, sess>>

\* prepareSessionFileExports is done: session_start is dispatched.
TaskDispatches(t) ==
  /\ task[t].phase = "exports"
  /\ task' = [task EXCEPT ![t].phase = "starting"]
  /\ sess' = [sess EXCEPT ![t[1]] = "starting"]
  /\ UNCHANGED <<hostVars, mountVars, host, shutVars, rejected, claims, current, made, waits>>

\* The session_start handlers have returned; resources are discovered.
TaskHandlersDone(t) ==
  /\ task[t].phase = "starting"
  /\ task' = [task EXCEPT ![t].phase = "resources"]
  /\ sess' = [sess EXCEPT ![t[1]] = IF @ = "starting" THEN "up" ELSE @]
  /\ UNCHANGED <<hostVars, mountVars, host, shutVars, rejected, claims, current,
                 made, waits>>

TaskDone(t) ==
  /\ task[t].phase = "resources"
  /\ task' = [task EXCEPT ![t].phase = "done"]
  /\ current' = [current EXCEPT ![SessionOf[t[1]]] = IF @ = t THEN None ELSE @]
  /\ UNCHANGED <<hostVars, mountVars, host, shutVars, rejected, claims, made, waits, sess>>

\* A handler or the export throws.
TaskFails(t) ==
  /\ setup.throws
  /\ task[t].phase \in {"exports", "starting", "resources"}
  /\ FailTask(t)
  /\ UNCHANGED <<hostVars, mountVars, host, shutVars, rejected, made, waits>>

ShutdownSettles(p, ok) ==
  /\ p \in closing
  /\ ok \/ setup.throws
  /\ closing' = closing \ {p}
  /\ rejected' = IF ok THEN rejected ELSE rejected \cup {p}
  /\ UNCHANGED <<hostVars, mountVars, host, shut, shutTask, shuts, startVars, sess>>

\* A fault: a joined start that rejects is not passed on.
CallerResumes_OnlyDone(c) ==
  /\ waits[c].state = "waiting"
  /\ task[waits[c].on].phase = "done"
  /\ waits' = [waits EXCEPT ![c] = Resumed(c, "done")]
  /\ UNCHANGED <<hostVars, mountVars, host, shutVars, rejected, claims, current,
                 task, made, sess>>

\* The await of a caller ends when its task has settled.
CallerResumes(c) ==
  /\ waits[c].state = "waiting"
  /\ task[waits[c].on].phase \in {"done", "failed"}
  /\ waits' = [waits EXCEPT ![c] = Resumed(c, task[waits[c].on].phase)]
  /\ UNCHANGED <<hostVars, mountVars, host, shutVars, rejected, claims, current,
                 task, made, sess>>

-----------------------------------------------------------------------------
(* The host's events and calls.                                            *)

Unloaded == {"failed", "closing", "draining", "closed", "broken"}

\* agent/created: buffered until the extension handlers exist.
AgentCreated(a) ==
  /\ life[a] = "absent" /\ a \in setup.agents
  /\ mount \notin Unloaded
  /\ life' = [life EXCEPT ![a] = "live"]
  /\ active' = IF AcceptsAgent(a) THEN active \cup {a} ELSE active
  /\ IF AcceptsAgent(a) /\ ~ready
     THEN /\ pending' = pending \cup {a}
          /\ UNCHANGED <<host, shutVars, rejected, startVars, sess>>
     ELSE /\ StartPiSession(<<"created", a>>)
          /\ UNCHANGED pending
  /\ UNCHANGED <<setup, adopted, mount, ready, queue, reload>>

\* adoptChildAgent, once createBridgedAgentSession has its child.
AdoptChildAgent(a) ==
  /\ a \in Children \ adopted
  /\ life[a] = "live"
  /\ mount \notin Unloaded
  /\ adopted' = adopted \cup {a}
  /\ UNCHANGED <<setup, life, mountVars, host, shutVars, rejected, startVars, sess>>

\* agent/disposed: the claim is released at once; a host agent is shut down.
AgentDisposed(a) ==
  LET accepted == AcceptsAgent(a)
      quits == accepted /\ host = a /\ a \notin shut
  IN /\ MayHappen
     /\ life[a] = "live"
     /\ mount \notin {"closed", "broken"}
     /\ life' = [life EXCEPT ![a] = "gone"]
     /\ IF accepted
        THEN /\ active' = active \ {a}
             /\ pending' = pending \ {a}
             /\ claims' = claims \ {SessionOf[a]}
             /\ current' = [current EXCEPT ![SessionOf[a]] = None]
        ELSE UNCHANGED <<active, pending, claims, current>>
     /\ IF quits
        THEN host' = NoAgent /\ ShutdownPiSession(a)
        ELSE UNCHANGED <<host, shutVars, sess>>
     /\ UNCHANGED <<setup, adopted, mount, ready, queue, reload, rejected, task,
                    made, waits>>

\* Who can reach the instance's tools: its owner once the entries have run, or
\* any live agent of a legacy root mount as soon as a tool is registered.
CanCall(a) ==
  /\ life[a] = "live"
  /\ mount \notin Unloaded
  /\ owner # NoAgent => (a = owner /\ mount # "loading")

\* ensurePiSessionStarted, before a tool or a command handler runs.
ToolCall(a) ==
  /\ CanCall(a)
  /\ waits[<<"tool", a>>] = Idle
  /\ StartPiSession(<<"tool", a>>)
  /\ UNCHANGED <<hostVars, mountVars>>

ToolReturns(a) ==
  /\ waits[<<"tool", a>>] \in {Through, Refused}
  /\ waits' = [waits EXCEPT ![<<"tool", a>>] = Idle]
  /\ UNCHANGED <<hostVars, mountVars, host, shutVars, rejected, claims, current,
                 task, made, sess>>

-----------------------------------------------------------------------------
(* flushPendingSessionStarts, the last await of applyPiPackage.            *)

FlushBegins ==
  LET owned == IF owner = NoAgent THEN {} ELSE {owner} IN
    /\ mount = "loading"
    /\ mount' = "flushing"
    /\ ready' = TRUE
    /\ active' = IF owner \in pending THEN active ELSE active \cup owned
    /\ queue' = pending \cup owned
    /\ pending' = {}
    /\ UNCHANGED <<hostVars, reload, host, shutVars, rejected, startVars, sess>>

Flushing == {a \in Agents : waits[<<"flush", a>>].state = "waiting"}
FlushRefused == \E a \in Agents : waits[<<"flush", a>>] = Refused

FlushNext(a) ==
  /\ mount = "flushing"
  /\ a \in queue
  /\ Flushing = {}
  /\ ~FlushRefused
  /\ queue' = queue \ {a}
  /\ StartPiSession(<<"flush", a>>)
  /\ UNCHANGED <<hostVars, mount, ready, pending, reload, active>>

\* A start that rejects fails the whole mount.
FlushEnds ==
  /\ mount = "flushing"
  /\ Flushing = {}
  /\ queue = {} \/ FlushRefused
  /\ mount' = IF FlushRefused THEN "failed" ELSE "ready"
  /\ queue' = {}
  /\ UNCHANGED <<hostVars, ready, pending, reload, active, host, shutVars, rejected,
                 startVars, sess>>

-----------------------------------------------------------------------------
(* ctx.reload(): shut the session down, run the entries again, restart.    *)

ReloadBegins(c) ==
  LET previous == IF host # NoAgent THEN host ELSE c IN
    /\ MayHappen
    /\ mount = "ready"
    /\ reload.count < setup.reloads
    /\ CanCall(c)
    /\ mount' = "shutting"
    /\ reload' = [agent |-> previous, by |-> c, on |-> ShutdownPromise(previous),
                  drain |-> {}, count |-> reload.count + 1]
    /\ ShutdownPiSession(previous)
    /\ UNCHANGED <<hostVars, ready, pending, queue, active, host, rejected, startVars>>

\* A fault: a reload also forgets which sessions have been started.
ReloadClears_ForgetsClaims ==
  /\ mount = "shutting"
  /\ Settled(reload.on)
  /\ ~Rejected(reload.on)
  /\ mount' = "reloading"
  /\ ready' = FALSE
  /\ shut' = shut \ {reload.agent}
  /\ shutTask' = [shutTask EXCEPT ![reload.agent] = 0]
  /\ claims' = {}
  /\ UNCHANGED <<hostVars, pending, queue, reload, active, host, closing, shuts,
                 rejected, current, task, made, waits, sess>>

\* The memoised shutdown is forgotten and the handlers are cleared.
ReloadClears ==
  /\ mount = "shutting"
  /\ Settled(reload.on)
  /\ IF Rejected(reload.on)
     THEN mount' = "ready" /\ UNCHANGED <<shut, shutTask, ready>>
     ELSE /\ mount' = "reloading"
          /\ ready' = FALSE
          /\ shut' = shut \ {reload.agent}
          /\ shutTask' = [shutTask EXCEPT ![reload.agent] = 0]
  /\ UNCHANGED <<hostVars, pending, queue, reload, active, host, closing, shuts,
                 rejected, startVars, sess>>

\* Prompt registration or the entries throw: the finally block reopens the gate.
ReloadFails ==
  /\ setup.throws
  /\ mount = "reloading"
  /\ mount' = "ready"
  /\ ready' = TRUE
  /\ UNCHANGED <<hostVars, pending, queue, reload, active, host, shutVars, rejected,
                 startVars, sess>>

\* restartReloadedPiSessions: one agent per session of the active ones and the
\* command's own.
ReloadRestarts ==
  /\ mount = "reloading"
  /\ mount' = "restarting"
  /\ ready' = TRUE
  /\ pending' = {}
  /\ LET candidates == {a \in active \cup {reload.by} : AcceptsAgent(a)} IN
       \E chosen \in SUBSET candidates :
         /\ {SessionOf[a] : a \in chosen} = {SessionOf[a] : a \in candidates}
         /\ \A a, b \in chosen : SessionOf[a] = SessionOf[b] => a = b
         /\ queue' = chosen
  /\ reload' = [reload EXCEPT !.agent = NoAgent]
  /\ UNCHANGED <<hostVars, active, host, shutVars, rejected, startVars, sess>>

RestartDispatches(a) ==
  /\ mount = "restarting"
  /\ reload.agent = NoAgent
  /\ a \in queue
  /\ queue' = queue \ {a}
  /\ reload' = [reload EXCEPT !.agent = a]
  /\ sess' = [sess EXCEPT ![a] = "starting"]
  /\ UNCHANGED <<hostVars, mount, ready, pending, active, host, shutVars, rejected, startVars>>

RestartHandlersDone(ok) ==
  /\ ok \/ setup.throws
  /\ mount = "restarting"
  /\ reload.agent # NoAgent
  /\ sess' = [sess EXCEPT ![reload.agent] =
                IF @ # "starting" THEN @ ELSE IF ok THEN "up" ELSE "broken"]
  /\ reload' = [reload EXCEPT !.agent = NoAgent]
  /\ IF ok THEN UNCHANGED <<mount, queue>> ELSE mount' = "ready" /\ queue' = {}
  /\ UNCHANGED <<hostVars, ready, pending, active, host, shutVars, rejected, startVars>>

RestartEnds ==
  /\ mount = "restarting"
  /\ reload.agent = NoAgent
  /\ queue = {}
  /\ mount' = "ready"
  /\ UNCHANGED <<hostVars, ready, pending, queue, reload, active, host, shutVars,
                 rejected, startVars, sess>>

-----------------------------------------------------------------------------
(* The teardown effect, when the plugin is unloaded.                       *)

TeardownBegins ==
  /\ MayHappen
  /\ mount \in {"ready", "failed"}
  /\ mount' = "closing"
  /\ IF host = NoAgent
     THEN UNCHANGED <<shutVars, sess>> /\ reload' = [reload EXCEPT !.on = None]
     ELSE ShutdownPiSession(host) /\ reload' = [reload EXCEPT !.on = ShutdownPromise(host)]
  /\ UNCHANGED <<hostVars, ready, pending, queue, active, host, rejected, startVars>>

\* Then every shutdown pending at this point is awaited.
TeardownDrains ==
  /\ mount = "closing"
  /\ Settled(reload.on)
  /\ mount' = IF Rejected(reload.on) THEN "broken" ELSE "draining"
  /\ reload' = [reload EXCEPT !.drain = closing]
  /\ UNCHANGED <<hostVars, ready, pending, queue, active, host, shutVars, rejected,
                 startVars, sess>>

TeardownFails ==
  /\ mount = "draining"
  /\ \E p \in reload.drain : Rejected(p)
  /\ mount' = "broken"
  /\ UNCHANGED <<hostVars, ready, pending, queue, reload, active, host, shutVars,
                 rejected, startVars, sess>>

TeardownEnds ==
  /\ mount = "draining"
  /\ \A p \in reload.drain : Settled(p) /\ ~Rejected(p)
  /\ mount' = "closed"
  /\ host' = NoAgent
  /\ active' = {}
  /\ claims' = {}
  /\ current' = [s \in Sessions |-> None]
  /\ pending' = {}
  /\ UNCHANGED <<hostVars, ready, queue, reload, shutVars, rejected, task, made,
                 waits, sess>>

-----------------------------------------------------------------------------
TaskStep(t) ==
  \/ TaskTakesOver(t) \/ TaskHandoffFails(t) \/ TaskDispatches(t)
  \/ TaskHandlersDone(t) \/ TaskDone(t) \/ TaskFails(t)

FlushStep == FlushBegins \/ FlushEnds \/ \E a \in Agents : FlushNext(a)

ReloadStep ==
  \/ ReloadClears \/ ReloadFails \/ ReloadRestarts \/ RestartEnds
  \/ \E a \in Agents : RestartDispatches(a)
  \/ \E ok \in BOOLEAN : RestartHandlersDone(ok)

TeardownStep == TeardownDrains \/ TeardownFails \/ TeardownEnds

Next ==
  \/ \E a \in Agents :
       \/ AgentCreated(a) \/ AdoptChildAgent(a) \/ AgentDisposed(a)
       \/ ToolCall(a) \/ ToolReturns(a) \/ ReloadBegins(a)
  \/ \E t \in TaskId : TaskStep(t)
  \/ \E p \in closing, ok \in BOOLEAN : ShutdownSettles(p, ok)
  \/ \E c \in Caller : CallerResumes(c)
  \/ FlushStep \/ ReloadStep \/ TeardownBegins \/ TeardownStep

Spec == Init /\ [][Next]_vars

\* Extension handlers return or throw, and settled promises run their
\* continuations.  Nobody has to create agents, call tools, reload or unload.
Fairness ==
  /\ \A t \in TaskId : WF_vars(TaskStep(t))
  /\ WF_vars(\E p \in closing, ok \in BOOLEAN : ShutdownSettles(p, ok))
  /\ \A c \in Caller : WF_vars(CallerResumes(c))
  /\ WF_vars(FlushStep) /\ WF_vars(ReloadStep) /\ WF_vars(TeardownStep)

FairSpec == Spec /\ Fairness

-----------------------------------------------------------------------------
(* Properties.                                                             *)

Open(a) == sess[a] \in {"starting", "up"}

Dispatches(a) ==
  (\E n \in 1 .. MaxTasks : TaskDispatches(<<a, n>>)) \/ RestartDispatches(a)

\* The promise of LinearRuntime, for the sessions the extension has open and the
\* shutdowns of living agents that it has not finished.
Linear == INSTANCE LinearRuntime WITH
  open <- {a \in Agents : Open(a)},
  ending <- {a \in Agents : life[a] = "live" /\ \E p \in closing : p[1] = a}

\* A switch is linear: the mount implements LinearRuntime, and whenever the
\* extension sees session_start(B), for the first time or once more, no other
\* session is open, and a previous agent that is still alive has finished its
\* session_shutdown (runtime.ts:1941-1951).
LinearSwitch ==
  /\ Linear!Spec
  /\ [][\A a \in Agents : Dispatches(a) =>
          \A b \in Agents \ {a} :
            ~Open(b) /\ (life[b] = "live" => \A p \in closing : p[1] # b)]_vars

\* A call of a live agent of this instance gets past its session check.
CallPasses(a) ==
  /\ AcceptsAgent(a) /\ life[a] = "live" /\ mount \notin Unloaded
  /\ waits[<<"tool", a>>] # Through /\ waits'[<<"tool", a>>] = Through

\* As long as nothing has been reloaded, a tool or a command only runs once its
\* agent's session is up, whoever else was starting it meanwhile
\* (runtime.ts:1931-1937,1970-1973).
ToolAfterStart ==
  [][\A a \in Agents : (CallPasses(a) /\ reload.count = 0) => sess'[a] = "up"]_vars

\* In an owned mount session_start never goes out while the handlers are being
\* (re)loaded, where it would be lost and then suppressed
\* (runtime.ts:1999-2006).  A legacy mount may be called before it has loaded.
StartReachesHandlers ==
  [][\A a \in Agents : (Dispatches(a) /\ owner # NoAgent) => ready]_vars

\* An agent that is marked as started has a session that is up or coming up:
\* otherwise no later tool call would ever start it (runtime.ts:1828-1840).  A
\* reload keeps the claim across its shutdown.  And all variables have their types.
ClaimBacked ==
  /\ TypeOK
  /\ (mount \in {"loading", "flushing", "ready"} /\ reload.count = 0) =>
       \A s \in claims : \E a \in Agents :
         /\ SessionOf[a] = s
         /\ Open(a) \/ \E n \in 1 .. MaxTasks : task[<<a, n>>].phase \in InFlight

\* No caller of startPiSession waits forever, and unloading comes to an end,
\* whatever handlers throw (runtime.ts:1931-1980,2243-2262).
EverythingSettles ==
  /\ \A c \in Caller : waits[c].state = "waiting" ~> waits[c].state # "waiting"
  /\ mount = "closing" ~> mount \in {"closed", "broken"}
============================================================================
