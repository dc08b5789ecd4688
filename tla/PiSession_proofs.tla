-------------------------- MODULE PiSession_proofs --------------------------
(***************************************************************************)
(* Proofs about PiSession, for any agents, sessions and mounts.            *)
(*                                                                         *)
(* StartPiSession is the step everything turns on, so it is taken apart    *)
(* first: it passes, joins, replaces the host's agent, starts again or     *)
(* starts afresh.  On this rest, in order,                                 *)
(*   - the types, with who asked for a reload;                             *)
(*   - the claims, with the order in which an agent's tasks are made;      *)
(*   - the start of an owned mount: the owner is known, queued, flushed    *)
(*     and started once, by a task of its own;                             *)
(*   - the switch: one start at a time, and what is true of the host       *)
(*     session between two starts;                                         *)
(*   - the calls, which wait for what the last two describe.               *)
(* The last three have hypotheses about the setups, stated where they are  *)
(* needed: which sessions the children of an owned mount have, and whether *)
(* the host of a legacy mount starts agents one at a time.                 *)
(***************************************************************************)
EXTENDS PiSession, TLAPS

Phase == {"unused", "handoff", "exports", "starting", "resources", "done", "failed"}
View  == {"none", "starting", "up", "broken", "down"}

-----------------------------------------------------------------------------
(* The five ways startPiSession goes up to its first await.                *)

\* Everything startPiSession may change but the callers' awaits.
besidesWaits == <<host, shutVars, rejected, claims, current, task, made, sess>>

\* Not an agent of this instance: nothing to do.
Passes(c) ==
  /\ ~AcceptsAgent(c[2])
  /\ waits' = [waits EXCEPT ![c] = Resumed(c, "done")]
  /\ UNCHANGED besidesWaits

\* The session's start is under way already.
Joins(c) ==
  /\ AcceptsAgent(c[2]) /\ current[SessionOf[c[2]]] # None
  /\ waits' = [waits EXCEPT ![c] = [state |-> "waiting", on |-> current[SessionOf[c[2]]]]]
  /\ UNCHANGED besidesWaits

\* What the three ways to make a task share.
NewTask(c) ==
  /\ AcceptsAgent(c[2]) /\ current[SessionOf[c[2]]] = None
  /\ made[c[2]] < setup.tasks
  /\ made' = [made EXCEPT ![c[2]] = made[c[2]] + 1]
  /\ rejected' = rejected

TaskOf(c) == <<c[2], made[c[2]] + 1>>

\* Another agent has the host session.
Replaces(c) ==
  /\ NewTask(c)
  /\ host \notin {NoAgent, c[2]}
  /\ task' = [task EXCEPT ![TaskOf(c)] = [phase |-> "handoff", after |-> ShutdownPromise(host)]]
  /\ claims' = claims \ {SessionOf[host]}
  /\ current' = [current EXCEPT ![SessionOf[host]] = None, ![SessionOf[c[2]]] = TaskOf(c)]
  /\ ShutdownPiSession(host)
  /\ waits' = [waits EXCEPT ![c] = [state |-> "waiting", on |-> TaskOf(c)]]
  /\ host' = host

\* The host session is free or its own, and the session has been started before.
StartsAgain(c) ==
  /\ NewTask(c)
  /\ host \in {NoAgent, c[2]}
  /\ TakeHostSession(c[2])
  /\ SessionOf[c[2]] \in claims
  /\ task' = [task EXCEPT ![TaskOf(c)].phase = "done"]
  /\ waits' = [waits EXCEPT ![c] = Resumed(c, "done")]
  /\ UNCHANGED <<claims, current, closing, shuts, sess>>

\* The same, for a session that nobody has started.
StartsFresh(c) ==
  /\ NewTask(c)
  /\ host \in {NoAgent, c[2]}
  /\ TakeHostSession(c[2])
  /\ SessionOf[c[2]] \notin claims
  /\ task' = [task EXCEPT ![TaskOf(c)].phase = "exports"]
  /\ claims' = claims \cup {SessionOf[c[2]]}
  /\ current' = [current EXCEPT ![SessionOf[c[2]]] = TaskOf(c)]
  /\ waits' = [waits EXCEPT ![c] = [state |-> "waiting", on |-> TaskOf(c)]]
  /\ UNCHANGED <<closing, shuts, sess>>

\* startPiSession goes one of the five ways.
LEMMA StartWays ==
  ASSUME NEW c, StartPiSession(c)
  PROVE  /\ MayHappen
         /\ Passes(c) \/ Joins(c) \/ Replaces(c) \/ StartsAgain(c) \/ StartsFresh(c)
<1>1. CASE ~AcceptsAgent(c[2])
  BY <1>1 DEF StartPiSession, Passes, besidesWaits
<1>2. CASE AcceptsAgent(c[2]) /\ current[SessionOf[c[2]]] # None
  BY <1>2 DEF StartPiSession, Joins, besidesWaits
<1>3. CASE AcceptsAgent(c[2]) /\ current[SessionOf[c[2]]] = None
  <2>1. MayHappen /\ BeginStart(c)
    BY <1>3 DEF StartPiSession
  <2>2. NewTask(c)
    BY <1>3, <2>1 DEF BeginStart, NewTask
  <2>3. CASE host \notin {NoAgent, c[2]}
    BY <2>1, <2>2, <2>3 DEF BeginStart, Replaces, TaskOf
  <2>4. CASE host \in {NoAgent, c[2]} /\ SessionOf[c[2]] \in claims
    BY <2>1, <2>2, <2>4 DEF BeginStart, StartsAgain, TaskOf
  <2>5. CASE host \in {NoAgent, c[2]} /\ SessionOf[c[2]] \notin claims
    BY <2>1, <2>2, <2>5 DEF BeginStart, StartsFresh, TaskOf
  <2> QED
    BY <2>1, <2>3, <2>4, <2>5
<1> QED
  BY <1>1, <1>2, <1>3

-----------------------------------------------------------------------------
(* Type correctness.                                                       *)

HostTyped ==
  /\ setup \in Setups
  /\ life \in [Agents -> {"absent", "live", "gone"}]
  /\ adopted \in SUBSET Agents

MountTyped ==
  /\ mount \in {"loading", "flushing", "ready", "failed", "shutting", "reloading",
                "restarting", "closing", "draining", "closed", "broken"}
  /\ ready \in BOOLEAN
  /\ pending \in SUBSET Agents
  /\ queue \in SUBSET Agents
  /\ active \in SUBSET Agents

ReloadTyped ==
  reload \in [agent : Agents \cup {NoAgent}, by : Agents \cup {NoAgent},
              on : Promise \cup {None}, drain : SUBSET Promise, count : Nat]

ShutTyped ==
  /\ shut \in SUBSET Agents
  /\ shutTask \in [Agents -> Nat]
  /\ closing \in SUBSET Promise
  /\ shuts \in [Agents -> Nat]

StartTyped ==
  /\ claims \in SUBSET Sessions
  /\ current \in [Sessions -> TaskId \cup {None}]
  /\ task \in [TaskId -> Task]
  /\ made \in [Agents -> 0 .. MaxTasks]
  /\ waits \in [Caller -> Wait]

SeenTyped ==
  /\ host \in Agents \cup {NoAgent}
  /\ rejected \in SUBSET Promise
  /\ sess \in [Agents -> View]

\* The type invariant, in six parts, now and after the step.
LEMMA TypeParts ==
  /\ TypeOK <=> HostTyped /\ MountTyped /\ ReloadTyped /\ ShutTyped /\ StartTyped /\ SeenTyped
  /\ HostTyped' /\ MountTyped' /\ ReloadTyped' /\ ShutTyped' /\ StartTyped' /\ SeenTyped'
       => TypeOK'
BY DEF TypeOK, HostTyped, MountTyped, ReloadTyped, ShutTyped, StartTyped, SeenTyped, View

\* The mount explored, and its owner.
LEMMA SetupTyped ==
  ASSUME HostTyped
  PROVE  /\ owner \in Agents \cup {NoAgent}
         /\ owner # NoAgent => owner \in Agents \ Children
         /\ setup.tasks \in 0 .. MaxTasks /\ setup.reloads \in Nat
         /\ setup.throws \in BOOLEAN /\ setup.overlap \in BOOLEAN
<1>1. setup \in [owner : (Agents \ Children) \cup {NoAgent}, agents : SUBSET Agents,
                 tasks : 0 .. MaxTasks, reloads : Nat, throws : BOOLEAN, overlap : BOOLEAN]
  BY SetupsAssumption DEF HostTyped
<1> QED
  BY <1>1 DEF owner

\* A session is somebody's.
LEMMA SessionTyped == \A a \in Agents : SessionOf[a] \in Sessions
BY DEF Sessions

\* A task that goes on to another phase.
LEMMA PhaseTyped ==
  ASSUME task \in [TaskId -> Task], NEW t \in TaskId, NEW ph \in Phase,
         task' = [task EXCEPT ![t].phase = ph]
  PROVE  /\ task' \in [TaskId -> Task]
         /\ \A u \in TaskId : /\ task'[u].phase = IF u = t THEN ph ELSE task[u].phase
                              /\ task'[u].after = task[u].after
<1>1. task[t] \in Task /\ [task[t] EXCEPT !.phase = ph] \in Task
  BY DEF Task, Phase
<1>2. task' = [task EXCEPT ![t] = [task[t] EXCEPT !.phase = ph]]
  OBVIOUS
<1>3. task' \in [TaskId -> Task]
  BY <1>1, <1>2
<1>4. \A u \in TaskId : task'[u] = IF u = t THEN [task[t] EXCEPT !.phase = ph] ELSE task[u]
  BY <1>2
<1>5. [task[t] EXCEPT !.phase = ph].phase = ph
      /\ [task[t] EXCEPT !.phase = ph].after = task[t].after
  BY <1>1 DEF Task
<1> QED
  BY <1>3, <1>4, <1>5

\* The memoised shutdown promise is one.
LEMMA PromiseTyped ==
  ASSUME ShutTyped, NEW a \in Agents
  PROVE  ShutdownPromise(a) \in Promise \cup {None}
BY DEF ShutTyped, ShutdownPromise, Promise

\* shutdownPiSession keeps the types.
LEMMA ShutdownTyped ==
  ASSUME ShutTyped, SeenTyped, NEW a \in Agents, ShutdownPiSession(a)
  PROVE  ShutTyped' /\ sess' \in [Agents -> View]
<1>1. CASE shutTask[a] # 0 \/ a \in shut
  BY <1>1 DEF ShutdownPiSession, shutVars, ShutTyped, SeenTyped
<1>2. CASE ~(shutTask[a] # 0 \/ a \in shut)
  <2>1. <<a, shuts[a] + 1>> \in Promise
    BY DEF ShutTyped, Promise
  <2> QED
    BY <1>2, <2>1 DEF ShutdownPiSession, ShutTyped, SeenTyped, View
<1> QED
  BY <1>1, <1>2

\* Every await of a caller is one of these.
LEMMA AwaitTyped ==
  /\ \A c \in Caller : \A ph : Resumed(c, ph) \in Wait
  /\ \A t \in TaskId \cup {None} : [state |-> "waiting", on |-> t] \in Wait
  /\ Idle \in Wait /\ Through \in Wait /\ Refused \in Wait
BY DEF Resumed, Wait, Idle, Through, Refused

\* A new task has a number of its own.
LEMMA TaskOfTyped ==
  ASSUME HostTyped, StartTyped, NEW c \in Caller, NewTask(c)
  PROVE  /\ TaskOf(c) \in TaskId /\ TaskOf(c)[1] = c[2] /\ c[2] \in Agents
         /\ made' \in [Agents -> 0 .. MaxTasks]
<1>1. setup.tasks \in 0 .. MaxTasks /\ MaxTasks \in Nat
  BY SetupTyped, SetupsAssumption
<1>2. c[2] \in Agents /\ made[c[2]] \in 0 .. MaxTasks /\ made[c[2]] < setup.tasks
  BY DEF Caller, StartTyped, NewTask
<1>3. made[c[2]] + 1 \in 1 .. MaxTasks
  BY <1>1, <1>2
<1>4. made' = [made EXCEPT ![c[2]] = made[c[2]] + 1]
  BY DEF NewTask
<1> QED
  BY <1>2, <1>3, <1>4 DEF TaskOf, TaskId, StartTyped

\* startPiSession keeps the types.
LEMMA StartKeepsTypes ==
  ASSUME HostTyped, ShutTyped, StartTyped, SeenTyped,
         NEW c \in Caller, StartPiSession(c)
  PROVE  ShutTyped' /\ StartTyped' /\ SeenTyped'
<1> USE SessionTyped
<1>1. c[2] \in Agents /\ SessionOf[c[2]] \in Sessions
  BY DEF Caller
<1>2. CASE Passes(c)
  <2>1. waits' \in [Caller -> Wait]
    BY <1>2, AwaitTyped DEF Passes, StartTyped
  <2> QED
    BY <1>2, <2>1 DEF Passes, besidesWaits, shutVars, ShutTyped, StartTyped, SeenTyped
<1>3. CASE Joins(c)
  <2>1. current[SessionOf[c[2]]] \in TaskId \cup {None}
    BY <1>1 DEF StartTyped
  <2>2. waits' \in [Caller -> Wait]
    BY <1>3, <2>1, AwaitTyped DEF Joins, StartTyped
  <2> QED
    BY <1>3, <2>2 DEF Joins, besidesWaits, shutVars, ShutTyped, StartTyped, SeenTyped
<1>4. CASE Replaces(c)
  <2>1. NewTask(c)
    BY <1>4 DEF Replaces
  <2>2. TaskOf(c) \in TaskId /\ made' \in [Agents -> 0 .. MaxTasks]
    BY <2>1, TaskOfTyped
  <2>3. host \in Agents /\ SessionOf[host] \in Sessions
    BY <1>4 DEF Replaces, SeenTyped
  <2>4. [phase |-> "handoff", after |-> ShutdownPromise(host)] \in Task
    BY <2>3, PromiseTyped DEF Task
  <2>5. task' \in [TaskId -> Task]
    BY <1>4, <2>2, <2>4 DEF Replaces, StartTyped
  <2>6. claims' \in SUBSET Sessions /\ current' \in [Sessions -> TaskId \cup {None}]
    BY <1>1, <1>4, <2>2, <2>3 DEF Replaces, StartTyped
  <2>7. waits' \in [Caller -> Wait]
    BY <1>4, <2>2, AwaitTyped DEF Replaces, StartTyped
  <2>8. ShutTyped' /\ sess' \in [Agents -> View]
    BY <1>4, <2>3, ShutdownTyped DEF Replaces
  <2> QED
    BY <1>4, <2>1, <2>2, <2>5, <2>6, <2>7, <2>8 DEF Replaces, NewTask, StartTyped, SeenTyped
<1>5. CASE StartsAgain(c)
  <2>1. NewTask(c)
    BY <1>5 DEF StartsAgain
  <2>2. TaskOf(c) \in TaskId /\ made' \in [Agents -> 0 .. MaxTasks]
    BY <2>1, TaskOfTyped
  <2>3. task' \in [TaskId -> Task]
    BY <1>5, <2>2, PhaseTyped DEF StartsAgain, StartTyped, Phase
  <2>4. waits' \in [Caller -> Wait]
    BY <1>5, AwaitTyped DEF StartsAgain, StartTyped
  <2>5. ShutTyped' /\ host' \in Agents \cup {NoAgent}
    BY <1>1, <1>5 DEF StartsAgain, TakeHostSession, ShutTyped
  <2> QED
    BY <1>5, <2>1, <2>2, <2>3, <2>4, <2>5 DEF StartsAgain, NewTask, StartTyped, SeenTyped
<1>6. CASE StartsFresh(c)
  <2>1. NewTask(c)
    BY <1>6 DEF StartsFresh
  <2>2. TaskOf(c) \in TaskId /\ made' \in [Agents -> 0 .. MaxTasks]
    BY <2>1, TaskOfTyped
  <2>3. task' \in [TaskId -> Task]
    BY <1>6, <2>2, PhaseTyped DEF StartsFresh, StartTyped, Phase
  <2>4. waits' \in [Caller -> Wait]
    BY <1>6, <2>2, AwaitTyped DEF StartsFresh, StartTyped
  <2>5. ShutTyped' /\ host' \in Agents \cup {NoAgent}
    BY <1>1, <1>6 DEF StartsFresh, TakeHostSession, ShutTyped
  <2>6. claims' \in SUBSET Sessions /\ current' \in [Sessions -> TaskId \cup {None}]
    BY <1>1, <1>6, <2>2 DEF StartsFresh, StartTyped
  <2> QED
    BY <1>6, <2>1, <2>2, <2>3, <2>4, <2>5, <2>6 DEF StartsFresh, NewTask, StartTyped, SeenTyped
<1> QED
  BY <1>2, <1>3, <1>4, <1>5, <1>6, StartWays

\* The initial state is well typed.
LEMMA InitTyped == Init => TypeOK
<1> SUFFICES ASSUME Init PROVE TypeOK
  OBVIOUS
<1>1. HostTyped
  BY DEF Init, HostTyped
<1>2. MountTyped
  BY DEF Init, MountTyped
<1>3. ReloadTyped
  BY DEF Init, ReloadTyped, NoReload
<1>4. ShutTyped
  BY DEF Init, ShutTyped
<1>5. StartTyped
  <2>1. Idle \in Wait /\ [phase |-> "unused", after |-> None] \in Task
    BY DEF Idle, Wait, Task
  <2> QED
    BY <2>1, SetupsAssumption DEF Init, StartTyped
<1>6. SeenTyped
  BY DEF Init, SeenTyped, View
<1> QED
  BY <1>1, <1>2, <1>3, <1>4, <1>5, <1>6, TypeParts

\* A start task's steps keep the types.
LEMMA TaskStepType ==
  ASSUME TypeOK, NEW t \in TaskId, TaskStep(t)
  PROVE  TypeOK'
<1>0. /\ HostTyped /\ MountTyped /\ ReloadTyped /\ ShutTyped /\ StartTyped /\ SeenTyped
      /\ t[1] \in Agents /\ SessionOf[t[1]] \in Sessions
  BY TypeParts, SessionTyped DEF TaskId
<1> SUFFICES HostTyped' /\ MountTyped' /\ ReloadTyped' /\ ShutTyped' /\ StartTyped' /\ SeenTyped'
  BY TypeParts
<1>a. HostTyped' /\ MountTyped' /\ ReloadTyped'
  <2>1. UNCHANGED <<hostVars, mountVars>>
    BY DEF TaskStep, TaskTakesOver, TaskHandoffFails, TaskDispatches, TaskHandlersDone,
           TaskDone, TaskFails
  <2> QED
    BY <1>0, <2>1 DEF hostVars, mountVars, HostTyped, MountTyped, ReloadTyped
<1>1. CASE TaskTakesOver(t)
  <2>1. PICK ph \in {"done", "exports"} : task' = [task EXCEPT ![t].phase = ph]
    BY <1>1 DEF TaskTakesOver, ClaimFor
  <2>2. task' \in [TaskId -> Task]
    BY <1>0, <2>1, PhaseTyped DEF StartTyped, Phase
  <2>3. claims' \in SUBSET Sessions /\ current' \in [Sessions -> TaskId \cup {None}]
    BY <1>0, <1>1 DEF TaskTakesOver, ClaimFor, StartTyped
  <2> QED
    BY <1>0, <1>a, <1>1, <2>2, <2>3
    DEF TaskTakesOver, TakeHostSession, ShutTyped, StartTyped, SeenTyped
<1>2. CASE TaskHandoffFails(t)
  <2>2. task' \in [TaskId -> Task]
    BY <1>0, <1>2, PhaseTyped DEF TaskHandoffFails, StartTyped, Phase
  <2>3. claims' \in SUBSET Sessions /\ current' \in [Sessions -> TaskId \cup {None}]
    BY <1>0, <1>2 DEF TaskHandoffFails, StartTyped
  <2> QED
    BY <1>0, <1>a, <1>2, <2>2, <2>3
    DEF TaskHandoffFails, shutVars, ShutTyped, StartTyped, SeenTyped
<1>3. CASE TaskDispatches(t)
  <2>2. task' \in [TaskId -> Task]
    BY <1>0, <1>3, PhaseTyped DEF TaskDispatches, StartTyped, Phase
  <2> QED
    BY <1>0, <1>a, <1>3, <2>2
    DEF TaskDispatches, shutVars, ShutTyped, StartTyped, SeenTyped, View
<1>4. CASE TaskHandlersDone(t)
  <2>2. task' \in [TaskId -> Task]
    BY <1>0, <1>4, PhaseTyped DEF TaskHandlersDone, StartTyped, Phase
  <2> QED
    BY <1>0, <1>a, <1>4, <2>2
    DEF TaskHandlersDone, shutVars, ShutTyped, StartTyped, SeenTyped, View
<1>5. CASE TaskDone(t)
  <2>2. task' \in [TaskId -> Task]
    BY <1>0, <1>5, PhaseTyped DEF TaskDone, StartTyped, Phase
  <2>3. claims' \in SUBSET Sessions /\ current' \in [Sessions -> TaskId \cup {None}]
    BY <1>0, <1>5 DEF TaskDone, StartTyped
  <2> QED
    BY <1>0, <1>a, <1>5, <2>2, <2>3
    DEF TaskDone, shutVars, ShutTyped, StartTyped, SeenTyped
<1>6. CASE TaskFails(t)
  <2>2. task' \in [TaskId -> Task]
    BY <1>0, <1>6, PhaseTyped DEF TaskFails, FailTask, StartTyped, Phase
  <2>3. claims' \in SUBSET Sessions /\ current' \in [Sessions -> TaskId \cup {None}]
    BY <1>0, <1>6 DEF TaskFails, FailTask, StartTyped
  <2>4. sess' \in [Agents -> View]
    BY <1>0, <1>6 DEF TaskFails, FailTask, SeenTyped, View
  <2> QED
    BY <1>0, <1>a, <1>6, <2>2, <2>3, <2>4
    DEF TaskFails, shutVars, ShutTyped, StartTyped, SeenTyped
<1> QED
  BY <1>1, <1>2, <1>3, <1>4, <1>5, <1>6 DEF TaskStep

\* What the host and the callers do keeps the types.
LEMMA EventType ==
  ASSUME TypeOK, NEW a \in Agents,
         AgentCreated(a) \/ AdoptChildAgent(a) \/ AgentDisposed(a) \/ ToolCall(a) \/ ToolReturns(a)
  PROVE  TypeOK'
<1>0. /\ HostTyped /\ MountTyped /\ ReloadTyped /\ ShutTyped /\ StartTyped /\ SeenTyped
      /\ SessionOf[a] \in Sessions
      /\ <<"created", a>> \in Caller /\ <<"tool", a>> \in Caller
  BY TypeParts, SessionTyped DEF Caller
<1> SUFFICES HostTyped' /\ MountTyped' /\ ReloadTyped' /\ ShutTyped' /\ StartTyped' /\ SeenTyped'
  BY TypeParts
<1>1. CASE AgentCreated(a)
  <2>1. HostTyped' /\ MountTyped' /\ ReloadTyped'
    BY <1>0, <1>1 DEF AgentCreated, HostTyped, MountTyped, ReloadTyped
  <2>2. CASE StartPiSession(<<"created", a>>)
    BY <1>0, <2>1, <2>2, StartKeepsTypes
  <2>3. CASE UNCHANGED <<host, shutVars, rejected, startVars, sess>>
    BY <1>0, <2>1, <2>3 DEF shutVars, startVars, ShutTyped, StartTyped, SeenTyped
  <2> QED
    BY <1>1, <2>2, <2>3 DEF AgentCreated
<1>2. CASE AdoptChildAgent(a)
  BY <1>0, <1>2 DEF AdoptChildAgent, HostTyped, mountVars, MountTyped, ReloadTyped, shutVars,
     ShutTyped, startVars, StartTyped, SeenTyped
<1>3. CASE AgentDisposed(a)
  <2>1. HostTyped' /\ MountTyped' /\ ReloadTyped'
    BY <1>0, <1>3 DEF AgentDisposed, HostTyped, MountTyped, ReloadTyped
  <2>2. claims' \in SUBSET Sessions /\ current' \in [Sessions -> TaskId \cup {None}]
    BY <1>0, <1>3 DEF AgentDisposed, StartTyped
  <2>3. StartTyped'
    BY <1>0, <1>3, <2>2 DEF AgentDisposed, StartTyped
  <2>4. ShutTyped' /\ sess' \in [Agents -> View] /\ host' \in Agents \cup {NoAgent}
    <3>1. CASE host' = NoAgent /\ ShutdownPiSession(a)
      BY <1>0, <3>1, ShutdownTyped
    <3>2. CASE UNCHANGED <<host, shutVars, sess>>
      BY <1>0, <3>2 DEF shutVars, ShutTyped, SeenTyped
    <3> QED
      BY <1>3, <3>1, <3>2 DEF AgentDisposed
  <2> QED
    BY <1>0, <1>3, <2>1, <2>3, <2>4 DEF AgentDisposed, SeenTyped
<1>4. CASE ToolCall(a)
  <2>1. HostTyped' /\ MountTyped' /\ ReloadTyped'
    BY <1>0, <1>4 DEF ToolCall, hostVars, mountVars, HostTyped, MountTyped, ReloadTyped
  <2> QED
    BY <1>0, <1>4, <2>1, StartKeepsTypes DEF ToolCall
<1>5. CASE ToolReturns(a)
  BY <1>0, <1>5, AwaitTyped DEF ToolReturns, hostVars, HostTyped, mountVars, MountTyped,
     ReloadTyped, shutVars, ShutTyped, StartTyped, SeenTyped
<1> QED
  BY <1>1, <1>2, <1>3, <1>4, <1>5

\* Promises that settle and callers that resume keep the types.
LEMMA SettleType ==
  ASSUME TypeOK,
         \/ \E p \in closing, ok \in BOOLEAN : ShutdownSettles(p, ok)
         \/ \E c \in Caller : CallerResumes(c)
  PROVE  TypeOK'
<1>0. HostTyped /\ MountTyped /\ ReloadTyped /\ ShutTyped /\ StartTyped /\ SeenTyped
  BY TypeParts
<1> SUFFICES HostTyped' /\ MountTyped' /\ ReloadTyped' /\ ShutTyped' /\ StartTyped' /\ SeenTyped'
  BY TypeParts
<1>1. ASSUME NEW p \in closing, NEW ok \in BOOLEAN, ShutdownSettles(p, ok)
      PROVE  HostTyped' /\ MountTyped' /\ ReloadTyped' /\ ShutTyped' /\ StartTyped' /\ SeenTyped'
  BY <1>0, <1>1 DEF ShutdownSettles, hostVars, HostTyped, mountVars, MountTyped,
     ReloadTyped, ShutTyped, startVars, StartTyped, SeenTyped
<1>2. ASSUME NEW c \in Caller, CallerResumes(c)
      PROVE  HostTyped' /\ MountTyped' /\ ReloadTyped' /\ ShutTyped' /\ StartTyped' /\ SeenTyped'
  BY <1>0, <1>2, AwaitTyped DEF CallerResumes, hostVars, HostTyped, mountVars, MountTyped,
     ReloadTyped, shutVars, ShutTyped, StartTyped, SeenTyped
<1> QED
  BY <1>1, <1>2

\* The flush keeps the types.
LEMMA FlushType ==
  ASSUME TypeOK, FlushStep
  PROVE  TypeOK'
<1>0. HostTyped /\ MountTyped /\ ReloadTyped /\ ShutTyped /\ StartTyped /\ SeenTyped
  BY TypeParts
<1> SUFFICES HostTyped' /\ MountTyped' /\ ReloadTyped' /\ ShutTyped' /\ StartTyped' /\ SeenTyped'
  BY TypeParts
<1>1. CASE FlushBegins
  BY <1>0, <1>1, SetupTyped DEF FlushBegins, hostVars, HostTyped, MountTyped, ReloadTyped,
     shutVars, ShutTyped, startVars, StartTyped, SeenTyped
<1>2. CASE FlushEnds
  BY <1>0, <1>2 DEF FlushEnds, hostVars, HostTyped, MountTyped, ReloadTyped,
     shutVars, ShutTyped, startVars, StartTyped, SeenTyped
<1>3. ASSUME NEW a \in Agents, FlushNext(a)
      PROVE  HostTyped' /\ MountTyped' /\ ReloadTyped' /\ ShutTyped' /\ StartTyped' /\ SeenTyped'
  <2>1. HostTyped' /\ MountTyped' /\ ReloadTyped'
    BY <1>0, <1>3 DEF FlushNext, hostVars, HostTyped, MountTyped, ReloadTyped
  <2>2. <<"flush", a>> \in Caller
    BY DEF Caller
  <2> QED
    BY <1>0, <1>3, <2>1, <2>2, StartKeepsTypes DEF FlushNext
<1> QED
  BY <1>1, <1>2, <1>3 DEF FlushStep

\* Some agent's command asked for the reload that has still to restart.
ReloadByAgent == mount \in {"shutting", "reloading"} => reload.by # NoAgent

\* A reload keeps the types.
LEMMA ReloadType ==
  ASSUME TypeOK, ReloadByAgent, ReloadStep \/ \E a \in Agents : ReloadBegins(a)
  PROVE  TypeOK'
<1>0. HostTyped /\ MountTyped /\ ReloadTyped /\ ShutTyped /\ StartTyped /\ SeenTyped
  BY TypeParts
<1> SUFFICES HostTyped' /\ MountTyped' /\ ReloadTyped' /\ ShutTyped' /\ StartTyped' /\ SeenTyped'
  BY TypeParts
<1>1. ASSUME NEW a \in Agents, ReloadBegins(a)
      PROVE  HostTyped' /\ MountTyped' /\ ReloadTyped' /\ ShutTyped' /\ StartTyped' /\ SeenTyped'
  <2>1. PICK previous \in Agents :
          /\ reload' = [agent |-> previous, by |-> a, on |-> ShutdownPromise(previous),
                        drain |-> {}, count |-> reload.count + 1]
          /\ ShutdownPiSession(previous)
    BY <1>0, <1>1 DEF ReloadBegins, SeenTyped
  <2>2. ReloadTyped'
    BY <1>0, <2>1, PromiseTyped DEF ReloadTyped
  <2>3. ShutTyped' /\ sess' \in [Agents -> View]
    BY <1>0, <2>1, ShutdownTyped
  <2> QED
    BY <1>0, <1>1, <2>2, <2>3 DEF ReloadBegins, hostVars, HostTyped, MountTyped, startVars,
       StartTyped, SeenTyped
<1>2. CASE ReloadClears
  <2>1. shut' \in SUBSET Agents /\ shutTask' \in [Agents -> Nat]
    BY <1>0, <1>2 DEF ReloadClears, ShutTyped
  <2>2. MountTyped' /\ ReloadTyped'
    BY <1>0, <1>2 DEF ReloadClears, MountTyped, ReloadTyped
  <2> QED
    BY <1>0, <1>2, <2>1, <2>2 DEF ReloadClears, hostVars, HostTyped, ShutTyped, startVars,
       StartTyped, SeenTyped
<1>3. CASE ReloadFails
  BY <1>0, <1>3 DEF ReloadFails, hostVars, HostTyped, MountTyped, ReloadTyped, shutVars,
     ShutTyped, startVars, StartTyped, SeenTyped
<1>4. CASE ReloadRestarts
  <2>1. queue' \in SUBSET Agents
    <3>1. PICK chosen \in SUBSET {a \in active \cup {reload.by} : AcceptsAgent(a)} : queue' = chosen
      BY <1>4 DEF ReloadRestarts
    <3>2. active \cup {reload.by} \subseteq Agents
      BY <1>0, <1>4 DEF ReloadRestarts, MountTyped, ReloadTyped, ReloadByAgent
    <3> QED
      BY <3>1, <3>2
  <2> QED
    BY <1>0, <1>4, <2>1 DEF ReloadRestarts, hostVars, HostTyped, MountTyped, ReloadTyped,
       shutVars, ShutTyped, startVars, StartTyped, SeenTyped
<1>5. CASE RestartEnds
  BY <1>0, <1>5 DEF RestartEnds, hostVars, HostTyped, MountTyped, ReloadTyped, shutVars,
     ShutTyped, startVars, StartTyped, SeenTyped
<1>6. ASSUME NEW a \in Agents, RestartDispatches(a)
      PROVE  HostTyped' /\ MountTyped' /\ ReloadTyped' /\ ShutTyped' /\ StartTyped' /\ SeenTyped'
  BY <1>0, <1>6 DEF RestartDispatches, hostVars, HostTyped, MountTyped, ReloadTyped, shutVars,
     ShutTyped, startVars, StartTyped, SeenTyped, View
<1>7. ASSUME NEW ok \in BOOLEAN, RestartHandlersDone(ok)
      PROVE  HostTyped' /\ MountTyped' /\ ReloadTyped' /\ ShutTyped' /\ StartTyped' /\ SeenTyped'
  BY <1>0, <1>7 DEF RestartHandlersDone, hostVars, HostTyped, MountTyped, ReloadTyped, shutVars,
     ShutTyped, startVars, StartTyped, SeenTyped, View
<1> QED
  BY <1>1, <1>2, <1>3, <1>4, <1>5, <1>6, <1>7 DEF ReloadStep

\* Unloading keeps the types.
LEMMA TeardownType ==
  ASSUME TypeOK, TeardownBegins \/ TeardownStep
  PROVE  TypeOK'
<1>0. HostTyped /\ MountTyped /\ ReloadTyped /\ ShutTyped /\ StartTyped /\ SeenTyped
  BY TypeParts
<1> SUFFICES HostTyped' /\ MountTyped' /\ ReloadTyped' /\ ShutTyped' /\ StartTyped' /\ SeenTyped'
  BY TypeParts
<1>1. CASE TeardownBegins
  <2>1. CASE host = NoAgent
    BY <1>0, <1>1, <2>1 DEF TeardownBegins, hostVars, HostTyped, MountTyped, ReloadTyped,
       shutVars, ShutTyped, startVars, StartTyped, SeenTyped
  <2>2. CASE host # NoAgent
    <3>1. host \in Agents /\ ShutdownPiSession(host)
          /\ reload' = [reload EXCEPT !.on = ShutdownPromise(host)]
      BY <1>0, <1>1, <2>2 DEF TeardownBegins, SeenTyped
    <3>2. ShutTyped' /\ sess' \in [Agents -> View] /\ ReloadTyped'
      BY <1>0, <3>1, ShutdownTyped, PromiseTyped DEF ReloadTyped
    <3> QED
      BY <1>0, <1>1, <3>2 DEF TeardownBegins, hostVars, HostTyped, MountTyped, startVars,
         StartTyped, SeenTyped
  <2> QED
    BY <2>1, <2>2
<1>2. CASE TeardownDrains
  BY <1>0, <1>2 DEF TeardownDrains, hostVars, HostTyped, MountTyped, ReloadTyped, shutVars,
     ShutTyped, startVars, StartTyped, SeenTyped
<1>3. CASE TeardownFails
  BY <1>0, <1>3 DEF TeardownFails, hostVars, HostTyped, MountTyped, ReloadTyped, shutVars,
     ShutTyped, startVars, StartTyped, SeenTyped
<1>4. CASE TeardownEnds
  BY <1>0, <1>4 DEF TeardownEnds, hostVars, HostTyped, MountTyped, ReloadTyped, shutVars,
     ShutTyped, StartTyped, SeenTyped
<1> QED
  BY <1>1, <1>2, <1>3, <1>4 DEF TeardownStep

\* A step that changes nothing keeps the types.
LEMMA StutterType == TypeOK /\ UNCHANGED vars => TypeOK'
BY DEF vars, hostVars, mountVars, shutVars, startVars, TypeOK

\* Every step keeps the types.
LEMMA StepType == TypeOK /\ ReloadByAgent /\ [Next]_vars => TypeOK'
<1> SUFFICES ASSUME TypeOK, ReloadByAgent, [Next]_vars PROVE TypeOK'
  OBVIOUS
<1>1. CASE UNCHANGED vars
  BY <1>1, StutterType
<1>2. ASSUME NEW a \in Agents,
             \/ AgentCreated(a) \/ AdoptChildAgent(a) \/ AgentDisposed(a)
             \/ ToolCall(a) \/ ToolReturns(a) \/ ReloadBegins(a)
      PROVE  TypeOK'
  BY <1>2, EventType, ReloadType
<1>3. ASSUME NEW t \in TaskId, TaskStep(t) PROVE TypeOK'
  BY <1>3, TaskStepType
<1>4. CASE \/ \E p \in closing, ok \in BOOLEAN : ShutdownSettles(p, ok)
           \/ \E c \in Caller : CallerResumes(c)
  BY <1>4, SettleType
<1>5. CASE FlushStep \/ ReloadStep \/ TeardownBegins \/ TeardownStep
  BY <1>5, FlushType, ReloadType, TeardownType
<1> QED
  BY <1>1, <1>2, <1>3, <1>4, <1>5 DEF Next

\* Where the mount is: a reload is counted and asked for by an agent, the
\* handlers are only cleared while the entries run, children are adopted.
MountInv ==
  /\ ReloadByAgent
  /\ mount \in {"shutting", "reloading", "restarting"} => reload.count # 0
  /\ mount \in {"loading", "flushing"} => reload.count = 0
  /\ reload.count =< setup.reloads
  /\ ~ready => mount \in {"loading", "reloading"}
  /\ adopted \subseteq Children

\* At first nothing is reloaded and nobody adopted.
LEMMA InitMount == Init => MountInv
<1> SUFFICES ASSUME Init PROVE MountInv
  OBVIOUS
<1>1. setup.reloads \in Nat
  BY SetupTyped DEF Init, HostTyped
<1> QED
  BY <1>1 DEF Init, MountInv, ReloadByAgent, NoReload

\* Every step keeps it.
LEMMA StepMount == TypeOK /\ MountInv /\ [Next]_vars => MountInv'
<1> SUFFICES ASSUME TypeOK, MountInv, [Next]_vars PROVE MountInv'
  OBVIOUS
<1> USE DEF MountInv, ReloadByAgent
<1>0. reload.count \in Nat /\ setup.reloads \in Nat
      /\ reload \in [agent : Agents \cup {NoAgent}, by : Agents \cup {NoAgent},
                    on : Promise \cup {None}, drain : SUBSET Promise, count : Nat]
  BY TypeParts, SetupTyped DEF ReloadTyped
<1>1. CASE UNCHANGED <<setup, mount, ready, reload, adopted>>
  BY <1>1
<1>2. ASSUME NEW a \in Agents,
             \/ AgentCreated(a) \/ AdoptChildAgent(a) \/ AgentDisposed(a)
             \/ ToolCall(a) \/ ToolReturns(a)
      PROVE  MountInv'
  BY <1>2 DEF AgentCreated, AdoptChildAgent, AgentDisposed, ToolCall, ToolReturns, hostVars, mountVars
<1>3. ASSUME NEW a \in Agents, ReloadBegins(a) PROVE MountInv'
  BY <1>0, <1>3, NoAgentAssumption DEF ReloadBegins, hostVars
<1>4. ASSUME NEW t \in TaskId, TaskStep(t) PROVE MountInv'
  BY <1>4 DEF TaskStep, TaskTakesOver, TaskHandoffFails, TaskDispatches, TaskHandlersDone,
     TaskDone, TaskFails, hostVars, mountVars
<1>5. CASE \/ \E p \in closing, ok \in BOOLEAN : ShutdownSettles(p, ok)
           \/ \E c \in Caller : CallerResumes(c)
  BY <1>5 DEF ShutdownSettles, CallerResumes, hostVars, mountVars
<1>6. CASE FlushStep
  BY <1>6 DEF FlushStep, FlushBegins, FlushEnds, FlushNext, hostVars
<1>7. CASE ReloadStep
  <2>1. CASE ReloadClears
    BY <2>1 DEF ReloadClears, hostVars
  <2>2. CASE ReloadFails
    BY <2>2 DEF ReloadFails, hostVars
  <2>3. CASE ReloadRestarts
    BY <1>0, <2>3 DEF ReloadRestarts, hostVars
  <2>4. CASE RestartEnds
    BY <2>4 DEF RestartEnds, hostVars
  <2>5. ASSUME NEW a \in Agents, RestartDispatches(a) PROVE MountInv'
    BY <1>0, <2>5 DEF RestartDispatches, hostVars
  <2>6. ASSUME NEW ok \in BOOLEAN, RestartHandlersDone(ok) PROVE MountInv'
    BY <1>0, <2>6 DEF RestartHandlersDone, hostVars
  <2> QED
    BY <1>7, <2>1, <2>2, <2>3, <2>4, <2>5, <2>6 DEF ReloadStep
<1>8. CASE TeardownBegins \/ TeardownStep
  BY <1>0, <1>8 DEF TeardownBegins, TeardownStep, TeardownDrains, TeardownFails, TeardownEnds, hostVars
<1> QED
  BY <1>1, <1>2, <1>3, <1>4, <1>5, <1>6, <1>7, <1>8 DEF Next, vars, hostVars, mountVars

\* All variables keep their types (runtime.ts, the fields of RuntimeState).
THEOREM SessionTypeOK == Spec => []TypeOK
<1>1. Init => TypeOK /\ MountInv
  BY InitTyped, InitMount
<1>2. TypeOK /\ MountInv /\ [Next]_vars => (TypeOK /\ MountInv)'
  BY StepType, StepMount DEF MountInv
<1> QED
  BY <1>1, <1>2, PTL DEF Spec

-----------------------------------------------------------------------------
(* ClaimBacked.  A claim is only set together with a task about to dispatch *)
(* session_start, and a session is only closed together with its claim; so  *)
(* some agent of a claimed session is open or about to be.                  *)

\* Before any reload and any unloading.
Serving == mount \in {"loading", "flushing", "ready"} /\ reload.count = 0

\* The agent's session is open, or a task of it is about to open it.
Opens(a) == Open(a) \/ \E n \in 1 .. MaxTasks : task[<<a, n>>].phase = "exports"

Backed == Serving => \A s \in claims : \E a \in Agents : SessionOf[a] = s /\ Opens(a)

\* A step that sets no claim unbacked and closes no claimed session.
LEMMA StaysBacked ==
  ASSUME Backed, Serving' => Serving,
         Serving' => \A s \in claims' \ claims : \E a \in Agents : SessionOf[a] = s /\ Opens(a)',
         Serving' => \A a \in Agents : SessionOf[a] \in claims' /\ Opens(a) => Opens(a)'
  PROVE  Backed'
<1> SUFFICES ASSUME Serving', NEW s \in claims'
             PROVE  \E a \in Agents : SessionOf[a] = s /\ Opens(a)'
  BY DEF Backed
<1>1. CASE s \in claims
  <2>1. PICK a \in Agents : SessionOf[a] = s /\ Opens(a)
    BY <1>1 DEF Backed
  <2>2. Opens(a)'
    BY <2>1
  <2> QED
    BY <2>1, <2>2
<1>2. CASE s \notin claims
  BY <1>2
<1> QED
  BY <1>1, <1>2

\* shutdownPiSession closes that agent's session only.
LEMMA ShutdownCloses ==
  ASSUME SeenTyped, NEW a \in Agents, ShutdownPiSession(a)
  PROVE  \A b \in Agents \ {a} : sess'[b] = sess[b]
BY DEF ShutdownPiSession, shutVars, SeenTyped

\* A task that is moved to another phase is no other task.
LEMMA OthersOpen ==
  ASSUME task \in [TaskId -> Task], sess' = sess, NEW t \in TaskId, NEW ph \in Phase,
         task' = [task EXCEPT ![t].phase = ph],
         task[t].phase # "exports"
  PROVE  \A a \in Agents : Opens(a) => Opens(a)'
<1> SUFFICES ASSUME NEW a \in Agents, Opens(a) PROVE Opens(a)'
  OBVIOUS
<1>1. CASE Open(a)
  BY <1>1 DEF Open, Opens
<1>2. ASSUME NEW n \in 1 .. MaxTasks, task[<<a, n>>].phase = "exports" PROVE Opens(a)'
  <2>1. <<a, n>> \in TaskId /\ <<a, n>> # t
    BY <1>2 DEF TaskId
  <2>2. task'[<<a, n>>].phase = "exports"
    BY <1>2, <2>1, PhaseTyped
  <2> QED
    BY <2>2 DEF Opens
<1> QED
  BY <1>1, <1>2 DEF Opens

\* Task numbers are given out in order: a number not reached is not in use.
MadeInOrder == \A t \in TaskId : t[2] > made[t[1]] => task[t].phase = "unused"

\* A new task's number is not in use, and its agent's count includes it.
LEMMA TaskOfUnused ==
  ASSUME HostTyped, StartTyped, MadeInOrder, NEW c \in Caller, NewTask(c)
  PROVE  /\ task[TaskOf(c)].phase = "unused"
         /\ made' = [made EXCEPT ![c[2]] = made[c[2]] + 1]
         /\ made[c[2]] \in Nat
<1>1. TaskOf(c) \in TaskId /\ TaskOf(c)[1] = c[2] /\ c[2] \in Agents
  BY TaskOfTyped
<1>2. TaskOf(c)[2] = made[c[2]] + 1
  BY DEF TaskOf
<1>3. made[c[2]] \in Nat
  BY <1>1, SetupsAssumption DEF StartTyped
<1>4. TaskOf(c)[2] > made[TaskOf(c)[1]]
  BY <1>1, <1>2, <1>3
<1> QED
  BY <1>1, <1>3, <1>4 DEF MadeInOrder, NewTask

\* A step that moves tasks in use, or makes the next one, keeps the order.
LEMMA StaysInOrder ==
  ASSUME MadeInOrder, StartTyped, made' \in [Agents -> 0 .. MaxTasks],
         \A a \in Agents : made'[a] >= made[a],
         \A t \in TaskId : t[2] > made'[t[1]] => task'[t].phase = task[t].phase
  PROVE  MadeInOrder'
<1> SUFFICES ASSUME NEW t \in TaskId, t[2] > made'[t[1]] PROVE task'[t].phase = "unused"
  BY DEF MadeInOrder
<1>1. t[2] \in Nat /\ t[1] \in Agents /\ made[t[1]] \in Nat /\ made'[t[1]] \in Nat
  BY SetupsAssumption DEF TaskId, StartTyped
<1> QED
  BY <1>1 DEF MadeInOrder

\* startPiSession, the start tasks' own steps, and everything else: only the
\* first two touch a task.
LEMMA TaskChanges ==
  ASSUME [Next]_vars
  PROVE  \/ \E c \in Caller : StartPiSession(c)
         \/ \E t \in TaskId : TaskStep(t)
         \/ UNCHANGED <<task, made>>
<1>1. CASE UNCHANGED vars
  BY <1>1 DEF vars, startVars
<1>2. ASSUME NEW a \in Agents,
             \/ AgentCreated(a) \/ AdoptChildAgent(a) \/ AgentDisposed(a)
             \/ ToolCall(a) \/ ToolReturns(a) \/ ReloadBegins(a)
      PROVE  (\E c \in Caller : StartPiSession(c)) \/ UNCHANGED <<task, made>>
  <2>1. <<"created", a>> \in Caller /\ <<"tool", a>> \in Caller
    BY DEF Caller
  <2> QED
    BY <1>2, <2>1 DEF AgentCreated, AdoptChildAgent, AgentDisposed, ToolCall, ToolReturns,
       ReloadBegins, startVars
<1>3. CASE \/ \E p \in closing, ok \in BOOLEAN : ShutdownSettles(p, ok)
           \/ \E c \in Caller : CallerResumes(c)
  BY <1>3 DEF ShutdownSettles, CallerResumes, startVars
<1>4. CASE FlushStep
  <2>1. \A a \in Agents : <<"flush", a>> \in Caller
    BY DEF Caller
  <2> QED
    BY <1>4, <2>1 DEF FlushStep, FlushBegins, FlushEnds, FlushNext, startVars
<1>5. CASE ReloadStep
  BY <1>5 DEF ReloadStep, ReloadClears, ReloadFails, ReloadRestarts, RestartEnds,
     RestartDispatches, RestartHandlersDone, startVars
<1>6. CASE TeardownBegins \/ TeardownStep
  BY <1>6 DEF TeardownBegins, TeardownStep, TeardownDrains, TeardownFails, TeardownEnds, startVars
<1> QED
  BY <1>1, <1>2, <1>3, <1>4, <1>5, <1>6 DEF Next

\* The phases a start task goes through.
LEMMA TaskMoves ==
  ASSUME StartTyped, NEW t \in TaskId, TaskStep(t)
  PROVE  /\ task[t].phase \in InFlight
         /\ \E ph \in Phase \ {"unused", "handoff"} : task' = [task EXCEPT ![t].phase = ph]
         /\ made' = made
<1>1. CASE TaskTakesOver(t)
  BY <1>1 DEF TaskTakesOver, ClaimFor, InFlight, Phase
<1>2. CASE ~TaskTakesOver(t)
  BY <1>2 DEF TaskStep, TaskHandoffFails, TaskDispatches, TaskHandlersDone, TaskDone,
     TaskFails, FailTask, InFlight, Phase
<1> QED
  BY <1>1, <1>2

\* Tasks are numbered in order.
LEMMA StepInOrder == TypeOK /\ MadeInOrder /\ ReloadByAgent /\ [Next]_vars => MadeInOrder'
<1> SUFFICES ASSUME TypeOK, MadeInOrder, ReloadByAgent, [Next]_vars PROVE MadeInOrder'
  OBVIOUS
<1>0. HostTyped /\ ShutTyped /\ StartTyped /\ SeenTyped /\ made' \in [Agents -> 0 .. MaxTasks]
  BY TypeParts, StepType DEF TypeOK
<1>1. ASSUME NEW c \in Caller, StartPiSession(c) PROVE MadeInOrder'
  <2>1. CASE Passes(c) \/ Joins(c)
    BY <2>1 DEF Passes, Joins, besidesWaits, MadeInOrder
  <2>2. CASE Replaces(c) \/ StartsAgain(c) \/ StartsFresh(c)
    <3>1. NewTask(c)
      BY <2>2 DEF Replaces, StartsAgain, StartsFresh
    <3>2. TaskOf(c) \in TaskId /\ c[2] \in Agents /\ TaskOf(c) = <<c[2], made[c[2]] + 1>>
          /\ made' = [made EXCEPT ![c[2]] = made[c[2]] + 1] /\ made[c[2]] \in Nat
      BY <1>0, <3>1, TaskOfTyped, TaskOfUnused DEF TaskOf
    <3>3. \A u \in TaskId : u # TaskOf(c) => task'[u] = task[u]
      BY <1>0, <2>2, <3>2 DEF Replaces, StartsAgain, StartsFresh, StartTyped
    <3>4. \A a \in Agents : made'[a] >= made[a] /\ made[a] \in Nat
      BY <1>0, <3>2, SetupsAssumption DEF StartTyped
    <3>5. ASSUME NEW t \in TaskId, t[2] > made'[t[1]] PROVE task'[t].phase = task[t].phase
      <4>1. t # TaskOf(c)
        BY <1>0, <3>2, <3>5 DEF StartTyped
      <4> QED
        BY <3>3, <4>1
    <3> QED
      BY <1>0, <3>4, <3>5, StaysInOrder
  <2> QED
    BY <1>0, <1>1, <2>1, <2>2, StartWays
<1>2. ASSUME NEW t \in TaskId, TaskStep(t) PROVE MadeInOrder'
  <2>1. PICK ph \in Phase : task' = [task EXCEPT ![t].phase = ph]
    BY <1>0, <1>2, TaskMoves
  <2>2. task[t].phase # "unused" /\ made' = made
    BY <1>0, <1>2, TaskMoves DEF InFlight
  <2>3. \A u \in TaskId : u # t => task'[u].phase = task[u].phase
    BY <1>0, <2>1, PhaseTyped DEF StartTyped
  <2> QED
    BY <2>2, <2>3 DEF MadeInOrder
<1>3. CASE UNCHANGED <<task, made>>
  BY <1>3 DEF MadeInOrder
<1> QED
  BY <1>1, <1>2, <1>3, TaskChanges

\* startPiSession claims only what it is about to start, and releases what it
\* hands over.
LEMMA StartStaysBacked ==
  ASSUME HostTyped, ShutTyped, StartTyped, SeenTyped, MadeInOrder,
         Backed, Serving' => Serving, NEW c \in Caller, StartPiSession(c)
  PROVE  Backed'
<1>1. c[2] \in Agents
  BY DEF Caller
<1>2. CASE Passes(c) \/ Joins(c)
  <2>1. UNCHANGED <<claims, task, sess>>
    BY <1>2 DEF Passes, Joins, besidesWaits
  <2> QED
    BY <2>1, StaysBacked DEF Opens, Open
<1>3. CASE Replaces(c)
  <2>1. TaskOf(c) \in TaskId /\ task[TaskOf(c)].phase = "unused" /\ host \in Agents
    BY <1>3, TaskOfTyped, TaskOfUnused DEF Replaces, SeenTyped
  <2>2. \A u \in TaskId : u # TaskOf(c) => task'[u] = task[u]
    BY <1>3, <2>1 DEF Replaces, StartTyped
  <2>3. claims' = claims \ {SessionOf[host]}
    BY <1>3 DEF Replaces
  <2>4. ASSUME NEW a \in Agents, SessionOf[a] \in claims', Opens(a) PROVE Opens(a)'
    <3>1. sess'[a] = sess[a]
      BY <1>3, <2>1, <2>3, <2>4, ShutdownCloses DEF Replaces
    <3>2. ASSUME NEW n \in 1 .. MaxTasks, task[<<a, n>>].phase = "exports" PROVE Opens(a)'
      <4>1. <<a, n>> \in TaskId /\ <<a, n>> # TaskOf(c)
        BY <2>1, <3>2 DEF TaskId
      <4> QED
        BY <2>2, <3>2, <4>1 DEF Opens
    <3> QED
      BY <2>4, <3>1, <3>2 DEF Opens, Open
  <2> QED
    BY <2>3, <2>4, StaysBacked
<1>4. CASE StartsAgain(c)
  <2>1. TaskOf(c) \in TaskId /\ task[TaskOf(c)].phase = "unused"
    BY <1>4, TaskOfTyped, TaskOfUnused DEF StartsAgain
  <2>2. \A a \in Agents : Opens(a) => Opens(a)'
    BY <1>4, <2>1, OthersOpen DEF StartsAgain, StartTyped, Phase
  <2>3. claims' = claims
    BY <1>4 DEF StartsAgain
  <2> QED
    BY <2>2, <2>3, StaysBacked
<1>5. CASE StartsFresh(c)
  <2>1. TaskOf(c) \in TaskId /\ task[TaskOf(c)].phase = "unused"
        /\ TaskOf(c) = <<c[2], made[c[2]] + 1>>
    BY <1>5, TaskOfTyped, TaskOfUnused DEF StartsFresh, TaskOf
  <2>2. \A a \in Agents : Opens(a) => Opens(a)'
    BY <1>5, <2>1, OthersOpen DEF StartsFresh, StartTyped, Phase
  <2>3. task'[TaskOf(c)].phase = "exports"
    BY <1>5, <2>1, PhaseTyped, SMTT(30) DEF StartsFresh, StartTyped, Phase
  <2>4. made[c[2]] + 1 \in 1 .. MaxTasks
    BY <2>1 DEF TaskId
  <2>5. Opens(c[2])'
    BY <2>1, <2>3, <2>4 DEF Opens
  <2>6. claims' = claims \cup {SessionOf[c[2]]}
    BY <1>5 DEF StartsFresh
  <2> QED
    BY <1>1, <2>2, <2>5, <2>6, StaysBacked
<1> QED
  BY <1>2, <1>3, <1>4, <1>5, StartWays

\* A start task's steps keep claims backed: it opens the session it is about
\* to open, and a task that fails takes its claim along.
LEMMA TaskStaysBacked ==
  ASSUME StartTyped, SeenTyped, Backed, NEW t \in TaskId, TaskStep(t)
  PROVE  Backed'
<1>0. t[1] \in Agents /\ t[2] \in 1 .. MaxTasks /\ t = <<t[1], t[2]>>
      /\ task \in [TaskId -> Task] /\ sess \in [Agents -> View]
  BY DEF TaskId, StartTyped, SeenTyped
<1>1. Serving' => Serving
  BY DEF TaskStep, TaskTakesOver, TaskHandoffFails, TaskDispatches, TaskHandlersDone,
     TaskDone, TaskFails, mountVars, Serving
<1>2. CASE TaskTakesOver(t)
  <2>1. PICK ph \in {"done", "exports"} :
          /\ task' = [task EXCEPT ![t].phase = ph]
          /\ claims' = IF ph = "done" THEN claims ELSE claims \cup {SessionOf[t[1]]}
    BY <1>2 DEF TaskTakesOver, ClaimFor
  <2>2. sess' = sess /\ task[t].phase = "handoff"
    BY <1>2 DEF TaskTakesOver
  <2>3. \A a \in Agents : Opens(a) => Opens(a)'
    BY <1>0, <2>1, <2>2, OthersOpen DEF Phase
  <2>4. ph = "exports" => Opens(t[1])'
    <3>1. SUFFICES ASSUME ph = "exports" PROVE Opens(t[1])'
      OBVIOUS
    <3>2. task'[t].phase = "exports"
      BY <1>0, <2>1, <3>1, PhaseTyped DEF Phase
    <3> QED
      BY <1>0, <3>2 DEF Opens
  <2> QED
    BY <1>0, <1>1, <2>1, <2>3, <2>4, StaysBacked
<1>3. CASE TaskHandoffFails(t) \/ TaskDone(t)
  <2>1. PICK ph \in Phase : task' = [task EXCEPT ![t].phase = ph]
    BY <1>3 DEF TaskHandoffFails, TaskDone, Phase
  <2>2. sess' = sess /\ task[t].phase # "exports" /\ claims' = claims
    BY <1>3 DEF TaskHandoffFails, TaskDone
  <2>3. \A a \in Agents : Opens(a) => Opens(a)'
    BY <1>0, <2>1, <2>2, OthersOpen
  <2> QED
    BY <1>1, <2>2, <2>3, StaysBacked
<1>4. CASE TaskDispatches(t)
  <2>1. task' = [task EXCEPT ![t].phase = "starting"] /\ claims' = claims
        /\ sess' = [sess EXCEPT ![t[1]] = "starting"]
    BY <1>4 DEF TaskDispatches
  <2>2. \A u \in TaskId : u # t => task'[u].phase = task[u].phase
    BY <1>0, <2>1, PhaseTyped DEF Phase
  <2>3. ASSUME NEW a \in Agents, Opens(a) PROVE Opens(a)'
    <3>1. CASE a = t[1]
      BY <1>0, <2>1, <3>1 DEF Opens, Open
    <3>2. CASE a # t[1] /\ Open(a)
      BY <1>0, <2>1, <3>2 DEF Opens, Open
    <3>3. ASSUME a # t[1], NEW n \in 1 .. MaxTasks, task[<<a, n>>].phase = "exports"
          PROVE  Opens(a)'
      <4>1. <<a, n>> \in TaskId /\ <<a, n>> # t
        BY <1>0, <3>3 DEF TaskId
      <4> QED
        BY <2>2, <3>3, <4>1 DEF Opens
    <3> QED
      BY <2>3, <3>1, <3>2, <3>3 DEF Opens
  <2> QED
    BY <1>1, <2>1, <2>3, StaysBacked
<1>5. CASE TaskHandlersDone(t)
  <2>1. task' = [task EXCEPT ![t].phase = "resources"] /\ claims' = claims
        /\ task[t].phase = "starting"
        /\ sess' = [sess EXCEPT ![t[1]] = IF @ = "starting" THEN "up" ELSE @]
    BY <1>5 DEF TaskHandlersDone
  <2>2. \A u \in TaskId : u # t => task'[u].phase = task[u].phase
    BY <1>0, <2>1, PhaseTyped DEF Phase
  <2>3. ASSUME NEW a \in Agents, Opens(a) PROVE Opens(a)'
    <3>1. CASE Open(a)
      BY <1>0, <2>1, <3>1 DEF Opens, Open
    <3>2. ASSUME NEW n \in 1 .. MaxTasks, task[<<a, n>>].phase = "exports" PROVE Opens(a)'
      <4>1. <<a, n>> \in TaskId /\ <<a, n>> # t
        BY <2>1, <3>2 DEF TaskId
      <4> QED
        BY <2>2, <3>2, <4>1 DEF Opens
    <3> QED
      BY <2>3, <3>1, <3>2 DEF Opens
  <2> QED
    BY <1>1, <2>1, <2>3, StaysBacked
<1>6. CASE TaskFails(t)
  <2>1. task' = [task EXCEPT ![t].phase = "failed"] /\ claims' = claims \ {SessionOf[t[1]]}
        /\ \A b \in Agents \ {t[1]} : sess'[b] = sess[b]
    BY <1>0, <1>6 DEF TaskFails, FailTask
  <2>2. \A u \in TaskId : u # t => task'[u].phase = task[u].phase
    BY <1>0, <2>1, PhaseTyped DEF Phase
  <2>3. ASSUME NEW a \in Agents, SessionOf[a] \in claims', Opens(a) PROVE Opens(a)'
    <3>0. a # t[1]
      BY <2>1, <2>3
    <3>1. CASE Open(a)
      BY <2>1, <3>0, <3>1 DEF Opens, Open
    <3>2. ASSUME NEW n \in 1 .. MaxTasks, task[<<a, n>>].phase = "exports" PROVE Opens(a)'
      <4>1. <<a, n>> \in TaskId /\ <<a, n>> # t
        BY <1>0, <3>0, <3>2 DEF TaskId
      <4> QED
        BY <2>2, <3>2, <4>1 DEF Opens
    <3> QED
      BY <2>3, <3>1, <3>2 DEF Opens
  <2> QED
    BY <1>1, <2>1, <2>3, StaysBacked
<1> QED
  BY <1>2, <1>3, <1>4, <1>5, <1>6 DEF TaskStep

\* Where a step leaves claims, tasks and sessions alone, claims stay backed.
LEMMA QuietStaysBacked ==
  ASSUME Backed, Serving' => Serving, claims' \subseteq claims, UNCHANGED <<task, sess>>
  PROVE  Backed'
BY StaysBacked DEF Opens, Open

\* Every step keeps claims backed.
LEMMA StepBacked ==
  TypeOK /\ MountInv /\ MadeInOrder /\ Backed /\ [Next]_vars => Backed'
<1> SUFFICES ASSUME TypeOK, MountInv, MadeInOrder, Backed, [Next]_vars PROVE Backed'
  OBVIOUS
<1>0. HostTyped /\ ReloadTyped /\ ShutTyped /\ StartTyped /\ SeenTyped /\ reload.count \in Nat
  BY TypeParts DEF ReloadTyped
<1>1. CASE UNCHANGED vars
  BY <1>1, QuietStaysBacked DEF vars, mountVars, startVars, Serving
<1>2. ASSUME NEW a \in Agents, AgentCreated(a) PROVE Backed'
  <2>1. <<"created", a>> \in Caller /\ (Serving' => Serving)
    BY <1>2 DEF AgentCreated, Serving, Caller
  <2>2. CASE StartPiSession(<<"created", a>>)
    BY <1>0, <2>1, <2>2, StartStaysBacked
  <2>3. CASE UNCHANGED <<host, shutVars, rejected, startVars, sess>>
    BY <2>1, <2>3, QuietStaysBacked DEF startVars
  <2> QED
    BY <1>2, <2>2, <2>3 DEF AgentCreated
<1>3. ASSUME NEW a \in Agents, AdoptChildAgent(a) \/ ToolReturns(a) PROVE Backed'
  BY <1>3, QuietStaysBacked DEF AdoptChildAgent, ToolReturns, mountVars, startVars, Serving
<1>4. ASSUME NEW a \in Agents, AgentDisposed(a) PROVE Backed'
  <2>1. (Serving' => Serving) /\ task' = task /\ claims' \subseteq claims
    BY <1>4 DEF AgentDisposed, Serving
  <2>2. CASE UNCHANGED sess
    BY <2>1, <2>2, QuietStaysBacked
  <2>3. CASE AcceptsAgent(a) /\ ShutdownPiSession(a)
    <3>1. claims' = claims \ {SessionOf[a]} /\ \A b \in Agents \ {a} : sess'[b] = sess[b]
      BY <1>0, <1>4, <2>3, ShutdownCloses DEF AgentDisposed
    <3>2. \A b \in Agents : SessionOf[b] \in claims' /\ Opens(b) => Opens(b)'
      BY <2>1, <3>1 DEF Opens, Open
    <3> QED
      BY <2>1, <3>1, <3>2, StaysBacked
  <2> QED
    BY <1>4, <2>2, <2>3 DEF AgentDisposed
<1>5. ASSUME NEW a \in Agents, ToolCall(a) PROVE Backed'
  <2>1. <<"tool", a>> \in Caller /\ StartPiSession(<<"tool", a>>) /\ (Serving' => Serving)
    BY <1>5 DEF ToolCall, Caller, mountVars, Serving
  <2> QED
    BY <1>0, <2>1, StartStaysBacked
<1>6. ASSUME NEW a \in Agents, ReloadBegins(a) PROVE Backed'
  BY <1>0, <1>6 DEF ReloadBegins, Serving, Backed
<1>7. ASSUME NEW t \in TaskId, TaskStep(t) PROVE Backed'
  BY <1>0, <1>7, TaskStaysBacked
<1>8. CASE \/ \E p \in closing, ok \in BOOLEAN : ShutdownSettles(p, ok)
           \/ \E c \in Caller : CallerResumes(c)
  BY <1>8, QuietStaysBacked DEF ShutdownSettles, CallerResumes, mountVars, startVars, Serving
<1>9. CASE FlushStep
  <2>1. CASE FlushBegins \/ FlushEnds
    BY <2>1, QuietStaysBacked DEF FlushBegins, FlushEnds, startVars, Serving
  <2>2. ASSUME NEW a \in Agents, FlushNext(a) PROVE Backed'
    <3>1. <<"flush", a>> \in Caller /\ StartPiSession(<<"flush", a>>) /\ (Serving' => Serving)
      BY <2>2 DEF FlushNext, Caller, Serving
    <3> QED
      BY <1>0, <3>1, StartStaysBacked
  <2> QED
    BY <1>9, <2>1, <2>2 DEF FlushStep
<1>10. CASE ReloadStep
  <2>1. reload.count # 0 /\ reload'.count = reload.count
    BY <1>0, <1>10 DEF MountInv, ReloadStep, ReloadClears, ReloadFails, ReloadRestarts, RestartEnds,
       RestartDispatches, RestartHandlersDone, ReloadTyped
  <2> QED
    BY <2>1 DEF Backed, Serving
<1>11. CASE TeardownBegins \/ TeardownStep
  BY <1>11 DEF TeardownBegins, TeardownStep, TeardownDrains, TeardownFails, TeardownEnds,
     Backed, Serving
<1> QED
  BY <1>1, <1>2, <1>3, <1>4, <1>5, <1>6, <1>7, <1>8, <1>9, <1>10, <1>11 DEF Next

\* What makes ClaimBacked inductive.
BackedInv == TypeOK /\ MountInv /\ MadeInOrder /\ Backed

\* An agent that is marked as started has a session that is up or coming up,
\* so no later tool call finds a mark without a session: for any agents,
\* sessions and mounts, the interleaved and the reloading ones included
\* (runtime.ts:1828-1840).
THEOREM ClaimsAreBacked == Spec => []ClaimBacked
<1>1. Init => BackedInv
  BY InitTyped, InitMount DEF Init, MadeInOrder, Backed, BackedInv
<1>2. BackedInv /\ [Next]_vars => BackedInv'
  BY StepType, StepMount, StepInOrder, StepBacked DEF BackedInv, MountInv
<1>3. BackedInv => ClaimBacked
  BY DEF BackedInv, ClaimBacked, Backed, Serving, Opens, InFlight
<1> QED
  BY <1>1, <1>2, <1>3, PTL DEF Spec

-----------------------------------------------------------------------------
(* Whoever is adopted, buffered, started or shut down has been created.    *)

AgentsHere ==
  /\ \A a \in adopted \cup pending \cup queue \cup active : life[a] # "absent"
  /\ owner # NoAgent => life[owner] # "absent"
  /\ mount \in {"shutting", "reloading"} => life[reload.by] # "absent"

StartsHere ==
  /\ host # NoAgent => life[host] # "absent"
  /\ \A p \in closing : life[p[1]] # "absent"
  /\ \A t \in TaskId : task[t].phase # "unused" => life[t[1]] # "absent"

\* The mount explored never changes.
LEMMA SetupStays == [Next]_vars => setup' = setup
BY DEF Next, AgentCreated, AdoptChildAgent, AgentDisposed, ToolCall, ToolReturns, ReloadBegins,
   TaskStep, TaskTakesOver, TaskHandoffFails, TaskDispatches, TaskHandlersDone, TaskDone,
   TaskFails, ShutdownSettles, CallerResumes, FlushStep, FlushBegins, FlushEnds, FlushNext,
   ReloadStep, ReloadClears, ReloadFails, ReloadRestarts, RestartEnds, RestartDispatches,
   RestartHandlersDone, TeardownBegins, TeardownStep, TeardownDrains, TeardownFails,
   TeardownEnds, vars, hostVars

\* An agent that has been created stays so.
LEMMA StaysHere ==
  ASSUME HostTyped, [Next]_vars
  PROVE  \A a \in Agents : life[a] # "absent" => life'[a] # "absent"
<1>1. CASE life' = life
  BY <1>1
<1>2. ASSUME NEW a \in Agents, NEW l \in {"live", "gone"}, life' = [life EXCEPT ![a] = l]
      PROVE  \A b \in Agents : life[b] # "absent" => life'[b] # "absent"
  BY <1>2 DEF HostTyped
<1>3. ASSUME NEW a \in Agents, AgentCreated(a) \/ AgentDisposed(a)
      PROVE  \A b \in Agents : life[b] # "absent" => life'[b] # "absent"
  BY <1>2, <1>3 DEF AgentCreated, AgentDisposed
<1>4. ASSUME NEW a \in Agents,
             AdoptChildAgent(a) \/ ToolCall(a) \/ ToolReturns(a) \/ ReloadBegins(a)
      PROVE  life' = life
  BY <1>4 DEF AdoptChildAgent, ToolCall, ToolReturns, ReloadBegins, hostVars
<1>5. ASSUME NEW t \in TaskId, TaskStep(t) PROVE life' = life
  BY <1>5 DEF TaskStep, TaskTakesOver, TaskHandoffFails, TaskDispatches, TaskHandlersDone,
     TaskDone, TaskFails, hostVars
<1>6. CASE \/ \E p \in closing, ok \in BOOLEAN : ShutdownSettles(p, ok)
           \/ \E c \in Caller : CallerResumes(c)
  BY <1>6 DEF ShutdownSettles, CallerResumes, hostVars
<1>7. CASE FlushStep
  BY <1>7 DEF FlushStep, FlushBegins, FlushEnds, FlushNext, hostVars
<1>8. CASE ReloadStep
  BY <1>8 DEF ReloadStep, ReloadClears, ReloadFails, ReloadRestarts, RestartEnds,
     RestartDispatches, RestartHandlersDone, hostVars
<1>9. CASE TeardownBegins \/ TeardownStep
  BY <1>9 DEF TeardownBegins, TeardownStep, TeardownDrains, TeardownFails, TeardownEnds, hostVars
<1> QED
  BY <1>1, <1>3, <1>4, <1>5, <1>6, <1>7, <1>8, <1>9 DEF Next, vars, hostVars

\* shutdownPiSession makes promises about that agent only.
LEMMA ShutdownPromises ==
  ASSUME ShutTyped, NEW a \in Agents, ShutdownPiSession(a)
  PROVE  \A p \in closing' : p \in closing \/ p[1] = a
BY DEF ShutdownPiSession, shutVars, ShutTyped

\* startPiSession is about an agent that is there.
LEMMA StartStaysHere ==
  ASSUME HostTyped, ShutTyped, StartTyped, SeenTyped, StartsHere,
         \A a \in Agents : life[a] # "absent" => life'[a] # "absent",
         NEW c \in Caller, StartPiSession(c), life'[c[2]] # "absent"
  PROVE  StartsHere'
<1>0. /\ c[2] \in Agents
      /\ host # NoAgent => host \in Agents
      /\ \A t \in TaskId : t[1] \in Agents
      /\ \A p \in closing : p[1] \in Agents
  BY DEF Caller, ShutTyped, SeenTyped, TaskId, Promise
<1>1. CASE Passes(c) \/ Joins(c)
  BY <1>0, <1>1 DEF Passes, Joins, besidesWaits, shutVars, StartsHere
<1>2. CASE Replaces(c) \/ StartsAgain(c) \/ StartsFresh(c)
  <2>1. NewTask(c)
    BY <1>2 DEF Replaces, StartsAgain, StartsFresh
  <2>2. TaskOf(c) \in TaskId /\ TaskOf(c)[1] = c[2]
    BY <2>1, TaskOfTyped
  <2>3. \A u \in TaskId : u # TaskOf(c) => task'[u] = task[u]
    BY <1>2, <2>2 DEF Replaces, StartsAgain, StartsFresh, StartTyped
  <2>4. \A t \in TaskId : task'[t].phase # "unused" => life'[t[1]] # "absent"
    BY <1>0, <2>2, <2>3 DEF StartsHere
  <2>5. /\ host' # NoAgent => life'[host'] # "absent"
        /\ \A p \in closing' : life'[p[1]] # "absent"
    <3>1. CASE Replaces(c)
      <4>1. host \in Agents /\ ShutdownPiSession(host) /\ host' = host
        BY <3>1 DEF Replaces, SeenTyped
      <4>2. \A p \in closing' : p \in closing \/ p[1] = host
        BY <4>1, ShutdownPromises
      <4>3. life'[host] # "absent"
        BY <4>1, NoAgentAssumption DEF StartsHere
      <4>4. \A p \in closing : life'[p[1]] # "absent"
        BY <1>0 DEF StartsHere
      <4> QED
        BY <4>1, <4>2, <4>3, <4>4
    <3>2. CASE StartsAgain(c) \/ StartsFresh(c)
      <4>1. host' = c[2] /\ closing' = closing
        BY <3>2 DEF StartsAgain, StartsFresh, TakeHostSession
      <4> QED
        BY <1>0, <4>1 DEF StartsHere
    <3> QED
      BY <1>2, <3>1, <3>2
  <2> QED
    BY <2>4, <2>5 DEF StartsHere
<1> QED
  BY <1>1, <1>2, StartWays

\* Every step keeps both.
LEMMA StepHere ==
  TypeOK /\ MountInv /\ AgentsHere /\ StartsHere /\ [Next]_vars => (AgentsHere /\ StartsHere)'
<1> SUFFICES ASSUME TypeOK, MountInv, AgentsHere, StartsHere, [Next]_vars
             PROVE  AgentsHere' /\ StartsHere'
  OBVIOUS
<1>0. HostTyped /\ MountTyped /\ ReloadTyped /\ ShutTyped /\ StartTyped /\ SeenTyped
  BY TypeParts
<1>a. \A a \in Agents : life[a] # "absent" => life'[a] # "absent"
  BY <1>0, StaysHere
<1>b. /\ setup' = setup
      /\ owner \in Agents \cup {NoAgent} /\ NoAgent \notin Agents
      /\ adopted \cup pending \cup queue \cup active \subseteq Agents
      /\ mount \in {"shutting", "reloading"} => reload.by \in Agents
      /\ host \in Agents \cup {NoAgent}
      /\ \A p \in closing : p[1] \in Agents
      /\ \A t \in TaskId : t[1] \in Agents
  BY <1>0, SetupStays, SetupTyped, NoAgentAssumption
  DEF HostTyped, MountTyped, ReloadTyped, ShutTyped, SeenTyped, MountInv, ReloadByAgent,
      TaskId, Promise
<1>c. /\ \A a \in adopted \cup pending \cup queue \cup active : life'[a] # "absent"
      /\ owner # NoAgent => life'[owner] # "absent"
      /\ mount \in {"shutting", "reloading"} => life'[reload.by] # "absent"
  BY <1>a, <1>b DEF AgentsHere
<1>d. /\ host # NoAgent => life'[host] # "absent"
      /\ \A p \in closing : life'[p[1]] # "absent"
      /\ \A t \in TaskId : task[t].phase # "unused" => life'[t[1]] # "absent"
  BY <1>a, <1>b DEF StartsHere
<1>1. CASE UNCHANGED vars
  BY <1>1, <1>b, <1>c, <1>d DEF vars, hostVars, mountVars, shutVars, startVars, AgentsHere,
     StartsHere, owner
<1>2. ASSUME NEW a \in Agents, AgentCreated(a) PROVE AgentsHere' /\ StartsHere'
  <2>1. life'[a] # "absent" /\ <<"created", a>> \in Caller
    BY <1>0, <1>2 DEF AgentCreated, HostTyped, Caller
  <2>2. AgentsHere'
    BY <1>2, <1>b, <1>c, <2>1 DEF AgentCreated, AgentsHere, owner
  <2>3. CASE StartPiSession(<<"created", a>>)
    <3>1. StartsHere'
      BY <1>0, <1>a, <2>1, <2>3, StartStaysHere
    <3> QED
      BY <2>2, <3>1
  <2>4. CASE UNCHANGED <<host, shutVars, startVars>>
    BY <1>d, <2>2, <2>4 DEF shutVars, startVars, StartsHere
  <2> QED
    BY <1>2, <2>3, <2>4 DEF AgentCreated
<1>3. ASSUME NEW a \in Agents, AdoptChildAgent(a) PROVE AgentsHere' /\ StartsHere'
  <2>1. life'[a] # "absent"
    BY <1>3, <1>a DEF AdoptChildAgent
  <2> QED
    BY <1>3, <1>b, <1>c, <1>d, <2>1 DEF AdoptChildAgent, mountVars, shutVars, startVars,
       AgentsHere, StartsHere, owner
<1>4. ASSUME NEW a \in Agents, AgentDisposed(a) PROVE AgentsHere' /\ StartsHere'
  <2>1. life'[a] # "absent"
    BY <1>4, <1>a DEF AgentDisposed
  <2>2. AgentsHere'
    BY <1>4, <1>b, <1>c DEF AgentDisposed, AgentsHere, owner
  <2>3. /\ host' = host \/ host' = NoAgent
        /\ \A p \in closing' : p \in closing \/ p[1] = a
        /\ task' = task
    BY <1>0, <1>4, ShutdownPromises DEF AgentDisposed, shutVars
  <2> QED
    BY <1>d, <2>1, <2>2, <2>3 DEF StartsHere
<1>5. ASSUME NEW a \in Agents, ToolCall(a) PROVE AgentsHere' /\ StartsHere'
  <2>1. life'[a] # "absent" /\ <<"tool", a>> \in Caller
    BY <1>5, <1>a DEF ToolCall, CanCall, Caller
  <2>2. AgentsHere'
    BY <1>5, <1>b, <1>c DEF ToolCall, mountVars, hostVars, AgentsHere, owner
  <2>3. StartsHere'
    BY <1>0, <1>5, <1>a, <2>1, StartStaysHere DEF ToolCall
  <2> QED
    BY <2>2, <2>3
<1>6. ASSUME NEW a \in Agents, ReloadBegins(a) PROVE AgentsHere' /\ StartsHere'
  <2>1. PICK previous \in Agents :
          previous \in {host, a} /\ ShutdownPiSession(previous)
    BY <1>6, <1>b DEF ReloadBegins
  <2>2. life'[a] # "absent" /\ life'[previous] # "absent"
    BY <1>6, <1>a, <1>b, <1>d, <2>1 DEF ReloadBegins, CanCall
  <2>3. \A p \in closing' : p \in closing \/ p[1] = previous
    BY <1>0, <2>1, ShutdownPromises
  <2>4. reload'.by = a
    BY <1>6 DEF ReloadBegins
  <2>5. AgentsHere'
    BY <1>6, <1>b, <1>c, <2>2, <2>4 DEF ReloadBegins, hostVars, AgentsHere, owner
  <2> QED
    BY <1>6, <1>d, <2>2, <2>3, <2>5 DEF ReloadBegins, startVars, StartsHere
<1>7. ASSUME NEW t \in TaskId, TaskStep(t) PROVE AgentsHere' /\ StartsHere'
  <2>1. AgentsHere' /\ closing' = closing /\ (host' = host \/ host' = t[1])
    BY <1>7, <1>b, <1>c DEF TaskStep, TaskTakesOver, TaskHandoffFails, TaskDispatches,
       TaskHandlersDone, TaskDone, TaskFails, TakeHostSession, hostVars, mountVars, shutVars,
       AgentsHere, owner
  <2>2. PICK ph \in Phase : task' = [task EXCEPT ![t].phase = ph]
    BY <1>0, <1>7, TaskMoves
  <2>3. task[t].phase # "unused"
    BY <1>0, <1>7, TaskMoves DEF InFlight
  <2>4. \A u \in TaskId : u # t => task'[u].phase = task[u].phase
    BY <1>0, <2>2, PhaseTyped DEF StartTyped
  <2> QED
    BY <1>d, <2>1, <2>3, <2>4 DEF StartsHere
<1>8. CASE \/ \E p \in closing, ok \in BOOLEAN : ShutdownSettles(p, ok)
           \/ \E c \in Caller : CallerResumes(c)
  BY <1>8, <1>b, <1>c, <1>d DEF ShutdownSettles, CallerResumes, hostVars, mountVars, shutVars,
     startVars, AgentsHere, StartsHere, owner
<1>9. CASE FlushStep
  <2>1. CASE FlushBegins \/ FlushEnds
    BY <1>b, <1>c, <1>d, <2>1 DEF FlushBegins, FlushEnds, hostVars, shutVars, startVars,
       AgentsHere, StartsHere, owner
  <2>2. ASSUME NEW a \in Agents, FlushNext(a) PROVE AgentsHere' /\ StartsHere'
    <3>1. life'[a] # "absent" /\ <<"flush", a>> \in Caller
      BY <1>c, <2>2 DEF FlushNext, Caller
    <3>2. AgentsHere'
      BY <2>2, <1>b, <1>c DEF FlushNext, hostVars, AgentsHere, owner
    <3>3. StartsHere'
      BY <1>0, <2>2, <1>a, <3>1, StartStaysHere DEF FlushNext
    <3> QED
      BY <3>2, <3>3
  <2> QED
    BY <1>9, <2>1, <2>2 DEF FlushStep
<1>10. CASE ReloadStep
  <2>1. StartsHere'
    BY <1>10, <1>d DEF ReloadStep, ReloadClears, ReloadFails, ReloadRestarts, RestartEnds,
       RestartDispatches, RestartHandlersDone, shutVars, startVars, StartsHere
  <2>2. CASE ReloadClears \/ ReloadFails \/ RestartEnds
    BY <1>b, <1>c, <2>1, <2>2 DEF ReloadClears, ReloadFails, RestartEnds, hostVars, AgentsHere, owner
  <2>3. CASE ReloadRestarts
    <3>1. queue' \subseteq active \cup {reload.by} /\ mount = "reloading"
      BY <2>3 DEF ReloadRestarts
    <3>2. \A a \in queue' : life'[a] # "absent"
      BY <1>c, <3>1
    <3> QED
      BY <1>b, <1>c, <2>1, <2>3, <3>2 DEF ReloadRestarts, hostVars, AgentsHere, owner
  <2>4. ASSUME NEW a \in Agents, RestartDispatches(a) PROVE AgentsHere' /\ StartsHere'
    BY <1>b, <1>c, <2>1, <2>4 DEF RestartDispatches, hostVars, AgentsHere, owner
  <2>5. ASSUME NEW ok \in BOOLEAN, RestartHandlersDone(ok) PROVE AgentsHere' /\ StartsHere'
    BY <1>b, <1>c, <2>1, <2>5 DEF RestartHandlersDone, hostVars, AgentsHere, owner
  <2> QED
    BY <1>10, <2>2, <2>3, <2>4, <2>5 DEF ReloadStep
<1>11. CASE TeardownBegins
  <2>1. AgentsHere'
    BY <1>11, <1>b, <1>c DEF TeardownBegins, hostVars, AgentsHere, owner
  <2>2. \A p \in closing' : p \in closing \/ (host # NoAgent /\ p[1] = host)
    BY <1>0, <1>11, <1>b, ShutdownPromises DEF TeardownBegins, shutVars
  <2> QED
    BY <1>11, <1>d, <2>1, <2>2 DEF TeardownBegins, startVars, StartsHere
<1>12. CASE TeardownStep
  BY <1>12, <1>b, <1>c, <1>d DEF TeardownStep, TeardownDrains, TeardownFails, TeardownEnds,
     hostVars, shutVars, startVars, AgentsHere, StartsHere, owner
<1>13. CASE \E a \in Agents :
              \/ AgentCreated(a) \/ AdoptChildAgent(a) \/ AgentDisposed(a)
              \/ ToolCall(a) \/ ToolReturns(a) \/ ReloadBegins(a)
  <2>1. ASSUME NEW a \in Agents, ToolReturns(a) PROVE AgentsHere' /\ StartsHere'
    BY <2>1, <1>b, <1>c, <1>d DEF ToolReturns, hostVars, mountVars, shutVars, AgentsHere,
       StartsHere, owner
  <2> QED
    BY <1>13, <1>2, <1>3, <1>4, <1>5, <1>6, <2>1
<1> QED
  BY <1>1, <1>7, <1>8, <1>9, <1>10, <1>11, <1>12, <1>13 DEF Next

-----------------------------------------------------------------------------
(* A mount that an agent owns: only its owner ever has a session in it.  A *)
(* child is created before it is adopted, so its own creation starts        *)
(* nothing, and nobody but the owner can reach the instance's tools.        *)

OwnerSeen == owner # NoAgent =>
  /\ \A a \in Agents \ {owner} : ~Open(a)
  /\ host \in {NoAgent, owner}
  /\ \A p \in closing : p[1] = owner
  /\ \A t \in TaskId : task[t].phase # "unused" => t[1] = owner /\ task[t].phase # "handoff"

OwnerQueued == owner # NoAgent =>
  /\ queue \subseteq {owner} /\ pending = {} /\ active \subseteq {owner}
  /\ reload.agent \in {NoAgent, owner} /\ reload.by \in {NoAgent, owner}

\* The facts about an owned mount that the proofs below rest on.
LEMMA OwnedFacts ==
  ASSUME TypeOK, MountInv, AgentsHere, owner # NoAgent
  PROVE  /\ owner \in Agents /\ owner \notin Children /\ owner \notin adopted
         /\ NoAgent \notin Agents
         /\ life[owner] # "absent"
         /\ \A a \in Agents : AcceptsAgent(a) => a = owner \/ a \in adopted
         /\ \A a \in Agents : AcceptsAgent(a) => life[a] # "absent"
         /\ \A a \in adopted : a \in Children
         /\ AcceptsAgent(owner)
BY TypeParts, SetupTyped, NoAgentAssumption DEF HostTyped, MountInv, AgentsHere, AcceptsAgent

\* In an owned mount nothing is handed over, and only the owner is started.
LEMMA OwnedStart ==
  ASSUME TypeOK, MountInv, AgentsHere, OwnerSeen, owner # NoAgent, setup' = setup,
         NEW c \in Caller, StartPiSession(c), c[2] = owner \/ ~AcceptsAgent(c[2])
  PROVE  /\ ~Replaces(c)
         /\ OwnerSeen'
         /\ UNCHANGED <<closing, sess>>
<1>0. HostTyped /\ ShutTyped /\ StartTyped /\ SeenTyped
  BY TypeParts
<1>1. ~Replaces(c)
  BY OwnedFacts DEF Replaces, NewTask, OwnerSeen
<1>2. CASE Passes(c) \/ Joins(c)
  BY <1>1, <1>2 DEF Passes, Joins, besidesWaits, shutVars, OwnerSeen, Open, owner
<1>3. CASE StartsAgain(c) \/ StartsFresh(c)
  <2>1. NewTask(c) /\ c[2] = owner /\ host' = owner
    BY <1>3 DEF StartsAgain, StartsFresh, NewTask, TakeHostSession
  <2>2. TaskOf(c) \in TaskId /\ TaskOf(c)[1] = owner
    BY <1>0, <2>1, TaskOfTyped
  <2>3. PICK ph \in {"done", "exports"} : task' = [task EXCEPT ![TaskOf(c)].phase = ph]
    BY <1>3 DEF StartsAgain, StartsFresh
  <2>4. \A u \in TaskId : task'[u].phase = IF u = TaskOf(c) THEN ph ELSE task[u].phase
    BY <1>0, <2>2, <2>3, PhaseTyped DEF StartTyped, Phase
  <2>5. UNCHANGED <<closing, sess>>
    BY <1>3 DEF StartsAgain, StartsFresh
  <2> QED
    BY <1>1, <2>1, <2>2, <2>4, <2>5 DEF OwnerSeen, Open, owner
<1> QED
  BY <1>1, <1>2, <1>3, StartWays

\* Every step keeps to the owner.
LEMMA StepOwner ==
  TypeOK /\ MountInv /\ AgentsHere /\ OwnerSeen /\ OwnerQueued /\ [Next]_vars
    => (OwnerSeen /\ OwnerQueued)'
<1> SUFFICES ASSUME TypeOK, MountInv, AgentsHere, OwnerSeen, OwnerQueued, [Next]_vars,
                    owner # NoAgent
             PROVE  OwnerSeen' /\ OwnerQueued'
  BY SetupStays DEF OwnerSeen, OwnerQueued, owner
<1>0. HostTyped /\ MountTyped /\ ReloadTyped /\ ShutTyped /\ StartTyped /\ SeenTyped
  BY TypeParts
<1>a. setup' = setup /\ owner' = owner
  BY SetupStays DEF owner
<1>b. /\ \A a \in Agents \ {owner} : ~Open(a)
      /\ host \in {NoAgent, owner}
      /\ \A p \in closing : p[1] = owner
      /\ \A t \in TaskId : task[t].phase # "unused" => t[1] = owner /\ task[t].phase # "handoff"
  BY DEF OwnerSeen
<1>c. /\ queue \subseteq {owner} /\ pending = {} /\ active \subseteq {owner}
      /\ reload.agent \in {NoAgent, owner} /\ reload.by \in {NoAgent, owner}
  BY DEF OwnerQueued
<1>d. /\ owner \in Agents /\ NoAgent \notin Agents /\ life[owner] # "absent"
      /\ \A a \in Agents : AcceptsAgent(a) => life[a] # "absent"
      /\ \A a \in Agents : AcceptsAgent(a) => a = owner \/ a \in adopted
  BY OwnedFacts
<1>s. ASSUME UNCHANGED <<sess, host, closing, task>> PROVE OwnerSeen'
  BY <1>a, <1>b, <1>s DEF OwnerSeen, Open
<1>q. ASSUME UNCHANGED mountVars PROVE OwnerQueued'
  BY <1>a, <1>c, <1>q DEF OwnerQueued, mountVars
<1>1. CASE UNCHANGED vars
  BY <1>1, <1>s, <1>q DEF vars, shutVars, startVars
<1>2. ASSUME NEW a \in Agents, AgentCreated(a) PROVE OwnerSeen' /\ OwnerQueued'
  <2>1. ~AcceptsAgent(a) /\ <<"created", a>> \in Caller
    BY <1>2, <1>d DEF AgentCreated, Caller
  <2>2. StartPiSession(<<"created", a>>)
    BY <1>2, <2>1 DEF AgentCreated
  <2>3. OwnerSeen'
    BY <1>a, <2>1, <2>2, OwnedStart
  <2> QED
    BY <1>a, <1>2, <1>c, <2>1, <2>3 DEF AgentCreated, OwnerQueued
<1>3. ASSUME NEW a \in Agents, AdoptChildAgent(a) \/ ToolReturns(a)
      PROVE  OwnerSeen' /\ OwnerQueued'
  BY <1>3, <1>s, <1>q DEF AdoptChildAgent, ToolReturns, shutVars, startVars
<1>4. ASSUME NEW a \in Agents, AgentDisposed(a) PROVE OwnerSeen' /\ OwnerQueued'
  <2>1. OwnerQueued'
    BY <1>a, <1>c, <1>4 DEF AgentDisposed, OwnerQueued
  <2>2. CASE UNCHANGED <<host, shutVars, sess>>
    BY <1>4, <1>s, <2>1, <2>2 DEF AgentDisposed, shutVars
  <2>3. CASE host = a /\ host' = NoAgent /\ ShutdownPiSession(a)
    <3>1. a = owner
      BY <1>b, <1>d, <2>3
    <3>2. /\ \A b \in Agents \ {a} : sess'[b] = sess[b]
          /\ \A p \in closing' : p \in closing \/ p[1] = a
      BY <1>0, <2>3, ShutdownCloses, ShutdownPromises
    <3>3. task' = task
      BY <1>4 DEF AgentDisposed
    <3> QED
      BY <1>a, <1>b, <2>1, <2>3, <3>1, <3>2, <3>3 DEF OwnerSeen, Open
  <2> QED
    BY <1>4, <2>2, <2>3 DEF AgentDisposed
<1>5. ASSUME NEW a \in Agents, ToolCall(a) PROVE OwnerSeen' /\ OwnerQueued'
  <2>1. a = owner /\ <<"tool", a>> \in Caller /\ StartPiSession(<<"tool", a>>)
    BY <1>5 DEF ToolCall, CanCall, Caller
  <2>2. OwnerSeen'
    BY <1>a, <2>1, OwnedStart
  <2> QED
    BY <1>5, <1>q, <2>2 DEF ToolCall
<1>6. ASSUME NEW a \in Agents, ReloadBegins(a) PROVE OwnerSeen' /\ OwnerQueued'
  <2>1. a = owner
    BY <1>6 DEF ReloadBegins, CanCall
  <2>2. ShutdownPiSession(owner) /\ reload'.agent = owner /\ reload'.by = owner
        /\ UNCHANGED <<pending, queue, active, host, task>>
    BY <1>6, <1>b, <2>1 DEF ReloadBegins, startVars
  <2>3. /\ \A b \in Agents \ {owner} : sess'[b] = sess[b]
        /\ \A p \in closing' : p \in closing \/ p[1] = owner
    BY <1>0, <1>d, <2>2, ShutdownCloses, ShutdownPromises
  <2>4. OwnerSeen'
    BY <1>a, <1>b, <2>2, <2>3 DEF OwnerSeen, Open
  <2> QED
    BY <1>a, <1>c, <2>2, <2>4 DEF OwnerQueued
<1>7. ASSUME NEW t \in TaskId, TaskStep(t) PROVE OwnerSeen' /\ OwnerQueued'
  <2>1. t[1] = owner /\ task[t].phase # "handoff"
    BY <1>0, <1>7, <1>b, TaskMoves DEF InFlight
  <2>2. PICK ph \in Phase \ {"unused", "handoff"} : task' = [task EXCEPT ![t].phase = ph]
    BY <1>0, <1>7, TaskMoves
  <2>3. \A u \in TaskId : task'[u].phase = IF u = t THEN ph ELSE task[u].phase
    BY <1>0, <2>2, PhaseTyped DEF StartTyped
  <2>4. UNCHANGED <<host, closing>> /\ \A b \in Agents \ {owner} : sess'[b] = sess[b]
    BY <1>0, <1>7, <2>1 DEF TaskStep, TaskTakesOver, TaskHandoffFails, TaskDispatches,
       TaskHandlersDone, TaskDone, TaskFails, FailTask, shutVars, SeenTyped
  <2>5. OwnerSeen'
    BY <1>a, <1>b, <2>1, <2>3, <2>4 DEF OwnerSeen, Open
  <2>6. UNCHANGED mountVars
    BY <1>7 DEF TaskStep, TaskTakesOver, TaskHandoffFails, TaskDispatches, TaskHandlersDone,
       TaskDone, TaskFails
  <2> QED
    BY <1>q, <2>5, <2>6
<1>8. ASSUME NEW p \in closing, NEW ok \in BOOLEAN, ShutdownSettles(p, ok)
      PROVE  OwnerSeen' /\ OwnerQueued'
  BY <1>8, <1>a, <1>b, <1>q DEF ShutdownSettles, startVars, OwnerSeen, Open
<1>9. ASSUME NEW c \in Caller, CallerResumes(c) PROVE OwnerSeen' /\ OwnerQueued'
  BY <1>9, <1>s, <1>q DEF CallerResumes, shutVars
<1>10. CASE FlushStep
  <2>1. CASE FlushBegins
    BY <1>a, <1>c, <1>s, <2>1 DEF FlushBegins, shutVars, startVars, OwnerQueued
  <2>2. CASE FlushEnds
    BY <1>a, <1>c, <1>s, <2>2 DEF FlushEnds, shutVars, startVars, OwnerQueued
  <2>3. ASSUME NEW a \in Agents, FlushNext(a) PROVE OwnerSeen' /\ OwnerQueued'
    <3>1. a = owner /\ <<"flush", a>> \in Caller /\ StartPiSession(<<"flush", a>>)
      BY <1>c, <2>3 DEF FlushNext, Caller
    <3>2. OwnerSeen'
      BY <1>a, <3>1, OwnedStart
    <3> QED
      BY <1>a, <1>c, <2>3, <3>2 DEF FlushNext, OwnerQueued
  <2> QED
    BY <1>10, <2>1, <2>2, <2>3 DEF FlushStep
<1>11. CASE ReloadStep
  <2>1. CASE ReloadClears \/ ReloadFails \/ RestartEnds
    BY <1>a, <1>c, <1>s, <2>1 DEF ReloadClears, ReloadFails, RestartEnds, shutVars, startVars,
       OwnerQueued
  <2>2. CASE ReloadRestarts
    <3>1. queue' \subseteq active \cup {reload.by} /\ reload.by # NoAgent
      BY <2>2 DEF ReloadRestarts, MountInv, ReloadByAgent
    <3>2. queue' \subseteq {owner}
      BY <1>c, <3>1
    <3>3. reload'.agent = NoAgent /\ reload'.by = reload.by
      BY <1>0, <2>2 DEF ReloadRestarts, ReloadTyped
    <3> QED
      BY <1>a, <1>c, <1>s, <2>2, <3>2, <3>3 DEF ReloadRestarts, shutVars, startVars, OwnerQueued
  <2>3. ASSUME NEW a \in Agents, RestartDispatches(a) PROVE OwnerSeen' /\ OwnerQueued'
    <3>1. a = owner /\ reload'.agent = a /\ reload'.by = reload.by
      BY <1>0, <1>c, <2>3 DEF RestartDispatches, ReloadTyped
    <3>2. \A b \in Agents \ {owner} : sess'[b] = sess[b]
      BY <1>0, <2>3, <3>1 DEF RestartDispatches, SeenTyped
    <3>3. OwnerSeen'
      BY <1>a, <1>b, <2>3, <3>2 DEF RestartDispatches, shutVars, startVars, OwnerSeen, Open
    <3> QED
      BY <1>a, <1>c, <2>3, <3>1, <3>3 DEF RestartDispatches, OwnerQueued
  <2>4. ASSUME NEW ok \in BOOLEAN, RestartHandlersDone(ok) PROVE OwnerSeen' /\ OwnerQueued'
    <3>1. reload.agent = owner /\ reload'.agent = NoAgent /\ reload'.by = reload.by
      BY <1>0, <1>c, <2>4 DEF RestartHandlersDone, ReloadTyped
    <3>2. \A b \in Agents \ {owner} : sess'[b] = sess[b]
      BY <1>0, <2>4, <3>1 DEF RestartHandlersDone, SeenTyped
    <3>3. OwnerSeen'
      BY <1>a, <1>b, <2>4, <3>2 DEF RestartHandlersDone, shutVars, startVars, OwnerSeen, Open
    <3> QED
      BY <1>a, <1>c, <2>4, <3>1, <3>3 DEF RestartHandlersDone, OwnerQueued
  <2> QED
    BY <1>11, <2>1, <2>2, <2>3, <2>4 DEF ReloadStep
<1>12. CASE TeardownBegins
  <2>1. OwnerQueued'
    BY <1>0, <1>a, <1>c, <1>12 DEF TeardownBegins, ReloadTyped, OwnerQueued
  <2>2. CASE host = NoAgent
    BY <1>s, <1>12, <2>1, <2>2 DEF TeardownBegins, shutVars, startVars
  <2>3. CASE host # NoAgent
    <3>1. host = owner /\ ShutdownPiSession(owner) /\ UNCHANGED <<host, task>>
      BY <1>b, <1>12, <2>3 DEF TeardownBegins, startVars
    <3>2. /\ \A b \in Agents \ {owner} : sess'[b] = sess[b]
          /\ \A p \in closing' : p \in closing \/ p[1] = owner
      BY <1>0, <1>d, <3>1, ShutdownCloses, ShutdownPromises
    <3> QED
      BY <1>a, <1>b, <2>1, <3>1, <3>2 DEF OwnerSeen, Open
  <2> QED
    BY <2>2, <2>3
<1>13. CASE TeardownStep
  <2>1. OwnerQueued'
    BY <1>0, <1>a, <1>c, <1>13 DEF TeardownStep, TeardownDrains, TeardownFails, TeardownEnds,
       ReloadTyped, OwnerQueued
  <2>2. OwnerSeen'
    BY <1>a, <1>b, <1>13 DEF TeardownStep, TeardownDrains, TeardownFails, TeardownEnds, shutVars,
       startVars, OwnerSeen, Open
  <2> QED
    BY <2>1, <2>2
<1>14. CASE \E a \in Agents :
              \/ AgentCreated(a) \/ AdoptChildAgent(a) \/ AgentDisposed(a)
              \/ ToolCall(a) \/ ToolReturns(a) \/ ReloadBegins(a)
  BY <1>14, <1>2, <1>3, <1>4, <1>5, <1>6
<1> QED
  BY <1>1, <1>7, <1>8, <1>9, <1>10, <1>11, <1>12, <1>13, <1>14 DEF Next

-----------------------------------------------------------------------------
(* The owner's session.  While the owner lives it has at most one start in *)
(* flight; that start is the current one and holds the claim.  Once a start *)
(* has come through, the claim stays until the owner is gone, across every *)
(* reload, so no call starts the session again while the handlers are       *)
(* cleared.  This needs the sessions of children to be their own.           *)

\* No child has the session of an agent that is no child
\* (subagent-bridge.ts:773-786 mints or resumes a child session's id).
ChildrenOwnSessions ==
  \A k \in Children, a \in Agents \ Children : SessionOf[k] # SessionOf[a]

Own == SessionOf[owner]

\* The owner's session has been started and nothing is starting it.
Started == Own \in claims /\ current[Own] = None

OwnerLive == owner # NoAgent /\ life[owner] = "live" /\ mount \notin Unloaded

\* Before and while the handlers are cleared nothing is about to dispatch.
OwnerFlow == owner # NoAgent =>
  /\ mount = "loading" => \A t \in TaskId : task[t].phase = "unused"
  /\ mount \in {"shutting", "reloading", "restarting"}
       => \A t \in TaskId : task[t].phase \notin InFlight

OneStart == OwnerLive =>
  /\ \A t \in TaskId : task[t].phase \in InFlight
       => /\ current[Own] = t /\ Own \in claims /\ reload.count = 0
          /\ task[t].phase = "starting" => sess[owner] = "starting"
          /\ task[t].phase = "resources" => sess[owner] = "up"
  /\ current[Own] # None => task[current[Own]].phase \in InFlight
  /\ \A t \in TaskId : task[t].phase = "done" => Started
  /\ Started /\ reload.count = 0 => sess[owner] = "up"

\* What the mount knows of it: a flush that is through, and all that follows,
\* has the session started.
FlushThrough == OwnerLive =>
  /\ mount \in {"ready", "shutting", "reloading", "restarting"} => Started
  /\ (/\ mount = "flushing" /\ owner \notin queue
      /\ waits[<<"flush", owner>>].state # "waiting"
      /\ waits[<<"flush", owner>>] # Refused) => Started

\* A caller that waits, waits for a task.
WaitsOnTask == \A c \in Caller : waits[c].state = "waiting" => waits[c].on \in TaskId

\* None is no task.
LEMMA NoneIsNoTask == None \notin TaskId
BY NoAgentAssumption DEF None, TaskId

\* The owner is live before a step if it is afterwards.
LEMMA LiveBefore ==
  ASSUME TypeOK, AgentsHere, [Next]_vars, OwnerLive'
  PROVE  OwnerLive /\ life'[owner] = "live"
<1>0. setup' = setup /\ owner' = owner
  BY SetupStays DEF owner
<1>1. owner # NoAgent /\ owner \in Agents /\ life[owner] # "absent" /\ life'[owner] = "live"
      /\ mount' \notin Unloaded /\ life \in [Agents -> {"absent", "live", "gone"}]
  BY <1>0, TypeParts, SetupTyped DEF OwnerLive, AgentsHere, HostTyped
<1>2. life[owner] = "live"
  BY <1>1 DEF Next, AgentCreated, AdoptChildAgent, AgentDisposed, ToolCall, ToolReturns,
     ReloadBegins, TaskStep, TaskTakesOver, TaskHandoffFails, TaskDispatches, TaskHandlersDone,
     TaskDone, TaskFails, ShutdownSettles, CallerResumes, FlushStep, FlushBegins, FlushEnds,
     FlushNext, ReloadStep, ReloadClears, ReloadFails, ReloadRestarts, RestartEnds,
     RestartDispatches, RestartHandlersDone, TeardownBegins, TeardownStep, TeardownDrains,
     TeardownFails, TeardownEnds, vars, hostVars
<1>3. mount \notin Unloaded
  BY <1>1, ZenonT(30) DEF Next, AgentCreated, AdoptChildAgent, AgentDisposed, ToolCall, ToolReturns,
     ReloadBegins, TaskStep, TaskTakesOver, TaskHandoffFails, TaskDispatches, TaskHandlersDone,
     TaskDone, TaskFails, ShutdownSettles, CallerResumes, FlushStep, FlushBegins, FlushEnds,
     FlushNext, ReloadStep, ReloadClears, ReloadFails, ReloadRestarts, RestartEnds,
     RestartDispatches, RestartHandlersDone, TeardownBegins, TeardownStep, TeardownDrains,
     TeardownFails, TeardownEnds, vars, mountVars, Unloaded
<1> QED
  BY <1>1, <1>2, <1>3 DEF OwnerLive

\* A caller only ever waits for a task.
LEMMA StartWaitsOnTask ==
  ASSUME HostTyped, StartTyped, WaitsOnTask, NEW c \in Caller, StartPiSession(c)
  PROVE  WaitsOnTask'
<1>0. c[2] \in Agents /\ SessionOf[c[2]] \in Sessions
  BY SessionTyped DEF Caller
<1>1. ASSUME NEW w \in Wait, waits' = [waits EXCEPT ![c] = w],
             w.state = "waiting" => w.on \in TaskId
      PROVE  WaitsOnTask'
  BY <1>1 DEF WaitsOnTask, StartTyped
<1>2. Resumed(c, "done") \in Wait /\ Resumed(c, "done").state # "waiting"
  BY AwaitTyped DEF Resumed, Idle, Through, Refused
<1>3. CASE Passes(c) \/ StartsAgain(c)
  BY <1>1, <1>2, <1>3 DEF Passes, StartsAgain
<1>4. CASE Joins(c)
  <2>1. current[SessionOf[c[2]]] \in TaskId
    BY <1>0, <1>4 DEF Joins, StartTyped
  <2> QED
    BY <1>1, <1>4, <2>1, AwaitTyped DEF Joins
<1>5. CASE Replaces(c) \/ StartsFresh(c)
  <2>1. TaskOf(c) \in TaskId
    BY <1>5, TaskOfTyped DEF Replaces, StartsFresh
  <2> QED
    BY <1>1, <1>5, <2>1, AwaitTyped DEF Replaces, StartsFresh
<1> QED
  BY <1>3, <1>4, <1>5, StartWays

\* Only startPiSession, a resumed await and a returning tool move a caller.
LEMMA WaitChanges ==
  ASSUME [Next]_vars
  PROVE  \/ \E c \in Caller : StartPiSession(c)
         \/ \E c \in Caller : CallerResumes(c)
         \/ \E a \in Agents : ToolReturns(a)
         \/ waits' = waits
<1>1. CASE UNCHANGED vars
  BY <1>1 DEF vars, startVars
<1>2. ASSUME NEW a \in Agents,
             \/ AgentCreated(a) \/ AdoptChildAgent(a) \/ AgentDisposed(a)
             \/ ToolCall(a) \/ ReloadBegins(a)
      PROVE  (\E c \in Caller : StartPiSession(c)) \/ waits' = waits
  <2>1. <<"created", a>> \in Caller /\ <<"tool", a>> \in Caller
    BY DEF Caller
  <2> QED
    BY <1>2, <2>1 DEF AgentCreated, AdoptChildAgent, AgentDisposed, ToolCall, ReloadBegins, startVars
<1>3. ASSUME NEW t \in TaskId, TaskStep(t) PROVE waits' = waits
  BY <1>3 DEF TaskStep, TaskTakesOver, TaskHandoffFails, TaskDispatches, TaskHandlersDone,
     TaskDone, TaskFails
<1>4. CASE \E p \in closing, ok \in BOOLEAN : ShutdownSettles(p, ok)
  BY <1>4 DEF ShutdownSettles, startVars
<1>5. CASE FlushStep
  <2>1. \A a \in Agents : <<"flush", a>> \in Caller
    BY DEF Caller
  <2> QED
    BY <1>5, <2>1 DEF FlushStep, FlushBegins, FlushEnds, FlushNext, startVars
<1>6. CASE ReloadStep
  BY <1>6 DEF ReloadStep, ReloadClears, ReloadFails, ReloadRestarts, RestartEnds,
     RestartDispatches, RestartHandlersDone, startVars
<1>7. CASE TeardownBegins \/ TeardownStep
  BY <1>7 DEF TeardownBegins, TeardownStep, TeardownDrains, TeardownFails, TeardownEnds, startVars
<1> QED
  BY <1>1, <1>2, <1>3, <1>4, <1>5, <1>6, <1>7 DEF Next

\* Every step keeps callers waiting for tasks.
LEMMA StepWaitsOnTask == TypeOK /\ WaitsOnTask /\ [Next]_vars => WaitsOnTask'
<1> SUFFICES ASSUME TypeOK, WaitsOnTask, [Next]_vars PROVE WaitsOnTask'
  OBVIOUS
<1>0. HostTyped /\ StartTyped
  BY TypeParts
<1>1. ASSUME NEW c \in Caller, CallerResumes(c) PROVE WaitsOnTask'
  <2>1. \A ph : Resumed(c, ph).state # "waiting"
    BY DEF Resumed, Idle, Through, Refused
  <2> QED
    BY <1>0, <1>1, <2>1 DEF CallerResumes, WaitsOnTask, StartTyped
<1>2. ASSUME NEW a \in Agents, ToolReturns(a) PROVE WaitsOnTask'
  BY <1>0, <1>2 DEF ToolReturns, WaitsOnTask, StartTyped, Idle
<1>3. ASSUME NEW c \in Caller, StartPiSession(c) PROVE WaitsOnTask'
  BY <1>0, <1>3, StartWaitsOnTask
<1> QED
  BY <1>1, <1>2, <1>3, WaitChanges DEF WaitsOnTask

\* In an owned mount a call while the session is started starts nothing.
LEMMA StartedAgain ==
  ASSUME TypeOK, MadeInOrder, Started, NEW c \in Caller, c[2] = owner, StartPiSession(c),
         ~Replaces(c)
  PROVE  /\ \A t \in TaskId : task'[t].phase \in InFlight => task[t].phase \in InFlight
         /\ \A t \in TaskId : task'[t].phase \notin {"unused", "done"} => task'[t].phase = task[t].phase
         /\ UNCHANGED <<claims, current, sess>>
         /\ waits' = [waits EXCEPT ![c] = Resumed(c, "done")]
<1>0. HostTyped /\ ShutTyped /\ StartTyped /\ SeenTyped
  BY TypeParts
<1>1. ~Joins(c) /\ ~StartsFresh(c)
  BY DEF Joins, StartsFresh, Started, Own
<1>2. CASE Passes(c)
  BY <1>2 DEF Passes, besidesWaits
<1>3. CASE StartsAgain(c)
  <2>1. TaskOf(c) \in TaskId
    BY <1>0, <1>3, TaskOfTyped DEF StartsAgain
  <2>2. \A u \in TaskId : task'[u].phase = IF u = TaskOf(c) THEN "done" ELSE task[u].phase
    BY <1>0, <1>3, <2>1, PhaseTyped DEF StartsAgain, StartTyped, Phase
  <2> QED
    BY <1>3, <2>2 DEF StartsAgain, InFlight
<1> QED
  BY <1>1, <1>2, <1>3, StartWays

\* Every step keeps the handlers safe from starts.
LEMMA StepFlow ==
  ASSUME TypeOK, MountInv, MadeInOrder, AgentsHere, OwnerSeen, OwnerQueued, OwnerFlow, OneStart,
         FlushThrough, [Next]_vars
  PROVE  OwnerFlow'
<1> SUFFICES ASSUME owner # NoAgent PROVE OwnerFlow'
  BY SetupStays DEF OwnerFlow, owner
<1>0. HostTyped /\ ShutTyped /\ StartTyped /\ SeenTyped
  BY TypeParts
<1>a. setup' = setup /\ owner' = owner
  BY SetupStays DEF owner
<1>u. ASSUME task' = task, mount' = mount PROVE OwnerFlow'
  BY <1>a, <1>u DEF OwnerFlow
<1>v. ASSUME task' = task, mount' \in {"shutting", "reloading", "restarting"} =>
                             mount \in {"shutting", "reloading", "restarting"},
             mount' # "loading"
      PROVE  OwnerFlow'
  BY <1>a, <1>v DEF OwnerFlow
<1>1. CASE UNCHANGED vars
  BY <1>1, <1>u DEF vars, mountVars, startVars
<1>2. ASSUME NEW a \in Agents, AgentCreated(a) PROVE OwnerFlow'
  <2>1. ~AcceptsAgent(a) /\ <<"created", a>> \in Caller
    BY <1>2, OwnedFacts DEF AgentCreated, Caller
  <2>2. StartPiSession(<<"created", a>>) /\ mount' = mount
    BY <1>2, <2>1 DEF AgentCreated
  <2>3. task' = task
    BY <2>1, <2>2 DEF StartPiSession
  <2> QED
    BY <1>u, <2>2, <2>3
<1>3. ASSUME NEW a \in Agents, AdoptChildAgent(a) \/ AgentDisposed(a) \/ ToolReturns(a)
      PROVE  OwnerFlow'
  BY <1>3, <1>u DEF AdoptChildAgent, AgentDisposed, ToolReturns, mountVars, startVars
<1>4. ASSUME NEW a \in Agents, ToolCall(a) PROVE OwnerFlow'
  <2>1. /\ a = owner /\ <<"tool", a>> \in Caller /\ StartPiSession(<<"tool", a>>)
        /\ OwnerLive /\ mount' = mount /\ mount # "loading"
    BY <1>4 DEF ToolCall, CanCall, Caller, OwnerLive, mountVars
  <2>2. CASE mount \in {"shutting", "reloading", "restarting"}
    <3>1. Started
      BY <2>1, <2>2 DEF FlushThrough
    <3>2. ~Replaces(<<"tool", a>>)
      BY <1>a, <2>1, OwnedStart
    <3>3. \A t \in TaskId : task'[t].phase \in InFlight => task[t].phase \in InFlight
      BY <2>1, <3>1, <3>2, StartedAgain
    <3> QED
      BY <1>a, <2>1, <2>2, <3>3 DEF OwnerFlow
  <2> QED
    BY <1>a, <2>1, <2>2 DEF OwnerFlow
<1>5. ASSUME NEW a \in Agents, ReloadBegins(a) PROVE OwnerFlow'
  <2>1. a = owner /\ OwnerLive /\ mount = "ready" /\ mount' = "shutting" /\ task' = task
    BY <1>5 DEF ReloadBegins, CanCall, OwnerLive, Unloaded, startVars
  <2>2. Started
    BY <2>1 DEF FlushThrough
  <2>3. \A t \in TaskId : task[t].phase \notin InFlight
    BY <2>1, <2>2, NoneIsNoTask DEF OneStart, Started
  <2> QED
    BY <1>a, <2>1, <2>3 DEF OwnerFlow
<1>6. ASSUME NEW t \in TaskId, TaskStep(t) PROVE OwnerFlow'
  <2>1. task[t].phase \in InFlight
    BY <1>0, <1>6, TaskMoves
  <2>2. mount \notin {"loading", "shutting", "reloading", "restarting"}
    BY <2>1 DEF OwnerFlow, InFlight
  <2>3. mount' = mount
    BY <1>6 DEF TaskStep, TaskTakesOver, TaskHandoffFails, TaskDispatches, TaskHandlersDone,
       TaskDone, TaskFails, mountVars
  <2> QED
    BY <1>a, <2>2, <2>3 DEF OwnerFlow
<1>7. CASE \/ \E p \in closing, ok \in BOOLEAN : ShutdownSettles(p, ok)
           \/ \E c \in Caller : CallerResumes(c)
  BY <1>7, <1>u DEF ShutdownSettles, CallerResumes, mountVars, startVars
<1>8. CASE FlushStep
  BY <1>8, <1>a DEF FlushStep, FlushBegins, FlushEnds, FlushNext, OwnerFlow
<1>9. CASE ReloadStep
  BY <1>9, <1>v DEF ReloadStep, ReloadClears, ReloadFails, ReloadRestarts, RestartEnds,
     RestartDispatches, RestartHandlersDone, startVars
<1>10. CASE TeardownBegins \/ TeardownStep
  BY <1>10, <1>a DEF TeardownBegins, TeardownStep, TeardownDrains, TeardownFails, TeardownEnds,
     OwnerFlow
<1>11. CASE \E a \in Agents :
              \/ AgentCreated(a) \/ AdoptChildAgent(a) \/ AgentDisposed(a)
              \/ ToolCall(a) \/ ToolReturns(a) \/ ReloadBegins(a)
  BY <1>11, <1>2, <1>3, <1>4, <1>5
<1> QED
  BY <1>1, <1>6, <1>7, <1>8, <1>9, <1>10, <1>11 DEF Next

\* A step that leaves the owner's session and its tasks alone.
LEMMA QuietOneStart ==
  ASSUME OneStart, OwnerLive, owner' = owner,
         Own \in claims' <=> Own \in claims, current'[Own] = current[Own],
         task' = task, sess'[owner] = sess[owner], reload'.count = reload.count
  PROVE  OneStart' /\ (Started <=> Started')
<1>1. Own' = Own
  BY DEF Own
<1> QED
  BY <1>1 DEF OneStart, Started

\* startPiSession for the owner: one start at most, and a started session stays so.
LEMMA OwnerStarts ==
  ASSUME TypeOK, MadeInOrder, OneStart, OwnerLive, owner' = owner,
         Started \/ reload.count = 0, reload'.count = reload.count,
         NEW c \in Caller, c[2] = owner, StartPiSession(c), ~Replaces(c)
  PROVE  /\ OneStart'
         /\ Started => Started'
         /\ waits'[c].state = "waiting" \/ Started'
         /\ \A d \in Caller \ {c} : waits'[d] = waits[d]
<1>0. HostTyped /\ ShutTyped /\ StartTyped /\ SeenTyped
  BY TypeParts
<1>1. owner \in Agents /\ Own \in Sessions /\ Own' = Own /\ AcceptsAgent(owner) /\ owner # NoAgent
  BY SessionTyped DEF Caller, Own, OwnerLive, AcceptsAgent
<1>2. ~Passes(c)
  BY <1>1 DEF Passes
<1>3. CASE Joins(c)
  <2>1. waits' = [waits EXCEPT ![c] = [state |-> "waiting", on |-> current[Own]]]
    BY <1>3 DEF Joins, Own
  <2>2. waits'[c].state = "waiting" /\ \A d \in Caller \ {c} : waits'[d] = waits[d]
    BY <1>0, <2>1 DEF StartTyped
  <2>3. UNCHANGED <<claims, current, task, sess>>
    BY <1>3 DEF Joins, besidesWaits
  <2> QED
    BY <2>2, <2>3, QuietOneStart
<1>4. CASE StartsAgain(c)
  <2>1. Started
    BY <1>4 DEF StartsAgain, NewTask, Started, Own
  <2>2. /\ \A t \in TaskId : task'[t].phase \in InFlight => task[t].phase \in InFlight
        /\ \A t \in TaskId : task'[t].phase \notin {"unused", "done"} => task'[t].phase = task[t].phase
        /\ UNCHANGED <<claims, current, sess>>
        /\ waits' = [waits EXCEPT ![c] = Resumed(c, "done")]
    BY <2>1, StartedAgain
  <2>3. Started'
    BY <1>1, <2>1, <2>2 DEF Started
  <2>4. OneStart'
    <3>1. \A t \in TaskId : task'[t].phase \notin InFlight
      BY <2>1, <2>2, NoneIsNoTask DEF OneStart, Started
    <3>2. current'[Own] = None /\ (reload'.count = 0 => sess'[owner] = "up")
      BY <2>1, <2>2 DEF OneStart, Started
    <3> QED
      BY <1>1, <2>3, <3>1, <3>2 DEF OneStart
  <2> QED
    BY <1>0, <2>2, <2>3, <2>4 DEF StartTyped
<1>5. CASE StartsFresh(c)
  <2>1. /\ NewTask(c) /\ Own \notin claims /\ current[Own] = None
        /\ task' = [task EXCEPT ![TaskOf(c)].phase = "exports"]
        /\ claims' = claims \cup {Own}
        /\ current' = [current EXCEPT ![Own] = TaskOf(c)]
        /\ waits' = [waits EXCEPT ![c] = [state |-> "waiting", on |-> TaskOf(c)]]
    BY <1>5 DEF StartsFresh, NewTask, Own
  <2>2. TaskOf(c) \in TaskId /\ TaskOf(c) # None
    BY <1>0, <2>1, TaskOfTyped, NoneIsNoTask
  <2>3. ~Started /\ reload.count = 0
    BY <2>1 DEF Started
  <2>4. \A t \in TaskId : task[t].phase \notin InFlight /\ task[t].phase # "done"
    BY <2>1, <2>3, NoneIsNoTask DEF OneStart, Started
  <2>5. \A u \in TaskId : task'[u].phase = IF u = TaskOf(c) THEN "exports" ELSE task[u].phase
    BY <1>0, <2>1, <2>2, PhaseTyped DEF StartTyped, Phase
  <2>6. current'[Own] = TaskOf(c) /\ Own \in claims'
    BY <1>0, <1>1, <2>1 DEF StartTyped
  <2>7. ~Started'
    BY <1>1, <2>2, <2>6 DEF Started
  <2>8. OneStart'
    BY <1>1, <2>2, <2>3, <2>4, <2>5, <2>6, <2>7 DEF OneStart, InFlight
  <2> QED
    BY <1>0, <2>1, <2>3, <2>8 DEF StartTyped
<1> QED
  BY <1>2, <1>3, <1>4, <1>5, StartWays

\* The owner's start moves on, comes through, or fails and takes the claim along.
LEMMA OwnerTaskSteps ==
  ASSUME TypeOK, OneStart, OwnerLive, OwnerSeen, owner' = owner, reload'.count = reload.count,
         NEW t \in TaskId, TaskStep(t)
  PROVE  OneStart' /\ ~Started
<1>0. HostTyped /\ ShutTyped /\ StartTyped /\ SeenTyped
  BY TypeParts
<1>1. /\ owner \in Agents /\ Own \in Sessions /\ Own' = Own /\ owner # NoAgent
      /\ task[t].phase \in InFlight
      /\ t[1] = owner /\ task[t].phase # "handoff"
      /\ current[Own] = t /\ Own \in claims /\ reload.count = 0
      /\ current \in [Sessions -> TaskId \cup {None}] /\ sess \in [Agents -> View]
      /\ SessionOf[t[1]] = Own
  <2>1. owner \in Agents /\ Own \in Sessions /\ Own' = Own /\ owner # NoAgent
    BY <1>0, SetupTyped, SessionTyped DEF OwnerLive, Own
  <2>2. task[t].phase \in InFlight
    BY <1>0, TaskMoves
  <2>3. t[1] = owner /\ task[t].phase # "handoff"
    BY <2>1, <2>2 DEF OwnerSeen, InFlight
  <2> QED
    BY <1>0, <2>1, <2>2, <2>3 DEF OneStart, StartTyped, SeenTyped, Own
<1>2. ~Started /\ t # None
  BY <1>1, NoneIsNoTask DEF Started
<1>3. \A u \in TaskId : u # t => task[u].phase \notin InFlight
  BY <1>1 DEF OneStart
<1>4. \A u \in TaskId : task[u].phase # "done"
  BY <1>2 DEF OneStart
<1>5. CASE TaskDispatches(t)
  <2>1. \A u \in TaskId : task'[u].phase = IF u = t THEN "starting" ELSE task[u].phase
    BY <1>0, <1>5, PhaseTyped DEF TaskDispatches, StartTyped, Phase
  <2>2. sess'[owner] = "starting" /\ UNCHANGED <<claims, current>>
    BY <1>1, <1>5 DEF TaskDispatches
  <2> QED
    BY <1>1, <1>2, <1>3, <1>4, <2>1, <2>2 DEF OneStart, InFlight, Started
<1>6. CASE TaskHandlersDone(t)
  <2>1. \A u \in TaskId : task'[u].phase = IF u = t THEN "resources" ELSE task[u].phase
    BY <1>0, <1>6, PhaseTyped DEF TaskHandlersDone, StartTyped, Phase
  <2>2. sess[owner] = "starting"
    BY <1>6 DEF TaskHandlersDone, OneStart, InFlight
  <2>3. sess'[owner] = "up" /\ UNCHANGED <<claims, current>>
    BY <1>1, <1>6, <2>2 DEF TaskHandlersDone
  <2> QED
    BY <1>1, <1>2, <1>3, <1>4, <2>1, <2>3 DEF OneStart, InFlight, Started
<1>7. CASE TaskDone(t)
  <2>1. \A u \in TaskId : task'[u].phase = IF u = t THEN "done" ELSE task[u].phase
    BY <1>0, <1>7, PhaseTyped DEF TaskDone, StartTyped, Phase
  <2>2. sess'[owner] = "up" /\ claims' = claims /\ current'[Own] = None
    BY <1>1, <1>7 DEF TaskDone, OneStart, InFlight
  <2> QED
    BY <1>1, <1>2, <1>3, <2>1, <2>2 DEF OneStart, InFlight, Started
<1>8. CASE TaskFails(t)
  <2>1. \A u \in TaskId : task'[u].phase = IF u = t THEN "failed" ELSE task[u].phase
    BY <1>0, <1>8, PhaseTyped DEF TaskFails, FailTask, StartTyped, Phase
  <2>2. claims' = claims \ {Own} /\ current'[Own] = None
    BY <1>1, <1>8 DEF TaskFails, FailTask
  <2> QED
    BY <1>1, <1>2, <1>3, <1>4, <2>1, <2>2 DEF OneStart, InFlight, Started
<1>9. ~TaskTakesOver(t) /\ ~TaskHandoffFails(t)
  BY <1>1 DEF TaskTakesOver, TaskHandoffFails
<1> QED
  BY <1>2, <1>5, <1>6, <1>7, <1>8, <1>9 DEF TaskStep

\* Every step keeps the owner's session as described.
LEMMA StepOneStart ==
  ASSUME ChildrenOwnSessions, TypeOK, MountInv, MadeInOrder, AgentsHere, OwnerSeen, OwnerQueued,
         OwnerFlow, OneStart, FlushThrough, WaitsOnTask, [Next]_vars
  PROVE  OneStart' /\ FlushThrough'
<1> SUFFICES ASSUME OwnerLive' PROVE OneStart' /\ FlushThrough'
  BY DEF OneStart, FlushThrough
<1>0. HostTyped /\ ReloadTyped /\ ShutTyped /\ StartTyped /\ SeenTyped
  BY TypeParts
<1>a. OwnerLive /\ setup' = setup /\ owner' = owner /\ life'[owner] = "live"
  BY LiveBefore, SetupStays DEF owner
<1>b. /\ owner \in Agents /\ owner \notin Children /\ owner # NoAgent /\ NoAgent \notin Agents
      /\ host \in {NoAgent, owner} /\ queue \subseteq {owner}
      /\ \A a \in Agents : AcceptsAgent(a) => a = owner \/ a \in adopted
      /\ \A a \in adopted : a \in Children
      /\ <<"flush", owner>> \in Caller
  BY <1>a, OwnedFacts DEF OwnerLive, OwnerSeen, OwnerQueued, Caller
\* The clause about the flush is kept by a step that keeps Started.
<1>f. ASSUME Started => Started',
             mount' \in {"ready", "shutting", "reloading", "restarting"} =>
               mount \in {"ready", "shutting", "reloading", "restarting"},
             mount' = "flushing" => mount = "flushing" /\ queue' = queue
                                    /\ waits'[<<"flush", owner>>] = waits[<<"flush", owner>>]
      PROVE  FlushThrough'
  BY <1>a, <1>f DEF FlushThrough
<1>1. CASE UNCHANGED vars
  <2>1. UNCHANGED <<claims, current, task, sess, reload, mount, queue, waits>>
    BY <1>1 DEF vars, mountVars, startVars
  <2> QED
    BY <1>a, <1>f, <2>1, QuietOneStart
<1>2. ASSUME NEW a \in Agents, AgentCreated(a) PROVE OneStart' /\ FlushThrough'
  <2>1. ~AcceptsAgent(a) /\ <<"created", a>> \in Caller
    BY <1>a, <1>2, OwnedFacts DEF AgentCreated, Caller, OwnerLive
  <2>2. StartPiSession(<<"created", a>>) /\ UNCHANGED <<mount, queue, reload>>
    BY <1>2, <2>1 DEF AgentCreated
  <2>3. /\ UNCHANGED <<claims, current, task, sess>>
        /\ waits' = [waits EXCEPT ![<<"created", a>>] = Resumed(<<"created", a>>, "done")]
    BY <2>1, <2>2 DEF StartPiSession
  <2>4. waits'[<<"flush", owner>>] = waits[<<"flush", owner>>]
    BY <1>0, <1>b, <2>3 DEF StartTyped
  <2> QED
    BY <1>a, <1>f, <2>2, <2>3, <2>4, QuietOneStart
<1>3. ASSUME NEW a \in Agents, AdoptChildAgent(a) PROVE OneStart' /\ FlushThrough'
  <2>1. UNCHANGED <<claims, current, task, sess, reload, mount, queue, waits>>
    BY <1>3 DEF AdoptChildAgent, mountVars, startVars
  <2> QED
    BY <1>a, <1>f, <2>1, QuietOneStart
<1>4. ASSUME NEW a \in Agents, ToolReturns(a) PROVE OneStart' /\ FlushThrough'
  <2>1. UNCHANGED <<claims, current, task, sess, reload, mount, queue>>
    BY <1>4 DEF ToolReturns, mountVars
  <2>2. waits'[<<"flush", owner>>] = waits[<<"flush", owner>>]
    BY <1>0, <1>4, <1>b DEF ToolReturns, StartTyped
  <2> QED
    BY <1>a, <1>f, <2>1, <2>2, QuietOneStart
<1>5. ASSUME NEW a \in Agents, AgentDisposed(a) PROVE OneStart' /\ FlushThrough'
  <2>1. a # owner
    BY <1>0, <1>5, <1>a DEF AgentDisposed, HostTyped
  <2>2. host # a
    BY <1>b, <2>1
  <2>3. UNCHANGED <<task, sess, reload, mount, queue, waits>>
    BY <1>5, <2>2 DEF AgentDisposed
  <2>4. (Own \in claims' <=> Own \in claims) /\ current'[Own] = current[Own]
    <3>1. CASE AcceptsAgent(a)
      <4>1. a \in Children
        BY <1>b, <2>1, <3>1
      <4>2. SessionOf[a] # Own
        BY <1>b, <4>1 DEF ChildrenOwnSessions, Own
      <4>3. claims' = claims \ {SessionOf[a]} /\ current' = [current EXCEPT ![SessionOf[a]] = None]
        BY <1>5, <3>1 DEF AgentDisposed
      <4> QED
        BY <1>0, <1>b, <4>2, <4>3, SessionTyped DEF StartTyped, Own
    <3>2. CASE ~AcceptsAgent(a)
      BY <1>5, <3>2 DEF AgentDisposed
    <3> QED
      BY <3>1, <3>2
  <2> QED
    BY <1>a, <1>f, <2>3, <2>4, QuietOneStart
<1>6. ASSUME NEW a \in Agents, ToolCall(a) PROVE OneStart' /\ FlushThrough'
  <2>1. /\ a = owner /\ <<"tool", a>> \in Caller /\ StartPiSession(<<"tool", a>>)
        /\ mount # "loading" /\ UNCHANGED <<mount, queue, reload>>
    BY <1>6, <1>b DEF ToolCall, CanCall, Caller, mountVars
  <2>2. ~Replaces(<<"tool", a>>)
    BY <1>a, <1>b, <2>1, OwnedStart
  <2>3. mount = "flushing" \/ Started
    BY <1>a, <2>1, TypeParts DEF FlushThrough, OwnerLive, Unloaded, MountTyped
  <2>4. Started \/ reload.count = 0
    BY <2>3 DEF MountInv
  <2>5. /\ OneStart' /\ (Started => Started')
        /\ \A d \in Caller \ {<<"tool", a>>} : waits'[d] = waits[d]
    BY <1>a, <2>1, <2>2, <2>4, OwnerStarts
  <2>6. waits'[<<"flush", owner>>] = waits[<<"flush", owner>>]
    BY <1>b, <2>5
  <2> QED
    BY <1>f, <2>1, <2>5, <2>6
<1>7. ASSUME NEW a \in Agents, ReloadBegins(a) PROVE OneStart' /\ FlushThrough'
  <2>1. mount = "ready" /\ mount' = "shutting" /\ UNCHANGED <<claims, current, task>>
        /\ reload'.count = reload.count + 1 /\ reload.count \in Nat
    BY <1>0, <1>7 DEF ReloadBegins, startVars, ReloadTyped
  <2>2. Started
    BY <1>a, <2>1 DEF FlushThrough
  <2>3. \A t \in TaskId : task[t].phase \notin InFlight
    BY <1>a, <2>2, NoneIsNoTask DEF OneStart, Started
  <2>4. Own' = Own /\ Started'
    BY <1>a, <2>1, <2>2 DEF Own, Started
  <2>5. OneStart'
    BY <2>1, <2>2, <2>3, <2>4 DEF OneStart, Started
  <2> QED
    BY <2>4, <2>5 DEF FlushThrough
<1>8. ASSUME NEW t \in TaskId, TaskStep(t) PROVE OneStart' /\ FlushThrough'
  <2>1. UNCHANGED <<mount, queue, reload, waits>>
    BY <1>8 DEF TaskStep, TaskTakesOver, TaskHandoffFails, TaskDispatches, TaskHandlersDone,
       TaskDone, TaskFails, mountVars
  <2>2. OneStart' /\ ~Started
    BY <1>8, <1>a, <2>1, OwnerTaskSteps
  <2> QED
    BY <1>f, <2>1, <2>2
<1>9. ASSUME NEW p \in closing, NEW ok \in BOOLEAN, ShutdownSettles(p, ok)
      PROVE  OneStart' /\ FlushThrough'
  <2>1. UNCHANGED <<claims, current, task, sess, reload, mount, queue, waits>>
    BY <1>9 DEF ShutdownSettles, mountVars, startVars
  <2> QED
    BY <1>a, <1>f, <2>1, QuietOneStart
<1>10. ASSUME NEW c \in Caller, CallerResumes(c) PROVE OneStart' /\ FlushThrough'
  <2>1. UNCHANGED <<claims, current, task, sess, reload, mount, queue>>
    BY <1>10 DEF CallerResumes, mountVars
  <2>2. OneStart' /\ (Started <=> Started')
    BY <1>a, <2>1, QuietOneStart
  <2>3. waits' = [waits EXCEPT ![c] = Resumed(c, task[waits[c].on].phase)]
        /\ waits[c].on \in TaskId /\ task[waits[c].on].phase \in {"done", "failed"}
    BY <1>10 DEF CallerResumes, WaitsOnTask
  <2>4. CASE c # <<"flush", owner>>
    <3>1. waits'[<<"flush", owner>>] = waits[<<"flush", owner>>]
      BY <1>0, <1>b, <2>3, <2>4 DEF StartTyped
    <3> QED
      BY <1>f, <2>1, <2>2, <3>1
  <2>5. CASE c = <<"flush", owner>> /\ task[waits[c].on].phase = "done"
    <3>1. Started
      BY <1>a, <2>3, <2>5 DEF OneStart
    <3> QED
      BY <2>2, <3>1 DEF FlushThrough
  <2>6. CASE c = <<"flush", owner>> /\ task[waits[c].on].phase = "failed"
    <3>1. waits'[<<"flush", owner>>] = Refused
      BY <1>0, <2>3, <2>6 DEF StartTyped, Resumed
    <3> QED
      BY <1>a, <2>1, <2>2, <3>1 DEF FlushThrough
  <2> QED
    BY <2>3, <2>4, <2>5, <2>6
<1>11. CASE FlushStep
  <2>1. CASE FlushBegins
    <3>1. UNCHANGED <<claims, current, task, sess, reload>> /\ mount' = "flushing"
          /\ owner \in queue'
      BY <1>b, <2>1 DEF FlushBegins, startVars
    <3>2. OneStart'
      BY <1>a, <3>1, QuietOneStart
    <3> QED
      BY <1>a, <3>1, <3>2 DEF FlushThrough
  <2>2. CASE FlushEnds
    <3>1. UNCHANGED <<claims, current, task, sess, reload>> /\ mount = "flushing"
          /\ mount' \in {"failed", "ready"}
      BY <2>2 DEF FlushEnds, startVars
    <3>2. OneStart' /\ (Started <=> Started')
      BY <1>a, <3>1, QuietOneStart
    <3>3. CASE mount' = "ready"
      <4>1. Flushing = {} /\ ~FlushRefused /\ queue = {}
        BY <2>2, <3>3 DEF FlushEnds
      <4>2. waits[<<"flush", owner>>].state # "waiting" /\ waits[<<"flush", owner>>] # Refused
        BY <1>b, <4>1 DEF Flushing, FlushRefused
      <4>3. Started
        BY <1>a, <3>1, <4>1, <4>2 DEF FlushThrough
      <4> QED
        BY <3>2, <4>3 DEF FlushThrough
    <3>4. CASE mount' = "failed"
      BY <3>4 DEF OwnerLive, Unloaded
    <3> QED
      BY <3>1, <3>3, <3>4
  <2>3. ASSUME NEW a \in Agents, FlushNext(a) PROVE OneStart' /\ FlushThrough'
    <3>1. /\ a = owner /\ <<"flush", a>> \in Caller /\ StartPiSession(<<"flush", a>>)
          /\ mount = "flushing" /\ UNCHANGED <<mount, reload>>
      BY <2>3, <1>b DEF FlushNext, Caller
    <3>2. ~Replaces(<<"flush", a>>)
      BY <1>a, <1>b, <3>1, OwnedStart
    <3>3. reload.count = 0
      BY <3>1 DEF MountInv
    <3>4. /\ OneStart'
          /\ waits'[<<"flush", a>>].state = "waiting" \/ Started'
      BY <1>a, <3>1, <3>2, <3>3, OwnerStarts
    <3> QED
      BY <1>a, <3>1, <3>4 DEF FlushThrough
  <2> QED
    BY <1>11, <2>1, <2>2, <2>3 DEF FlushStep
<1>12. CASE ReloadStep
  <2>1. /\ UNCHANGED <<claims, current, task>>
        /\ mount \in {"shutting", "reloading", "restarting"}
        /\ mount' \in {"ready", "shutting", "reloading", "restarting"}
    BY <1>12 DEF ReloadStep, ReloadClears, ReloadFails, ReloadRestarts, RestartEnds,
       RestartDispatches, RestartHandlersDone, startVars
  <2>2. reload.count # 0 /\ reload'.count = reload.count
    BY <1>0, <1>12, <2>1 DEF MountInv, ReloadStep, ReloadClears, ReloadFails, ReloadRestarts,
       RestartEnds, RestartDispatches, RestartHandlersDone, ReloadTyped
  <2>3. Started
    BY <1>a, <2>1 DEF FlushThrough
  <2>4. \A t \in TaskId : task[t].phase \notin InFlight
    BY <1>b, <2>1 DEF OwnerFlow
  <2>5. Own' = Own /\ Started'
    BY <1>a, <2>1, <2>3 DEF Own, Started
  <2>6. OneStart'
    BY <2>1, <2>2, <2>3, <2>4, <2>5 DEF OneStart, Started
  <2> QED
    BY <2>5, <2>6 DEF FlushThrough
<1>13. ~TeardownBegins /\ ~TeardownStep
  BY <1>a DEF TeardownBegins, TeardownStep, TeardownDrains, TeardownFails, TeardownEnds, OwnerLive,
     Unloaded
<1>14. CASE \E a \in Agents :
              \/ AgentCreated(a) \/ AdoptChildAgent(a) \/ AgentDisposed(a)
              \/ ToolCall(a) \/ ToolReturns(a) \/ ReloadBegins(a)
  BY <1>14, <1>2, <1>3, <1>4, <1>5, <1>6, <1>7
<1> QED
  BY <1>1, <1>8, <1>9, <1>10, <1>11, <1>12, <1>13, <1>14 DEF Next

\* What a state of an owned mount satisfies, children's sessions being their own.
OwnedInv ==
  /\ TypeOK /\ MountInv /\ MadeInOrder /\ WaitsOnTask
  /\ AgentsHere /\ StartsHere /\ OwnerSeen /\ OwnerQueued
  /\ OwnerFlow /\ OneStart /\ FlushThrough

\* A fresh instance satisfies it.
LEMMA InitOwned == Init => OwnedInv
<1> SUFFICES ASSUME Init PROVE OwnedInv
  OBVIOUS
<1>1. TypeOK /\ MountInv
  BY InitTyped, InitMount
<1>2. owner # NoAgent => owner \in Agents
  BY <1>1, TypeParts, SetupTyped
<1>3. Own \in Sessions \/ owner = NoAgent
  BY <1>2, SessionTyped DEF Own
<1>4. AgentsHere /\ StartsHere /\ OwnerSeen /\ OwnerQueued /\ OwnerFlow
  BY DEF Init, AgentsHere, StartsHere, OwnerSeen, OwnerQueued, OwnerFlow, Open, NoReload, InFlight
<1>5. OneStart /\ FlushThrough
  BY <1>3 DEF Init, OneStart, FlushThrough, OwnerLive, InFlight, Started
<1>6. MadeInOrder /\ WaitsOnTask
  BY DEF Init, MadeInOrder, WaitsOnTask, Idle
<1> QED
  BY <1>1, <1>4, <1>5, <1>6 DEF OwnedInv

\* Every step keeps it.
LEMMA StepOwned == ChildrenOwnSessions /\ OwnedInv /\ [Next]_vars => OwnedInv'
<1> SUFFICES ASSUME ChildrenOwnSessions, OwnedInv, [Next]_vars PROVE OwnedInv'
  OBVIOUS
<1> USE DEF OwnedInv
<1>1. TypeOK' /\ MountInv' /\ MadeInOrder' /\ WaitsOnTask'
  BY StepType, StepMount, StepInOrder, StepWaitsOnTask DEF MountInv
<1>2. OwnerSeen' /\ OwnerQueued' /\ OwnerFlow' /\ OneStart' /\ FlushThrough'
  BY StepOwner, StepFlow, StepOneStart
<1>3. AgentsHere' /\ StartsHere'
  BY StepHere
<1> QED
  BY <1>1, <1>2, <1>3

\* In an owned mount session_start never goes out into cleared handlers, where
\* it would be lost and then suppressed (runtime.ts:1999-2006): for any agents,
\* calls and reloads, as long as the sessions of children are their own.
THEOREM StartsAreHeard ==
  ASSUME ChildrenOwnSessions
  PROVE  Spec => StartReachesHandlers
<1>1. ASSUME OwnedInv, [Next]_vars
      PROVE  [\A a \in Agents : (Dispatches(a) /\ owner # NoAgent) => ready]_vars
  <2> SUFFICES ASSUME NEW a \in Agents, Dispatches(a), owner # NoAgent, ~ready PROVE FALSE
    OBVIOUS
  <2>1. mount \in {"loading", "reloading"}
    BY <1>1 DEF OwnedInv, MountInv
  <2>2. \A t \in TaskId : task[t].phase # "exports"
    BY <1>1, <2>1 DEF OwnedInv, OwnerFlow, InFlight
  <2>3. \A n \in 1 .. MaxTasks : <<a, n>> \in TaskId
    BY DEF TaskId
  <2> QED
    BY <2>1, <2>2, <2>3 DEF Dispatches, TaskDispatches, RestartDispatches
<1> QED
  BY <1>1, InitOwned, StepOwned, PTL DEF Spec, StartReachesHandlers

-----------------------------------------------------------------------------
(* A legacy mount on a serial host: nothing begins while a start is under  *)
(* way, so there is one start task in flight at most, and a hand-over finds *)
(* the session of the agent before closed and its claim released.           *)

Serial == owner = NoAgent /\ ~setup.overlap

Torn == {"closing", "draining", "closed", "broken"}

OneAtATime == Serial =>
  /\ \A t, u \in TaskId : task[t].phase \in InFlight /\ task[u].phase \in InFlight => t = u
  /\ \A t \in TaskId, c \in Caller :
       task[t].phase \in InFlight /\ waits[c].state = "waiting" => waits[c].on = t
  /\ mount \in Torn => NothingUnderWay

\* A step after which fewer tasks are in flight and fewer callers wait.
LEMMA FewerUnderWay ==
  ASSUME OneAtATime, setup' = setup,
         \A t \in TaskId : task'[t].phase \in InFlight => task[t].phase \in InFlight,
         \A c \in Caller : waits'[c].state = "waiting" => waits'[c] = waits[c],
         mount' \in Torn => mount \in Torn \/ NothingUnderWay
  PROVE  OneAtATime'
<1> SUFFICES ASSUME Serial PROVE OneAtATime'
  BY DEF OneAtATime, Serial, owner
<1>1. NothingUnderWay => NothingUnderWay'
  BY DEF NothingUnderWay
<1> QED
  BY <1>1 DEF OneAtATime

\* startPiSession begins a task only when there is none.
LEMMA StartOneAtATime ==
  ASSUME HostTyped, StartTyped, MadeInOrder, OneAtATime, setup' = setup, mount \notin Torn,
         mount' = mount, NEW c \in Caller, StartPiSession(c)
  PROVE  OneAtATime'
<1> SUFFICES ASSUME Serial PROVE OneAtATime'
  BY DEF OneAtATime, Serial, owner
<1>1. NothingUnderWay
  BY StartWays DEF MayHappen, Serial
<1>2. \A ph : Resumed(c, ph).state # "waiting"
  BY DEF Resumed, Idle, Through, Refused
<1>3. CASE Passes(c)
  <2>1. \A d \in Caller : waits'[d].state # "waiting"
    BY <1>1, <1>2, <1>3 DEF Passes, StartTyped, NothingUnderWay
  <2>2. task' = task
    BY <1>3 DEF Passes, besidesWaits
  <2> QED
    BY <2>1, <2>2, FewerUnderWay
<1>4. CASE Joins(c)
  <2>1. task' = task
    BY <1>4 DEF Joins, besidesWaits
  <2>2. \A t \in TaskId : task'[t].phase \notin InFlight
    BY <1>1, <2>1 DEF NothingUnderWay
  <2> QED
    BY <2>2 DEF OneAtATime
<1>5. CASE StartsAgain(c)
  <2>1. TaskOf(c) \in TaskId
    BY <1>5, TaskOfTyped DEF StartsAgain
  <2>2. \A u \in TaskId : task'[u].phase = IF u = TaskOf(c) THEN "done" ELSE task[u].phase
    BY <1>5, <2>1, PhaseTyped DEF StartsAgain, StartTyped, Phase
  <2>3. \A t \in TaskId : task'[t].phase \notin InFlight
    BY <1>1, <2>2 DEF NothingUnderWay, InFlight
  <2> QED
    BY <2>3 DEF OneAtATime
<1>6. CASE Replaces(c) \/ StartsFresh(c)
  <2>1. TaskOf(c) \in TaskId
    BY <1>6, TaskOfTyped DEF Replaces, StartsFresh
  <2>2. \A u \in TaskId : u # TaskOf(c) => task'[u].phase = task[u].phase
    BY <1>6, <2>1 DEF Replaces, StartsFresh, StartTyped
  <2>3. waits' = [waits EXCEPT ![c] = [state |-> "waiting", on |-> TaskOf(c)]]
    BY <1>6 DEF Replaces, StartsFresh
  <2>4. \A d \in Caller : waits'[d].state = "waiting" => waits'[d].on = TaskOf(c)
    BY <1>1, <2>3 DEF StartTyped, NothingUnderWay
  <2>5. \A t \in TaskId : task'[t].phase \in InFlight => t = TaskOf(c)
    BY <1>1, <2>2 DEF NothingUnderWay
  <2> QED
    BY <2>4, <2>5 DEF OneAtATime
<1> QED
  BY <1>3, <1>4, <1>5, <1>6, StartWays

\* Every step on a serial host keeps it to one start.
LEMMA StepOneAtATime ==
  ASSUME TypeOK, MadeInOrder, OneAtATime, [Next]_vars
  PROVE  OneAtATime'
<1> SUFFICES ASSUME Serial PROVE OneAtATime'
  BY SetupStays DEF OneAtATime, Serial, owner
<1>0. HostTyped /\ StartTyped /\ setup' = setup
  BY TypeParts, SetupStays
<1>q. ASSUME task' = task, waits' = waits, mount' \in Torn => mount \in Torn \/ NothingUnderWay
      PROVE  OneAtATime'
  BY <1>0, <1>q, FewerUnderWay
<1>1. CASE UNCHANGED vars
  BY <1>1, <1>q DEF vars, mountVars, startVars
<1>2. ASSUME NEW a \in Agents, AgentCreated(a) PROVE OneAtATime'
  <2>1. mount \notin Torn /\ mount' = mount /\ <<"created", a>> \in Caller
    BY <1>2 DEF AgentCreated, Unloaded, Torn, Caller
  <2>2. CASE StartPiSession(<<"created", a>>)
    BY <1>0, <2>1, <2>2, StartOneAtATime
  <2>3. CASE UNCHANGED startVars
    BY <1>q, <2>1, <2>3 DEF startVars
  <2> QED
    BY <1>2, <2>2, <2>3 DEF AgentCreated
<1>3. ASSUME NEW a \in Agents, AdoptChildAgent(a) \/ AgentDisposed(a) \/ ReloadBegins(a)
      PROVE  OneAtATime'
  BY <1>3, <1>q DEF AdoptChildAgent, AgentDisposed, ReloadBegins, mountVars, startVars, Torn
<1>4. ASSUME NEW a \in Agents, ToolReturns(a) PROVE OneAtATime'
  <2>1. waits' = [waits EXCEPT ![<<"tool", a>>] = Idle] /\ UNCHANGED <<task, mount>>
    BY <1>4 DEF ToolReturns, mountVars
  <2>2. \A c \in Caller : waits'[c].state = "waiting" => waits'[c] = waits[c]
    BY <1>0, <2>1 DEF StartTyped, Idle
  <2> QED
    BY <1>0, <2>1, <2>2, FewerUnderWay
<1>5. ASSUME NEW a \in Agents, ToolCall(a) PROVE OneAtATime'
  <2>1. mount \notin Torn /\ mount' = mount /\ <<"tool", a>> \in Caller
    BY <1>5 DEF ToolCall, CanCall, Unloaded, Torn, Caller, mountVars
  <2> QED
    BY <1>0, <1>5, <2>1, StartOneAtATime DEF ToolCall
<1>6. ASSUME NEW t \in TaskId, TaskStep(t) PROVE OneAtATime'
  <2>1. task[t].phase \in InFlight /\ \E ph \in Phase : task' = [task EXCEPT ![t].phase = ph]
    BY <1>0, <1>6, TaskMoves
  <2>2. \A u \in TaskId : u # t => task'[u].phase = task[u].phase
    BY <1>0, <2>1, PhaseTyped DEF StartTyped
  <2>3. UNCHANGED <<waits, mount>>
    BY <1>6 DEF TaskStep, TaskTakesOver, TaskHandoffFails, TaskDispatches, TaskHandlersDone,
       TaskDone, TaskFails, mountVars
  <2> QED
    BY <1>0, <2>1, <2>2, <2>3, FewerUnderWay
<1>7. ASSUME NEW p \in closing, NEW ok \in BOOLEAN, ShutdownSettles(p, ok) PROVE OneAtATime'
  BY <1>7, <1>q DEF ShutdownSettles, mountVars, startVars
<1>8. ASSUME NEW c \in Caller, CallerResumes(c) PROVE OneAtATime'
  <2>1. waits' = [waits EXCEPT ![c] = Resumed(c, task[waits[c].on].phase)] /\ UNCHANGED <<task, mount>>
    BY <1>8 DEF CallerResumes, mountVars
  <2>2. \A ph : Resumed(c, ph).state # "waiting"
    BY DEF Resumed, Idle, Through, Refused
  <2>3. \A d \in Caller : waits'[d].state = "waiting" => waits'[d] = waits[d]
    BY <1>0, <2>1, <2>2 DEF StartTyped
  <2> QED
    BY <1>0, <2>1, <2>3, FewerUnderWay
<1>9. CASE FlushStep
  <2>1. CASE FlushBegins \/ FlushEnds
    BY <1>q, <2>1 DEF FlushBegins, FlushEnds, startVars, Torn
  <2>2. ASSUME NEW a \in Agents, FlushNext(a) PROVE OneAtATime'
    <3>1. mount \notin Torn /\ mount' = mount /\ <<"flush", a>> \in Caller
      BY <2>2 DEF FlushNext, Torn, Caller
    <3> QED
      BY <1>0, <2>2, <3>1, StartOneAtATime DEF FlushNext
  <2> QED
    BY <1>9, <2>1, <2>2 DEF FlushStep
<1>10. CASE ReloadStep
  BY <1>10, <1>q DEF ReloadStep, ReloadClears, ReloadFails, ReloadRestarts, RestartEnds,
     RestartDispatches, RestartHandlersDone, startVars, Torn
<1>11. CASE TeardownBegins
  BY <1>11, <1>q DEF TeardownBegins, MayHappen, Serial, startVars
<1>12. CASE TeardownStep
  BY <1>12, <1>q DEF TeardownStep, TeardownDrains, TeardownFails, TeardownEnds, startVars, Torn
<1>13. CASE \E a \in Agents :
              \/ AgentCreated(a) \/ AdoptChildAgent(a) \/ AgentDisposed(a)
              \/ ToolCall(a) \/ ToolReturns(a) \/ ReloadBegins(a)
  BY <1>13, <1>2, <1>3, <1>4, <1>5
<1> QED
  BY <1>1, <1>6, <1>7, <1>8, <1>9, <1>10, <1>11, <1>12, <1>13 DEF Next

\* The mount still serves its agents and has never been reloaded.
SerialLive == Serial /\ mount \notin Torn /\ reload.count = 0

\* The agent has the host session and is not shut down.
Hosted(a) == host = a /\ a \notin shut /\ shutTask[a] = 0

\* Only the host agent's session is open or being opened.
HostOpen ==
  /\ \A b \in Agents : Open(b) => Hosted(b)
  /\ \A t \in TaskId : task[t].phase \in {"exports", "starting", "resources"} => Hosted(t[1])
  /\ \A t \in TaskId : task[t].phase = "handoff" => claims = {} /\ \A a \in Agents : ~Open(a)

\* What the extension has seen of a start.
SeenSoFar ==
  /\ \A t \in TaskId : /\ task[t].phase = "starting" => sess[t[1]] = "starting"
                       /\ task[t].phase = "resources" => sess[t[1]] = "up"
  /\ claims # {} /\ (\A t \in TaskId : task[t].phase \notin InFlight) => sess[host] = "up"

\* Only the host agent's session is claimed, and a start is current while in flight.
HostClaims ==
  /\ \A s \in claims : host # NoAgent /\ s = SessionOf[host]
  /\ \A s \in Sessions : current[s] # None =>
       task[current[s]].phase \in InFlight /\ s = SessionOf[current[s][1]]

\* A caller waits for a task of its own agent.
OwnWaits ==
  \A c \in Caller : waits[c].state = "waiting" =>
    /\ waits[c].on[1] = c[2]
    /\ task[waits[c].on].phase = "done" => sess[c[2]] = "up"

\* The only shutdown of a live agent that has not settled is the one a start awaits.
AwaitedClosing ==
  \A p \in closing : life[p[1]] = "live" =>
    \E t \in TaskId : task[t].phase = "handoff" /\ task[t].after = p

SerialState == HostOpen /\ SeenSoFar /\ HostClaims /\ OwnWaits /\ AwaitedClosing

\* When nothing is under way.
LEMMA SerialQuiet ==
  ASSUME StartTyped, SerialState, NothingUnderWay
  PROVE  /\ \A t \in TaskId : task[t].phase \notin InFlight
         /\ \A c \in Caller : waits[c].state # "waiting"
         /\ \A s \in Sessions : current[s] = None
         /\ \A p \in closing : life[p[1]] # "live"
         /\ claims # {} => sess[host] = "up"
<1>1. \A t \in TaskId : task[t].phase \notin InFlight
  BY DEF NothingUnderWay
<1>2. \A s \in Sessions : current[s] = None
  BY <1>1 DEF SerialState, HostClaims, StartTyped
<1>3. \A p \in closing : life[p[1]] # "live"
  BY <1>1 DEF SerialState, AwaitedClosing, InFlight
<1> QED
  BY <1>1, <1>2, <1>3 DEF SerialState, SeenSoFar, NothingUnderWay

\* A step that leaves sessions, claims and tasks alone.
LEMMA SerialUnchanged ==
  ASSUME SerialState, UNCHANGED <<host, shut, shutTask, claims, current, task, sess>>,
         \A c \in Caller : waits'[c].state = "waiting" => waits'[c] = waits[c],
         \A p \in closing' : p \in closing /\ (life'[p[1]] = "live" => life[p[1]] = "live")
  PROVE  SerialState'
<1>1. HostOpen'
  BY DEF SerialState, HostOpen, Hosted, Open
<1>2. SeenSoFar' /\ HostClaims'
  BY DEF SerialState, SeenSoFar, HostClaims
<1>3. OwnWaits' /\ AwaitedClosing'
  BY DEF SerialState, OwnWaits, AwaitedClosing
<1> QED
  BY <1>1, <1>2, <1>3 DEF SerialState

\* startPiSession on a serial host.
LEMMA StartSerial ==
  ASSUME TypeOK, MadeInOrder, SerialState, NothingUnderWay,
         NEW c \in Caller, StartPiSession(c),
         \A p \in closing : life'[p[1]] = "live" => life[p[1]] = "live"
  PROVE  SerialState'
<1>0. HostTyped /\ ShutTyped /\ StartTyped /\ SeenTyped /\ NoAgent \notin Agents
  BY TypeParts, NoAgentAssumption
<1>1. c[2] \in Agents /\ SessionOf[c[2]] \in Sessions
  BY SessionTyped DEF Caller
<1>q. /\ \A t \in TaskId : task[t].phase \notin InFlight
      /\ \A d \in Caller : waits[d].state # "waiting"
      /\ \A s \in Sessions : current[s] = None
      /\ \A p \in closing : life[p[1]] # "live"
      /\ claims # {} => sess[host] = "up"
  BY <1>0, SerialQuiet
<1>b. /\ \A b \in Agents : Open(b) => host = b /\ b \notin shut /\ shutTask[b] = 0
      /\ \A s \in claims : host # NoAgent /\ s = SessionOf[host]
  BY DEF SerialState, HostOpen, HostClaims, Hosted
<1>r. \A ph : Resumed(c, ph).state # "waiting"
  BY DEF Resumed, Idle, Through, Refused
<1>2. CASE Passes(c)
  <2>1. \A d \in Caller : waits'[d].state # "waiting"
    BY <1>0, <1>2, <1>q, <1>r DEF Passes, StartTyped
  <2>2. UNCHANGED <<host, shut, shutTask, closing, claims, current, task, sess>>
    BY <1>2 DEF Passes, besidesWaits, shutVars
  <2> QED
    BY <2>1, <2>2, SerialUnchanged
<1>3. ~Joins(c)
  BY <1>1, <1>q DEF Joins
<1>4. CASE Replaces(c)
  <2>1. /\ NewTask(c) /\ host \in Agents /\ host # c[2] /\ host' = host
        /\ task' = [task EXCEPT ![TaskOf(c)] = [phase |-> "handoff", after |-> ShutdownPromise(host)]]
        /\ claims' = claims \ {SessionOf[host]}
        /\ current' = [current EXCEPT ![SessionOf[host]] = None, ![SessionOf[c[2]]] = TaskOf(c)]
        /\ ShutdownPiSession(host)
        /\ waits' = [waits EXCEPT ![c] = [state |-> "waiting", on |-> TaskOf(c)]]
    BY <1>0, <1>4 DEF Replaces, SeenTyped
  <2>2. TaskOf(c) \in TaskId /\ TaskOf(c)[1] = c[2]
    BY <1>0, <2>1, TaskOfTyped
  <2>3. \A u \in TaskId : task'[u] = IF u = TaskOf(c)
                                      THEN [phase |-> "handoff", after |-> ShutdownPromise(host)]
                                      ELSE task[u]
    BY <1>0, <2>1, <2>2 DEF StartTyped
  <2>4. claims' = {}
    BY <1>b, <2>1
  <2>5. \A b \in Agents : ~Open(b)'
    <3>1. \A b \in Agents : b # host => sess'[b] = sess[b]
      BY <1>0, <2>1, ShutdownCloses
    <3>2. \A b \in Agents : b # host => ~Open(b)
      BY <1>b
    <3>3. ~Open(host)'
      <4>1. CASE shutTask[host] # 0 \/ host \in shut
        BY <1>b, <2>1, <4>1 DEF ShutdownPiSession, Open
      <4>2. CASE ~(shutTask[host] # 0 \/ host \in shut)
        BY <1>0, <2>1, <4>2 DEF ShutdownPiSession, SeenTyped, Open
      <4> QED
        BY <4>1, <4>2
    <3> QED
      BY <2>1, <3>1, <3>2, <3>3 DEF Open
  <2>6. \A u \in TaskId : task'[u].phase \notin {"exports", "starting", "resources"}
    BY <1>q, <2>3 DEF InFlight
  <2>7. HostOpen'
    BY <2>4, <2>5, <2>6 DEF HostOpen
  <2>8. SeenSoFar'
    BY <2>4, <2>6 DEF SeenSoFar
  <2>9. \A s \in Sessions : current'[s] = IF s = SessionOf[c[2]] THEN TaskOf(c) ELSE None
    BY <1>0, <1>1, <1>q, <2>1 DEF StartTyped
  <2>10. HostClaims'
    BY <2>2, <2>3, <2>4, <2>9 DEF HostClaims, InFlight
  <2>11. \A d \in Caller : waits'[d].state = "waiting" => d = c /\ waits'[d].on = TaskOf(c)
    BY <1>0, <1>q, <2>1 DEF StartTyped
  <2>12. OwnWaits'
    BY <2>2, <2>3, <2>11 DEF OwnWaits
  <2>13. ASSUME NEW p \in closing', life'[p[1]] = "live"
         PROVE  p = ShutdownPromise(host)
    <3>1. p \notin closing
      BY <1>q, <2>13
    <3>2. p = <<host, shuts[host] + 1>> /\ shutTask[host] = 0 /\ host \notin shut
      BY <2>1, <2>13, <3>1 DEF ShutdownPiSession, shutVars
    <3> QED
      BY <3>2 DEF ShutdownPromise
  <2>14. AwaitedClosing'
    BY <2>2, <2>3, <2>13 DEF AwaitedClosing
  <2> QED
    BY <2>7, <2>8, <2>10, <2>12, <2>14 DEF SerialState
<1>5. CASE StartsAgain(c)
  <2>1. /\ NewTask(c) /\ host' = c[2] /\ shut' = shut \ {c[2]}
        /\ shutTask' = [shutTask EXCEPT ![c[2]] = 0]
        /\ SessionOf[c[2]] \in claims /\ host \in {NoAgent, c[2]}
        /\ task' = [task EXCEPT ![TaskOf(c)].phase = "done"]
        /\ waits' = [waits EXCEPT ![c] = Resumed(c, "done")]
        /\ UNCHANGED <<claims, current, closing, sess>>
    BY <1>5 DEF StartsAgain, TakeHostSession
  <2>2. host = c[2]
    BY <1>b, <2>1
  <2>3. TaskOf(c) \in TaskId
    BY <1>0, <2>1, TaskOfTyped
  <2>4. \A u \in TaskId : task'[u].phase = IF u = TaskOf(c) THEN "done" ELSE task[u].phase
    BY <1>0, <2>1, <2>3, PhaseTyped DEF StartTyped, Phase
  <2>5. \A t \in TaskId : task'[t].phase \notin InFlight
    BY <1>q, <2>4 DEF InFlight
  <2>6. HostOpen'
    <3>1. \A b \in Agents : Open(b)' => Hosted(b)'
      BY <1>0, <1>b, <2>1, <2>2 DEF Open, Hosted, ShutTyped
    <3> QED
      BY <2>5, <3>1 DEF HostOpen, InFlight
  <2>7. SeenSoFar'
    BY <1>q, <2>1, <2>2, <2>5 DEF SeenSoFar, InFlight
  <2>8. HostClaims'
    BY <1>b, <1>q, <2>1, <2>2 DEF HostClaims
  <2>9. OwnWaits'
    BY <1>0, <1>q, <1>r, <2>1 DEF OwnWaits, StartTyped
  <2>10. AwaitedClosing'
    BY <1>q, <2>1 DEF AwaitedClosing
  <2> QED
    BY <2>6, <2>7, <2>8, <2>9, <2>10 DEF SerialState
<1>6. CASE StartsFresh(c)
  <2>1. /\ NewTask(c) /\ host' = c[2] /\ shut' = shut \ {c[2]}
        /\ shutTask' = [shutTask EXCEPT ![c[2]] = 0]
        /\ SessionOf[c[2]] \notin claims /\ host \in {NoAgent, c[2]}
        /\ task' = [task EXCEPT ![TaskOf(c)].phase = "exports"]
        /\ claims' = claims \cup {SessionOf[c[2]]}
        /\ current' = [current EXCEPT ![SessionOf[c[2]]] = TaskOf(c)]
        /\ waits' = [waits EXCEPT ![c] = [state |-> "waiting", on |-> TaskOf(c)]]
        /\ UNCHANGED <<closing, sess>>
    BY <1>6 DEF StartsFresh, TakeHostSession
  <2>2. claims' = {SessionOf[c[2]]}
    BY <1>b, <2>1
  <2>3. TaskOf(c) \in TaskId /\ TaskOf(c)[1] = c[2]
    BY <1>0, <2>1, TaskOfTyped
  <2>4. \A u \in TaskId : task'[u].phase = IF u = TaskOf(c) THEN "exports" ELSE task[u].phase
    BY <1>0, <2>1, <2>3, PhaseTyped DEF StartTyped, Phase
  <2>5. \A t \in TaskId : task'[t].phase \in InFlight => t = TaskOf(c) /\ task'[t].phase = "exports"
    BY <1>q, <2>4
  <2>6. Hosted(c[2])'
    BY <1>0, <1>1, <2>1 DEF Hosted, ShutTyped
  <2>7. HostOpen'
    <3>1. \A b \in Agents : Open(b)' => b = c[2]
      BY <1>0, <1>b, <2>1 DEF Open
    <3>2. \A b \in Agents : Open(b)' => Hosted(b)'
      BY <2>6, <3>1
    <3>3. \A t \in TaskId : task'[t].phase \in {"exports", "starting", "resources"} => t[1] = c[2]
      BY <2>3, <2>5 DEF InFlight
    <3>4. \A t \in TaskId : task'[t].phase # "handoff"
      BY <2>5 DEF InFlight
    <3> QED
      BY <2>6, <3>2, <3>3, <3>4 DEF HostOpen
  <2>8. SeenSoFar'
    BY <2>3, <2>4, <2>5 DEF SeenSoFar, InFlight
  <2>9. \A s \in Sessions : current'[s] = IF s = SessionOf[c[2]] THEN TaskOf(c) ELSE None
    BY <1>0, <1>1, <1>q, <2>1 DEF StartTyped
  <2>10. HostClaims'
    BY <1>0, <1>1, <2>1, <2>2, <2>3, <2>4, <2>9 DEF HostClaims, InFlight
  <2>11. \A d \in Caller : waits'[d].state = "waiting" => d = c /\ waits'[d].on = TaskOf(c)
    BY <1>0, <1>q, <2>1 DEF StartTyped
  <2>12. OwnWaits'
    BY <2>3, <2>4, <2>11 DEF OwnWaits
  <2>13. AwaitedClosing'
    BY <1>q, <2>1 DEF AwaitedClosing
  <2> QED
    BY <2>7, <2>8, <2>10, <2>12, <2>13 DEF SerialState
<1> QED
  BY <1>2, <1>3, <1>4, <1>5, <1>6, StartWays

\* The one start in flight moves on.
LEMMA TaskSerial ==
  ASSUME TypeOK, Serial, OneAtATime, SerialState, life' = life,
         NEW t \in TaskId, TaskStep(t)
  PROVE  SerialState'
<1>0. HostTyped /\ ShutTyped /\ StartTyped /\ SeenTyped /\ NoAgent \notin Agents
  BY TypeParts, NoAgentAssumption
<1>1. /\ t[1] \in Agents /\ SessionOf[t[1]] \in Sessions
      /\ task[t].phase \in InFlight
      /\ \A u \in TaskId : u # t => task[u].phase \notin InFlight
      /\ \A c \in Caller : waits[c].state = "waiting" => waits[c].on = t
      /\ waits' = waits /\ closing' = closing
  <2>1. task[t].phase \in InFlight
    BY <1>0, TaskMoves
  <2>2. waits' = waits /\ closing' = closing
    BY DEF TaskStep, TaskTakesOver, TaskHandoffFails, TaskDispatches, TaskHandlersDone,
       TaskDone, TaskFails, shutVars
  <2> QED
    BY <2>1, <2>2, SessionTyped DEF OneAtATime, TaskId
<1>2. /\ \A c \in Caller : waits[c].state = "waiting" => c[2] = t[1]
      /\ \A s \in Sessions : current[s] # None => current[s] = t /\ s = SessionOf[t[1]]
  <2>1. \A c \in Caller : waits[c].state = "waiting" => waits[c].on = t /\ waits[c].on[1] = c[2]
    BY <1>1 DEF SerialState, OwnWaits
  <2>2. ASSUME NEW s \in Sessions, current[s] # None
        PROVE  current[s] = t /\ s = SessionOf[t[1]]
    <3>1. current[s] \in TaskId /\ task[current[s]].phase \in InFlight
          /\ s = SessionOf[current[s][1]]
      BY <1>0, <2>2 DEF SerialState, HostClaims, StartTyped
    <3> QED
      BY <1>1, <3>1
  <2> QED
    BY <2>1, <2>2
\* What follows once the phase t moves to is known.
<1>p. ASSUME NEW ph \in Phase, task' = [task EXCEPT ![t].phase = ph]
      PROVE  /\ \A u \in TaskId : task'[u].phase = IF u = t THEN ph ELSE task[u].phase
             /\ \A u \in TaskId : task'[u].after = task[u].after
  BY <1>0, <1>p, PhaseTyped DEF StartTyped
<1>w. ASSUME NEW ph \in Phase, task' = [task EXCEPT ![t].phase = ph],
             ph = "done" => sess'[t[1]] = "up"
      PROVE  OwnWaits'
  <2>1. task'[t].phase = ph
    BY <1>p, <1>w
  <2>2. \A c \in Caller : waits'[c].state = "waiting" => waits'[c].on = t /\ c[2] = t[1]
    BY <1>1, <1>2
  <2> QED
    BY <1>w, <2>1, <2>2 DEF OwnWaits
<1>c. ASSUME NEW ph \in Phase, task' = [task EXCEPT ![t].phase = ph],
             \A p \in closing : life[p[1]] = "live" => task[t].phase # "handoff" \/ p # task[t].after
      PROVE  AwaitedClosing'
  <2> SUFFICES ASSUME NEW p \in closing, life[p[1]] = "live" PROVE FALSE
    BY <1>1 DEF AwaitedClosing
  <2>1. PICK u \in TaskId : task[u].phase = "handoff" /\ task[u].after = p
    BY DEF SerialState, AwaitedClosing
  <2>2. u = t
    BY <1>1, <2>1 DEF InFlight
  <2> QED
    BY <1>c, <2>1, <2>2
<1>3. CASE TaskTakesOver(t)
  <2>1. /\ task[t].phase = "handoff" /\ task[t].after \notin closing
        /\ host' = t[1] /\ shut' = shut \ {t[1]} /\ shutTask' = [shutTask EXCEPT ![t[1]] = 0]
        /\ ClaimFor(t) /\ sess' = sess
    BY <1>3 DEF TaskTakesOver, Settled, TakeHostSession
  <2>2. claims = {} /\ \A a \in Agents : ~Open(a)
    BY <2>1 DEF SerialState, HostOpen
  <2>3. /\ task' = [task EXCEPT ![t].phase = "exports"]
        /\ claims' = {SessionOf[t[1]]} /\ current' = current
    BY <2>1, <2>2 DEF ClaimFor
  <2>4. \A u \in TaskId : task'[u].phase = IF u = t THEN "exports" ELSE task[u].phase
    BY <1>p, <2>3 DEF Phase
  <2>5. Hosted(t[1])'
    BY <1>0, <1>1, <2>1 DEF Hosted, ShutTyped
  <2>6. HostOpen'
    <3>1. \A a \in Agents : ~Open(a)'
      BY <2>1, <2>2 DEF Open
    <3>2. \A u \in TaskId : task'[u].phase \in InFlight => u = t /\ task'[u].phase = "exports"
      BY <1>1, <2>4
    <3> QED
      BY <2>5, <3>1, <3>2 DEF HostOpen, InFlight
  <2>7. SeenSoFar'
    BY <1>1, <2>4 DEF SeenSoFar, InFlight
  <2>8. HostClaims'
    BY <1>0, <1>1, <1>2, <2>1, <2>3, <2>4 DEF HostClaims, InFlight
  <2>9. OwnWaits'
    BY <1>w, <2>3 DEF Phase
  <2>10. AwaitedClosing'
    BY <1>c, <2>1, <2>3 DEF Phase
  <2> QED
    BY <2>6, <2>7, <2>8, <2>9, <2>10 DEF SerialState
<1>4. CASE TaskHandoffFails(t)
  <2>1. /\ task[t].phase = "handoff" /\ task[t].after \notin closing
        /\ task' = [task EXCEPT ![t].phase = "failed"]
        /\ current' = [current EXCEPT ![SessionOf[t[1]]] = IF @ = t THEN None ELSE @]
        /\ UNCHANGED <<host, shut, shutTask, claims, sess>>
    BY <1>4 DEF TaskHandoffFails, Settled, shutVars
  <2>2. claims = {} /\ \A a \in Agents : ~Open(a)
    BY <2>1 DEF SerialState, HostOpen
  <2>3. \A u \in TaskId : task'[u].phase = IF u = t THEN "failed" ELSE task[u].phase
    BY <1>p, <2>1 DEF Phase
  <2>4. \A u \in TaskId : task'[u].phase \notin InFlight
    BY <1>1, <2>3 DEF InFlight
  <2>5. HostOpen'
    BY <2>1, <2>2, <2>4 DEF HostOpen, InFlight, Open
  <2>6. SeenSoFar'
    BY <2>1, <2>2, <2>4 DEF SeenSoFar, InFlight
  <2>7. \A s \in Sessions : current'[s] = None
    BY <1>0, <1>1, <1>2, <2>1 DEF StartTyped
  <2>8. HostClaims'
    BY <2>1, <2>2, <2>7 DEF HostClaims
  <2>9. OwnWaits' /\ AwaitedClosing'
    BY <1>w, <1>c, <2>1 DEF Phase
  <2> QED
    BY <2>5, <2>6, <2>8, <2>9 DEF SerialState
<1>5. CASE task[t].phase \in {"exports", "starting", "resources"}
  <2>1. Hosted(t[1])
    BY <1>5 DEF SerialState, HostOpen
  <2>2. /\ \A b \in Agents : Open(b) => b = t[1]
        /\ \A s \in claims : s = SessionOf[t[1]]
    BY <2>1 DEF SerialState, HostOpen, HostClaims, Hosted
  <2>3. /\ UNCHANGED <<host, shut, shutTask>>
        /\ TaskDispatches(t) \/ TaskHandlersDone(t) \/ TaskDone(t) \/ TaskFails(t)
    BY <1>5 DEF TaskStep, TaskTakesOver, TaskHandoffFails, TaskDispatches, TaskHandlersDone,
       TaskDone, TaskFails, shutVars
  <2>4. Hosted(t[1])' /\ host' = t[1] /\ host = t[1]
    BY <2>1, <2>3 DEF Hosted
  <2>5. ASSUME NEW ph \in Phase \ {"handoff"}, task' = [task EXCEPT ![t].phase = ph],
               ph \in {"starting", "resources", "done"} => claims' = claims,
               ph = "failed" => claims' = claims \ {SessionOf[t[1]]},
               ph \in {"starting", "resources"} => current' = current,
               ph \in {"done", "failed"} => current' = [current EXCEPT ![SessionOf[t[1]]] = None],
               ph \in {"starting", "resources", "done", "failed"},
               \A b \in Agents : b # t[1] => sess'[b] = sess[b],
               ph = "starting" => sess'[t[1]] = "starting",
               ph \in {"resources", "done"} => sess'[t[1]] = "up"
        PROVE  SerialState'
    <3>1. \A u \in TaskId : task'[u].phase = IF u = t THEN ph ELSE task[u].phase
      BY <1>p, <2>5
    <3>2. \A u \in TaskId : u # t => task'[u].phase \notin InFlight
      BY <1>1, <3>1
    <3>3. \A b \in Agents : Open(b)' => b = t[1]
      BY <2>2, <2>5 DEF Open
    <3>4. HostOpen'
      BY <2>4, <2>5, <3>1, <3>2, <3>3 DEF HostOpen, InFlight
    <3>5. ph = "failed" => claims' = {}
      BY <2>2, <2>5
    <3>6. SeenSoFar'
      BY <2>4, <2>5, <3>1, <3>2, <3>5 DEF SeenSoFar, InFlight
    <3>7. CASE ph \in {"starting", "resources"}
      <4>1. HostClaims'
        BY <1>0, <1>1, <1>2, <2>2, <2>4, <2>5, <3>1, <3>7 DEF HostClaims, InFlight
      <4> QED
        BY <1>5, <1>w, <1>c, <2>5, <3>4, <3>6, <3>7, <4>1 DEF SerialState
    <3>8. CASE ph \in {"done", "failed"}
      <4>1. \A s \in Sessions : current'[s] = None
        BY <1>0, <1>1, <1>2, <2>5, <3>8 DEF StartTyped
      <4>2. HostClaims'
        BY <1>0, <1>1, <2>2, <2>4, <2>5, <3>5, <3>8, <4>1 DEF HostClaims
      <4> QED
        BY <1>5, <1>w, <1>c, <2>5, <3>4, <3>6, <3>8, <4>2 DEF SerialState
    <3> QED
      BY <2>5, <3>7, <3>8
  <2>6. CASE TaskDispatches(t)
    <3>1. sess'[t[1]] = "starting" /\ \A b \in Agents : b # t[1] => sess'[b] = sess[b]
      BY <1>0, <1>1, <2>6 DEF TaskDispatches, SeenTyped
    <3> QED
      BY <2>5, <2>6, <3>1 DEF TaskDispatches, Phase
  <2>7. CASE TaskHandlersDone(t)
    <3>1. sess[t[1]] = "starting"
      BY <2>7 DEF TaskHandlersDone, SerialState, SeenSoFar
    <3>2. sess'[t[1]] = "up" /\ \A b \in Agents : b # t[1] => sess'[b] = sess[b]
      BY <1>0, <1>1, <2>7, <3>1 DEF TaskHandlersDone, SeenTyped
    <3> QED
      BY <2>5, <2>7, <3>2 DEF TaskHandlersDone, Phase
  <2>8. CASE TaskDone(t)
    <3>1. sess[t[1]] = "up" /\ sess' = sess
      BY <2>8 DEF TaskDone, SerialState, SeenSoFar
    <3>2. current' = [current EXCEPT ![SessionOf[t[1]]] = None]
      <4>1. current[SessionOf[t[1]]] \in {t, None}
        BY <1>1, <1>2
      <4> QED
        BY <1>0, <1>1, <2>8, <4>1 DEF TaskDone, StartTyped
    <3> QED
      BY <2>5, <2>8, <3>1, <3>2 DEF TaskDone, Phase
  <2>9. CASE TaskFails(t)
    <3>1. \A b \in Agents : b # t[1] => sess'[b] = sess[b]
      BY <1>0, <2>9 DEF TaskFails, FailTask, SeenTyped
    <3> QED
      BY <2>5, <2>9, <3>1 DEF TaskFails, FailTask, Phase
  <2> QED
    BY <2>3, <2>6, <2>7, <2>8, <2>9
<1> QED
  BY <1>1, <1>3, <1>4, <1>5 DEF TaskStep, InFlight, TaskDispatches, TaskHandlersDone, TaskDone,
     TaskFails

\* The mount is live before a step if it is afterwards.
LEMMA SerialBefore ==
  ASSUME TypeOK, [Next]_vars, SerialLive'
  PROVE  SerialLive /\ setup' = setup
<1>0. setup' = setup /\ reload.count \in Nat
      /\ reload \in [agent : Agents \cup {NoAgent}, by : Agents \cup {NoAgent},
                     on : Promise \cup {None}, drain : SUBSET Promise, count : Nat]
  BY SetupStays, TypeParts DEF ReloadTyped
<1>1. Serial
  BY <1>0 DEF SerialLive, Serial, owner
<1>2. mount \notin Torn
  BY ZenonT(30) DEF Next, AgentCreated, AdoptChildAgent, AgentDisposed, ToolCall, ToolReturns,
     ReloadBegins, TaskStep, TaskTakesOver, TaskHandoffFails, TaskDispatches, TaskHandlersDone,
     TaskDone, TaskFails, ShutdownSettles, CallerResumes, FlushStep, FlushBegins, FlushEnds,
     FlushNext, ReloadStep, ReloadClears, ReloadFails, ReloadRestarts, RestartEnds,
     RestartDispatches, RestartHandlersDone, TeardownBegins, TeardownStep, TeardownDrains,
     TeardownFails, TeardownEnds, vars, mountVars, SerialLive, Torn
<1>3. reload.count = 0
  <2>1. CASE reload' = reload
    BY <2>1 DEF SerialLive
  <2>2. ASSUME NEW a \in Agents, ReloadBegins(a) PROVE reload.count = 0
    BY <1>0, <2>2 DEF ReloadBegins, SerialLive
  <2>3. ASSUME NEW a \in Agents, AgentCreated(a) \/ AdoptChildAgent(a) \/ AgentDisposed(a)
                                 \/ ToolCall(a) \/ ToolReturns(a)
        PROVE  reload' = reload
    BY <2>3 DEF AgentCreated, AdoptChildAgent, AgentDisposed, ToolCall, ToolReturns, mountVars
  <2>4. ASSUME NEW t \in TaskId, TaskStep(t) PROVE reload' = reload
    BY <2>4 DEF TaskStep, TaskTakesOver, TaskHandoffFails, TaskDispatches, TaskHandlersDone,
       TaskDone, TaskFails, mountVars
  <2>5. CASE FlushStep
    BY <2>1, <2>5 DEF FlushStep, FlushBegins, FlushEnds, FlushNext
  <2>6. CASE ReloadStep
    BY <1>0, <2>6 DEF ReloadStep, ReloadClears, ReloadFails, ReloadRestarts, RestartEnds,
       RestartDispatches, RestartHandlersDone, SerialLive
  <2>7. CASE TeardownBegins \/ TeardownStep
    BY <1>0, <2>7 DEF TeardownBegins, TeardownStep, TeardownDrains, TeardownFails, TeardownEnds,
       SerialLive
  <2>8. CASE \/ UNCHANGED vars
             \/ \E p \in closing, ok \in BOOLEAN : ShutdownSettles(p, ok)
             \/ \E c \in Caller : CallerResumes(c)
    BY <2>1, <2>8 DEF vars, mountVars, ShutdownSettles, CallerResumes
  <2> QED
    BY <2>1, <2>2, <2>3, <2>4, <2>5, <2>6, <2>7, <2>8 DEF Next
<1> QED
  BY <1>0, <1>1, <1>2, <1>3 DEF SerialLive

SerialInv == SerialLive => SerialState

\* An agent that goes takes its session and its claim along.
LEMMA DisposeSerial ==
  ASSUME TypeOK, Serial, SerialState, NEW a \in Agents, AgentDisposed(a)
  PROVE  SerialState'
<1>0. HostTyped /\ ShutTyped /\ StartTyped /\ SeenTyped /\ NoAgent \notin Agents
      /\ SessionOf[a] \in Sessions
  BY TypeParts, NoAgentAssumption, SessionTyped
<1>1. NothingUnderWay
  BY DEF AgentDisposed, MayHappen, Serial
<1>q. /\ \A t \in TaskId : task[t].phase \notin InFlight
      /\ \A d \in Caller : waits[d].state # "waiting"
      /\ \A s \in Sessions : current[s] = None
      /\ \A p \in closing : life[p[1]] # "live"
      /\ claims # {} => sess[host] = "up"
  BY <1>0, <1>1, SerialQuiet
<1>b. /\ \A b \in Agents : Open(b) => host = b /\ b \notin shut /\ shutTask[b] = 0
      /\ \A s \in claims : host # NoAgent /\ s = SessionOf[host]
  BY DEF SerialState, HostOpen, HostClaims, Hosted
<1>2. /\ UNCHANGED <<task, waits>>
      /\ life' = [life EXCEPT ![a] = "gone"]
      /\ claims' = claims \/ (AcceptsAgent(a) /\ claims' = claims \ {SessionOf[a]})
      /\ current' = current \/ current' = [current EXCEPT ![SessionOf[a]] = None]
  BY DEF AgentDisposed
<1>3. \A s \in Sessions : current'[s] = None
  BY <1>0, <1>q, <1>2 DEF StartTyped
<1>4. OwnWaits'
  BY <1>q, <1>2 DEF OwnWaits
<1>5. CASE UNCHANGED <<host, shutVars, sess>>
  <2>1. HostOpen'
    BY <1>b, <1>q, <1>2, <1>5 DEF HostOpen, Hosted, Open, InFlight, shutVars
  <2>2. SeenSoFar'
    BY <1>q, <1>2, <1>5 DEF SeenSoFar, InFlight
  <2>3. HostClaims'
    BY <1>b, <1>2, <1>3, <1>5 DEF HostClaims
  <2>4. \A p \in closing' : life'[p[1]] # "live"
    <3> SUFFICES ASSUME NEW p \in closing PROVE life'[p[1]] # "live"
      BY <1>5 DEF shutVars
    <3>1. p[1] \in Agents
      BY <1>0 DEF ShutTyped, Promise
    <3> QED
      BY <1>0, <1>q, <1>2, <3>1 DEF HostTyped
  <2> QED
    BY <1>4, <2>1, <2>2, <2>3, <2>4 DEF SerialState, AwaitedClosing
<1>6. CASE host = a /\ host' = NoAgent /\ ShutdownPiSession(a) /\ claims' = claims \ {SessionOf[a]}
  <2>1. claims' = {}
    BY <1>b, <1>6
  <2>2. \A b \in Agents : ~Open(b)'
    <3>1. \A b \in Agents : b # a => sess'[b] = sess[b]
      BY <1>0, <1>6, ShutdownCloses
    <3>2. \A b \in Agents : b # a => ~Open(b)
      BY <1>b, <1>6
    <3>3. ~Open(a)'
      <4>1. CASE shutTask[a] # 0 \/ a \in shut
        BY <1>b, <1>6, <4>1 DEF ShutdownPiSession, Open
      <4>2. CASE ~(shutTask[a] # 0 \/ a \in shut)
        BY <1>0, <1>6, <4>2 DEF ShutdownPiSession, SeenTyped, Open
      <4> QED
        BY <4>1, <4>2
    <3> QED
      BY <3>1, <3>2, <3>3 DEF Open
  <2>3. HostOpen'
    BY <1>q, <1>2, <2>2 DEF HostOpen, InFlight
  <2>4. SeenSoFar'
    BY <1>q, <1>2, <2>1 DEF SeenSoFar, InFlight
  <2>5. HostClaims'
    BY <1>3, <2>1 DEF HostClaims
  <2>6. \A p \in closing' : life'[p[1]] # "live"
    <3> SUFFICES ASSUME NEW p \in closing' PROVE life'[p[1]] # "live"
      OBVIOUS
    <3>1. p \in closing \/ p[1] = a
      BY <1>0, <1>6, ShutdownPromises
    <3>2. p \in closing => p[1] \in Agents
      BY <1>0 DEF ShutTyped, Promise
    <3> QED
      BY <1>0, <1>q, <1>2, <3>1, <3>2 DEF HostTyped
  <2> QED
    BY <1>4, <2>3, <2>4, <2>5, <2>6 DEF SerialState, AwaitedClosing
<1> QED
  BY <1>5, <1>6 DEF AgentDisposed

\* Every step on a serial host.
LEMMA StepSerial ==
  ASSUME TypeOK, MountInv, MadeInOrder, StartsHere, OneAtATime, SerialInv, [Next]_vars
  PROVE  SerialInv'
<1> SUFFICES ASSUME SerialLive' PROVE SerialState'
  BY DEF SerialInv
<1>0. HostTyped /\ ShutTyped /\ StartTyped /\ SeenTyped
  BY TypeParts
<1>a. SerialLive /\ setup' = setup /\ Serial /\ SerialState
  BY SerialBefore DEF SerialLive, SerialInv
<1>u. ASSUME UNCHANGED <<host, shut, shutTask, closing, claims, current, task, waits, sess, life>>
      PROVE  SerialState'
  BY <1>a, <1>u, SerialUnchanged
<1>1. CASE UNCHANGED vars
  BY <1>1, <1>u DEF vars, hostVars, shutVars, startVars
<1>2. ASSUME NEW a \in Agents, AgentCreated(a) PROVE SerialState'
  <2>1. \A p \in closing : life'[p[1]] = "live" => life[p[1]] = "live"
    <3> SUFFICES ASSUME NEW p \in closing, life[p[1]] # "live" PROVE life'[p[1]] # "live"
      OBVIOUS
    <3>1. p[1] \in Agents /\ p[1] # a
      BY <1>0, <1>2 DEF AgentCreated, StartsHere, ShutTyped, Promise
    <3> QED
      BY <1>0, <1>2, <3>1 DEF AgentCreated, HostTyped
  <2>2. CASE StartPiSession(<<"created", a>>)
    <3>1. NothingUnderWay /\ <<"created", a>> \in Caller
      BY <1>a, <2>2 DEF StartPiSession, MayHappen, Serial, Caller
    <3> QED
      BY <1>a, <2>1, <2>2, <3>1, StartSerial
  <2>3. CASE UNCHANGED <<host, shutVars, rejected, startVars, sess>>
    <3>1. UNCHANGED <<host, shut, shutTask, closing, claims, current, task, waits, sess>>
      BY <2>3 DEF shutVars, startVars
    <3> QED
      BY <1>a, <2>1, <3>1, SerialUnchanged
  <2> QED
    BY <1>2, <2>2, <2>3 DEF AgentCreated
<1>3. ASSUME NEW a \in Agents, AdoptChildAgent(a) PROVE SerialState'
  BY <1>3, <1>u DEF AdoptChildAgent, shutVars, startVars
<1>4. ASSUME NEW a \in Agents, ToolReturns(a) PROVE SerialState'
  <2>1. UNCHANGED <<host, shut, shutTask, closing, claims, current, task, sess, life>>
    BY <1>4 DEF ToolReturns, hostVars, shutVars
  <2>2. \A c \in Caller : waits'[c].state = "waiting" => waits'[c] = waits[c]
    BY <1>0, <1>4 DEF ToolReturns, StartTyped, Idle
  <2> QED
    BY <1>a, <2>1, <2>2, SerialUnchanged
<1>5. ASSUME NEW a \in Agents, ToolCall(a) PROVE SerialState'
  <2>1. StartPiSession(<<"tool", a>>) /\ <<"tool", a>> \in Caller /\ life' = life
    BY <1>5 DEF ToolCall, hostVars, Caller
  <2>2. NothingUnderWay
    BY <1>a, <2>1 DEF StartPiSession, MayHappen, Serial
  <2> QED
    BY <1>a, <2>1, <2>2, StartSerial
<1>6. ASSUME NEW t \in TaskId, TaskStep(t) PROVE SerialState'
  <2>1. life' = life
    BY <1>6 DEF TaskStep, TaskTakesOver, TaskHandoffFails, TaskDispatches, TaskHandlersDone,
       TaskDone, TaskFails, hostVars
  <2> QED
    BY <1>a, <1>6, <2>1, TaskSerial
<1>7. ASSUME NEW p \in closing, NEW ok \in BOOLEAN, ShutdownSettles(p, ok) PROVE SerialState'
  <2>1. UNCHANGED <<host, shut, shutTask, claims, current, task, waits, sess, life>>
        /\ closing' \subseteq closing
    BY <1>7 DEF ShutdownSettles, hostVars, startVars
  <2> QED
    BY <1>a, <2>1, SerialUnchanged
<1>8. ASSUME NEW c \in Caller, CallerResumes(c) PROVE SerialState'
  <2>1. UNCHANGED <<host, shut, shutTask, closing, claims, current, task, sess, life>>
        /\ waits' = [waits EXCEPT ![c] = Resumed(c, task[waits[c].on].phase)]
    BY <1>8 DEF CallerResumes, hostVars, shutVars
  <2>2. \A ph : Resumed(c, ph).state # "waiting"
    BY DEF Resumed, Idle, Through, Refused
  <2>3. \A d \in Caller : waits'[d].state = "waiting" => waits'[d] = waits[d]
    BY <1>0, <2>1, <2>2 DEF StartTyped
  <2> QED
    BY <1>a, <2>1, <2>3, SerialUnchanged
<1>9. CASE FlushStep
  <2>1. CASE FlushBegins \/ FlushEnds
    BY <1>u, <2>1 DEF FlushBegins, FlushEnds, hostVars, shutVars, startVars
  <2>2. ASSUME NEW a \in Agents, FlushNext(a) PROVE SerialState'
    <3>1. StartPiSession(<<"flush", a>>) /\ <<"flush", a>> \in Caller /\ life' = life
      BY <2>2 DEF FlushNext, hostVars, Caller
    <3>2. NothingUnderWay
      BY <1>a, <3>1 DEF StartPiSession, MayHappen, Serial
    <3> QED
      BY <1>a, <3>1, <3>2, StartSerial
  <2> QED
    BY <1>9, <2>1, <2>2 DEF FlushStep
<1>10. ~ReloadStep
  BY <1>a DEF MountInv, SerialLive, ReloadStep, ReloadClears, ReloadFails, ReloadRestarts,
     RestartEnds, RestartDispatches, RestartHandlersDone
<1>11. ~TeardownBegins /\ ~TeardownStep
  BY <1>a DEF TeardownBegins, TeardownStep, TeardownDrains, TeardownFails, TeardownEnds, SerialLive,
     Torn
<1>12. ASSUME NEW a \in Agents PROVE ~ReloadBegins(a)
  BY TypeParts DEF ReloadBegins, SerialLive, ReloadTyped
<1>13. CASE \E a \in Agents :
              \/ AgentCreated(a) \/ AdoptChildAgent(a) \/ AgentDisposed(a)
              \/ ToolCall(a) \/ ToolReturns(a) \/ ReloadBegins(a)
  BY <1>13, <1>a, <1>2, <1>3, <1>4, <1>5, <1>12, DisposeSerial
<1> QED
  BY <1>1, <1>6, <1>7, <1>8, <1>9, <1>10, <1>11, <1>13 DEF Next

-----------------------------------------------------------------------------
(* The two promises of the session gate, on owned and on serial mounts.    *)

\* A mount is owned, or its host begins nothing while a start is under way.
OwnedOrSerial == \A s \in Setups : s.owner # NoAgent \/ ~s.overlap

\* On a legacy mount a reload dispatches session_start for every active agent
\* (runtime.ts:2326-2352), which is no switch.
LegacyNotReloaded == \A s \in Setups : s.owner # NoAgent \/ s.reloads = 0

\* What a state satisfies, whatever the sessions of the children are.
LinearInv ==
  /\ TypeOK /\ MountInv /\ MadeInOrder
  /\ AgentsHere /\ StartsHere /\ OwnerSeen /\ OwnerQueued
  /\ OneAtATime /\ SerialInv

\* A fresh instance has started nothing.
LEMMA InitSerial == Init => OneAtATime /\ SerialInv
<1> SUFFICES ASSUME Init PROVE OneAtATime /\ SerialInv
  OBVIOUS
<1>1. OneAtATime
  BY DEF Init, OneAtATime, InFlight, NothingUnderWay, Idle, Torn
<1>2. HostOpen
  BY DEF Init, HostOpen, Open
<1>3. SeenSoFar /\ HostClaims /\ OwnWaits /\ AwaitedClosing
  BY DEF Init, SeenSoFar, HostClaims, OwnWaits, AwaitedClosing, Idle
<1> QED
  BY <1>1, <1>2, <1>3 DEF SerialInv, SerialState

\* A fresh instance satisfies it.
LEMMA InitLinear == Init => LinearInv
BY InitOwned, InitSerial DEF OwnedInv, LinearInv

\* Every step keeps it.
LEMMA StepLinear == LinearInv /\ [Next]_vars => LinearInv'
<1> SUFFICES ASSUME LinearInv, [Next]_vars PROVE LinearInv'
  OBVIOUS
<1> USE DEF LinearInv
<1>1. TypeOK' /\ MountInv' /\ MadeInOrder'
  BY StepType, StepMount, StepInOrder DEF MountInv
<1>2. AgentsHere' /\ StartsHere'
  BY StepHere
<1>3. OwnerSeen' /\ OwnerQueued'
  BY StepOwner
<1>4. OneAtATime' /\ SerialInv'
  BY StepOneAtATime, StepSerial
<1> QED
  BY <1>1, <1>2, <1>3, <1>4

\* A session_start, for the first time or once more, meets no other session that
\* is open or, of a living agent, being shut down: in an owned mount always, in a
\* legacy one on a serial host, until it is reloaded.
LEMMA DispatchesAlone ==
  ASSUME OwnedOrSerial, LegacyNotReloaded, LinearInv,
         NEW a \in Agents, Dispatches(a), NEW b \in Agents \ {a}
  PROVE  ~Open(b) /\ (life[b] = "live" => \A p \in closing : p[1] # b)
<1>0. /\ HostTyped /\ ReloadTyped /\ StartTyped
      /\ \A n \in 1 .. MaxTasks : <<a, n>> \in TaskId
  BY TypeParts DEF LinearInv, TaskId
<1>1. CASE owner # NoAgent
  <2>1. a = owner
    <3>1. ASSUME NEW n \in 1 .. MaxTasks, TaskDispatches(<<a, n>>) PROVE a = owner
      <4>1. task[<<a, n>>].phase # "unused" /\ <<a, n>> \in TaskId
        BY <1>0, <3>1 DEF TaskDispatches
      <4> QED
        BY <1>1, <4>1 DEF LinearInv, OwnerSeen
    <3>2. ASSUME RestartDispatches(a) PROVE a = owner
      BY <1>1, <3>2 DEF RestartDispatches, LinearInv, OwnerQueued
    <3> QED
      BY <3>1, <3>2 DEF Dispatches
  <2> QED
    BY <1>1, <2>1 DEF LinearInv, OwnerSeen
<1>2. CASE owner = NoAgent
  <2>1. Serial /\ reload.count = 0
    <3>1. ~setup.overlap /\ setup.reloads = 0
      BY <1>0, <1>2 DEF OwnedOrSerial, LegacyNotReloaded, HostTyped, owner
    <3>2. reload.count \in Nat /\ reload.count =< setup.reloads
      BY <1>0 DEF ReloadTyped, LinearInv, MountInv
    <3> QED
      BY <1>2, <3>1, <3>2 DEF Serial
  <2>2. ~RestartDispatches(a)
    BY <2>1 DEF RestartDispatches, LinearInv, MountInv
  <2>3. PICK n \in 1 .. MaxTasks : TaskDispatches(<<a, n>>)
    BY <2>2 DEF Dispatches
  <2>4. task[<<a, n>>].phase = "exports" /\ <<a, n>> \in TaskId /\ <<a, n>>[1] = a
    BY <1>0, <2>3 DEF TaskDispatches
  <2>5. SerialState
    BY <2>1, <2>4 DEF LinearInv, OneAtATime, NothingUnderWay, InFlight, SerialInv, SerialLive
  <2>6. ~Open(b)
    BY <2>4, <2>5 DEF SerialState, HostOpen, Hosted
  <2>7. ASSUME NEW p \in closing, p[1] = b, life[b] = "live" PROVE FALSE
    <3>1. PICK u \in TaskId : task[u].phase = "handoff"
      BY <2>5, <2>7 DEF SerialState, AwaitedClosing
    <3>2. u = <<a, n>>
      BY <2>1, <2>4, <3>1 DEF LinearInv, OneAtATime, InFlight
    <3> QED
      BY <2>4, <3>1, <3>2
  <2> QED
    BY <2>6, <2>7
<1> QED
  BY <1>1, <1>2

\* What does not touch the sessions, nor the shutdowns of living agents.
LEMMA LinearQuiet ==
  ASSUME sess' = sess, closing' = closing, \A p \in closing : life'[p[1]] = life[p[1]]
  PROVE  UNCHANGED Linear!vars
<1>1. \A a \in Agents : (life'[a] = "live" /\ \E p \in closing' : p[1] = a)
                     <=> (life[a] = "live" /\ \E p \in closing : p[1] = a)
  OBVIOUS
<1> QED
  BY <1>1 DEF Linear!vars, Open

\* A session that ends, or never came up.
LEMMA LinearFail ==
  ASSUME SeenTyped, NEW a \in Agents, NEW v \in {"broken", "down"}, sess' = [sess EXCEPT ![a] = v],
         closing' = closing, life' = life
  PROVE  Linear!Next
<1>1. {b \in Agents : Open(b)'} = {b \in Agents : Open(b)} \ {a}
  BY DEF Open, SeenTyped
<1> QED
  BY <1>1 DEF Linear!Next, Linear!Fail, Open

\* shutdownPiSession is a session_shutdown, or nothing.
LEMMA LinearShutdown ==
  ASSUME ShutTyped, SeenTyped, NEW a \in Agents, ShutdownPiSession(a),
         \A p \in closing' : life'[p[1]] = life[p[1]]
  PROVE  [Linear!Next]_Linear!vars
<1>1. CASE shutTask[a] # 0 \/ a \in shut
  BY <1>1, LinearQuiet DEF ShutdownPiSession, shutVars
<1>2. CASE ~(shutTask[a] # 0 \/ a \in shut)
  <2>1. /\ closing' = closing \cup {<<a, shuts[a] + 1>>}
        /\ sess' = [sess EXCEPT ![a] = "down"]
    BY <1>2 DEF ShutdownPiSession
  <2>2. \A b \in Agents : (\E p \in closing' : p[1] = b) <=> (b = a \/ \E p \in closing : p[1] = b)
    <3> DEFINE q == <<a, shuts[a] + 1>>
    <3>1. q[1] = a
      OBVIOUS
    <3> HIDE DEF q
    <3>2. closing' = closing \cup {q}
      BY <2>1 DEF q
    <3> QED
      BY <3>1, <3>2
  <2>3. \A b \in Agents : (\E p \in closing' : p[1] = b) => life'[b] = life[b]
    OBVIOUS
  <2>4. {b \in Agents : Open(b)'} = {b \in Agents : Open(b)} \ {a}
    BY <2>1 DEF Open, SeenTyped
  <2>5. {b \in Agents : life[b] = "live" /\ \E p \in closing : p[1] = b}
        \cup (IF life[a] = "live" THEN {a} ELSE {})
        = {b \in Agents : life'[b] = "live" /\ \E p \in closing' : p[1] = b}
    BY <2>2, <2>3
  <2>6. CASE life[a] = "live"
    BY <2>4, <2>5, <2>6 DEF Linear!Next, Linear!Shutdown, Open
  <2>7. CASE life[a] # "live"
    BY <2>4, <2>5, <2>7 DEF Linear!Next, Linear!Fail, Open
  <2> QED
    BY <2>6, <2>7
<1> QED
  BY <1>1, <1>2

\* startPiSession shuts another agent's session down, or touches none.
LEMMA LinearStart ==
  ASSUME TypeOK, NEW c \in Caller, StartPiSession(c), \A p \in closing' : life'[p[1]] = life[p[1]]
  PROVE  [Linear!Next]_Linear!vars
<1>0. ShutTyped /\ SeenTyped
  BY TypeParts
<1>1. CASE Replaces(c)
  BY <1>0, <1>1, LinearShutdown DEF Replaces, SeenTyped
<1>2. CASE Passes(c) \/ Joins(c) \/ StartsAgain(c) \/ StartsFresh(c)
  BY <1>2, LinearQuiet DEF Passes, Joins, StartsAgain, StartsFresh, besidesWaits, shutVars
<1> QED
  BY <1>1, <1>2, StartWays

\* session_start goes out while nothing else is open: a start of the runtime, or
\* one more for the session that is open already.
LEMMA LinearDispatch ==
  ASSUME OwnedOrSerial, LegacyNotReloaded, LinearInv, NEW a \in Agents, Dispatches(a)
  PROVE  [Linear!Next]_Linear!vars
<1>0. SeenTyped /\ ShutTyped
  BY TypeParts DEF LinearInv
<1>1. sess' = [sess EXCEPT ![a] = "starting"] /\ UNCHANGED <<closing, life>>
  BY DEF Dispatches, TaskDispatches, RestartDispatches, shutVars, hostVars
<1>2. \A b \in Agents \ {a} : ~Open(b) /\ (life[b] = "live" => \A p \in closing : p[1] # b)
  BY DispatchesAlone
<1>3. {b \in Agents : Open(b)'} = {a}
  BY <1>0, <1>1, <1>2 DEF Open, SeenTyped
<1>4. {b \in Agents : life[b] = "live" /\ \E p \in closing : p[1] = b} \subseteq {a}
  BY <1>2
<1>5. CASE Open(a)
  <2>1. {b \in Agents : Open(b)} = {a}
    BY <1>2, <1>5
  <2> QED
    BY <1>1, <1>3, <2>1 DEF Linear!vars, Open
<1>6. CASE ~Open(a)
  <2>1. {b \in Agents : Open(b)} = {}
    BY <1>2, <1>6
  <2> QED
    BY <1>1, <1>3, <1>4, <2>1 DEF Linear!Next, Linear!Start, Open
<1> QED
  BY <1>5, <1>6

\* What a start task does after its awaits.
LEMMA LinearTask ==
  ASSUME OwnedOrSerial, LegacyNotReloaded, LinearInv, NEW t \in TaskId, TaskStep(t)
  PROVE  [Linear!Next]_Linear!vars
<1>0. SeenTyped /\ t[1] \in Agents /\ t = <<t[1], t[2]>> /\ t[2] \in 1 .. MaxTasks
  BY TypeParts DEF LinearInv, TaskId
<1>1. CASE TaskTakesOver(t) \/ TaskHandoffFails(t) \/ TaskDone(t)
  BY <1>1, LinearQuiet DEF TaskTakesOver, TaskHandoffFails, TaskDone, shutVars, hostVars
<1>2. CASE TaskDispatches(t)
  BY <1>0, <1>2, LinearDispatch DEF Dispatches
<1>3. CASE TaskHandlersDone(t)
  <2>1. UNCHANGED <<closing, life>>
    BY <1>3 DEF TaskHandlersDone, shutVars, hostVars
  <2>2. \A b \in Agents : Open(b)' <=> Open(b)
    BY <1>0, <1>3 DEF TaskHandlersDone, Open, SeenTyped
  <2> QED
    BY <2>1, <2>2 DEF Linear!vars, Open
<1>4. CASE TaskFails(t)
  <2>1. /\ UNCHANGED <<closing, life>>
        /\ sess' = [sess EXCEPT ![t[1]] = IF @ \in {"starting", "up"} THEN "broken" ELSE @]
    BY <1>4 DEF TaskFails, FailTask, shutVars, hostVars
  <2>2. CASE sess[t[1]] \in {"starting", "up"}
    BY <1>0, <2>1, <2>2, LinearFail
  <2>3. CASE sess[t[1]] \notin {"starting", "up"}
    <3>1. sess' = sess
      BY <1>0, <2>1, <2>3 DEF SeenTyped
    <3> QED
      BY <2>1, <3>1, LinearQuiet
  <2> QED
    BY <2>2, <2>3
<1> QED
  BY <1>1, <1>2, <1>3, <1>4 DEF TaskStep

\* An agent that appears or goes, and what that starts or ends.
LEMMA LinearAgent ==
  ASSUME LinearInv, NEW a \in Agents, AgentCreated(a) \/ AgentDisposed(a)
  PROVE  [Linear!Next]_Linear!vars
<1>0. HostTyped /\ ShutTyped /\ SeenTyped /\ TypeOK
  BY TypeParts DEF LinearInv
<1>1. CASE AgentCreated(a)
  <2>1. life[a] = "absent" /\ life' = [life EXCEPT ![a] = "live"]
    BY <1>1 DEF AgentCreated
  <2>2. \A p \in closing : p[1] \in Agents \ {a} /\ life'[p[1]] = life[p[1]]
    BY <1>0, <2>1 DEF LinearInv, StartsHere, HostTyped, ShutTyped, Promise
  <2>3. CASE StartPiSession(<<"created", a>>)
    <3>1. \A p \in closing' : life'[p[1]] = life[p[1]]
      <4> SUFFICES ASSUME NEW p \in closing' PROVE life'[p[1]] = life[p[1]]
        OBVIOUS
      <4>1. p \in closing \/ (host \in Agents /\ p[1] = host)
        <5>1. CASE Replaces(<<"created", a>>)
          BY <1>0, <5>1, ShutdownPromises DEF Replaces, SeenTyped
        <5>2. CASE ~Replaces(<<"created", a>>)
          BY <2>3, <5>2, StartWays DEF Passes, Joins, StartsAgain, StartsFresh, besidesWaits, shutVars
        <5> QED
          BY <5>1, <5>2
      <4>2. host \in Agents => life'[host] = life[host]
        BY <1>0, <2>1, NoAgentAssumption DEF LinearInv, StartsHere, HostTyped
      <4> QED
        BY <2>2, <4>1, <4>2
    <3>2. <<"created", a>> \in Caller
      BY DEF Caller
    <3> QED
      BY <1>0, <2>3, <3>1, <3>2, LinearStart
  <2>4. CASE UNCHANGED <<host, shutVars, rejected, startVars, sess>>
    BY <2>2, <2>4, LinearQuiet DEF shutVars
  <2> QED
    BY <1>1, <2>3, <2>4 DEF AgentCreated
<1>2. CASE AgentDisposed(a)
  <2>1. life' = [life EXCEPT ![a] = "gone"]
    BY <1>2 DEF AgentDisposed
  <2>2. (ShutdownPiSession(a) \/ UNCHANGED <<shutVars, sess>>)
    BY <1>2 DEF AgentDisposed
  <2>3. \A p \in closing' : p \in closing \/ p[1] = a
    BY <1>0, <2>2, ShutdownPromises DEF shutVars
  <2>4. \A p \in closing : p \in closing'
    BY <2>2 DEF ShutdownPiSession, shutVars
  <2>5. \A b \in Agents : (life'[b] = "live" /\ \E p \in closing' : p[1] = b)
                       <=> (b # a /\ life[b] = "live" /\ \E p \in closing : p[1] = b)
    BY <1>0, <2>1, <2>3, <2>4 DEF HostTyped
  <2>6. {b \in Agents : life'[b] = "live" /\ \E p \in closing' : p[1] = b}
        = {b \in Agents : life[b] = "live" /\ \E p \in closing : p[1] = b} \ {a}
    BY <2>5
  <2>7. CASE sess' = sess
    BY <2>6, <2>7 DEF Linear!Next, Linear!Finish, Open
  <2>8. CASE sess' = [sess EXCEPT ![a] = "down"]
    <3>1. {b \in Agents : Open(b)'} = {b \in Agents : Open(b)} \ {a}
      BY <1>0, <2>8 DEF Open, SeenTyped
    <3> QED
      BY <2>6, <3>1 DEF Linear!Next, Linear!Leave, Open
  <2> QED
    BY <2>2, <2>7, <2>8 DEF ShutdownPiSession, shutVars
<1> QED
  BY <1>1, <1>2

\* Every step is one of LinearRuntime's, or changes nothing of it.
LEMMA StepRefines ==
  ASSUME OwnedOrSerial, LegacyNotReloaded, LinearInv, [Next]_vars
  PROVE  [Linear!Next]_Linear!vars
<1>0. TypeOK /\ HostTyped /\ ShutTyped /\ SeenTyped /\ ReloadTyped
  BY TypeParts DEF LinearInv
<1>q. ASSUME UNCHANGED <<life, closing, sess>> PROVE [Linear!Next]_Linear!vars
  BY <1>q, LinearQuiet
<1>s. ASSUME NEW a \in Agents \cup {NoAgent}, a # NoAgent, ShutdownPiSession(a), life' = life
      PROVE  [Linear!Next]_Linear!vars
  BY <1>0, <1>s, LinearShutdown
<1>1. CASE UNCHANGED vars
  BY <1>1, <1>q DEF vars, hostVars, shutVars
<1>2. ASSUME NEW a \in Agents, ToolCall(a) PROVE [Linear!Next]_Linear!vars
  BY <1>0, <1>2, LinearStart DEF ToolCall, Caller, hostVars
<1>3. ASSUME NEW a \in Agents, FlushNext(a) PROVE [Linear!Next]_Linear!vars
  BY <1>0, <1>3, LinearStart DEF FlushNext, Caller, hostVars
<1>4. ASSUME NEW a \in Agents, AdoptChildAgent(a) \/ ToolReturns(a)
      PROVE  [Linear!Next]_Linear!vars
  BY <1>4, <1>q DEF AdoptChildAgent, ToolReturns, shutVars, hostVars
<1>5. ASSUME NEW a \in Agents, ReloadBegins(a) PROVE [Linear!Next]_Linear!vars
  BY <1>0, <1>5, <1>s, NoAgentAssumption DEF ReloadBegins, SeenTyped, hostVars
<1>6. ASSUME NEW p \in closing, NEW ok \in BOOLEAN, ShutdownSettles(p, ok)
      PROVE  [Linear!Next]_Linear!vars
  <2>1. closing' = closing \ {p} /\ UNCHANGED <<life, sess>> /\ p[1] \in Agents
    BY <1>0, <1>6 DEF ShutdownSettles, hostVars, ShutTyped, Promise
  <2>2. \A b \in Agents : b # p[1] =>
           ((\E q \in closing' : q[1] = b) <=> (\E q \in closing : q[1] = b))
    BY <2>1
  <2>3. CASE \E q \in closing' : q[1] = p[1]
    <3>1. \A b \in Agents : (\E q \in closing' : q[1] = b) <=> (\E q \in closing : q[1] = b)
      BY <2>1, <2>2, <2>3
    <3>2. {b \in Agents : life'[b] = "live" /\ \E q \in closing' : q[1] = b}
          = {b \in Agents : life[b] = "live" /\ \E q \in closing : q[1] = b}
      BY <2>1, <3>1
    <3> QED
      BY <2>1, <3>2 DEF Linear!vars, Open
  <2>4. CASE ~\E q \in closing' : q[1] = p[1]
    <3>1. {b \in Agents : life'[b] = "live" /\ \E q \in closing' : q[1] = b}
          = {b \in Agents : life[b] = "live" /\ \E q \in closing : q[1] = b} \ {p[1]}
      BY <2>1, <2>2, <2>4
    <3> QED
      BY <2>1, <3>1 DEF Linear!Next, Linear!Finish, Open
  <2> QED
    BY <2>3, <2>4
<1>7. CASE \E c \in Caller : CallerResumes(c)
  BY <1>7, <1>q DEF CallerResumes, shutVars, hostVars
<1>8. CASE FlushBegins \/ FlushEnds
  BY <1>8, <1>q DEF FlushBegins, FlushEnds, shutVars, hostVars
<1>9. CASE ReloadClears \/ ReloadFails \/ ReloadRestarts \/ RestartEnds
  BY <1>9, <1>q DEF ReloadClears, ReloadFails, ReloadRestarts, RestartEnds, shutVars, hostVars
<1>10. ASSUME NEW a \in Agents, RestartDispatches(a) PROVE [Linear!Next]_Linear!vars
  BY <1>10, LinearDispatch DEF Dispatches
<1>11. ASSUME NEW ok \in BOOLEAN, RestartHandlersDone(ok) PROVE [Linear!Next]_Linear!vars
  <2> DEFINE r == reload.agent
  <2>1. /\ r \in Agents /\ UNCHANGED <<life, closing>>
        /\ sess' = [sess EXCEPT ![r] =
                      IF @ # "starting" THEN @ ELSE IF ok THEN "up" ELSE "broken"]
    BY <1>0, <1>11 DEF RestartHandlersDone, ReloadTyped, shutVars, hostVars
  <2>2. CASE sess[r] = "starting" /\ ~ok
    BY <1>0, <2>1, <2>2, LinearFail
  <2>3. CASE ~(sess[r] = "starting" /\ ~ok)
    <3>1. \A b \in Agents : Open(b)' <=> Open(b)
      BY <1>0, <2>1, <2>3 DEF Open, SeenTyped
    <3> QED
      BY <2>1, <3>1 DEF Linear!vars, Open
  <2> QED
    BY <2>2, <2>3
<1>12. CASE TeardownBegins
  BY <1>0, <1>12, <1>q, <1>s DEF TeardownBegins, SeenTyped, shutVars, hostVars
<1>13. CASE TeardownStep
  BY <1>13, <1>q DEF TeardownStep, TeardownDrains, TeardownFails, TeardownEnds, shutVars, hostVars
<1>14. CASE \E a \in Agents :
              \/ AgentCreated(a) \/ AdoptChildAgent(a) \/ AgentDisposed(a)
              \/ ToolCall(a) \/ ToolReturns(a) \/ ReloadBegins(a)
  BY <1>14, <1>2, <1>4, <1>5, LinearAgent
<1>15. CASE FlushStep \/ ReloadStep
  BY <1>15, <1>3, <1>8, <1>9, <1>10, <1>11 DEF FlushStep, ReloadStep
<1> QED
  BY <1>1, <1>6, <1>7, <1>12, <1>13, <1>14, <1>15, LinearTask DEF Next

\* A switch is linear: the mount implements LinearRuntime, and whenever the
\* extension sees session_start(B), for the first time or once more, no other
\* session is open, and a previous agent that is still alive has finished its
\* session_shutdown (runtime.ts:1941-1951).  In an owned mount always; in a
\* legacy one on a serial host, until it is reloaded.
THEOREM SwitchesAreLinear ==
  ASSUME OwnedOrSerial, LegacyNotReloaded
  PROVE  Spec => LinearSwitch
<1>1. Init => Linear!Init
  BY DEF Init, Linear!Init, Open
<1>2. LinearInv /\ [Next]_vars => [Linear!Next]_Linear!vars
  BY StepRefines
<1>3. ASSUME LinearInv, [Next]_vars
      PROVE  [\A a \in Agents : Dispatches(a) =>
                \A b \in Agents \ {a} :
                  ~Open(b) /\ (life[b] = "live" => \A p \in closing : p[1] # b)]_vars
  BY <1>3, DispatchesAlone
<1> QED
  BY <1>1, <1>2, <1>3, InitLinear, StepLinear, PTL DEF Spec, LinearSwitch, Linear!Spec

\* What moves the await of a tool call.
LEMMA ToolWaits ==
  ASSUME TypeOK, [Next]_vars, NEW a \in Agents
  PROVE  \/ waits'[<<"tool", a>>] = waits[<<"tool", a>>]
         \/ waits'[<<"tool", a>>] = Idle
         \/ ToolCall(a)
         \/ CallerResumes(<<"tool", a>>)
<1>0. StartTyped /\ <<"tool", a>> \in Caller
  BY TypeParts DEF Caller
<1>s. ASSUME NEW c \in Caller, c # <<"tool", a>>, StartPiSession(c)
      PROVE  waits'[<<"tool", a>>] = waits[<<"tool", a>>]
  <2>1. PICK w : waits' = [waits EXCEPT ![c] = w]
    BY <1>s, StartWays DEF Passes, Joins, Replaces, StartsAgain, StartsFresh
  <2> QED
    BY <1>0, <1>s, <2>1 DEF StartTyped
<1>1. ASSUME NEW b \in Agents, AgentCreated(b) PROVE waits'[<<"tool", a>>] = waits[<<"tool", a>>]
  <2>1. <<"created", b>> \in Caller
    BY DEF Caller
  <2> QED
    BY <1>s, <1>1, <2>1 DEF AgentCreated, startVars
<1>2. ASSUME NEW b \in Agents, FlushNext(b) PROVE waits'[<<"tool", a>>] = waits[<<"tool", a>>]
  <2>1. <<"flush", b>> \in Caller
    BY DEF Caller
  <2> QED
    BY <1>s, <1>2, <2>1 DEF FlushNext
<1>3. ASSUME NEW b \in Agents, ToolCall(b), b # a
      PROVE  waits'[<<"tool", a>>] = waits[<<"tool", a>>]
  <2>1. <<"tool", b>> \in Caller /\ <<"tool", b>> # <<"tool", a>>
    BY <1>3 DEF Caller
  <2> QED
    BY <1>s, <1>3, <2>1 DEF ToolCall
<1>4. ASSUME NEW b \in Agents, ToolReturns(b)
      PROVE  waits'[<<"tool", a>>] \in {Idle, waits[<<"tool", a>>]}
  BY <1>0, <1>4 DEF ToolReturns, StartTyped
<1>5. ASSUME NEW c \in Caller, CallerResumes(c), c # <<"tool", a>>
      PROVE  waits'[<<"tool", a>>] = waits[<<"tool", a>>]
  BY <1>0, <1>5 DEF CallerResumes, StartTyped
<1>6. ASSUME NEW b \in Agents, AdoptChildAgent(b) \/ AgentDisposed(b) \/ ReloadBegins(b)
      PROVE  waits' = waits
  BY <1>6 DEF AdoptChildAgent, AgentDisposed, ReloadBegins, startVars
<1>7. ASSUME NEW t \in TaskId, TaskStep(t) PROVE waits' = waits
  BY <1>7 DEF TaskStep, TaskTakesOver, TaskHandoffFails, TaskDispatches, TaskHandlersDone,
     TaskDone, TaskFails
<1>8. ASSUME UNCHANGED vars \/ \E p \in closing, ok \in BOOLEAN : ShutdownSettles(p, ok)
      PROVE  waits' = waits
  BY <1>8 DEF vars, ShutdownSettles, startVars
<1>9. ASSUME FlushBegins \/ FlushEnds \/ ReloadStep \/ TeardownBegins \/ TeardownStep
      PROVE  waits' = waits
  BY <1>9 DEF FlushBegins, FlushEnds, ReloadStep, ReloadClears, ReloadFails, ReloadRestarts,
     RestartEnds, RestartDispatches, RestartHandlersDone, TeardownBegins, TeardownStep,
     TeardownDrains, TeardownFails, TeardownEnds, startVars
<1>10. CASE \E b \in Agents :
              \/ AgentCreated(b) \/ AdoptChildAgent(b) \/ AgentDisposed(b)
              \/ ToolCall(b) \/ ToolReturns(b) \/ ReloadBegins(b)
  BY <1>10, <1>1, <1>3, <1>4, <1>6
<1> QED
  BY <1>2, <1>5, <1>7, <1>8, <1>9, <1>10 DEF Next, FlushStep

\* In an owned mount only the owner calls.
OwnerCalls == owner # NoAgent => \A a \in Agents \ {owner} : waits[<<"tool", a>>] = Idle

\* Only agents the mount accepts call its tools, and a caller that waits was calling.
LEMMA StepOwnerCalls == TypeOK /\ OwnerCalls /\ [Next]_vars => OwnerCalls'
<1> SUFFICES ASSUME TypeOK, OwnerCalls, [Next]_vars, owner # NoAgent, NEW a \in Agents \ {owner}
             PROVE  waits'[<<"tool", a>>] = Idle
  BY SetupStays DEF OwnerCalls, owner
<1>1. ~ToolCall(a)
  BY DEF ToolCall, CanCall
<1>2. ~CallerResumes(<<"tool", a>>)
  BY DEF CallerResumes, OwnerCalls, Idle
<1> QED
  BY <1>1, <1>2, ToolWaits DEF OwnerCalls

\* What a state satisfies that tool calls rely on.
CallInv == OwnedInv /\ OwnerCalls /\ OneAtATime /\ SerialInv

\* Every step keeps it.
LEMMA StepCall == ChildrenOwnSessions /\ CallInv /\ [Next]_vars => CallInv'
<1> SUFFICES ASSUME ChildrenOwnSessions, CallInv, [Next]_vars PROVE CallInv'
  OBVIOUS
<1>1. OwnedInv'
  BY StepOwned DEF CallInv
<1>2. OwnerCalls'
  BY StepOwnerCalls DEF CallInv, OwnedInv
<1>3. OneAtATime' /\ SerialInv'
  BY StepOneAtATime, StepSerial DEF CallInv, OwnedInv
<1> QED
  BY <1>1, <1>2, <1>3 DEF CallInv

\* As long as nothing has been reloaded, a tool or a command only runs once its
\* agent's session is up, whoever else was starting it meanwhile and whatever
\* failed (runtime.ts:1931-1937,1970-1973): in an owned mount whose children
\* have sessions of their own, and in a legacy one on a serial host.
THEOREM ToolsRunAfterStart ==
  ASSUME OwnedOrSerial, ChildrenOwnSessions
  PROVE  Spec => ToolAfterStart
<1>1. Init => CallInv
  BY InitOwned, InitSerial DEF CallInv, Init, OwnerCalls, Caller
<1>2. ASSUME CallInv, [Next]_vars
      PROVE  [\A a \in Agents : (CallPasses(a) /\ reload.count = 0) => sess'[a] = "up"]_vars
  <2> SUFFICES ASSUME NEW a \in Agents, CallPasses(a), reload.count = 0 PROVE sess'[a] = "up"
    OBVIOUS
  <2> USE <1>2
  <2> DEFINE c == <<"tool", a>>
  <2>0. /\ TypeOK /\ HostTyped /\ ShutTyped /\ StartTyped /\ SeenTyped /\ c \in Caller
        /\ AcceptsAgent(a) /\ life[a] = "live" /\ mount \notin Unloaded
        /\ waits[c] # Through /\ waits'[c] = Through
        /\ c[1] = "tool" /\ c[2] = a
    BY TypeParts DEF CallInv, OwnedInv, CallPasses, Caller
  <2>1. ToolCall(a) \/ CallerResumes(c)
    BY <2>0, ToolWaits DEF Idle, Through
  <2>2. ASSUME ToolCall(a)
        PROVE  StartsAgain(c) /\ MayHappen
    <3>1. StartPiSession(c) /\ MayHappen
      BY <2>2, StartWays DEF ToolCall
    <3>2. ~Passes(c)
      BY <2>0 DEF Passes
    <3>3. waits' # [waits EXCEPT ![c] = [state |-> "waiting", on |-> current[SessionOf[a]]]]
          /\ waits' # [waits EXCEPT ![c] = [state |-> "waiting", on |-> TaskOf(c)]]
      BY <2>0 DEF StartTyped, Through
    <3> QED
      BY <2>0, <3>1, <3>2, <3>3, StartWays DEF Joins, Replaces, StartsFresh
  <2>3. ASSUME CallerResumes(c)
        PROVE  /\ waits[c].state = "waiting" /\ waits[c].on \in TaskId
               /\ task[waits[c].on].phase = "done" /\ sess' = sess
    <3>1. /\ waits[c].state = "waiting" /\ task[waits[c].on].phase \in {"done", "failed"}
          /\ waits' = [waits EXCEPT ![c] = Resumed(c, task[waits[c].on].phase)] /\ sess' = sess
      BY <2>3 DEF CallerResumes
    <3>2. Resumed(c, task[waits[c].on].phase) = Through
      BY <2>0, <3>1 DEF StartTyped
    <3>3. task[waits[c].on].phase # "failed"
      BY <3>2 DEF Resumed, Through, Refused
    <3> QED
      BY <2>0, <3>1, <3>3 DEF CallInv, OwnedInv, WaitsOnTask
  <2>4. CASE owner # NoAgent
    <3>1. a = owner
      BY <2>0, <2>1, <2>4 DEF ToolCall, CanCall, CallerResumes, CallInv, OwnerCalls, Idle
    <3>2. OwnerLive
      BY <2>0, <2>4, <3>1 DEF OwnerLive
    <3>3. Started /\ sess' = sess
      <4>1. CASE ToolCall(a)
        BY <2>0, <2>2, <3>1, <4>1 DEF StartsAgain, NewTask, Started, Own
      <4>2. CASE CallerResumes(c)
        BY <2>3, <3>2, <4>2 DEF CallInv, OwnedInv, OneStart
      <4> QED
        BY <2>1, <4>1, <4>2
    <3> QED
      BY <3>1, <3>2, <3>3 DEF CallInv, OwnedInv, OneStart
  <2>5. CASE owner = NoAgent
    <3>1. Serial
      BY <2>0, <2>5 DEF OwnedOrSerial, HostTyped, Serial, owner
    <3>2. SerialState
      BY <2>0, <3>1 DEF CallInv, SerialInv, SerialLive, Torn, Unloaded
    <3>3. CASE ToolCall(a)
      <4>1. NothingUnderWay
        BY <2>2, <3>1, <3>3 DEF MayHappen, Serial
      <4>2. claims # {} => sess[host] = "up"
        BY <2>0, <3>2, <4>1, SerialQuiet
      <4>3. SessionOf[a] \in claims /\ host \in {NoAgent, a} /\ sess' = sess
        BY <2>0, <2>2, <3>3 DEF StartsAgain
      <4>4. host = a
        BY <3>2, <4>3 DEF SerialState, HostClaims
      <4> QED
        BY <4>2, <4>3, <4>4
    <3>4. CASE CallerResumes(c)
      BY <2>0, <2>3, <3>2, <3>4 DEF SerialState, OwnWaits
    <3> QED
      BY <2>1, <3>3, <3>4
  <2> QED
    BY <2>4, <2>5
<1> QED
  BY <1>1, <1>2, StepCall, PTL DEF Spec, ToolAfterStart

=============================================================================
