---------------------------- MODULE ChildSession ----------------------------
(***************************************************************************)
(* PiBridgedAgentSession (src/src/subagent-bridge.ts): the Pi session a    *)
(* package holds on a DSH child agent.  A caller prompts, seeds, aborts    *)
(* and disposes of it; the child runs turns of its own and writes a log    *)
(* whose events #project turns into Pi events.                             *)
(*                                                                         *)
(* #project runs in the log's own event, except for what needs the         *)
(* attachment service: messages, and the turn ends behind them, go through *)
(* one promise chain (#messageProjection).  prompt() is a run of steps     *)
(* with an await between any two.                                          *)
(*                                                                         *)
(* The child agent is external and is modelled from what the bridge relies *)
(* on: its inbox keeps what it is given, a followup or a wake-up opens a   *)
(* turn, an injected message waits for one, and a cancel is a no-op until  *)
(* the driver has claimed the turn's activity.                             *)
(***************************************************************************)
EXTENDS Naturals, Sequences, SequencesExt

CONSTANTS
  Seeds,       \* messages a package may assign to state.messages
  MaxPrompts,  \* bound: prompts issued
  MaxWakes,    \* bound: wake-ups that do not come from prompt()
  MaxSteps,    \* bound: model requests of one turn
  CanDispose   \* whether the session and its agent may be disposed of

ASSUME BoundsAssumption ==
  /\ MaxPrompts \in Nat /\ MaxWakes \in Nat /\ MaxSteps \in Nat \ {0}
  /\ CanDispose \in BOOLEAN

VARIABLES
  caller,      \* the running prompt() call
  issued,      \* how many prompts were issued
  answered,    \* the turns of the prompts that resolved on a live session
  aborted,     \* #aborted
  seed,        \* #seed: assigned, not yet carried into the log
  known,       \* the assigned messages that are in `messages'
  disposed,    \* dispose() has run its synchronous part
  gone,        \* the child agent is disposed of
  inbox,       \* the child's inbox
  turn,        \* the child's current turn
  wakes,       \* how many wake-ups there were
  log,         \* the projected part of the child's log: messages, turn ends
  chain,       \* #messageProjection: what is still behind it
  emitted,     \* what it delivered to the subscribers
  assistants,  \* the assistant messages in `messages', with their stopReason
  latest       \* #turnAssistant: which of them is the last projected one

promptVars  == <<caller, issued, answered>>
seedVars    == <<seed, known>>
childVars   == <<inbox, turn, wakes, log>>
projectVars == <<emitted, assistants, latest>>
vars == <<promptVars, aborted, seedVars, disposed, gone, childVars, chain, projectVars>>

MaxTurns == MaxPrompts + MaxWakes
Reasons  == {"stop", "aborted", "error"}
Entry    == [turn : 1 .. MaxTurns, what : {"user", "assistant"} \cup Reasons]
Idle     == [at |-> "idle", carrying |-> {}, turn |-> 0, done |-> "no", ahead |-> 0]

TypeOK ==
  /\ caller \in [at : {"idle", "seed", "content", "waiting", "draining"},
                 carrying : SUBSET Seeds, turn : 0 .. MaxTurns,
                 done : {"no", "resolved", "rejected"}, ahead : Nat]
  /\ issued \in 0 .. MaxPrompts
  /\ answered \subseteq 0 .. MaxTurns
  /\ aborted \in BOOLEAN /\ disposed \in BOOLEAN /\ gone \in BOOLEAN
  /\ seed \subseteq Seeds /\ known \subseteq Seeds
  /\ inbox \in Seq({"inject", "wake", "prompt"})
  /\ turn \in [n : 0 .. MaxTurns, steps : 0 .. MaxSteps, live : BOOLEAN, cancelled : BOOLEAN,
               phase : {"idle", "opened", "stepping", "requested", "answered"}]
  /\ wakes \in 0 .. MaxWakes
  /\ log \in Seq(Entry) /\ chain \in Seq(Entry) /\ emitted \in Seq(Entry)
  /\ assistants \in Seq([turn : 1 .. MaxTurns, stop : Reasons \cup {"none"}])
  /\ latest \in 0 .. Len(assistants)

Init ==
  /\ caller = Idle /\ issued = 0 /\ answered = {}
  /\ aborted = FALSE /\ disposed = FALSE /\ gone = FALSE
  /\ seed = {} /\ known = {}
  /\ inbox = <<>> /\ wakes = 0
  /\ turn = [n |-> 0, steps |-> 0, live |-> FALSE, cancelled |-> FALSE, phase |-> "idle"]
  /\ log = <<>> /\ chain = <<>> /\ emitted = <<>>
  /\ assistants = <<>> /\ latest = 0

-----------------------------------------------------------------------------
(* Helpers.                                                                *)

\* #cancelChild on turn t: without a live activity it does nothing.
Cancelled(t) == IF t.live /\ t.phase # "idle" THEN [t EXCEPT !.cancelled = TRUE] ELSE t

\* A fault: an aborted child is cancelled at turn/start only.
Guarded_TurnStartOnly(t) == IF aborted /\ t.phase = "opened" THEN Cancelled(t) ELSE t

\* What #project does with an opening event (turn/start, step/start,
\* request/header) that leaves the child at turn t.
Guarded(t) == IF aborted /\ ~disposed THEN Cancelled(t) ELSE t

\* The child's log grows; #project puts it on the chain.  dispose() ends the
\* subscription to the log: what the child still writes is not kept.
Append2Log(entries) ==
  /\ log' = IF disposed THEN log ELSE log \o entries
  /\ chain' = IF disposed THEN chain ELSE chain \o entries

-----------------------------------------------------------------------------
(* The caller.                                                             *)

\* state.messages = next: what `messages' lacks becomes the seed.
AssignTranscript(next) ==
  /\ seed' = next \ known
  /\ known' = known \cup next
  /\ UNCHANGED <<promptVars, aborted, disposed, gone, childVars, chain, projectVars>>

\* prompt(): exclusive, lifts an abort, takes the seed.
Prompt ==
  /\ caller.at = "idle"
  /\ issued < MaxPrompts
  /\ issued' = issued + 1
  /\ aborted' = FALSE
  /\ caller' = [Idle EXCEPT !.at = IF seed = {} THEN "content" ELSE "seed",
                            !.carrying = seed]
  /\ seed' = {}
  /\ UNCHANGED <<answered, known, disposed, gone, childVars, chain, projectVars>>

\* The rendered seed is injected; a disposed agent has no delivery.
InjectSeed ==
  /\ caller.at = "seed"
  /\ IF gone
     THEN /\ caller' = Idle
          /\ UNCHANGED inbox
     ELSE /\ caller' = [caller EXCEPT !.at = "content", !.carrying = {}]
          /\ inbox' = Append(inbox, "inject")
  /\ UNCHANGED <<issued, answered, aborted, seed, known, disposed, gone, turn,
                 wakes, log, chain, projectVars>>

\* The listeners are registered and the prompt is delivered in one run.
DeliverPrompt ==
  /\ caller.at = "content"
  /\ IF gone
     THEN /\ caller' = Idle
          /\ UNCHANGED inbox
     ELSE /\ caller' = [caller EXCEPT !.at = "waiting"]
          /\ inbox' = Append(inbox, "prompt")
  /\ UNCHANGED <<issued, answered, aborted, seedVars, disposed, gone, turn,
                 wakes, log, chain, projectVars>>

\* A fault: prompt() does not drain the projection chain.
AwaitProjection_NoDrain ==
  /\ caller.at = "waiting"
  /\ caller.done = "resolved"
  /\ caller' = [caller EXCEPT !.at = "draining", !.ahead = 0]
  /\ UNCHANGED <<issued, answered, aborted, seedVars, disposed, gone, childVars,
                 chain, projectVars>>

\* `completed' resolved: wait for what is on the chain now.
AwaitProjection ==
  /\ caller.at = "waiting"
  /\ caller.done = "resolved"
  /\ caller' = [caller EXCEPT !.at = "draining", !.ahead = Len(chain)]
  /\ UNCHANGED <<issued, answered, aborted, seedVars, disposed, gone, childVars,
                 chain, projectVars>>

PromptResolves ==
  /\ caller.at = "draining"
  /\ caller.ahead = 0
  /\ answered' = IF disposed THEN answered ELSE answered \cup {caller.turn}
  /\ caller' = Idle
  /\ UNCHANGED <<issued, aborted, seedVars, disposed, gone, childVars, chain, projectVars>>

PromptRejects ==
  /\ caller.at = "waiting"
  /\ caller.done = "rejected"
  /\ caller' = Idle
  /\ UNCHANGED <<issued, answered, aborted, seedVars, disposed, gone, childVars,
                 chain, projectVars>>

Abort ==
  /\ aborted' = TRUE
  /\ turn' = Cancelled(turn)
  /\ UNCHANGED <<promptVars, seedVars, disposed, gone, inbox, wakes, log, chain, projectVars>>

\* `completed' settles once.
Reject(c) == IF c.at = "waiting" /\ c.done = "no" THEN [c EXCEPT !.done = "rejected"] ELSE c

\* dispose() up to the handle's own disposal: a prompt past its delivery is
\* rejected, every listener and subscriber is dropped.
Dispose ==
  /\ CanDispose
  /\ ~disposed
  /\ disposed' = TRUE
  /\ caller' = Reject(caller)
  /\ UNCHANGED <<issued, answered, aborted, seedVars, gone, childVars, chain, projectVars>>

-----------------------------------------------------------------------------
(* The child agent.                                                        *)

\* Input that does not come from prompt(): a steer or a followUp, a tool
\* result that reaches quiescence.
Wake ==
  /\ ~gone
  /\ wakes < MaxWakes
  /\ wakes' = wakes + 1
  /\ inbox' = Append(inbox, "wake")
  /\ UNCHANGED <<promptVars, aborted, seedVars, disposed, gone, turn, log, chain, projectVars>>

\* The messages of the inbox that open a turn.
Waking == {i \in 1 .. Len(inbox) : inbox[i] # "inject"}

\* A turn opens, and claims the inbox up to the first of them:
\* agent/inbox/claimed tells prompt() its turn.
TurnOpens ==
  /\ ~gone
  /\ turn.phase = "idle"
  /\ \E claim \in Waking, live \in BOOLEAN :
       /\ \A i \in Waking : claim <= i
       /\ turn' = Guarded([n |-> turn.n + 1, steps |-> 0, live |-> live,
                           cancelled |-> FALSE, phase |-> "opened"])
       /\ Append2Log([i \in 1 .. claim |-> [turn |-> turn.n + 1, what |-> "user"]])
       /\ caller' = IF inbox[claim] = "prompt" /\ caller.at = "waiting"
                    THEN [caller EXCEPT !.turn = turn.n + 1] ELSE caller
       /\ inbox' = SubSeq(inbox, claim + 1, Len(inbox))
  /\ UNCHANGED <<issued, answered, aborted, seedVars, disposed, gone, wakes, projectVars>>

\* step/start.
StepStarts ==
  /\ turn.phase \in {"opened", "answered"}
  /\ ~turn.cancelled
  /\ turn.steps < MaxSteps
  /\ \E live \in {turn.live, TRUE} :
       turn' = Guarded([turn EXCEPT !.phase = "stepping", !.steps = @ + 1, !.live = live])
  /\ UNCHANGED <<promptVars, aborted, seedVars, disposed, gone, inbox, wakes, log,
                 chain, projectVars>>

\* request/header: by now the driver has its activity.
RequestSent ==
  /\ turn.phase = "stepping"
  /\ ~turn.cancelled
  /\ turn' = Guarded([turn EXCEPT !.phase = "requested", !.live = TRUE])
  /\ UNCHANGED <<promptVars, aborted, seedVars, disposed, gone, inbox, wakes, log,
                 chain, projectVars>>

\* assistant/message: complete, or what a cancelled request had produced.
AssistantMessage ==
  /\ turn.phase = "requested"
  /\ turn' = [turn EXCEPT !.phase = "answered"]
  /\ Append2Log(<<[turn |-> turn.n, what |-> "assistant"]>>)
  /\ UNCHANGED <<promptVars, aborted, seedVars, disposed, gone, inbox, wakes, projectVars>>

\* The prompt's own turn/end listener.
Completes(c) == c.at = "waiting" /\ c.done = "no" /\ c.turn = turn.n

\* turn/end.
TurnEnds ==
  /\ turn.phase # "idle"
  /\ \E reason \in Reasons :
       /\ reason = "aborted" <=> turn.cancelled
       /\ reason = "stop" => turn.phase = "answered"
       /\ Append2Log(<<[turn |-> turn.n, what |-> reason]>>)
  /\ turn' = [turn EXCEPT !.phase = "idle", !.live = FALSE]
  /\ caller' = IF Completes(caller) THEN [caller EXCEPT !.done = "resolved"] ELSE caller
  /\ UNCHANGED <<issued, answered, aborted, seedVars, disposed, gone, inbox, wakes,
                 projectVars>>

\* A fault: prompt() does not listen for agent/disposed.
AgentGone_Unheard ==
  /\ CanDispose
  /\ ~gone
  /\ gone' = TRUE
  /\ turn' = [turn EXCEPT !.phase = "idle", !.live = FALSE]
  /\ inbox' = <<>>
  /\ UNCHANGED <<promptVars, aborted, seedVars, disposed, wakes, log, chain, projectVars>>

\* The host disposes of the child, or the handle's disposal completes.
AgentGone ==
  /\ CanDispose
  /\ ~gone
  /\ gone' = TRUE
  /\ turn' = [turn EXCEPT !.phase = "idle", !.live = FALSE]
  /\ inbox' = <<>>
  /\ caller' = Reject(caller)
  /\ UNCHANGED <<issued, answered, aborted, seedVars, disposed, wakes, log, chain, projectVars>>

-----------------------------------------------------------------------------
(* The projection chain.                                                   *)

\* #turnAssistant belongs to the turn that ends.
IsOwn(n) == latest # 0 /\ assistants[latest].turn = n

\* One link of the chain: a message joins `messages', a turn end stamps the
\* turn's last assistant message with its stopReason, or adds one to carry it.
Describe(e) ==
  CASE e.what = "user" -> UNCHANGED <<assistants, latest>>
    [] e.what = "assistant" ->
         /\ assistants' = Append(assistants, [turn |-> e.turn, stop |-> "none"])
         /\ latest' = Len(assistants) + 1
    [] OTHER ->
         /\ UNCHANGED latest
         /\ assistants' =
              IF IsOwn(e.turn) THEN [assistants EXCEPT ![latest].stop = e.what]
              ELSE IF e.what = "stop" THEN assistants
              ELSE Append(assistants, [turn |-> e.turn, stop |-> e.what])

\* The chain prompt() awaits gets shorter.
Awaited == IF caller.ahead = 0 THEN caller ELSE [caller EXCEPT !.ahead = @ - 1]

\* #emit: dispose() has dropped the subscribers.
Emit(e) == emitted' = IF disposed THEN emitted ELSE Append(emitted, e)

\* A fault: the projections are not chained and finish in any order.
Project_Unchained ==
  /\ \E i \in DOMAIN chain :
       /\ Describe(chain[i])
       /\ Emit(chain[i])
       /\ chain' = RemoveAt(chain, i)
  /\ caller' = Awaited
  /\ UNCHANGED <<issued, answered, aborted, seedVars, disposed, gone, childVars>>

Project ==
  /\ chain # <<>>
  /\ Describe(Head(chain))
  /\ Emit(Head(chain))
  /\ chain' = Tail(chain)
  /\ caller' = Awaited
  /\ UNCHANGED <<issued, answered, aborted, seedVars, disposed, gone, childVars>>

-----------------------------------------------------------------------------
PromptStep ==
  \/ InjectSeed \/ DeliverPrompt \/ AwaitProjection \/ PromptResolves \/ PromptRejects

ChildStep == TurnOpens \/ StepStarts \/ RequestSent \/ AssistantMessage \/ TurnEnds

Next ==
  \/ \E next \in (SUBSET Seeds) \ {{}} : AssignTranscript(next)
  \/ Prompt \/ Abort \/ Dispose \/ Wake
  \/ PromptStep \/ ChildStep \/ AgentGone \/ Project

Spec == Init /\ [][Next]_vars

\* Awaited work goes on: prompt() after each await, the projections, the
\* child's turn, and the disposal of an agent that dispose() asked for.
Fairness ==
  /\ WF_vars(PromptStep)
  /\ WF_vars(ChildStep)
  /\ WF_vars(Project)
  /\ WF_vars(disposed /\ AgentGone)

FairSpec == Spec /\ Fairness

-----------------------------------------------------------------------------
(* Properties.                                                             *)

Places(s, n) == {k \in DOMAIN s : s[k].turn = n}

Failed(e) == e.what \in Reasons \ {"stop"}

\* The stopReason a caller reads on an assistant message is the one its own
\* turn ended with, and every failed turn left one (subagent-bridge.ts:450-466).
StopReasonsTrue ==
  /\ \A i \in DOMAIN assistants :
       assistants[i].stop # "none" =>
         \E k \in DOMAIN log :
           log[k] = [turn |-> assistants[i].turn, what |-> assistants[i].stop]
  /\ \A k \in DOMAIN emitted :
       Failed(emitted[k]) =>
         \E i \in DOMAIN assistants :
           assistants[i] = [turn |-> emitted[k].turn, stop |-> emitted[k].what]

\* A prompt that resolved has had its own turn: the turn is over, every message
\* event it logged, and its end, reached the subscribers (541-544), and what the
\* caller then reads as the outcome of a turn is that turn's outcome.
PromptMeansDelivered ==
  /\ TypeOK
  /\ StopReasonsTrue
  /\ \A n \in answered :
       /\ \E i \in DOMAIN emitted : emitted[i].turn = n /\ emitted[i].what \in Reasons
       /\ Places(emitted, n) = Places(log, n)
       /\ \A k \in Places(log, n) : emitted[k] = log[k]

Feed == INSTANCE OrderedFeed WITH open <- ~disposed, heard <- emitted

\* The chain of projections implements the feed a subscriber is promised: what
\* the child logs while the session lives, in the order of its log, a turn's
\* end behind its messages, and nothing once it is disposed of (413-416, 441-443,
\* 721).
FeedIsOrdered == Feed!Spec

\* An aborted child stays quiet: whatever wakes it, no request of it runs on
\* uncancelled before the next prompt (subagent-bridge.ts:349-360).
AbortHolds ==
  (aborted /\ ~disposed /\ turn.phase = "requested") => turn.cancelled

\* Nothing hangs: every prompt settles, wherever a disposal meets it
\* (subagent-bridge.ts:525-551), and the feed reaches a subscriber who stays.
NothingHangs ==
  /\ caller.at # "idle" ~> caller.at = "idle"
  /\ Feed!Fairness

=============================================================================
