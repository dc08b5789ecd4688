-------------------------- MODULE EventProjection --------------------------
(***************************************************************************)
(* How a Pi package hears of what its agent does: projectSessionEvent and  *)
(* the listeners around it in subscribeLifecycle, and the replay at the    *)
(* end of a mount, flushPendingSessionStarts (src/src/runtime.ts).         *)
(*                                                                         *)
(* The agent's loop appends events to the session's log; the bridge's      *)
(* listener is synchronous.  Some Pi events it dispatches at once, those   *)
(* that carry content wait in one promise chain (`projection'), since the  *)
(* content is read from the attachment service.  A mount finds an agent    *)
(* that is at work already: it drops what happens while the package loads  *)
(* and replays the turn that is open from the log when it is ready.        *)
(*                                                                         *)
(* Answers are streamed as transient frames (start, chunk, end), on older  *)
(* hosts as events in the log, on some as both.                            *)
(*                                                                         *)
(* The loop is external and modelled by what it logs.  Abstractions: one   *)
(* tool call per step; a chunk is its attempt and its number; hosts with   *)
(* chunks in the log only do not retry within a step.  A prompt's message  *)
(* is projected as an answer is, and titles, models and the calls of tools *)
(* at once: they are left out.                                             *)
(***************************************************************************)
EXTENDS Naturals, Sequences, FiniteSets, FiniteSetsExt

CONSTANTS
  Hosts, \* the kinds of host considered: "frames", "log", "both"
  Bound  \* bounds, per host: the agent's turns, the steps of a turn, attempts at an
         \* answer, chunks of an attempt, compactions, handlers that throw

ASSUME BoundAssumption ==
  /\ Hosts \subseteq {"frames", "log", "both"}
  /\ Bound \in [Hosts -> [turns : Nat, steps : Nat, attempts : Nat, chunks : Nat,
                          compactions : Nat, throws : Nat]]

VARIABLES
  host,       \* which kind of host it is; never changes
  worker,     \* the agent's loop
  log,        \* the session's log
  mount,      \* the package instance: loading, live, closing, closed
  listening,  \* whether the bridge's listeners outlast the start of the unloading
  subscribed, \* whether the package has its message_update handlers
  from,       \* where in the log projection began
  chain,      \* `projection': the events that wait for their turn
  told,       \* how much of the first one's share has been told
  heard,      \* what the chain has told the package
  broken,     \* events with a handler that threw
  before,     \* compactions whose session_before_compact handlers still run
  piTurnIndex,
  numbered,   \* turn_start and turn_end with the index they carry
  ends,       \* turn_end events with the answer and the results they carry
  streams,    \* liveStreams: what is known of the live stream
  text,       \* streamingTexts: the text so far of the step it belongs to
  said,       \* the texts message_update has reported
  closedAt    \* length of the log when the unloading began

hostVars   == <<host, worker, log>>
queueVars  == <<chain, told, heard, broken, before, ends>>
indexVars  == <<piTurnIndex, numbered>>
streamVars == <<streams, text, said>>
mountVars  == <<mount, listening, subscribed, from, closedAt>>
projectionVars == <<hostVars, queueVars, indexVars, streamVars, mountVars>>

NoPart   == <<0, 0>>
NoStream == [attempt |-> 0, turn |-> 0, step |-> 0, index |-> 0, ended |-> TRUE]
NoText   == [turn |-> 0, step |-> 0, parts |-> <<>>]

\* What the chain tells of an event.
Script(kind) ==
  CASE kind \in {"assistant/message", "tool/result"} -> <<"message_start", "message_end">>
    [] kind = "step/end" -> <<"turn_end">>
    [] kind = "turn/end" -> <<"agent_end", "agent_settled">>
    [] kind = "compaction/summary" -> <<"session_compact">>
    [] OTHER -> <<>>

\* Whether an event takes a place in the chain at all.
Waits(kind) == Script(kind) # <<>> \/ kind = "compaction/start"

Where(l, kind, range) == {k \in range : l[k].kind = kind}
SameStep(e, f) == e.turn = f.turn /\ e.step = f.step

\* The places S in the order of the log.
Ordered(S) == [i \in 1 .. Cardinality(S) |-> CHOOSE k \in S : Cardinality({j \in S : j <= k}) = i]

-----------------------------------------------------------------------------
ProjectionInit ==
  /\ host \in Hosts
  /\ worker = [at |-> "idle", turn |-> 0, step |-> 0, attempt |-> 0, sent |-> 0,
             streaming |-> FALSE, compactions |-> 0, resume |-> "idle"]
  /\ log = <<>>
  /\ mount = "loading" /\ listening = TRUE /\ subscribed = FALSE /\ from = 0 /\ closedAt = 0
  /\ chain = <<>> /\ told = 0 /\ heard = <<>> /\ broken = {} /\ before = {} /\ ends = {}
  /\ piTurnIndex = 0 /\ numbered = {}
  /\ streams = NoStream /\ text = NoText /\ said = {}

-----------------------------------------------------------------------------
(* projectSessionEvent, for the events from lo to the end of the log l: one *)
(* event when it is live, many in the replay.                              *)

\* piTurnIndex as the k-th event finds it.
IndexAt(l, lo, k) ==
  LET opened == Where(l, "turn/start", lo .. k - 1)
      since  == IF opened = {} THEN lo ELSE Max(opened)
  IN (IF opened = {} THEN piTurnIndex ELSE 0) + Cardinality(Where(l, "step/end", since .. k - 1))

\* A chunk in the log counts only while no live stream has been seen.
Counts(l, k) == l[k].kind = "assistant/chunk" /\ streams = NoStream

\* The text told with the k-th event: each step has its own, an answer ends it.
TextAt(l, lo, k) ==
  LET cuts  == {j \in lo .. k - 1 : l[j].kind = "assistant/message" \/ ~SameStep(l[j], l[k])}
      since == IF cuts = {} THEN lo ELSE Max(cuts) + 1
      new   == Ordered(Where(l, "assistant/chunk", since .. k))
      old   == IF cuts = {} /\ SameStep(text, l[k]) THEN text.parts ELSE <<>>
  IN old \o [i \in 1 .. Len(new) |-> l[new[i]].part]

ProjectTexts(l, lo) ==
  LET chunks == {k \in lo .. Len(l) : Counts(l, k)}
      newest == Max(chunks)
      ended  == {k \in lo .. Len(l) : l[k].kind = "assistant/message"}
      latest == IF chunks = {} THEN text
                ELSE [turn |-> l[newest].turn, step |-> l[newest].step, parts |-> TextAt(l, lo, newest)]
  IN /\ said' = said \cup {TextAt(l, lo, k) : k \in chunks}
     /\ text' = IF \E k \in ended : SameStep(l[k], latest) THEN NoText ELSE latest

Project(l, lo) ==
  /\ chain' = chain \o Ordered({k \in lo .. Len(l) : Waits(l[k].kind)})
  /\ before' = before \cup Where(l, "compaction/start", lo .. Len(l))
  /\ piTurnIndex' = IndexAt(l, lo, Len(l) + 1)
  /\ numbered' = numbered \cup
       {[at |-> k, index |-> IndexAt(l, lo, k)] :
          k \in Where(l, "step/start", lo .. Len(l)) \cup Where(l, "step/end", lo .. Len(l))}
  /\ ProjectTexts(l, lo)
  /\ UNCHANGED <<told, heard, broken, ends, streams>>

\* A fault: events are projected although the package is not ready for them.
Heard_Always(l) == Project(l, Len(l))

\* The listener of session/event drops what comes before the package is live.
Heard(l) ==
  IF mount \in {"live", "closing"} /\ listening
  THEN Project(l, Len(l))
  ELSE UNCHANGED <<queueVars, indexVars, streamVars>>

\* The loop appends an event, and the listener hears it.
Logged(kind, turn, step, part) ==
  /\ log' = Append(log, [kind |-> kind, turn |-> turn, step |-> step, part |-> part])
  /\ Heard(log')

-----------------------------------------------------------------------------
(* The listener of agent/assistant-stream.                                 *)

Framed == host \in {"frames", "both"}

FrameStart(a) ==
  /\ streams' = [attempt |-> a, turn |-> worker.turn, step |-> worker.step, index |-> 0, ended |-> FALSE]
  /\ text' = IF SameStep(text, worker) THEN NoText ELSE text
  /\ UNCHANGED said

FreshChunk(a, i) == streams.attempt = a /\ ~streams.ended /\ i > streams.index

FrameChunk(a, i) ==
  LET parts == Append(IF SameStep(text, streams) THEN text.parts ELSE <<>>, <<a, i>>)
  IN IF ~FreshChunk(a, i)
     THEN UNCHANGED streamVars
     ELSE /\ streams' = [streams EXCEPT !.index = i]
          /\ IF subscribed
             THEN /\ text' = [turn |-> streams.turn, step |-> streams.step, parts |-> parts]
                  /\ said' = said \cup {parts}
             ELSE UNCHANGED <<text, said>>

FrameEnd(a) ==
  /\ IF streams.attempt = a /\ ~streams.ended
     THEN /\ streams' = [streams EXCEPT !.ended = TRUE]
          /\ text' = IF SameStep(text, streams) THEN NoText ELSE text
     ELSE UNCHANGED <<streams, text>>
  /\ UNCHANGED said

-----------------------------------------------------------------------------
(* The agent's loop.                                                       *)

LoopGoes(at) == worker' = [worker EXCEPT !.at = at]

Logs(kind) == Logged(kind, worker.turn, worker.step, NoPart) /\ UNCHANGED <<host, mountVars>>

OpenTurn ==
  /\ worker.at = "idle" /\ worker.turn < Bound[host].turns
  /\ worker' = [worker EXCEPT !.at = "turn", !.turn = @ + 1, !.step = 0]
  /\ Logged("turn/start", worker.turn + 1, 0, NoPart)
  /\ UNCHANGED <<host, mountVars>>

OpenStep ==
  /\ worker.at = "turn" /\ worker.step < Bound[host].steps
  /\ worker' = [worker EXCEPT !.at = "step", !.step = @ + 1]
  /\ Logged("step/start", worker.turn, worker.step + 1, NoPart)
  /\ UNCHANGED <<host, mountVars>>

Attempt ==
  /\ worker.at = "step" /\ ~worker.streaming /\ worker.attempt < Bound[host].attempts
  /\ host = "log" => ~\E k \in 1 .. Len(log) : log[k].kind = "assistant/chunk" /\ SameStep(log[k], worker)
  /\ worker' = [worker EXCEPT !.attempt = @ + 1, !.sent = 0, !.streaming = TRUE]
  /\ IF Framed THEN FrameStart(worker.attempt + 1) ELSE UNCHANGED streamVars
  /\ UNCHANGED <<host, log, queueVars, indexVars, mountVars>>

\* The next chunk: as a frame, as an event, or as both.
SendFrame ==
  /\ worker.streaming /\ worker.sent < Bound[host].chunks /\ host = "frames"
  /\ worker' = [worker EXCEPT !.sent = @ + 1]
  /\ FrameChunk(worker.attempt, worker.sent + 1)
  /\ UNCHANGED <<host, log, queueVars, indexVars, mountVars>>

LogChunk ==
  /\ worker.streaming /\ worker.sent < Bound[host].chunks /\ host = "log"
  /\ worker' = [worker EXCEPT !.sent = @ + 1]
  /\ Logged("assistant/chunk", worker.turn, worker.step, <<worker.attempt, worker.sent + 1>>)
  /\ UNCHANGED <<host, mountVars>>

\* On a host that does both, the event follows the frame.
SendFirst ==
  /\ worker.streaming /\ worker.sent < Bound[host].chunks /\ host = "both" /\ worker.at = "step"
  /\ worker' = [worker EXCEPT !.sent = @ + 1, !.at = "copying"]
  /\ FrameChunk(worker.attempt, worker.sent + 1)
  /\ UNCHANGED <<host, log, queueVars, indexVars, mountVars>>

LogSecond ==
  /\ worker.at = "copying"
  /\ LoopGoes("step")
  /\ Logged("assistant/chunk", worker.turn, worker.step, <<worker.attempt, worker.sent>>)
  /\ UNCHANGED <<host, mountVars>>

\* A frame comes again, of this attempt or an earlier one.
Repeated ==
  /\ Framed
  /\ \E a \in 1 .. worker.attempt : \E i \in 1 .. Bound[host].chunks :
       /\ a = worker.attempt => i <= worker.sent
       /\ FrameChunk(a, i)
  /\ UNCHANGED <<hostVars, queueVars, indexVars, mountVars>>

StreamEnds ==
  /\ worker.at = "step" /\ worker.streaming
  /\ worker' = [worker EXCEPT !.streaming = FALSE,
                          !.at = IF worker.sent = Bound[host].chunks THEN "answering" ELSE "step"]
  /\ IF Framed THEN FrameEnd(worker.attempt) ELSE UNCHANGED streamVars
  /\ UNCHANGED <<host, log, queueVars, indexVars, mountVars>>

Answer   == worker.at = "answering" /\ LoopGoes("answered") /\ Logs("assistant/message")
ToolEnds == worker.at = "answered" /\ LoopGoes("called") /\ Logs("tool/result")

CloseStep ==
  /\ worker.at \in {"step", "answered", "called"} /\ ~worker.streaming
  /\ LoopGoes("turn") /\ Logs("step/end")

CloseTurn ==
  /\ worker.at = "turn" /\ worker.step > 0
  /\ LoopGoes("idle") /\ Logs("turn/end")

Compact ==
  /\ worker.at \in {"idle", "turn"} /\ worker.compactions < Bound[host].compactions
  /\ worker' = [worker EXCEPT !.at = "compacting", !.resume = worker.at, !.compactions = @ + 1]
  /\ Logs("compaction/start")

Summarize == worker.at = "compacting" /\ LoopGoes(worker.resume) /\ Logs("compaction/summary")

CompactionFails ==
  /\ worker.at = "compacting" /\ LoopGoes(worker.resume)
  /\ UNCHANGED <<host, log, queueVars, indexVars, streamVars, mountVars>>

-----------------------------------------------------------------------------
(* The chain.                                                              *)

First == Head(chain)
Kind  == log[First].kind

\* A fault: whatever the turn has logged counts.
OfStep_Turn(k, kind) == {j \in 1 .. Len(log) : log[j].kind = kind /\ log[j].turn = log[k].turn}

OfStep(k, kind) == {j \in 1 .. Len(log) : log[j].kind = kind /\ SameStep(log[j], log[k])}

\* What turn_end carries: the step's last answer, if any, and its results.
TurnEnd(k) ==
  [at |-> k, answer |-> Max({0} \cup OfStep(k, "assistant/message")), results |-> OfStep(k, "tool/result")]

NextTask == chain' = Tail(chain) /\ told' = 0

\* A fault: a compaction passes an earlier failure on.
PassOver_Rejected ==
  /\ chain # <<>> /\ Script(Kind) = <<>>
  /\ First \notin before /\ broken = {}
  /\ NextTask
  /\ UNCHANGED <<heard, broken, before, ends>>

\* A compaction holds the chain up until its handlers have returned.
PassOver ==
  /\ chain # <<>> /\ Script(Kind) = <<>>
  /\ First \notin before
  /\ NextTask
  /\ UNCHANGED <<heard, broken, before, ends>>

\* The next event of the first task; its handlers return.
Tell ==
  /\ chain # <<>> /\ Script(Kind) # <<>>
  /\ heard' = Append(heard, [event |-> Script(Kind)[told + 1], at |-> First])
  /\ ends' = IF Kind = "step/end" THEN ends \cup {TurnEnd(First)} ELSE ends
  /\ IF told + 1 < Len(Script(Kind)) THEN told' = told + 1 /\ UNCHANGED chain ELSE NextTask
  /\ UNCHANGED <<broken, before>>

\* Reading the content fails, or the first handler throws: what is left of
\* this task is dropped, and no more.
TellThrows ==
  /\ chain # <<>> /\ Script(Kind) # <<>> /\ Cardinality(broken) < Bound[host].throws
  /\ broken' = broken \cup {First}
  /\ NextTask
  /\ UNCHANGED <<heard, before, ends>>

BeforeReturns ==
  /\ \E k \in before : before' = before \ {k}
  /\ UNCHANGED <<chain, told, heard, broken, ends>>

Queue ==
  /\ PassOver \/ Tell \/ TellThrows \/ BeforeReturns
  /\ UNCHANGED <<hostVars, indexVars, streamVars, mountVars>>

-----------------------------------------------------------------------------
(* The mount.                                                              *)

\* The package registers its handlers while it loads.
Subscribe ==
  /\ mount = "loading" /\ ~subscribed
  /\ subscribed' = TRUE
  /\ UNCHANGED <<mount, listening, from, closedAt, hostVars, queueVars, indexVars, streamVars>>

OpenTurnStart ==
  LET starts == Where(log, "turn/start", 1 .. Len(log))
      ended  == Where(log, "turn/end", 1 .. Len(log))
  IN IF starts # {} /\ \A k \in ended : k < Max(starts) THEN Max(starts) ELSE Len(log) + 1

\* The turn that is open, if one is.
ReplayFrom == OpenTurnStart

\* The package has loaded and its session_start has returned: replay and go live, without a break.
GoLive ==
  /\ mount = "loading" /\ subscribed
  /\ mount' = "live"
  /\ from' = ReplayFrom
  /\ Project(log, ReplayFrom)
  /\ UNCHANGED <<listening, subscribed, closedAt, hostVars>>

\* When its listeners go is up to the host's framework.
Unload ==
  /\ mount = "live"
  /\ listening' \in BOOLEAN
  /\ mount' = "closing" /\ closedAt' = Len(log)
  /\ UNCHANGED <<subscribed, from, hostVars, queueVars, indexVars, streamVars>>

\* A fault: the chain is not waited for.
ShutDown_AtOnce ==
  /\ mount = "closing"
  /\ mount' = "closed"
  /\ UNCHANGED <<listening, subscribed, from, closedAt, hostVars, queueVars, indexVars, streamVars>>

\* The teardown has awaited the chain as it was: session_shutdown follows.
ShutDown ==
  /\ mount = "closing"
  /\ \A i \in 1 .. Len(chain) : chain[i] > closedAt
  /\ mount' = "closed"
  /\ UNCHANGED <<listening, subscribed, from, closedAt, hostVars, queueVars, indexVars, streamVars>>

-----------------------------------------------------------------------------
WorkerStep ==
  \/ OpenTurn \/ OpenStep \/ Attempt
  \/ SendFrame \/ LogChunk \/ SendFirst \/ LogSecond \/ Repeated \/ StreamEnds
  \/ Answer \/ ToolEnds \/ CloseStep \/ CloseTurn
  \/ Compact \/ Summarize \/ CompactionFails

Mount == Subscribe \/ GoLive \/ Unload \/ ShutDown

ProjectionNext == WorkerStep \/ Queue \/ Mount

ProjectionSpec == ProjectionInit /\ [][ProjectionNext]_projectionVars

\* Handlers return or throw, and promises go on.
FairSpec == ProjectionSpec /\ WF_projectionVars(Queue) /\ WF_projectionVars(ShutDown)

-----------------------------------------------------------------------------
(* Properties.                                                             *)

Events == {"message_start", "message_end", "turn_end", "agent_end", "agent_settled", "session_compact"}
Kinds == {"turn/start", "turn/end", "step/start", "step/end", "assistant/chunk",
          "assistant/message", "tool/result", "compaction/start", "compaction/summary"}

\* The types of the state, and the sizes of its bounded parts.
ProjectionTypeOK ==
  /\ host \in Hosts /\ mount \in {"loading", "live", "closing", "closed"}
  /\ worker.turn <= Bound[host].turns /\ worker.step <= Bound[host].steps /\ worker.attempt <= Bound[host].attempts
  /\ \A k \in 1 .. Len(log) : log[k].kind \in Kinds
  /\ {listening, subscribed} \subseteq BOOLEAN /\ told \in {0, 1}
  /\ {chain[i] : i \in 1 .. Len(chain)} \cup broken \cup before \subseteq 1 .. Len(log)
  /\ \A i \in 1 .. Len(heard) : heard[i].event \in Events /\ heard[i].at \in 1 .. Len(log)
  /\ from \in 0 .. Len(log) + 1 /\ closedAt \in 0 .. Len(log)

\* A package hears in the order of the log: whatever waits for an attachment
\* or for a handler, a later event's share never comes before an earlier
\* one's, and nothing comes twice (the one stream of runtime.ts 240-245).
InLogOrder ==
  \A i, j \in 1 .. Len(heard) : i < j =>
    \/ heard[i].at < heard[j].at
    \/ /\ heard[i].at = heard[j].at
       /\ <<heard[i].event, heard[j].event>> = Script(log[heard[i].at].kind)

HeardAll(k) ==
  \A n \in 1 .. Len(Script(log[k].kind)) :
    \E i \in 1 .. Len(heard) : heard[i] = [event |-> Script(log[k].kind)[n], at |-> k]

\* The seam between the replay and live delivery has no gap: once live, an
\* event of the turn that was open, or of a later one, has been told in full,
\* waits in the chain, or had a handler that threw.  A package that has been
\* shut down waits for nothing that was logged before its unloading began
\* (2243-2248, 2290-2314).
NothingLost ==
  /\ ProjectionTypeOK
  /\ mount # "loading" =>
       \A k \in from .. (IF mount # "closed" /\ listening THEN Len(log) ELSE closedAt) :
         \/ HeardAll(k) \/ k \in broken
         \/ mount # "closed" /\ \E i \in 1 .. Len(chain) : chain[i] = k

\* turn_end carries the answer and the results of its own model call, also
\* when the loop is far ahead of the chain (2104-2119).
TurnEndIsItsOwn ==
  \A e \in ends :
    LET opened == Max(Where(log, "step/start", 1 .. e.at))
    IN /\ e.answer = Max({0} \cup Where(log, "assistant/message", opened .. e.at))
       /\ e.results = Where(log, "tool/result", opened .. e.at)

\* turn_start and turn_end carry the number of the model call within its
\* prompt, for a package that was loaded in the middle of one as well.
NumberedWithinPrompt ==
  \A n \in numbered :
    n.index = Cardinality({k \in Where(log, "step/end", 1 .. n.at - 1) : log[k].turn = log[n.at].turn})

\* No text is put together of two attempts, and none counts a chunk twice,
\* whatever frames come late or again and whether the host logs chunks too.
OneAttempt ==
  \A t \in said : \A i, j \in 1 .. Len(t) : i < j => t[i][1] = t[j][1] /\ t[i][2] < t[j][2]

\* What a Pi event says of a model call is about that call alone.
OneModelCall == TurnEndIsItsOwn /\ NumberedWithinPrompt /\ OneAttempt

\* A handler that throws does not keep the package from unloading.
UnloadCompletes == mount = "closing" ~> mount = "closed"
=============================================================================
