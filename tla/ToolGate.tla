------------------------------ MODULE ToolGate ------------------------------
(***************************************************************************)
(* What Pi packages may do to a turn: subscribeInterceptors and            *)
(* runBeforeAgentStart (src/src/runtime.ts), the execution of a Pi tool    *)
(* and nested calls (src/src/nested-tools.ts).                             *)
(*                                                                         *)
(* Every package instance listens to the same waterfalls of the host; the  *)
(* instance mounted first is the outermost.  `system-prompt/assemble' and  *)
(* `tools/post-execute' ask the inner ones first, `tools/pre-execute' the  *)
(* outer ones, `agent/pre-step' reads the batch's verdict on the way in    *)
(* and adds messages on the way out.  A listener awaits the handlers of    *)
(* its package, so the calls of a batch meet in any order.                 *)
(*                                                                         *)
(* The agent's loop is external: turns of steps, each claims what is in    *)
(* the inbox, assembles the prompt, passes `agent/pre-step' and calls the  *)
(* model, which ends the turn or asks for a batch of calls.  It may be     *)
(* interrupted anywhere, and what a call's handlers do then comes late.    *)
(* Arguments, prompts and results are abstracted to who changed them.      *)
(***************************************************************************)
EXTENDS Naturals, Sequences

CONSTANTS
  N,            \* number of package instances, 1 the outermost
  Calls,        \* the tool calls there may be
  Setups        \* the setups considered: which packages handle before_agent_start, and
                \* bounds on calls under way, turns, steps of a turn, turns that break off

ASSUME GateAssumption ==
  /\ N \in Nat \ {0}
  /\ Setups \subseteq [asking : SUBSET (1 .. N), calls : SUBSET Calls, turns : Nat,
                      steps : Nat \ {0}, breaks : Nat]

Packages == 1 .. N

VARIABLES
  setup,    \* the setup; never changes
  loop,     \* the agent's loop: its position, turn, step, whose listener is next, broken turns
  batch,    \* the calls the model asked for last
  call,     \* each call: its position in the waterfalls and what became of it
  claimed,  \* claimedForStep: per package, the turns of the messages it has seen claimed
  prompted, \* promptedTurn
  override, \* turnSystemPromptOverrides: the turn whose handlers made it, or none (0)
  held,     \* pendingInjections: the turn whose handlers returned them, or none (0)
  tally,    \* terminateBatch
  started,  \* how often before_agent_start has been dispatched in this turn
  left      \* packages that found something left over by a turn that broke off

turnVars == <<claimed, prompted, override, held, started>>
vars == <<setup, loop, batch, call, tally, left, turnVars>>

NoTally == [calls |-> 0, stops |-> 0]
Fresh == [at |-> "none", pos |-> 0, owner |-> 0, parent |-> {}, stop |-> FALSE,
          concludes |-> FALSE, result |-> "none", decision |-> "accept"]

Init ==
  /\ setup \in Setups
  /\ loop = [at |-> "idle", pos |-> 0, turn |-> 0, step |-> 0, breaks |-> 0]
  /\ batch = {} /\ call = [c \in setup.calls |-> Fresh]
  /\ claimed = [p \in Packages |-> <<>>] /\ left = {}
  /\ prompted = [p \in Packages |-> 0] /\ override = prompted /\ held = prompted
  /\ started = prompted
  /\ tally = [p \in Packages |-> NoTally]

-----------------------------------------------------------------------------
(* The agent's loop.                                                       *)

\* The inbox is claimed, which publishes each message, and the prompt assembled.
Claim(turn, messages) ==
  /\ loop' = [loop EXCEPT !.at = "assemble", !.pos = N, !.turn = turn,
                          !.step = IF turn = loop.turn THEN @ + 1 ELSE 1]
  /\ claimed' = [p \in Packages |-> claimed[p] \o [i \in 1 .. messages |-> turn]]

Prompt ==
  /\ loop.at = "idle" /\ loop.turn < setup.turns
  /\ Claim(loop.turn + 1, 1)
  /\ started' = [p \in Packages |-> 0]
  /\ call' = [c \in setup.calls |-> IF call[c].at = "done" THEN Fresh ELSE call[c]]
  /\ UNCHANGED <<batch, tally, left, prompted, override, held>>

\* The turn is over; what a package still keeps of it is left over.
EndTurn(breaks) ==
  /\ loop.breaks + breaks <= setup.breaks
  /\ loop' = [loop EXCEPT !.at = "idle", !.breaks = @ + breaks]
  /\ left' = {p \in Packages : claimed'[p] # <<>> \/ held'[p] # 0}
  /\ batch' = {}

BatchDone == \A c \in batch : call[c].at = "done"

\* The next step of the turn, with a steering message or without.
NextStep ==
  /\ loop.at = "tools" /\ BatchDone
  /\ ~\E c \in batch : call[c].concludes
  /\ \E messages \in {0, 1} : Claim(loop.turn, messages)
  /\ UNCHANGED <<batch, call, tally, left, prompted, override, held, started>>

Concludes ==
  /\ \/ loop.at = "model"
     \/ loop.at = "tools" /\ BatchDone /\ \E c \in batch : call[c].concludes
  /\ UNCHANGED <<call, tally, turnVars>>
  /\ EndTurn(0)

Interrupt ==
  /\ loop.at # "idle"
  /\ UNCHANGED <<call, tally, turnVars>>
  /\ EndTurn(1)

\* A call enters `tools/pre-execute'; its tool is a package's or the host's (0).
Opened(owner, parent) == [Fresh EXCEPT !.at = "pre", !.pos = 1, !.owner = owner, !.parent = parent]

AskForTools ==
  /\ loop.at = "model" /\ loop.step < setup.steps
  /\ \E asked \in SUBSET {c \in setup.calls : call[c].at \in {"none", "done"}} \ {{}}, owner \in [setup.calls -> 0 .. N] :
       /\ batch' = asked
       /\ call' = [c \in setup.calls |-> IF c \in asked THEN Opened(owner[c], {}) ELSE call[c]]
  /\ loop' = [loop EXCEPT !.at = "tools"]
  /\ UNCHANGED <<tally, left, turnVars>>

-----------------------------------------------------------------------------
(* before_agent_start, within the assembly.                                *)

Advance(done, after) ==
  loop' = IF done THEN [loop EXCEPT !.at = after, !.pos = IF after = "join" THEN N ELSE 1]
          ELSE [loop EXCEPT !.pos = IF loop.at = "boundary" THEN @ + 1 ELSE @ - 1]

\* The step's claim opened a turn this package has not been told of.
OpensTurn(p) == claimed[p] # <<>> /\ prompted[p] # claimed[p][1]

\* A fault: the override is not reset when a turn opens.
Reset_Never(p) == override

\* Whether any handler runs or not, a new turn starts from the base prompt.
Reset(p) == [override EXCEPT ![p] = 0]

\* Handlers, if there are any, may return a prompt and messages for this turn's step.
BeforeAgentStart(p) ==
  /\ OpensTurn(p)
  /\ prompted' = [prompted EXCEPT ![p] = claimed[p][1]]
  /\ started' = [started EXCEPT ![p] = @ + 1]
  /\ \E prompt, messages \in IF p \in setup.asking THEN BOOLEAN ELSE {FALSE} :
       /\ override' = IF prompt THEN [override EXCEPT ![p] = loop.turn] ELSE Reset(p)
       /\ held' = IF messages THEN [held EXCEPT ![p] = loop.turn] ELSE held
  /\ Advance(p = 1, "boundary")
  /\ UNCHANGED <<left, batch>>

\* A handler that throws fails the assembly for every listener further out.
BeforeAgentStartFails(p) ==
  /\ OpensTurn(p) /\ p \in setup.asking
  /\ prompted' = [prompted EXCEPT ![p] = claimed[p][1]]
  /\ started' = [started EXCEPT ![p] = @ + 1]
  /\ override' = Reset(p)
  /\ held' = held
  /\ EndTurn(1)

AlreadyPrompted(p) ==
  /\ ~OpensTurn(p)
  /\ Advance(p = 1, "boundary")
  /\ UNCHANGED <<prompted, override, held, started, left, batch>>

Assemble(p) ==
  /\ loop.at = "assemble" /\ loop.pos = p
  /\ claimed' = [claimed EXCEPT ![p] = <<>>]
  /\ BeforeAgentStart(p) \/ BeforeAgentStartFails(p) \/ AlreadyPrompted(p)
  /\ UNCHANGED <<call, tally>>

-----------------------------------------------------------------------------
(* agent/pre-step.                                                         *)

\* The batch's verdict: every call that was counted asked to stop.
Terminates(p) == tally[p].calls > 0 /\ tally[p].calls = tally[p].stops

Boundary(p) ==
  /\ loop.at = "boundary" /\ loop.pos = p
  /\ UNCHANGED <<call, turnVars>>
  /\ tally' = [tally EXCEPT ![p] = NoTally]
  /\ IF Terminates(p) THEN EndTurn(0)
     ELSE Advance(p = N, "join") /\ UNCHANGED <<batch, left>>

\* On the way out, the messages that were returned join the step.
Join(p) ==
  /\ loop.at = "join" /\ loop.pos = p
  /\ held' = [held EXCEPT ![p] = 0]
  /\ Advance(p = 1, "model")
  /\ UNCHANGED <<batch, call, tally, left, claimed, prompted, override, started>>

-----------------------------------------------------------------------------
(* tools/pre-execute, a Pi tool's execution, tools/post-execute.           *)

\* A denied or executed call goes through `tools/post-execute', inner first.
Settle(c, result, stop, concludes) ==
  call' = [call EXCEPT ![c] = [@ EXCEPT !.at = "post", !.pos = N, !.owner = 0, !.result = result,
                                        !.stop = stop, !.concludes = concludes]]

\* A fault: a call is counted only behind the return that blocks it.
Count_Late(p, verdict) ==
  tally' = [tally EXCEPT ![p] = [calls |-> @.calls + (IF verdict = "pass" THEN 1 ELSE 0),
                                 stops |-> @.stops + (IF verdict = "stop" THEN 1 ELSE 0)]]

Count(p, verdict) ==
  tally' = [tally EXCEPT ![p] = [calls |-> @.calls + 1,
                                 stops |-> @.stops + (IF verdict = "stop" THEN 1 ELSE 0)]]

\* The verdict of package p's tool_call handlers: they may change the
\* arguments, block, block with terminate, or throw.
PreExecute(c, p) ==
  /\ call[c].at = "pre" /\ call[c].pos = p
  /\ \E edit \in BOOLEAN, verdict \in {"pass", "block", "stop", "throw"} :
       IF verdict = "throw" \/ (edit /\ call[c].owner # p)
       THEN Settle(c, "denied", FALSE, FALSE) /\ UNCHANGED tally
       ELSE /\ Count(p, verdict)
            /\ IF verdict # "pass" THEN Settle(c, "denied", verdict = "stop", FALSE)
               ELSE call' = IF p < N THEN [call EXCEPT ![c].pos = p + 1]
                            ELSE [call EXCEPT ![c].at = "run"]
  /\ UNCHANGED <<loop, batch, left, turnVars>>

\* The tool runs with the arguments as they were changed, if they are valid;
\* its result may conclude the turn.
Execute(c) ==
  /\ call[c].at = "run"
  /\ \E result \in {"ok", "error"}, concludes \in BOOLEAN :
       Settle(c, result, FALSE, concludes)
  /\ UNCHANGED <<loop, batch, tally, left, turnVars>>

\* A running Pi tool calls another through the same pipeline.
CallNested(c, d) ==
  /\ call[c].at = "run" /\ call[c].owner # 0 /\ call[d].at = "none"
  /\ \E owner \in 0 .. N : call' = [call EXCEPT ![d] = Opened(owner, {c})]
  /\ UNCHANGED <<loop, batch, tally, left, turnVars>>

\* What tool_result handlers make of a result: another text, an error (a
\* handler that throws counts as one).  They are not asked once an inner
\* listener has blocked it, and cannot heal it.
Patched(c, patch) ==
  IF call[c].decision = "block" \/ (patch = "fail" /\ call[c].result = "ok") THEN "block"
  ELSE IF patch = "text" THEN "replace" ELSE call[c].decision

Failed(outcome) == outcome.result \in {"denied", "error"} \/ outcome.decision = "block"

PostExecute(c, p) ==
  /\ call[c].at = "post" /\ call[c].pos = p
  /\ \E patch \in {"none", "text", "fail", "heal"} :
       LET told == [call[c] EXCEPT !.decision = Patched(c, patch), !.pos = p - 1,
                                   !.at = IF p = 1 THEN "done" ELSE "post"]
           ends(d) == p = 1 /\ d \in call[c].parent /\ call[c].concludes /\ ~Failed(told)
       IN call' = [d \in setup.calls |-> IF d = c THEN told
                                   ELSE IF ends(d) THEN [call[d] EXCEPT !.concludes = TRUE]
                                   ELSE call[d]]
  /\ UNCHANGED <<loop, batch, tally, left, turnVars>>

-----------------------------------------------------------------------------
Loop == Prompt \/ NextStep \/ Concludes \/ Interrupt \/ AskForTools
Listeners == \E p \in Packages : Assemble(p) \/ Boundary(p) \/ Join(p)
Tools == \E c \in setup.calls :
           \/ Execute(c)
           \/ \E p \in Packages : PreExecute(c, p) \/ PostExecute(c, p)
           \/ \E d \in setup.calls : CallNested(c, d)

Next == (Loop \/ Listeners \/ Tools) /\ UNCHANGED setup

Spec == Init /\ [][Next]_vars

-----------------------------------------------------------------------------
(* Properties.                                                             *)

\* The types of the state.
TypeOK ==
  /\ loop \in [at : {"idle", "assemble", "boundary", "join", "model", "tools"}, pos : 0 .. N,
              turn : 0 .. setup.turns, step : 0 .. setup.steps, breaks : 0 .. setup.breaks]
  /\ batch \subseteq Calls /\ left \subseteq Packages
  /\ call \in [setup.calls -> [at : {"none", "pre", "run", "post", "done"}, pos : 0 .. N, owner : 0 .. N,
                        parent : SUBSET setup.calls, stop : BOOLEAN, concludes : BOOLEAN,
                        result : {"none", "denied", "ok", "error"},
                        decision : {"accept", "replace", "block"}]]
  /\ \A p \in Packages : \A i \in 1 .. Len(claimed[p]) : claimed[p][i] \in 1 .. loop.turn
  /\ {prompted, override, held} \subseteq [Packages -> 0 .. loop.turn]
  /\ started \in [Packages -> 0 .. setup.steps]
  /\ \A p \in Packages : tally[p].calls \in Nat /\ tally[p].stops \in 0 .. tally[p].calls

\* A tool that ran keeps the turn going: whatever the other calls of its batch
\* were told, and whatever an interrupted turn left in the count, no package's
\* count makes the next step be refused (runtime.ts 2512-2527, 2602-2613).
ExecutedKeepsTurn ==
  loop.at = "boundary" /\ (\E c \in batch : call[c].result \in {"ok", "error"}) =>
    ~Terminates(loop.pos)

\* When the model is called, each package has been asked exactly once in this
\* turn, and the prompt and the messages are this turn's, unless the turn
\* before broke off and left something behind; one turn later all is well again.
TurnIsItsOwn ==
  /\ TypeOK
  /\ loop.at = "model" => \A p \in Packages \ left : started[p] = 1 /\ override[p] \in {0, loop.turn}
  /\ loop.at = "join" /\ loop.pos \notin left => held[loop.pos] \in {0, loop.turn}

=============================================================================
