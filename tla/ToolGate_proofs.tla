--------------------------- MODULE ToolGate_proofs ---------------------------
(***************************************************************************)
(* Proved of ToolGate, for any number of packages, calls, turns and steps: *)
(* a tool that ran keeps the turn going, and what the model is given is    *)
(* this turn's own (the second part of the module).  The third part is     *)
(* about EventProjection, the other half of the package's ties to the loop.*)
(*                                                                         *)
(* A package's count survives an interrupted turn, so it may say anything  *)
(* of calls that are long gone.  The invariant says why that is harmless:  *)
(* a call that has got past a package has left the package's two numbers   *)
(* uneven, no later verdict can make them even again, and they are put     *)
(* back only when the package has given its own verdict on the step.       *)
(***************************************************************************)
EXTENDS ToolGate, EventProjection, Integers, FiniteSetTheorems, WellFoundedInduction, TLAPS

LoopRecord ==
  [at : {"idle", "assemble", "boundary", "join", "model", "tools"}, pos : Int, turn : Int,
   step : Int, breaks : Int]

CallRecord ==
  [at : {"none", "pre", "run", "post", "done"}, pos : Int, owner : Int, parent : SUBSET Calls,
   stop : BOOLEAN, concludes : BOOLEAN, result : {"none", "denied", "ok", "error"},
   decision : {"accept", "replace", "block"}]

Shape ==
  /\ setup \in Setups /\ loop \in LoopRecord /\ batch \subseteq setup.calls
  /\ call \in [setup.calls -> CallRecord]
  /\ tally \in [Packages -> [calls : Nat, stops : Nat]]

(* A package never counts more calls that stop than calls.                  *)
Even(t) == t.stops <= t.calls
Uneven(t) == t.stops < t.calls

(* Call r has got past package p, or its tool ran.                          *)
Passed(r, p) ==
  \/ r.at = "pre" /\ p < r.pos
  \/ r.at = "run"
  \/ r.result \in {"ok", "error"}

(* Package p has still to give its verdict on the batch.                    *)
Due(l, p) == l.at \in {"tools", "assemble"} \/ (l.at = "boundary" /\ l.pos <= p)

Counted == \A c \in batch, p \in Packages : Due(loop, p) /\ Passed(call[c], p) => Uneven(tally[p])

GateInv ==
  /\ Shape
  /\ loop.at = "idle" => batch = {}
  /\ loop.at = "boundary" => loop.pos \in Packages
  /\ \A p \in Packages : Even(tally[p])
  /\ Counted

-----------------------------------------------------------------------------
\* Before the first turn nothing has been counted.
LEMMA InitGate == Init => GateInv
<1> SUFFICES ASSUME Init PROVE GateInv
  OBVIOUS
<1>1. Shape
  <2>1. Fresh \in CallRecord
    BY DEF Fresh, CallRecord
  <2>2. NoTally \in [calls : Nat, stops : Nat]
    BY DEF NoTally
  <2>3. loop \in LoopRecord
    BY DEF Init, LoopRecord
  <2> QED
    BY <2>1, <2>2, <2>3 DEF Init, Shape
<1>2. batch = {} /\ loop.at = "idle"
  BY DEF Init
<1>3. \A p \in Packages : Even(tally[p])
  BY DEF Init, NoTally, Even
<1> QED
  BY <1>1, <1>2, <1>3 DEF GateInv, Counted

(* The loop moves on, counts and calls stay: no package has more to say.    *)
LEMMA LoopMoves ==
  ASSUME GateInv, loop' \in LoopRecord, batch' = batch \/ batch' = {},
         UNCHANGED <<setup, call, tally>>,
         loop'.at = "idle" => batch' = {},
         loop'.at = "boundary" => loop'.pos \in Packages,
         \A p \in Packages : Due(loop', p) => Due(loop, p)
  PROVE  GateInv'
<1>1. Shape' /\ \A p \in Packages : Even(tally'[p])
  BY DEF GateInv, Shape, Packages
<1>2. Counted'
  BY DEF GateInv, Counted, Packages
<1> QED
  BY <1>1, <1>2 DEF GateInv, Packages

(* One call changes, and has got past no more packages than before.         *)
LEMMA CallMoves ==
  ASSUME GateInv, NEW c \in setup.calls, NEW r \in CallRecord, call' = [call EXCEPT ![c] = r],
         \A p \in Packages : Passed(r, p) => Passed(call[c], p),
         UNCHANGED <<setup, loop, batch, tally>>
  PROVE  GateInv'
<1>1. Shape' /\ \A d \in setup.calls : call'[d] = IF d = c THEN r ELSE call[d]
  BY DEF GateInv, Shape, Packages
<1>2. Counted'
  BY <1>1 DEF GateInv, Shape, Counted, Packages
<1> QED
  BY <1>1, <1>2 DEF GateInv, Packages

(* The turn is over: no batch is left.                                      *)
LEMMA TurnOver ==
  ASSUME GateInv, NEW breaks \in Int, EndTurn(breaks), UNCHANGED <<setup, call>>,
         tally' \in [Packages -> [calls : Nat, stops : Nat]], \A p \in Packages : Even(tally'[p])
  PROVE  GateInv'
<1>1. loop' = [loop EXCEPT !.at = "idle", !.breaks = @ + breaks] /\ batch' = {}
  BY DEF EndTurn
<1>2. loop' \in LoopRecord /\ loop'.at = "idle"
  <2>1. PICK b \in Int : b = loop.breaks + breaks
    BY DEF GateInv, Shape, LoopRecord
  <2>2. loop' = [loop EXCEPT !.at = "idle", !.breaks = b]
    BY <1>1, <2>1
  <2> QED
    BY <2>2 DEF GateInv, Shape, LoopRecord
<1> QED
  BY <1>1, <1>2 DEF GateInv, Shape, Counted, Packages

(* What Advance does: a position, kept in the range of the boundary.        *)
LEMMA AdvanceShape ==
  ASSUME Shape, NEW done \in BOOLEAN, NEW after \in {"boundary", "join", "model"}, Advance(done, after)
  PROVE  /\ loop' \in LoopRecord
         /\ loop'.at = IF done THEN after ELSE loop.at
         /\ done => loop'.pos = IF after = "join" THEN N ELSE 1
         /\ ~done => loop'.pos = IF loop.at = "boundary" THEN loop.pos + 1 ELSE loop.pos - 1
         /\ loop'.turn = loop.turn /\ loop'.step = loop.step /\ loop'.breaks = loop.breaks
<1>1. N \in Int /\ 1 \in Int /\ loop.pos + 1 \in Int /\ loop.pos - 1 \in Int
  BY GateAssumption DEF GateAssumption, Shape, LoopRecord
<1>2. ASSUME NEW pos \in Int, NEW at \in {"boundary", "join", "model"},
             loop' = [loop EXCEPT !.at = at, !.pos = pos]
      PROVE  /\ loop' \in LoopRecord /\ loop'.at = at /\ loop'.pos = pos
             /\ loop'.turn = loop.turn /\ loop'.step = loop.step /\ loop'.breaks = loop.breaks
  BY <1>2 DEF Shape, LoopRecord
<1>3. ASSUME NEW pos \in Int
      PROVE  LET next == [loop EXCEPT !.pos = pos]
             IN /\ next \in LoopRecord /\ next.at = loop.at /\ next.pos = pos
                /\ next.turn = loop.turn /\ next.step = loop.step /\ next.breaks = loop.breaks
  BY DEF Shape, LoopRecord
<1>4. CASE done
  <2>1. loop' = [loop EXCEPT !.at = after, !.pos = IF after = "join" THEN N ELSE 1]
    BY <1>4 DEF Advance
  <2>2. PICK pos \in Int : pos = IF after = "join" THEN N ELSE 1
    BY <1>1
  <2>3. loop' = [loop EXCEPT !.at = after, !.pos = pos]
    BY <2>1, <2>2, Zenon
  <2>4. /\ loop' \in LoopRecord /\ loop'.at = after /\ loop'.pos = pos
        /\ loop'.turn = loop.turn /\ loop'.step = loop.step /\ loop'.breaks = loop.breaks
    BY <1>2, <2>3, Zenon
  <2> QED
    BY <1>4, <2>2, <2>4
<1>5. CASE ~done
  <2>1. loop' = [loop EXCEPT !.pos = IF loop.at = "boundary" THEN loop.pos + 1 ELSE loop.pos - 1]
    BY <1>5 DEF Advance
  <2>2. PICK pos \in Int : pos = IF loop.at = "boundary" THEN loop.pos + 1 ELSE loop.pos - 1
    BY <1>1
  <2>3. loop' = [loop EXCEPT !.pos = pos]
    BY <2>1, <2>2, Zenon
  <2>4. /\ loop' \in LoopRecord /\ loop'.at = loop.at /\ loop'.pos = pos
        /\ loop'.turn = loop.turn /\ loop'.step = loop.step /\ loop'.breaks = loop.breaks
    BY <1>3, <2>3
  <2> QED
    BY <1>5, <2>2, <2>4
<1> QED
  BY <1>4, <1>5

(* A call that is opened has got past nobody.                               *)
LEMMA OpenedShape ==
  ASSUME NEW owner \in 0 .. N, NEW parent \in SUBSET Calls
  PROVE  Opened(owner, parent) \in CallRecord /\ \A p \in Packages : ~Passed(Opened(owner, parent), p)
<1> DEFINE opened(fresh, pos, o) == [fresh EXCEPT !.at = "pre", !.pos = pos, !.owner = o, !.parent = parent]
<1>1. ASSUME NEW fresh \in CallRecord, NEW pos \in Int, NEW o \in Int
      PROVE  /\ opened(fresh, pos, o) \in CallRecord /\ opened(fresh, pos, o).at = "pre"
             /\ opened(fresh, pos, o).pos = pos /\ opened(fresh, pos, o).result = fresh.result
  BY DEF CallRecord
<1>2. Opened(owner, parent) = opened(Fresh, 1, owner)
  BY Zenon DEF Opened
<1> HIDE DEF opened
<1>3. Fresh \in CallRecord /\ Fresh.result = "none"
  BY DEF Fresh, CallRecord
<1>4. owner \in Int /\ 1 \in Int
  OBVIOUS
<1> QED
  BY <1>1, <1>2, <1>3, <1>4 DEF Passed, Packages

-----------------------------------------------------------------------------
(* The agent's loop.                                                        *)

\* There is a first and a last package.
LEMMA PositiveN == N \in Nat /\ 1 \in Packages /\ N \in Packages
BY GateAssumption DEF GateAssumption, Packages

\* What claiming the next turn or step makes of the loop.
LEMMA ClaimShape ==
  ASSUME Shape, NEW turn \in Int, NEW messages, Claim(turn, messages)
  PROVE  /\ loop' \in LoopRecord /\ loop'.at = "assemble" /\ loop'.pos = N
         /\ loop'.turn = turn /\ loop'.step = (IF turn = loop.turn THEN loop.step + 1 ELSE 1)
         /\ loop'.breaks = loop.breaks
<1>1. PICK step \in Int : step = IF turn = loop.turn THEN loop.step + 1 ELSE 1
  BY DEF Shape, LoopRecord
<1>2. loop' = [loop EXCEPT !.at = "assemble", !.pos = N, !.turn = turn, !.step = step]
  BY <1>1 DEF Claim
<1>3. ASSUME NEW pos \in Int
      PROVE  LET next == [loop EXCEPT !.at = "assemble", !.pos = pos, !.turn = turn, !.step = step]
             IN /\ next \in LoopRecord /\ next.at = "assemble" /\ next.pos = pos
                /\ next.turn = turn /\ next.step = step /\ next.breaks = loop.breaks
  BY DEF Shape, LoopRecord
<1>4. N \in Int
  BY PositiveN
<1> QED
  BY <1>1, <1>2, <1>3, <1>4

\* The steps of the agent's loop keep it.
LEMMA LoopGate == GateInv /\ Loop /\ setup' = setup => GateInv'
<1> SUFFICES ASSUME GateInv, Loop, setup' = setup PROVE GateInv'
  OBVIOUS
<1>1. Shape /\ loop.turn \in Int /\ loop.turn + 1 \in Int
  BY DEF GateInv, Shape, LoopRecord
<1>2. CASE Prompt
  <2>1. loop' \in LoopRecord /\ loop'.at = "assemble"
    BY <1>1, <1>2, ClaimShape DEF Prompt
  <2>2. batch' = {} /\ tally' = tally
    BY <1>2 DEF Prompt, GateInv
  <2>3. call' \in [setup.calls -> CallRecord]
    <3>1. Fresh \in CallRecord
      BY DEF Fresh, CallRecord
    <3>2. call' = [c \in setup.calls |-> IF call[c].at = "done" THEN Fresh ELSE call[c]]
      BY <1>2 DEF Prompt
    <3> QED
      BY <1>1, <3>1, <3>2 DEF Shape
  <2> QED
    BY <2>1, <2>2, <2>3 DEF GateInv, Shape, Counted, Packages
<1>3. CASE NextStep
  <2>1. loop' \in LoopRecord /\ loop'.at = "assemble" /\ loop.at = "tools"
    BY <1>1, <1>3, ClaimShape DEF NextStep
  <2> QED
    BY <1>3, <2>1, LoopMoves DEF NextStep, Due
<1>4. CASE Concludes \/ Interrupt
  BY <1>4, TurnOver DEF Concludes, Interrupt, GateInv, Shape
<1>5. CASE AskForTools
  <2>1. loop' = [loop EXCEPT !.at = "tools"]
    BY <1>5 DEF AskForTools
  <2>2. loop' \in LoopRecord /\ loop'.at = "tools"
    BY <1>1, <2>1 DEF Shape, LoopRecord
  <2>3. PICK asked \in SUBSET setup.calls, owner \in [setup.calls -> 0 .. N] :
          /\ batch' = asked
          /\ call' = [c \in setup.calls |-> IF c \in asked THEN Opened(owner[c], {}) ELSE call[c]]
    BY <1>5 DEF AskForTools
  <2>4. \A o \in 0 .. N : Opened(o, {}) \in CallRecord /\ \A p \in Packages : ~Passed(Opened(o, {}), p)
    BY OpenedShape
  <2>5. Shape'
    BY <1>1, <1>5, <2>2, <2>3, <2>4 DEF Shape, AskForTools, Packages
  <2>6. Counted'
    BY <2>3, <2>4 DEF Counted, Packages
  <2>7. tally' = tally
    BY <1>5 DEF AskForTools
  <2> QED
    BY <2>2, <2>5, <2>6, <2>7 DEF GateInv, Packages
<1> QED
  BY <1>2, <1>3, <1>4, <1>5 DEF Loop

-----------------------------------------------------------------------------
(* The listeners of the loop's waterfalls.                                  *)

\* The listeners of turns and boundaries keep it.
LEMMA ListenersGate == GateInv /\ Listeners /\ setup' = setup => GateInv'
<1> SUFFICES ASSUME GateInv, setup' = setup, NEW p \in Packages, Assemble(p) \/ Boundary(p) \/ Join(p)
             PROVE  GateInv'
  BY DEF Listeners
<1>1. Shape /\ p \in Int /\ tally \in [Packages -> [calls : Nat, stops : Nat]]
  BY DEF GateInv, Shape, Packages
<1>2. CASE Assemble(p)
  <2>1. loop.at = "assemble" /\ call' = call /\ tally' = tally
    BY <1>2 DEF Assemble
  <2>2. CASE BeforeAgentStartFails(p)
    BY <1>1, <2>1, <2>2, TurnOver DEF BeforeAgentStartFails, GateInv
  <2>3. CASE BeforeAgentStart(p) \/ AlreadyPrompted(p)
    <3>1. Advance(p = 1, "boundary") /\ batch' = batch
      BY <2>3 DEF BeforeAgentStart, AlreadyPrompted
    <3>2. /\ loop' \in LoopRecord /\ loop'.at \in {"assemble", "boundary"}
          /\ loop'.at = "boundary" => loop'.pos = 1
      <4>1. CASE p = 1
        BY <1>1, <2>1, <3>1, <4>1, AdvanceShape
      <4>2. CASE p # 1
        BY <1>1, <2>1, <3>1, <4>2, AdvanceShape
      <4> QED
        BY <4>1, <4>2
    <3> QED
      BY <2>1, <3>1, <3>2, LoopMoves, PositiveN DEF Due
  <2> QED
    BY <1>2, <2>2, <2>3 DEF Assemble
<1>3. CASE Boundary(p)
  <2>1. /\ loop.at = "boundary" /\ loop.pos = p /\ call' = call
        /\ tally' = [tally EXCEPT ![p] = NoTally]
    BY <1>3 DEF Boundary, turnVars
  <2>2. /\ tally' \in [Packages -> [calls : Nat, stops : Nat]]
        /\ \A q \in Packages : Even(tally'[q])
        /\ \A q \in Packages \ {p} : tally'[q] = tally[q]
    <3>1. NoTally \in [calls : Nat, stops : Nat] /\ Even(NoTally)
      BY DEF NoTally, Even
    <3> QED
      BY <1>1, <2>1, <3>1 DEF GateInv
  <2>3. CASE EndTurn(0)
    BY <2>1, <2>2, <2>3, TurnOver
  <2>4. CASE Advance(p = N, "join") /\ batch' = batch
    <3>1. /\ loop' \in LoopRecord /\ loop'.at \in {"boundary", "join"}
          /\ loop'.at = "boundary" => p # N /\ loop'.pos = p + 1
      <4>1. CASE p = N
        BY <1>1, <2>1, <2>4, <4>1, AdvanceShape
      <4>2. CASE p # N
        BY <1>1, <2>1, <2>4, <4>2, AdvanceShape
      <4> QED
        BY <4>1, <4>2
    <3>2. loop'.at = "boundary" => loop'.pos \in Packages
      BY <3>1, PositiveN DEF Packages
    <3>3. Counted'
      <4> SUFFICES ASSUME NEW c \in batch', NEW q \in Packages, Due(loop', q), Passed(call'[c], q)
                   PROVE  Uneven(tally'[q])
        BY DEF Counted, Packages
      <4>1. q # p /\ Due(loop, q)
        BY <1>1, <2>1, <3>1 DEF Due, Packages
      <4> QED
        BY <2>1, <2>2, <2>4, <4>1 DEF GateInv, Counted
    <3> QED
      BY <1>1, <2>1, <2>2, <2>4, <3>1, <3>2, <3>3 DEF GateInv, Shape, Packages
  <2> QED
    BY <1>3, <2>3, <2>4 DEF Boundary
<1>4. CASE Join(p)
  <2>1. loop.at = "join" /\ Advance(p = 1, "model") /\ UNCHANGED <<batch, call, tally>>
    BY <1>4 DEF Join
  <2>2. loop' \in LoopRecord /\ loop'.at \in {"join", "model"}
    <3>1. CASE p = 1
      BY <1>1, <2>1, <3>1, AdvanceShape
    <3>2. CASE p # 1
      BY <1>1, <2>1, <3>2, AdvanceShape
    <3> QED
      BY <3>1, <3>2
  <2> QED
    BY <2>1, <2>2, LoopMoves DEF Due
<1> QED
  BY <1>2, <1>3, <1>4

-----------------------------------------------------------------------------
(* The calls.                                                               *)

\* A call that settles goes to its post hooks with its result.
LEMMA SettleGate ==
  ASSUME GateInv, NEW c \in setup.calls, NEW result \in {"denied", "ok", "error"},
         NEW stop \in BOOLEAN, NEW concludes \in BOOLEAN, Settle(c, result, stop, concludes)
  PROVE  \E r \in CallRecord : /\ call' = [call EXCEPT ![c] = r]
                               /\ r.at = "post" /\ r.result = result
<1>1. ASSUME NEW r \in CallRecord, NEW pos \in Int, NEW owner \in Int
      PROVE  LET next == [r EXCEPT !.at = "post", !.pos = pos, !.owner = owner, !.result = result,
                                   !.stop = stop, !.concludes = concludes]
             IN next \in CallRecord /\ next.at = "post" /\ next.result = result
  BY DEF CallRecord
<1>2. N \in Int /\ 0 \in Int /\ call[c] \in CallRecord
  BY PositiveN DEF GateInv, Shape
<1>3. LET next == [call[c] EXCEPT !.at = "post", !.pos = N, !.owner = 0, !.result = result,
                                  !.stop = stop, !.concludes = concludes]
      IN next \in CallRecord /\ next.at = "post" /\ next.result = result
  BY <1>1, <1>2, Zenon
<1>4. call' = [call EXCEPT ![c] = [call[c] EXCEPT !.at = "post", !.pos = N, !.owner = 0,
                                     !.result = result, !.stop = stop, !.concludes = concludes]]
  BY Zenon DEF Settle
<1> QED
  BY <1>3, <1>4, Zenon

(* A verdict on call c is counted; the call gets past package p, if it does *)
(* not end there.                                                           *)
GetsPast(r, old, p, verdict) ==
  \A q \in Packages : Passed(r, q) => (q = p /\ verdict # "stop") \/ Passed(old, q)

\* A vote is counted in the step in which the call gets past the package.
LEMMA CountGate ==
  ASSUME GateInv, NEW c \in setup.calls, NEW r \in CallRecord, NEW p \in Packages,
         NEW verdict \in {"pass", "block", "stop", "throw"},
         call' = [call EXCEPT ![c] = r], Count(p, verdict),
         GetsPast(r, call[c], p, verdict),
         UNCHANGED <<setup, loop, batch>>
  PROVE  GateInv'
<1>1. tally[p].calls \in Nat /\ tally[p].stops \in Nat
  BY DEF GateInv, Shape
<1>2. PICK t \in [calls : Nat, stops : Nat] :
        /\ tally' = [tally EXCEPT ![p] = t]
        /\ t.calls = tally[p].calls + 1
        /\ t.stops = tally[p].stops + (IF verdict = "stop" THEN 1 ELSE 0)
  <2>1. PICK calls \in Nat, stops \in Nat : /\ calls = tally[p].calls + 1
                                            /\ stops = tally[p].stops + (IF verdict = "stop" THEN 1 ELSE 0)
    BY <1>1
  <2>2. tally' = [tally EXCEPT ![p] = [calls |-> calls, stops |-> stops]]
    BY <2>1, Zenon DEF Count
  <2>3. LET t == [calls |-> calls, stops |-> stops]
        IN t \in [calls : Nat, stops : Nat] /\ t.calls = calls /\ t.stops = stops
    OBVIOUS
  <2> QED
    BY <2>1, <2>2, <2>3
<1>3. /\ Shape' /\ \A d \in setup.calls : call'[d] = IF d = c THEN r ELSE call[d]
      /\ \A q \in Packages : tally'[q] = IF q = p THEN t ELSE tally[q]
  BY <1>2 DEF GateInv, Shape, Packages
<1>4. /\ Even(tally[p]) => Even(t)
      /\ Uneven(tally[p]) => Uneven(t)
      /\ Even(tally[p]) /\ verdict # "stop" => Uneven(t)
  BY <1>1, <1>2 DEF Even, Uneven
<1>5. \A q \in Packages : Even(tally'[q])
  BY <1>3, <1>4 DEF GateInv
<1>6. Counted'
  <2> SUFFICES ASSUME NEW d \in batch, NEW q \in Packages, Due(loop, q), Passed(call'[d], q)
               PROVE  Uneven(tally'[q])
    BY DEF Counted, Packages
  <2>1. d \in setup.calls /\ Even(tally[q]) /\ (Passed(call[d], q) => Uneven(tally[q]))
    BY DEF GateInv, Shape, Counted
  <2>2. (q = p /\ verdict # "stop") \/ Passed(call[d], q)
    BY <1>3, <2>1 DEF GetsPast
  <2> QED
    BY <1>3, <1>4, <2>1, <2>2
<1> QED
  BY <1>3, <1>5, <1>6 DEF GateInv, Packages

\* A pre-execute hook counts what it decides.
LEMMA PreExecuteGate ==
  ASSUME GateInv, NEW c \in setup.calls, NEW p \in Packages, PreExecute(c, p), setup' = setup
  PROVE  GateInv'
<1>1. /\ call[c].at = "pre" /\ call[c].pos = p /\ UNCHANGED <<setup, loop, batch>>
      /\ call[c] \in CallRecord /\ p \in Int /\ p + 1 \in Int
  BY DEF PreExecute, GateInv, Shape, Packages
<1>2. PICK edit \in BOOLEAN, verdict \in {"pass", "block", "stop", "throw"} :
        IF verdict = "throw" \/ (edit /\ call[c].owner # p)
        THEN Settle(c, "denied", FALSE, FALSE) /\ UNCHANGED tally
        ELSE /\ Count(p, verdict)
             /\ IF verdict # "pass" THEN Settle(c, "denied", verdict = "stop", FALSE)
                ELSE call' = IF p < N THEN [call EXCEPT ![c].pos = p + 1]
                             ELSE [call EXCEPT ![c].at = "run"]
  BY Zenon DEF PreExecute
<1>3. ASSUME NEW r, r.at = "post", r.result = "denied"
      PROVE  \A q \in Packages : ~Passed(r, q)
  BY <1>3 DEF Passed
<1>4. CASE Settle(c, "denied", FALSE, FALSE) /\ UNCHANGED tally
  BY <1>1, <1>3, <1>4, SettleGate, CallMoves
<1>5. CASE Count(p, verdict) /\ Settle(c, "denied", verdict = "stop", FALSE)
  <2>1. (verdict = "stop") \in BOOLEAN
    OBVIOUS
  <2>2. PICK r \in CallRecord : call' = [call EXCEPT ![c] = r] /\ r.at = "post" /\ r.result = "denied"
    BY <1>5, <2>1, SettleGate
  <2>3. GetsPast(r, call[c], p, verdict)
    BY <1>3, <2>2 DEF GetsPast
  <2>4. Count(p, verdict) /\ call' = [call EXCEPT ![c] = r] /\ UNCHANGED <<setup, loop, batch>>
    BY <1>1, <1>5, <2>2
  <2> QED
    BY <2>3, <2>4, CountGate
<1>6. CASE /\ Count(p, verdict) /\ verdict = "pass"
           /\ call' = IF p < N THEN [call EXCEPT ![c].pos = p + 1] ELSE [call EXCEPT ![c].at = "run"]
  <2>1. CASE p < N
    <3> DEFINE r == [call[c] EXCEPT !.pos = p + 1]
    <3>1. ASSUME NEW pos \in Int
          PROVE  LET next == [call[c] EXCEPT !.pos = pos]
                 IN next \in CallRecord /\ next.at = "pre" /\ next.pos = pos /\ next.result = call[c].result
      BY <1>1 DEF CallRecord
    <3>2. r \in CallRecord /\ r.at = "pre" /\ r.pos = p + 1 /\ r.result = call[c].result
      BY <1>1, <3>1, Zenon
    <3>3. call' = [call EXCEPT ![c] = r]
      BY <1>6, <2>1
    <3> HIDE DEF r
    <3>4. GetsPast(r, call[c], p, verdict)
      BY <1>1, <1>6, <3>2 DEF GetsPast, Passed, Packages
    <3>5. r \in CallRecord /\ Count(p, verdict) /\ UNCHANGED <<setup, loop, batch>>
      BY <1>1, <1>6, <3>2
    <3> QED
      BY <3>3, <3>4, <3>5, CountGate
  <2>2. CASE ~(p < N)
    <3> DEFINE r == [call[c] EXCEPT !.at = "run"]
    <3>1. r \in CallRecord
      BY <1>1 DEF CallRecord
    <3>2. call' = [call EXCEPT ![c] = r]
      BY <1>6, <2>2
    <3> HIDE DEF r
    <3>3. GetsPast(r, call[c], p, verdict)
      BY <1>1, <1>6, <2>2, PositiveN DEF GetsPast, Passed, Packages
    <3> QED
      BY <1>1, <1>6, <3>1, <3>2, <3>3, CountGate
  <2> QED
    BY <2>1, <2>2
<1> QED
  BY <1>2, <1>4, <1>5, <1>6

(* A result passes through the handlers: nobody is got past by it.          *)
LEMMA PostExecuteGate ==
  ASSUME GateInv, NEW c \in setup.calls, NEW p \in Packages, PostExecute(c, p), setup' = setup
  PROVE  GateInv'
<1>1. /\ call[c].at = "post" /\ UNCHANGED <<setup, loop, batch, tally>>
      /\ Shape /\ call[c] \in CallRecord /\ p - 1 \in Int
  BY DEF PostExecute, turnVars, GateInv, Shape, Packages
<1> DEFINE patched(patch) == [call[c] EXCEPT !.decision = Patched(c, patch), !.pos = p - 1,
                                          !.at = IF p = 1 THEN "done" ELSE "post"]
           concluding(patch, d) == p = 1 /\ d \in call[c].parent /\ call[c].concludes /\ ~Failed(patched(patch))
           Later(d, r) == r \in CallRecord /\ \A q \in Packages : Passed(r, q) => Passed(call[d], q)
<1>2. PICK patch \in {"none", "text", "fail", "heal"} :
        call' = [d \in setup.calls |-> IF d = c THEN patched(patch)
                                       ELSE IF concluding(patch, d) THEN [call[d] EXCEPT !.concludes = TRUE]
                                       ELSE call[d]]
  BY Zenon DEF PostExecute
<1>3. Later(c, patched(patch))
  <2>1. Patched(c, patch) \in {"accept", "replace", "block"}
    BY <1>1 DEF Patched, CallRecord
  <2> DEFINE next(decision, pos, at) == [call[c] EXCEPT !.decision = decision, !.pos = pos, !.at = at]
  <2>2. ASSUME NEW decision \in {"accept", "replace", "block"}, NEW pos \in Int, NEW at \in {"done", "post"}
        PROVE  /\ next(decision, pos, at) \in CallRecord /\ next(decision, pos, at).at = at
               /\ next(decision, pos, at).result = call[c].result
    BY <1>1 DEF CallRecord
  <2>3. PICK decision \in {"accept", "replace", "block"}, pos \in Int, at \in {"done", "post"} :
          patched(patch) = next(decision, pos, at)
    <3>1. PICK at \in {"done", "post"} : at = IF p = 1 THEN "done" ELSE "post"
      OBVIOUS
    <3> QED
      BY <1>1, <2>1, <3>1, Zenon
  <2> HIDE DEF patched, next
  <2>4. patched(patch) \in CallRecord /\ patched(patch).at \in {"done", "post"}
        /\ patched(patch).result = call[c].result
    BY <2>2, <2>3
  <2> QED
    BY <2>4 DEF Passed
<1> HIDE DEF patched, concluding
<1>4. ASSUME NEW d \in setup.calls PROVE Later(d, call'[d])
  <2>1. call[d] \in CallRecord
    BY <1>1 DEF Shape
  <2>2. Later(d, [call[d] EXCEPT !.concludes = TRUE])
    <3>1. /\ [call[d] EXCEPT !.concludes = TRUE] \in CallRecord
          /\ [call[d] EXCEPT !.concludes = TRUE].at = call[d].at
          /\ [call[d] EXCEPT !.concludes = TRUE].pos = call[d].pos
          /\ [call[d] EXCEPT !.concludes = TRUE].result = call[d].result
      BY <2>1 DEF CallRecord
    <3> QED
      BY <3>1 DEF Passed
  <2>3. Later(d, call[d])
    BY <2>1
  <2> HIDE DEF Later
  <2> QED
    BY <1>2, <1>3, <2>2, <2>3
<1>5. Shape'
  <2>1. call' \in [setup.calls -> CallRecord]
    BY <1>2, <1>4
  <2> QED
    BY <1>1, <2>1 DEF Shape, Packages
<1>6. Counted'
  BY <1>1, <1>4 DEF GateInv, Shape, Counted, Packages
<1> QED
  BY <1>1, <1>5, <1>6 DEF GateInv, Packages

\* The steps of a call keep it.
LEMMA ToolsGate == GateInv /\ Tools /\ setup' = setup => GateInv'
<1> SUFFICES ASSUME GateInv, setup' = setup, Tools PROVE GateInv'
  OBVIOUS
<1>1. ASSUME NEW c \in setup.calls, Execute(c) PROVE GateInv'
  <2>1. call[c].at = "run" /\ UNCHANGED <<setup, loop, batch, tally>>
    BY <1>1 DEF Execute
  <2>2. PICK result \in {"ok", "error"}, concludes \in BOOLEAN : Settle(c, result, FALSE, concludes)
    BY <1>1, Zenon DEF Execute
  <2>3. PICK r \in CallRecord : call' = [call EXCEPT ![c] = r]
    <3>1. \/ Settle(c, "ok", FALSE, TRUE) \/ Settle(c, "ok", FALSE, FALSE)
          \/ Settle(c, "error", FALSE, TRUE) \/ Settle(c, "error", FALSE, FALSE)
      BY <2>2, Zenon
    <3> QED
      BY <3>1, SettleGate
  <2>4. \A q \in Packages : Passed(call[c], q)
    BY <2>1 DEF Passed
  <2> QED
    BY <2>1, <2>3, <2>4, CallMoves
<1>2. ASSUME NEW c \in setup.calls, NEW d \in setup.calls, CallNested(c, d) PROVE GateInv'
  <2>1. UNCHANGED <<setup, loop, batch, tally>>
    BY <1>2 DEF CallNested
  <2>2. PICK owner \in 0 .. N : call' = [call EXCEPT ![d] = Opened(owner, {c})]
    BY <1>2 DEF CallNested
  <2>3. {c} \in SUBSET Calls
    BY GateAssumption DEF GateAssumption, GateInv, Shape
  <2>4. Opened(owner, {c}) \in CallRecord /\ \A q \in Packages : ~Passed(Opened(owner, {c}), q)
    BY <2>3, OpenedShape
  <2> QED
    BY <2>1, <2>2, <2>4, CallMoves
<1> QED
  BY <1>1, <1>2, PreExecuteGate, PostExecuteGate DEF Tools

-----------------------------------------------------------------------------
\* Every step keeps the invariant.
LEMMA StepGate == GateInv /\ [Next]_vars => GateInv'
<1> SUFFICES ASSUME GateInv, [Next]_vars PROVE GateInv'
  OBVIOUS
<1>1. CASE UNCHANGED vars
  BY <1>1 DEF vars, GateInv, Shape, Counted, Packages
<1> QED
  BY <1>1, LoopGate, ListenersGate, ToolsGate DEF Next

(* However the verdicts of a batch meet, whatever an interrupted turn has   *)
(* left in the counts and whatever calls of it come late: no package's      *)
(* count makes the step after a tool that ran be refused (runtime.ts        *)
(* 2512-2527, 2602-2613).                                                   *)
THEOREM ToolsKeepTurn == Spec => []ExecutedKeepsTurn
<1>1. GateInv => ExecutedKeepsTurn
  <2> SUFFICES ASSUME GateInv, loop.at = "boundary", NEW c \in batch, call[c].result \in {"ok", "error"}
               PROVE  ~Terminates(loop.pos)
    BY DEF ExecutedKeepsTurn
  <2>1. loop.pos \in Packages /\ loop.pos \in Int
    BY DEF GateInv, Shape, LoopRecord
  <2>2. Uneven(tally[loop.pos])
    BY <2>1 DEF GateInv, Counted, Due, Passed
  <2>3. tally[loop.pos].calls \in Nat /\ tally[loop.pos].stops \in Nat
    BY <2>1 DEF GateInv, Shape
  <2> QED
    BY <2>2, <2>3 DEF Uneven, Terminates
<1> QED
  BY <1>1, InitGate, StepGate, PTL DEF Spec

-----------------------------------------------------------------------------
(* A turn is its own.  The invariant follows one package through the step:  *)
(* until the assembly has come to it, what it has seen claimed is this      *)
(* turn's, and it has been asked in this turn or the claim will make it so; *)
(* from there on nothing is claimed, and what its handlers returned is kept *)
(* until the way out of the boundary.  What a turn that breaks off leaves   *)
(* is exactly what puts the package among those left over.                  *)

(* The assembly has still to come to package p; its messages have joined.   *)
Awaits(l, p) == l.at = "assemble" /\ p <= l.pos
Served(l, p) == l.at \in {"model", "tools"} \/ (l.at = "join" /\ l.pos < p)

Asked(p) == started[p] = 1 /\ prompted[p] = loop.turn /\ override[p] \in {0, loop.turn}
Untold(p) == started[p] = 0 /\ prompted[p] # loop.turn /\ claimed[p] # <<>>

Own(p) ==
  /\ loop.at = "idle" => claimed[p] = <<>> /\ held[p] = 0
  /\ Awaits(loop, p) => /\ Asked(p) \/ Untold(p)
                        /\ held[p] = 0
                        /\ claimed[p] # <<>> => claimed[p][1] = loop.turn
  /\ ~Awaits(loop, p) /\ loop.at # "idle" =>
       Asked(p) /\ claimed[p] = <<>> /\ held[p] \in {0, loop.turn}
  /\ Served(loop, p) => held[p] = 0

LoopTyped ==
  /\ loop.pos \in 0 .. N /\ loop.turn \in 0 .. setup.turns
  /\ loop.step \in 0 .. setup.steps /\ loop.breaks \in 0 .. setup.breaks
  /\ loop.at \in {"assemble", "boundary", "join"} => loop.pos \in Packages
  /\ loop.at = "tools" => loop.step < setup.steps
  /\ loop.at # "idle" => loop.turn > 0

(* Messages claimed in turns up to this one.                                *)
Claims(turn) == {s \in Seq(Nat) : \A i \in DOMAIN s : s[i] \in 1 .. turn}

MemoryTyped ==
  /\ claimed \in [Packages -> Claims(loop.turn)] /\ left \subseteq Packages
  /\ prompted \in [Packages -> 0 .. loop.turn] /\ override \in [Packages -> 0 .. loop.turn]
  /\ held \in [Packages -> 0 .. loop.turn] /\ started \in [Packages -> Nat]

(* A package is asked at most once a step.                                  *)
OncePerStep ==
  \A p \in Packages : /\ started[p] <= loop.step
                      /\ Awaits(loop, p) => started[p] < loop.step

TurnInv == LoopTyped /\ MemoryTyped /\ OncePerStep /\ \A p \in Packages \ left : Own(p)

\* What a setup is made of.
LEMMA SetupTyped ==
  ASSUME Shape
  PROVE  /\ setup.turns \in Nat /\ setup.steps \in Nat \ {0} /\ setup.breaks \in Nat
         /\ setup.calls \subseteq Calls /\ setup.asking \subseteq Packages
BY GateAssumption DEF GateAssumption, Shape, Packages

\* Before the first turn no package keeps anything of a turn.
LEMMA InitTurn == Init => TurnInv
<1> SUFFICES ASSUME Init PROVE TurnInv
  OBVIOUS
<1>1. Shape
  BY InitGate DEF GateInv
<1>2. loop = [at |-> "idle", pos |-> 0, turn |-> 0, step |-> 0, breaks |-> 0]
  BY DEF Init
<1>3. /\ loop.at = "idle" /\ loop.pos = 0 /\ loop.turn = 0 /\ loop.step = 0 /\ loop.breaks = 0
  BY <1>2
<1>4. LoopTyped
  BY <1>1, <1>3, SetupTyped, PositiveN DEF LoopTyped
<1>5. /\ claimed = [p \in Packages |-> <<>>] /\ left = {} /\ prompted = [p \in Packages |-> 0]
      /\ override = prompted /\ held = prompted /\ started = prompted
  BY DEF Init
<1>6. <<>> \in Claims(0)
  BY DEF Claims
<1>7. MemoryTyped
  BY <1>3, <1>5, <1>6 DEF MemoryTyped
<1>8. OncePerStep /\ \A p \in Packages : Own(p)
  BY <1>3, <1>5 DEF OncePerStep, Own, Awaits, Served
<1> QED
  BY <1>4, <1>7, <1>8 DEF TurnInv

\* What was claimed up to a turn was claimed up to every later one.
LEMMA ClaimsGrow ==
  ASSUME NEW t \in Nat, NEW u \in Nat, t <= u PROVE Claims(t) \subseteq Claims(u)
BY DEF Claims

(* What a package has seen claimed when a step claims a message, or none.   *)
LEMMA ClaimAdds ==
  ASSUME NEW turn \in Nat, turn > 0, NEW s \in Claims(turn), NEW messages \in {0, 1}
  PROVE  LET all == s \o [i \in 1 .. messages |-> turn]
         IN /\ all \in Claims(turn)
            /\ s # <<>> => all # <<>> /\ all[1] = s[1]
            /\ s = <<>> /\ all # <<>> => all[1] = turn
            /\ messages = 1 => all # <<>>
<1> DEFINE more == [i \in 1 .. messages |-> turn]
           all == s \o more
<1>1. s \in Seq(Nat) /\ Len(s) \in Nat /\ \A i \in 1 .. Len(s) : s[i] \in 1 .. turn
  BY DEF Claims
<1>2. more \in Seq(Nat) /\ Len(more) = messages /\ \A i \in 1 .. messages : more[i] = turn
  <2>1. CASE messages = 0
    BY <2>1
  <2>2. CASE messages = 1
    BY <2>2
  <2> QED
    BY <2>1, <2>2
<1> HIDE DEF more
<1>3. /\ all \in Seq(Nat) /\ Len(all) = Len(s) + messages
      /\ \A i \in 1 .. Len(all) : all[i] = IF i <= Len(s) THEN s[i] ELSE more[i - Len(s)]
  BY <1>1, <1>2
<1> HIDE DEF all
<1>4. all \in Claims(turn)
  <2>1. ASSUME NEW i \in 1 .. Len(all) PROVE all[i] \in 1 .. turn
    <3>1. CASE i <= Len(s)
      BY <1>1, <1>3, <3>1, SMTT(30)
    <3>2. CASE ~(i <= Len(s))
      <4>1. i - Len(s) \in 1 .. messages
        BY <1>1, <1>3, <3>2
      <4> QED
        BY <1>2, <1>3, <3>2, <4>1
    <3> QED
      BY <3>1, <3>2
  <2> QED
    BY <1>3, <2>1 DEF Claims
<1>5. s # <<>> => Len(s) > 0
  BY <1>1
<1>6. all # <<>> => Len(all) > 0
  BY <1>3
<1>7. Len(all) > 0 => all # <<>>
  BY <1>3
<1> QED
  BY <1>1, <1>2, <1>3, <1>4, <1>5, <1>6, <1>7 DEF all, more

-----------------------------------------------------------------------------
(* The loop's own steps.                                                    *)

(* The turn ends: what a package keeps of it puts it among those left over. *)
LEMMA EndKeeps ==
  ASSUME GateInv, TurnInv, NEW breaks \in {0, 1}, EndTurn(breaks), setup' = setup,
         claimed' \in [Packages -> Claims(loop.turn)],
         prompted' \in [Packages -> 0 .. loop.turn], override' \in [Packages -> 0 .. loop.turn],
         held' \in [Packages -> 0 .. loop.turn], started' \in [Packages -> Nat],
         \A p \in Packages : started'[p] <= loop.step
  PROVE  TurnInv'
<1>1. /\ loop' = [loop EXCEPT !.at = "idle", !.breaks = @ + breaks]
      /\ loop.breaks + breaks <= setup.breaks
      /\ left' = {p \in Packages : claimed'[p] # <<>> \/ held'[p] # 0}
  BY DEF EndTurn
<1>2. Shape /\ loop \in LoopRecord /\ LoopTyped
  BY DEF GateInv, Shape, TurnInv
<1>3. /\ loop'.at = "idle" /\ loop'.pos = loop.pos /\ loop'.turn = loop.turn
      /\ loop'.step = loop.step /\ loop'.breaks = loop.breaks + breaks
  BY <1>1, <1>2 DEF LoopRecord
<1>4. LoopTyped'
  BY <1>1, <1>2, <1>3, SetupTyped DEF LoopTyped, Packages
<1>5. MemoryTyped'
  BY <1>1, <1>3 DEF MemoryTyped, Packages
<1>6. OncePerStep'
  BY <1>3 DEF OncePerStep, Awaits, Packages
<1>7. \A p \in Packages \ left' : Own(p)'
  BY <1>1, <1>3 DEF Own, Awaits, Served
<1> QED
  BY <1>4, <1>5, <1>6, <1>7 DEF TurnInv, Packages

(* A step claims messages; every package is still to be asked.              *)
LEMMA ClaimKeeps ==
  ASSUME GateInv, TurnInv, NEW turn \in 1 .. setup.turns, NEW messages \in {0, 1},
         Claim(turn, messages), setup' = setup,
         loop.turn <= turn, loop.turn # turn \/ loop.step < setup.steps,
         loop.turn # turn => loop.at = "idle" /\ messages = 1,
         loop.turn = turn => loop.at = "tools",
         started' = IF loop.turn = turn THEN started ELSE [p \in Packages |-> 0],
         UNCHANGED <<left, prompted, override, held>>
  PROVE  TurnInv'
<1>1. Shape /\ loop \in LoopRecord /\ LoopTyped /\ MemoryTyped /\ OncePerStep
  BY DEF GateInv, Shape, TurnInv
<1>2. turn \in Int /\ turn \in Nat /\ turn > 0 /\ loop.turn \in Nat /\ loop.step \in Nat
      /\ setup.steps \in Nat \ {0}
  BY <1>1, SetupTyped DEF LoopTyped
<1>3. /\ loop'.at = "assemble" /\ loop'.pos = N /\ loop'.turn = turn /\ loop'.breaks = loop.breaks
      /\ loop'.step = IF turn = loop.turn THEN loop.step + 1 ELSE 1
  BY <1>1, <1>2, ClaimShape
<1>4. LoopTyped'
  BY <1>1, <1>2, <1>3, PositiveN DEF LoopTyped, Packages
<1> DEFINE all(p) == claimed[p] \o [i \in 1 .. messages |-> turn]
<1>5. claimed' = [p \in Packages |-> all(p)]
  BY DEF Claim
<1>6. ASSUME NEW p \in Packages
      PROVE  /\ all(p) \in Claims(turn)
             /\ claimed[p] # <<>> => all(p) # <<>> /\ all(p)[1] = claimed[p][1]
             /\ claimed[p] = <<>> /\ all(p) # <<>> => all(p)[1] = turn
             /\ messages = 1 => all(p) # <<>>
  <2>1. claimed[p] \in Claims(turn)
    BY <1>1, <1>2, ClaimsGrow DEF MemoryTyped
  <2> QED
    BY <1>2, <2>1, ClaimAdds, ZenonT(30)
<1> HIDE DEF all
<1>7. MemoryTyped'
  BY <1>1, <1>2, <1>3, <1>5, <1>6 DEF MemoryTyped, Packages
<1>8. OncePerStep'
  BY <1>1, <1>2, <1>3 DEF OncePerStep, Awaits, Packages, MemoryTyped
<1>9. ASSUME NEW p \in Packages \ left PROVE Own(p)'
  <2>1. Own(p) /\ p <= N /\ p \in Packages
    BY DEF TurnInv, Packages
  <2>2. Awaits(loop', p) /\ ~Served(loop', p) /\ loop'.at # "idle"
    BY <1>3, <2>1 DEF Awaits, Served
  <2>3. claimed[p] = <<>> /\ held[p] = 0
    BY <2>1 DEF Own, Served, Awaits
  <2>4. claimed'[p] = all(p) /\ held'[p] = 0 /\ override'[p] = override[p] /\ prompted'[p] = prompted[p]
    BY <1>5, <2>3
  <2>5. CASE loop.turn = turn
    <3>1. Asked(p)
      BY <2>1, <2>5 DEF Own, Awaits
    <3>2. Asked(p)'
      BY <1>3, <2>4, <2>5, <3>1 DEF Asked
    <3> QED
      BY <1>3, <1>6, <2>2, <2>3, <2>4, <3>2 DEF Own
  <2>6. CASE loop.turn # turn
    <3>1. prompted[p] # turn
      BY <1>1, <1>2, <2>6 DEF MemoryTyped
    <3>2. Untold(p)'
      BY <1>3, <1>6, <2>4, <2>6, <3>1 DEF Untold
    <3> QED
      BY <1>3, <1>6, <2>2, <2>3, <2>4, <3>2 DEF Own
  <2> QED
    BY <2>5, <2>6
<1> QED
  BY <1>4, <1>7, <1>8, <1>9 DEF TurnInv, Packages

\* The steps of the agent's loop keep it.
LEMMA LoopTurn == GateInv /\ TurnInv /\ Loop /\ setup' = setup => TurnInv'
<1> SUFFICES ASSUME GateInv, TurnInv, Loop, setup' = setup PROVE TurnInv'
  OBVIOUS
<1>1. Shape /\ loop \in LoopRecord /\ LoopTyped /\ MemoryTyped /\ OncePerStep
  BY DEF GateInv, Shape, TurnInv
<1>2. /\ loop.turn \in Nat /\ loop.step \in Nat /\ setup.turns \in Nat /\ setup.steps \in Nat
      /\ loop.turn <= setup.turns
  BY <1>1, SetupTyped DEF LoopTyped
<1>3. CASE Prompt
  BY <1>2, <1>3, ClaimKeeps DEF Prompt
<1>4. CASE NextStep
  <2>1. PICK messages \in {0, 1} : Claim(loop.turn, messages)
    BY <1>4 DEF NextStep
  <2>2. loop.at = "tools" /\ loop.step < setup.steps /\ UNCHANGED <<left, prompted, override, held, started>>
    BY <1>1, <1>4 DEF NextStep, LoopTyped
  <2>3. loop.turn \in 1 .. setup.turns
    BY <1>1, <1>2, <2>2 DEF LoopTyped
  <2> QED
    BY <2>1, <2>2, <2>3, ClaimKeeps
<1>5. CASE Concludes \/ Interrupt
  <2>1. UNCHANGED turnVars /\ (EndTurn(0) \/ EndTurn(1))
    BY <1>5 DEF Concludes, Interrupt
  <2>2. \A p \in Packages : started[p] <= loop.step
    BY <1>1 DEF OncePerStep
  <2> QED
    BY <1>1, <2>1, <2>2, EndKeeps DEF turnVars, MemoryTyped
<1>6. CASE AskForTools
  <2>1. /\ loop.at = "model" /\ loop.step < setup.steps /\ loop' = [loop EXCEPT !.at = "tools"]
        /\ UNCHANGED <<left, turnVars>>
    BY <1>6 DEF AskForTools
  <2>2. /\ loop'.at = "tools" /\ loop'.pos = loop.pos /\ loop'.turn = loop.turn
        /\ loop'.step = loop.step /\ loop'.breaks = loop.breaks
    BY <1>1, <2>1 DEF LoopRecord
  <2>3. LoopTyped' /\ MemoryTyped' /\ OncePerStep'
    BY <1>1, <2>1, <2>2 DEF LoopTyped, MemoryTyped, OncePerStep, Awaits, turnVars, Packages
  <2>4. ASSUME NEW p \in Packages \ left PROVE Own(p)'
    BY <2>1, <2>2 DEF TurnInv, Own, Asked, Untold, Awaits, Served, turnVars
  <2> QED
    BY <2>1, <2>3, <2>4 DEF TurnInv, Packages
<1> QED
  BY <1>3, <1>4, <1>5, <1>6 DEF Loop

-----------------------------------------------------------------------------
(* The listeners' steps.                                                    *)

(* One package has spoken and the loop has moved within the step: what      *)
(* holds of that package is shown by the caller, the others keep theirs.    *)
LEMMA SpeakKeeps ==
  ASSUME GateInv, TurnInv, NEW p \in Packages, setup' = setup, left' = left,
         LoopTyped', loop'.turn = loop.turn, loop'.step = loop.step, MemoryTyped',
         \A q \in Packages : started'[q] <= loop.step /\ (Awaits(loop', q) => started'[q] < loop.step),
         p \notin left => Own(p)',
         loop.at # "idle", loop'.at # "idle",
         \A q \in Packages \ {p} :
           /\ claimed'[q] = claimed[q] /\ prompted'[q] = prompted[q] /\ override'[q] = override[q]
           /\ held'[q] = held[q] /\ started'[q] = started[q]
           /\ Awaits(loop', q) <=> Awaits(loop, q)
           /\ Served(loop', q) => Served(loop, q)
  PROVE  TurnInv'
<1>1. OncePerStep'
  BY DEF OncePerStep, Packages
<1>2. ASSUME NEW q \in Packages \ left PROVE Own(q)'
  <2>1. CASE q = p
    BY <2>1
  <2>2. CASE q # p
    <3>1. Own(q) /\ q \in Packages \ {p}
      BY <2>2 DEF TurnInv
    <3> QED
      BY <3>1 DEF Own, Asked, Untold
  <2> QED
    BY <2>1, <2>2
<1> QED
  BY <1>1, <1>2 DEF TurnInv, Packages

\* A package that assembles a request forgets the messages it claimed.
LEMMA AssembleTurn ==
  ASSUME GateInv, TurnInv, NEW p \in Packages, Assemble(p), setup' = setup PROVE TurnInv'
<1>1. Shape /\ loop \in LoopRecord /\ LoopTyped /\ MemoryTyped /\ OncePerStep
  BY DEF GateInv, Shape, TurnInv
<1>2. /\ loop.at = "assemble" /\ loop.pos = p /\ claimed' = [claimed EXCEPT ![p] = <<>>]
      /\ p \in Int /\ 1 <= p /\ p <= N /\ Awaits(loop, p)
  BY DEF Assemble, Packages, Awaits
<1>3. /\ loop.turn \in Nat /\ loop.turn > 0 /\ loop.step \in Nat /\ N \in Nat
      /\ started[p] \in Nat /\ started[p] < loop.step
  BY <1>1, <1>2, SetupTyped, PositiveN DEF LoopTyped, MemoryTyped, OncePerStep
<1>4. claimed' \in [Packages -> Claims(loop.turn)] /\ claimed'[p] = <<>>
  <2>1. <<>> \in Claims(loop.turn)
    BY DEF Claims
  <2> QED
    BY <1>1, <1>2, <2>1 DEF MemoryTyped
<1>5. OpensTurn(p) => claimed[p][1] \in 0 .. loop.turn
  <2>1. claimed[p] \in Seq(Nat) /\ \A i \in DOMAIN claimed[p] : claimed[p][i] \in 1 .. loop.turn
    BY <1>1 DEF MemoryTyped, Claims
  <2>2. claimed[p] # <<>> => 1 \in DOMAIN claimed[p]
    BY <2>1
  <2> QED
    BY <1>3, <2>1, <2>2 DEF OpensTurn
<1>6. ASSUME Advance(p = 1, "boundary")
      PROVE  /\ loop'.at = (IF p = 1 THEN "boundary" ELSE "assemble")
             /\ loop'.pos = (IF p = 1 THEN 1 ELSE p - 1)
             /\ loop'.turn = loop.turn /\ loop'.step = loop.step /\ loop'.breaks = loop.breaks
             /\ LoopTyped'
             /\ \A q \in Packages : /\ Awaits(loop', q) <=> q < p
                                    /\ ~Served(loop', q)
             /\ \A q \in Packages : Awaits(loop, q) <=> q <= p
  <2>1. /\ loop'.at = (IF p = 1 THEN "boundary" ELSE "assemble")
        /\ loop'.pos = (IF p = 1 THEN 1 ELSE p - 1)
        /\ loop'.turn = loop.turn /\ loop'.step = loop.step /\ loop'.breaks = loop.breaks
    <3>1. CASE p = 1
      BY <1>1, <1>2, <1>6, <3>1, AdvanceShape
    <3>2. CASE p # 1
      BY <1>1, <1>2, <1>6, <3>2, AdvanceShape
    <3> QED
      BY <3>1, <3>2
  <2>2. LoopTyped'
    BY <1>1, <1>2, <1>3, <2>1 DEF LoopTyped, Packages
  <2> QED
    BY <1>2, <2>1, <2>2 DEF Awaits, Served, Packages
<1>7. CASE BeforeAgentStart(p)
  <2>1. /\ OpensTurn(p) /\ prompted' = [prompted EXCEPT ![p] = claimed[p][1]]
        /\ started' = [started EXCEPT ![p] = started[p] + 1]
        /\ Advance(p = 1, "boundary") /\ left' = left
    BY <1>7 DEF BeforeAgentStart
  <2>2. /\ override' = [override EXCEPT ![p] = loop.turn] \/ override' = [override EXCEPT ![p] = 0]
        /\ held' = [held EXCEPT ![p] = loop.turn] \/ held' = held
    <3>1. PICK prompt \in BOOLEAN, messages \in BOOLEAN :
            /\ override' = IF prompt THEN [override EXCEPT ![p] = loop.turn] ELSE Reset(p)
            /\ held' = IF messages THEN [held EXCEPT ![p] = loop.turn] ELSE held
      BY <1>7, Zenon DEF BeforeAgentStart
    <3> QED
      BY <3>1 DEF Reset
  <2>3. MemoryTyped'
    <3>1. loop'.turn = loop.turn /\ left' \subseteq Packages /\ loop.turn \in 0 .. loop.turn
      BY <1>1, <1>3, <1>6, <2>1 DEF MemoryTyped
    <3>2. prompted' \in [Packages -> 0 .. loop.turn] /\ started' \in [Packages -> Nat]
      BY <1>1, <1>3, <1>5, <2>1 DEF MemoryTyped
    <3>3. override' \in [Packages -> 0 .. loop.turn] /\ held' \in [Packages -> 0 .. loop.turn]
      BY <1>1, <1>3, <2>2, <3>1 DEF MemoryTyped
    <3> QED
      BY <1>4, <3>1, <3>2, <3>3 DEF MemoryTyped, Packages
  <2>4. ASSUME NEW q \in Packages
        PROVE  started'[q] <= loop.step /\ (Awaits(loop', q) => started'[q] < loop.step)
    <3>1. /\ started[q] \in Nat /\ started[q] <= loop.step /\ (Awaits(loop, q) => started[q] < loop.step)
          /\ started'[q] = IF q = p THEN started[p] + 1 ELSE started[q]
      BY <1>1, <2>1 DEF MemoryTyped, OncePerStep
    <3>2. (Awaits(loop', q) <=> q < p) /\ (Awaits(loop, q) <=> q <= p) /\ q \in Int
      BY <1>6, <2>1 DEF Packages
    <3> QED
      BY <1>2, <1>3, <3>1, <3>2
  <2>5. p \notin left => Own(p)'
    <3> SUFFICES ASSUME p \notin left PROVE Own(p)'
      OBVIOUS
    <3>1. Own(p)
      BY DEF TurnInv
    <3>2. Untold(p) /\ held[p] = 0 /\ claimed[p][1] = loop.turn
      BY <1>2, <2>1, <3>1 DEF Own, OpensTurn, Asked
    <3>3. Asked(p)' /\ held'[p] \in {0, loop.turn}
      BY <1>1, <1>6, <2>1, <2>2, <3>2 DEF Asked, Untold, MemoryTyped
    <3> QED
      BY <1>2, <1>4, <1>6, <2>1, <3>3 DEF Own
  <2> QED
    BY <1>1, <1>2, <1>6, <2>1, <2>2, <2>3, <2>4, <2>5, SpeakKeeps, SMTT(30) DEF MemoryTyped, Packages
<1>8. CASE BeforeAgentStartFails(p)
  <2>1. /\ OpensTurn(p) /\ prompted' = [prompted EXCEPT ![p] = claimed[p][1]]
        /\ started' = [started EXCEPT ![p] = started[p] + 1]
        /\ override' = [override EXCEPT ![p] = 0] /\ held' = held /\ EndTurn(1)
    BY <1>8 DEF BeforeAgentStartFails, Reset
  <2>2. \A q \in Packages : started'[q] <= loop.step
    BY <1>1, <1>3, <2>1 DEF MemoryTyped, OncePerStep
  <2>3. /\ prompted' \in [Packages -> 0 .. loop.turn] /\ override' \in [Packages -> 0 .. loop.turn]
        /\ held' \in [Packages -> 0 .. loop.turn] /\ started' \in [Packages -> Nat]
    BY <1>1, <1>3, <1>5, <2>1 DEF MemoryTyped
  <2> QED
    BY <1>4, <2>1, <2>2, <2>3, EndKeeps
<1>9. CASE AlreadyPrompted(p)
  <2>1. /\ ~OpensTurn(p) /\ Advance(p = 1, "boundary")
        /\ UNCHANGED <<prompted, override, held, started, left>>
    BY <1>9 DEF AlreadyPrompted
  <2>2. MemoryTyped'
    BY <1>1, <1>4, <1>6, <2>1 DEF MemoryTyped, Packages
  <2>3. \A q \in Packages : started'[q] <= loop.step /\ (Awaits(loop', q) => started'[q] < loop.step)
    BY <1>1, <1>2, <1>6, <2>1 DEF OncePerStep, Packages
  <2>4. p \notin left => Own(p)'
    <3> SUFFICES ASSUME p \notin left PROVE Own(p)'
      OBVIOUS
    <3>1. Own(p)
      BY DEF TurnInv
    <3>2. Asked(p) /\ held[p] = 0
      BY <1>2, <2>1, <3>1 DEF Own, Untold, OpensTurn
    <3>3. Asked(p)' /\ held'[p] = 0
      BY <1>6, <2>1, <3>2 DEF Asked
    <3> QED
      BY <1>2, <1>4, <1>6, <2>1, <3>3 DEF Own
  <2> QED
    BY <1>1, <1>2, <1>6, <2>1, <2>2, <2>3, <2>4, SpeakKeeps DEF MemoryTyped, Packages
<1> QED
  BY <1>7, <1>8, <1>9 DEF Assemble

\* A package at a boundary ends the turn or lets the step go on.
LEMMA BoundaryTurn ==
  ASSUME GateInv, TurnInv, NEW p \in Packages, Boundary(p), setup' = setup PROVE TurnInv'
<1>1. Shape /\ loop \in LoopRecord /\ LoopTyped /\ MemoryTyped /\ OncePerStep
  BY DEF GateInv, Shape, TurnInv
<1>2. /\ loop.at = "boundary" /\ loop.pos = p /\ UNCHANGED turnVars
      /\ p \in Int /\ 1 <= p /\ p <= N /\ N \in Nat
  BY PositiveN DEF Boundary, Packages
<1>3. CASE EndTurn(0)
  <2>1. \A q \in Packages : started[q] <= loop.step
    BY <1>1 DEF OncePerStep
  <2> QED
    BY <1>1, <1>2, <1>3, <2>1, EndKeeps DEF turnVars, MemoryTyped
<1>4. CASE Advance(p = N, "join") /\ left' = left
  <2>1. /\ loop'.at = (IF p = N THEN "join" ELSE "boundary")
        /\ loop'.pos = (IF p = N THEN N ELSE p + 1)
        /\ loop'.turn = loop.turn /\ loop'.step = loop.step /\ loop'.breaks = loop.breaks
    <3>1. CASE p = N
      BY <1>1, <1>2, <1>4, <3>1, AdvanceShape
    <3>2. CASE p # N
      BY <1>1, <1>2, <1>4, <3>2, AdvanceShape
    <3> QED
      BY <3>1, <3>2
  <2>2. LoopTyped' /\ MemoryTyped' /\ OncePerStep'
    <3>1. LoopTyped'
      BY <1>1, <1>2, <2>1 DEF LoopTyped, Packages
    <3>2. MemoryTyped'
      BY <1>1, <1>2, <1>4, <2>1 DEF MemoryTyped, turnVars, Packages
    <3>3. OncePerStep'
      BY <1>1, <1>2, <2>1 DEF OncePerStep, turnVars, Awaits, Packages
    <3> QED
      BY <3>1, <3>2, <3>3
  <2>3. \A q \in Packages : ~Served(loop', q) /\ ~Awaits(loop', q) /\ ~Awaits(loop, q)
    BY <1>2, <2>1 DEF Served, Awaits, Packages
  <2>4. ASSUME NEW q \in Packages \ left PROVE Own(q)'
    <3>1. Own(q)
      BY DEF TurnInv
    <3> QED
      BY <1>2, <2>1, <2>3, <3>1 DEF Own, Asked, turnVars
  <2> QED
    BY <1>4, <2>2, <2>4 DEF TurnInv, Packages
<1> QED
  BY <1>3, <1>4 DEF Boundary

\* A package whose message joined the step holds none.
LEMMA JoinTurn ==
  ASSUME GateInv, TurnInv, NEW p \in Packages, Join(p), setup' = setup PROVE TurnInv'
<1>1. Shape /\ loop \in LoopRecord /\ LoopTyped /\ MemoryTyped /\ OncePerStep
  BY DEF GateInv, Shape, TurnInv
<1>2. /\ loop.at = "join" /\ loop.pos = p /\ held' = [held EXCEPT ![p] = 0]
      /\ Advance(p = 1, "model") /\ UNCHANGED <<left, claimed, prompted, override, started>>
      /\ p \in Int /\ 1 <= p /\ p <= N /\ N \in Nat
  BY PositiveN DEF Join, Packages
<1>3. /\ loop'.at = (IF p = 1 THEN "model" ELSE "join")
      /\ loop'.pos = (IF p = 1 THEN 1 ELSE p - 1)
      /\ loop'.turn = loop.turn /\ loop'.step = loop.step /\ loop'.breaks = loop.breaks
  <2>1. CASE p = 1
    BY <1>1, <1>2, <2>1, AdvanceShape
  <2>2. CASE p # 1
    BY <1>1, <1>2, <2>2, AdvanceShape
  <2> QED
    BY <2>1, <2>2
<1>4. LoopTyped'
  BY <1>1, <1>2, <1>3 DEF LoopTyped, Packages
<1>5. MemoryTyped'
  <2>1. 0 \in 0 .. loop.turn
    BY <1>1, SetupTyped DEF LoopTyped
  <2> QED
    BY <1>1, <1>2, <1>3, <2>1 DEF MemoryTyped, Packages
<1>6. \A q \in Packages : ~Awaits(loop', q) /\ ~Awaits(loop, q) /\ (Served(loop', q) => q = p \/ Served(loop, q))
  BY <1>2, <1>3 DEF Served, Awaits, Packages
<1>7. p \notin left => Own(p)'
  <2> SUFFICES ASSUME p \notin left PROVE Own(p)'
    OBVIOUS
  <2>1. Own(p)
    BY DEF TurnInv
  <2>2. Asked(p) /\ claimed[p] = <<>>
    BY <1>2, <1>6, <2>1 DEF Own
  <2>3. held'[p] = 0
    BY <1>1, <1>2 DEF MemoryTyped
  <2> QED
    BY <1>2, <1>3, <1>6, <2>2, <2>3 DEF Own, Asked
<1> QED
  BY <1>1, <1>2, <1>3, <1>4, <1>5, <1>6, <1>7, SpeakKeeps DEF MemoryTyped, OncePerStep, Packages

(* The calls do not touch what a package keeps of the turn.                 *)
LEMMA ToolsTurn == TurnInv /\ Tools /\ setup' = setup => TurnInv'
<1> SUFFICES ASSUME TurnInv, Tools, setup' = setup PROVE TurnInv'
  OBVIOUS
<1>1. UNCHANGED <<loop, left, turnVars>>
  BY DEF Tools, Execute, PreExecute, PostExecute, CallNested
<1>2. LoopTyped' /\ MemoryTyped' /\ OncePerStep'
  BY <1>1 DEF TurnInv, LoopTyped, MemoryTyped, OncePerStep, turnVars, Packages
<1>3. ASSUME NEW p \in Packages \ left PROVE Own(p)'
  BY <1>1 DEF TurnInv, Own, Asked, Untold, turnVars
<1> QED
  BY <1>1, <1>2, <1>3 DEF TurnInv, Packages

\* Every step keeps the invariant.
LEMMA StepTurn == GateInv /\ TurnInv /\ [Next]_vars => TurnInv'
<1> SUFFICES ASSUME GateInv, TurnInv, [Next]_vars PROVE TurnInv'
  OBVIOUS
<1>1. CASE UNCHANGED vars
  <2>1. LoopTyped' /\ MemoryTyped' /\ OncePerStep'
    BY <1>1 DEF TurnInv, LoopTyped, MemoryTyped, OncePerStep, vars, turnVars, Packages
  <2>2. ASSUME NEW p \in Packages \ left PROVE Own(p)'
    BY <1>1 DEF TurnInv, Own, Asked, Untold, vars, turnVars
  <2> QED
    BY <1>1, <2>1, <2>2 DEF TurnInv, vars, Packages
<1>2. CASE Next
  BY <1>2, LoopTurn, AssembleTurn, BoundaryTurn, JoinTurn, ToolsTurn DEF Next, Listeners
<1> QED
  BY <1>1, <1>2

-----------------------------------------------------------------------------
(* The records of the calls, in the ranges of TypeOK.                       *)

InBounds(r, calls) == r.pos \in 0 .. N /\ r.owner \in 0 .. N /\ r.parent \subseteq calls

CallInv == \A c \in setup.calls : InBounds(call[c], setup.calls)

\* A call nobody has made is within the bounds,
LEMMA FreshInBounds == \A calls : Fresh \in CallRecord /\ InBounds(Fresh, calls)
BY PositiveN DEF Fresh, CallRecord, InBounds

\* and so is one that has just been made.
LEMMA OpenedInBounds ==
  ASSUME NEW owner \in 0 .. N, NEW calls, NEW parent \in SUBSET calls
  PROVE  InBounds(Opened(owner, parent), calls)
<1> DEFINE opened(fresh) == [fresh EXCEPT !.at = "pre", !.pos = 1, !.owner = owner, !.parent = parent]
<1>1. ASSUME NEW fresh \in CallRecord
      PROVE  opened(fresh).pos = 1 /\ opened(fresh).owner = owner /\ opened(fresh).parent = parent
  BY DEF CallRecord
<1>2. Opened(owner, parent) = opened(Fresh)
  BY Zenon DEF Opened
<1> HIDE DEF opened
<1>3. Opened(owner, parent).pos = 1 /\ Opened(owner, parent).owner = owner
      /\ Opened(owner, parent).parent = parent
  BY <1>1, <1>2, FreshInBounds
<1>4. 1 \in 0 .. N
  BY PositiveN DEF Packages
<1> QED
  BY <1>3, <1>4 DEF InBounds

\* A call that settles stays within them.
LEMMA SettleInBounds ==
  ASSUME GateInv, CallInv, NEW c \in setup.calls, NEW result, NEW stop, NEW concludes,
         Settle(c, result, stop, concludes), setup' = setup
  PROVE  CallInv'
<1>1. ASSUME NEW r \in CallRecord, NEW pos
      PROVE  LET next == [r EXCEPT !.at = "post", !.pos = pos, !.owner = 0, !.result = result,
                                   !.stop = stop, !.concludes = concludes]
             IN next.pos = pos /\ next.owner = 0 /\ next.parent = r.parent
  BY DEF CallRecord
<1>2. PICK r : /\ r = [call[c] EXCEPT !.at = "post", !.pos = N, !.owner = 0, !.result = result,
                                      !.stop = stop, !.concludes = concludes]
  OBVIOUS
<1>3. call' = [call EXCEPT ![c] = r]
  BY <1>2, Zenon DEF Settle
<1>4. call[c] \in CallRecord
  BY DEF GateInv, Shape
<1>5. r.pos = N /\ r.owner = 0 /\ r.parent = call[c].parent
  BY <1>1, <1>2, <1>4, Zenon
<1>6. InBounds(r, setup.calls)
  BY <1>5, PositiveN DEF CallInv, InBounds
<1> QED
  BY <1>3, <1>6 DEF CallInv, GateInv, Shape

\* The steps of a call stay within them.
LEMMA ToolsInBounds == GateInv /\ CallInv /\ Tools /\ setup' = setup => CallInv'
<1> SUFFICES ASSUME GateInv, CallInv, Tools, setup' = setup PROVE CallInv'
  OBVIOUS
<1>1. call \in [setup.calls -> CallRecord]
  BY DEF GateInv, Shape
<1>2. ASSUME NEW c \in setup.calls, Execute(c) PROVE CallInv'
  BY <1>2, SettleInBounds DEF Execute
<1>3. ASSUME NEW c \in setup.calls, NEW p \in Packages, PreExecute(c, p) PROVE CallInv'
  <2>1. call[c].pos = p /\ call[c] \in CallRecord
    BY <1>1, <1>3 DEF PreExecute
  <2>2. \/ \E result, stop, concludes : Settle(c, result, stop, concludes)
        \/ p < N /\ call' = [call EXCEPT ![c] = [call[c] EXCEPT !.pos = p + 1]]
        \/ call' = [call EXCEPT ![c] = [call[c] EXCEPT !.at = "run"]]
    BY <1>3, Zenon DEF PreExecute
  <2>3. ASSUME NEW result, NEW stop, NEW concludes, Settle(c, result, stop, concludes) PROVE CallInv'
    BY <2>3, SettleInBounds
  <2>4. CASE p < N /\ call' = [call EXCEPT ![c] = [call[c] EXCEPT !.pos = p + 1]]
    <3> DEFINE r == [call[c] EXCEPT !.pos = p + 1]
    <3>1. r.pos = p + 1 /\ r.owner = call[c].owner /\ r.parent = call[c].parent
      BY <2>1 DEF CallRecord
    <3>2. p + 1 \in 0 .. N
      BY <2>4, PositiveN DEF Packages
    <3> HIDE DEF r
    <3>3. InBounds(r, setup.calls)
      BY <3>1, <3>2 DEF CallInv, InBounds
    <3> QED
      BY <1>1, <2>4, <3>3 DEF CallInv, r
  <2>5. CASE call' = [call EXCEPT ![c] = [call[c] EXCEPT !.at = "run"]]
    <3> DEFINE r == [call[c] EXCEPT !.at = "run"]
    <3>1. r.pos = call[c].pos /\ r.owner = call[c].owner /\ r.parent = call[c].parent
      BY <2>1 DEF CallRecord
    <3> HIDE DEF r
    <3>2. InBounds(r, setup.calls)
      BY <3>1 DEF CallInv, InBounds
    <3> QED
      BY <1>1, <2>5, <3>2 DEF CallInv, r
  <2> QED
    BY <2>2, <2>3, <2>4, <2>5
<1>4. ASSUME NEW c \in setup.calls, NEW p \in Packages, PostExecute(c, p) PROVE CallInv'
  <2> DEFINE patched(patch) == [call[c] EXCEPT !.decision = Patched(c, patch), !.pos = p - 1,
                                            !.at = IF p = 1 THEN "done" ELSE "post"]
             concluding(patch, d) == p = 1 /\ d \in call[c].parent /\ call[c].concludes /\ ~Failed(patched(patch))
  <2>1. PICK patch \in {"none", "text", "fail", "heal"} :
          call' = [d \in setup.calls |-> IF d = c THEN patched(patch)
                                         ELSE IF concluding(patch, d) THEN [call[d] EXCEPT !.concludes = TRUE]
                                         ELSE call[d]]
    BY <1>4, Zenon DEF PostExecute
  <2>2. call[c] \in CallRecord /\ p - 1 \in 0 .. N
    BY <1>1, PositiveN DEF Packages
  <2> DEFINE next(decision, pos, at) == [call[c] EXCEPT !.decision = decision, !.pos = pos, !.at = at]
  <2>3. ASSUME NEW decision, NEW pos, NEW at
        PROVE  /\ next(decision, pos, at).pos = pos /\ next(decision, pos, at).owner = call[c].owner
               /\ next(decision, pos, at).parent = call[c].parent
    BY <2>2 DEF CallRecord
  <2>4. patched(patch) = next(Patched(c, patch), p - 1, IF p = 1 THEN "done" ELSE "post")
    BY Zenon
  <2> HIDE DEF patched, concluding, next
  <2>5. InBounds(patched(patch), setup.calls)
    BY <2>2, <2>3, <2>4 DEF CallInv, InBounds
  <2>6. ASSUME NEW d \in setup.calls PROVE InBounds([call[d] EXCEPT !.concludes = TRUE], setup.calls)
    <3>1. /\ [call[d] EXCEPT !.concludes = TRUE].pos = call[d].pos
          /\ [call[d] EXCEPT !.concludes = TRUE].owner = call[d].owner
          /\ [call[d] EXCEPT !.concludes = TRUE].parent = call[d].parent
      BY <1>1 DEF CallRecord
    <3> QED
      BY <3>1 DEF CallInv, InBounds
  <2>7. ASSUME NEW d \in setup.calls PROVE InBounds(call'[d], setup.calls)
    <3>1. InBounds(call[d], setup.calls)
      BY DEF CallInv
    <3> QED
      BY <2>1, <2>5, <2>6, <3>1
  <2> QED
    BY <2>7 DEF CallInv
<1>5. ASSUME NEW c \in setup.calls, NEW d \in setup.calls, CallNested(c, d) PROVE CallInv'
  <2>1. PICK owner \in 0 .. N : call' = [call EXCEPT ![d] = Opened(owner, {c})]
    BY <1>5 DEF CallNested
  <2>2. InBounds(Opened(owner, {c}), setup.calls)
    BY OpenedInBounds
  <2> QED
    BY <1>1, <2>1, <2>2 DEF CallInv
<1> QED
  BY <1>2, <1>3, <1>4, <1>5 DEF Tools

\* Every step stays within them.
LEMMA StepInBounds == GateInv /\ CallInv /\ [Next]_vars => CallInv'
<1> SUFFICES ASSUME GateInv, CallInv, [Next]_vars PROVE CallInv'
  OBVIOUS
<1>1. call \in [setup.calls -> CallRecord]
  BY DEF GateInv, Shape
<1>2. CASE UNCHANGED <<setup, call>>
  BY <1>2 DEF CallInv
<1>3. CASE Loop /\ setup' = setup
  <2>1. CASE Prompt
    <3>1. call' = [c \in setup.calls |-> IF call[c].at = "done" THEN Fresh ELSE call[c]]
      BY <2>1 DEF Prompt
    <3> QED
      BY <1>1, <1>3, <3>1, FreshInBounds DEF CallInv
  <2>2. CASE NextStep \/ Concludes \/ Interrupt
    BY <1>2, <1>3, <2>2 DEF NextStep, Concludes, Interrupt
  <2>3. CASE AskForTools
    <3>1. PICK asked \in SUBSET setup.calls, owner \in [setup.calls -> 0 .. N] :
            call' = [c \in setup.calls |-> IF c \in asked THEN Opened(owner[c], {}) ELSE call[c]]
      BY <2>3, SMTT(30) DEF AskForTools
    <3>2. \A o \in 0 .. N : InBounds(Opened(o, {}), setup.calls)
      BY OpenedInBounds
    <3> QED
      BY <1>1, <1>3, <3>1, <3>2 DEF CallInv
  <2> QED
    BY <1>3, <2>1, <2>2, <2>3 DEF Loop
<1>4. CASE Listeners /\ setup' = setup
  BY <1>2, <1>4 DEF Listeners, Assemble, Boundary, Join
<1>5. CASE Tools /\ setup' = setup
  BY <1>5, ToolsInBounds
<1> QED
  BY <1>2, <1>3, <1>4, <1>5 DEF Next, vars

\* Together the invariants give the types.
LEMMA TurnTyped == GateInv /\ CallInv /\ TurnInv => TypeOK
<1> SUFFICES ASSUME GateInv, CallInv, TurnInv PROVE TypeOK
  OBVIOUS
<1>1. Shape /\ LoopTyped /\ MemoryTyped /\ OncePerStep
  BY DEF GateInv, TurnInv
<1>2. loop \in [at : {"idle", "assemble", "boundary", "join", "model", "tools"}, pos : 0 .. N,
                turn : 0 .. setup.turns, step : 0 .. setup.steps, breaks : 0 .. setup.breaks]
  BY <1>1 DEF Shape, LoopRecord, LoopTyped
<1>3. batch \subseteq Calls /\ left \subseteq Packages
  BY <1>1, SetupTyped DEF Shape, MemoryTyped
<1>4. call \in [setup.calls -> [at : {"none", "pre", "run", "post", "done"}, pos : 0 .. N, owner : 0 .. N,
                        parent : SUBSET setup.calls, stop : BOOLEAN, concludes : BOOLEAN,
                        result : {"none", "denied", "ok", "error"},
                        decision : {"accept", "replace", "block"}]]
  <2>1. ASSUME NEW r \in CallRecord, InBounds(r, setup.calls)
        PROVE  r \in [at : {"none", "pre", "run", "post", "done"}, pos : 0 .. N, owner : 0 .. N,
                      parent : SUBSET setup.calls, stop : BOOLEAN, concludes : BOOLEAN,
                      result : {"none", "denied", "ok", "error"},
                      decision : {"accept", "replace", "block"}]
    BY <2>1 DEF CallRecord, InBounds
  <2>2. \A c \in setup.calls : call[c] \in CallRecord /\ InBounds(call[c], setup.calls)
    BY <1>1 DEF Shape, CallInv
  <2>3. call = [c \in setup.calls |-> call[c]]
    BY <1>1 DEF Shape
  <2> QED
    BY <2>1, <2>2, <2>3
<1>5. ASSUME NEW p \in Packages, NEW i \in 1 .. Len(claimed[p]) PROVE claimed[p][i] \in 1 .. loop.turn
  BY <1>1 DEF MemoryTyped, Claims
<1>6. {prompted, override, held} \subseteq [Packages -> 0 .. loop.turn]
  BY <1>1 DEF MemoryTyped
<1>7. started \in [Packages -> 0 .. setup.steps]
  <2>1. \A p \in Packages : started[p] \in 0 .. setup.steps
    BY <1>1, SetupTyped DEF MemoryTyped, OncePerStep, LoopTyped
  <2> QED
    BY <1>1, <2>1 DEF MemoryTyped
<1>8. ASSUME NEW p \in Packages PROVE tally[p].calls \in Nat /\ tally[p].stops \in 0 .. tally[p].calls
  BY <1>1 DEF Shape, GateInv, Even
<1> QED
  BY <1>2, <1>3, <1>4, <1>5, <1>6, <1>7, <1>8 DEF TypeOK

(* In whatever order the steps, interruptions and late calls of the agent   *)
(* come: when the model is called every package has been asked exactly once *)
(* in this turn, and the prompt it is given and the messages that join are  *)
(* this turn's, unless the turn before broke off and left the package       *)
(* something (runtime.ts subscribeInterceptors, runBeforeAgentStart).       *)
THEOREM TurnsAreTheirOwn == Spec => []TurnIsItsOwn
<1>1. Init => CallInv
  <2> SUFFICES ASSUME Init PROVE CallInv
    OBVIOUS
  <2>1. call = [c \in setup.calls |-> Fresh]
    BY DEF Init
  <2> QED
    BY <2>1, FreshInBounds DEF CallInv
<1>2. GateInv /\ CallInv /\ TurnInv => TurnIsItsOwn
  <2> SUFFICES ASSUME GateInv, CallInv, TurnInv PROVE TurnIsItsOwn
    OBVIOUS
  <2>1. TypeOK
    BY TurnTyped
  <2>2. ASSUME loop.at = "model", NEW p \in Packages \ left
        PROVE  started[p] = 1 /\ override[p] \in {0, loop.turn}
    BY <2>2 DEF TurnInv, Own, Awaits, Asked
  <2>3. ASSUME loop.at = "join", loop.pos \notin left PROVE held[loop.pos] \in {0, loop.turn}
    <3>1. loop.pos \in Packages \ left
      BY <2>3 DEF TurnInv, LoopTyped
    <3> QED
      BY <2>3, <3>1 DEF TurnInv, Own, Awaits
  <2> QED
    BY <2>1, <2>2, <2>3 DEF TurnIsItsOwn
<1> QED
  BY <1>1, <1>2, InitGate, StepGate, InitTurn, StepTurn, StepInBounds, PTL DEF Spec

-----------------------------------------------------------------------------
(***************************************************************************)
(* What the package hears of the loop: EventProjection.  Its variables are *)
(* its own; it follows the agent's loop in another detail, as worker.      *)
(***************************************************************************)
\* A set of numbers that is not empty has a least.
LEMMA LeastExists ==
  ASSUME NEW T \in SUBSET Nat, T # {}
  PROVE  \E x \in T : \A y \in T : x <= y
<1>1. PICK x \in T : \A y \in T : ~ (<<y, x>> \in OpToRel(<, Nat))
  BY NatLessThanWellFounded, WFMin, ZenonT(30)
<1>2. \A y \in T : ~ (y < x)
  BY <1>1 DEF OpToRel
<1> QED
  BY <1>2

\* A bounded set of numbers that is not empty has a greatest.
LEMMA GreatestExists ==
  ASSUME NEW n \in Nat, NEW T \in SUBSET (0 .. n), T # {}
  PROVE  \E x \in T : \A y \in T : x >= y
<1>1. \A i \in T : i \in Nat /\ n - i \in Nat
  OBVIOUS
<1> DEFINE rest == {n - i : i \in T}
<1>2. rest \in SUBSET Nat /\ rest # {}
  <2>1. PICK i \in T : TRUE
    OBVIOUS
  <2>2. n - i \in rest
    BY <2>1
  <2> QED
    BY <1>1, <2>2
<1>3. PICK m \in rest : \A k \in rest : m <= k
  BY <1>2, LeastExists
<1>4. PICK x \in T : m = n - x
  BY <1>3
<1>5. ASSUME NEW y \in T PROVE x >= y
  <2>1. n - x <= n - y
    BY <1>3, <1>4
  <2> QED
    BY <1>1, <2>1
<1> QED
  BY <1>5

\* The sequence Ordered(S) holds the places of S, all of them, rising.
Rising(s) == \A i, j \in 1 .. Len(s) : i < j => s[i] < s[j]

LEMMA OrderedPlaces ==
  ASSUME NEW S \in SUBSET Nat, IsFiniteSet(S)
  PROVE  /\ Ordered(S) \in Seq(S) /\ Rising(Ordered(S))
         /\ \A k \in S : \E i \in 1 .. Len(Ordered(S)) : Ordered(S)[i] = k
<1> DEFINE n == Cardinality(S)
           UpTo(k) == {j \in S : j <= k}
           rank == [k \in S |-> Cardinality(UpTo(k))]
           o == Ordered(S)
<1>1. n \in Nat /\ IsFiniteSet(1 .. n) /\ Cardinality(1 .. n) = n /\ Cardinality(S) = n
  <2>1. Cardinality(S) = n /\ n \in Nat
    BY FS_CardinalityType
  <2> HIDE DEF n
  <2> QED
    BY <2>1, FS_Interval
<1>2. \A k \in S : IsFiniteSet(UpTo(k)) /\ Cardinality(UpTo(k)) \in Nat /\ Cardinality(UpTo(k)) \in 1 .. n
  <2> SUFFICES ASSUME NEW k \in S
               PROVE  IsFiniteSet(UpTo(k)) /\ Cardinality(UpTo(k)) \in Nat /\ Cardinality(UpTo(k)) \in 1 .. n
    OBVIOUS
  <2>1. UpTo(k) \in SUBSET S /\ k \in UpTo(k)
    OBVIOUS
  <2> HIDE DEF UpTo
  <2>2. IsFiniteSet(UpTo(k)) /\ Cardinality(UpTo(k)) <= n
    BY <2>1, FS_Subset
  <2>3. Cardinality(UpTo(k)) \in Nat /\ Cardinality(UpTo(k)) # 0
    BY <2>1, <2>2, FS_CardinalityType, FS_EmptySet
  <2> QED
    BY <1>1, <2>2, <2>3
<1>3. \A k, m \in S : k < m => Cardinality(UpTo(k)) < Cardinality(UpTo(m))
  <2> SUFFICES ASSUME NEW k \in S, NEW m \in S, k < m
               PROVE  Cardinality(UpTo(k)) < Cardinality(UpTo(m))
    OBVIOUS
  <2>1. UpTo(k) \in SUBSET UpTo(m) /\ m \in UpTo(m) /\ m \notin UpTo(k)
    <3>1. \A j \in S : j \in Nat
      OBVIOUS
    <3>2. k \in Nat /\ m \in Nat
      OBVIOUS
    <3>3. \A j \in S : j <= k => j <= m
      BY <3>1, <3>2
    <3>4. m <= m /\ ~(m <= k)
      BY <3>2
    <3> QED
      BY <3>3, <3>4
  <2>2. IsFiniteSet(UpTo(m)) /\ Cardinality(UpTo(k)) \in Nat /\ Cardinality(UpTo(m)) \in Nat
    BY <1>2
  <2> HIDE DEF UpTo
  <2>3. Cardinality(UpTo(k)) <= Cardinality(UpTo(m)) /\ Cardinality(UpTo(k)) # Cardinality(UpTo(m))
    BY <2>1, <2>2, FS_Subset
  <2> QED
    BY <2>2, <2>3
<1>4. rank \in Injection(S, 1 .. n)
  <2>1. rank \in [S -> 1 .. n]
    BY <1>2
  <2>2. ASSUME NEW k \in S, NEW m \in S, rank[k] = rank[m] PROVE k = m
    <3>1. ~(k < m) /\ ~(m < k)
      BY <1>2, <1>3, <2>2
    <3> QED
      BY <3>1
  <2> HIDE DEF rank
  <2> QED
    BY <2>1, <2>2 DEF Injection, IsInjective
<1>5. \A i \in 1 .. n : \E k \in S : rank[k] = i
  <2>1. rank \in Surjection(S, 1 .. n)
    BY <1>1, <1>4, FS_Injection
  <2> QED
    BY <2>1 DEF Surjection
<1>6. /\ o = [i \in 1 .. n |-> CHOOSE k \in S : Cardinality(UpTo(k)) = i]
      /\ \A i \in 1 .. n : o[i] \in S /\ rank[o[i]] = i
  <2>1. o = [i \in 1 .. n |-> CHOOSE k \in S : Cardinality(UpTo(k)) = i]
    BY DEF Ordered
  <2>2. ASSUME NEW i \in 1 .. n PROVE o[i] \in S /\ rank[o[i]] = i
    <3>1. \E k \in S : Cardinality(UpTo(k)) = i
      BY <1>5
    <3>2. o[i] = CHOOSE k \in S : Cardinality(UpTo(k)) = i
      BY <2>1
    <3> HIDE DEF o, UpTo
    <3>3. o[i] \in S /\ Cardinality(UpTo(o[i])) = i
      BY <3>1, <3>2, Zenon
    <3> QED
      BY <3>3
  <2> QED
    BY <2>1, <2>2
<1> HIDE DEF o
<1>7. o \in Seq(S) /\ Len(o) = n
  <2>1. DOMAIN o = 1 .. n /\ o \in [1 .. n -> S]
    BY <1>6, Zenon
  <2> HIDE DEF n
  <2> QED
    BY <1>1, <2>1
<1>8. Rising(o)
  <2> SUFFICES ASSUME NEW i \in 1 .. n, NEW j \in 1 .. n, i < j PROVE o[i] < o[j]
    BY <1>7 DEF Rising
  <2>1. o[i] \in S /\ o[j] \in S /\ rank[o[i]] = i /\ rank[o[j]] = j
    BY <1>6
  <2>2. \A k \in S : rank[k] = Cardinality(UpTo(k)) /\ k \in Nat
    OBVIOUS
  <2>3. o[j] < o[i] => rank[o[j]] < rank[o[i]]
    BY <1>3, <2>1, <2>2
  <2>4. o[i] \in Nat /\ o[j] \in Nat
    BY <2>1
  <2>5. i \in Nat /\ j \in Nat
    BY <1>1
  <2> HIDE DEF rank, n
  <2> QED
    BY <2>1, <2>3, <2>4, <2>5
<1>9. ASSUME NEW k \in S PROVE \E i \in 1 .. n : o[i] = k
  <2>1. rank[k] \in 1 .. n
    BY <1>2
  <2>2. o[rank[k]] \in S /\ rank[o[rank[k]]] = rank[k]
    BY <1>6, <2>1
  <2>3. o[rank[k]] = k
    <3>1. rank \in [S -> 1 .. n] /\ \A a, b \in S : rank[a] = rank[b] => a = b
      BY <1>4 DEF Injection, IsInjective
    <3> HIDE DEF rank
    <3> QED
      BY <2>2, <3>1
  <2> QED
    BY <2>1, <2>3
<1> QED
  BY <1>7, <1>8, <1>9 DEF o

\* What the loop logs.
Entry == [kind : Kinds, turn : Nat, step : Nat, part : Nat \X Nat]
Telling == [event : Events, at : Nat]

\* The queue c of places in the log l.
Waiting(c, l) ==
  /\ c \in Seq(Nat) /\ Rising(c)
  /\ \A i \in 1 .. Len(c) : c[i] \in 1 .. Len(l) /\ Waits(l[c[i]].kind)

\* What was heard of the log l, in its order.
Told(h, l) ==
  /\ h \in Seq(Telling)
  /\ \A i \in 1 .. Len(h) : h[i].at \in 1 .. Len(l)
  /\ \A i, j \in 1 .. Len(h) : i < j =>
       \/ h[i].at < h[j].at
       \/ h[i].at = h[j].at /\ <<h[i].event, h[j].event>> = Script(l[h[i].at].kind)

\* What was heard, h, lies before what waits, c, but for the first half of the first.
Ahead(c, t, h) ==
  \A i \in 1 .. Len(h), j \in 1 .. Len(c) : h[i].at < c[j] \/ (t = 1 /\ i = Len(h) /\ j = 1)

\* Of the first in the queue, t tellings have been heard, last of all.
Begun(c, t, h, l) ==
  /\ t \in {0, 1}
  /\ t = 1 => /\ Len(c) > 0 /\ Len(h) > 0 /\ Len(Script(l[c[1]].kind)) = 2
              /\ h[Len(h)] = [event |-> Script(l[c[1]].kind)[1], at |-> c[1]]

Queued(c, t, h, l) == Waiting(c, l) /\ Told(h, l) /\ Ahead(c, t, h) /\ Begun(c, t, h, l)

\* The share of an event is two tellings at most.
LEMMA ScriptShape ==
  ASSUME NEW kind \in Kinds
  PROVE  /\ Script(kind) \in Seq(Events) /\ Len(Script(kind)) \in {0, 1, 2}
         /\ Script(kind) = <<>> <=> Len(Script(kind)) = 0
         /\ Len(Script(kind)) = 2 => Script(kind) = <<Script(kind)[1], Script(kind)[2]>>
<1>1. CASE kind \in {"assistant/message", "tool/result"}
  <2>1. Script(kind) = <<"message_start", "message_end">>
    BY <1>1 DEF Script
  <2> QED
    BY <2>1 DEF Events
<1>2. CASE kind = "step/end"
  <2>1. Script(kind) = <<"turn_end">>
    BY <1>2 DEF Script
  <2> QED
    BY <2>1 DEF Events
<1>3. CASE kind = "turn/end"
  <2>1. Script(kind) = <<"agent_end", "agent_settled">>
    BY <1>3 DEF Script
  <2> QED
    BY <2>1 DEF Events
<1>4. CASE kind = "compaction/summary"
  <2>1. Script(kind) = <<"session_compact">>
    BY <1>4 DEF Script
  <2> QED
    BY <2>1 DEF Events
<1>5. CASE kind \in {"turn/start", "step/start", "assistant/chunk", "compaction/start"}
  <2>1. Script(kind) = <<>>
    BY <1>5 DEF Script
  <2> QED
    BY <2>1 DEF Events
<1> QED
  BY <1>1, <1>2, <1>3, <1>4, <1>5 DEF Kinds

\* The log grows: what is queued and heard is of the longer one as well.
LEMMA QueuedGrows ==
  ASSUME NEW c, NEW t, NEW h, NEW l \in Seq(Entry), NEW m \in Seq(Entry), Queued(c, t, h, l),
         Len(l) <= Len(m), \A k \in 1 .. Len(l) : m[k] = l[k]
  PROVE  Queued(c, t, h, m)
<1>1. \A i \in 1 .. Len(c) : c[i] \in 1 .. Len(m) /\ m[c[i]] = l[c[i]]
  BY DEF Queued, Waiting
<1>2. \A i \in 1 .. Len(h) : h[i].at \in 1 .. Len(m) /\ m[h[i].at] = l[h[i].at]
  BY DEF Queued, Told
<1>3. t = 1 => m[c[1]] = l[c[1]]
  <2>1. c \in Seq(Nat) /\ (t = 1 => Len(c) > 0)
    BY DEF Queued, Waiting, Begun
  <2> QED
    BY <1>1, <2>1
<1>4. Waiting(c, m)
  BY <1>1 DEF Queued, Waiting
<1>5. Told(h, m)
  BY <1>2 DEF Queued, Told
<1>6. Begun(c, t, h, m)
  BY <1>3 DEF Queued, Begun
<1> QED
  BY <1>4, <1>5, <1>6 DEF Queued

\* Places that lie behind all of it are queued.
LEMMA QueuedMore ==
  ASSUME NEW c, NEW t, NEW h, NEW l \in Seq(Entry), Queued(c, t, h, l),
         NEW s \in Seq(Nat), Rising(s), NEW lo \in Nat,
         \A i \in 1 .. Len(s) : s[i] \in lo .. Len(l) /\ s[i] # 0 /\ Waits(l[s[i]].kind),
         \A i \in 1 .. Len(c) : c[i] < lo, \A i \in 1 .. Len(h) : h[i].at < lo
  PROVE  /\ Queued(c \o s, t, h, l)
         /\ \A i \in 1 .. Len(c) : (c \o s)[i] = c[i]
         /\ Len(c \o s) = Len(c) + Len(s)
         /\ \A i \in 1 .. Len(s) : (c \o s)[Len(c) + i] = s[i]
<1> DEFINE d == c \o s
<1>1. c \in Seq(Nat) /\ Len(c) \in Nat /\ Len(s) \in Nat
  BY DEF Queued, Waiting
<1>2. /\ d \in Seq(Nat) /\ Len(d) = Len(c) + Len(s)
      /\ \A i \in 1 .. Len(c) : d[i] = c[i]
      /\ \A i \in 1 .. Len(s) : d[Len(c) + i] = s[i]
  <2>1. c \in Seq(Nat)
    BY <1>1
  <2> QED
    BY <2>1
<1>3. \A i \in 1 .. Len(d) : i > Len(c) => i - Len(c) \in 1 .. Len(s) /\ d[i] = s[i - Len(c)]
  BY <1>1, <1>2
<1> HIDE DEF d
<1>4. Rising(d)
  <2> SUFFICES ASSUME NEW i \in 1 .. Len(d), NEW j \in 1 .. Len(d), i < j PROVE d[i] < d[j]
    BY DEF Rising
  <2>0. i \in Nat /\ j \in Nat /\ i >= 1 /\ j >= 1 /\ Len(d) \in Nat
    BY <1>1, <1>2
  <2>1. CASE j <= Len(c)
    <3>1. i \in 1 .. Len(c) /\ j \in 1 .. Len(c)
      BY <1>1, <2>0, <2>1
    <3> QED
      BY <1>2, <3>1 DEF Queued, Waiting, Rising
  <2>2. CASE i <= Len(c) /\ j > Len(c)
    <3>1. i \in 1 .. Len(c) /\ j - Len(c) \in 1 .. Len(s) /\ d[j] = s[j - Len(c)]
      <4>1. i \in 1 .. Len(c)
        BY <1>1, <2>0, <2>2
      <4>2. j - Len(c) \in 1 .. Len(s) /\ d[j] = s[j - Len(c)]
        BY <1>3, <2>2
      <4> QED
        BY <4>1, <4>2
    <3>2. c[i] < lo /\ d[i] = c[i]
      BY <1>2, <3>1
    <3>3. d[j] \in lo .. Len(l)
      BY <3>1
    <3>4. c[i] \in Nat
      <4>1. c \in Seq(Nat) /\ i \in 1 .. Len(c)
        BY <1>1, <3>1
      <4> QED
        BY <4>1
    <3> QED
      BY <3>2, <3>3, <3>4
  <2>3. CASE i > Len(c)
    <3>1. i \in Nat /\ j \in Nat /\ j > Len(c) /\ i - Len(c) < j - Len(c)
      BY <1>1, <2>0, <2>3
    <3>2. /\ i - Len(c) \in 1 .. Len(s) /\ j - Len(c) \in 1 .. Len(s)
          /\ d[i] = s[i - Len(c)] /\ d[j] = s[j - Len(c)]
      BY <1>3, <2>3, <3>1
    <3> QED
      BY <3>1, <3>2 DEF Rising
  <2> QED
    BY <1>1, <2>1, <2>2, <2>3
<1>5. ASSUME NEW i \in 1 .. Len(d) PROVE d[i] \in 1 .. Len(l) /\ Waits(l[d[i]].kind)
  <2>1. CASE i <= Len(c)
    <3>1. i \in 1 .. Len(c)
      BY <1>1, <2>1
    <3> QED
      BY <1>2, <3>1 DEF Queued, Waiting
  <2>2. CASE i > Len(c)
    <3>1. i - Len(c) \in 1 .. Len(s) /\ d[i] = s[i - Len(c)]
      BY <1>3, <2>2
    <3> QED
      BY <3>1
  <2> QED
    BY <1>1, <2>1, <2>2
<1>6. ASSUME NEW i \in 1 .. Len(h), NEW j \in 1 .. Len(d)
      PROVE  h[i].at < d[j] \/ (t = 1 /\ i = Len(h) /\ j = 1)
  <2>1. CASE j <= Len(c)
    <3>1. j \in 1 .. Len(c)
      BY <1>1, <2>1
    <3> QED
      BY <1>2, <3>1 DEF Queued, Ahead
  <2>2. CASE j > Len(c)
    <3>1. j - Len(c) \in 1 .. Len(s) /\ d[j] = s[j - Len(c)] /\ d[j] \in lo .. Len(l)
      BY <1>3, <2>2
    <3>2. h[i].at < lo /\ h[i].at \in Nat
      BY DEF Queued, Told
    <3>3. h[i].at < d[j]
      <4>1. h[i].at < lo /\ h[i].at \in Nat /\ d[j] \in Nat /\ lo <= d[j]
        BY <3>1, <3>2
      <4> QED
        BY <4>1
    <3> QED
      BY <3>3
  <2> QED
    BY <1>1, <2>1, <2>2
<1>7. Begun(d, t, h, l)
  <2>1. t = 1 => Len(d) > 0 /\ d[1] = c[1]
    BY <1>1, <1>2 DEF Queued, Begun
  <2> QED
    BY <2>1 DEF Queued, Begun
<1>8. Queued(d, t, h, l)
  BY <1>2, <1>4, <1>5, <1>6, <1>7 DEF Queued, Waiting, Ahead
<1> QED
  BY <1>2, <1>8 DEF d

\* The first event is through, or given up.
LEMMA QueuedNext ==
  ASSUME NEW c, NEW t, NEW h, NEW l \in Seq(Entry), Queued(c, t, h, l), Len(c) > 0
  PROVE  /\ Queued(Tail(c), 0, h, l)
         /\ Len(Tail(c)) = Len(c) - 1 /\ \A i \in 1 .. Len(c) - 1 : Tail(c)[i] = c[i + 1]
<1> DEFINE d == Tail(c)
<1>1. c \in Seq(Nat) /\ c # <<>> /\ Len(c) \in Nat
  BY DEF Queued, Waiting
<1>2. d \in Seq(Nat) /\ Len(d) = Len(c) - 1 /\ \A i \in 1 .. Len(d) : d[i] = c[i + 1]
  BY <1>1
<1>3. \A i \in 1 .. Len(d) : i + 1 \in 1 .. Len(c) /\ i + 1 # 1
  BY <1>1, <1>2
<1> HIDE DEF d
<1>4. Rising(d)
  <2> SUFFICES ASSUME NEW i \in 1 .. Len(d), NEW j \in 1 .. Len(d), i < j PROVE d[i] < d[j]
    BY DEF Rising
  <2>1. i + 1 \in 1 .. Len(c) /\ j + 1 \in 1 .. Len(c) /\ i + 1 < j + 1
    BY <1>2, <1>3
  <2> QED
    BY <1>2, <2>1 DEF Queued, Waiting, Rising
<1>5. \A i \in 1 .. Len(d) : d[i] \in 1 .. Len(l) /\ Waits(l[d[i]].kind)
  BY <1>2, <1>3 DEF Queued, Waiting
<1>6. \A i \in 1 .. Len(h), j \in 1 .. Len(d) : h[i].at < d[j]
  BY <1>2, <1>3 DEF Queued, Ahead
<1>7. Queued(d, 0, h, l)
  BY <1>2, <1>4, <1>5, <1>6 DEF Queued, Waiting, Ahead, Begun
<1> QED
  BY <1>2, <1>7 DEF d

\* The next of the first event's share is told.
LEMMA QueuedTold ==
  ASSUME NEW c, NEW t, NEW h, NEW l \in Seq(Entry), Queued(c, t, h, l), Len(c) > 0,
         NEW s, s = Script(l[c[1]].kind), Len(s) > 0,
         NEW g, g = Append(h, [event |-> s[t + 1], at |-> c[1]])
  PROVE  IF t + 1 < Len(s) THEN Queued(c, t + 1, g, l) ELSE Queued(Tail(c), 0, g, l)
<1>1. /\ c \in Seq(Nat) /\ h \in Seq(Telling) /\ t \in {0, 1} /\ 1 \in 1 .. Len(c)
      /\ c[1] \in 1 .. Len(l) /\ l[c[1]] \in Entry /\ Len(h) \in Nat
  BY DEF Queued, Waiting, Told, Begun
<1>2. /\ s \in Seq(Events) /\ Len(s) \in {1, 2} /\ t + 1 \in 1 .. Len(s)
      /\ Len(s) = 2 => s = <<s[1], s[2]>>
  <2>1. l[c[1]].kind \in Kinds
    BY <1>1 DEF Entry
  <2>2. t = 1 => Len(s) = 2
    BY DEF Queued, Begun
  <2> QED
    BY <1>1, <2>1, <2>2, ScriptShape
<1> DEFINE new == [event |-> s[t + 1], at |-> c[1]]
<1>3. new \in Telling
  BY <1>1, <1>2 DEF Telling
<1>4. /\ g \in Seq(Telling) /\ Len(g) = Len(h) + 1 /\ g[Len(g)] = new
      /\ \A i \in 1 .. Len(h) : g[i] = h[i]
  BY <1>1, <1>3
<1>5. \A i \in 1 .. Len(g) : i \in 1 .. Len(h) \/ i = Len(h) + 1
  BY <1>1, <1>4
<1>6. new.at = c[1] /\ new.event = s[t + 1]
  OBVIOUS
<1> HIDE DEF new
<1>7. \A i \in 1 .. Len(g) : g[i].at \in 1 .. Len(l)
  BY <1>1, <1>4, <1>5, <1>6 DEF Queued, Told
<1>8. ASSUME NEW i \in 1 .. Len(g), NEW j \in 1 .. Len(g), i < j
      PROVE  \/ g[i].at < g[j].at
             \/ g[i].at = g[j].at /\ <<g[i].event, g[j].event>> = Script(l[g[i].at].kind)
  <2>1. i \in 1 .. Len(h) /\ g[i] = h[i]
    BY <1>1, <1>4, <1>5, <1>8
  <2>2. CASE j \in 1 .. Len(h)
    BY <1>4, <1>8, <2>1, <2>2 DEF Queued, Told
  <2>3. CASE j = Len(h) + 1
    <3>1. g[j].at = c[1] /\ g[j].event = s[t + 1]
      BY <1>4, <1>6, <2>3
    <3>2. CASE h[i].at < c[1]
      BY <2>1, <3>1, <3>2
    <3>3. CASE t = 1 /\ i = Len(h)
      <4>1. h[i] = [event |-> s[1], at |-> c[1]] /\ Len(s) = 2
        BY <3>3 DEF Queued, Begun
      <4> QED
        BY <1>2, <2>1, <3>1, <3>3, <4>1
    <3> QED
      BY <1>1, <2>1, <3>2, <3>3 DEF Queued, Ahead
  <2> QED
    BY <1>5, <2>2, <2>3
<1>9. CASE t + 1 < Len(s)
  <2>1. t = 0 /\ Len(s) = 2 /\ g[Len(g)] = [event |-> s[1], at |-> c[1]]
    <3>1. t = 0 /\ Len(s) = 2
      <4>1. (t = 0 \/ t = 1) /\ (Len(s) = 1 \/ Len(s) = 2)
        BY <1>1, <1>2
      <4>2. \A m, n \in Nat : m \in {0, 1} /\ n \in {1, 2} /\ m + 1 < n => m = 0 /\ n = 2
        OBVIOUS
      <4>3. t \in Nat /\ t \in {0, 1} /\ Len(s) \in Nat /\ Len(s) \in {1, 2}
        BY <4>1
      <4> QED
        BY <1>9, <4>2, <4>3, Zenon
    <3> QED
      BY <1>4, <3>1 DEF new
  <2>2. ASSUME NEW i \in 1 .. Len(g), NEW j \in 1 .. Len(c)
        PROVE  g[i].at < c[j] \/ (1 = 1 /\ i = Len(g) /\ j = 1)
    <3>1. CASE i \in 1 .. Len(h)
      BY <1>4, <2>1, <3>1 DEF Queued, Ahead
    <3>2. CASE i = Len(h) + 1
      <4>1. g[i].at = c[1] /\ i = Len(g) /\ (j = 1 \/ 1 < j)
        BY <1>1, <1>4, <1>6, <3>2
      <4> QED
        BY <1>1, <4>1 DEF Queued, Waiting, Rising
    <3> QED
      BY <1>5, <3>1, <3>2
  <2>3. Queued(c, 1, g, l)
    <3>1. Waiting(c, l) /\ Told(g, l)
      BY <1>4, <1>7, <1>8 DEF Queued, Told
    <3>2. Ahead(c, 1, g)
      BY <2>2 DEF Ahead
    <3>3. Begun(c, 1, g, l)
      BY <1>1, <1>4, <2>1 DEF Begun
    <3> QED
      BY <3>1, <3>2, <3>3 DEF Queued
  <2> QED
    BY <1>9, <2>1, <2>3
<1>10. CASE ~(t + 1 < Len(s))
  <2> DEFINE d == Tail(c)
  <2>1. Queued(d, 0, h, l) /\ Len(d) = Len(c) - 1 /\ \A i \in 1 .. Len(d) : d[i] = c[i + 1]
    BY QueuedNext
  <2> HIDE DEF d
  <2>2. ASSUME NEW i \in 1 .. Len(g), NEW j \in 1 .. Len(d)
        PROVE  g[i].at < d[j]
    <3>1. CASE i \in 1 .. Len(h)
      <4>1. h[i].at < d[j]
        BY <2>1, <3>1 DEF Queued, Ahead
      <4> QED
        BY <1>4, <3>1, <4>1
    <3>2. CASE i = Len(h) + 1
      <4>1. g[i].at = c[1] /\ d[j] = c[j + 1] /\ j + 1 \in 1 .. Len(c) /\ 1 < j + 1
        <5>1. g[i].at = c[1]
          BY <1>4, <1>6, <3>2
        <5>2. Len(c) \in Nat /\ Len(d) = Len(c) - 1
          BY <1>1, <2>1
        <5>3. d[j] = c[j + 1]
          BY <2>1
        <5> QED
          BY <5>1, <5>2, <5>3
      <4> QED
        BY <1>1, <4>1 DEF Queued, Waiting, Rising
    <3> QED
      BY <1>5, <3>1, <3>2
  <2>3. Told(g, l)
    BY <1>4, <1>7, <1>8 DEF Told
  <2>4. Queued(d, 0, g, l)
    BY <2>1, <2>2, <2>3 DEF Queued, Ahead, Begun
  <2> QED
    BY <1>10, <2>4 DEF d
<1> QED
  BY <1>9, <1>10

-----------------------------------------------------------------------------
\* What an event has come to: told in full, given up, or still waiting.
Settled(k, c, h, l, b) ==
  \/ \A n \in 1 .. Len(Script(l[k].kind)) :
       \E i \in 1 .. Len(h) : h[i] = [event |-> Script(l[k].kind)[n], at |-> k]
  \/ k \in b
  \/ \E i \in 1 .. Len(c) : c[i] = k

\* The end of what the package has been sent.
Reach == IF mount # "closed" /\ listening THEN Len(log) ELSE closedAt

MountTyped ==
  /\ mount \in {"loading", "live", "closing", "closed"} /\ listening \in BOOLEAN /\ subscribed \in BOOLEAN
  /\ log \in Seq(Entry) /\ closedAt \in 0 .. Len(log)
  /\ from \in 0 .. Len(log) + 1
  /\ broken \cup before \subseteq 1 .. Len(log)
  /\ mount \in {"loading", "live"} => listening
  /\ mount = "loading" => chain = <<>> /\ told = 0 /\ heard = <<>>

\* Once live, nothing of what was sent is lost.
NoGap ==
  mount # "loading" => /\ from >= 1
                       /\ \A k \in from .. Reach :
                            Settled(k, IF mount = "closed" THEN <<>> ELSE chain, heard, log, broken)

HearingInv == MountTyped /\ Queued(chain, told, heard, log) /\ NoGap

\* The loop keeps within its bounds.
Worker ==
  [at : {"idle", "turn", "step", "copying", "answering", "answered", "called", "compacting"},
   turn : Nat, step : Nat, attempt : Nat, sent : Nat, streaming : BOOLEAN,
   compactions : Nat, resume : {"idle", "turn"}]

Within(r, h) ==
  r.turn <= Bound[h].turns /\ r.step <= Bound[h].steps /\ r.attempt <= Bound[h].attempts

WorkerTyped == host \in Hosts /\ worker \in Worker /\ Within(worker, host)

\* What projecting the log m from lo on adds: places behind all others, none left out.
LEMMA ProjectQueues ==
  ASSUME NEW m \in Seq(Entry), NEW lo \in Nat, lo # 0, Project(m, lo), Queued(chain, told, heard, m),
         \A i \in 1 .. Len(chain) : chain[i] < lo, \A i \in 1 .. Len(heard) : heard[i].at < lo
  PROVE  /\ Queued(chain', told', heard', m) /\ told' = told /\ heard' = heard /\ broken' = broken
         /\ \A i \in 1 .. Len(chain) : i \in 1 .. Len(chain') /\ chain'[i] = chain[i]
         /\ \A k \in lo .. Len(m) : Settled(k, chain', heard', m, broken')
         /\ before' \subseteq before \cup lo .. Len(m)
<1> DEFINE S == {k \in lo .. Len(m) : Waits(m[k].kind)}
           s == Ordered(S)
<1>1. /\ chain' = chain \o s /\ told' = told /\ heard' = heard /\ broken' = broken
      /\ before' = before \cup Where(m, "compaction/start", lo .. Len(m))
  BY DEF Project
<1>2. S \in SUBSET Nat /\ IsFiniteSet(S)
  <2>1. IsFiniteSet(lo .. Len(m)) /\ S \in SUBSET (lo .. Len(m))
    BY FS_Interval
  <2>2. IsFiniteSet(S)
    BY <2>1, FS_Subset
  <2> QED
    BY <2>2
<1>3. /\ s \in Seq(S) /\ Rising(s) /\ \A k \in S : \E i \in 1 .. Len(s) : s[i] = k
  BY <1>2, OrderedPlaces
<1> HIDE DEF s
<1>4. /\ s \in Seq(Nat) /\ Len(s) \in Nat
      /\ \A i \in 1 .. Len(s) : s[i] \in lo .. Len(m) /\ s[i] # 0 /\ Waits(m[s[i]].kind)
  <2>1. \A i \in 1 .. Len(s) : s[i] \in S
    BY <1>3
  <2>2. s \in Seq(Nat)
    BY <1>2, <1>3
  <2> QED
    BY <2>1, <2>2
<1> HIDE DEF S
<1>5. /\ Queued(chain \o s, told, heard, m)
      /\ \A i \in 1 .. Len(chain) : (chain \o s)[i] = chain[i]
      /\ Len(chain \o s) = Len(chain) + Len(s)
      /\ \A i \in 1 .. Len(s) : (chain \o s)[Len(chain) + i] = s[i]
  <2>1. /\ s \in Seq(Nat) /\ Rising(s)
        /\ \A i \in 1 .. Len(s) : s[i] \in lo .. Len(m) /\ s[i] # 0 /\ Waits(m[s[i]].kind)
    BY <1>3, <1>4
  <2> QED
    BY <2>1, QueuedMore, ZenonT(60)
<1>6. Len(chain) \in Nat
  BY DEF Queued, Waiting
<1>7. ASSUME NEW k \in lo .. Len(m) PROVE Settled(k, chain', heard', m, broken')
  <2>1. CASE Waits(m[k].kind)
    <3>1. PICK i \in 1 .. Len(s) : s[i] = k
      BY <1>3, <1>7, <2>1 DEF S
    <3>2. Len(chain) + i \in 1 .. Len(chain') /\ chain'[Len(chain) + i] = k
      BY <1>1, <1>4, <1>5, <1>6, <3>1
    <3> QED
      BY <3>2 DEF Settled
  <2>2. CASE ~Waits(m[k].kind)
    <3>1. Script(m[k].kind) = <<>>
      BY <2>2 DEF Waits
    <3>2. \A n \in 1 .. Len(Script(m[k].kind)) : FALSE
      BY <3>1
    <3> QED
      BY <3>2 DEF Settled
  <2> QED
    BY <2>1, <2>2
<1>8. before' \subseteq before \cup lo .. Len(m)
  BY <1>1 DEF Where
<1> QED
  BY <1>1, <1>4, <1>5, <1>6, <1>7, <1>8

\* What is settled stays so while the log grows and more is queued.
LEMMA SettledGrows ==
  ASSUME NEW k, NEW c, NEW d, NEW h, NEW l, NEW m, NEW b, Settled(k, c, h, l, b), m[k] = l[k],
         \A i \in 1 .. Len(c) : i \in 1 .. Len(d) /\ d[i] = c[i]
  PROVE  Settled(k, d, h, m, b)
  BY DEF Settled

\* The loop logs an event, which the package may hear.
LEMMA LoggedHeard ==
  ASSUME HearingInv, NEW e \in Entry, log' = Append(log, e), Heard(log'), UNCHANGED mountVars
  PROVE  HearingInv'
<1>1. /\ log \in Seq(Entry) /\ log' \in Seq(Entry) /\ Len(log') = Len(log) + 1 /\ Len(log) \in Nat
      /\ Len(log) <= Len(log')
      /\ \A k \in 1 .. Len(log) : log'[k] = log[k]
  BY DEF HearingInv, MountTyped
<1>2. Queued(chain, told, heard, log')
  BY <1>1, QueuedGrows, ZenonT(60) DEF HearingInv
<1>3. UNCHANGED <<mount, listening, subscribed, from, closedAt>>
  BY DEF mountVars
<1>4. CASE mount \in {"live", "closing"} /\ listening
  <2>1. Project(log', Len(log'))
    BY <1>4 DEF Heard
  <2>2. \A i \in 1 .. Len(chain) : chain[i] < Len(log')
    BY <1>1 DEF HearingInv, Queued, Waiting
  <2>3. \A i \in 1 .. Len(heard) : heard[i].at < Len(log')
    BY <1>1 DEF HearingInv, Queued, Told
  <2>4. Len(log') \in Nat /\ Len(log') # 0
    BY <1>1
  <2>5. /\ Queued(chain', told', heard', log') /\ heard' = heard /\ broken' = broken
        /\ \A i \in 1 .. Len(chain) : i \in 1 .. Len(chain') /\ chain'[i] = chain[i]
        /\ \A k \in Len(log') .. Len(log') : Settled(k, chain', heard', log', broken')
        /\ before' \subseteq before \cup Len(log') .. Len(log')
    BY <1>1, <1>2, <2>1, <2>2, <2>3, <2>4, ProjectQueues
  <2>6. ASSUME NEW k \in from .. Len(log'), from >= 1 PROVE Settled(k, chain', heard', log', broken')
    <3>1. CASE k = Len(log')
      BY <1>1, <2>5, <3>1
    <3>2. CASE k # Len(log')
      <4>1. k \in from .. Len(log) /\ k \in 1 .. Len(log)
        BY <1>1, <2>6, <3>2 DEF HearingInv, MountTyped
      <4>2. Settled(k, chain, heard, log, broken)
        BY <1>4, <4>1 DEF HearingInv, NoGap, Reach
      <4> QED
        BY <1>1, <2>5, <4>1, <4>2, SettledGrows
    <3> QED
      BY <3>1, <3>2
  <2>7. NoGap'
    BY <1>3, <1>4, <2>6 DEF HearingInv, NoGap, Reach
  <2>8. MountTyped'
    BY <1>1, <1>3, <1>4, <2>5 DEF HearingInv, MountTyped
  <2> QED
    BY <2>5, <2>7, <2>8 DEF HearingInv
<1>5. CASE ~(mount \in {"live", "closing"} /\ listening)
  <2>1. UNCHANGED <<chain, told, heard, broken, before>>
    BY <1>5 DEF Heard, queueVars
  <2>2. mount # "loading" => Reach = closedAt /\ Reach' = closedAt
    BY <1>3, <1>5 DEF HearingInv, MountTyped, Reach
  <2>3. ASSUME mount # "loading", NEW k \in from .. closedAt
        PROVE  Settled(k, IF mount = "closed" THEN <<>> ELSE chain, heard, log', broken)
    <3>1. k \in 1 .. Len(log) /\ log'[k] = log[k]
      BY <1>1, <2>3 DEF HearingInv, MountTyped, NoGap
    <3>2. Settled(k, IF mount = "closed" THEN <<>> ELSE chain, heard, log, broken)
      BY <2>2, <2>3 DEF HearingInv, NoGap
    <3> QED
      BY <3>1, <3>2, SettledGrows
  <2>4. NoGap'
    BY <1>3, <2>1, <2>2, <2>3 DEF HearingInv, NoGap
  <2>5. MountTyped'
    BY <1>1, <1>3, <2>1 DEF HearingInv, MountTyped
  <2> QED
    BY <1>2, <2>1, <2>4, <2>5 DEF HearingInv
<1> QED
  BY <1>4, <1>5

\* The next of the first event's share is told.
LEMMA TellKeeps ==
  ASSUME HearingInv, Tell, UNCHANGED mountVars, log' = log PROVE HearingInv'
<1> DEFINE s == Script(log[chain[1]].kind)
<1>1. /\ chain \in Seq(Nat) /\ chain # <<>> /\ Len(chain) > 0 /\ Head(chain) = chain[1]
      /\ heard \in Seq(Telling) /\ Len(heard) \in Nat
  BY DEF HearingInv, Queued, Waiting, Told, Tell
<1>2. /\ s # <<>> /\ heard' = Append(heard, [event |-> s[told + 1], at |-> chain[1]])
      /\ IF told + 1 < Len(s) THEN told' = told + 1 /\ chain' = chain ELSE chain' = Tail(chain) /\ told' = 0
      /\ UNCHANGED <<broken, before>>
  BY <1>1 DEF Tell, Kind, First, NextTask
<1>3. chain[1] \in 1 .. Len(log) /\ log[chain[1]] \in Entry /\ log[chain[1]].kind \in Kinds
  <2>1. chain[1] \in 1 .. Len(log)
    BY <1>1 DEF HearingInv, Queued, Waiting
  <2>2. log \in Seq(Entry)
    BY DEF HearingInv, MountTyped
  <2>3. log[chain[1]] \in Entry
    BY <2>1, <2>2
  <2> QED
    BY <2>1, <2>3 DEF Entry
<1>4. Len(s) \in {1, 2} /\ s[told + 1] \in Events /\ told \in {0, 1} /\ (told = 1 => Len(s) = 2)
  <2>1. Len(s) \in {1, 2} /\ s \in Seq(Events)
    BY <1>2, <1>3, ScriptShape
  <2>2. told \in {0, 1} /\ (told = 1 => Len(s) = 2)
    BY DEF HearingInv, Queued, Begun
  <2> QED
    BY <2>1, <2>2
<1>5. UNCHANGED <<mount, listening, subscribed, from, closedAt>> /\ mount # "loading"
  BY <1>1 DEF mountVars, HearingInv, MountTyped
<1> HIDE DEF s
<1>6. /\ heard' \in Seq(Telling) /\ Len(heard') = Len(heard) + 1
      /\ heard'[Len(heard')] = [event |-> s[told + 1], at |-> chain[1]]
      /\ \A i \in 1 .. Len(heard) : heard'[i] = heard[i]
  <2>1. [event |-> s[told + 1], at |-> chain[1]] \in Telling
    BY <1>3, <1>4 DEF Telling
  <2> QED
    BY <1>1, <1>2, <2>1
<1>7. Queued(chain', told', heard', log)
  <2>1. Len(s) > 0
    BY <1>4
  <2>2. IF told + 1 < Len(s) THEN Queued(chain, told + 1, heard', log) ELSE Queued(Tail(chain), 0, heard', log)
    <3>1. log \in Seq(Entry) /\ Queued(chain, told, heard, log)
      BY DEF HearingInv, MountTyped
    <3> QED
      BY <1>1, <1>2, <2>1, <3>1, QueuedTold, ZenonT(60) DEF s
  <2> QED
    BY <1>2, <2>2
<1>8. \A k : \A n : (\E i \in 1 .. Len(heard) : heard[i] = [event |-> n, at |-> k])
                      => \E i \in 1 .. Len(heard') : heard'[i] = [event |-> n, at |-> k]
  BY <1>1, <1>6
<1>9. ASSUME NEW k, Settled(k, <<>>, heard, log, broken) PROVE Settled(k, <<>>, heard', log, broken)
  BY <1>8, <1>9 DEF Settled
<1>10. ASSUME NEW k, Settled(k, chain, heard, log, broken) PROVE Settled(k, chain', heard', log, broken)
  <2>1. CASE ~\E i \in 1 .. Len(chain) : chain[i] = k
    BY <1>8, <1>10, <2>1 DEF Settled
  <2>2. CASE told + 1 < Len(s) /\ \E i \in 1 .. Len(chain) : chain[i] = k
    BY <1>2, <2>2 DEF Settled
  <2>3. CASE ~(told + 1 < Len(s)) /\ \E i \in 1 .. Len(chain) : chain[i] = k
    <3>1. PICK i \in 1 .. Len(chain) : chain[i] = k
      BY <2>3
    <3>2. CASE i > 1
      <4>1. i - 1 \in 1 .. Len(Tail(chain)) /\ Tail(chain)[i - 1] = k
        BY <1>1, <3>1, <3>2
      <4> QED
        BY <1>2, <2>3, <4>1 DEF Settled
    <3>3. CASE i = 1
      <4>1. ASSUME NEW n \in 1 .. Len(s)
            PROVE  \E j \in 1 .. Len(heard') : heard'[j] = [event |-> s[n], at |-> k]
        <5>1. CASE n = told + 1
          <6>1. heard'[Len(heard) + 1] = [event |-> s[n], at |-> k] /\ Len(heard) + 1 \in 1 .. Len(heard')
            BY <1>1, <1>6, <3>1, <3>3, <5>1
          <6> QED
            BY <6>1
        <5>2. CASE n # told + 1
          <6>1. told = 1 /\ n = 1
            <7>1. CASE told = 0
              <8>1. Len(s) = 1
                BY <1>4, <2>3, <7>1
              <8> QED
                BY <5>2, <7>1, <8>1
            <7>2. CASE told = 1
              <8>1. Len(s) = 2
                BY <1>4, <7>2
              <8> QED
                BY <5>2, <7>2, <8>1
            <7> QED
              BY <1>4, <7>1, <7>2
          <6>2. Len(heard) > 0 /\ heard[Len(heard)] = [event |-> s[1], at |-> chain[1]]
            BY <6>1 DEF HearingInv, Queued, Begun, s
          <6>3. Len(heard) \in 1 .. Len(heard') /\ heard'[Len(heard)] = [event |-> s[n], at |-> k]
            BY <1>1, <1>6, <3>1, <3>3, <6>1, <6>2, SMTT(20)
          <6> QED
            BY <6>3
        <5> QED
          BY <5>1, <5>2
      <4> QED
        BY <3>1, <3>3, <4>1 DEF Settled, s
    <3> QED
      BY <1>1, <3>2, <3>3
  <2> QED
    BY <2>1, <2>2, <2>3
<1>11. NoGap'
  <2>1. Reach' = Reach
    BY <1>5 DEF Reach
  <2> QED
    BY <1>2, <1>5, <1>9, <1>10, <2>1 DEF HearingInv, NoGap
<1>12. MountTyped'
  BY <1>2, <1>5 DEF HearingInv, MountTyped
<1> QED
  BY <1>7, <1>11, <1>12 DEF HearingInv

\* The first event passes, or is given up when a handler throws.
LEMMA NextKeeps ==
  ASSUME HearingInv, PassOver \/ TellThrows, UNCHANGED mountVars, log' = log PROVE HearingInv'
<1>1. /\ chain \in Seq(Nat) /\ chain # <<>> /\ Len(chain) > 0 /\ Head(chain) = chain[1]
  BY DEF HearingInv, Queued, Waiting, PassOver, TellThrows
<1>2. /\ chain' = Tail(chain) /\ told' = 0 /\ UNCHANGED <<heard, before>>
      /\ \/ Script(log[chain[1]].kind) = <<>> /\ broken' = broken
         \/ broken' = broken \cup {chain[1]}
  BY <1>1 DEF PassOver, TellThrows, Kind, First, NextTask
<1>3. UNCHANGED <<mount, listening, subscribed, from, closedAt>> /\ mount # "loading"
  BY <1>1 DEF mountVars, HearingInv, MountTyped
<1>4. Queued(Tail(chain), 0, heard, log) /\ chain[1] \in 1 .. Len(log)
  <2>1. log \in Seq(Entry) /\ Queued(chain, told, heard, log)
    BY DEF HearingInv, MountTyped
  <2>2. Queued(Tail(chain), 0, heard, log)
    BY <1>1, <2>1, QueuedNext, ZenonT(60)
  <2> QED
    BY <1>1, <2>1, <2>2 DEF Queued, Waiting
<1>5. ASSUME NEW k, Settled(k, <<>>, heard, log, broken) PROVE Settled(k, <<>>, heard, log, broken')
  BY <1>2, <1>5 DEF Settled
<1>6. ASSUME NEW k, Settled(k, chain, heard, log, broken) PROVE Settled(k, Tail(chain), heard, log, broken')
  <2>1. CASE ~\E i \in 1 .. Len(chain) : chain[i] = k
    BY <1>2, <1>6, <2>1 DEF Settled
  <2>2. CASE \E i \in 1 .. Len(chain) : chain[i] = k
    <3>1. PICK i \in 1 .. Len(chain) : chain[i] = k
      BY <2>2
    <3>2. CASE i > 1
      <4>1. i - 1 \in 1 .. Len(Tail(chain)) /\ Tail(chain)[i - 1] = k
        BY <1>1, <3>1, <3>2
      <4> QED
        BY <4>1 DEF Settled
    <3>3. CASE i = 1
      <4>1. CASE Script(log[chain[1]].kind) = <<>>
        <5>1. \A n \in 1 .. Len(Script(log[k].kind)) : FALSE
          BY <3>1, <3>3, <4>1
        <5> QED
          BY <5>1 DEF Settled
      <4>2. CASE broken' = broken \cup {chain[1]}
        BY <3>1, <3>3, <4>2 DEF Settled
      <4> QED
        BY <1>2, <4>1, <4>2
    <3> QED
      BY <1>1, <3>2, <3>3
  <2> QED
    BY <2>1, <2>2
<1>7. NoGap'
  <2>1. Reach' = Reach
    BY <1>3 DEF Reach
  <2> QED
    BY <1>2, <1>3, <1>5, <1>6, <2>1 DEF HearingInv, NoGap
<1>8. MountTyped'
  BY <1>2, <1>3, <1>4 DEF HearingInv, MountTyped
<1> QED
  BY <1>2, <1>4, <1>7, <1>8 DEF HearingInv

\* Where the replay begins: at the start of the open turn, or behind the log.
LEMMA ReplayPlace ==
  ASSUME log \in Seq(Entry)
  PROVE  ReplayFrom \in 1 .. Len(log) + 1
<1> DEFINE starts == Where(log, "turn/start", 1 .. Len(log))
<1>1. Len(log) \in Nat /\ starts \subseteq 1 .. Len(log)
  BY DEF Where
<1>2. CASE starts = {}
  BY <1>1, <1>2 DEF ReplayFrom, OpenTurnStart
<1>3. CASE starts # {}
  <2>1. Max(starts) \in starts
    <3>1. starts \in SUBSET (0 .. Len(log))
      BY <1>1
    <3> HIDE DEF starts
    <3>2. \E x \in starts : \A y \in starts : x >= y
      BY <1>1, <1>3, <3>1, GreatestExists
    <3> QED
      BY <3>2 DEF Max
  <2> HIDE DEF starts
  <2>2. ReplayFrom \in {Max(starts), Len(log) + 1}
    BY DEF ReplayFrom, OpenTurnStart, starts
  <2>3. \A k \in 1 .. Len(log) : k \in 1 .. Len(log) + 1
    BY <1>1
  <2>4. Max(starts) \in 1 .. Len(log) + 1
    BY <1>1, <2>1, <2>3, Zenon
  <2>5. Len(log) + 1 \in 1 .. Len(log) + 1
    BY <1>1
  <2> QED
    BY <2>2, <2>4, <2>5, Zenon
<1> QED
  BY <1>2, <1>3

\* The package subscribes, goes live, begins to unload, and shuts down.
LEMMA MountKeeps ==
  ASSUME HearingInv, Mount PROVE HearingInv'
<1>1. CASE Subscribe
  BY <1>1 DEF Subscribe, hostVars, queueVars, HearingInv, MountTyped, NoGap, Reach
<1>2. CASE Unload
  <2>1. /\ mount = "live" /\ mount' = "closing" /\ closedAt' = Len(log) /\ listening' \in BOOLEAN
        /\ UNCHANGED <<subscribed, from, log, chain, told, heard, broken, before>>
    BY <1>2 DEF Unload, hostVars, queueVars
  <2>2. Len(log) \in Nat /\ listening
    BY <2>1 DEF HearingInv, MountTyped
  <2>3. Reach = Len(log) /\ Reach' = Len(log)
    BY <2>1, <2>2 DEF Reach
  <2>4. NoGap'
    BY <2>1, <2>3 DEF HearingInv, NoGap
  <2>5. MountTyped'
    BY <2>1, <2>2 DEF HearingInv, MountTyped
  <2> QED
    BY <2>1, <2>4, <2>5 DEF HearingInv
<1>3. CASE ShutDown
  <2>1. /\ mount = "closing" /\ mount' = "closed"
        /\ UNCHANGED <<listening, closedAt, subscribed, from, log, chain, told, heard, broken, before>>
        /\ \A i \in 1 .. Len(chain) : chain[i] > closedAt
    BY <1>3 DEF ShutDown, hostVars, queueVars
  <2>2. closedAt \in 0 .. Len(log) /\ Len(log) \in Nat /\ Reach' = closedAt /\ Reach \in {closedAt, Len(log)}
    BY <2>1 DEF HearingInv, MountTyped, Reach
  <2>3. ASSUME NEW k \in from .. closedAt PROVE Settled(k, <<>>, heard, log, broken)
    <3>1. from \in Nat /\ k \in from .. Reach
      BY <2>2 DEF HearingInv, MountTyped
    <3>2. Settled(k, chain, heard, log, broken)
      BY <2>1, <3>1 DEF HearingInv, NoGap
    <3>3. ~\E i \in 1 .. Len(chain) : chain[i] = k
      <4>1. \A i \in 1 .. Len(chain) : chain[i] \in Nat /\ chain[i] > closedAt
        BY <2>1 DEF HearingInv, Queued, Waiting
      <4>2. k \in Nat /\ closedAt \in Nat /\ ~(k > closedAt)
        BY <2>2, <3>1
      <4> QED
        BY <4>1, <4>2
    <3> QED
      BY <3>2, <3>3 DEF Settled
  <2>4. NoGap'
    BY <2>1, <2>2, <2>3 DEF HearingInv, NoGap
  <2>5. MountTyped'
    BY <2>1 DEF HearingInv, MountTyped
  <2> QED
    BY <2>1, <2>4, <2>5 DEF HearingInv
<1>4. CASE GoLive
  <2> DEFINE lo == ReplayFrom
  <2>1. /\ mount = "loading" /\ mount' = "live" /\ from' = lo /\ Project(log, lo)
        /\ UNCHANGED <<listening, subscribed, closedAt, log>>
    BY <1>4 DEF GoLive, hostVars
  <2>2. lo \in 1 .. Len(log) + 1 /\ Len(log) \in Nat /\ log \in Seq(Entry)
    BY ReplayPlace DEF HearingInv, MountTyped
  <2> HIDE DEF lo
  <2>3. chain = <<>> /\ heard = <<>> /\ listening /\ Queued(chain, told, heard, log)
    BY <2>1 DEF HearingInv, MountTyped
  <2>4. /\ Queued(chain', told', heard', log) /\ broken' = broken
        /\ \A k \in lo .. Len(log) : Settled(k, chain', heard', log, broken')
        /\ before' \subseteq before \cup lo .. Len(log)
    <3>1. /\ \A i \in 1 .. Len(chain) : chain[i] < lo
          /\ \A i \in 1 .. Len(heard) : heard[i].at < lo
          /\ lo \in Nat /\ lo # 0
      BY <2>2, <2>3
    <3> QED
      BY <2>1, <2>2, <2>3, <3>1, ProjectQueues
  <2>5. Reach' = Len(log)
    BY <2>1, <2>3 DEF Reach
  <2>6. NoGap'
    BY <2>1, <2>2, <2>4, <2>5 DEF NoGap
  <2>7. MountTyped'
    BY <2>1, <2>2, <2>3, <2>4 DEF HearingInv, MountTyped
  <2> QED
    BY <2>1, <2>4, <2>6, <2>7 DEF HearingInv
<1> QED
  BY <1>1, <1>2, <1>3, <1>4 DEF Mount

\* The loop goes on: what it logs is an entry, and it keeps within its bounds.
LEMMA LoopKeeps ==
  ASSUME WorkerTyped, HearingInv, WorkerStep PROVE WorkerTyped' /\ HearingInv'
<1>1. /\ Bound[host].turns \in Nat /\ Bound[host].steps \in Nat /\ Bound[host].attempts \in Nat
      /\ Bound[host].chunks \in Nat /\ Bound[host].compactions \in Nat
  BY BoundAssumption DEF WorkerTyped
<1>0. /\ worker.turn \in Nat /\ worker.step \in Nat /\ worker.attempt \in Nat /\ worker.sent \in Nat
      /\ worker.turn <= Bound[host].turns /\ worker.step <= Bound[host].steps
      /\ worker.attempt <= Bound[host].attempts
  BY DEF WorkerTyped, Worker, Within
<1>2. /\ worker.turn \in Nat /\ worker.step \in Nat /\ worker.attempt \in Nat /\ worker.sent \in Nat
      /\ NoPart \in Nat \X Nat
  BY <1>0 DEF NoPart
<1>3. ASSUME NEW kind \in Kinds, NEW turn \in Nat, NEW step \in Nat, NEW part \in Nat \X Nat,
             Logged(kind, turn, step, part), UNCHANGED mountVars
      PROVE  HearingInv'
  <2>1. [kind |-> kind, turn |-> turn, step |-> step, part |-> part] \in Entry
    BY DEF Entry
  <2> QED
    BY <1>3, <2>1, LoggedHeard DEF Logged
<1>4. ASSUME UNCHANGED <<log, queueVars, mountVars>> PROVE HearingInv'
  BY <1>4 DEF queueVars, mountVars, HearingInv, MountTyped, NoGap, Reach
<1>5. \A kind \in Kinds : Logs(kind) => HearingInv' /\ host' = host
  BY <1>2, <1>3 DEF Logs
<1>6. /\ {"turn/start", "turn/end", "step/start", "step/end", "assistant/chunk"} \subseteq Kinds
      /\ {"assistant/message", "tool/result", "compaction/start", "compaction/summary"} \subseteq Kinds
  BY DEF Kinds
<1>7. CASE OpenTurn
  <2>1. worker.turn + 1 \in Nat /\ 0 \in Nat
    BY <1>2
  <2>2. HearingInv'
    BY <1>2, <1>3, <1>6, <1>7, <2>1 DEF OpenTurn
  <2>3. worker' = [worker EXCEPT !.at = "turn", !.turn = @ + 1, !.step = 0] /\ host' = host
        /\ worker.turn < Bound[host].turns
    BY <1>7 DEF OpenTurn
  <2>4. worker' \in Worker
    BY <2>1, <2>3 DEF WorkerTyped, Worker
  <2>5. worker'.turn = worker.turn + 1 /\ worker'.step = 0 /\ worker'.attempt = worker.attempt
    BY <2>3 DEF WorkerTyped, Worker
  <2>6. Within(worker', host)
    BY <1>0, <1>1, <2>3, <2>5 DEF Within
  <2> QED
    BY <2>2, <2>3, <2>4, <2>6 DEF WorkerTyped
<1>8. CASE OpenStep
  <2>1. worker.step + 1 \in Nat
    BY <1>2
  <2>2. HearingInv'
    BY <1>2, <1>3, <1>6, <1>8, <2>1 DEF OpenStep
  <2>3. worker' = [worker EXCEPT !.at = "step", !.step = @ + 1] /\ host' = host
        /\ worker.step < Bound[host].steps
    BY <1>8 DEF OpenStep
  <2>4. worker' \in Worker
    BY <2>1, <2>3 DEF WorkerTyped, Worker
  <2>5. worker'.turn = worker.turn /\ worker'.step = worker.step + 1 /\ worker'.attempt = worker.attempt
    BY <2>3 DEF WorkerTyped, Worker
  <2>6. Within(worker', host)
    BY <1>0, <1>1, <2>3, <2>5 DEF Within
  <2> QED
    BY <2>2, <2>3, <2>4, <2>6 DEF WorkerTyped
<1>9. CASE Attempt
  <2>1. worker' = [worker EXCEPT !.attempt = @ + 1, !.sent = 0, !.streaming = TRUE] /\ host' = host
        /\ worker.attempt < Bound[host].attempts /\ UNCHANGED <<log, queueVars, mountVars>>
    BY <1>9 DEF Attempt
  <2>2. worker.attempt + 1 \in Nat
    BY <1>0
  <2>3. worker' \in Worker
    BY <2>1, <2>2 DEF WorkerTyped, Worker
  <2>4. worker'.turn = worker.turn /\ worker'.step = worker.step /\ worker'.attempt = worker.attempt + 1
    BY <2>1 DEF WorkerTyped, Worker
  <2>5. Within(worker', host)
    BY <1>0, <1>1, <2>1, <2>4 DEF Within
  <2> QED
    BY <1>4, <2>1, <2>3, <2>5 DEF WorkerTyped
<1>10. CASE SendFrame \/ SendFirst
  <2>1. /\ worker' \in {[worker EXCEPT !.sent = @ + 1], [worker EXCEPT !.sent = @ + 1, !.at = "copying"]}
        /\ host' = host /\ UNCHANGED <<log, queueVars, mountVars>>
    BY <1>10 DEF SendFrame, SendFirst
  <2>2. worker.sent + 1 \in Nat
    BY <1>0
  <2>3. worker' \in Worker /\ Within(worker', host)
    BY <2>1, <2>2 DEF WorkerTyped, Worker, Within
  <2> QED
    BY <1>4, <2>1, <2>3 DEF WorkerTyped
<1>11. CASE LogChunk
  <2>1. <<worker.attempt, worker.sent + 1>> \in Nat \X Nat
    BY <1>2
  <2>2. HearingInv'
    BY <1>2, <1>3, <1>6, <1>11, <2>1 DEF LogChunk
  <2>3. worker' = [worker EXCEPT !.sent = @ + 1] /\ host' = host
    BY <1>11 DEF LogChunk
  <2>4. worker.sent + 1 \in Nat
    BY <1>0
  <2> QED
    BY <2>2, <2>3, <2>4 DEF WorkerTyped, Worker, Within
<1>12. CASE LogSecond
  <2>1. <<worker.attempt, worker.sent>> \in Nat \X Nat
    BY <1>2
  <2>2. HearingInv'
    BY <1>2, <1>3, <1>6, <1>12, <2>1 DEF LogSecond
  <2>3. worker' = [worker EXCEPT !.at = "step"] /\ host' = host
    BY <1>12 DEF LogSecond, LoopGoes
  <2> QED
    BY <2>2, <2>3 DEF WorkerTyped, Worker, Within
<1>13. CASE Repeated
  <2>1. UNCHANGED <<log, queueVars, mountVars>> /\ UNCHANGED <<host, worker>>
    BY <1>13 DEF Repeated, hostVars
  <2> QED
    BY <1>4, <2>1 DEF WorkerTyped, Worker, Within
<1>14. CASE StreamEnds
  <2>1. /\ worker' \in {[worker EXCEPT !.streaming = FALSE, !.at = "answering"],
                        [worker EXCEPT !.streaming = FALSE, !.at = "step"]}
        /\ host' = host /\ UNCHANGED <<log, queueVars, mountVars>>
    BY <1>14 DEF StreamEnds
  <2> QED
    BY <1>4, <2>1 DEF WorkerTyped, Worker, Within
<1>15. CASE Answer \/ ToolEnds \/ CloseStep \/ CloseTurn
  <2>1. HearingInv' /\ host' = host
    BY <1>5, <1>6, <1>15 DEF Answer, ToolEnds, CloseStep, CloseTurn
  <2>2. \E at \in {"answered", "called", "turn", "idle"} : worker' = [worker EXCEPT !.at = at]
    BY <1>15 DEF Answer, ToolEnds, CloseStep, CloseTurn, LoopGoes
  <2> QED
    BY <2>1, <2>2 DEF WorkerTyped, Worker, Within
<1>16. CASE Compact
  <2>1. HearingInv' /\ host' = host
    BY <1>5, <1>6, <1>16 DEF Compact
  <2>2. /\ worker' = [worker EXCEPT !.at = "compacting", !.resume = worker.at, !.compactions = @ + 1]
        /\ worker.at \in {"idle", "turn"}
    BY <1>16 DEF Compact
  <2>3. worker.compactions + 1 \in Nat
    BY DEF WorkerTyped, Worker
  <2> QED
    BY <2>1, <2>2, <2>3 DEF WorkerTyped, Worker, Within
<1>17. CASE Summarize
  <2>1. HearingInv' /\ host' = host /\ worker' = [worker EXCEPT !.at = worker.resume]
    BY <1>5, <1>6, <1>17 DEF Summarize, LoopGoes
  <2> QED
    BY <2>1 DEF WorkerTyped, Worker, Within
<1>18. CASE CompactionFails
  <2>1. worker' = [worker EXCEPT !.at = worker.resume] /\ UNCHANGED <<host, log, queueVars, mountVars>>
    BY <1>18 DEF CompactionFails, LoopGoes
  <2> QED
    BY <1>4, <2>1 DEF WorkerTyped, Worker, Within
<1> QED
  BY <1>7, <1>8, <1>9, <1>10, <1>11, <1>12, <1>13, <1>14, <1>15, <1>16, <1>17, <1>18 DEF WorkerStep

\* Every step keeps both.
LEMMA HearingStep ==
  ASSUME WorkerTyped, HearingInv, [ProjectionNext]_projectionVars PROVE WorkerTyped' /\ HearingInv'
<1>1. CASE Queue
  <2>1. UNCHANGED <<host, worker, log>> /\ UNCHANGED mountVars
    BY <1>1 DEF Queue, hostVars
  <2>2. ASSUME BeforeReturns PROVE HearingInv'
    BY <2>1, <2>2 DEF BeforeReturns, mountVars, HearingInv, MountTyped, NoGap, Reach
  <2>3. HearingInv'
    BY <1>1, <2>1, <2>2, TellKeeps, NextKeeps DEF Queue
  <2> QED
    BY <2>1, <2>3 DEF WorkerTyped
<1>2. CASE Mount
  <2>1. UNCHANGED <<host, worker>>
    BY <1>2 DEF Mount, Subscribe, GoLive, Unload, ShutDown, hostVars
  <2> QED
    BY <1>2, <2>1, MountKeeps DEF WorkerTyped
<1>3. CASE UNCHANGED projectionVars
  BY <1>3 DEF projectionVars, hostVars, queueVars, mountVars, WorkerTyped, HearingInv, MountTyped, NoGap, Reach
<1> QED
  BY <1>1, <1>2, <1>3, LoopKeeps DEF ProjectionNext

\* Both hold throughout.
LEMMA HearingKept == ProjectionSpec => [](WorkerTyped /\ HearingInv)
<1>1. ASSUME ProjectionInit PROVE WorkerTyped /\ HearingInv
  <2>1. WorkerTyped
    BY <1>1, BoundAssumption DEF ProjectionInit, WorkerTyped, Worker, Within
  <2>2. Queued(<<>>, 0, <<>>, <<>>)
    BY DEF Queued, Waiting, Rising, Told, Ahead, Begun
  <2>3. <<>> \in Seq(Entry) /\ Len(<<>>) = 0
    OBVIOUS
  <2>4. MountTyped
    <3>1. broken \cup before \subseteq 1 .. Len(log)
      BY <1>1 DEF ProjectionInit
    <3>2. closedAt \in 0 .. Len(log) /\ from \in 0 .. Len(log) + 1
      BY <1>1, <2>3 DEF ProjectionInit
    <3> QED
      BY <1>1, <2>3, <3>1, <3>2 DEF ProjectionInit, MountTyped
  <2>5. NoGap
    BY <1>1 DEF ProjectionInit, NoGap
  <2> QED
    BY <1>1, <2>1, <2>2, <2>4, <2>5 DEF ProjectionInit, HearingInv
<1>2. WorkerTyped /\ HearingInv /\ [ProjectionNext]_projectionVars => (WorkerTyped /\ HearingInv)'
  BY HearingStep
<1> QED
  BY <1>1, <1>2, PTL DEF ProjectionSpec

\* InLogOrder: whatever waits for an attachment or a handler, a package hears in the
\* order of the log, and nothing twice (the one stream of runtime.ts 240-245).
THEOREM PackageHearsInOrder == ProjectionSpec => []InLogOrder
<1>1. HearingInv => InLogOrder
  BY DEF HearingInv, Queued, Told, InLogOrder
<1> QED
  BY <1>1, HearingKept, PTL

\* NothingLost: the seam between the replay and live delivery has no gap, and a
\* package that has been shut down waits for nothing from before its unloading
\* (runtime.ts 2243-2248, 2290-2314).
THEOREM SeamHasNoGap == ProjectionSpec => []NothingLost
<1>1. ASSUME WorkerTyped, HearingInv PROVE NothingLost
  <2>1. /\ log \in Seq(Entry) /\ Len(log) \in Nat /\ chain \in Seq(Nat) /\ heard \in Seq(Telling)
        /\ told \in {0, 1}
    BY <1>1 DEF HearingInv, MountTyped, Queued, Waiting, Told, Begun
  <2>2. ProjectionTypeOK
    <3>1. \A k \in 1 .. Len(log) : log[k].kind \in Kinds
      <4>1. \A k \in 1 .. Len(log) : log[k] \in Entry
        BY <2>1
      <4> QED
        BY <4>1 DEF Entry
    <3>2. {chain[i] : i \in 1 .. Len(chain)} \cup broken \cup before \subseteq 1 .. Len(log)
      BY <1>1 DEF HearingInv, MountTyped, Queued, Waiting
    <3>3. \A i \in 1 .. Len(heard) : heard[i].event \in Events /\ heard[i].at \in 1 .. Len(log)
      <4>1. \A i \in 1 .. Len(heard) : heard[i] \in Telling
        BY <2>1
      <4>2. \A i \in 1 .. Len(heard) : heard[i].at \in 1 .. Len(log)
        BY <1>1 DEF HearingInv, Queued, Told
      <4> QED
        BY <4>1, <4>2 DEF Telling
    <3>4. /\ worker.turn <= Bound[host].turns /\ worker.step <= Bound[host].steps
          /\ worker.attempt <= Bound[host].attempts
      BY <1>1 DEF WorkerTyped, Within
    <3> QED
      BY <1>1, <2>1, <3>1, <3>2, <3>3, <3>4 DEF WorkerTyped, HearingInv, MountTyped, ProjectionTypeOK
  <2>3. ASSUME mount # "loading", NEW k \in from .. Reach
        PROVE  \/ HeardAll(k) \/ k \in broken
               \/ mount # "closed" /\ \E i \in 1 .. Len(chain) : chain[i] = k
    <3>1. Settled(k, IF mount = "closed" THEN <<>> ELSE chain, heard, log, broken)
      BY <1>1, <2>3 DEF HearingInv, NoGap
    <3>2. \A i \in 1 .. Len(<<>>) : FALSE
      OBVIOUS
    <3> QED
      BY <3>1, <3>2 DEF Settled, HeardAll
  <2> QED
    BY <2>2, <2>3 DEF NothingLost, Reach
<1> QED
  BY <1>1, HearingKept, PTL

-----------------------------------------------------------------------------
(* The log: turns, and steps in them, follow one another.                  *)

NotAfter(e, f) == e.turn < f.turn \/ (e.turn = f.turn /\ e.step <= f.step)

InStep(r) == r.at \in {"step", "copying", "answering", "answered", "called"}
InTurn(r) == r.at = "turn" \/ InStep(r) \/ (r.at = "compacting" /\ r.resume = "turn")

\* Events are in the order of their steps, a start begins something new, and nothing of
\* a step follows its end but what is none of its content.
LogShape(l) ==
  /\ \A i, j \in 1 .. Len(l) : i < j =>
       /\ NotAfter(l[i], l[j])
       /\ l[j].kind = "step/start" => ~NotAfter(l[j], l[i])
       /\ l[j].kind = "turn/start" => l[i].turn < l[j].turn
       /\ l[i].kind = "step/end" /\ l[j].kind \in {"assistant/message", "tool/result"} => ~SameStep(l[j], l[i])
  /\ \A k \in 1 .. Len(l) :
       /\ l[k].kind = "step/end" => \E s \in 1 .. k : l[s].kind = "step/start" /\ SameStep(l[s], l[k])
       /\ l[k].turn > 0 => \E s \in 1 .. k : l[s].kind = "turn/start" /\ l[s].turn = l[k].turn
       /\ l[k].kind = "turn/start" => l[k].turn > 0

\* The loop is where its log ends.
AtEnd(l, r) ==
  /\ \A k \in 1 .. Len(l) : NotAfter(l[k], r)
  /\ r.turn > 0 => \E s \in 1 .. Len(l) : l[s].kind = "turn/start" /\ l[s].turn = r.turn
  /\ InStep(r) => /\ \E s \in 1 .. Len(l) : l[s].kind = "step/start" /\ SameStep(l[s], r)
                  /\ ~\E k \in 1 .. Len(l) : l[k].kind = "step/end" /\ SameStep(l[k], r)
  /\ InTurn(r) => /\ r.turn > 0
                  /\ ~\E k \in 1 .. Len(l) : l[k].kind = "turn/end" /\ l[k].turn = r.turn

\* An answer streams within a step.
Streams(r) == r.streaming => r.at \in {"step", "copying"} /\ r.attempt > 0

PlaceInv == LogShape(log) /\ AtEnd(log, worker) /\ Streams(worker) /\ (worker.at = "copying" => worker.streaming)

\* The log grows by an event in its place.
LEMMA ShapeGrows ==
  ASSUME NEW l \in Seq(Entry), LogShape(l), NEW e \in Entry, NEW m, m = Append(l, e),
         \A i \in 1 .. Len(l) : NotAfter(l[i], e),
         e.kind = "step/start" => \A i \in 1 .. Len(l) : ~NotAfter(e, l[i]),
         e.kind = "turn/start" => e.turn > 0 /\ \A i \in 1 .. Len(l) : l[i].turn < e.turn,
         e.kind \in {"assistant/message", "tool/result"} =>
           ~\E i \in 1 .. Len(l) : l[i].kind = "step/end" /\ SameStep(l[i], e),
         e.kind = "step/end" => \E s \in 1 .. Len(l) : l[s].kind = "step/start" /\ SameStep(l[s], e),
         e.turn > 0 /\ e.kind # "turn/start" =>
           \E s \in 1 .. Len(l) : l[s].kind = "turn/start" /\ l[s].turn = e.turn
  PROVE  LogShape(m)
<1>1. /\ m \in Seq(Entry) /\ Len(l) \in Nat /\ Len(m) = Len(l) + 1 /\ m[Len(m)] = e
      /\ \A i \in 1 .. Len(l) : m[i] = l[i]
  OBVIOUS
<1>2. \A i \in 1 .. Len(m) : i \in 1 .. Len(l) \/ i = Len(m)
  BY <1>1
<1>3. ASSUME NEW i \in 1 .. Len(m), NEW j \in 1 .. Len(m), i < j
      PROVE  /\ NotAfter(m[i], m[j])
             /\ m[j].kind = "step/start" => ~NotAfter(m[j], m[i])
             /\ m[j].kind = "turn/start" => m[i].turn < m[j].turn
             /\ m[i].kind = "step/end" /\ m[j].kind \in {"assistant/message", "tool/result"} =>
                  ~SameStep(m[j], m[i])
  <2>1. i \in 1 .. Len(l) /\ m[i] = l[i]
    BY <1>1, <1>2, <1>3
  <2>2. CASE j \in 1 .. Len(l)
    BY <1>1, <1>3, <2>1, <2>2 DEF LogShape
  <2>3. CASE j = Len(m)
    BY <1>1, <2>1, <2>3 DEF SameStep
  <2> QED
    BY <1>2, <2>2, <2>3
<1>4. ASSUME NEW k \in 1 .. Len(m)
      PROVE  /\ m[k].kind = "step/end" => \E s \in 1 .. k : m[s].kind = "step/start" /\ SameStep(m[s], m[k])
             /\ m[k].turn > 0 => \E s \in 1 .. k : m[s].kind = "turn/start" /\ m[s].turn = m[k].turn
             /\ m[k].kind = "turn/start" => m[k].turn > 0
  <2>1. CASE k \in 1 .. Len(l)
    <3>1. m[k] = l[k] /\ \A s \in 1 .. k : s \in 1 .. Len(l) /\ m[s] = l[s]
      BY <1>1, <2>1
    <3> QED
      BY <2>1, <3>1 DEF LogShape
  <2>2. CASE k = Len(m)
    <3>1. m[k] = e /\ k \in 1 .. k /\ \A s \in 1 .. Len(l) : s \in 1 .. k /\ m[s] = l[s]
      BY <1>1, <2>2
    <3> QED
      BY <3>1
  <2> QED
    BY <1>2, <2>1, <2>2
<1> QED
  BY <1>3, <1>4 DEF LogShape

\* The loop logs something within the turn or the step it is in.
LEMMA LogsHere ==
  ASSUME log \in Seq(Entry), worker \in Worker, PlaceInv, worker' \in Worker,
         NEW e \in Entry, log' = Append(log, e), e.turn = worker.turn, e.step = worker.step,
         e.kind \notin {"turn/start", "step/start"},
         worker'.turn = worker.turn, worker'.step = worker.step,
         e.kind \in {"assistant/message", "tool/result", "step/end"} => InStep(worker),
         e.kind = "step/end" => ~InStep(worker'), e.kind = "turn/end" => ~InTurn(worker'),
         InTurn(worker') => InTurn(worker), InStep(worker') => InStep(worker)
  PROVE  LogShape(log') /\ AtEnd(log', worker')
<1>1. /\ Len(log) \in Nat /\ Len(log') = Len(log) + 1 /\ log'[Len(log')] = e
      /\ \A i \in 1 .. Len(log) : log'[i] = log[i]
  OBVIOUS
<1>2. \A i \in 1 .. Len(log') : i \in 1 .. Len(log) \/ i = Len(log')
  BY <1>1
<1>3. \A i \in 1 .. Len(log) : i \in 1 .. Len(log')
  BY <1>1
<1>4. /\ \A i \in 1 .. Len(log) : NotAfter(log[i], e)
      /\ e.kind \in {"assistant/message", "tool/result"} =>
           ~\E i \in 1 .. Len(log) : log[i].kind = "step/end" /\ SameStep(log[i], e)
      /\ e.kind = "step/end" => \E s \in 1 .. Len(log) : log[s].kind = "step/start" /\ SameStep(log[s], e)
      /\ e.turn > 0 => \E s \in 1 .. Len(log) : log[s].kind = "turn/start" /\ log[s].turn = e.turn
  BY DEF PlaceInv, AtEnd, NotAfter, SameStep
<1>5. LogShape(log')
  BY <1>4, ShapeGrows DEF PlaceInv
<1>6. \A k \in 1 .. Len(log') : NotAfter(log'[k], worker')
  <2>1. NotAfter(e, worker')
    BY DEF NotAfter, Entry
  <2>2. \A k \in 1 .. Len(log) : NotAfter(log[k], worker')
    BY DEF PlaceInv, AtEnd, NotAfter
  <2> QED
    BY <1>1, <1>2, <2>1, <2>2
<1>7. worker'.turn > 0 => \E s \in 1 .. Len(log') : log'[s].kind = "turn/start" /\ log'[s].turn = worker'.turn
  BY <1>1, <1>3 DEF PlaceInv, AtEnd
<1>8. ASSUME InStep(worker')
      PROVE  /\ \E s \in 1 .. Len(log') : log'[s].kind = "step/start" /\ SameStep(log'[s], worker')
             /\ ~\E k \in 1 .. Len(log') : log'[k].kind = "step/end" /\ SameStep(log'[k], worker')
  <2>1. /\ \E s \in 1 .. Len(log) : log[s].kind = "step/start" /\ SameStep(log[s], worker)
        /\ ~\E k \in 1 .. Len(log) : log[k].kind = "step/end" /\ SameStep(log[k], worker)
    BY <1>8 DEF PlaceInv, AtEnd
  <2> QED
    BY <1>1, <1>2, <1>3, <1>8, <2>1 DEF SameStep
<1>9. ASSUME InTurn(worker')
      PROVE  /\ worker'.turn > 0
             /\ ~\E k \in 1 .. Len(log') : log'[k].kind = "turn/end" /\ log'[k].turn = worker'.turn
  BY <1>1, <1>2, <1>9 DEF PlaceInv, AtEnd
<1> QED
  BY <1>5, <1>6, <1>7, <1>8, <1>9 DEF AtEnd

\* The loop logs nothing.
LEMMA LogsNothing ==
  ASSUME PlaceInv, log' = log, worker'.turn = worker.turn, worker'.step = worker.step,
         InTurn(worker') => InTurn(worker), InStep(worker') => InStep(worker)
  PROVE  LogShape(log') /\ AtEnd(log', worker')
  BY DEF PlaceInv, AtEnd, NotAfter, SameStep

\* A turn begins.
LEMMA TurnOpens ==
  ASSUME log \in Seq(Entry), worker \in Worker, PlaceInv, OpenTurn
  PROVE  LogShape(log') /\ AtEnd(log', worker')
<1> DEFINE e == [kind |-> "turn/start", turn |-> worker.turn + 1, step |-> 0, part |-> NoPart]
<1>1. /\ log' = Append(log, e) /\ e \in Entry /\ worker.turn \in Nat
      /\ worker' = [worker EXCEPT !.at = "turn", !.turn = @ + 1, !.step = 0]
  BY DEF OpenTurn, Logged, Entry, Kinds, NoPart, Worker
<1>2. worker'.turn = worker.turn + 1 /\ worker'.step = 0 /\ worker'.at = "turn"
  BY <1>1 DEF Worker
<1>3. e.kind = "turn/start" /\ e.turn = worker.turn + 1 /\ e.step = 0
  OBVIOUS
<1> HIDE DEF e
<1>4. \A i \in 1 .. Len(log) : log[i].turn \in Nat /\ log[i].step \in Nat /\ log[i].turn <= worker.turn
  <2> SUFFICES ASSUME NEW i \in 1 .. Len(log)
               PROVE  log[i].turn \in Nat /\ log[i].step \in Nat /\ log[i].turn <= worker.turn
    OBVIOUS
  <2>1. log[i] \in Entry
    OBVIOUS
  <2>2. log[i].turn \in Nat /\ log[i].step \in Nat
    BY <2>1 DEF Entry
  <2>3. log[i].turn < worker.turn \/ log[i].turn = worker.turn
    BY DEF PlaceInv, AtEnd, NotAfter
  <2> QED
    BY <1>1, <2>2, <2>3
<1>5. /\ Len(log) \in Nat /\ Len(log') = Len(log) + 1 /\ log'[Len(log')] = e
      /\ \A i \in 1 .. Len(log) : log'[i] = log[i]
  BY <1>1
<1>6. \A i \in 1 .. Len(log') : i \in 1 .. Len(log) \/ i = Len(log')
  BY <1>5
<1>7. \A i \in 1 .. Len(log) : NotAfter(log[i], e) /\ log[i].turn < e.turn
  BY <1>1, <1>3, <1>4 DEF NotAfter
<1>8. LogShape(log')
  <2>1. e.turn > 0
    BY <1>1, <1>3
  <2> QED
    BY <1>1, <1>3, <1>7, <2>1, ShapeGrows DEF PlaceInv
<1>9. \A k \in 1 .. Len(log') : NotAfter(log'[k], worker')
  BY <1>1, <1>2, <1>3, <1>5, <1>6, <1>7 DEF NotAfter
<1>10. Len(log') \in 1 .. Len(log') /\ log'[Len(log')].kind = "turn/start" /\ log'[Len(log')].turn = worker'.turn
  BY <1>2, <1>3, <1>5
<1>11. ~\E k \in 1 .. Len(log') : log'[k].kind = "turn/end" /\ log'[k].turn = worker'.turn
  BY <1>1, <1>2, <1>3, <1>5, <1>6, <1>7
<1> QED
  BY <1>1, <1>2, <1>8, <1>9, <1>10, <1>11 DEF AtEnd, InStep, InTurn

\* A step begins.
LEMMA StepOpens ==
  ASSUME log \in Seq(Entry), worker \in Worker, PlaceInv, OpenStep
  PROVE  LogShape(log') /\ AtEnd(log', worker')
<1> DEFINE e == [kind |-> "step/start", turn |-> worker.turn, step |-> worker.step + 1, part |-> NoPart]
<1>1. /\ log' = Append(log, e) /\ e \in Entry /\ worker.turn \in Nat /\ worker.step \in Nat
      /\ worker' = [worker EXCEPT !.at = "step", !.step = @ + 1] /\ worker.at = "turn"
  BY DEF OpenStep, Logged, Entry, Kinds, NoPart, Worker
<1>2. worker'.turn = worker.turn /\ worker'.step = worker.step + 1 /\ worker'.at = "step"
  BY <1>1 DEF Worker
<1>3. e.kind = "step/start" /\ e.turn = worker.turn /\ e.step = worker.step + 1
  OBVIOUS
<1> HIDE DEF e
<1>4. \A i \in 1 .. Len(log) : /\ log[i].turn \in Nat /\ log[i].step \in Nat
                               /\ log[i].turn < worker.turn \/ (log[i].turn = worker.turn /\ log[i].step <= worker.step)
  <2>1. \A i \in 1 .. Len(log) : log[i] \in Entry /\ NotAfter(log[i], worker)
    BY DEF PlaceInv, AtEnd
  <2> QED
    BY <1>1, <2>1 DEF NotAfter, Entry
<1>5. /\ Len(log) \in Nat /\ Len(log') = Len(log) + 1 /\ log'[Len(log')] = e
      /\ \A i \in 1 .. Len(log) : log'[i] = log[i]
  BY <1>1
<1>6. \A i \in 1 .. Len(log') : i \in 1 .. Len(log) \/ i = Len(log')
  BY <1>5
<1>7. \A i \in 1 .. Len(log) : /\ NotAfter(log[i], e) /\ ~NotAfter(e, log[i]) /\ ~SameStep(log[i], e)
  BY <1>1, <1>3, <1>4 DEF NotAfter, SameStep
<1>8. InTurn(worker)
  BY <1>1 DEF InTurn
<1>9. /\ worker.turn > 0 /\ \E s \in 1 .. Len(log) : log[s].kind = "turn/start" /\ log[s].turn = worker.turn
      /\ ~\E k \in 1 .. Len(log) : log[k].kind = "turn/end" /\ log[k].turn = worker.turn
  BY <1>8 DEF PlaceInv, AtEnd
<1>10. LogShape(log')
  BY <1>1, <1>3, <1>7, <1>9, ShapeGrows DEF PlaceInv
<1>11. \A k \in 1 .. Len(log') : NotAfter(log'[k], worker')
  BY <1>1, <1>2, <1>3, <1>5, <1>6, <1>7 DEF NotAfter
<1>12. \E s \in 1 .. Len(log') : log'[s].kind = "turn/start" /\ log'[s].turn = worker'.turn
  BY <1>2, <1>5, <1>9
<1>13. \E s \in 1 .. Len(log') : log'[s].kind = "step/start" /\ SameStep(log'[s], worker')
  <2>1. Len(log') \in 1 .. Len(log') /\ log'[Len(log')].kind = "step/start"
        /\ SameStep(log'[Len(log')], worker')
    BY <1>2, <1>3, <1>5 DEF SameStep
  <2> QED
    BY <2>1
<1>14. /\ ~\E k \in 1 .. Len(log') : log'[k].kind = "step/end" /\ SameStep(log'[k], worker')
       /\ ~\E k \in 1 .. Len(log') : log'[k].kind = "turn/end" /\ log'[k].turn = worker'.turn
  BY <1>2, <1>3, <1>5, <1>6, <1>7, <1>9 DEF SameStep
<1> QED
  BY <1>2, <1>9, <1>10, <1>11, <1>12, <1>13, <1>14 DEF AtEnd

\* Whatever the loop does, it is where its log ends.
LEMMA PlaceKept ==
  ASSUME log \in Seq(Entry), worker \in Worker, PlaceInv, WorkerStep, worker' \in Worker
  PROVE  PlaceInv'
<1>1. ASSUME NEW kind \in Kinds \ {"turn/start", "step/start"}, NEW part \in Nat \X Nat,
             Logged(kind, worker.turn, worker.step, part),
             worker'.turn = worker.turn, worker'.step = worker.step,
             kind \in {"assistant/message", "tool/result", "step/end"} => InStep(worker),
             kind = "step/end" => ~InStep(worker'), kind = "turn/end" => ~InTurn(worker'),
             InTurn(worker') => InTurn(worker), InStep(worker') => InStep(worker)
      PROVE  LogShape(log') /\ AtEnd(log', worker')
  <2> DEFINE e == [kind |-> kind, turn |-> worker.turn, step |-> worker.step, part |-> part]
  <2>1. log' = Append(log, e)
    BY <1>1 DEF Logged
  <2>2. /\ e \in Entry /\ e.kind = kind /\ e.turn = worker.turn /\ e.step = worker.step
    BY DEF Entry, Worker
  <2> HIDE DEF e
  <2> QED
    BY <1>1, <2>1, <2>2, LogsHere
<1>2. /\ {"turn/end", "step/end", "assistant/chunk", "assistant/message", "tool/result"}
           \subseteq Kinds \ {"turn/start", "step/start"}
      /\ {"compaction/start", "compaction/summary"} \subseteq Kinds \ {"turn/start", "step/start"}
      /\ NoPart \in Nat \X Nat /\ worker.attempt \in Nat /\ worker.sent \in Nat
  BY DEF Kinds, NoPart, Worker
<1>3. CASE OpenTurn
  <2>1. ~worker.streaming /\ worker' = [worker EXCEPT !.at = "turn", !.turn = @ + 1, !.step = 0]
    BY <1>3 DEF OpenTurn, PlaceInv, Streams
  <2>2. ~worker'.streaming /\ worker'.at = "turn"
    BY <2>1 DEF Worker
  <2> QED
    BY <1>3, <2>2, TurnOpens DEF PlaceInv, Streams
<1>4. CASE OpenStep
  <2>1. ~worker.streaming /\ worker' = [worker EXCEPT !.at = "step", !.step = @ + 1]
    BY <1>4 DEF OpenStep, PlaceInv, Streams
  <2>2. ~worker'.streaming /\ worker'.at = "step"
    BY <2>1 DEF Worker
  <2> QED
    BY <1>4, <2>2, StepOpens DEF PlaceInv, Streams
<1>5. CASE Attempt
  <2>1. /\ worker.at = "step" /\ worker' = [worker EXCEPT !.attempt = @ + 1, !.sent = 0, !.streaming = TRUE]
        /\ log' = log
    BY <1>5 DEF Attempt
  <2>2. /\ worker'.at = "step" /\ worker'.turn = worker.turn /\ worker'.step = worker.step
        /\ worker'.attempt = worker.attempt + 1
    BY <2>1 DEF Worker
  <2>3. worker'.attempt > 0
    BY <1>2, <2>2
  <2> QED
    BY <2>1, <2>2, <2>3, LogsNothing DEF PlaceInv, Streams, InStep, InTurn
<1>6. CASE SendFrame \/ SendFirst
  <2>1. /\ worker.streaming /\ log' = log
        /\ worker' = [worker EXCEPT !.sent = @ + 1] \/ worker' = [worker EXCEPT !.sent = @ + 1, !.at = "copying"]
    BY <1>6 DEF SendFrame, SendFirst
  <2>2. /\ worker.at \in {"step", "copying"} /\ worker.attempt > 0
    BY <2>1 DEF PlaceInv, Streams
  <2>3. /\ worker'.at \in {"step", "copying"} /\ worker'.turn = worker.turn /\ worker'.step = worker.step
        /\ worker'.attempt = worker.attempt /\ worker'.streaming
    BY <2>1, <2>2 DEF Worker
  <2> QED
    BY <2>1, <2>2, <2>3, LogsNothing DEF PlaceInv, Streams, InStep, InTurn
<1>7. CASE LogChunk
  <2>1. /\ worker.streaming /\ worker' = [worker EXCEPT !.sent = @ + 1]
        /\ Logged("assistant/chunk", worker.turn, worker.step, <<worker.attempt, worker.sent + 1>>)
    BY <1>7 DEF LogChunk
  <2>2. /\ worker.at \in {"step", "copying"} /\ worker.attempt > 0
    BY <2>1 DEF PlaceInv, Streams
  <2>3. /\ worker'.at = worker.at /\ worker'.turn = worker.turn /\ worker'.step = worker.step
        /\ worker'.attempt = worker.attempt /\ worker'.streaming
    BY <2>1 DEF Worker
  <2>4. <<worker.attempt, worker.sent + 1>> \in Nat \X Nat
    BY <1>2
  <2>5. (InTurn(worker') => InTurn(worker)) /\ (InStep(worker') => InStep(worker))
    BY <2>2, <2>3 DEF InStep, InTurn
  <2>6. LogShape(log') /\ AtEnd(log', worker')
    BY <1>1, <1>2, <2>1, <2>3, <2>4, <2>5
  <2> QED
    BY <2>2, <2>3, <2>6 DEF PlaceInv, Streams
<1>8. CASE LogSecond
  <2>1. /\ worker.at = "copying" /\ worker' = [worker EXCEPT !.at = "step"]
        /\ Logged("assistant/chunk", worker.turn, worker.step, <<worker.attempt, worker.sent>>)
    BY <1>8 DEF LogSecond, LoopGoes
  <2>2. worker.streaming /\ worker.attempt > 0
    BY <2>1 DEF PlaceInv, Streams
  <2>3. /\ worker'.at = "step" /\ worker'.turn = worker.turn /\ worker'.step = worker.step
        /\ worker'.attempt = worker.attempt
    BY <2>1 DEF Worker
  <2>4. <<worker.attempt, worker.sent>> \in Nat \X Nat
    BY <1>2
  <2>5. InTurn(worker) /\ InStep(worker)
    BY <2>1 DEF InStep, InTurn
  <2>6. LogShape(log') /\ AtEnd(log', worker')
    BY <1>1, <1>2, <2>1, <2>3, <2>4, <2>5
  <2> QED
    BY <2>2, <2>3, <2>6 DEF PlaceInv, Streams
<1>9. CASE Repeated
  <2>1. log' = log /\ worker' = worker
    BY <1>9 DEF Repeated, hostVars
  <2> QED
    BY <2>1, LogsNothing DEF PlaceInv
<1>10. CASE StreamEnds
  <2>1. /\ worker.at = "step" /\ log' = log
        /\ \/ worker' = [worker EXCEPT !.streaming = FALSE, !.at = "answering"]
           \/ worker' = [worker EXCEPT !.streaming = FALSE, !.at = "step"]
    BY <1>10 DEF StreamEnds
  <2>2. /\ worker'.at \in {"step", "answering"} /\ worker'.turn = worker.turn /\ worker'.step = worker.step
        /\ ~worker'.streaming
    BY <2>1 DEF Worker
  <2> QED
    BY <2>1, <2>2, LogsNothing DEF PlaceInv, Streams, InStep, InTurn
<1>11. ASSUME NEW kind \in {"assistant/message", "tool/result", "step/end", "turn/end"}, NEW at,
              Logs(kind), worker' = [worker EXCEPT !.at = at], ~worker.streaming,
              at \notin {"copying", "compacting"}, InTurn(worker), kind # "turn/end" => InStep(worker),
              at \in {"answered", "called"} \/ at = "turn" \/ at = "idle",
              kind = "step/end" => at = "turn", kind = "turn/end" => at = "idle",
              at = "turn" \/ at = "idle" \/ InStep(worker)
       PROVE  PlaceInv'
  <2>1. /\ worker'.at = at /\ worker'.turn = worker.turn /\ worker'.step = worker.step /\ ~worker'.streaming
    BY <1>11 DEF Worker
  <2>2. Logged(kind, worker.turn, worker.step, NoPart)
    BY <1>11 DEF Logs
  <2>3. /\ InStep(worker') => InStep(worker)
        /\ kind = "step/end" => ~InStep(worker')
        /\ kind = "turn/end" => ~InTurn(worker')
    BY <1>11, <2>1 DEF InStep, InTurn
  <2>4. LogShape(log') /\ AtEnd(log', worker')
    BY <1>1, <1>2, <1>11, <2>1, <2>2, <2>3
  <2> QED
    BY <1>11, <2>1, <2>4 DEF PlaceInv, Streams
<1>12. CASE Answer
  <2>1. worker.at = "answering" /\ worker' = [worker EXCEPT !.at = "answered"] /\ Logs("assistant/message")
    BY <1>12 DEF Answer, LoopGoes
  <2>2. ~worker.streaming /\ InStep(worker) /\ InTurn(worker)
    BY <2>1 DEF PlaceInv, Streams, InStep, InTurn
  <2>3. /\ "assistant/message" \in {"assistant/message", "tool/result", "step/end", "turn/end"}
        /\ "answered" \notin {"copying", "compacting"} /\ "answered" \in {"answered", "called"}
    OBVIOUS
  <2> QED
    BY <1>11, <2>1, <2>2, <2>3
<1>13. CASE ToolEnds
  <2>1. worker.at = "answered" /\ worker' = [worker EXCEPT !.at = "called"] /\ Logs("tool/result")
    BY <1>13 DEF ToolEnds, LoopGoes
  <2>2. ~worker.streaming /\ InStep(worker) /\ InTurn(worker)
    BY <2>1 DEF PlaceInv, Streams, InStep, InTurn
  <2> QED
    BY <1>11, <2>1, <2>2
<1>14. CASE CloseStep
  <2>1. /\ worker.at \in {"step", "answered", "called"} /\ ~worker.streaming
        /\ worker' = [worker EXCEPT !.at = "turn"] /\ Logs("step/end")
    BY <1>14 DEF CloseStep, LoopGoes
  <2>2. InStep(worker) /\ InTurn(worker)
    BY <2>1 DEF InStep, InTurn
  <2> QED
    BY <1>11, <2>1, <2>2
<1>15. CASE CloseTurn
  <2>1. worker.at = "turn" /\ worker' = [worker EXCEPT !.at = "idle"] /\ Logs("turn/end")
    BY <1>15 DEF CloseTurn, LoopGoes
  <2>2. ~worker.streaming /\ InTurn(worker)
    BY <2>1 DEF PlaceInv, Streams, InTurn
  <2> QED
    BY <1>11, <2>1, <2>2
<1>16. CASE Compact \/ Summarize
  <2>1. \E kind \in {"compaction/start", "compaction/summary"} :
          Logged(kind, worker.turn, worker.step, NoPart)
    BY <1>16 DEF Compact, Summarize, Logs
  <2>2. /\ worker'.turn = worker.turn /\ worker'.step = worker.step /\ worker'.streaming = worker.streaming
        /\ ~InStep(worker') /\ worker'.at # "copying" /\ (InTurn(worker') => InTurn(worker))
        /\ worker.at \in {"idle", "turn", "compacting"}
    <3>1. CASE Compact
      <4>1. /\ worker.at \in {"idle", "turn"}
            /\ worker' = [worker EXCEPT !.at = "compacting", !.resume = worker.at, !.compactions = @ + 1]
        BY <3>1 DEF Compact
      <4>2. /\ worker'.turn = worker.turn /\ worker'.step = worker.step /\ worker'.streaming = worker.streaming
            /\ worker'.at = "compacting" /\ worker'.resume = worker.at
        BY <4>1 DEF Worker
      <4> QED
        BY <4>1, <4>2 DEF InStep, InTurn
    <3>2. CASE Summarize
      <4>1. worker.at = "compacting" /\ worker' = [worker EXCEPT !.at = worker.resume]
        BY <3>2 DEF Summarize, LoopGoes
      <4>2. /\ worker'.turn = worker.turn /\ worker'.step = worker.step /\ worker'.streaming = worker.streaming
            /\ worker'.at = worker.resume /\ worker.resume \in {"idle", "turn"}
        BY <4>1 DEF Worker
      <4> QED
        BY <4>1, <4>2 DEF InStep, InTurn
    <3> QED
      BY <1>16, <3>1, <3>2
  <2>3. LogShape(log') /\ AtEnd(log', worker')
    BY <1>1, <1>2, <2>1, <2>2
  <2>4. ~worker'.streaming
    BY <2>2 DEF PlaceInv, Streams
  <2> QED
    BY <2>2, <2>3, <2>4 DEF PlaceInv, Streams
<1>17. CASE CompactionFails
  <2>1. worker.at = "compacting" /\ worker' = [worker EXCEPT !.at = worker.resume] /\ log' = log
    BY <1>17 DEF CompactionFails, LoopGoes
  <2>2. /\ worker'.turn = worker.turn /\ worker'.step = worker.step /\ ~worker'.streaming
        /\ ~InStep(worker') /\ worker'.at # "copying" /\ (InTurn(worker') => InTurn(worker))
    BY <2>1 DEF PlaceInv, Streams, Worker, InStep, InTurn
  <2> QED
    BY <2>1, <2>2, LogsNothing DEF PlaceInv, Streams
<1> QED
  BY <1>3, <1>4, <1>5, <1>6, <1>7, <1>8, <1>9, <1>10, <1>12, <1>13, <1>14, <1>15, <1>16, <1>17 DEF WorkerStep

-----------------------------------------------------------------------------
(* A turn_end carries what its own step has logged.                        *)

LEMMA GreatestIsMax ==
  ASSUME NEW n \in Nat, NEW T \in SUBSET (0 .. n), T # {}
  PROVE  Max(T) \in T /\ \A y \in T : Max(T) >= y
<1>1. \E x \in T : \A y \in T : x >= y
  BY GreatestExists
<1> QED
  BY <1>1, Zenon DEF Max

\* Where the step that ends with the k-th event of the log l has opened.
StepAt(l, k) == Max(Where(l, "step/start", 1 .. k))

\* What a step that has ended has logged lies between its start and its end.
LEMMA StepsApart ==
  ASSUME NEW l \in Seq(Entry), LogShape(l), NEW k \in 1 .. Len(l), l[k].kind = "step/end"
  PROVE  /\ StepAt(l, k) \in 1 .. k
         /\ \A j \in 1 .. Len(l) : l[j].kind \in {"assistant/message", "tool/result"} =>
              (SameStep(l[j], l[k]) <=> j \in StepAt(l, k) .. k)
<1> DEFINE o == StepAt(l, k)
<1>0. \A i \in 1 .. Len(l) : l[i].turn \in Nat /\ l[i].step \in Nat
  <2>1. \A i \in 1 .. Len(l) : l[i] \in Entry
    OBVIOUS
  <2> QED
    BY <2>1 DEF Entry
<1>1. PICK s \in 1 .. k : l[s].kind = "step/start" /\ SameStep(l[s], l[k])
  BY DEF LogShape
<1>2. k \in Nat /\ Where(l, "step/start", 1 .. k) \in SUBSET (0 .. k) /\ s \in Where(l, "step/start", 1 .. k)
  BY <1>1 DEF Where
<1>3. o \in Where(l, "step/start", 1 .. k) /\ o >= s
  BY <1>2, GreatestIsMax DEF StepAt
<1> HIDE DEF o
<1>4. o \in 1 .. k /\ o \in 1 .. Len(l) /\ l[o].kind = "step/start" /\ o # k /\ o < k
  BY <1>3 DEF Where
<1>5. s \in 1 .. Len(l) /\ s \in Nat /\ o \in Nat
  BY <1>1, <1>4
<1>6. \A i, j \in 1 .. Len(l) : i < j => NotAfter(l[i], l[j])
  BY DEF LogShape
<1>7. SameStep(l[o], l[k])
  <2>1. CASE o = s
    BY <1>1, <2>1
  <2>2. CASE o > s
    <3>1. ~NotAfter(l[o], l[s])
      BY <1>4, <1>5, <2>2 DEF LogShape
    <3>2. NotAfter(l[o], l[k])
      BY <1>4, <1>6
    <3> QED
      BY <1>1, <3>1, <3>2 DEF NotAfter, SameStep
  <2> QED
    BY <1>3, <1>5, <2>1, <2>2
<1>8. ASSUME NEW j \in 1 .. Len(l), l[j].kind \in {"assistant/message", "tool/result"}
      PROVE  SameStep(l[j], l[k]) <=> j \in o .. k
  <2>1. j \in Nat /\ k \in Nat /\ j # o /\ j # k
    BY <1>4, <1>8
  <2>2. ASSUME j < o PROVE ~SameStep(l[j], l[k])
    <3>1. ~NotAfter(l[o], l[j])
      BY <1>4, <2>2 DEF LogShape
    <3> QED
      BY <1>0, <1>4, <1>7, <3>1 DEF NotAfter, SameStep
  <2>3. ASSUME k < j PROVE ~SameStep(l[j], l[k])
    BY <1>8, <2>3 DEF LogShape
  <2>4. ASSUME o < j, j < k PROVE SameStep(l[j], l[k])
    <3>1. NotAfter(l[o], l[j]) /\ NotAfter(l[j], l[k])
      BY <1>4, <1>6, <2>4
    <3> QED
      BY <1>0, <1>4, <1>7, <3>1 DEF NotAfter, SameStep
  <2> QED
    BY <1>5, <2>1, <2>2, <2>3, <2>4
<1> QED
  BY <1>4, <1>8 DEF o

\* The event e ends a step in the log l, and carries what that step has logged.
EndsOwn(e, l) ==
  /\ e.at \in 1 .. Len(l) /\ l[e.at].kind = "step/end"
  /\ e.answer = Max({0} \cup Where(l, "assistant/message", StepAt(l, e.at) .. e.at))
  /\ e.results = Where(l, "tool/result", StepAt(l, e.at) .. e.at)

Grown(l, m) == Len(l) <= Len(m) /\ \A i \in 1 .. Len(l) : m[i] = l[i]

LEMMA EndsStay ==
  ASSUME NEW l \in Seq(Entry), NEW m \in Seq(Entry), LogShape(l), Grown(l, m), NEW e, EndsOwn(e, l)
  PROVE  EndsOwn(e, m)
<1>1. e.at \in 1 .. Len(l) /\ e.at \in 1 .. Len(m) /\ m[e.at] = l[e.at] /\ Len(l) \in Nat
  BY DEF EndsOwn, Grown
<1>2. ASSUME NEW lo \in Nat, lo >= 1, NEW kind PROVE Where(m, kind, lo .. e.at) = Where(l, kind, lo .. e.at)
  <2>1. \A i \in lo .. e.at : i \in 1 .. Len(l)
    BY <1>1, <1>2
  <2>2. \A i \in lo .. e.at : m[i] = l[i]
    BY <2>1 DEF Grown
  <2> QED
    BY <2>2 DEF Where
<1>3. StepAt(m, e.at) = StepAt(l, e.at)
  BY <1>2 DEF StepAt
<1>4. StepAt(l, e.at) \in Nat /\ StepAt(l, e.at) >= 1
  <2>1. StepAt(l, e.at) \in 1 .. e.at
    BY <1>1, StepsApart DEF EndsOwn
  <2> QED
    BY <1>1, <2>1
<1> QED
  BY <1>1, <1>2, <1>3, <1>4 DEF EndsOwn

\* turn_end, when it is told.
LEMMA TurnEndsOwn ==
  ASSUME log \in Seq(Entry), LogShape(log), NEW k \in 1 .. Len(log), log[k].kind = "step/end"
  PROVE  EndsOwn(TurnEnd(k), log)
<1>1. ASSUME NEW kind \in {"assistant/message", "tool/result"}
      PROVE  OfStep(k, kind) = Where(log, kind, StepAt(log, k) .. k)
  <2>1. StepAt(log, k) \in 1 .. k
    BY StepsApart
  <2>2. \A j \in StepAt(log, k) .. k : j \in 1 .. Len(log)
    BY <2>1
  <2>3. \A j \in 1 .. Len(log) : log[j].kind = kind => (SameStep(log[j], log[k]) <=> j \in StepAt(log, k) .. k)
    BY StepsApart
  <2> QED
    BY <2>2, <2>3 DEF OfStep, Where
<1>2. /\ OfStep(k, "assistant/message") = Where(log, "assistant/message", StepAt(log, k) .. k)
      /\ OfStep(k, "tool/result") = Where(log, "tool/result", StepAt(log, k) .. k)
  BY <1>1
<1> QED
  BY <1>2 DEF EndsOwn, TurnEnd

\* The log only grows, and only telling adds to the ends.
LEMMA LoopGrows ==
  ASSUME log \in Seq(Entry), WorkerStep PROVE Grown(log, log') /\ ends' = ends
<1>1. ASSUME NEW kind, NEW turn, NEW step, NEW part, Logged(kind, turn, step, part)
      PROVE  Grown(log, log') /\ ends' = ends
  <2>1. log' = Append(log, [kind |-> kind, turn |-> turn, step |-> step, part |-> part]) /\ Heard(log')
    BY <1>1 DEF Logged
  <2>2. Grown(log, log')
    BY <2>1 DEF Grown
  <2>3. ends' = ends
    BY <2>1 DEF Heard, Project, queueVars
  <2> QED
    BY <2>2, <2>3
<1>2. ASSUME NEW kind, Logs(kind) PROVE Grown(log, log') /\ ends' = ends
  BY <1>1, <1>2 DEF Logs
<1>3. ASSUME log' = log, ends' = ends PROVE Grown(log, log') /\ ends' = ends
  BY <1>3 DEF Grown
<1>4. CASE OpenTurn \/ OpenStep \/ LogChunk \/ LogSecond
  BY <1>1, <1>4 DEF OpenTurn, OpenStep, LogChunk, LogSecond
<1>5. CASE Answer \/ ToolEnds \/ CloseStep \/ CloseTurn
  BY <1>2, <1>5 DEF Answer, ToolEnds, CloseStep, CloseTurn
<1>6. CASE Compact \/ Summarize
  BY <1>1, <1>2, <1>6 DEF Compact, Summarize, Logs
<1>7. CASE Attempt \/ SendFrame \/ SendFirst \/ Repeated \/ StreamEnds \/ CompactionFails
  BY <1>3, <1>7 DEF Attempt, SendFrame, SendFirst, Repeated, StreamEnds, CompactionFails,
     queueVars, hostVars
<1> QED
  BY <1>4, <1>5, <1>6, <1>7 DEF WorkerStep

-----------------------------------------------------------------------------
(* A model call's number counts the steps its turn has ended.              *)

StepsEnded(l, k, turn) == {j \in Where(l, "step/end", 1 .. k) : l[j].turn = turn}

Numbered(n, l) == n.at \in 1 .. Len(l) /\ n.index = Cardinality(StepsEnded(l, n.at - 1, l[n.at].turn))

IndexInv ==
  /\ piTurnIndex \in Nat /\ (mount = "loading" => piTurnIndex = 0)
  /\ mount \in {"live", "closing"} /\ listening /\ InTurn(worker) =>
       piTurnIndex = Cardinality(StepsEnded(log, Len(log), worker.turn))
  /\ \A n \in numbered : Numbered(n, log)

\* The loop says e in its place, and the listener hears it.
Says(e) ==
  /\ e \in Entry /\ log' = Append(log, e) /\ Heard(log')
  /\ IF e.kind = "turn/start" THEN worker'.turn = worker.turn + 1 /\ e.turn = worker.turn + 1
     ELSE worker'.turn = worker.turn /\ e.turn = worker.turn /\ (InTurn(worker') => InTurn(worker))
  /\ e.kind \in {"step/start", "step/end"} => InTurn(worker)

LEMMA LoopSays ==
  ASSUME log \in Seq(Entry), worker \in Worker, PlaceInv, WorkerStep
  PROVE  /\ UNCHANGED <<mount, listening>>
         /\ \/ \E e \in Entry : Says(e)
            \/ /\ UNCHANGED <<log, piTurnIndex, numbered>> /\ worker'.turn = worker.turn
               /\ InTurn(worker') => InTurn(worker)
<1> DEFINE Goal == /\ UNCHANGED <<mount, listening>>
                   /\ \/ \E e \in Entry : Says(e)
                      \/ /\ UNCHANGED <<log, piTurnIndex, numbered>> /\ worker'.turn = worker.turn
                         /\ InTurn(worker') => InTurn(worker)
<1> SUFFICES Goal
  OBVIOUS
<1>1. ASSUME NEW e, Says(e), UNCHANGED mountVars PROVE Goal
  BY <1>1 DEF Says, mountVars
<1>2. ASSUME UNCHANGED <<log, piTurnIndex, numbered, mount, listening>>, worker'.turn = worker.turn,
             InTurn(worker') => InTurn(worker)
      PROVE  Goal
  BY <1>2
<1>3. /\ worker.turn \in Nat /\ worker.step \in Nat /\ worker.attempt \in Nat /\ worker.sent \in Nat
      /\ NoPart \in Nat \X Nat
  BY DEF Worker, NoPart
<1> HIDE DEF Goal
<1>5. CASE OpenTurn
  <2> DEFINE e == [kind |-> "turn/start", turn |-> worker.turn + 1, step |-> 0, part |-> NoPart]
  <2>1. /\ worker' = [worker EXCEPT !.at = "turn", !.turn = @ + 1, !.step = 0]
        /\ Logged("turn/start", worker.turn + 1, 0, NoPart) /\ UNCHANGED mountVars
    BY <1>5 DEF OpenTurn
  <2>2. worker'.turn = worker.turn + 1 /\ worker.turn + 1 \in Nat
    BY <1>3, <2>1 DEF Worker
  <2>3. e \in Entry /\ log' = Append(log, e) /\ Heard(log') /\ e.kind = "turn/start" /\ e.turn = worker.turn + 1
    BY <1>3, <2>1, <2>2 DEF Logged, Entry, Kinds
  <2> HIDE DEF e
  <2>4. Says(e)
    BY <2>2, <2>3 DEF Says
  <2> QED
    BY <1>1, <2>1, <2>4
<1>6. CASE OpenStep
  <2> DEFINE e == [kind |-> "step/start", turn |-> worker.turn, step |-> worker.step + 1, part |-> NoPart]
  <2>1. /\ worker.at = "turn" /\ worker' = [worker EXCEPT !.at = "step", !.step = @ + 1]
        /\ Logged("step/start", worker.turn, worker.step + 1, NoPart) /\ UNCHANGED mountVars
    BY <1>6 DEF OpenStep
  <2>2. worker'.turn = worker.turn /\ worker.step + 1 \in Nat /\ InTurn(worker)
    BY <1>3, <2>1 DEF Worker, InTurn
  <2>3. e \in Entry /\ log' = Append(log, e) /\ Heard(log') /\ e.kind = "step/start" /\ e.turn = worker.turn
    BY <1>3, <2>1, <2>2 DEF Logged, Entry, Kinds
  <2> HIDE DEF e
  <2>4. Says(e)
    BY <2>2, <2>3 DEF Says
  <2> QED
    BY <1>1, <2>1, <2>4
<1>7. ASSUME NEW i \in Nat, worker.at \in {"step", "copying"}, worker'.turn = worker.turn,
             Logged("assistant/chunk", worker.turn, worker.step, <<worker.attempt, i>>), UNCHANGED mountVars
      PROVE  Goal
  <2> DEFINE e == [kind |-> "assistant/chunk", turn |-> worker.turn, step |-> worker.step,
                   part |-> <<worker.attempt, i>>]
  <2>1. e \in Entry /\ log' = Append(log, e) /\ Heard(log') /\ e.kind = "assistant/chunk" /\ e.turn = worker.turn
    BY <1>3, <1>7 DEF Logged, Entry, Kinds
  <2> HIDE DEF e
  <2>2. Says(e)
    BY <1>7, <2>1 DEF Says, InTurn, InStep
  <2> QED
    BY <1>1, <1>7, <2>2
<1>71. CASE LogChunk
  <2>1. /\ worker.streaming /\ worker' = [worker EXCEPT !.sent = @ + 1] /\ UNCHANGED mountVars
        /\ Logged("assistant/chunk", worker.turn, worker.step, <<worker.attempt, worker.sent + 1>>)
    BY <1>71 DEF LogChunk
  <2>2. worker.at \in {"step", "copying"} /\ worker'.turn = worker.turn /\ worker.sent + 1 \in Nat
    BY <1>3, <2>1 DEF PlaceInv, Streams, Worker
  <2> QED
    BY <1>7, <2>1, <2>2
<1>72. CASE LogSecond
  <2>1. /\ worker.at = "copying" /\ worker' = [worker EXCEPT !.at = "step"] /\ UNCHANGED mountVars
        /\ Logged("assistant/chunk", worker.turn, worker.step, <<worker.attempt, worker.sent>>)
    BY <1>72 DEF LogSecond, LoopGoes
  <2>2. worker'.turn = worker.turn
    BY <2>1 DEF Worker
  <2> QED
    BY <1>3, <1>7, <2>1, <2>2
<1>8. ASSUME NEW kind \in Kinds, kind \notin {"turn/start", "step/start"}, Logs(kind), worker'.turn = worker.turn,
             InTurn(worker') => InTurn(worker), kind = "step/end" => InTurn(worker)
      PROVE  Goal
  <2> DEFINE e == [kind |-> kind, turn |-> worker.turn, step |-> worker.step, part |-> NoPart]
  <2>1. e \in Entry /\ log' = Append(log, e) /\ Heard(log') /\ e.kind = kind /\ e.turn = worker.turn
    BY <1>3, <1>8 DEF Logs, Logged, Entry
  <2>2. UNCHANGED mountVars
    BY <1>8 DEF Logs
  <2> HIDE DEF e
  <2>3. Says(e)
    BY <1>8, <2>1 DEF Says
  <2> QED
    BY <1>1, <2>2, <2>3
<1>9. CASE Answer \/ ToolEnds \/ CloseStep \/ CloseTurn
  <2>1. /\ worker.at \in {"turn", "step", "answering", "answered", "called"} /\ worker'.turn = worker.turn
        /\ \E kind \in {"assistant/message", "tool/result", "step/end", "turn/end"} : Logs(kind)
    BY <1>9 DEF Answer, ToolEnds, CloseStep, CloseTurn, LoopGoes, Worker
  <2>2. InTurn(worker)
    BY <2>1 DEF InTurn, InStep
  <2>3. PICK kind \in {"assistant/message", "tool/result", "step/end", "turn/end"} : Logs(kind)
    BY <2>1
  <2>4. kind \in Kinds /\ kind \notin {"turn/start", "step/start"}
    BY DEF Kinds
  <2> QED
    BY <1>8, <2>1, <2>2, <2>3, <2>4
<1>10. CASE Compact
  <2>1. /\ worker.at \in {"idle", "turn"} /\ Logs("compaction/start")
        /\ worker' = [worker EXCEPT !.at = "compacting", !.resume = worker.at, !.compactions = @ + 1]
    BY <1>10 DEF Compact
  <2>2. worker'.turn = worker.turn /\ worker'.at = "compacting" /\ worker'.resume = worker.at
    BY <2>1 DEF Worker
  <2>3. InTurn(worker') => InTurn(worker)
    BY <2>1, <2>2 DEF InTurn, InStep
  <2>4. "compaction/start" \in Kinds /\ "compaction/start" \notin {"turn/start", "step/start", "step/end"}
    BY DEF Kinds
  <2> QED
    BY <1>8, <2>1, <2>2, <2>3, <2>4
<1>11. CASE Summarize \/ CompactionFails
  <2>1. /\ worker.at = "compacting" /\ worker' = [worker EXCEPT !.at = worker.resume]
        /\ Logs("compaction/summary") \/ UNCHANGED <<log, piTurnIndex, numbered, mount, listening>>
    BY <1>11 DEF Summarize, CompactionFails, LoopGoes, indexVars, mountVars
  <2>2. worker'.turn = worker.turn /\ worker'.at = worker.resume /\ worker.resume \in {"idle", "turn"}
    BY <2>1 DEF Worker
  <2>3. InTurn(worker') => InTurn(worker)
    BY <2>1, <2>2 DEF InTurn, InStep
  <2>4. "compaction/summary" \in Kinds /\ "compaction/summary" \notin {"turn/start", "step/start", "step/end"}
    BY DEF Kinds
  <2>5. CASE Logs("compaction/summary")
    BY <1>8, <2>2, <2>3, <2>4, <2>5
  <2> QED
    BY <1>2, <2>1, <2>2, <2>3, <2>5
<1>12. CASE Attempt \/ SendFrame \/ SendFirst \/ StreamEnds
  <2>1. /\ worker.at = "step" \/ worker.streaming
        /\ worker'.turn = worker.turn /\ UNCHANGED <<log, piTurnIndex, numbered, mount, listening>>
    BY <1>12 DEF Attempt, SendFrame, SendFirst, StreamEnds, indexVars, mountVars, Worker
  <2>2. InTurn(worker)
    BY <2>1 DEF PlaceInv, Streams, InTurn, InStep
  <2> QED
    BY <1>2, <2>1, <2>2
<1>13. CASE Repeated
  <2>1. worker' = worker /\ UNCHANGED <<log, piTurnIndex, numbered, mount, listening>>
    BY <1>13 DEF Repeated, hostVars, indexVars, mountVars
  <2> QED
    BY <1>2, <2>1
<1> QED
  BY <1>5, <1>6, <1>71, <1>72, <1>9, <1>10, <1>11, <1>12, <1>13 DEF WorkerStep

\* Counting one more.
LEMMA CountMore ==
  /\ Cardinality({}) = 0
  /\ \A n \in Nat : \A S \in SUBSET (1 .. n) :
       IsFiniteSet(S) /\ Cardinality(S) \in Nat /\ Cardinality(S \cup {n + 1}) = Cardinality(S) + 1
<1>1. Cardinality({}) = 0
  BY FS_EmptySet
<1>2. ASSUME NEW n \in Nat, NEW S \in SUBSET (1 .. n)
      PROVE  IsFiniteSet(S) /\ Cardinality(S) \in Nat /\ Cardinality(S \cup {n + 1}) = Cardinality(S) + 1
  <2>1. IsFiniteSet(1 .. n) /\ n + 1 \notin S
    BY FS_Interval
  <2>2. IsFiniteSet(S)
    BY <2>1, FS_Subset
  <2>3. Cardinality(S) \in Nat /\ Cardinality(S \cup {n + 1}) = Cardinality(S) + 1
    BY <2>1, <2>2, FS_CardinalityType, FS_AddElement
  <2> QED
    BY <2>2, <2>3
<1> QED
  BY <1>1, <1>2

LEMMA StepsCounted ==
  ASSUME NEW l \in Seq(Entry), NEW k \in 0 .. Len(l), NEW turn
  PROVE  StepsEnded(l, k, turn) \in SUBSET (1 .. k) /\ Cardinality(StepsEnded(l, k, turn)) \in Nat
<1>1. StepsEnded(l, k, turn) \in SUBSET (1 .. k) /\ k \in Nat
  BY DEF StepsEnded, Where
<1> QED
  BY <1>1, CountMore

\* What is counted stays as the log grows.
LEMMA StepsStay ==
  ASSUME NEW l \in Seq(Entry), NEW m \in Seq(Entry), Grown(l, m), NEW k \in 0 .. Len(l), NEW turn
  PROVE  StepsEnded(m, k, turn) = StepsEnded(l, k, turn)
<1>1. \A i \in 1 .. k : m[i] = l[i]
  BY DEF Grown
<1> QED
  BY <1>1 DEF StepsEnded, Where

LEMMA NumberStays ==
  ASSUME NEW l \in Seq(Entry), NEW m \in Seq(Entry), Grown(l, m), NEW n, Numbered(n, l)
  PROVE  Numbered(n, m)
<1>1. n.at \in 1 .. Len(l) /\ n.at \in 1 .. Len(m) /\ m[n.at] = l[n.at]
  BY DEF Grown, Numbered
<1>2. n.at - 1 \in 0 .. Len(l)
  BY <1>1
<1> QED
  BY <1>1, <1>2, StepsStay DEF Numbered

\* The number an event finds: what was counted before, unless a turn has begun since.
LEMMA IndexFound ==
  ASSUME NEW l, NEW lo, NEW k
  PROVE  IF Where(l, "turn/start", lo .. k - 1) = {}
         THEN IndexAt(l, lo, k) = piTurnIndex + Cardinality(Where(l, "step/end", lo .. k - 1))
         ELSE IndexAt(l, lo, k) = 0 + Cardinality(
                Where(l, "step/end", Max(Where(l, "turn/start", lo .. k - 1)) .. k - 1))
  BY Zenon DEF IndexAt

\* An event that is heard when it is logged.
LEMMA LiveIndex ==
  ASSUME log \in Seq(Entry), piTurnIndex \in Nat, NEW e \in Entry, NEW m, m = Append(log, e), Project(m, Len(m))
  PROVE  /\ piTurnIndex' = IF e.kind = "turn/start" THEN 0
                           ELSE IF e.kind = "step/end" THEN piTurnIndex + 1 ELSE piTurnIndex
         /\ \A n \in numbered' : \/ n \in numbered
                                 \/ /\ n = [at |-> Len(m), index |-> piTurnIndex]
                                    /\ e.kind \in {"step/start", "step/end"}
<1> DEFINE lo == Len(m)
           hi == lo + 1
<1>1. m \in Seq(Entry) /\ lo \in Nat /\ lo > 0 /\ m[lo] = e /\ hi = lo + 1
  OBVIOUS
<1>2. /\ piTurnIndex' = IndexAt(m, lo, hi)
      /\ numbered' = numbered \cup
           {[at |-> k, index |-> IndexAt(m, lo, k)] :
              k \in Where(m, "step/start", lo .. lo) \cup Where(m, "step/end", lo .. lo)}
  BY DEF Project
<1> HIDE DEF lo, hi
<1>3. lo .. lo - 1 = {} /\ lo .. hi - 1 = {lo} /\ lo .. lo = {lo}
  BY <1>1
<1>4. \A kind : Where(m, kind, {}) = {} /\ Where(m, kind, {lo}) = IF e.kind = kind THEN {lo} ELSE {}
  BY <1>1 DEF Where
<1>5. Cardinality({}) = 0 /\ Cardinality({lo}) = 1
  BY FS_EmptySet, FS_Singleton
<1>6. Max({lo}) = lo
  <2>1. {lo} \in SUBSET (0 .. lo) /\ {lo} # {}
    BY <1>1
  <2> QED
    BY <1>1, <2>1, GreatestIsMax
<1>7. IndexAt(m, lo, lo) = piTurnIndex
  <2>1. Where(m, "turn/start", lo .. lo - 1) = {} /\ Where(m, "step/end", lo .. lo - 1) = {}
    BY <1>3, <1>4
  <2>2. IndexAt(m, lo, lo) = piTurnIndex + Cardinality(Where(m, "step/end", lo .. lo - 1))
    BY <2>1, IndexFound, Zenon
  <2>3. IndexAt(m, lo, lo) = piTurnIndex + Cardinality({})
    BY <2>1, <2>2, Zenon
  <2> QED
    BY <1>5, <2>3
<1>8. IndexAt(m, lo, hi) = IF e.kind = "turn/start" THEN 0
                                 ELSE IF e.kind = "step/end" THEN piTurnIndex + 1 ELSE piTurnIndex
  <2>0. /\ Where(m, "turn/start", lo .. hi - 1) = IF e.kind = "turn/start" THEN {lo} ELSE {}
        /\ Where(m, "step/end", lo .. hi - 1) = IF e.kind = "step/end" THEN {lo} ELSE {}
    BY <1>3, <1>4
  <2>1. CASE e.kind = "turn/start"
    <3>1. Where(m, "turn/start", lo .. hi - 1) = {lo} /\ Where(m, "step/end", lo .. hi - 1) = {}
      BY <2>0, <2>1
    <3>2. IndexAt(m, lo, hi) =
            0 + Cardinality(Where(m, "step/end", Max(Where(m, "turn/start", lo .. hi - 1)) .. hi - 1))
      <4>1. Where(m, "turn/start", lo .. hi - 1) # {}
        BY <3>1
      <4> QED
        BY <4>1, IndexFound, Zenon
    <3>3. IndexAt(m, lo, hi) = 0 + Cardinality({})
      BY <1>6, <3>1, <3>2, Zenon
    <3> QED
      BY <1>5, <2>1, <3>3
  <2>2. CASE e.kind # "turn/start"
    <3>1. Where(m, "turn/start", lo .. hi - 1) = {}
      BY <2>0, <2>2
    <3>2. IndexAt(m, lo, hi) = piTurnIndex + Cardinality(Where(m, "step/end", lo .. hi - 1))
      BY <3>1, IndexFound, Zenon
    <3>3. IndexAt(m, lo, hi) = piTurnIndex + Cardinality(IF e.kind = "step/end" THEN {lo} ELSE {})
      BY <2>0, <3>2, Zenon
    <3> QED
      BY <1>5, <2>2, <3>3
  <2> QED
    BY <2>1, <2>2
<1>9. ASSUME NEW n \in numbered', n \notin numbered
      PROVE  n = [at |-> lo, index |-> piTurnIndex] /\ e.kind \in {"step/start", "step/end"}
  <2>1. PICK k \in Where(m, "step/start", lo .. lo) \cup Where(m, "step/end", lo .. lo) :
          n = [at |-> k, index |-> IndexAt(m, lo, k)]
    BY <1>2, <1>9
  <2>2. k = lo /\ e.kind \in {"step/start", "step/end"}
    BY <1>3, <1>4
  <2> QED
    BY <1>7, <2>1, <2>2
<1> QED
  BY <1>2, <1>8, <1>9 DEF lo

\* The count is kept when the loop says something.
LEMMA SaidIndex ==
  ASSUME log \in Seq(Entry), log' \in Seq(Entry), worker \in Worker, PlaceInv, MountTyped, IndexInv,
         NEW e \in Entry, Says(e), UNCHANGED <<mount, listening>>
  PROVE  IndexInv'
<1> DEFINE last == Len(log) + 1
           hears == mount \in {"live", "closing"} /\ listening
<1>1. /\ Len(log) \in Nat /\ Len(log') = last /\ log'[last] = e
      /\ \A i \in 1 .. Len(log) : log'[i] = log[i]
  BY DEF Says
<1>2. Grown(log, log')
  BY <1>1 DEF Grown
<1>3. /\ worker.turn \in Nat /\ e.turn \in Nat
      /\ \A i \in 1 .. Len(log) : log[i].turn \in Nat /\ log[i].turn <= worker.turn
  <2>1. worker.turn \in Nat /\ e.turn \in Nat
    BY DEF Worker, Entry
  <2>2. ASSUME NEW i \in 1 .. Len(log) PROVE log[i].turn \in Nat /\ log[i].turn <= worker.turn
    <3>1. log[i] \in Entry
      OBVIOUS
    <3>2. log[i].turn \in Nat
      BY <3>1 DEF Entry
    <3>3. log[i].turn < worker.turn \/ log[i].turn = worker.turn
      BY DEF PlaceInv, AtEnd, NotAfter
    <3> QED
      BY <2>1, <3>2, <3>3
  <2> QED
    BY <2>1, <2>2
<1>4. \A turn : StepsEnded(log', last, turn) = StepsEnded(log, Len(log), turn)
                  \cup IF e.kind = "step/end" /\ e.turn = turn THEN {last} ELSE {}
  <2>1. \A i : i \in 1 .. last <=> i \in 1 .. Len(log) \/ i = last
    BY <1>1
  <2> QED
    BY <1>1, <2>1 DEF StepsEnded, Where
<1>5. \A n \in numbered : Numbered(n, log')
  BY <1>2, NumberStays DEF IndexInv
<1>6. CASE ~hears
  <2>1. UNCHANGED <<piTurnIndex, numbered>>
    BY <1>6 DEF Says, Heard, indexVars
  <2> QED
    BY <1>5, <1>6, <2>1 DEF IndexInv
<1>7. CASE hears
  <2>1. Project(log', Len(log')) /\ log' = Append(log, e)
    BY <1>7 DEF Says, Heard
  <2>2. /\ piTurnIndex' = IF e.kind = "turn/start" THEN 0
                          ELSE IF e.kind = "step/end" THEN piTurnIndex + 1 ELSE piTurnIndex
        /\ \A n \in numbered' : \/ n \in numbered
                                \/ /\ n = [at |-> last, index |-> piTurnIndex]
                                   /\ e.kind \in {"step/start", "step/end"}
    BY <1>1, <2>1, LiveIndex DEF IndexInv
  <2>3. InTurn(worker) => piTurnIndex = Cardinality(StepsEnded(log, Len(log), worker.turn))
    BY <1>7 DEF IndexInv
  <2>4. piTurnIndex' \in Nat
    BY <2>2 DEF IndexInv
  <2>5. ASSUME InTurn(worker') PROVE piTurnIndex' = Cardinality(StepsEnded(log', last, worker'.turn))
    <3>1. CASE e.kind = "turn/start"
      <4>1. StepsEnded(log, Len(log), worker'.turn) = {}
        BY <1>3, <3>1 DEF Says, StepsEnded, Where
      <4>2. StepsEnded(log', last, worker'.turn) = {}
        BY <1>4, <3>1, <4>1
      <4> QED
        BY <2>2, <3>1, <4>2, CountMore
    <3>2. CASE e.kind # "turn/start"
      <4>1. InTurn(worker) /\ worker'.turn = worker.turn /\ e.turn = worker.turn
        BY <2>5, <3>2 DEF Says
      <4>2. CASE e.kind = "step/end"
        <5>1. StepsEnded(log', last, worker'.turn) = StepsEnded(log, Len(log), worker.turn) \cup {Len(log) + 1}
          BY <1>4, <4>1, <4>2
        <5>2. StepsEnded(log, Len(log), worker.turn) \in SUBSET (1 .. Len(log))
          BY <1>1, StepsCounted
        <5> QED
          BY <1>1, <2>2, <2>3, <4>1, <4>2, <5>1, <5>2, CountMore
      <4>3. CASE e.kind # "step/end"
        <5>1. StepsEnded(log', last, worker'.turn) = StepsEnded(log, Len(log), worker.turn)
          BY <1>4, <4>1, <4>3
        <5> QED
          BY <2>2, <2>3, <3>2, <4>1, <4>3, <5>1
      <4> QED
        BY <4>2, <4>3
    <3> QED
      BY <3>1, <3>2
  <2>6. ASSUME NEW n \in numbered' PROVE Numbered(n, log')
    <3>1. CASE n \in numbered
      BY <1>5, <3>1
    <3>2. CASE n = [at |-> last, index |-> piTurnIndex] /\ e.kind \in {"step/start", "step/end"}
      <4>1. InTurn(worker) /\ e.turn = worker.turn
        BY <3>2 DEF Says
      <4>2. StepsEnded(log', Len(log), worker.turn) = StepsEnded(log, Len(log), worker.turn)
        BY <1>1, <1>2, StepsStay
      <4>3. n.at = last /\ n.at - 1 = Len(log) /\ n.index = piTurnIndex /\ n.at \in 1 .. Len(log')
        BY <1>1, <3>2
      <4> QED
        BY <1>1, <2>3, <4>1, <4>2, <4>3 DEF Numbered
    <3> QED
      BY <2>2, <3>1, <3>2
  <2> QED
    BY <1>1, <1>7, <2>4, <2>5, <2>6 DEF IndexInv
<1> QED
  BY <1>6, <1>7

\* From the last turn/start on, everything in the log is of that turn.
LEMMA LastTurn ==
  ASSUME NEW l \in Seq(Entry), LogShape(l), Where(l, "turn/start", 1 .. Len(l)) # {},
         NEW lo, lo = Max(Where(l, "turn/start", 1 .. Len(l)))
  PROVE  /\ lo \in 1 .. Len(l) /\ l[lo].kind = "turn/start" /\ l[lo].turn > 0
         /\ \A j \in 1 .. Len(l) : /\ l[j].kind = "turn/start" => j <= lo
                                   /\ j < lo => l[j].turn < l[lo].turn
                                   /\ j >= lo => l[j].turn = l[lo].turn
<1> DEFINE starts == Where(l, "turn/start", 1 .. Len(l))
<1>1. Len(l) \in Nat /\ starts \in SUBSET (0 .. Len(l)) /\ starts # {}
  BY DEF Where
<1>2. lo \in starts /\ \A j \in starts : lo >= j
  BY <1>1, GreatestIsMax
<1>3. lo \in 1 .. Len(l) /\ l[lo].kind = "turn/start"
  BY <1>2 DEF Where
<1>4. \A j \in 1 .. Len(l) : l[j].turn \in Nat
  <2>1. \A j \in 1 .. Len(l) : l[j] \in Entry
    OBVIOUS
  <2> QED
    BY <2>1 DEF Entry
<1>5. l[lo].turn > 0
  BY <1>3 DEF LogShape
<1>6. \A j \in 1 .. Len(l) : j < lo => l[j].turn < l[lo].turn
  BY <1>3 DEF LogShape
<1>7. \A i, j \in 1 .. Len(l) : i <= j => l[i].turn <= l[j].turn
  <2> SUFFICES ASSUME NEW i \in 1 .. Len(l), NEW j \in 1 .. Len(l), i <= j PROVE l[i].turn <= l[j].turn
    OBVIOUS
  <2>1. i = j \/ i < j
    OBVIOUS
  <2>2. i < j => l[i].turn < l[j].turn \/ l[i].turn = l[j].turn
    BY DEF LogShape, NotAfter
  <2> QED
    BY <1>4, <2>1, <2>2
<1>8. ASSUME NEW j \in 1 .. Len(l), j >= lo PROVE l[j].turn = l[lo].turn
  <2>1. l[lo].turn <= l[j].turn
    BY <1>3, <1>7, <1>8
  <2>2. l[j].turn > 0
    BY <1>3, <1>4, <1>5, <2>1
  <2>3. PICK s \in 1 .. j : l[s].kind = "turn/start" /\ l[s].turn = l[j].turn
    BY <2>2 DEF LogShape
  <2>4. s \in 1 .. Len(l) /\ s <= lo
    BY <1>2, <2>3 DEF Where
  <2>5. l[s].turn <= l[lo].turn
    BY <1>3, <1>7, <2>4
  <2> QED
    BY <1>3, <1>4, <2>1, <2>3, <2>4, <2>5
<1>9. \A j \in 1 .. Len(l) : l[j].kind = "turn/start" => j <= lo
  BY <1>2 DEF Where
<1> QED
  BY <1>3, <1>5, <1>6, <1>8, <1>9

\* The replay of that turn counts from its start.
LEMMA ReplayIndex ==
  ASSUME NEW l \in Seq(Entry), LogShape(l), Where(l, "turn/start", 1 .. Len(l)) # {}, piTurnIndex = 0,
         NEW lo, lo = Max(Where(l, "turn/start", 1 .. Len(l))), NEW k \in lo .. Len(l) + 1
  PROVE  IndexAt(l, lo, k) = Cardinality(StepsEnded(l, k - 1, l[lo].turn))
<1>1. /\ lo \in 1 .. Len(l) /\ l[lo].kind = "turn/start" /\ l[lo].turn > 0
      /\ \A j \in 1 .. Len(l) : /\ l[j].kind = "turn/start" => j <= lo
                                /\ j < lo => l[j].turn < l[lo].turn
                                /\ j >= lo => l[j].turn = l[lo].turn
  BY LastTurn
<1>2. Len(l) \in Nat /\ lo \in Nat /\ lo > 0 /\ k \in Nat /\ k - 1 \in 0 .. Len(l)
  BY <1>1
<1>3. \A j \in 1 .. Len(l) : l[j].turn \in Nat
  <2>1. \A j \in 1 .. Len(l) : l[j] \in Entry
    OBVIOUS
  <2> QED
    BY <2>1 DEF Entry
<1>4. StepsEnded(l, k - 1, l[lo].turn) = Where(l, "step/end", lo .. k - 1)
  <2>1. \A j \in 1 .. k - 1 : j \in 1 .. Len(l) /\ (j \in lo .. k - 1 <=> l[j].turn = l[lo].turn)
    BY <1>1, <1>2, <1>3
  <2>2. \A j \in lo .. k - 1 : j \in 1 .. k - 1
    BY <1>2
  <2> QED
    BY <2>1, <2>2 DEF StepsEnded, Where
<1>5. Cardinality(StepsEnded(l, k - 1, l[lo].turn)) \in Nat
  BY <1>2, StepsCounted
<1>6. CASE k = lo
  <2>1. Where(l, "turn/start", lo .. k - 1) = {}
    <3>1. lo .. k - 1 = {}
      BY <1>2, <1>6
    <3> QED
      BY <3>1 DEF Where
  <2>2. IndexAt(l, lo, k) = piTurnIndex + Cardinality(Where(l, "step/end", lo .. k - 1))
    BY <2>1, IndexFound, Zenon
  <2> QED
    BY <1>4, <1>5, <2>2
<1>7. CASE k > lo
  <2>1. Where(l, "turn/start", lo .. k - 1) = {lo}
    <3>1. \A j \in lo .. k - 1 : j \in 1 .. Len(l) /\ (l[j].kind = "turn/start" => j = lo)
      BY <1>1, <1>2
    <3>2. lo \in lo .. k - 1
      BY <1>2, <1>7
    <3> QED
      BY <1>1, <3>1, <3>2 DEF Where
  <2>2. Max({lo}) = lo
    <3>1. {lo} \in SUBSET (0 .. lo) /\ {lo} # {}
      BY <1>2
    <3> QED
      BY <1>2, <3>1, GreatestIsMax
  <2>3. Where(l, "turn/start", lo .. k - 1) # {}
    BY <2>1
  <2>4. IndexAt(l, lo, k) =
          0 + Cardinality(Where(l, "step/end", Max(Where(l, "turn/start", lo .. k - 1)) .. k - 1))
    BY <2>3, IndexFound, Zenon
  <2>5. IndexAt(l, lo, k) = 0 + Cardinality(StepsEnded(l, k - 1, l[lo].turn))
    BY <1>4, <2>1, <2>2, <2>4, Zenon
  <2> QED
    BY <1>5, <2>5
<1> QED
  BY <1>2, <1>6, <1>7

\* The replay numbers as the turn's own start would have it.
LEMMA LiveNumbers ==
  ASSUME log \in Seq(Entry), worker \in Worker, PlaceInv, IndexInv, GoLive
  PROVE  IndexInv'
<1> DEFINE starts == Where(log, "turn/start", 1 .. Len(log))
           ended == Where(log, "turn/end", 1 .. Len(log))
           open == starts # {} /\ \A k \in ended : k < Max(starts)
           lo == ReplayFrom
<1>1. /\ UNCHANGED <<host, worker, log, listening>> /\ mount' = "live" /\ piTurnIndex = 0
      /\ piTurnIndex' = IndexAt(log, lo, Len(log) + 1)
      /\ numbered' = numbered \cup
           {[at |-> k, index |-> IndexAt(log, lo, k)] :
              k \in Where(log, "step/start", lo .. Len(log)) \cup Where(log, "step/end", lo .. Len(log))}
  BY DEF GoLive, hostVars, Project, IndexInv
<1>2. /\ open => lo = Max(starts)
      /\ ~open => lo = Len(log) + 1
  BY DEF ReplayFrom, OpenTurnStart
<1>3. \A n \in numbered : Numbered(n, log)
  BY DEF IndexInv
<1>4. Len(log) \in Nat /\ worker.turn \in Nat /\ \A j \in 1 .. Len(log) : log[j].turn \in Nat
  <2>1. \A j \in 1 .. Len(log) : log[j] \in Entry
    OBVIOUS
  <2>2. \A j \in 1 .. Len(log) : log[j].turn \in Nat
    BY <2>1 DEF Entry
  <2>3. Len(log) \in Nat
    OBVIOUS
  <2>4. worker.turn \in Nat
    BY DEF Worker
  <2> QED
    BY <2>2, <2>3, <2>4
<1>5. ASSUME starts # {}, InTurn(worker)
      PROVE  worker.turn = log[Max(starts)].turn /\ open
  <2> DEFINE last == Max(starts)
  <2>1. /\ last \in 1 .. Len(log) /\ log[last].kind = "turn/start"
        /\ \A j \in 1 .. Len(log) : /\ log[j].kind = "turn/start" => j <= last
                                    /\ j < last => log[j].turn < log[last].turn
                                    /\ j >= last => log[j].turn = log[last].turn
    BY <1>5, LastTurn DEF PlaceInv
  <2> HIDE DEF last
  <2>2. PICK s \in 1 .. Len(log) : log[s].kind = "turn/start" /\ log[s].turn = worker.turn
    BY <1>5 DEF PlaceInv, AtEnd
  <2>3. log[s].turn <= log[last].turn
    BY <1>4, <2>1, <2>2
  <2>4. log[last].turn < worker.turn \/ log[last].turn = worker.turn
    BY <2>1 DEF PlaceInv, AtEnd, NotAfter
  <2>5. worker.turn = log[last].turn
    BY <1>4, <2>1, <2>2, <2>3, <2>4
  <2>6. ASSUME NEW k \in ended PROVE k < last
    <3>1. k \in 1 .. Len(log) /\ log[k].kind = "turn/end"
      BY DEF Where
    <3>2. log[k].turn # worker.turn
      BY <1>5, <3>1 DEF PlaceInv, AtEnd
    <3> QED
      BY <2>1, <2>5, <3>1, <3>2
  <2> QED
    BY <1>5, <2>5, <2>6 DEF last
<1>6. CASE open
  <2> HIDE DEF starts
  <2>1. /\ lo \in 1 .. Len(log)
        /\ \A j \in 1 .. Len(log) : j >= lo => log[j].turn = log[lo].turn
    BY <1>2, <1>6, LastTurn DEF PlaceInv, starts
  <2>2. \A k \in lo .. Len(log) + 1 : IndexAt(log, lo, k) = Cardinality(StepsEnded(log, k - 1, log[lo].turn))
    BY <1>1, <1>2, <1>6, ReplayIndex DEF PlaceInv, starts
  <2> HIDE DEF lo
  <2>3. Len(log) + 1 \in lo .. Len(log) + 1 /\ (Len(log) + 1) - 1 = Len(log)
    BY <1>4, <2>1
  <2>4. piTurnIndex' = Cardinality(StepsEnded(log, Len(log), log[lo].turn))
    BY <1>1, <2>2, <2>3
  <2>5. piTurnIndex' \in Nat
    BY <1>4, <2>4, StepsCounted
  <2>6. InTurn(worker) => worker.turn = log[lo].turn
    BY <1>2, <1>5, <1>6 DEF lo
  <2>7. ASSUME NEW n \in numbered' PROVE Numbered(n, log)
    <3>1. CASE n \in numbered
      BY <1>3, <3>1
    <3>2. CASE n \notin numbered
      <4>1. PICK k \in Where(log, "step/start", lo .. Len(log)) \cup Where(log, "step/end", lo .. Len(log)) :
              n = [at |-> k, index |-> IndexAt(log, lo, k)]
        BY <1>1, <3>2
      <4>2. k \in lo .. Len(log)
        BY DEF Where
      <4>3. k \in lo .. Len(log) + 1 /\ k \in 1 .. Len(log) /\ log[k].turn = log[lo].turn
        BY <1>4, <2>1, <4>2
      <4>4. n.at = k /\ n.index = Cardinality(StepsEnded(log, k - 1, log[k].turn))
        BY <2>2, <4>1, <4>3
      <4> QED
        BY <4>3, <4>4 DEF Numbered
    <3> QED
      BY <3>1, <3>2
  <2> QED
    BY <1>1, <2>4, <2>5, <2>6, <2>7 DEF IndexInv
<1>7. CASE ~open
  <2>1. ~InTurn(worker)
    <3>1. InTurn(worker) => starts # {}
      BY DEF PlaceInv, AtEnd, Where
    <3> QED
      BY <1>5, <1>7, <3>1
  <2> DEFINE hi == Len(log) + 1
  <2>2. /\ lo = hi /\ lo .. Len(log) = {} /\ lo .. hi - 1 = {}
    BY <1>2, <1>4, <1>7
  <2> HIDE DEF lo, hi
  <2>3. \A kind : Where(log, kind, {}) = {}
    BY DEF Where
  <2>4. IndexAt(log, lo, hi) = piTurnIndex + Cardinality(Where(log, "step/end", lo .. hi - 1))
    <3>1. Where(log, "turn/start", lo .. hi - 1) = {}
      BY <2>2, <2>3
    <3> QED
      BY <3>1, IndexFound, Zenon
  <2>5. piTurnIndex' = piTurnIndex + Cardinality({})
    BY <1>1, <2>2, <2>3, <2>4, Zenon DEF hi
  <2>6. piTurnIndex' = 0
    BY <1>1, <2>5, CountMore
  <2>7. numbered' = numbered
    BY <1>1, <2>2, <2>3
  <2> QED
    BY <1>1, <1>3, <2>1, <2>6, <2>7 DEF IndexInv
<1> QED
  BY <1>6, <1>7

\* Of the mount's other steps none counts, nor does the chain's work.
LEMMA IndexRests ==
  ASSUME log \in Seq(Entry), MountTyped, IndexInv, UNCHANGED <<worker, log, piTurnIndex, numbered>>,
         Subscribe \/ Unload \/ ShutDown \/ UNCHANGED <<mount, listening>>
  PROVE  IndexInv'
<1>1. /\ mount' = "loading" => mount = "loading"
      /\ mount' \in {"live", "closing"} /\ listening' => mount \in {"live", "closing"} /\ listening
  BY DEF Subscribe, Unload, ShutDown, MountTyped
<1> QED
  BY <1>1 DEF IndexInv

\* What the calls' events carry: ends are their own steps', numbers their own turns'.
ModelCallInv == PlaceInv /\ IndexInv /\ \A e \in ends : EndsOwn(e, log)

LEMMA CallStep ==
  ASSUME WorkerTyped, HearingInv, WorkerTyped', HearingInv', ModelCallInv, [ProjectionNext]_projectionVars PROVE ModelCallInv'
<1>1. /\ log \in Seq(Entry) /\ log' \in Seq(Entry) /\ worker \in Worker /\ worker' \in Worker /\ MountTyped
      /\ PlaceInv /\ IndexInv /\ LogShape(log)
  BY DEF WorkerTyped, HearingInv, MountTyped, ModelCallInv, PlaceInv
<1>2. CASE WorkerStep
  <2>1. PlaceInv'
    BY <1>1, <1>2, PlaceKept
  <2>2. Grown(log, log') /\ ends' = ends
    BY <1>1, <1>2, LoopGrows
  <2>3. \A e \in ends' : EndsOwn(e, log')
    BY <1>1, <2>2, EndsStay DEF ModelCallInv
  <2>4. IndexInv'
    <3>1. UNCHANGED <<mount, listening>>
      BY <1>1, <1>2, LoopSays
    <3>2. CASE \E e \in Entry : Says(e)
      BY <1>1, <3>1, <3>2, SaidIndex
    <3>3. CASE UNCHANGED <<log, piTurnIndex, numbered>> /\ worker'.turn = worker.turn /\ (InTurn(worker') => InTurn(worker))
      BY <1>1, <3>1, <3>3 DEF IndexInv
    <3> QED
      BY <1>1, <1>2, <3>2, <3>3, LoopSays
  <2> QED
    BY <2>1, <2>3, <2>4 DEF ModelCallInv
<1>3. ASSUME UNCHANGED <<worker, log>>, IndexInv', \A e \in ends' : e \in ends \/ EndsOwn(e, log) PROVE ModelCallInv'
  BY <1>3 DEF ModelCallInv, PlaceInv
<1>4. CASE Queue
  <2>1. UNCHANGED <<worker, log, piTurnIndex, numbered, mount, listening>>
    BY <1>4 DEF Queue, hostVars, indexVars, mountVars
  <2>2. ASSUME NEW e \in ends', e \notin ends PROVE EndsOwn(e, log)
    <3>1. /\ chain # <<>> /\ log[Head(chain)].kind = "step/end" /\ e = TurnEnd(Head(chain))
      BY <1>4, <2>2 DEF Queue, PassOver, Tell, TellThrows, BeforeReturns, Kind, First
    <3>2. Head(chain) \in 1 .. Len(log)
      <4>1. chain \in Seq(Nat) /\ \A i \in 1 .. Len(chain) : chain[i] \in 1 .. Len(log)
        BY DEF HearingInv, Queued, Waiting
      <4> QED
        BY <3>1, <4>1
    <3> QED
      BY <1>1, <3>1, <3>2, TurnEndsOwn
  <2> QED
    BY <1>1, <1>3, <2>1, <2>2, IndexRests
<1>5. CASE GoLive
  <2>1. UNCHANGED <<worker, log, ends>>
    BY <1>5 DEF GoLive, hostVars, Project
  <2> QED
    BY <1>1, <1>3, <1>5, <2>1, LiveNumbers
<1>6. CASE Subscribe \/ Unload \/ ShutDown \/ UNCHANGED projectionVars
  <2>1. /\ UNCHANGED <<worker, log, piTurnIndex, numbered, ends>>
        /\ Subscribe \/ Unload \/ ShutDown \/ UNCHANGED <<mount, listening>>
    BY <1>6 DEF Subscribe, Unload, ShutDown, projectionVars, hostVars, queueVars, indexVars, mountVars
  <2> QED
    BY <1>1, <1>3, <2>1, IndexRests
<1> QED
  BY <1>2, <1>4, <1>5, <1>6 DEF ProjectionNext, Mount

LEMMA CallKept == ProjectionSpec => []ModelCallInv
<1>1. ASSUME ProjectionInit PROVE ModelCallInv
  <2>1. log = <<>> /\ Len(log) = 0 /\ worker.at = "idle" /\ worker.turn = 0 /\ ~worker.streaming
    BY <1>1 DEF ProjectionInit
  <2>2. PlaceInv
    BY <2>1 DEF PlaceInv, LogShape, AtEnd, Streams, InStep, InTurn
  <2>3. IndexInv /\ ends = {}
    BY <1>1, <2>1 DEF ProjectionInit, IndexInv
  <2> QED
    BY <2>2, <2>3 DEF ModelCallInv
<1>2. ProjectionSpec => [](WorkerTyped /\ HearingInv)
  BY HearingKept
<1>3. WorkerTyped /\ HearingInv /\ (WorkerTyped /\ HearingInv)' /\ ModelCallInv /\ [ProjectionNext]_projectionVars => ModelCallInv'
  BY CallStep
<1> QED
  BY <1>1, <1>2, <1>3, PTL DEF ProjectionSpec

\* TurnEndIsItsOwn: turn_end carries the answer and the results of its own model
\* call, however far the loop is ahead of the chain (runtime.ts 2104-2119).
THEOREM TurnEndsAreOwn == ProjectionSpec => []TurnEndIsItsOwn
<1>1. ModelCallInv => TurnEndIsItsOwn
  BY DEF ModelCallInv, EndsOwn, StepAt, TurnEndIsItsOwn
<1> QED
  BY <1>1, CallKept, PTL

\* NumberedWithinPrompt: turn_start and turn_end carry the number of the call within
\* its prompt, for a package that came in the middle of one as well (2085-2103, 2300-2311).
THEOREM CallsAreNumbered == ProjectionSpec => []NumberedWithinPrompt
<1>1. ModelCallInv => NumberedWithinPrompt
  BY DEF ModelCallInv, IndexInv, Numbered, StepsEnded, NumberedWithinPrompt
<1> QED
  BY <1>1, CallKept, PTL

-----------------------------------------------------------------------------
(* A text is put together of one attempt's chunks.                         *)

Parts == Seq(Nat \X Nat)

\* The parts p are of one attempt, each once.
OneStream(p) == \A i, j \in 1 .. Len(p) : i < j => p[i][1] = p[j][1] /\ p[i][2] < p[j][2]

Chunk(l, k) == l[k].kind = "assistant/chunk"

\* A host that logs its chunks logs one attempt of a step.
ChunksInOrder(l) ==
  \A i, j \in 1 .. Len(l) : i < j /\ Chunk(l, i) /\ Chunk(l, j) /\ SameStep(l[i], l[j]) =>
    l[i].part[1] = l[j].part[1] /\ l[i].part[2] < l[j].part[2]

\* The parts p are those of chunks of the step e, logged before the place hi.
Drawn(p, e, l, hi) ==
  \A i \in 1 .. Len(p) : \E k \in 1 .. hi - 1 : Chunk(l, k) /\ SameStep(l[k], e) /\ l[k].part = p[i]

TextTyped ==
  /\ streams \in [attempt : Nat, turn : Nat, step : Nat, index : Nat, ended : BOOLEAN]
  /\ text \in [turn : Nat, step : Nat, parts : Parts]

\* No parts are of one attempt, and drawn from any log.
LEMMA NoParts == <<>> \in Parts /\ OneStream(<<>>) /\ \A e, l, hi : Drawn(<<>>, e, l, hi)
<1>1. Len(<<>>) = 0 /\ \A i \in 1 .. 0 : FALSE
  OBVIOUS
<1> QED
  BY <1>1 DEF Parts, OneStream, Drawn

\* What is before lo is before all that is not.
LEMMA BeforeAll ==
  \A lo, len \in Nat : \A n \in 1 .. lo - 1 : \A m \in 1 .. len : m >= lo => n \in 1 .. len /\ n < m
  OBVIOUS

\* What TextAt puts together: what was there of the step, and the step's chunks since.
LEMMA TextFound ==
  ASSUME NEW l \in Seq(Entry), NEW lo \in Nat, lo # 0, NEW k \in lo .. Len(l), Chunk(l, k), text.parts \in Parts
  PROVE  \E old \in Parts, s \in Seq(Nat) :
           /\ TextAt(l, lo, k) = old \o [i \in 1 .. Len(s) |-> l[s[i]].part]
           /\ old = <<>> \/ (old = text.parts /\ SameStep(text, l[k]))
           /\ Rising(s)
           /\ \A i \in 1 .. Len(s) : s[i] \in lo .. k /\ Chunk(l, s[i]) /\ SameStep(l[s[i]], l[k])
<1> DEFINE cuts  == {j \in lo .. k - 1 : l[j].kind = "assistant/message" \/ ~SameStep(l[j], l[k])}
           since == IF cuts = {} THEN lo ELSE Max(cuts) + 1
           new   == Where(l, "assistant/chunk", since .. k)
           s     == Ordered(new)
           old   == IF cuts = {} /\ SameStep(text, l[k]) THEN text.parts ELSE <<>>
<1>1. TextAt(l, lo, k) = old \o [i \in 1 .. Len(s) |-> l[s[i]].part]
  BY Zenon DEF TextAt
<1>2. Len(l) \in Nat /\ k \in Nat /\ k <= Len(l) /\ cuts \in SUBSET (0 .. k) /\ <<>> \in Parts
  BY DEF Parts
<1>3. since \in Nat /\ since >= lo /\ \A j \in since .. k - 1 : j \notin cuts
  <2>1. CASE cuts = {}
    BY <2>1
  <2>2. CASE cuts # {}
    <3>1. Max(cuts) \in cuts /\ \A j \in cuts : Max(cuts) >= j
      BY <1>2, <2>2, GreatestIsMax
    <3>2. since = Max(cuts) + 1
      BY <2>2
    <3> HIDE DEF since
    <3>3. Max(cuts) \in lo .. k - 1
      BY <3>1
    <3>4. since \in Nat /\ since >= lo
      BY <3>2, <3>3
    <3>5. ASSUME NEW j \in since .. k - 1 PROVE j \notin cuts
      <4>1. j \in Nat /\ j > Max(cuts)
        BY <3>2, <3>3, <3>4
      <4> QED
        BY <3>1, <3>3, <4>1
    <3> QED
      BY <3>4, <3>5
  <2> QED
    BY <2>1, <2>2
<1>4. \A j \in since .. k : j \in lo .. k /\ SameStep(l[j], l[k])
  <2> SUFFICES ASSUME NEW j \in since .. k PROVE j \in lo .. k /\ SameStep(l[j], l[k])
    OBVIOUS
  <2> HIDE DEF since
  <2>1. j \in lo .. k
    BY <1>2, <1>3
  <2>2. CASE j = k
    BY <2>1, <2>2 DEF SameStep
  <2>3. CASE j # k
    <3>1. j \in since .. k - 1 /\ j \in lo .. k - 1
      BY <1>2, <1>3, <2>1, <2>3
    <3> QED
      BY <1>3, <2>1, <3>1
  <2> QED
    BY <2>2, <2>3
<1> HIDE DEF since, cuts
<1>5. new \in SUBSET Nat /\ IsFiniteSet(new)
  <2>1. IsFiniteSet(since .. k) /\ new \in SUBSET (since .. k)
    BY <1>2, <1>3, FS_Interval DEF Where
  <2>2. IsFiniteSet(new)
    BY <2>1, FS_Subset
  <2> QED
    BY <1>2, <1>3, <2>1, <2>2
<1>6. s \in Seq(new) /\ Rising(s)
  BY <1>5, OrderedPlaces
<1>7. \A i \in 1 .. Len(s) : s[i] \in new
  <2> HIDE DEF s, new
  <2> QED
    BY <1>6
<1>8. s \in Seq(Nat)
  <2>1. \A i \in 1 .. Len(s) : s[i] \in Nat
    BY <1>5, <1>7
  <2> HIDE DEF s, new
  <2>2. s \in [1 .. Len(s) -> new] /\ Len(s) \in Nat
    BY <1>6
  <2>3. s \in [1 .. Len(s) -> Nat]
    BY <2>1, <2>2
  <2> QED
    BY <2>2, <2>3
<1>9. \A i \in 1 .. Len(s) : s[i] \in lo .. k /\ Chunk(l, s[i]) /\ SameStep(l[s[i]], l[k])
  <2>1. \A j \in new : j \in lo .. k /\ Chunk(l, j) /\ SameStep(l[j], l[k])
    BY <1>4 DEF Where, Chunk
  <2> HIDE DEF s, new
  <2> QED
    BY <1>7, <2>1
<1>10. old \in Parts /\ (old = <<>> \/ (old = text.parts /\ SameStep(text, l[k])))
  BY <1>2
<1> HIDE DEF s, old
<1> QED
  BY <1>1, <1>6, <1>8, <1>9, <1>10

LEMMA Joined ==
  ASSUME NEW p \in Parts, NEW q \in Parts
  PROVE  /\ p \o q \in Parts /\ Len(p \o q) = Len(p) + Len(q)
         /\ \A i \in 1 .. Len(p) : (p \o q)[i] = p[i]
         /\ \A i \in 1 .. Len(q) : (p \o q)[Len(p) + i] = q[i]
  BY DEF Parts

\* On a host that logs its chunks, and one attempt of a step, the text is of one attempt.
LEMMA TextSound ==
  ASSUME NEW l \in Seq(Entry), ChunksInOrder(l), NEW lo \in Nat, lo # 0, NEW k \in lo .. Len(l), Chunk(l, k),
         text.parts \in Parts, OneStream(text.parts), Drawn(text.parts, text, l, lo)
  PROVE  /\ TextAt(l, lo, k) \in Parts /\ OneStream(TextAt(l, lo, k))
         /\ Drawn(TextAt(l, lo, k), l[k], l, Len(l) + 1)
<1>1. PICK old \in Parts, s \in Seq(Nat) :
        /\ TextAt(l, lo, k) = old \o [i \in 1 .. Len(s) |-> l[s[i]].part]
        /\ old = <<>> \/ (old = text.parts /\ SameStep(text, l[k]))
        /\ Rising(s)
        /\ \A i \in 1 .. Len(s) : s[i] \in lo .. k /\ Chunk(l, s[i]) /\ SameStep(l[s[i]], l[k])
  BY TextFound
<1> DEFINE new == [i \in 1 .. Len(s) |-> l[s[i]].part]
           t == TextAt(l, lo, k)
<1>2. Len(l) \in Nat /\ Len(s) \in Nat /\ Len(old) \in Nat /\ k \in Nat /\ k <= Len(l)
  BY DEF Parts
<1>3. \A i \in 1 .. Len(s) : s[i] \in 1 .. Len(l) /\ s[i] >= lo
  <2>1. \A m \in lo .. k : m \in 1 .. Len(l) /\ m >= lo
    BY <1>2
  <2> QED
    BY <1>1, <2>1
<1>4. new \in Parts /\ Len(new) = Len(s) /\ \A i \in 1 .. Len(s) : new[i] = l[s[i]].part
  <2>1. \A j \in 1 .. Len(l) : l[j].part \in Nat \X Nat
    <3>1. \A j \in 1 .. Len(l) : l[j] \in Entry
      OBVIOUS
    <3> QED
      BY <3>1 DEF Entry
  <2>2. \A i \in 1 .. Len(s) : l[s[i]].part \in Nat \X Nat
    BY <1>3, <2>1
  <2> QED
    BY <1>2, <2>2 DEF Parts
<1> HIDE DEF new
<1>5. /\ t \in Parts /\ Len(t) = Len(old) + Len(s)
      /\ \A i \in 1 .. Len(old) : t[i] = old[i]
      /\ \A i \in 1 .. Len(s) : t[Len(old) + i] = new[i]
  <2>1. t = old \o new
    BY <1>1 DEF new
  <2>2. old \in Parts /\ new \in Parts /\ Len(new) = Len(s)
    BY <1>1, <1>4
  <2> HIDE DEF t
  <2>3. /\ old \o new \in Parts /\ Len(old \o new) = Len(old) + Len(new)
        /\ \A i \in 1 .. Len(old) : (old \o new)[i] = old[i]
        /\ \A i \in 1 .. Len(new) : (old \o new)[Len(old) + i] = new[i]
    BY <2>2, Joined
  <2> QED
    BY <2>1, <2>2, <2>3
<1> HIDE DEF t
<1>6. \A i \in 1 .. Len(t) : i \in 1 .. Len(old) \/ \E j \in 1 .. Len(s) : i = Len(old) + j
  <2> SUFFICES ASSUME NEW i \in 1 .. Len(t), i \notin 1 .. Len(old) PROVE \E j \in 1 .. Len(s) : i = Len(old) + j
    OBVIOUS
  <2>1. i - Len(old) \in 1 .. Len(s) /\ i = Len(old) + (i - Len(old))
    BY <1>2, <1>5
  <2> QED
    BY <2>1
\* The old parts are of the step as well, and come from before lo.
<1>7. ASSUME NEW i \in 1 .. Len(old)
      PROVE  \E n \in 1 .. lo - 1 : Chunk(l, n) /\ SameStep(l[n], l[k]) /\ l[n].part = old[i]
  <2>1. old # <<>>
    BY <1>2, <1>7
  <2>2. PICK n \in 1 .. lo - 1 : Chunk(l, n) /\ SameStep(l[n], text) /\ l[n].part = text.parts[i]
    BY <1>1, <1>7, <2>1 DEF Drawn
  <2> QED
    BY <1>1, <2>1, <2>2 DEF SameStep
<1>8. ASSUME NEW i \in 1 .. Len(s)
      PROVE  \E n \in lo .. Len(l) : n = s[i] /\ Chunk(l, n) /\ SameStep(l[n], l[k]) /\ l[n].part = new[i]
  <2>1. s[i] \in lo .. Len(l) /\ s[i] = s[i]
    BY <1>2, <1>3
  <2> QED
    BY <1>1, <1>4, <2>1
<1>9. Drawn(t, l[k], l, Len(l) + 1)
  <2> SUFFICES ASSUME NEW i \in 1 .. Len(t)
               PROVE  \E n \in 1 .. (Len(l) + 1) - 1 : Chunk(l, n) /\ SameStep(l[n], l[k]) /\ l[n].part = t[i]
    BY Zenon DEF Drawn
  <2>1. CASE i \in 1 .. Len(old)
    <3>1. PICK n \in 1 .. lo - 1 : Chunk(l, n) /\ SameStep(l[n], l[k]) /\ l[n].part = old[i]
      BY <1>7, <2>1
    <3>2. n \in 1 .. (Len(l) + 1) - 1
      BY <1>2
    <3> QED
      BY <1>5, <2>1, <3>1, <3>2
  <2>2. ASSUME NEW j \in 1 .. Len(s), i = Len(old) + j
        PROVE  \E n \in 1 .. (Len(l) + 1) - 1 : Chunk(l, n) /\ SameStep(l[n], l[k]) /\ l[n].part = t[i]
    <3>1. s[j] \in 1 .. (Len(l) + 1) - 1
      BY <1>2, <1>3
    <3> QED
      BY <1>1, <1>4, <1>5, <2>2, <3>1
  <2> QED
    BY <1>6, <2>1, <2>2
<1>10. OneStream(t)
  <2> SUFFICES ASSUME NEW i \in 1 .. Len(t), NEW j \in 1 .. Len(t), i < j
               PROVE  t[i][1] = t[j][1] /\ t[i][2] < t[j][2]
    BY DEF OneStream
  <2>1. CASE j \in 1 .. Len(old)
    <3>1. i \in 1 .. Len(old)
      BY <1>2, <1>5, <2>1
    <3>2. OneStream(old)
      BY <1>1, NoParts
    <3>3. old[i][1] = old[j][1] /\ old[i][2] < old[j][2]
      BY <2>1, <3>1, <3>2 DEF OneStream
    <3>4. t[i] = old[i] /\ t[j] = old[j]
      BY <1>5, <2>1, <3>1
    <3> QED
      BY <3>3, <3>4
  <2>2. ASSUME NEW b \in 1 .. Len(s), j = Len(old) + b
        PROVE  t[i][1] = t[j][1] /\ t[i][2] < t[j][2]
    <3>1. /\ t[j] = l[s[b]].part /\ Chunk(l, s[b]) /\ SameStep(l[s[b]], l[k])
          /\ s[b] \in 1 .. Len(l) /\ s[b] >= lo
      BY <1>1, <1>3, <1>4, <1>5, <2>2
    <3>2. ASSUME NEW n \in 1 .. Len(l), n < s[b], Chunk(l, n), SameStep(l[n], l[k]), t[i] = l[n].part
          PROVE  t[i][1] = t[j][1] /\ t[i][2] < t[j][2]
      <4>1. SameStep(l[n], l[s[b]])
        BY <3>1, <3>2 DEF SameStep
      <4>2. l[n].part[1] = l[s[b]].part[1] /\ l[n].part[2] < l[s[b]].part[2]
        BY <3>1, <3>2, <4>1 DEF ChunksInOrder
      <4> QED
        BY <3>1, <3>2, <4>2
    <3>3. CASE i \in 1 .. Len(old)
      <4>1. PICK n \in 1 .. lo - 1 : Chunk(l, n) /\ SameStep(l[n], l[k]) /\ l[n].part = old[i]
        BY <1>7, <3>3
      <4>2. n \in 1 .. Len(l) /\ n < s[b]
        <5>1. s[b] \in 1 .. Len(l) /\ s[b] >= lo
          BY <3>1
        <5> QED
          BY <1>2, <5>1, BeforeAll
      <4>3. t[i] = l[n].part
        BY <1>5, <3>3, <4>1
      <4> QED
        BY <3>2, <4>1, <4>2, <4>3
    <3>4. ASSUME NEW a \in 1 .. Len(s), i = Len(old) + a
          PROVE  t[i][1] = t[j][1] /\ t[i][2] < t[j][2]
      <4>1. a < b
        BY <1>2, <2>2, <3>4
      <4>2. /\ t[i] = l[s[a]].part /\ Chunk(l, s[a]) /\ SameStep(l[s[a]], l[k])
            /\ s[a] \in 1 .. Len(l) /\ s[a] < s[b]
        BY <1>1, <1>3, <1>4, <1>5, <3>4, <4>1 DEF Rising
      <4> QED
        BY <3>2, <4>2
    <3> QED
      BY <1>6, <3>3, <3>4
  <2> QED
    BY <1>6, <2>1, <2>2
<1> QED
  BY <1>5, <1>9, <1>10 DEF t

LEMMA DrawnGrows ==
  ASSUME NEW l \in Seq(Entry), NEW m \in Seq(Entry), Grown(l, m), NEW p, NEW e, NEW hi \in 1 .. Len(l) + 1,
         NEW top \in Nat, hi <= top, Drawn(p, e, l, hi)
  PROVE  Drawn(p, e, m, top)
<1> SUFFICES ASSUME NEW i \in 1 .. Len(p)
             PROVE  \E k \in 1 .. top - 1 : Chunk(m, k) /\ SameStep(m[k], e) /\ m[k].part = p[i]
  BY DEF Drawn
<1>1. PICK k \in 1 .. hi - 1 : Chunk(l, k) /\ SameStep(l[k], e) /\ l[k].part = p[i]
  BY DEF Drawn
<1>2. k \in 1 .. Len(l) /\ k \in 1 .. top - 1
  OBVIOUS
<1>3. m[k] = l[k]
  BY <1>2 DEF Grown
<1> QED
  BY <1>1, <1>2, <1>3 DEF Chunk

\* Projecting what is drawn from such a log keeps it so.
LEMMA ProjectsSound ==
  ASSUME NEW l \in Seq(Entry), ChunksInOrder(l), NEW lo \in 1 .. Len(l) + 1, Project(l, lo),
         TextTyped, OneStream(text.parts), Drawn(text.parts, text, l, lo), \A t \in said : OneStream(t)
  PROVE  /\ TextTyped' /\ OneStream(text'.parts) /\ Drawn(text'.parts, text', l, Len(l) + 1)
         /\ \A t \in said' : OneStream(t)
<1> DEFINE chunks == {k \in lo .. Len(l) : Counts(l, k)}
           newest == Max(chunks)
           ended  == {k \in lo .. Len(l) : l[k].kind = "assistant/message"}
           latest == IF chunks = {} THEN text
                     ELSE [turn |-> l[newest].turn, step |-> l[newest].step, parts |-> TextAt(l, lo, newest)]
<1>1. /\ said' = said \cup {TextAt(l, lo, k) : k \in chunks} /\ streams' = streams
      /\ text' = IF \E k \in ended : SameStep(l[k], latest) THEN NoText ELSE latest
  BY DEF Project, ProjectTexts
<1>2. Len(l) \in Nat /\ lo \in Nat /\ lo # 0 /\ text.parts \in Parts /\ text \in [turn : Nat, step : Nat, parts : Parts]
  BY DEF TextTyped
<1>3. \A k \in chunks : /\ TextAt(l, lo, k) \in Parts /\ OneStream(TextAt(l, lo, k))
                        /\ Drawn(TextAt(l, lo, k), l[k], l, Len(l) + 1)
  <2> SUFFICES ASSUME NEW k \in chunks
               PROVE  /\ TextAt(l, lo, k) \in Parts /\ OneStream(TextAt(l, lo, k))
                      /\ Drawn(TextAt(l, lo, k), l[k], l, Len(l) + 1)
    OBVIOUS
  <2>1. k \in lo .. Len(l) /\ Chunk(l, k)
    BY DEF Counts, Chunk
  <2> QED
    BY <1>2, <2>1, TextSound
<1>4. \A t \in said' : OneStream(t)
  BY <1>1, <1>3
<1>5. /\ latest \in [turn : Nat, step : Nat, parts : Parts] /\ OneStream(latest.parts)
      /\ Drawn(latest.parts, latest, l, Len(l) + 1)
  <2>1. CASE chunks = {}
    <3>1. latest = text
      BY <2>1
    <3>2. Grown(l, l)
      BY <1>2 DEF Grown
    <3>3. Drawn(text.parts, text, l, Len(l) + 1)
      BY <1>2, <3>2, DrawnGrows
    <3> HIDE DEF latest
    <3> QED
      BY <1>2, <3>1, <3>3
  <2>2. CASE chunks # {}
    <3>1. chunks \in SUBSET (0 .. Len(l))
      BY <1>2
    <3>2. newest \in chunks
      BY <1>2, <2>2, <3>1, GreatestIsMax
    <3>3. newest \in 1 .. Len(l)
      BY <1>2, <3>2
    <3>4. latest = [turn |-> l[newest].turn, step |-> l[newest].step, parts |-> TextAt(l, lo, newest)]
      BY <2>2
    <3> HIDE DEF newest, latest
    <3>5. l[newest].turn \in Nat /\ l[newest].step \in Nat
      <4>1. l[newest] \in Entry
        BY <3>3
      <4> QED
        BY <4>1 DEF Entry
    <3> HIDE DEF chunks
    <3>6. /\ latest.turn = l[newest].turn /\ latest.step = l[newest].step /\ latest.parts = TextAt(l, lo, newest)
          /\ latest \in [turn : Nat, step : Nat, parts : Parts]
      BY <1>3, <3>2, <3>4, <3>5
    <3>7. Drawn(latest.parts, latest, l, Len(l) + 1)
      <4>1. Drawn(latest.parts, l[newest], l, Len(l) + 1)
        BY <1>3, <3>2, <3>6
      <4>2. \A k : SameStep(l[k], l[newest]) <=> SameStep(l[k], latest)
        BY <3>6 DEF SameStep
      <4> QED
        BY <4>1, <4>2 DEF Drawn
    <3> QED
      BY <1>3, <3>2, <3>6, <3>7
  <2> QED
    BY <2>1, <2>2
<1>6. NoText \in [turn : Nat, step : Nat, parts : Parts] /\ NoText.parts = <<>>
  BY NoParts DEF NoText
<1> HIDE DEF latest
<1>7. CASE text' = latest
  BY <1>1, <1>4, <1>5, <1>7 DEF TextTyped
<1>8. CASE text' = NoText
  BY <1>1, <1>4, <1>6, <1>8, NoParts DEF TextTyped
<1> QED
  BY <1>1, <1>7, <1>8

\* Projecting no chunk leaves the text, or ends it.
LEMMA ProjectsQuiet ==
  ASSUME NEW l, NEW lo, Project(l, lo), \A k \in lo .. Len(l) : ~Counts(l, k)
  PROVE  streams' = streams /\ said' = said /\ text' \in {text, NoText}
<1> DEFINE chunks == {k \in lo .. Len(l) : Counts(l, k)}
<1>1. chunks = {}
  OBVIOUS
<1>2. said' = said \cup {TextAt(l, lo, k) : k \in chunks}
  BY DEF Project, ProjectTexts
<1>3. text' \in {text, NoText}
  BY <1>1 DEF Project, ProjectTexts
<1> HIDE DEF chunks
<1>4. said' = said
  BY <1>1, <1>2
<1> QED
  BY <1>3, <1>4 DEF Project

\* On a host with frames the text of the stream is the stream's.
FrameTexts ==
  /\ streams.attempt = worker.attempt
  /\ SameStep(text, streams) /\ ~streams.ended =>
       \A i \in 1 .. Len(text.parts) : text.parts[i][1] = streams.attempt /\ text.parts[i][2] <= streams.index

\* On a host without frames it is drawn from the log.
LogTexts ==
  /\ mount = "loading" => text.parts = <<>>
  /\ ChunksInOrder(log) /\ Drawn(text.parts, text, log, Len(log) + 1)
  /\ worker.streaming => \A k \in 1 .. Len(log) : Chunk(log, k) /\ SameStep(log[k], worker) =>
                           log[k].part[1] = worker.attempt /\ log[k].part[2] <= worker.sent

TextInv ==
  /\ TextTyped /\ OneStream(text.parts) /\ \A t \in said : OneStream(t)
  /\ (\E k \in 1 .. Len(log) : Chunk(log, k)) => worker.attempt > 0
  /\ worker.at = "copying" => host # "log"
  /\ IF host = "log" THEN LogTexts ELSE FrameTexts

\* The loop logs e; a chunk while it streams, and of its step.
Puts(e) ==
  /\ e \in Entry /\ log' = Append(log, e) /\ Heard(log') /\ worker'.attempt = worker.attempt
  /\ e.kind = "assistant/chunk" => worker.streaming /\ SameStep(e, worker)
  /\ worker'.streaming => worker.streaming /\ SameStep(worker', worker)
  /\ host = "log" => IF e.kind = "assistant/chunk"
                     THEN e.part = <<worker.attempt, worker.sent + 1>> /\ worker'.sent = worker.sent + 1
                     ELSE worker'.sent = worker.sent
  /\ worker'.at # "copying"

LEMMA LoopPuts ==
  ASSUME log \in Seq(Entry), worker \in Worker, PlaceInv, worker.at = "copying" => host # "log",
         \/ OpenTurn \/ OpenStep \/ LogChunk \/ LogSecond \/ Answer \/ ToolEnds
         \/ CloseStep \/ CloseTurn \/ Compact \/ Summarize,
         worker.at = "copying" => ~LogChunk
  PROVE  UNCHANGED <<host, mount, listening>> /\ \E e \in Entry : Puts(e)
<1> DEFINE Goal == UNCHANGED <<host, mount, listening>> /\ \E e \in Entry : Puts(e)
<1> SUFFICES Goal
  OBVIOUS
<1>1. /\ worker.turn \in Nat /\ worker.step \in Nat /\ worker.attempt \in Nat /\ worker.sent \in Nat
      /\ NoPart \in Nat \X Nat
  BY DEF Worker, NoPart
<1>2. ASSUME NEW kind \in Kinds, kind # "assistant/chunk", NEW turn \in Nat, NEW step \in Nat,
             Logged(kind, turn, step, NoPart), UNCHANGED <<host, mount, listening>>,
             ~worker'.streaming, worker'.attempt = worker.attempt, worker'.sent = worker.sent, worker'.at # "copying"
      PROVE  Goal
  <2> DEFINE e == [kind |-> kind, turn |-> turn, step |-> step, part |-> NoPart]
  <2>1. e \in Entry /\ log' = Append(log, e) /\ Heard(log') /\ e.kind = kind
    BY <1>1, <1>2 DEF Logged, Entry
  <2> HIDE DEF e
  <2>2. Puts(e)
    BY <1>2, <2>1 DEF Puts
  <2> QED
    BY <1>2, <2>1, <2>2
<1>3. ASSUME NEW i \in Nat, Logged("assistant/chunk", worker.turn, worker.step, <<worker.attempt, i>>),
             UNCHANGED <<host, mount, listening>>, worker.streaming, worker'.turn = worker.turn,
             worker'.step = worker.step, worker'.attempt = worker.attempt, worker'.at # "copying",
             host = "log" => i = worker.sent + 1 /\ worker'.sent = worker.sent + 1
      PROVE  Goal
  <2> DEFINE e == [kind |-> "assistant/chunk", turn |-> worker.turn, step |-> worker.step,
                   part |-> <<worker.attempt, i>>]
  <2>1. /\ e \in Entry /\ log' = Append(log, e) /\ Heard(log') /\ e.kind = "assistant/chunk"
        /\ e.turn = worker.turn /\ e.step = worker.step /\ e.part = <<worker.attempt, i>>
    BY <1>1, <1>3 DEF Logged, Entry, Kinds
  <2> HIDE DEF e
  <2>2. SameStep(e, worker) /\ SameStep(worker', worker)
    BY <1>3, <2>1 DEF SameStep
  <2>3. Puts(e)
    BY <1>3, <2>1, <2>2 DEF Puts
  <2> QED
    BY <1>3, <2>1, <2>3
<1> HIDE DEF Goal
<1>4. CASE OpenTurn
  <2>1. /\ worker.at = "idle" /\ worker' = [worker EXCEPT !.at = "turn", !.turn = @ + 1, !.step = 0]
        /\ Logged("turn/start", worker.turn + 1, 0, NoPart) /\ UNCHANGED <<host, mount, listening>>
    BY <1>4 DEF OpenTurn, mountVars
  <2>2. ~worker.streaming
    BY <2>1 DEF PlaceInv, Streams
  <2>3. /\ ~worker'.streaming /\ worker'.attempt = worker.attempt /\ worker'.sent = worker.sent
        /\ worker'.at = "turn" /\ worker.turn + 1 \in Nat
    BY <1>1, <2>1, <2>2 DEF Worker
  <2>4. "turn/start" \in Kinds /\ 0 \in Nat
    BY DEF Kinds
  <2> QED
    BY <1>2, <2>1, <2>3, <2>4
<1>5. CASE OpenStep
  <2>1. /\ worker.at = "turn" /\ worker' = [worker EXCEPT !.at = "step", !.step = @ + 1]
        /\ Logged("step/start", worker.turn, worker.step + 1, NoPart) /\ UNCHANGED <<host, mount, listening>>
    BY <1>5 DEF OpenStep, mountVars
  <2>2. ~worker.streaming
    BY <2>1 DEF PlaceInv, Streams
  <2>3. /\ ~worker'.streaming /\ worker'.attempt = worker.attempt /\ worker'.sent = worker.sent
        /\ worker'.at = "step" /\ worker.step + 1 \in Nat
    BY <1>1, <2>1, <2>2 DEF Worker
  <2>4. "step/start" \in Kinds
    BY DEF Kinds
  <2> QED
    BY <1>1, <1>2, <2>1, <2>3, <2>4
<1>6. CASE LogChunk
  <2>1. /\ worker.streaming /\ worker' = [worker EXCEPT !.sent = @ + 1] /\ UNCHANGED <<host, mount, listening>>
        /\ Logged("assistant/chunk", worker.turn, worker.step, <<worker.attempt, worker.sent + 1>>)
    BY <1>6 DEF LogChunk, mountVars
  <2>2. /\ worker'.turn = worker.turn /\ worker'.step = worker.step /\ worker'.attempt = worker.attempt
        /\ worker'.sent = worker.sent + 1 /\ worker'.at # "copying" /\ worker.sent + 1 \in Nat
    BY <1>1, <1>6, <2>1 DEF Worker
  <2> QED
    BY <1>3, <2>1, <2>2
<1>7. CASE LogSecond
  <2>1. /\ worker.at = "copying" /\ worker' = [worker EXCEPT !.at = "step"] /\ UNCHANGED <<host, mount, listening>>
        /\ Logged("assistant/chunk", worker.turn, worker.step, <<worker.attempt, worker.sent>>)
    BY <1>7 DEF LogSecond, LoopGoes, mountVars
  <2>2. /\ worker'.turn = worker.turn /\ worker'.step = worker.step /\ worker'.attempt = worker.attempt
        /\ worker'.at # "copying"
    BY <2>1 DEF Worker
  <2>3. worker.streaming /\ host # "log"
    BY <2>1 DEF PlaceInv
  <2> QED
    BY <1>1, <1>3, <2>1, <2>2, <2>3
<1>8. ASSUME NEW kind \in Kinds, kind # "assistant/chunk", Logs(kind), ~worker.streaming,
             worker'.streaming = worker.streaming, worker'.attempt = worker.attempt, worker'.sent = worker.sent,
             worker'.at # "copying"
      PROVE  Goal
  <2>1. Logged(kind, worker.turn, worker.step, NoPart) /\ UNCHANGED <<host, mount, listening>>
    BY <1>8 DEF Logs, mountVars
  <2> QED
    BY <1>1, <1>2, <1>8, <2>1
<1>9. CASE Answer \/ ToolEnds \/ CloseStep \/ CloseTurn
  <2>1. /\ ~worker.streaming \/ worker.at \in {"answering", "answered", "turn"}
        /\ \E at \in {"answered", "called", "turn", "idle"} : worker' = [worker EXCEPT !.at = at]
        /\ \E kind \in {"assistant/message", "tool/result", "step/end", "turn/end"} : Logs(kind)
    BY <1>9 DEF Answer, ToolEnds, CloseStep, CloseTurn, LoopGoes
  <2>2. ~worker.streaming
    BY <2>1 DEF PlaceInv, Streams
  <2>3. /\ worker'.streaming = worker.streaming /\ worker'.attempt = worker.attempt /\ worker'.sent = worker.sent
        /\ worker'.at # "copying"
    BY <2>1 DEF Worker
  <2>4. PICK kind \in {"assistant/message", "tool/result", "step/end", "turn/end"} : Logs(kind)
    BY <2>1
  <2>5. kind \in Kinds /\ kind # "assistant/chunk"
    BY DEF Kinds
  <2> QED
    BY <1>8, <2>2, <2>3, <2>4, <2>5
<1>10. CASE Compact
  <2>1. /\ worker.at \in {"idle", "turn"} /\ Logs("compaction/start")
        /\ worker' = [worker EXCEPT !.at = "compacting", !.resume = worker.at, !.compactions = @ + 1]
    BY <1>10 DEF Compact
  <2>2. /\ worker'.streaming = worker.streaming /\ worker'.attempt = worker.attempt /\ worker'.sent = worker.sent
        /\ worker'.at # "copying"
    BY <2>1 DEF Worker
  <2>3. "compaction/start" \in Kinds /\ ~worker.streaming
    BY <2>1 DEF Kinds, PlaceInv, Streams
  <2> QED
    BY <1>8, <2>1, <2>2, <2>3
<1>11. CASE Summarize
  <2>1. /\ worker.at = "compacting" /\ Logs("compaction/summary") /\ worker' = [worker EXCEPT !.at = worker.resume]
    BY <1>11 DEF Summarize, LoopGoes
  <2>2. /\ worker'.streaming = worker.streaming /\ worker'.attempt = worker.attempt /\ worker'.sent = worker.sent
        /\ worker'.at = worker.resume /\ worker.resume \in {"idle", "turn"}
    BY <2>1 DEF Worker
  <2>3. "compaction/summary" \in Kinds /\ ~worker.streaming
    BY <2>1 DEF Kinds, PlaceInv, Streams
  <2> QED
    BY <1>8, <2>1, <2>2, <2>3
<1> QED
  BY <1>4, <1>5, <1>6, <1>7, <1>9, <1>10, <1>11

LEMMA LoggedTexts ==
  ASSUME log \in Seq(Entry), log' \in Seq(Entry), worker \in Worker, Streams(worker), TextInv, host = "log",
         UNCHANGED <<host, mount, listening>>, NEW e \in Entry, Puts(e)
  PROVE  TextInv'
<1> DEFINE last == Len(log) + 1
<1>1. /\ Len(log) \in Nat /\ Len(log') = last /\ log'[last] = e
      /\ \A i \in 1 .. Len(log) : log'[i] = log[i] /\ i # last
  BY DEF Puts
<1>2. Grown(log, log')
  BY <1>1 DEF Grown
<1>3. \A i \in 1 .. last : i \in 1 .. Len(log) \/ i = last
  BY <1>1
<1>4. /\ TextTyped /\ OneStream(text.parts) /\ \A t \in said : OneStream(t)
      /\ (\E k \in 1 .. Len(log) : Chunk(log, k)) => worker.attempt > 0
      /\ mount = "loading" => text.parts = <<>>
      /\ ChunksInOrder(log) /\ Drawn(text.parts, text, log, last)
      /\ worker.streaming => \A k \in 1 .. Len(log) : Chunk(log, k) /\ SameStep(log[k], worker) =>
                               log[k].part[1] = worker.attempt /\ log[k].part[2] <= worker.sent
  BY DEF TextInv, LogTexts
<1>5. /\ worker.attempt \in Nat /\ worker.sent \in Nat /\ worker'.attempt = worker.attempt
      /\ Chunk(log', last) => /\ worker.streaming /\ SameStep(e, worker) /\ worker.attempt > 0
                              /\ e.part = <<worker.attempt, worker.sent + 1>> /\ worker'.sent = worker.sent + 1
      /\ ~Chunk(log', last) => worker'.sent = worker.sent
  BY <1>1 DEF Puts, Streams, Worker, Chunk
<1>6. \A k \in 1 .. Len(log) : log[k].part[1] \in Nat /\ log[k].part[2] \in Nat
  <2>1. \A k \in 1 .. Len(log) : log[k] \in Entry
    OBVIOUS
  <2>2. \A k \in 1 .. Len(log) : log[k].part \in Nat \X Nat
    BY <2>1 DEF Entry
  <2> QED
    BY <2>2
<1>7. (\E k \in 1 .. Len(log') : Chunk(log', k)) => worker'.attempt > 0
  BY <1>1, <1>3, <1>4, <1>5 DEF Chunk
<1>8. ChunksInOrder(log')
  <2> SUFFICES ASSUME NEW i \in 1 .. Len(log'), NEW j \in 1 .. Len(log'), i < j, Chunk(log', i), Chunk(log', j),
                      SameStep(log'[i], log'[j])
               PROVE  log'[i].part[1] = log'[j].part[1] /\ log'[i].part[2] < log'[j].part[2]
    BY DEF ChunksInOrder
  <2>1. i \in 1 .. Len(log) /\ log'[i] = log[i] /\ Chunk(log, i)
    BY <1>1, <1>3 DEF Chunk
  <2>2. CASE j \in 1 .. Len(log)
    <3>1. log'[j] = log[j] /\ Chunk(log, j)
      BY <1>1, <2>2 DEF Chunk
    <3>2. log[i].part[1] = log[j].part[1] /\ log[i].part[2] < log[j].part[2]
      BY <1>4, <2>1, <2>2, <3>1 DEF ChunksInOrder
    <3> QED
      BY <2>1, <3>1, <3>2
  <2>3. CASE j = last
    <3>1. log'[j] = e /\ SameStep(e, worker) /\ worker.streaming
      BY <1>1, <1>5, <2>3
    <3>2. SameStep(log[i], worker)
      BY <2>1, <3>1 DEF SameStep
    <3>3. log[i].part[1] = worker.attempt /\ log[i].part[2] <= worker.sent
      BY <1>4, <2>1, <3>1, <3>2
    <3>4. e.part[1] = worker.attempt /\ e.part[2] = worker.sent + 1
      BY <1>5, <2>3
    <3>5. log[i].part[2] < worker.sent + 1
      BY <1>5, <1>6, <2>1, <3>3
    <3> QED
      BY <2>1, <3>1, <3>3, <3>4, <3>5
  <2> QED
    BY <1>1, <1>3, <2>2, <2>3
<1>9. ASSUME worker'.streaming, NEW k \in 1 .. Len(log'), Chunk(log', k), SameStep(log'[k], worker')
      PROVE  log'[k].part[1] = worker'.attempt /\ log'[k].part[2] <= worker'.sent
  <2>1. worker.streaming /\ SameStep(log'[k], worker)
    BY <1>9 DEF Puts, SameStep
  <2>2. CASE k \in 1 .. Len(log)
    <3>1. log'[k] = log[k] /\ Chunk(log, k)
      BY <1>1, <1>9, <2>2 DEF Chunk
    <3>2. log[k].part[1] = worker.attempt /\ log[k].part[2] <= worker.sent
      BY <1>4, <2>1, <2>2, <3>1
    <3>3. worker'.sent = worker.sent \/ worker'.sent = worker.sent + 1
      BY <1>5
    <3>4. log[k].part[2] <= worker'.sent
      BY <1>5, <1>6, <2>2, <3>2, <3>3
    <3> QED
      BY <1>5, <3>1, <3>2, <3>4
  <2>3. CASE k = last
    <3>1. log'[k] = e /\ e.part[1] = worker.attempt /\ e.part[2] = worker.sent + 1 /\ worker'.sent = worker.sent + 1
      BY <1>1, <1>5, <1>9, <2>3
    <3> QED
      BY <1>5, <3>1
  <2> QED
    BY <1>1, <1>3, <2>2, <2>3
<1>10. Drawn(text.parts, text, log', last) /\ Drawn(text.parts, text, log', last + 1)
  BY <1>1, <1>2, <1>4, DrawnGrows
<1>11. /\ TextTyped' /\ OneStream(text'.parts) /\ Drawn(text'.parts, text', log', Len(log') + 1)
       /\ \A t \in said' : OneStream(t)
  <2>1. CASE Project(log', Len(log'))
    <3>1. Len(log') \in 1 .. Len(log') + 1
      BY <1>1
    <3> QED
      BY <1>1, <1>4, <1>8, <1>10, <2>1, <3>1, ProjectsSound
  <2>2. CASE UNCHANGED streamVars
    <3>1. streams' = streams /\ text' = text /\ said' = said
      BY <2>2 DEF streamVars
    <3> QED
      BY <1>1, <1>4, <1>10, <3>1 DEF TextTyped
  <2> QED
    BY <2>1, <2>2 DEF Puts, Heard
<1>12. mount' = "loading" => text'.parts = <<>>
  <2>1. mount = "loading" => text' = text
    BY DEF Puts, Heard, streamVars
  <2> QED
    BY <1>4, <2>1
<1> QED
  BY <1>7, <1>8, <1>9, <1>11, <1>12 DEF TextInv, LogTexts, Puts

\* What a text of no parts is, and what ends a text leaves of it.
LEMMA QuietTexts ==
  ASSUME TextTyped, OneStream(text.parts), \A t \in said : OneStream(t), FrameTexts,
         streams' = streams, said' = said, text' \in {text, NoText}, worker'.attempt = worker.attempt,
         worker'.at # "copying" \/ host' # "log", host' # "log",
         (\E k \in 1 .. Len(log') : Chunk(log', k)) => worker'.attempt > 0
  PROVE  TextInv'
<1>1. NoText \in [turn : Nat, step : Nat, parts : Parts] /\ NoText.parts = <<>> /\ Len(<<>>) = 0
  BY DEF NoText, Parts
<1>2. CASE text' = text
  <2>1. TextTyped' /\ OneStream(text'.parts) /\ FrameTexts'
    BY <1>2 DEF TextTyped, FrameTexts, SameStep
  <2> QED
    BY <2>1 DEF TextInv
<1>3. CASE text' = NoText
  <2>1. TextTyped' /\ OneStream(text'.parts) /\ FrameTexts'
    BY <1>1, <1>3 DEF TextTyped, FrameTexts, OneStream
  <2> QED
    BY <2>1 DEF TextInv
<1> QED
  BY <1>2, <1>3

\* On a host with frames a chunk in the log is not projected: its stream is known.
LEMMA FramedTexts ==
  ASSUME log \in Seq(Entry), worker \in Worker, Streams(worker), TextInv, host # "log",
         UNCHANGED <<host, mount, listening>>, NEW e \in Entry, Puts(e)
  PROVE  TextInv'
<1> DEFINE last == Len(log) + 1
<1>1. /\ Len(log) \in Nat /\ Len(log') = last /\ log'[last] = e
      /\ \A i \in 1 .. Len(log) : log'[i] = log[i]
  BY DEF Puts
<1>2. \A i \in 1 .. last : i \in 1 .. Len(log) \/ i = last
  BY <1>1
<1>3. (\E k \in 1 .. Len(log') : Chunk(log', k)) => worker.attempt > 0
  <2> SUFFICES ASSUME NEW k \in 1 .. Len(log'), Chunk(log', k) PROVE worker.attempt > 0
    OBVIOUS
  <2>1. CASE k \in 1 .. Len(log)
    BY <1>1, <2>1 DEF TextInv, Chunk
  <2>2. CASE k = last
    BY <1>1, <2>2 DEF Puts, Streams, Chunk
  <2> QED
    BY <1>1, <1>2, <2>1, <2>2
<1>4. TextTyped /\ OneStream(text.parts) /\ (\A t \in said : OneStream(t)) /\ FrameTexts
  BY DEF TextInv
<1>5. streams' = streams /\ said' = said /\ text' \in {text, NoText}
  <2>1. CASE Project(log', Len(log'))
    <3>1. ASSUME NEW k \in Len(log') .. Len(log'), Counts(log', k) PROVE FALSE
      <4>1. k \in 1 .. Len(log') /\ Chunk(log', k) /\ streams = NoStream
        BY <1>1, <3>1 DEF Counts, Chunk
      <4>2. worker.attempt > 0 /\ streams.attempt = worker.attempt
        BY <1>3, <1>4, <4>1 DEF FrameTexts
      <4> QED
        BY <4>1, <4>2 DEF NoStream
    <3> QED
      BY <2>1, <3>1, ProjectsQuiet
  <2>2. CASE UNCHANGED streamVars
    BY <2>2 DEF streamVars
  <2> QED
    BY <2>1, <2>2 DEF Puts, Heard
<1>6. worker'.attempt = worker.attempt /\ worker'.at # "copying" /\ host' # "log"
  BY DEF Puts
<1> QED
  BY <1>3, <1>4, <1>5, <1>6, QuietTexts

\* A chunk that comes as a frame, again or for the first time, is added once and to its own attempt.
LEMMA FrameAdds ==
  ASSUME TextTyped, OneStream(text.parts), \A t \in said : OneStream(t), FrameTexts,
         NEW a \in Nat, NEW i \in Nat, FrameChunk(a, i), worker'.attempt = worker.attempt
  PROVE  TextTyped' /\ OneStream(text'.parts) /\ (\A t \in said' : OneStream(t)) /\ FrameTexts'
<1>1. CASE ~FreshChunk(a, i)
  <2>1. streams' = streams /\ text' = text /\ said' = said
    BY <1>1 DEF FrameChunk, streamVars
  <2> QED
    BY <2>1 DEF TextTyped, FrameTexts, SameStep
<1>2. CASE FreshChunk(a, i)
  <2> DEFINE had   == IF SameStep(text, streams) THEN text.parts ELSE <<>>
             parts == Append(had, <<a, i>>)
  <2>1. /\ streams.attempt = a /\ ~streams.ended /\ i > streams.index /\ streams.index \in Nat
        /\ streams.turn \in Nat /\ streams.step \in Nat
    BY <1>2 DEF FreshChunk, TextTyped
  <2>2. /\ streams' = [streams EXCEPT !.index = i]
        /\ IF subscribed
           THEN text' = [turn |-> streams.turn, step |-> streams.step, parts |-> parts] /\ said' = said \cup {parts}
           ELSE text' = text /\ said' = said
    BY <1>2 DEF FrameChunk
  <2>3. /\ streams' \in [attempt : Nat, turn : Nat, step : Nat, index : Nat, ended : BOOLEAN]
        /\ streams'.attempt = a /\ streams'.index = i /\ streams'.turn = streams.turn /\ streams'.step = streams.step
        /\ streams'.ended = streams.ended
    BY <2>1, <2>2 DEF TextTyped
  <2>4. /\ had \in Parts /\ OneStream(had)
        /\ \A n \in 1 .. Len(had) : had[n][1] = a /\ had[n][2] <= streams.index
    <3>1. <<>> \in Parts /\ Len(<<>>) = 0
      BY DEF Parts
    <3>2. CASE SameStep(text, streams)
      <4>1. had = text.parts
        BY <3>2
      <4> HIDE DEF had
      <4>2. \A n \in 1 .. Len(text.parts) : text.parts[n][1] = streams.attempt /\ text.parts[n][2] <= streams.index
        BY <2>1, <3>2 DEF FrameTexts
      <4>3. text.parts \in Parts
        BY DEF TextTyped
      <4> QED
        BY <2>1, <4>1, <4>2, <4>3
    <3>3. CASE ~SameStep(text, streams)
      <4>1. had = <<>>
        BY <3>3
      <4> HIDE DEF had
      <4> QED
        BY <3>1, <4>1 DEF OneStream
    <3> QED
      BY <3>2, <3>3
  <2> HIDE DEF had
  <2>5. /\ parts \in Parts /\ Len(parts) = Len(had) + 1 /\ Len(had) \in Nat
        /\ parts[Len(parts)] = <<a, i>> /\ \A n \in 1 .. Len(had) : parts[n] = had[n] /\ had[n] \in Nat \X Nat
    BY <2>4 DEF Parts
  <2> HIDE DEF parts
  <2>6. Len(parts) = Len(had) + 1 /\ Len(had) \in Nat
    BY <2>5
  <2>7. \A n \in 1 .. Len(parts) : n \in 1 .. Len(had) \/ n = Len(parts)
    BY <2>6
  <2>8. \A n \in 1 .. Len(parts) : /\ parts[n][1] = a /\ parts[n][2] <= i
                                   /\ n \in 1 .. Len(had) => parts[n][2] < i
    <3> SUFFICES ASSUME NEW n \in 1 .. Len(parts)
                 PROVE  parts[n][1] = a /\ parts[n][2] <= i /\ (n \in 1 .. Len(had) => parts[n][2] < i)
      OBVIOUS
    <3>1. CASE n \in 1 .. Len(had)
      <4>1. parts[n] = had[n] /\ had[n] \in Nat \X Nat /\ had[n][1] = a /\ had[n][2] <= streams.index
        BY <2>4, <2>5, <3>1
      <4>2. had[n][2] \in Nat
        BY <4>1
      <4> QED
        BY <2>1, <4>1, <4>2
    <3>2. CASE n = Len(parts)
      <4>1. parts[n][1] = a /\ parts[n][2] = i /\ n \notin 1 .. Len(had)
        BY <2>5, <3>2
      <4> QED
        BY <4>1
    <3> QED
      BY <2>7, <3>1, <3>2
  <2>9. OneStream(parts)
    <3> SUFFICES ASSUME NEW n \in 1 .. Len(parts), NEW m \in 1 .. Len(parts), n < m
                 PROVE  parts[n][1] = parts[m][1] /\ parts[n][2] < parts[m][2]
      BY DEF OneStream
    <3>1. n \in 1 .. Len(had)
      BY <2>6
    <3>2. CASE m \in 1 .. Len(had)
      <4>1. had[n][2] < had[m][2]
        BY <2>4, <3>1, <3>2 DEF OneStream
      <4> QED
        BY <2>5, <2>8, <3>1, <3>2, <4>1
    <3>3. CASE m = Len(parts)
      <4>1. parts[m][2] = i /\ parts[m][1] = a
        BY <2>5, <3>3
      <4> QED
        BY <2>8, <3>1, <4>1
    <3> QED
      BY <2>7, <3>2, <3>3
  <2>10. worker'.attempt = streams'.attempt
    BY <2>1, <2>3 DEF FrameTexts
  <2>11. CASE subscribed
    <3>1. /\ text'.turn = streams.turn /\ text'.step = streams.step /\ text'.parts = parts
          /\ text' \in [turn : Nat, step : Nat, parts : Parts] /\ said' = said \cup {parts}
      BY <2>1, <2>2, <2>5, <2>11
    <3> QED
      BY <2>3, <2>8, <2>9, <2>10, <3>1 DEF TextTyped, FrameTexts
  <2>12. CASE ~subscribed
    <3>1. text' = text /\ said' = said
      BY <2>2, <2>12
    <3>2. ASSUME SameStep(text', streams'), ~streams'.ended, NEW n \in 1 .. Len(text'.parts)
          PROVE  text'.parts[n][1] = streams'.attempt /\ text'.parts[n][2] <= streams'.index
      <4>1. SameStep(text, streams)
        BY <2>3, <3>1, <3>2 DEF SameStep
      <4>2. text.parts[n][1] = a /\ text.parts[n][2] <= streams.index
        BY <2>1, <3>1, <3>2, <4>1 DEF FrameTexts
      <4>3. text.parts[n][2] \in Nat
        <5>1. text.parts \in Seq(Nat \X Nat)
          BY DEF TextTyped, Parts
        <5>2. text.parts[n] \in Nat \X Nat
          BY <3>1, <3>2, <5>1
        <5> QED
          BY <5>2
      <4>4. text.parts[n][2] <= i
        BY <2>1, <4>2, <4>3
      <4> QED
        BY <2>3, <3>1, <4>2, <4>4
    <3> QED
      BY <2>3, <2>10, <3>1, <3>2 DEF TextTyped, FrameTexts
  <2> QED
    BY <2>11, <2>12
<1> QED
  BY <1>1, <1>2

\* A stream begins, or ends.
LEMMA FrameOpens ==
  ASSUME TextTyped, OneStream(text.parts), worker \in Worker,
         FrameStart(worker.attempt + 1), worker'.attempt = worker.attempt + 1
  PROVE  TextTyped' /\ OneStream(text'.parts) /\ said' = said /\ FrameTexts'
<1>1. /\ streams' = [attempt |-> worker.attempt + 1, turn |-> worker.turn, step |-> worker.step,
                     index |-> 0, ended |-> FALSE]
      /\ text' = IF SameStep(text, worker) THEN NoText ELSE text
      /\ said' = said
  BY DEF FrameStart
<1>2. /\ streams' \in [attempt : Nat, turn : Nat, step : Nat, index : Nat, ended : BOOLEAN]
      /\ streams'.attempt = worker'.attempt /\ streams'.turn = worker.turn /\ streams'.step = worker.step
  BY <1>1 DEF Worker
<1>3. NoText \in [turn : Nat, step : Nat, parts : Parts] /\ NoText.parts = <<>> /\ Len(<<>>) = 0
  BY DEF NoText, Parts
<1>4. CASE SameStep(text, worker)
  <2>1. text' = NoText
    BY <1>1, <1>4
  <2> QED
    BY <1>1, <1>2, <1>3, <2>1 DEF TextTyped, OneStream, FrameTexts
<1>5. CASE ~SameStep(text, worker)
  <2>1. text' = text /\ ~SameStep(text', streams')
    BY <1>1, <1>2, <1>5 DEF SameStep
  <2> QED
    BY <1>1, <1>2, <2>1 DEF TextTyped, FrameTexts
<1> QED
  BY <1>4, <1>5

LEMMA FrameCloses ==
  ASSUME TextTyped, OneStream(text.parts), FrameTexts, FrameEnd(worker.attempt), worker'.attempt = worker.attempt
  PROVE  TextTyped' /\ OneStream(text'.parts) /\ said' = said /\ FrameTexts'
<1>1. NoText \in [turn : Nat, step : Nat, parts : Parts] /\ NoText.parts = <<>>
  BY NoParts DEF NoText
<1>2. CASE streams.attempt = worker.attempt /\ ~streams.ended
  <2>1. /\ streams' = [streams EXCEPT !.ended = TRUE] /\ said' = said
        /\ text' \in {text, NoText}
    BY <1>2 DEF FrameEnd
  <2>2. /\ streams' \in [attempt : Nat, turn : Nat, step : Nat, index : Nat, ended : BOOLEAN]
        /\ streams'.attempt = streams.attempt /\ streams'.ended
    BY <2>1 DEF TextTyped
  <2>3. text' \in [turn : Nat, step : Nat, parts : Parts] /\ OneStream(text'.parts)
    BY <1>1, <2>1, NoParts DEF TextTyped
  <2> QED
    BY <2>1, <2>2, <2>3 DEF TextTyped, FrameTexts
<1>3. CASE ~(streams.attempt = worker.attempt /\ ~streams.ended)
  <2>1. streams' = streams /\ text' = text /\ said' = said
    BY <1>3 DEF FrameEnd
  <2> QED
    BY <2>1 DEF TextTyped, FrameTexts, SameStep
<1> QED
  BY <1>2, <1>3

\* The steps of the loop that log nothing.
LEMMA StreamTexts ==
  ASSUME log \in Seq(Entry), worker \in Worker, PlaceInv, TextInv, host \in {"frames", "log", "both"},
         Bound[host].chunks \in Nat,
         \/ Attempt \/ SendFrame \/ SendFirst \/ Repeated \/ StreamEnds \/ CompactionFails
  PROVE  TextInv'
<1>1. /\ worker.attempt \in Nat /\ worker.sent \in Nat
      /\ TextTyped /\ OneStream(text.parts) /\ \A t \in said : OneStream(t)
      /\ (\E k \in 1 .. Len(log) : Chunk(log, k)) => worker.attempt > 0
      /\ worker.at = "copying" => host # "log"
  BY DEF Worker, TextInv
<1>2. host = "log" => LogTexts
  BY DEF TextInv
<1>3. host # "log" => FrameTexts /\ Framed
  BY DEF TextInv, Framed
<1>4. UNCHANGED <<host, log, mount>>
  BY DEF Attempt, SendFrame, SendFirst, Repeated, StreamEnds, CompactionFails, hostVars, mountVars
<1>5. ASSUME host # "log", FrameTexts', TextTyped', OneStream(text'.parts), \A t \in said' : OneStream(t),
             worker'.attempt \in Nat, worker'.attempt >= worker.attempt
      PROVE  TextInv'
  <2>1. (\E k \in 1 .. Len(log') : Chunk(log', k)) => worker'.attempt > 0
    BY <1>1, <1>4, <1>5
  <2> QED
    BY <1>4, <1>5, <2>1 DEF TextInv
<1>6. ASSUME host = "log", UNCHANGED streamVars, worker'.attempt \in Nat, worker'.attempt >= worker.attempt,
             worker'.at # "copying",
             worker'.streaming => \A k \in 1 .. Len(log) : Chunk(log, k) /\ SameStep(log[k], worker') =>
                                    log[k].part[1] = worker'.attempt /\ log[k].part[2] <= worker'.sent
      PROVE  TextInv'
  <2>1. streams' = streams /\ text' = text /\ said' = said
    BY <1>6 DEF streamVars
  <2>2. (\E k \in 1 .. Len(log') : Chunk(log', k)) => worker'.attempt > 0
    BY <1>1, <1>4, <1>6
  <2>3. LogTexts'
    BY <1>2, <1>4, <1>6, <2>1 DEF LogTexts
  <2> QED
    BY <1>1, <1>4, <1>6, <2>1, <2>2, <2>3 DEF TextInv, TextTyped
<1>7. CASE Attempt
  <2>1. /\ worker' = [worker EXCEPT !.attempt = @ + 1, !.sent = 0, !.streaming = TRUE] /\ worker.at = "step"
        /\ host = "log" => ~\E k \in 1 .. Len(log) : log[k].kind = "assistant/chunk" /\ SameStep(log[k], worker)
        /\ IF Framed THEN FrameStart(worker.attempt + 1) ELSE UNCHANGED streamVars
    BY <1>7 DEF Attempt
  <2>2. /\ worker'.attempt = worker.attempt + 1 /\ worker'.at = "step" /\ worker'.turn = worker.turn
        /\ worker'.step = worker.step /\ worker'.attempt \in Nat /\ worker'.attempt >= worker.attempt
    BY <1>1, <2>1 DEF Worker
  <2>3. CASE host = "log"
    <3>1. ~Framed
      BY <2>3 DEF Framed
    <3>2. \A k \in 1 .. Len(log) : ~(Chunk(log, k) /\ SameStep(log[k], worker'))
      BY <2>1, <2>2, <2>3 DEF Chunk, SameStep
    <3> QED
      BY <1>6, <2>1, <2>2, <2>3, <3>1, <3>2
  <2>4. CASE host # "log"
    <3>1. FrameStart(worker.attempt + 1)
      BY <1>3, <2>1, <2>4
    <3>2. TextTyped' /\ OneStream(text'.parts) /\ said' = said /\ FrameTexts'
      BY <1>1, <2>2, <3>1, FrameOpens
    <3> QED
      BY <1>1, <1>5, <2>2, <2>4, <3>2
  <2> QED
    BY <2>3, <2>4
<1>8. CASE SendFrame \/ SendFirst \/ Repeated
  <2>1. host # "log" /\ worker'.attempt = worker.attempt
    BY <1>8 DEF SendFrame, SendFirst, Repeated, Framed, hostVars, Worker
  <2>2. \E a \in Nat, i \in Nat : FrameChunk(a, i)
    <3>1. CASE SendFrame \/ SendFirst
      <4>1. FrameChunk(worker.attempt, worker.sent + 1) /\ worker.sent + 1 \in Nat
        BY <1>1, <3>1 DEF SendFrame, SendFirst
      <4> QED
        BY <1>1, <4>1
    <3>2. CASE Repeated
      <4>1. PICK a \in 1 .. worker.attempt, i \in 1 .. Bound[host].chunks : FrameChunk(a, i)
        BY <3>2 DEF Repeated
      <4>2. a \in Nat /\ i \in Nat
        BY <1>1
      <4> QED
        BY <4>1, <4>2
    <3> QED
      BY <1>8, <3>1, <3>2
  <2>3. PICK a \in Nat, i \in Nat : FrameChunk(a, i)
    BY <2>2
  <2>4. TextTyped' /\ OneStream(text'.parts) /\ (\A t \in said' : OneStream(t)) /\ FrameTexts'
    BY <1>1, <1>3, <2>1, <2>3, FrameAdds
  <2>5. worker'.attempt \in Nat /\ worker'.attempt >= worker.attempt
    BY <1>1, <2>1
  <2> QED
    BY <1>5, <2>1, <2>4, <2>5
<1>9. CASE StreamEnds
  <2>1. /\ worker' = [worker EXCEPT !.streaming = FALSE,
                                    !.at = IF worker.sent = Bound[host].chunks THEN "answering" ELSE "step"]
        /\ IF Framed THEN FrameEnd(worker.attempt) ELSE UNCHANGED streamVars
    BY <1>9 DEF StreamEnds
  <2>2. /\ worker'.attempt = worker.attempt /\ worker'.at # "copying" /\ ~worker'.streaming
        /\ worker'.attempt \in Nat /\ worker'.attempt >= worker.attempt
    BY <1>1, <2>1 DEF Worker
  <2>3. CASE host = "log"
    <3>1. ~Framed
      BY <2>3 DEF Framed
    <3> QED
      BY <1>6, <2>1, <2>2, <2>3, <3>1
  <2>4. CASE host # "log"
    <3>1. TextTyped' /\ OneStream(text'.parts) /\ said' = said /\ FrameTexts'
      BY <1>1, <1>3, <2>1, <2>2, <2>4, FrameCloses
    <3> QED
      BY <1>1, <1>5, <2>2, <2>4, <3>1
  <2> QED
    BY <2>3, <2>4
<1>10. CASE CompactionFails
  <2>1. worker.at = "compacting" /\ worker' = [worker EXCEPT !.at = worker.resume] /\ UNCHANGED streamVars
    BY <1>10 DEF CompactionFails, LoopGoes
  <2>2. /\ worker'.attempt = worker.attempt /\ worker'.at # "copying" /\ worker'.streaming = worker.streaming
        /\ worker'.attempt \in Nat /\ worker'.attempt >= worker.attempt
    BY <1>1, <2>1 DEF Worker
  <2>3. ~worker'.streaming
    BY <2>1, <2>2 DEF PlaceInv, Streams
  <2>4. CASE host # "log"
    <3>1. streams' = streams /\ text' = text /\ said' = said
      BY <2>1 DEF streamVars
    <3>2. FrameTexts' /\ TextTyped'
      BY <1>1, <1>3, <2>2, <2>4, <3>1 DEF FrameTexts, TextTyped, SameStep
    <3> QED
      BY <1>1, <1>5, <2>2, <2>4, <3>1, <3>2
  <2> QED
    BY <1>6, <2>1, <2>2, <2>3, <2>4
<1> QED
  BY <1>7, <1>8, <1>9, <1>10

\* The steps of the mount and of the chain.
LEMMA MountTexts ==
  ASSUME log \in Seq(Entry), worker \in Worker, PlaceInv, MountTyped, TextInv, Queue \/ Mount \/ UNCHANGED projectionVars
  PROVE  TextInv'
<1>1. /\ TextTyped /\ OneStream(text.parts) /\ \A t \in said : OneStream(t)
      /\ (\E k \in 1 .. Len(log) : Chunk(log, k)) => worker.attempt > 0
      /\ worker.at = "copying" => host # "log"
  BY DEF TextInv
<1>2. UNCHANGED <<host, worker, log>>
  BY DEF Queue, Mount, Subscribe, GoLive, Unload, ShutDown, projectionVars, hostVars
<1>3. CASE Queue \/ Subscribe \/ Unload \/ ShutDown \/ UNCHANGED projectionVars
  <2>1. streams' = streams /\ text' = text /\ said' = said
    BY <1>3 DEF Queue, Subscribe, Unload, ShutDown, projectionVars, streamVars
  <2>2. mount' = "loading" => mount = "loading"
    BY <1>3 DEF Queue, Subscribe, Unload, ShutDown, projectionVars, mountVars
  <2>3. TextTyped' /\ (LogTexts => LogTexts') /\ (FrameTexts => FrameTexts')
    BY <1>1, <1>2, <2>1, <2>2 DEF TextTyped, LogTexts, FrameTexts, SameStep
  <2> QED
    BY <1>1, <1>2, <2>1, <2>3 DEF TextInv
<1>4. CASE GoLive
  <2>1. mount = "loading" /\ mount' = "live" /\ Project(log, ReplayFrom)
    BY <1>4 DEF GoLive
  <2> DEFINE lo == ReplayFrom
  <2>2. lo \in 1 .. Len(log) + 1
    BY ReplayPlace
  <2> HIDE DEF lo
  <2>3. CASE host = "log"
    <3>1. text.parts = <<>> /\ Len(text.parts) = 0 /\ LogTexts
      BY <2>1, <2>3 DEF TextInv, LogTexts
    <3>2. Drawn(text.parts, text, log, lo)
      BY <3>1 DEF Drawn
    <3>3. /\ TextTyped' /\ OneStream(text'.parts) /\ Drawn(text'.parts, text', log, Len(log) + 1)
          /\ \A t \in said' : OneStream(t)
      BY <1>1, <2>1, <2>2, <3>1, <3>2, ProjectsSound DEF LogTexts, lo
    <3>4. LogTexts'
      BY <1>2, <2>1, <3>1, <3>3 DEF LogTexts
    <3> QED
      BY <1>1, <1>2, <2>3, <3>3, <3>4 DEF TextInv
  <2>4. CASE host # "log"
    <3>1. FrameTexts
      BY <2>4 DEF TextInv
    <3>2. ASSUME NEW k \in lo .. Len(log), Counts(log, k) PROVE FALSE
      <4>1. k \in 1 .. Len(log) /\ Chunk(log, k) /\ streams = NoStream
        BY <2>2, <3>2 DEF Counts, Chunk
      <4>2. worker.attempt > 0 /\ streams.attempt = worker.attempt
        BY <1>1, <3>1, <4>1 DEF FrameTexts
      <4> QED
        BY <4>1, <4>2 DEF NoStream
    <3>3. streams' = streams /\ said' = said /\ text' \in {text, NoText}
      BY <2>1, <3>2, ProjectsQuiet DEF lo
    <3> QED
      BY <1>1, <1>2, <2>4, <3>1, <3>3, QuietTexts
  <2> QED
    BY <2>3, <2>4
<1> QED
  BY <1>3, <1>4 DEF Mount

LEMMA TextsKept == ProjectionSpec => [](ModelCallInv /\ TextInv)
<1>1. ASSUME ProjectionInit PROVE TextInv
  <2>1. /\ log = <<>> /\ Len(log) = 0 /\ worker.attempt = 0 /\ worker.at = "idle" /\ ~worker.streaming
        /\ streams = NoStream /\ text = NoText /\ said = {}
    BY <1>1 DEF ProjectionInit
  <2>2. <<>> \in Parts /\ Len(<<>>) = 0
    BY DEF Parts
  <2>3. TextTyped /\ text.parts = <<>> /\ OneStream(text.parts)
    BY <2>1, <2>2 DEF TextTyped, OneStream, NoStream, NoText
  <2>4. LogTexts /\ FrameTexts
    BY <2>1, <2>2, <2>3 DEF LogTexts, FrameTexts, ChunksInOrder, Drawn, NoStream
  <2> QED
    BY <2>1, <2>3, <2>4 DEF TextInv
<1>2. ASSUME WorkerTyped, HearingInv, ModelCallInv, TextInv, [ProjectionNext]_projectionVars, HearingInv' PROVE TextInv'
  <2>1. /\ log \in Seq(Entry) /\ log' \in Seq(Entry) /\ worker \in Worker /\ MountTyped /\ PlaceInv /\ Streams(worker)
    BY <1>2 DEF WorkerTyped, HearingInv, MountTyped, ModelCallInv, PlaceInv
  <2>2. host \in {"frames", "log", "both"} /\ Bound[host].chunks \in Nat
    BY <1>2, BoundAssumption DEF WorkerTyped
  <2>3. CASE \/ Attempt \/ SendFrame \/ SendFirst \/ Repeated \/ StreamEnds \/ CompactionFails
    BY <1>2, <2>1, <2>2, <2>3, StreamTexts
  <2>4. CASE \/ OpenTurn \/ OpenStep \/ LogChunk \/ LogSecond \/ Answer \/ ToolEnds
             \/ CloseStep \/ CloseTurn \/ Compact \/ Summarize
    <3>1. worker.at = "copying" => host # "log" /\ ~LogChunk
      BY <1>2 DEF TextInv, LogChunk
    <3>2. UNCHANGED <<host, mount, listening>> /\ \E e \in Entry : Puts(e)
      BY <2>1, <2>4, <3>1, LoopPuts
    <3> QED
      BY <1>2, <2>1, <3>2, LoggedTexts, FramedTexts
  <2>5. CASE Queue \/ Mount \/ UNCHANGED projectionVars
    BY <1>2, <2>1, <2>5, MountTexts
  <2> QED
    BY <1>2, <2>3, <2>4, <2>5 DEF ProjectionNext, WorkerStep
<1>3. ProjectionSpec => [](WorkerTyped /\ HearingInv) /\ []ModelCallInv
  BY HearingKept, CallKept, PTL
<1>4. (WorkerTyped /\ HearingInv) /\ (WorkerTyped /\ HearingInv)' /\ ModelCallInv /\ TextInv /\ [ProjectionNext]_projectionVars => TextInv'
  BY <1>2
<1> QED
  BY <1>1, <1>3, <1>4, PTL DEF ProjectionSpec

\* OneModelCall: what a package is told of a model call is of that call alone: its turn_end,
\* its number (as above), and each text, which is of one attempt and has no chunk
\* twice, whatever frames come late or again and whether the host logs its chunks as
\* well (1979-2031, 2104-2119).
THEOREM CallsStayApart == ProjectionSpec => []OneModelCall
<1>1. TextInv => OneAttempt
  BY DEF TextInv, OneStream, OneAttempt
<1>2. ProjectionSpec => []TextInv
  BY TextsKept, PTL
<1>3. TurnEndIsItsOwn /\ NumberedWithinPrompt /\ OneAttempt => OneModelCall
  BY DEF OneModelCall
<1> QED
  BY <1>1, <1>2, <1>3, TurnEndsAreOwn, CallsAreNumbered, PTL
=============================================================================
