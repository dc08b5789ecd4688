------------------------- MODULE ChildSession_proofs -------------------------
(***************************************************************************)
(* Theorems about ChildSession, for every value of its constants: that its *)
(* projection chain implements OrderedFeed, that an aborted child stays    *)
(* quiet, and that a prompt which resolved has had its turn, delivered and *)
(* truthfully stamped.                                                     *)
(***************************************************************************)
EXTENDS ChildSession, FiniteSetTheorems, TLAPS

Written == [turn : Nat, what : {"user", "assistant"} \cup Reasons]
Turns   == [n : Nat, steps : Nat, live : BOOLEAN, cancelled : BOOLEAN,
            phase : {"idle", "opened", "stepping", "requested", "answered"}]

\* What the argument needs to know of the types.
Types ==
  /\ log \in Seq(Written) /\ chain \in Seq(Written) /\ emitted \in Seq(Written)
  /\ turn \in Turns
  /\ inbox \in Seq({"inject", "wake", "prompt"})

\* Until the session is disposed of, the log is what was emitted, followed by
\* what waits; a request that runs has its activity.
Split  == ~disposed => log = emitted \o chain
Active == turn.phase = "requested" => turn.live

FeedInv == Types /\ Split /\ Active

-----------------------------------------------------------------------------
\* An opening event leaves a turn a turn, in the same phase.
LEMMA GuardedType ==
  ASSUME NEW t \in Turns
  PROVE  /\ Guarded(t) \in Turns /\ Guarded(t).phase = t.phase /\ Guarded(t).live = t.live
         /\ Cancelled(t) \in Turns /\ Cancelled(t).phase = t.phase /\ Cancelled(t).live = t.live
BY DEF Guarded, Cancelled, Turns

\* A turn that starts a step is a turn.
LEMMA StepType ==
  ASSUME NEW t \in Turns, NEW live \in BOOLEAN
  PROVE  [t EXCEPT !.phase = "stepping", !.steps = @ + 1, !.live = live] \in Turns
<1>1. ASSUME NEW s \in Nat
      PROVE  [t EXCEPT !.phase = "stepping", !.steps = s, !.live = live] \in Turns
  <2>1. [t EXCEPT !.phase = "stepping", !.steps = s, !.live = TRUE] \in Turns
    BY DEF Turns
  <2>2. [t EXCEPT !.phase = "stepping", !.steps = s, !.live = FALSE] \in Turns
    BY DEF Turns
  <2> QED
    BY <2>1, <2>2
<1>2. t.steps + 1 \in Nat
  BY DEF Turns
<1> QED
  BY <1>1, <1>2

\* The log and the chain grow by the same entries.
LEMMA GrowTogether ==
  ASSUME Types, Split, NEW es \in Seq(Written), es # <<>>, Append2Log(es),
         UNCHANGED <<disposed, emitted>>
  PROVE  /\ log' \in Seq(Written) /\ chain' \in Seq(Written)
         /\ Split'
         /\ Feed!Write \/ UNCHANGED <<log, chain>>
<1>1. CASE disposed
  BY <1>1 DEF Append2Log, Types, Split
<1>2. CASE ~disposed
  <2>1. log' = log \o es /\ chain' = chain \o es
    BY <1>2 DEF Append2Log
  <2>2. log' \in Seq(Written) /\ chain' \in Seq(Written)
    BY <2>1 DEF Types
  <2>3. emitted \o (chain \o es) = (emitted \o chain) \o es
    BY SMTT(60) DEF Types
  <2>4. Len(log') > Len(log) /\ SubSeq(log', 1, Len(log)) = log
    BY <2>1 DEF Types
  <2> QED
    BY <1>2, <2>1, <2>2, <2>3, <2>4 DEF Split, Feed!Write
<1> QED
  BY <1>1, <1>2

-----------------------------------------------------------------------------
\* A new child has an empty log, and its feed is a new feed.
LEMMA InitFeed == Init => FeedInv /\ Feed!Init
BY DEF Init, FeedInv, Types, Split, Active, Turns, Feed!Init

\* A step of the caller, a wake-up or the agent's end leaves the feed alone; the
\* request that runs, if there is one, keeps its activity.
LEMMA QuietStep ==
  ASSUME FeedInv, UNCHANGED <<log, chain, emitted, disposed>>,
         inbox' \in Seq({"inject", "wake", "prompt"}),
         turn' \in Turns, Active'
  PROVE  FeedInv' /\ UNCHANGED Feed!vars
BY DEF FeedInv, Types, Split, Feed!vars

\* Every step keeps the invariant, and is a step of the feed or none.
LEMMA StepFeed == FeedInv /\ [Next]_vars => FeedInv' /\ [Feed!Next]_Feed!vars
<1> SUFFICES ASSUME FeedInv, [Next]_vars PROVE FeedInv' /\ [Feed!Next]_Feed!vars
  OBVIOUS
<1> USE DEF Feed!vars, Feed!Next
<1>a. Types /\ Split /\ Active /\ turn \in Turns /\ inbox \in Seq({"inject", "wake", "prompt"})
  BY DEF FeedInv, Types
<1>1. CASE UNCHANGED vars
  BY <1>1, QuietStep, <1>a DEF vars, childVars, projectVars, Active
<1>2. ASSUME NEW next \in (SUBSET Seeds) \ {{}}, AssignTranscript(next) PROVE FeedInv' /\ UNCHANGED Feed!vars
  BY <1>2, QuietStep, <1>a DEF AssignTranscript, childVars, projectVars, Active
<1>3. CASE Prompt
  BY <1>3, QuietStep, <1>a DEF Prompt, childVars, projectVars, Active
<1>4. CASE Abort
  BY <1>4, QuietStep, GuardedType, <1>a DEF Abort, projectVars, Active
<1>5. CASE Dispose
  <2>1. disposed' /\ ~disposed /\ UNCHANGED <<log, chain, emitted, turn, inbox>>
    BY <1>5 DEF Dispose, childVars, projectVars
  <2> QED
    BY <2>1, <1>a DEF FeedInv, Types, Split, Active, Feed!Close
<1>6. CASE Wake
  BY <1>6, QuietStep, <1>a DEF Wake, projectVars, Active
<1>7. CASE PromptStep
  <2>1. CASE InjectSeed
    BY <2>1, QuietStep, <1>a DEF InjectSeed, projectVars, Active
  <2>2. CASE DeliverPrompt
    BY <2>2, QuietStep, <1>a DEF DeliverPrompt, projectVars, Active
  <2>3. CASE AwaitProjection \/ PromptResolves \/ PromptRejects
    BY <2>3, QuietStep, <1>a
    DEF AwaitProjection, PromptResolves, PromptRejects, childVars, projectVars, Active
  <2> QED
    BY <1>7, <2>1, <2>2, <2>3 DEF PromptStep
<1>8. CASE TurnOpens
  <2>1. PICK claim \in Waking, live \in BOOLEAN :
          /\ turn' = Guarded([n |-> turn.n + 1, steps |-> 0, live |-> live,
                              cancelled |-> FALSE, phase |-> "opened"])
          /\ Append2Log([i \in 1 .. claim |-> [turn |-> turn.n + 1, what |-> "user"]])
          /\ inbox' = SubSeq(inbox, claim + 1, Len(inbox))
    BY <1>8 DEF TurnOpens
  <2> DEFINE es == [i \in 1 .. claim |-> [turn |-> turn.n + 1, what |-> "user"]]
             t  == [n |-> turn.n + 1, steps |-> 0, live |-> live, cancelled |-> FALSE, phase |-> "opened"]
  <2>2. claim \in Nat \ {0} /\ claim <= Len(inbox)
    BY <1>a DEF Waking
  <2>3. turn.n + 1 \in Nat /\ t \in Turns
    BY <1>a DEF Turns
  <2>4. turn' \in Turns /\ turn'.phase = "opened"
    BY <2>1, <2>3, GuardedType
  <2>5. es \in Seq(Written) /\ es # <<>>
    BY <2>2, <2>3 DEF Written
  <2>6. inbox' \in Seq({"inject", "wake", "prompt"})
    BY <2>1, <2>2, <1>a
  <2>7. UNCHANGED <<disposed, emitted>>
    BY <1>8 DEF TurnOpens, projectVars
  <2>8. /\ log' \in Seq(Written) /\ chain' \in Seq(Written) /\ Split'
        /\ Feed!Write \/ UNCHANGED <<log, chain>>
    <3> HIDE DEF es
    <3> QED
      BY <2>1, <2>5, <2>7, <1>a, GrowTogether DEF es
  <2> QED
    BY <2>4, <2>6, <2>7, <2>8, <1>a DEF FeedInv, Types, Active
<1>9. CASE StepStarts
  <2>1. PICK live \in BOOLEAN :
          turn' = Guarded([turn EXCEPT !.phase = "stepping", !.steps = @ + 1, !.live = live])
    BY <1>9, <1>a DEF StepStarts, Turns
  <2>2. [turn EXCEPT !.phase = "stepping", !.steps = @ + 1, !.live = live] \in Turns
    BY <1>a, StepType
  <2>3. turn' \in Turns /\ turn'.phase = "stepping"
    BY <2>1, <2>2, GuardedType, <1>a DEF Turns
  <2> QED
    BY <1>9, <2>3, QuietStep, <1>a DEF StepStarts, projectVars, Active
<1>10. CASE RequestSent
  <2>1. turn' = Guarded([turn EXCEPT !.phase = "requested", !.live = TRUE])
    BY <1>10 DEF RequestSent
  <2>2. [turn EXCEPT !.phase = "requested", !.live = TRUE] \in Turns
    BY <1>a DEF Turns
  <2>3. turn' \in Turns /\ turn'.live
    BY <2>1, <2>2, GuardedType, <1>a DEF Turns
  <2> QED
    BY <1>10, <2>3, QuietStep, <1>a DEF RequestSent, projectVars, Active
<1>11. CASE AssistantMessage
  <2>1. /\ Append2Log(<<[turn |-> turn.n, what |-> "assistant"]>>)
        /\ turn' = [turn EXCEPT !.phase = "answered"]
        /\ UNCHANGED <<disposed, inbox, emitted>>
    BY <1>11 DEF AssistantMessage, projectVars
  <2>2. <<[turn |-> turn.n, what |-> "assistant"]>> \in Seq(Written)
    BY <1>a DEF Written, Turns
  <2>3. turn' \in Turns /\ turn'.phase = "answered"
    BY <2>1, <1>a DEF Turns
  <2> QED
    BY <2>1, <2>2, <2>3, <1>a, GrowTogether DEF FeedInv, Types, Active
<1>12. CASE TurnEnds
  <2>1. PICK reason \in Reasons : Append2Log(<<[turn |-> turn.n, what |-> reason]>>)
    BY <1>12 DEF TurnEnds
  <2>2. /\ turn' = [turn EXCEPT !.phase = "idle", !.live = FALSE]
        /\ UNCHANGED <<disposed, inbox, emitted>>
    BY <1>12 DEF TurnEnds, projectVars
  <2>3. <<[turn |-> turn.n, what |-> reason]>> \in Seq(Written)
    BY <1>a DEF Written, Turns
  <2>4. turn' \in Turns /\ turn'.phase = "idle"
    BY <2>2, <1>a DEF Turns
  <2> QED
    BY <2>1, <2>2, <2>3, <2>4, <1>a, GrowTogether DEF FeedInv, Types, Active
<1>13. CASE AgentGone
  <2>1. turn' \in Turns /\ turn'.phase = "idle" /\ inbox' = <<>>
    BY <1>13, <1>a DEF AgentGone, Turns
  <2> QED
    BY <1>13, <2>1, QuietStep DEF AgentGone, projectVars, Active
<1>14. CASE Project
  <2>1. /\ chain # <<>> /\ chain' = Tail(chain) /\ Emit(Head(chain))
        /\ UNCHANGED <<log, disposed, turn, inbox>>
    BY <1>14 DEF Project, childVars
  <2>2. chain' \in Seq(Written) /\ Head(chain) \in Written
    BY <2>1, <1>a DEF Types
  <2>3. CASE disposed
    BY <2>1, <2>2, <2>3, <1>a DEF Emit, FeedInv, Types, Split, Active
  <2>4. CASE ~disposed
    <3>1. emitted' = Append(emitted, Head(chain)) /\ emitted' \in Seq(Written)
      BY <2>1, <2>2, <2>4, <1>a DEF Emit, Types
    <3>2. emitted \o chain = emitted' \o chain'
      BY <2>1, <2>2, <3>1, <1>a, SMTT(60) DEF Types
    <3>3. Len(emitted) < Len(log) /\ log[Len(emitted) + 1] = Head(chain)
      BY <2>1, <2>4, <1>a DEF Types, Split
    <3> QED
      BY <2>1, <2>2, <2>4, <3>1, <3>2, <3>3, <1>a DEF FeedInv, Types, Split, Active, Feed!Hear
  <2> QED
    BY <2>3, <2>4
<1> QED
  BY <1>1, <1>2, <1>3, <1>4, <1>5, <1>6, <1>7, <1>8, <1>9, <1>10, <1>11, <1>12, <1>13, <1>14
  DEF Next, ChildStep

\* What subscribers of a child session are promised: all the child logs, in the
\* order of its log and each entry once, until the session is disposed of.  The
\* projection chain keeps it whatever the awaits inside it do.
THEOREM FeedImplemented == Spec => FeedIsOrdered
<1>1. FeedInv /\ [Next]_vars => [Feed!Next]_Feed!vars
  BY StepFeed
<1> QED
  BY <1>1, InitFeed, StepFeed, PTL DEF Spec, FeedIsOrdered, Feed!Spec

-----------------------------------------------------------------------------
AbortInv == FeedInv /\ AbortHolds

\* An aborted child stays quiet until the next prompt, whatever wakes it and
\* wherever in a turn the abort meets it.
THEOREM AbortIsHeld == Spec => []AbortHolds
<1>1. Init => AbortHolds
  BY DEF Init, AbortHolds
<1>2. FeedInv /\ AbortHolds /\ [Next]_vars => AbortHolds'
  <2> SUFFICES ASSUME FeedInv, AbortHolds, [Next]_vars, aborted', ~disposed', turn'.phase = "requested"
               PROVE  turn'.cancelled
    BY DEF AbortHolds
  <2>a. turn \in Turns /\ Active
    BY DEF FeedInv, Types
  <2>b. ~disposed
    BY DEF Next, vars, AssignTranscript, Prompt, Abort, Dispose, Wake, PromptStep, ChildStep,
           AgentGone, Project, InjectSeed, DeliverPrompt, AwaitProjection, PromptResolves,
           PromptRejects, TurnOpens, StepStarts, RequestSent, AssistantMessage, TurnEnds
  <2>1. CASE UNCHANGED <<aborted, turn>>
    BY <2>1, <2>b DEF AbortHolds
  <2>2. CASE Prompt
    BY <2>2 DEF Prompt
  <2>3. CASE Abort
    BY <2>3, <2>a, GuardedType DEF Abort, Cancelled, Active, Turns
  <2>4. CASE TurnOpens
    <3>1. PICK live \in BOOLEAN :
            turn' = Guarded([n |-> turn.n + 1, steps |-> 0, live |-> live,
                             cancelled |-> FALSE, phase |-> "opened"])
      BY <2>4 DEF TurnOpens
    <3>2. [n |-> turn.n + 1, steps |-> 0, live |-> live,
           cancelled |-> FALSE, phase |-> "opened"] \in Turns
      BY <2>a DEF Turns
    <3> QED
      BY <3>1, <3>2, GuardedType
  <2>5. CASE StepStarts
    <3>1. PICK live \in BOOLEAN :
            turn' = Guarded([turn EXCEPT !.phase = "stepping", !.steps = @ + 1, !.live = live])
      BY <2>5, <2>a DEF StepStarts, Turns
    <3>2. [turn EXCEPT !.phase = "stepping", !.steps = @ + 1, !.live = live].phase = "stepping"
      BY <2>a DEF Turns
    <3> QED
      BY <3>1, <3>2, <2>a, StepType, GuardedType
  <2>6. CASE RequestSent
    <3>1. turn' = Guarded([turn EXCEPT !.phase = "requested", !.live = TRUE])
      BY <2>6 DEF RequestSent
    <3>2. aborted
      BY <2>6 DEF RequestSent, promptVars
    <3> QED
      BY <3>1, <3>2, <2>a, <2>b DEF Guarded, Cancelled, Turns
  <2>7. CASE AssistantMessage
    BY <2>7, <2>a DEF AssistantMessage, Turns
  <2>8. CASE TurnEnds \/ AgentGone
    BY <2>8, <2>a DEF TurnEnds, AgentGone, Turns
  <2> QED
    BY <2>1, <2>2, <2>3, <2>4, <2>5, <2>6, <2>7, <2>8
    DEF Next, vars, AssignTranscript, Dispose, Wake, PromptStep, ChildStep, Project, InjectSeed,
        DeliverPrompt, AwaitProjection, PromptResolves, PromptRejects, childVars, projectVars
<1> QED
  BY <1>1, <1>2, InitFeed, StepFeed, PTL DEF Spec

-----------------------------------------------------------------------------
(* A prompt that resolved has had its own turn.                            *)

\* A turn is opened by a message of its own: the messages in the inbox that
\* open one, and a prompt on its way there, are still to be counted.
OnItsWay == IF caller.at \in {"seed", "content"} THEN 1 ELSE 0
Budget   == turn.n + Cardinality(Waking) + OnItsWay <= issued + wakes

\* What was emitted is the beginning of the log, what waits is its end; between
\* them is what a disposed session projected for nobody.
Kept ==
  /\ Len(emitted) + Len(chain) <= Len(log)
  /\ ~disposed => Len(emitted) + Len(chain) = Len(log)
  /\ \A k \in 1 .. Len(emitted) : emitted[k] = log[k]
  /\ \A k \in 1 .. Len(chain) : chain[k] = log[Len(log) - Len(chain) + k]

\* Nothing of a turn is logged behind its end.
Ended ==
  /\ turn.phase # "idle" => turn.n # 0
  /\ \A k \in 1 .. Len(log) :
       /\ log[k].turn <= turn.n
       /\ log[k].what \in Reasons /\ turn.phase # "idle" => log[k].turn < turn.n
  /\ \A j, k \in 1 .. Len(log) : j < k /\ log[j].what \in Reasons => log[j].turn < log[k].turn

\* A stopReason is that of the turn's end, and an end that failed has left one.
Stamped ==
  /\ \A i \in 1 .. Len(assistants) :
       assistants[i].stop # "none" =>
         \E k \in 1 .. Len(log) : log[k] = [turn |-> assistants[i].turn, what |-> assistants[i].stop]
  /\ \A k \in 1 .. Len(log) - Len(chain) :
       Failed(log[k]) =>
         \E i \in 1 .. Len(assistants) : assistants[i] = [turn |-> log[k].turn, stop |-> log[k].what]

\* A prompt still in the inbox is that of the caller, who waits for its turn.
Unclaimed ==
  /\ caller.at \in {"idle", "seed", "content"} => caller.done = "no" /\ caller.turn = 0
  /\ ~disposed =>
    /\ \A i \in 1 .. Len(inbox) :
         inbox[i] = "prompt" => caller.at = "waiting" /\ caller.done = "no" /\ caller.turn = 0
    /\ \A i, j \in 1 .. Len(inbox) : inbox[i] = "prompt" /\ inbox[j] = "prompt" => i = j

\* In the log l, the turn n is over and everything of it is among the first k
\* entries.
OverIn(l, n, k) ==
  /\ \E i \in 1 .. Len(l) : l[i].turn = n /\ l[i].what \in Reasons
  /\ \A i \in 1 .. Len(l) : l[i].turn = n => i <= k
Over(n, k) == OverIn(log, n, k)

\* The turn of a prompt that completed is over; the chain it then awaits ends
\* behind that turn; one that resolved was heard in full.
Waited ==
  /\ caller.at = "draining" => caller.done = "resolved"
  /\ ~disposed /\ caller.done = "resolved" => Over(caller.turn, Len(log))
  /\ ~disposed /\ caller.at = "draining" => Over(caller.turn, Len(emitted) + caller.ahead)
  /\ \A n \in answered : Over(n, Len(emitted))

\* The inductive invariant of PromptMeansDelivered.
DeliveredInv == TypeOK /\ Budget /\ Kept /\ Ended /\ Stamped /\ Unclaimed /\ Waited

\* A new child satisfies it.
LEMMA InitDelivered == Init => DeliveredInv
<1> SUFFICES ASSUME Init PROVE DeliveredInv
  OBVIOUS
<1>1. TypeOK
  <2>1. /\ MaxTurns \in Nat /\ MaxPrompts \in Nat /\ MaxWakes \in Nat /\ MaxSteps \in Nat
        /\ 0 \in 0 .. MaxPrompts /\ 0 \in 0 .. MaxWakes
    BY BoundsAssumption DEF MaxTurns
  <2>2. /\ caller \in [at : {"idle", "seed", "content", "waiting", "draining"},
                       carrying : SUBSET Seeds, turn : 0 .. MaxTurns,
                       done : {"no", "resolved", "rejected"}, ahead : Nat]
        /\ turn \in [n : 0 .. MaxTurns, steps : 0 .. MaxSteps, live : BOOLEAN, cancelled : BOOLEAN,
                     phase : {"idle", "opened", "stepping", "requested", "answered"}]
    BY <2>1 DEF Init, Idle
  <2>3. \A S : <<>> \in Seq(S)
    OBVIOUS
  <2>4. latest \in 0 .. Len(assistants) /\ assistants = <<>>
    BY DEF Init
  <2> QED
    BY <2>1, <2>2, <2>3, <2>4, ZenonT(30) DEF Init, TypeOK
<1>2. Waking = {} /\ turn.n = 0 /\ OnItsWay = 0 /\ issued = 0 /\ wakes = 0
  BY DEF Init, Waking, OnItsWay, Idle
<1>3. Budget
  BY <1>2, FS_EmptySet DEF Budget
<1>4. Len(log) = 0 /\ Len(chain) = 0 /\ Len(emitted) = 0 /\ Len(assistants) = 0 /\ Len(inbox) = 0
      /\ turn.phase = "idle" /\ caller.at = "idle" /\ caller.done = "no" /\ caller.turn = 0 /\ answered = {}
  BY DEF Init, Idle
<1> QED
  BY <1>1, <1>3, <1>4 DEF DeliveredInv, Kept, Ended, Stamped, Unclaimed, Waited

-----------------------------------------------------------------------------
\* Concatenation, place by place.
LEMMA Concatenated ==
  ASSUME NEW S, NEW s \in Seq(S), NEW t \in Seq(S)
  PROVE  /\ s \o t \in Seq(S) /\ Len(s \o t) = Len(s) + Len(t)
         /\ \A k \in 1 .. Len(s) : (s \o t)[k] = s[k]
         /\ \A k \in 1 .. Len(t) : (s \o t)[Len(s) + k] = t[k]
         /\ \A k \in 1 .. Len(s) + Len(t) :
              k \in 1 .. Len(s) \/ \E j \in 1 .. Len(t) : k = Len(s) + j
<1>1. \A k \in 1 .. Len(s) + Len(t) : k \in 1 .. Len(s) \/ k - Len(s) \in 1 .. Len(t)
  OBVIOUS
<1>2. \A k \in 1 .. Len(s) + Len(t) : k = Len(s) + (k - Len(s))
  OBVIOUS
<1>3. /\ s \o t \in Seq(S) /\ Len(s \o t) = Len(s) + Len(t)
      /\ \A k \in 1 .. Len(s) : (s \o t)[k] = s[k]
  OBVIOUS
<1>4. \A k \in 1 .. Len(t) : (s \o t)[Len(s) + k] = t[k]
  OBVIOUS
<1> QED
  BY <1>1, <1>2, <1>3, <1>4

\* Entries of a turn that was not over are logged; its end comes last.
Logs(es) ==
  /\ es \in Seq(Entry) /\ Append2Log(es) /\ UNCHANGED <<disposed, emitted, assistants, latest>>
  /\ turn' \in Turns /\ turn'.n # 0
  /\ \/ turn'.n = turn.n /\ turn.phase # "idle"
     \/ turn'.n = turn.n + 1
  /\ \A k \in 1 .. Len(es) :
       /\ es[k].turn = turn'.n
       /\ es[k].what \in Reasons => turn'.phase = "idle" /\ Len(es) = 1

\* What is over stays over.
LEMMA LogGrows ==
  ASSUME TypeOK, Kept, Ended, Stamped, NEW es, Logs(es)
  PROVE  /\ log' \in Seq(Entry) /\ chain' \in Seq(Entry)
         /\ Kept' /\ Ended' /\ Stamped'
         /\ \A n, k : Over(n, k) => OverIn(log', n, k)
         /\ Len(log') >= Len(log)
         /\ ~disposed /\ Len(es) = 1 /\ es[1].what \in Reasons => OverIn(log', turn'.n, Len(log'))
<1>a. /\ log \in Seq(Entry) /\ chain \in Seq(Entry) /\ emitted \in Seq(Entry) /\ turn.n \in Nat
      /\ turn'.n \in Nat /\ turn'.n >= turn.n /\ MaxTurns \in Nat /\ es \in Seq(Entry)
  BY BoundsAssumption, SMTT(30) DEF TypeOK, MaxTurns, Logs, Turns
<1>d. /\ Append2Log(es) /\ disposed' = disposed /\ emitted' = emitted /\ assistants' = assistants
      /\ turn'.n # 0
      /\ \A k \in 1 .. Len(es) :
           /\ es[k].turn = turn'.n
           /\ es[k].what \in Reasons => turn'.phase = "idle" /\ Len(es) = 1
  BY DEF Logs
<1>c. Len(log) \in Nat /\ Len(chain) \in Nat /\ Len(emitted) \in Nat /\ Len(es) \in Nat
  BY <1>a
<1>b. \A k \in 1 .. Len(log) :
        log[k].turn \in Nat /\ log[k].turn <= turn'.n /\ (log[k].what \in Reasons => log[k].turn < turn'.n)
  <2>1. \A e \in Entry : e.turn \in Nat
    BY <1>a DEF Entry
  <2>2. \A k \in 1 .. Len(log) : log[k] \in Entry
    BY <1>a
  <2> QED
    BY <1>a, <2>1, <2>2 DEF Ended, Logs
<1>1. CASE disposed
  <2>1. log' = log /\ chain' = chain
    BY <1>1, <1>d DEF Append2Log
  <2>2. Ended'
    BY <1>d, <1>b, <2>1 DEF Ended
  <2> QED
    BY <1>1, <1>d, <2>1, <2>2, <1>a DEF Kept, Stamped, Over, OverIn
<1>2. CASE ~disposed
  <2>1. /\ log' \in Seq(Entry) /\ Len(log') = Len(log) + Len(es)
        /\ \A k \in 1 .. Len(log) : log'[k] = log[k]
        /\ \A k \in 1 .. Len(es) : log'[Len(log) + k] = es[k]
        /\ \A k \in 1 .. Len(log') : k \in 1 .. Len(log) \/ \E j \in 1 .. Len(es) : k = Len(log) + j
    <3>1. log' = log \o es
      BY <1>2, <1>d DEF Append2Log
    <3>2. log \in Seq(Entry) /\ es \in Seq(Entry)
      BY <1>a
    <3>3. /\ log \o es \in Seq(Entry) /\ Len(log \o es) = Len(log) + Len(es)
          /\ \A k \in 1 .. Len(log) : (log \o es)[k] = log[k]
          /\ \A k \in 1 .. Len(es) : (log \o es)[Len(log) + k] = es[k]
          /\ \A k \in 1 .. Len(log) + Len(es) :
               k \in 1 .. Len(log) \/ \E j \in 1 .. Len(es) : k = Len(log) + j
      BY <3>2, Concatenated
    <3> QED
      BY <3>1, <3>3
  <2>2. /\ chain' \in Seq(Entry) /\ Len(chain') = Len(chain) + Len(es)
        /\ \A k \in 1 .. Len(chain) : chain'[k] = chain[k]
        /\ \A k \in 1 .. Len(es) : chain'[Len(chain) + k] = es[k]
        /\ \A k \in 1 .. Len(chain') : k \in 1 .. Len(chain) \/ \E j \in 1 .. Len(es) : k = Len(chain) + j
    <3>1. chain' = chain \o es
      BY <1>2, <1>d DEF Append2Log
    <3>2. chain \in Seq(Entry) /\ es \in Seq(Entry)
      BY <1>a
    <3>3. /\ chain \o es \in Seq(Entry) /\ Len(chain \o es) = Len(chain) + Len(es)
          /\ \A k \in 1 .. Len(chain) : (chain \o es)[k] = chain[k]
          /\ \A k \in 1 .. Len(es) : (chain \o es)[Len(chain) + k] = es[k]
          /\ \A k \in 1 .. Len(chain) + Len(es) :
               k \in 1 .. Len(chain) \/ \E j \in 1 .. Len(es) : k = Len(chain) + j
      BY <3>2, Concatenated
    <3> QED
      BY <3>1, <3>3
  <2>3. Kept'
    <3>1. Len(log') - Len(chain') = Len(log) - Len(chain) /\ Len(emitted) + Len(chain) = Len(log)
      BY <1>2, <1>a, <2>1, <2>2 DEF Kept
    <3>2. \A k \in 1 .. Len(emitted) : emitted[k] = log'[k]
      <4> SUFFICES ASSUME NEW k \in 1 .. Len(emitted) PROVE emitted[k] = log'[k]
        OBVIOUS
      <4>1. emitted[k] = log[k]
        BY DEF Kept
      <4>2. k \in 1 .. Len(log)
        BY <1>c, <3>1
      <4> QED
        BY <2>1, <4>1, <4>2
    <3>3. ASSUME NEW k \in 1 .. Len(chain') PROVE chain'[k] = log'[Len(log) - Len(chain) + k]
      <4>1. CASE k \in 1 .. Len(chain)
        <5>1. Len(log) - Len(chain) + k \in 1 .. Len(log)
          BY <1>a, <3>1, <4>1
        <5> QED
          BY <2>1, <2>2, <4>1, <5>1 DEF Kept
      <4>2. ASSUME NEW j \in 1 .. Len(es), k = Len(chain) + j PROVE chain'[k] = log'[Len(log) - Len(chain) + k]
        <5>1. Len(log) - Len(chain) + k = Len(log) + j
          BY <1>a, <4>2
        <5> QED
          BY <2>1, <2>2, <4>2, <5>1
      <4> QED
        BY <2>2, <4>1, <4>2
    <3>4. Len(emitted) + Len(chain') = Len(log') /\ Len(log') <= Len(log')
      <4>1. Len(log') = Len(log) + Len(es) /\ Len(chain') = Len(chain) + Len(es)
        BY <2>1, <2>2
      <4> QED
        BY <1>c, <3>1, <4>1, SMTT(30)
    <3>5. \A k \in 1 .. Len(chain') : chain'[k] = log'[Len(log') - Len(chain') + k]
      BY <3>1, <3>3
    <3>6. emitted' = emitted
      BY <1>d
    <3> QED
      BY <3>2, <3>4, <3>5, <3>6, Zenon DEF Kept
  <2>4. ASSUME NEW k \in 1 .. Len(log')
        PROVE  \/ k \in 1 .. Len(log) /\ log'[k] = log[k]
               \/ /\ k > Len(log) /\ k >= Len(log') - Len(es) + 1 /\ log'[k].turn = turn'.n
                  /\ log'[k].what \in Reasons => turn'.phase = "idle" /\ Len(es) = 1
    <3>1. CASE k \in 1 .. Len(log)
      BY <2>1, <3>1
    <3>2. ASSUME NEW i \in 1 .. Len(es), k = Len(log) + i
          PROVE  k > Len(log) /\ k >= Len(log') - Len(es) + 1 /\ log'[k] = es[i]
      BY <1>c, <2>1, <3>2
    <3> QED
      BY <1>d, <2>1, <3>1, <3>2
  <2>5. Ended'
    <3>1. ASSUME NEW k \in 1 .. Len(log')
          PROVE  /\ log'[k].turn <= turn'.n
                 /\ log'[k].what \in Reasons /\ turn'.phase # "idle" => log'[k].turn < turn'.n
      <4>1. CASE k \in 1 .. Len(log) /\ log'[k] = log[k]
        BY <1>b, <4>1
      <4>2. CASE log'[k].turn = turn'.n /\ (log'[k].what \in Reasons => turn'.phase = "idle")
        BY <1>a, <4>2
      <4> QED
        BY <2>4, <4>1, <4>2
    <3>2. ASSUME NEW j \in 1 .. Len(log'), NEW k \in 1 .. Len(log'), j < k, log'[j].what \in Reasons
          PROVE  log'[j].turn < log'[k].turn
      <4>1. j \in 1 .. Len(log) /\ log'[j] = log[j]
        <5>1. CASE j > Len(log) /\ j >= Len(log') - Len(es) + 1 /\ Len(es) = 1
          BY <1>c, <2>1, <3>2, <5>1
        <5> QED
          BY <2>4, <3>2, <5>1
      <4>2. CASE k \in 1 .. Len(log)
        BY <3>2, <4>1, <4>2, <2>1 DEF Ended
      <4>3. CASE log'[k].turn = turn'.n
        BY <3>2, <4>1, <4>3, <1>b
      <4> QED
        BY <2>4, <4>2, <4>3
    <3> QED
      BY <1>d, <3>1, <3>2 DEF Ended
  <2>6. Stamped'
    <3>1. Len(log') - Len(chain') = Len(log) - Len(chain)
      BY <1>a, <2>1, <2>2
    <3>2. \A k \in 1 .. Len(log) - Len(chain) : k \in 1 .. Len(log)
      BY <1>a
    <3>3. \A k \in 1 .. Len(log) : k \in 1 .. Len(log') /\ log'[k] = log[k]
      BY <1>c, <2>1
    <3>4. \A i \in 1 .. Len(assistants) :
            assistants[i].stop # "none" =>
              \E k \in 1 .. Len(log') : log'[k] = [turn |-> assistants[i].turn, what |-> assistants[i].stop]
      BY <3>3 DEF Stamped
    <3>5. \A k \in 1 .. Len(log) - Len(chain) : log'[k] = log[k]
      BY <3>2, <3>3
    <3> QED
      BY <1>d, <3>1, <3>4, <3>5 DEF Stamped, Failed
  <2>7. ASSUME NEW n, NEW k, Over(n, k) PROVE OverIn(log', n, k)
    <3>1. PICK i \in 1 .. Len(log) : log[i].turn = n /\ log[i].what \in Reasons
      BY <2>7 DEF Over, OverIn
    <3>2. n \in Nat /\ n < turn'.n
      BY <1>b, <3>1
    <3>3. i \in 1 .. Len(log') /\ log'[i] = log[i]
      BY <1>a, <2>1
    <3>4. ASSUME NEW j \in 1 .. Len(log'), log'[j].turn = n PROVE j <= k
      <4>1. j \in 1 .. Len(log) /\ log'[j] = log[j]
        BY <1>a, <2>4, <3>2, <3>4
      <4> QED
        BY <2>7, <3>4, <4>1 DEF Over, OverIn
    <3> QED
      BY <3>1, <3>3, <3>4 DEF Over, OverIn
  <2>8. ASSUME Len(es) = 1, es[1].what \in Reasons PROVE OverIn(log', turn'.n, Len(log'))
    <3>1. Len(log) + 1 \in 1 .. Len(log') /\ log'[Len(log) + 1] = es[1] /\ es[1].turn = turn'.n
      BY <1>c, <1>d, <2>1, <2>8
    <3>2. \A j \in 1 .. Len(log') : j <= Len(log')
      OBVIOUS
    <3> QED
      BY <2>8, <3>1, <3>2 DEF Over, OverIn
  <2> QED
    BY <1>c, <2>1, <2>2, <2>3, <2>5, <2>6, <2>7, <2>8
<1> QED
  BY <1>1, <1>2

Assistant == [turn : 1 .. MaxTurns, stop : Reasons \cup {"none"}]

\* What one link of the chain makes of the assistant messages.
LEMMA Described ==
  ASSUME NEW e \in Entry, Describe(e), assistants \in Seq(Assistant), latest \in 0 .. Len(assistants)
  PROVE  /\ assistants' \in Seq(Assistant) /\ latest' \in 0 .. Len(assistants')
         /\ \/ assistants' = assistants /\ ~Failed(e)
            \/ \E m \in Assistant :
                 /\ assistants' = Append(assistants, m) /\ m.turn = e.turn
                 /\ \/ m.stop = "none" /\ ~Failed(e)
                    \/ m.stop = e.what /\ e.what \in Reasons
            \/ \E m \in Assistant :
                 /\ latest \in 1 .. Len(assistants) /\ assistants[latest].turn = e.turn
                 /\ assistants' = [assistants EXCEPT ![latest] = m]
                 /\ m.turn = e.turn /\ m.stop = e.what /\ e.what \in Reasons
<1>1. e.turn \in 1 .. MaxTurns /\ e.what \in {"user", "assistant"} \cup Reasons
  BY DEF Entry
<1>2. CASE e.what = "user"
  BY <1>2 DEF Describe, Failed, Reasons
<1>3. CASE e.what = "assistant"
  <2> DEFINE m == [turn |-> e.turn, stop |-> "none"]
  <2>1. m \in Assistant /\ m.turn = e.turn /\ m.stop = "none"
    BY <1>1 DEF Assistant
  <2>2. assistants' = Append(assistants, m) /\ latest' = Len(assistants) + 1 /\ ~Failed(e)
    BY <1>3 DEF Describe, Failed, Reasons
  <2> HIDE DEF m, Assistant
  <2> QED
    BY <2>1, <2>2
<1>4. CASE e.what \in Reasons
  <2>a. /\ latest' = latest
        /\ assistants' =
             IF IsOwn(e.turn) THEN [assistants EXCEPT ![latest].stop = e.what]
             ELSE IF e.what = "stop" THEN assistants
             ELSE Append(assistants, [turn |-> e.turn, stop |-> e.what])
    BY <1>4 DEF Describe, Reasons
  <2>1. CASE IsOwn(e.turn)
    <3> DEFINE m == [turn |-> e.turn, stop |-> e.what]
    <3>1. m \in Assistant /\ m.turn = e.turn /\ m.stop = e.what
      BY <1>1, <1>4 DEF Assistant
    <3>2. latest \in 1 .. Len(assistants) /\ assistants[latest].turn = e.turn /\ assistants[latest] \in Assistant
      BY <2>1 DEF IsOwn
    <3>3. [assistants[latest] EXCEPT !.stop = e.what] = m
      BY <3>2 DEF Assistant
    <3>4. assistants' = [assistants EXCEPT ![latest] = m]
      <4>1. assistants' = [assistants EXCEPT ![latest] = [assistants[latest] EXCEPT !.stop = e.what]]
        BY <2>1, <2>a
      <4> QED
        BY <3>3, <4>1
    <3> HIDE DEF m, Assistant
    <3>5. assistants' \in Seq(Assistant) /\ Len(assistants') = Len(assistants)
      BY <3>1, <3>2, <3>4
    <3> QED
      BY <1>4, <2>a, <3>1, <3>2, <3>4, <3>5
  <2>2. CASE ~IsOwn(e.turn) /\ e.what = "stop"
    BY <2>2, <2>a DEF Failed
  <2>3. CASE ~IsOwn(e.turn) /\ e.what # "stop"
    <3> DEFINE m == [turn |-> e.turn, stop |-> e.what]
    <3>1. m \in Assistant /\ m.turn = e.turn /\ m.stop = e.what
      BY <1>1, <1>4 DEF Assistant
    <3>2. assistants' = Append(assistants, m)
      BY <2>3, <2>a
    <3> HIDE DEF m, Assistant
    <3> QED
      BY <1>4, <2>a, <3>1, <3>2
  <2> QED
    BY <2>1, <2>2, <2>3
<1> QED
  BY <1>1, <1>2, <1>3, <1>4

\* A link of the chain keeps what is emitted and stamped in step with the log.
LEMMA ProjectKeeps ==
  ASSUME TypeOK, Kept, Ended, Stamped, Project
  PROVE  /\ chain' \in Seq(Entry) /\ emitted' \in Seq(Entry)
         /\ assistants' \in Seq(Assistant) /\ latest' \in 0 .. Len(assistants')
         /\ Kept' /\ Ended' /\ Stamped'
         /\ log' = log /\ disposed' = disposed
         /\ Len(emitted') = IF disposed THEN Len(emitted) ELSE Len(emitted) + 1
<1> DEFINE e == Head(chain)
           p == Len(log) - Len(chain)
<1>a. /\ log \in Seq(Entry) /\ chain \in Seq(Entry) /\ emitted \in Seq(Entry)
      /\ assistants \in Seq(Assistant) /\ latest \in 0 .. Len(assistants)
  BY DEF TypeOK, Assistant
<1>b. Len(log) \in Nat /\ Len(chain) \in Nat /\ Len(emitted) \in Nat
  BY <1>a
<1>1. /\ chain # <<>> /\ Describe(e) /\ Emit(e) /\ chain' = Tail(chain)
      /\ log' = log /\ disposed' = disposed /\ turn' = turn
  BY DEF Project, childVars
<1>2. /\ e \in Entry /\ e = chain[1] /\ Len(chain) >= 1
      /\ chain' \in Seq(Entry) /\ Len(chain') = Len(chain) - 1
      /\ \A k \in 1 .. Len(chain') : k + 1 \in 1 .. Len(chain) /\ chain'[k] = chain[k + 1]
  BY <1>a, <1>1
<1> HIDE DEF e
<1>3. p \in Nat /\ p + 1 \in 1 .. Len(log) /\ Len(log') - Len(chain') = p + 1
  BY <1>b, <1>1, <1>2 DEF Kept
<1>4. e = log[p + 1]
  <2>1. 1 \in 1 .. Len(chain)
    BY <1>b, <1>2
  <2> QED
    BY <1>2, <2>1 DEF Kept
<1>5. \A k \in 1 .. Len(chain') : chain'[k] = log'[Len(log') - Len(chain') + k]
  <2>1. ASSUME NEW k \in 1 .. Len(chain') PROVE p + (k + 1) = (p + 1) + k
    BY <1>3
  <2> QED
    BY <1>1, <1>2, <1>3, <2>1 DEF Kept
<1>6. /\ emitted' \in Seq(Entry)
      /\ Len(emitted') = IF disposed THEN Len(emitted) ELSE Len(emitted) + 1
      /\ \A k \in 1 .. Len(emitted) : emitted'[k] = emitted[k]
      /\ ~disposed => emitted'[Len(emitted) + 1] = e
  BY <1>a, <1>1, <1>2 DEF Emit
<1>7. Kept'
  <2>1. Len(emitted') + Len(chain') <= Len(log') /\ (~disposed' => Len(emitted') + Len(chain') = Len(log'))
    BY <1>b, <1>1, <1>2, <1>6 DEF Kept
  <2>2. ~disposed => Len(emitted) = p
    BY <1>b DEF Kept
  <2>3. \A k \in 1 .. Len(emitted') : emitted'[k] = log'[k]
    <3>1. CASE disposed
      BY <1>1, <1>6, <3>1 DEF Kept
    <3>2. ASSUME ~disposed, NEW k \in 1 .. Len(emitted') PROVE emitted'[k] = log'[k]
      <4>1. k \in 1 .. Len(emitted) \/ k = Len(emitted) + 1
        BY <1>b, <1>6, <3>2
      <4> QED
        BY <1>1, <1>4, <1>6, <2>2, <3>2, <4>1 DEF Kept
    <3> QED
      BY <3>1, <3>2
  <2> QED
    BY <1>5, <2>1, <2>3, Zenon DEF Kept
<1>8. Stamped'
  <2>1. assistants' \in Seq(Assistant) /\ Len(assistants) \in Nat
    BY <1>a, <1>1, <1>2, Described
  <2> DEFINE Mark(m, x) == m.turn = x.turn /\ m.stop = x.what
  <2>2. \A m \in Assistant : \A x \in Entry :
          /\ Mark(m, x) => m = [turn |-> x.turn, stop |-> x.what] /\ x = [turn |-> m.turn, what |-> m.stop]
          /\ m = [turn |-> x.turn, stop |-> x.what] => Mark(m, x)
    BY DEF Assistant, Entry
  <2>3. /\ \A k \in 1 .. Len(log) : log[k] \in Entry
        /\ \A i \in 1 .. Len(assistants) : assistants[i] \in Assistant
        /\ \A i \in 1 .. Len(assistants') : assistants'[i] \in Assistant
    BY <1>a, <2>1
  <2> HIDE DEF p
  <2>4. \A k \in 1 .. p : k \in 1 .. Len(log)
    BY <1>b, <1>3
  <2>5. /\ \A i \in 1 .. Len(assistants) :
             assistants[i].stop # "none" =>
               \E k \in 1 .. Len(log) : log[k] = [turn |-> assistants[i].turn, what |-> assistants[i].stop]
        /\ \A k \in 1 .. p : Failed(log[k]) => \E i \in 1 .. Len(assistants) : Mark(assistants[i], log[k])
    BY <2>2, <2>3, <2>4 DEF Stamped, p
  <2> HIDE DEF Mark
  <2>6. SUFFICES
          /\ \A i \in 1 .. Len(assistants') :
               assistants'[i].stop # "none" =>
                 \E k \in 1 .. Len(log) : log[k] = [turn |-> assistants'[i].turn, what |-> assistants'[i].stop]
          /\ \A k \in 1 .. p : Failed(log[k]) => \E i \in 1 .. Len(assistants') : Mark(assistants'[i], log[k])
          /\ Failed(e) => \E i \in 1 .. Len(assistants') : Mark(assistants'[i], e)
    <3>1. \A k \in 1 .. p + 1 : k \in 1 .. Len(log) /\ (k \in 1 .. p \/ k = p + 1)
      BY <1>b, <1>3
    <3>2. ASSUME NEW k \in 1 .. p + 1, Failed(log[k])
          PROVE  \E i \in 1 .. Len(assistants') : assistants'[i] = [turn |-> log[k].turn, stop |-> log[k].what]
      <4>1. PICK i \in 1 .. Len(assistants') : Mark(assistants'[i], log[k])
        BY <1>4, <2>6, <3>1, <3>2
      <4> QED
        BY <2>2, <2>3, <3>1, <4>1
    <3> QED
      BY <1>1, <1>3, <2>6, <3>2, Zenon DEF Stamped
  <2>7. CASE assistants' = assistants /\ ~Failed(e)
    BY <2>5, <2>7
  <2>8. ASSUME NEW m \in Assistant, assistants' = Append(assistants, m), m.turn = e.turn,
               \/ m.stop = "none" /\ ~Failed(e)
               \/ m.stop = e.what
        PROVE  /\ \A i \in 1 .. Len(assistants') :
                    assistants'[i].stop # "none" =>
                      \E k \in 1 .. Len(log) : log[k] = [turn |-> assistants'[i].turn, what |-> assistants'[i].stop]
               /\ \A k \in 1 .. p : Failed(log[k]) => \E i \in 1 .. Len(assistants') : Mark(assistants'[i], log[k])
               /\ Failed(e) => \E i \in 1 .. Len(assistants') : Mark(assistants'[i], e)
    <3>1. /\ Len(assistants') = Len(assistants) + 1 /\ assistants'[Len(assistants) + 1] = m
          /\ \A i \in 1 .. Len(assistants) : assistants'[i] = assistants[i]
      BY <1>a, <2>8
    <3>2. /\ \A i \in 1 .. Len(assistants') : i \in 1 .. Len(assistants) \/ i = Len(assistants) + 1
          /\ \A i \in 1 .. Len(assistants) : i \in 1 .. Len(assistants')
          /\ Len(assistants) + 1 \in 1 .. Len(assistants')
      BY <2>1, <3>1
    <3>3. m.stop # "none" => log[p + 1] = [turn |-> m.turn, what |-> m.stop] /\ Mark(m, e)
      BY <1>2, <1>4, <2>2, <2>8 DEF Mark
    <3>4. \A i \in 1 .. Len(assistants') :
            assistants'[i].stop # "none" =>
              \E k \in 1 .. Len(log) : log[k] = [turn |-> assistants'[i].turn, what |-> assistants'[i].stop]
      BY <1>3, <2>5, <3>1, <3>2, <3>3
    <3>5. \A k \in 1 .. p : Failed(log[k]) => \E i \in 1 .. Len(assistants') : Mark(assistants'[i], log[k])
      BY <2>5, <3>1, <3>2
    <3>6. Failed(e) => Mark(m, e)
      BY <2>8 DEF Mark
    <3> QED
      BY <3>1, <3>2, <3>4, <3>5, <3>6
  <2>9. ASSUME NEW m \in Assistant, latest \in 1 .. Len(assistants), assistants[latest].turn = e.turn,
               assistants' = [assistants EXCEPT ![latest] = m],
               m.turn = e.turn, m.stop = e.what, e.what \in Reasons
        PROVE  /\ \A i \in 1 .. Len(assistants') :
                    assistants'[i].stop # "none" =>
                      \E k \in 1 .. Len(log) : log[k] = [turn |-> assistants'[i].turn, what |-> assistants'[i].stop]
               /\ \A k \in 1 .. p : Failed(log[k]) => \E i \in 1 .. Len(assistants') : Mark(assistants'[i], log[k])
               /\ Failed(e) => \E i \in 1 .. Len(assistants') : Mark(assistants'[i], e)
    <3>1. /\ Len(assistants') = Len(assistants) /\ assistants'[latest] = m
          /\ \A i \in 1 .. Len(assistants) : i # latest => assistants'[i] = assistants[i]
      BY <1>a, <2>9
    <3>2. log[p + 1] = [turn |-> m.turn, what |-> m.stop] /\ Mark(m, e)
      BY <1>2, <1>4, <2>2, <2>9 DEF Mark
    <3>3. \A i \in 1 .. Len(assistants') :
            assistants'[i].stop # "none" =>
              \E k \in 1 .. Len(log) : log[k] = [turn |-> assistants'[i].turn, what |-> assistants'[i].stop]
      BY <1>3, <2>5, <3>1, <3>2
    <3>4. \A k \in 1 .. p : Failed(log[k]) => log[k].turn < e.turn
      BY <1>3, <1>4, <2>4 DEF Failed, Ended
    <3>5. ASSUME NEW k \in 1 .. p, Failed(log[k]) PROVE ~Mark(assistants[latest], log[k])
      <4>1. log[k].turn < e.turn /\ e.turn \in Nat
        BY <1>2, <3>4, <3>5, BoundsAssumption DEF Entry, MaxTurns
      <4>2. log[k].turn \in Nat
        BY <2>3, <2>4, BoundsAssumption DEF Entry, MaxTurns
      <4> QED
        BY <2>9, <4>1, <4>2 DEF Mark
    <3>6. \A k \in 1 .. p : Failed(log[k]) => \E i \in 1 .. Len(assistants') : Mark(assistants'[i], log[k])
      BY <2>5, <3>1, <3>5
    <3> QED
      BY <2>9, <3>1, <3>2, <3>3, <3>6
  <2> QED
    BY <1>a, <1>1, <1>2, <2>6, <2>7, <2>8, <2>9, Described
<1>9. Ended'
  BY <1>1 DEF Ended
<1> QED
  BY <1>a, <1>1, <1>2, <1>6, <1>7, <1>8, <1>9, Described

-----------------------------------------------------------------------------
\* The messages that open a turn are as many as turns may still be opened.
Messages == {"inject", "wake", "prompt"}

\* The messages in the inbox that open a turn can be counted,
LEMMA WakingCounts == ASSUME inbox \in Seq(Messages) PROVE IsFiniteSet(Waking) /\ Cardinality(Waking) \in Nat
<1>1. IsFiniteSet(1 .. Len(inbox)) /\ Waking \in SUBSET (1 .. Len(inbox))
  BY FS_Interval, Len(inbox) \in Int, 1 \in Int DEF Waking
<1> QED
  BY <1>1, FS_Subset, FS_CardinalityType

\* after the step as well.
LEMMA WakingStillCounts ==
  ASSUME inbox' \in Seq(Messages) PROVE IsFiniteSet(Waking') /\ Cardinality(Waking)' \in Nat
<1>1. IsFiniteSet(1 .. Len(inbox')) /\ Waking' \in SUBSET (1 .. Len(inbox'))
  BY FS_Interval, Len(inbox') \in Int, 1 \in Int DEF Waking
<1> QED
  BY <1>1, FS_Subset, FS_CardinalityType

\* A set grows by one at most.
LEMMA OneMore == ASSUME NEW S, IsFiniteSet(S), NEW x PROVE Cardinality(S \cup {x}) <= Cardinality(S) + 1
<1>1. Cardinality(S) \in Nat
  BY FS_CardinalityType
<1>2. Cardinality(S \cup {x}) = IF x \in S THEN Cardinality(S) ELSE Cardinality(S) + 1
  BY FS_AddElement
<1>3. CASE x \in S
  BY <1>1, <1>2, <1>3
<1>4. CASE x \notin S
  BY <1>1, <1>2, <1>4
<1> QED
  BY <1>3, <1>4

\* A message that is sent adds one to them, unless it is injected.
LEMMA InboxGrows ==
  ASSUME inbox \in Seq(Messages), NEW m \in Messages, inbox' = Append(inbox, m)
  PROVE  /\ inbox' \in Seq(Messages)
         /\ Cardinality(Waking)' <= Cardinality(Waking) + (IF m = "inject" THEN 0 ELSE 1)
<1>1. IsFiniteSet(Waking) /\ Cardinality(Waking) \in Nat
  BY WakingCounts
<1>2. Waking' = IF m = "inject" THEN Waking ELSE Waking \cup {Len(inbox) + 1}
  <2>1. /\ Len(inbox') = Len(inbox) + 1 /\ inbox'[Len(inbox) + 1] = m
        /\ \A i \in 1 .. Len(inbox) : inbox'[i] = inbox[i]
    OBVIOUS
  <2>2. \A i : i \in 1 .. Len(inbox) + 1 <=> i \in 1 .. Len(inbox) \/ i = Len(inbox) + 1
    OBVIOUS
  <2> QED
    BY <2>1, <2>2 DEF Waking
<1>3. inbox' \in Seq(Messages)
  OBVIOUS
<1>4. CASE m = "inject"
  BY <1>1, <1>2, <1>3, <1>4
<1>5. CASE m # "inject"
  <2>1. Cardinality(Waking \cup {Len(inbox) + 1}) <= Cardinality(Waking) + 1
    BY <1>1, OneMore, Zenon
  <2> QED
    BY <1>2, <1>3, <1>5, <2>1
<1> QED
  BY <1>4, <1>5

\* Opening a turn takes one of them, and whatever lies before it.
LEMMA InboxClaimed ==
  ASSUME inbox \in Seq(Messages), NEW claim \in Waking, inbox' = SubSeq(inbox, claim + 1, Len(inbox))
  PROVE  /\ inbox' \in Seq(Messages)
         /\ claim \in 1 .. Len(inbox)
         /\ Cardinality(Waking) >= 1
         /\ Cardinality(Waking)' <= Cardinality(Waking) - 1
         /\ \A i \in 1 .. Len(inbox') : claim + i \in 1 .. Len(inbox) /\ inbox'[i] = inbox[claim + i]
<1>1. claim \in 1 .. Len(inbox) /\ Len(inbox) \in Nat
  BY DEF Waking
<1>2. /\ inbox' \in Seq(Messages) /\ Len(inbox') = Len(inbox) - claim
      /\ \A i \in 1 .. Len(inbox') : claim + i \in 1 .. Len(inbox) /\ inbox'[i] = inbox[claim + i]
  BY <1>1
<1>3. IsFiniteSet(Waking) /\ Cardinality(Waking) \in Nat
  BY WakingCounts
<1> DEFINE rest == Waking \ {claim}
           f == [i \in Waking' |-> claim + i]
<1>4. IsFiniteSet(rest) /\ Cardinality(rest) = Cardinality(Waking) - 1
  BY <1>3, FS_RemoveElement
<1>5. Cardinality(rest) \in Nat
  BY <1>4, FS_CardinalityType
<1>6. \A i \in Waking' : i \in 1 .. Len(inbox') /\ inbox'[i] # "inject"
  BY DEF Waking
<1>7. \A i \in Waking' : i \in Nat \ {0} /\ claim + i \in rest
  BY <1>1, <1>2, <1>6 DEF Waking
<1>8. f \in Injection(Waking', rest)
  <2>1. f \in [Waking' -> rest]
    BY <1>7
  <2>2. \A i, j \in Waking' : f[i] = f[j] => i = j
    BY <1>1, <1>7
  <2> QED
    BY <2>1, <2>2 DEF Injection, IsInjective
<1>9. Cardinality(Waking') <= Cardinality(rest)
  BY <1>4, <1>8, FS_Injection
<1> QED
  BY <1>1, <1>2, <1>3, <1>4, <1>5, <1>9

-----------------------------------------------------------------------------
\* The types, with the records named.
Callers == [at : {"idle", "seed", "content", "waiting", "draining"},
            carrying : SUBSET Seeds, turn : 0 .. MaxTurns,
            done : {"no", "resolved", "rejected"}, ahead : Nat]
TurnRecords == [n : 0 .. MaxTurns, steps : 0 .. MaxSteps, live : BOOLEAN, cancelled : BOOLEAN,
                phase : {"idle", "opened", "stepping", "requested", "answered"}]

Typed ==
  /\ caller \in Callers /\ turn \in TurnRecords
  /\ issued \in 0 .. MaxPrompts /\ wakes \in 0 .. MaxWakes /\ answered \subseteq 0 .. MaxTurns
  /\ aborted \in BOOLEAN /\ disposed \in BOOLEAN /\ gone \in BOOLEAN
  /\ seed \subseteq Seeds /\ known \subseteq Seeds
  /\ inbox \in Seq(Messages)
  /\ log \in Seq(Entry) /\ chain \in Seq(Entry) /\ emitted \in Seq(Entry)
  /\ assistants \in Seq(Assistant) /\ latest \in 0 .. Len(assistants)

\* The type invariant, by parts.
LEMMA TypesNamed == (TypeOK <=> Typed) /\ (TypeOK' <=> Typed')
BY DEF TypeOK, Typed, Callers, TurnRecords, Messages, Assistant

\* What the constants are, from their assumption.
LEMMA Bounds == /\ MaxTurns \in Nat /\ MaxPrompts \in Nat /\ MaxWakes \in Nat /\ MaxSteps \in Nat
                /\ MaxTurns = MaxPrompts + MaxWakes
BY BoundsAssumption DEF MaxTurns

\* What a cancellation, or an opening event of an aborted child, leaves alone.
LEMMA GuardedRecord ==
  ASSUME NEW t \in TurnRecords
  PROVE  /\ t \in Turns /\ t.n \in 0 .. MaxTurns
         /\ Guarded(t) \in TurnRecords /\ Guarded(t).n = t.n /\ Guarded(t).phase = t.phase
         /\ Cancelled(t) \in TurnRecords /\ Cancelled(t).n = t.n /\ Cancelled(t).phase = t.phase
<1> DEFINE u == [t EXCEPT !.cancelled = TRUE]
<1>1. t \in Turns /\ t.n \in 0 .. MaxTurns
  BY Bounds DEF TurnRecords, Turns
<1>2. u \in TurnRecords /\ u.n = t.n /\ u.phase = t.phase
  BY DEF TurnRecords
<1>3. Cancelled(t) \in {t, u} /\ Guarded(t) \in {t, u}
  BY Zenon DEF Guarded, Cancelled
<1> HIDE DEF u
<1> QED
  BY <1>1, <1>2, <1>3

TurnTo(c, t) == [c EXCEPT !.turn = t]
Resolved(c)  == [c EXCEPT !.done = "resolved"]

\* A caller that learns its turn keeps the rest of its record.
LEMMA CallerTurn ==
  ASSUME NEW c \in Callers, NEW t \in 0 .. MaxTurns
  PROVE  /\ TurnTo(c, t) \in Callers /\ TurnTo(c, t).at = c.at /\ TurnTo(c, t).turn = t
         /\ TurnTo(c, t).done = c.done /\ TurnTo(c, t).ahead = c.ahead
BY DEF Callers, TurnTo

\* What the steps of a prompt make of the caller.
LEMMA CallerRecord ==
  ASSUME NEW c \in Callers
  PROVE  /\ Idle \in Callers /\ Idle.at = "idle" /\ Idle.done = "no"
         /\ Reject(c) \in Callers /\ Reject(c).at = c.at /\ Reject(c).turn = c.turn
         /\ Reject(c).done \in {c.done, "rejected"} /\ Reject(c).ahead = c.ahead
         /\ Resolved(c) \in Callers /\ Resolved(c).at = c.at /\ Resolved(c).turn = c.turn
         /\ Resolved(c).done = "resolved" /\ Resolved(c).ahead = c.ahead
BY Bounds DEF Callers, Idle, Reject, Resolved

\* A step that logs nothing leaves all that is said of the log.
LEMMA QuietLog ==
  ASSUME Kept, Ended, Stamped, UNCHANGED <<log, chain, emitted, assistants>>,
         disposed' = disposed \/ disposed' = TRUE,
         turn'.n = turn.n, turn'.phase # "idle" => turn.phase # "idle"
  PROVE  Kept' /\ Ended' /\ Stamped'
<1>1. Kept'
  BY DEF Kept
<1>2. Ended'
  BY DEF Ended
<1>3. Stamped'
  BY DEF Stamped
<1> QED
  BY <1>1, <1>2, <1>3

-----------------------------------------------------------------------------
\* A turn opens, and logs the messages that open it.
LEMMA OpensLogs ==
  ASSUME Typed, Budget, TurnOpens
  PROVE  /\ turn' \in TurnRecords /\ inbox' \in Seq(Messages) /\ caller' \in Callers
         /\ Budget'
         /\ \E es : Logs(es)
<1>1. PICK claim \in Waking, live \in BOOLEAN :
        /\ turn' = Guarded([n |-> turn.n + 1, steps |-> 0, live |-> live,
                            cancelled |-> FALSE, phase |-> "opened"])
        /\ Append2Log([i \in 1 .. claim |-> [turn |-> turn.n + 1, what |-> "user"]])
        /\ caller' = IF inbox[claim] = "prompt" /\ caller.at = "waiting"
                     THEN [caller EXCEPT !.turn = turn.n + 1] ELSE caller
        /\ inbox' = SubSeq(inbox, claim + 1, Len(inbox))
  BY DEF TurnOpens
<1>a. /\ caller \in Callers /\ turn \in TurnRecords /\ inbox \in Seq(Messages) /\ disposed \in BOOLEAN
      /\ issued \in 0 .. MaxPrompts /\ wakes \in 0 .. MaxWakes
  BY DEF Typed
<1>b. UNCHANGED <<issued, wakes, disposed, emitted, assistants, latest>>
  BY DEF TurnOpens, projectVars
<1>2. /\ inbox' \in Seq(Messages) /\ claim \in 1 .. Len(inbox) /\ Cardinality(Waking) >= 1
      /\ Cardinality(Waking)' <= Cardinality(Waking) - 1
  BY <1>1, <1>a, InboxClaimed
<1>3. Cardinality(Waking) \in Nat /\ Cardinality(Waking)' \in Nat
  BY <1>2, <1>a, WakingCounts, WakingStillCounts
<1> DEFINE t  == [n |-> turn.n + 1, steps |-> 0, live |-> live, cancelled |-> FALSE, phase |-> "opened"]
           e  == [turn |-> turn.n + 1, what |-> "user"]
           es == [i \in 1 .. claim |-> e]
<1>4. turn.n \in Nat /\ turn.n + 1 \in 1 .. MaxTurns
  BY <1>2, <1>3, <1>a, Bounds, SMTT(30) DEF Budget, OnItsWay, TurnRecords
<1>5. t \in TurnRecords /\ t.n = turn.n + 1 /\ t.phase = "opened"
  BY <1>4, Bounds DEF TurnRecords
<1>6. turn' \in TurnRecords /\ turn'.n = turn.n + 1 /\ turn'.phase = "opened" /\ turn' \in Turns
  BY <1>1, <1>5, GuardedRecord
<1>7. caller' \in Callers /\ caller'.at = caller.at
  <2>1. caller' \in {TurnTo(caller, turn.n + 1), caller} /\ turn.n + 1 \in 0 .. MaxTurns
    BY <1>1, <1>4, Bounds DEF TurnTo
  <2> QED
    BY <1>a, <2>1, CallerTurn
<1>8. Budget'
  <2>1. OnItsWay' = OnItsWay /\ OnItsWay \in 0 .. 1
    BY <1>7 DEF OnItsWay
  <2>2. turn'.n + Cardinality(Waking)' <= turn.n + Cardinality(Waking)
    BY <1>2, <1>3, <1>4, <1>6
  <2>3. turn'.n \in Nat /\ OnItsWay' \in Nat /\ issued' = issued /\ wakes' = wakes /\ issued + wakes \in Nat
    BY <1>4, <1>6, <1>a, <1>b, <2>1, Bounds
  <2> QED
    BY <1>3, <1>4, <2>1, <2>2, <2>3 DEF Budget
<1>9. Logs(es)
  <2>1. e \in Entry /\ e.turn = turn.n + 1 /\ e.what = "user" /\ "user" \notin Reasons
    BY <1>4 DEF Entry, Reasons
  <2> HIDE DEF e, Entry, Reasons
  <2>2. /\ es \in Seq(Entry) /\ Len(es) = claim
        /\ \A k \in 1 .. Len(es) : es[k] = e
    BY <1>2, <2>1
  <2> HIDE DEF es
  <2>3. Append2Log(es)
    BY <1>1 DEF es, e
  <2> QED
    BY <1>4, <1>6, <1>b, <2>1, <2>2, <2>3 DEF Logs
<1> QED
  BY <1>2, <1>6, <1>7, <1>8, <1>9

\* A message or the end of the turn that runs is logged.
LEMMA WritesLog ==
  ASSUME Typed, Ended, AssistantMessage \/ TurnEnds
  PROVE  /\ turn' \in TurnRecords /\ turn'.n = turn.n
         /\ \E es : Logs(es) /\ Len(es) = 1 /\ (TurnEnds => es[1].what \in Reasons)
<1>a. turn \in TurnRecords /\ turn.n \in 1 .. MaxTurns /\ turn.phase # "idle"
  BY Bounds, SMTT(30) DEF Typed, TurnRecords, Ended, AssistantMessage, TurnEnds
<1>b. UNCHANGED <<disposed, emitted, assistants, latest>>
  BY DEF AssistantMessage, TurnEnds, projectVars
<1>1. /\ turn' \in TurnRecords /\ turn' \in Turns /\ turn'.n = turn.n
      /\ TurnEnds => turn'.phase = "idle"
  <2>1. LET t == [turn EXCEPT !.phase = "answered"] IN t \in TurnRecords /\ t.n = turn.n
    BY <1>a DEF TurnRecords
  <2>2. LET t == [turn EXCEPT !.phase = "idle", !.live = FALSE]
        IN t \in TurnRecords /\ t.n = turn.n /\ t.phase = "idle"
    BY <1>a DEF TurnRecords
  <2>3. \/ turn' = [turn EXCEPT !.phase = "answered"] /\ ~TurnEnds
        \/ turn' = [turn EXCEPT !.phase = "idle", !.live = FALSE]
    BY DEF AssistantMessage, TurnEnds
  <2> QED
    BY <2>1, <2>2, <2>3, GuardedRecord
<1>2. PICK what : /\ what \in {"user", "assistant"} \cup Reasons
                  /\ Append2Log(<<[turn |-> turn.n, what |-> what]>>)
                  /\ what \in Reasons => turn'.phase = "idle"
                  /\ TurnEnds => what \in Reasons
  <2>1. CASE TurnEnds
    BY <1>1, <2>1 DEF TurnEnds
  <2>2. CASE AssistantMessage /\ ~TurnEnds
    BY <2>2 DEF AssistantMessage, Reasons
  <2> QED
    BY <2>1, <2>2
<1> DEFINE e == [turn |-> turn.n, what |-> what]
<1>3. e \in Entry /\ e.turn = turn.n /\ e.what = what
  BY <1>2, <1>a DEF Entry
<1> HIDE DEF e, Entry
<1>4. <<e>> \in Seq(Entry) /\ Len(<<e>>) = 1 /\ <<e>>[1] = e
  BY <1>3
<1> DEFINE es == <<e>>
<1> HIDE DEF es
<1>5. es \in Seq(Entry) /\ Len(es) = 1 /\ es[1] = e /\ Append2Log(es)
  BY <1>2, <1>4 DEF es, e
<1>6. \A k \in 1 .. Len(es) : es[k] = e
  BY <1>5
<1> QED
  BY <1>1, <1>2, <1>3, <1>5, <1>6, <1>a, <1>b DEF Logs

-----------------------------------------------------------------------------
\* The budget holds when no turn opens and what could open one does not grow.
LEMMA BudgetKept ==
  ASSUME Typed, Typed', Budget, turn'.n = turn.n,
         Cardinality(Waking)' + OnItsWay' + issued + wakes <= Cardinality(Waking) + OnItsWay + issued' + wakes'
  PROVE  Budget'
<1>1. /\ Cardinality(Waking) \in Nat /\ Cardinality(Waking)' \in Nat
      /\ OnItsWay \in Nat /\ OnItsWay' \in Nat
  BY WakingCounts, WakingStillCounts DEF Typed, OnItsWay
<1>2. /\ turn.n \in Nat /\ issued \in Nat /\ wakes \in Nat /\ issued' \in Nat /\ wakes' \in Nat
  BY Bounds DEF Typed, TurnRecords
<1> QED
  BY <1>1, <1>2 DEF Budget

\* A step that leaves the inbox and the counts.
LEMMA BudgetSame ==
  ASSUME Typed, Typed', Budget, turn'.n = turn.n, UNCHANGED <<inbox, issued, wakes>>,
         caller'.at \in {"seed", "content"} => caller.at \in {"seed", "content"}
  PROVE  Budget'
<1>1. Cardinality(Waking)' = Cardinality(Waking) /\ Cardinality(Waking) \in Nat
  BY WakingCounts DEF Waking, Typed
<1>2. OnItsWay' <= OnItsWay /\ OnItsWay \in Nat /\ OnItsWay' \in Nat
  BY DEF OnItsWay
<1>3. issued \in Nat /\ wakes \in Nat
  BY Bounds DEF Typed
<1> QED
  BY <1>1, <1>2, <1>3, BudgetKept

\* The steps that log nothing and project nothing.
QuietSteps ==
  \/ \E next \in (SUBSET Seeds) \ {{}} : AssignTranscript(next)
  \/ Prompt \/ Abort \/ Dispose \/ Wake \/ PromptStep \/ StepStarts \/ RequestSent \/ AgentGone

\* A quiet step keeps types and budget, and opens no turn.
LEMMA QuietTyped ==
  ASSUME Typed, Budget, QuietSteps
  PROVE  /\ Typed' /\ Budget'
         /\ UNCHANGED <<log, chain, emitted, assistants>>
         /\ disposed' = disposed \/ disposed' = TRUE
         /\ turn'.n = turn.n /\ (turn'.phase # "idle" => turn.phase # "idle")
<1>a. /\ caller \in Callers /\ turn \in TurnRecords /\ inbox \in Seq(Messages)
      /\ issued \in Nat /\ wakes \in Nat /\ MaxPrompts \in Nat /\ MaxWakes \in Nat
  BY Bounds DEF Typed
<1>b. Cardinality(Waking) \in Nat
  BY <1>a, WakingCounts
<1>1. ASSUME NEW next \in (SUBSET Seeds) \ {{}}, AssignTranscript(next)
      PROVE  /\ Typed' /\ UNCHANGED <<caller, turn, inbox, issued, wakes, disposed, log, chain, emitted, assistants>>
  BY <1>1 DEF AssignTranscript, Typed, promptVars, childVars, projectVars
<1>2. CASE Prompt
  <2>1. caller' \in Callers /\ caller'.at \in {"seed", "content"}
    <3>1. seed \in SUBSET Seeds /\ 0 \in 0 .. MaxTurns
      BY Bounds DEF Typed
    <3>2. PICK at \in {"seed", "content"} : caller' = [Idle EXCEPT !.at = at, !.carrying = seed]
      BY <1>2 DEF Prompt
    <3>3. caller' = [at |-> at, carrying |-> seed, turn |-> 0, done |-> "no", ahead |-> 0]
      BY <3>2 DEF Idle
    <3> QED
      BY <3>1, <3>3 DEF Callers
  <2>2. /\ UNCHANGED <<turn, inbox, wakes, disposed, log, chain, emitted, assistants, answered, known, gone, latest>>
        /\ issued' = issued + 1 /\ issued < MaxPrompts /\ aborted' = FALSE /\ seed' = {} /\ caller.at = "idle"
    BY <1>2 DEF Prompt, childVars, projectVars
  <2>3. issued' \in 0 .. MaxPrompts
    BY <1>a, <2>2
  <2>4. Typed'
    BY <2>1, <2>2, <2>3 DEF Typed
  <2>5. /\ Cardinality(Waking)' = Cardinality(Waking)
        /\ OnItsWay = 0 /\ OnItsWay' = 1
    BY <2>1, <2>2 DEF Waking, OnItsWay
  <2>6. Budget'
    BY <1>a, <1>b, <2>2, <2>4, <2>5, BudgetKept
  <2> QED
    BY <2>2, <2>4, <2>6
<1>3. CASE Abort
  <2>1. turn' \in TurnRecords /\ turn'.n = turn.n /\ turn'.phase = turn.phase
    BY <1>3, <1>a, GuardedRecord DEF Abort
  <2>2. UNCHANGED <<caller, inbox, issued, wakes, disposed, log, chain, emitted, assistants, answered,
                    seed, known, gone, latest>> /\ aborted' = TRUE
    BY <1>3 DEF Abort, promptVars, seedVars, projectVars
  <2>3. Typed'
    BY <2>1, <2>2 DEF Typed
  <2> QED
    BY <2>1, <2>2, <2>3, BudgetSame
<1>4. CASE Dispose
  <2>1. caller' \in Callers /\ caller'.at = caller.at
    BY <1>4, <1>a, CallerRecord DEF Dispose
  <2>2. UNCHANGED <<turn, inbox, issued, wakes, log, chain, emitted, assistants, answered, aborted,
                    seed, known, gone, latest>> /\ disposed' = TRUE
    BY <1>4 DEF Dispose, seedVars, childVars, projectVars
  <2>3. Typed'
    BY <2>1, <2>2 DEF Typed
  <2> QED
    BY <2>1, <2>2, <2>3, BudgetSame
<1>5. CASE Wake
  <2>1. /\ UNCHANGED <<caller, turn, issued, disposed, log, chain, emitted, assistants, answered, aborted,
                       seed, known, gone, latest>>
        /\ wakes' = wakes + 1 /\ wakes < MaxWakes /\ inbox' = Append(inbox, "wake")
    BY <1>5 DEF Wake, promptVars, seedVars, projectVars
  <2>2. inbox' \in Seq(Messages) /\ Cardinality(Waking)' <= Cardinality(Waking) + 1 /\ "wake" # "inject"
    BY <1>a, <2>1, InboxGrows, "wake" \in Messages DEF Messages
  <2>3. wakes' \in 0 .. MaxWakes
    BY <1>a, <2>1
  <2>4. Typed'
    BY <2>1, <2>2, <2>3 DEF Typed
  <2>5. OnItsWay' = OnItsWay /\ OnItsWay \in Nat /\ Cardinality(Waking)' \in Nat
    BY <2>1, <2>2, WakingStillCounts DEF OnItsWay
  <2>6. Budget'
    BY <1>a, <1>b, <2>1, <2>2, <2>4, <2>5, BudgetKept, SMTT(30)
  <2> QED
    BY <2>1, <2>4, <2>6
<1>6. CASE InjectSeed \/ DeliverPrompt
  <2>1. /\ UNCHANGED <<turn, issued, wakes, disposed, log, chain, emitted, assistants, answered, aborted,
                       seed, known, gone, latest>>
        /\ caller.at \in {"seed", "content"}
    BY <1>6 DEF InjectSeed, DeliverPrompt, seedVars, projectVars
  <2>2. CASE gone
    <3>1. caller' \in Callers /\ caller'.at = "idle" /\ inbox' = inbox
      BY <1>6, <1>a, <2>2, CallerRecord DEF InjectSeed, DeliverPrompt
    <3>2. Typed'
      BY <2>1, <3>1 DEF Typed
    <3> QED
      BY <2>1, <3>1, <3>2, BudgetSame
  <2>3. ASSUME NEW m \in Messages, inbox' = Append(inbox, m), caller' \in Callers,
               IF m = "inject" THEN caller'.at = "content" ELSE caller'.at = "waiting"
        PROVE  Typed' /\ Budget'
    <3>1. /\ inbox' \in Seq(Messages)
          /\ Cardinality(Waking)' <= Cardinality(Waking) + (IF m = "inject" THEN 0 ELSE 1)
      BY <1>a, <2>3, InboxGrows
    <3>2. Typed'
      BY <2>1, <2>3, <3>1 DEF Typed
    <3>3. OnItsWay = 1 /\ OnItsWay' = IF m = "inject" THEN 1 ELSE 0
      BY <2>1, <2>3 DEF OnItsWay
    <3>4. Cardinality(Waking)' \in Nat
      BY <3>1, WakingStillCounts
    <3>5. Cardinality(Waking)' + OnItsWay' + issued + wakes <= Cardinality(Waking) + OnItsWay + issued' + wakes'
      <4>1. CASE m = "inject"
        BY <1>a, <1>b, <2>1, <3>1, <3>3, <3>4, <4>1
      <4>2. CASE m # "inject"
        BY <1>a, <1>b, <2>1, <3>1, <3>3, <3>4, <4>2
      <4> QED
        BY <4>1, <4>2
    <3> QED
      BY <2>1, <3>2, <3>5, BudgetKept
  <2>4. CASE ~gone /\ InjectSeed
    <3>1. inbox' = Append(inbox, "inject") /\ caller' = [caller EXCEPT !.at = "content", !.carrying = {}]
      BY <2>4 DEF InjectSeed
    <3>2. caller' \in Callers /\ caller'.at = "content" /\ "inject" \in Messages
      BY <1>a, <3>1 DEF Callers, Messages
    <3> QED
      BY <2>1, <2>3, <3>1, <3>2
  <2>5. CASE ~gone /\ DeliverPrompt
    <3>1. inbox' = Append(inbox, "prompt") /\ caller' = [caller EXCEPT !.at = "waiting"]
      BY <2>5 DEF DeliverPrompt
    <3>2. caller' \in Callers /\ caller'.at = "waiting" /\ "prompt" \in Messages /\ "prompt" # "inject"
      BY <1>a, <3>1 DEF Callers, Messages
    <3> QED
      BY <2>1, <2>3, <3>1, <3>2
  <2> QED
    BY <1>6, <2>1, <2>2, <2>4, <2>5
<1>7. CASE AwaitProjection \/ PromptResolves \/ PromptRejects
  <2>1. /\ UNCHANGED <<turn, inbox, issued, wakes, disposed, log, chain, emitted, assistants, aborted,
                       seed, known, gone, latest>>
    BY <1>7 DEF AwaitProjection, PromptResolves, PromptRejects, seedVars, childVars, projectVars
  <2>2. Len(chain) \in Nat /\ caller.turn \in 0 .. MaxTurns
    BY <1>a DEF Typed, Callers
  <2>3. caller' \in Callers /\ caller'.at \notin {"seed", "content"}
    <3>1. CASE AwaitProjection
      BY <1>a, <2>2, <3>1 DEF AwaitProjection, Callers
    <3>2. CASE PromptResolves \/ PromptRejects
      BY <1>a, <3>2, CallerRecord DEF PromptResolves, PromptRejects
    <3> QED
      BY <1>7, <3>1, <3>2
  <2>4. answered' \subseteq 0 .. MaxTurns
    BY <1>7, <2>2 DEF AwaitProjection, PromptResolves, PromptRejects, Typed
  <2>5. Typed'
    BY <2>1, <2>3, <2>4 DEF Typed
  <2> QED
    BY <2>1, <2>3, <2>5, BudgetSame
<1>8. CASE StepStarts \/ RequestSent
  <2>1. UNCHANGED <<caller, inbox, issued, wakes, disposed, log, chain, emitted, assistants, answered, aborted,
                    seed, known, gone, latest>>
    BY <1>8 DEF StepStarts, RequestSent, promptVars, seedVars, projectVars
  <2>2. turn' \in TurnRecords /\ turn'.n = turn.n /\ turn.phase # "idle"
    <3>1. CASE StepStarts
      <4>1. PICK live \in BOOLEAN :
              turn' = Guarded([turn EXCEPT !.phase = "stepping", !.steps = @ + 1, !.live = live])
        BY <3>1, <1>a DEF StepStarts, TurnRecords
      <4>2. turn.steps + 1 \in 0 .. MaxSteps
        BY <3>1, <1>a, Bounds DEF StepStarts, TurnRecords
      <4>3. \A k \in 0 .. MaxSteps : LET t == [turn EXCEPT !.phase = "stepping", !.steps = k, !.live = live]
                                    IN t \in TurnRecords /\ t.n = turn.n
        BY <1>a DEF TurnRecords
      <4> QED
        BY <3>1, <4>1, <4>2, <4>3, GuardedRecord DEF StepStarts
    <3>2. CASE RequestSent
      <4>1. LET t == [turn EXCEPT !.phase = "requested", !.live = TRUE] IN t \in TurnRecords /\ t.n = turn.n
        BY <1>a DEF TurnRecords
      <4> QED
        BY <3>2, <4>1, GuardedRecord DEF RequestSent
    <3> QED
      BY <1>8, <3>1, <3>2
  <2>3. Typed'
    BY <2>1, <2>2 DEF Typed
  <2> QED
    BY <2>1, <2>2, <2>3, BudgetSame
<1>9. CASE AgentGone
  <2>1. /\ UNCHANGED <<issued, wakes, disposed, log, chain, emitted, assistants, answered, aborted,
                       seed, known, latest>>
        /\ gone' = TRUE /\ inbox' = <<>>
    BY <1>9 DEF AgentGone, seedVars, projectVars
  <2>2. turn' \in TurnRecords /\ turn'.n = turn.n /\ turn'.phase = "idle"
    BY <1>9, <1>a DEF AgentGone, TurnRecords
  <2>3. caller' \in Callers /\ caller'.at = caller.at
    BY <1>9, <1>a, CallerRecord DEF AgentGone
  <2>4. inbox' \in Seq(Messages) /\ Waking' = {}
    BY <2>1 DEF Waking
  <2>5. Typed'
    BY <2>1, <2>2, <2>3, <2>4 DEF Typed
  <2>6. Cardinality(Waking)' = 0 /\ OnItsWay' = OnItsWay /\ OnItsWay \in Nat
    BY <2>3, <2>4, FS_EmptySet DEF OnItsWay
  <2>7. Budget'
    BY <1>a, <1>b, <2>1, <2>2, <2>5, <2>6, BudgetKept
  <2> QED
    BY <2>1, <2>2, <2>5, <2>7
<1>10. CASE PromptStep
  BY <1>6, <1>7, <1>10 DEF PromptStep
<1> QED
  BY <1>1, <1>2, <1>3, <1>4, <1>5, <1>8, <1>9, <1>10, BudgetSame DEF QuietSteps

-----------------------------------------------------------------------------
\* What was over at a place of the log is over at every later one,
LEMMA OverLater ==
  ASSUME NEW n, NEW j \in Nat, NEW k \in Nat, j <= k, log \in Seq(Entry), Over(n, j)
  PROVE  Over(n, k)
BY DEF Over, OverIn

\* and stays so while the log stays.
LEMMA QuietOver ==
  ASSUME log' = log, NEW n, NEW k, Over(n, k) PROVE Over(n, k)'
BY DEF Over, OverIn

\* A step that logs and projects nothing, and after which no prompt is further
\* on than before.
LEMMA WaitedSame ==
  ASSUME Waited, UNCHANGED <<log, emitted, answered>>, disposed' = disposed \/ disposed' = TRUE,
         \/ caller' = caller
         \/ caller'.done # "resolved" /\ caller'.at # "draining"
         \/ UNCHANGED <<caller.at, caller.turn, caller.done, caller.ahead>>
  PROVE  Waited'
<1>1. \A n, k : Over(n, k) => Over(n, k)'
  BY QuietOver
<1>2. CASE caller'.done # "resolved" /\ caller'.at # "draining"
  BY <1>1, <1>2 DEF Waited
<1>3. CASE UNCHANGED <<caller.at, caller.turn, caller.done, caller.ahead>>
  BY <1>3 DEF Waited, Over, OverIn
<1> QED
  BY <1>2, <1>3

\* A step that leaves the inbox, or empties it.
LEMMA UnclaimedSame ==
  ASSUME Unclaimed, inbox' = inbox \/ inbox' = <<>>, disposed' = disposed \/ disposed' = TRUE,
         caller'.at \in {"idle", "seed", "content"} => caller'.done = "no" /\ caller'.turn = 0,
         \/ caller' = caller
         \/ disposed' \/ inbox' = <<>>
         \/ caller.at # "waiting"
         \/ caller.done # "no"
  PROVE  Unclaimed'
BY DEF Unclaimed

\* A quiet step keeps what callers wait for.
LEMMA QuietWaits ==
  ASSUME Typed, Kept, Unclaimed, Waited, QuietSteps,
         UNCHANGED <<log, chain, emitted>>, disposed' = disposed \/ disposed' = TRUE
  PROVE  Unclaimed' /\ Waited'
<1>a. /\ caller \in Callers /\ inbox \in Seq(Messages)
      /\ log \in Seq(Entry) /\ chain \in Seq(Entry) /\ emitted \in Seq(Entry)
  BY DEF Typed
<1>b. /\ caller.at \in {"idle", "seed", "content"} => caller.done = "no" /\ caller.turn = 0
  BY DEF Unclaimed
<1>c. Idle.at = "idle" /\ Idle.done = "no" /\ Idle.turn = 0
  BY DEF Idle
<1>1. CASE caller' = caller /\ inbox' = inbox /\ answered' = answered
  BY <1>1, <1>b, WaitedSame, UnclaimedSame
<1>2. ASSUME NEW next \in (SUBSET Seeds) \ {{}}, AssignTranscript(next) PROVE Unclaimed' /\ Waited'
  BY <1>1, <1>2 DEF AssignTranscript, promptVars, childVars
<1>3. CASE Abort \/ StepStarts \/ RequestSent
  BY <1>1, <1>3 DEF Abort, StepStarts, RequestSent, promptVars
<1>4. CASE Prompt
  <2>1. PICK at \in {"seed", "content"} : caller' = [Idle EXCEPT !.at = at, !.carrying = seed]
    BY <1>4 DEF Prompt
  <2>2. caller'.at = at /\ caller'.done = "no" /\ caller'.turn = 0
    BY <2>1 DEF Idle
  <2>3. inbox' = inbox /\ answered' = answered /\ caller.at = "idle"
    BY <1>4 DEF Prompt, childVars
  <2> QED
    BY <2>2, <2>3, WaitedSame, UnclaimedSame
<1>5. CASE Dispose \/ AgentGone
  <2>1. /\ answered' = answered /\ caller' = Reject(caller)
        /\ \/ disposed' /\ inbox' = inbox
           \/ inbox' = <<>>
    BY <1>5 DEF Dispose, AgentGone, childVars
  <2>2. /\ Reject(caller) = caller \/ Reject(caller).done = "rejected"
        /\ Reject(caller).at = caller.at /\ Reject(caller).turn = caller.turn
        /\ Reject(caller).at \in {"idle", "seed", "content"} => Reject(caller) = caller
        /\ Reject(caller).at = "draining" => Reject(caller) = caller
    BY <1>a DEF Reject, Callers
  <2>3. caller'.at \in {"idle", "seed", "content"} => caller'.done = "no" /\ caller'.turn = 0
    BY <1>b, <2>1, <2>2
  <2>4. Unclaimed'
    BY <2>1, <2>3, UnclaimedSame
  <2>5. caller' = caller \/ (caller'.done # "resolved" /\ caller'.at # "draining")
    BY <2>1, <2>2
  <2> QED
    BY <2>1, <2>4, <2>5, WaitedSame
<1>6. ASSUME NEW m \in {"inject", "wake"}, inbox' = Append(inbox, m), answered' = answered,
             \/ caller' = caller
             \/ caller.at = "seed" /\ caller'.at = "content" /\ UNCHANGED <<caller.turn, caller.done>>
      PROVE  Unclaimed' /\ Waited'
  <2>1. /\ \A i \in 1 .. Len(inbox') : inbox'[i] = "prompt" => i \in 1 .. Len(inbox) /\ inbox[i] = "prompt"
    BY <1>a, <1>6
  <2>2. Unclaimed'
    BY <1>6, <2>1 DEF Unclaimed
  <2>3. Waited'
    BY <1>6, <1>b, WaitedSame
  <2> QED
    BY <2>2, <2>3
<1>7. CASE Wake
  BY <1>6, <1>7 DEF Wake, promptVars
<1>8. CASE InjectSeed
  <2>1. answered' = answered /\ caller.at = "seed"
    BY <1>8 DEF InjectSeed
  <2>2. CASE gone
    BY <1>8, <1>c, <2>1, <2>2, WaitedSame, UnclaimedSame DEF InjectSeed
  <2>3. CASE ~gone
    <3>1. inbox' = Append(inbox, "inject") /\ caller' = [caller EXCEPT !.at = "content", !.carrying = {}]
      BY <1>8, <2>3 DEF InjectSeed
    <3>2. caller'.at = "content" /\ UNCHANGED <<caller.turn, caller.done>>
      BY <1>a, <3>1 DEF Callers
    <3> QED
      BY <1>6, <2>1, <3>1, <3>2
  <2> QED
    BY <2>2, <2>3
<1>9. CASE DeliverPrompt
  <2>1. answered' = answered /\ caller.at = "content" /\ caller.done = "no" /\ caller.turn = 0
    BY <1>9, <1>b DEF DeliverPrompt
  <2>2. CASE gone
    BY <1>9, <1>c, <2>1, <2>2, WaitedSame, UnclaimedSame DEF DeliverPrompt
  <2>3. CASE ~gone
    <3>1. inbox' = Append(inbox, "prompt") /\ caller' = [caller EXCEPT !.at = "waiting"]
      BY <1>9, <2>3 DEF DeliverPrompt
    <3>2. caller'.at = "waiting" /\ caller'.turn = 0 /\ caller'.done = "no"
      BY <1>a, <2>1, <3>1 DEF Callers
    <3>3. \A i \in 1 .. Len(inbox') : (i \in 1 .. Len(inbox) /\ inbox'[i] = inbox[i]) \/ i = Len(inbox) + 1
      BY <1>a, <3>1
    <3>4. ~disposed' => \A i \in 1 .. Len(inbox) : inbox[i] # "prompt"
      BY <2>1 DEF Unclaimed
    <3>5. Unclaimed'
      BY <3>2, <3>3, <3>4 DEF Unclaimed
    <3> QED
      BY <2>1, <3>2, <3>5, WaitedSame
  <2> QED
    BY <2>2, <2>3
<1>10. CASE AwaitProjection
  <2>1. /\ caller' = [caller EXCEPT !.at = "draining", !.ahead = Len(chain)]
        /\ caller.done = "resolved" /\ inbox' = inbox /\ answered' = answered /\ disposed' = disposed
    BY <1>10 DEF AwaitProjection, childVars
  <2>2. /\ caller'.at = "draining" /\ caller'.ahead = Len(chain) /\ caller'.turn = caller.turn
        /\ caller'.done = "resolved"
    BY <1>a, <2>1 DEF Callers
  <2>3. Unclaimed'
    BY <2>1, <2>2, UnclaimedSame
  <2>4. ~disposed => Len(emitted') + caller'.ahead = Len(log)
    BY <2>2 DEF Kept
  <2>5. ~disposed => Over(caller.turn, Len(log))'
    <3>1. ~disposed => Over(caller.turn, Len(log))
      BY <2>1 DEF Waited
    <3> QED
      BY <2>2, <3>1 DEF Over, OverIn
  <2>6. \A n \in answered' : Over(n, Len(emitted))'
    BY <2>1 DEF Waited, Over, OverIn
  <2> QED
    BY <2>1, <2>2, <2>3, <2>4, <2>5, <2>6 DEF Waited, Over, OverIn
<1>11. CASE PromptResolves
  <2>1. /\ caller.at = "draining" /\ caller.ahead = 0 /\ caller' = Idle /\ inbox' = inbox
        /\ answered' = IF disposed THEN answered ELSE answered \cup {caller.turn}
        /\ disposed' = disposed
    BY <1>11 DEF PromptResolves, childVars
  <2>2. Unclaimed'
    BY <1>c, <2>1, UnclaimedSame
  <2>3. ~disposed => Over(caller.turn, Len(emitted))
    BY <1>a, <2>1 DEF Waited
  <2>4. \A n \in answered' : Over(n, Len(emitted))'
    BY <2>1, <2>3 DEF Waited, Over, OverIn
  <2> QED
    BY <1>c, <2>1, <2>2, <2>4 DEF Waited
<1>12. CASE PromptRejects
  BY <1>12, <1>c, WaitedSame, UnclaimedSame DEF PromptRejects, childVars
<1> QED
  BY <1>2, <1>3, <1>4, <1>5, <1>7, <1>8, <1>9, <1>10, <1>11, <1>12 DEF QuietSteps, PromptStep

\* Every step keeps the invariant.
LEMMA StepDelivered == DeliveredInv /\ [Next]_vars => DeliveredInv'
<1> SUFFICES ASSUME DeliveredInv, [Next]_vars PROVE DeliveredInv'
  OBVIOUS
<1>a. TypeOK /\ Typed /\ Budget /\ Kept /\ Ended /\ Stamped /\ Unclaimed /\ Waited
  BY TypesNamed DEF DeliveredInv
<1>b. /\ caller \in Callers /\ turn \in TurnRecords /\ inbox \in Seq(Messages)
      /\ log \in Seq(Entry) /\ chain \in Seq(Entry) /\ emitted \in Seq(Entry)
  BY <1>a DEF Typed
<1>c. SUFFICES Typed' /\ Budget' /\ Kept' /\ Ended' /\ Stamped' /\ Unclaimed' /\ Waited'
  BY <1>c, TypesNamed DEF DeliveredInv
<1>1. CASE UNCHANGED vars
  <2>1. UNCHANGED <<caller, issued, answered, aborted, seed, known, disposed, gone, inbox, turn, wakes,
                    log, chain, emitted, assistants, latest>>
    BY <1>1 DEF vars, promptVars, seedVars, childVars, projectVars
  <2>2. Typed' /\ Budget'
    BY <1>a, <2>1 DEF Typed, Budget, Waking, OnItsWay
  <2>3. Kept' /\ Ended' /\ Stamped'
    BY <1>a, <2>1, QuietLog
  <2>4. Unclaimed' /\ Waited'
    BY <1>a, <2>1, WaitedSame DEF Unclaimed
  <2> QED
    BY <2>2, <2>3, <2>4
<1>2. CASE QuietSteps
  BY <1>a, <1>2, QuietTyped, QuietLog, QuietWaits
<1>3. CASE TurnOpens
  <2>1. /\ turn' \in TurnRecords /\ inbox' \in Seq(Messages) /\ caller' \in Callers /\ Budget'
        /\ \E es : Logs(es)
    BY <1>3, <1>a, OpensLogs
  <2>2. /\ log' \in Seq(Entry) /\ chain' \in Seq(Entry) /\ Kept' /\ Ended' /\ Stamped'
        /\ (\A n, k : Over(n, k) => OverIn(log', n, k)) /\ Len(log') >= Len(log)
    BY <1>a, <2>1, LogGrows
  <2>3. UNCHANGED <<issued, answered, aborted, seed, known, disposed, gone, wakes, emitted, assistants, latest>>
    BY <1>3 DEF TurnOpens, seedVars, projectVars
  <2>4. Typed'
    BY <1>a, <2>1, <2>2, <2>3 DEF Typed
  <2>5. PICK claim \in Waking :
          /\ caller' = IF inbox[claim] = "prompt" /\ caller.at = "waiting"
                       THEN [caller EXCEPT !.turn = turn.n + 1] ELSE caller
          /\ inbox' = SubSeq(inbox, claim + 1, Len(inbox))
    BY <1>3 DEF TurnOpens
  <2>6. /\ claim \in 1 .. Len(inbox)
        /\ \A i \in 1 .. Len(inbox') :
             claim + i \in 1 .. Len(inbox) /\ inbox'[i] = inbox[claim + i] /\ claim + i # claim
    <3>1. /\ claim \in 1 .. Len(inbox)
          /\ \A i \in 1 .. Len(inbox') : claim + i \in 1 .. Len(inbox) /\ inbox'[i] = inbox[claim + i]
      BY <1>b, <2>5, InboxClaimed
    <3>2. \A i \in 1 .. Len(inbox') : claim + i # claim
      BY <3>1
    <3> QED
      BY <3>1, <3>2
  <2>7. CASE inbox[claim] = "prompt" /\ caller.at = "waiting"
    <3>1. /\ caller'.at = "waiting" /\ caller'.done = caller.done
      BY <1>b, <2>5, <2>7 DEF Callers
    <3>2. ~disposed => caller.done = "no" /\ \A i \in 1 .. Len(inbox') : inbox'[i] # "prompt"
      BY <1>a, <2>6, <2>7 DEF Unclaimed
    <3>3. Unclaimed'
      BY <2>3, <3>1, <3>2 DEF Unclaimed
    <3>4. Waited'
      <4>1. \A n \in answered : OverIn(log', n, Len(emitted))
        BY <1>a, <2>2, <2>3 DEF Waited
      <4> QED
        BY <2>3, <3>1, <3>2, <4>1 DEF Waited, Over
    <3> QED
      BY <2>1, <2>2, <2>4, <3>3, <3>4
  <2>8. CASE ~(inbox[claim] = "prompt" /\ caller.at = "waiting")
    <3>1. caller' = caller
      BY <2>5, <2>8
    <3>2. Unclaimed'
      <4>1. \A i, j \in 1 .. Len(inbox') : claim + i = claim + j => i = j
        BY <2>6
      <4> QED
        BY <1>a, <2>3, <2>6, <3>1, <4>1, SMTT(30) DEF Unclaimed
    <3>3. ~disposed /\ caller.done = "resolved" => Over(caller.turn, Len(log'))
      BY <1>a, <1>b, <2>2, Len(log) \in Nat, Len(log') \in Nat, OverLater DEF Waited
    <3>4. Waited'
      BY <1>a, <2>2, <2>3, <3>1, <3>3 DEF Waited, Over
    <3> QED
      BY <2>1, <2>2, <2>4, <3>2, <3>4
  <2> QED
    BY <2>7, <2>8
<1>4. CASE AssistantMessage \/ TurnEnds
  <2>1. PICK es : Logs(es) /\ Len(es) = 1 /\ (TurnEnds => es[1].what \in Reasons)
    BY <1>4, <1>a, WritesLog
  <2>2. /\ log' \in Seq(Entry) /\ chain' \in Seq(Entry) /\ Kept' /\ Ended' /\ Stamped'
        /\ (\A n, k : Over(n, k) => OverIn(log', n, k)) /\ Len(log') >= Len(log)
        /\ ~disposed /\ TurnEnds => OverIn(log', turn'.n, Len(log'))
    BY <1>a, <2>1, LogGrows
  <2>3. turn' \in TurnRecords /\ turn'.n = turn.n /\ turn.n # 0
    <3>1. turn.phase # "idle"
      BY <1>4 DEF AssistantMessage, TurnEnds
    <3> QED
      BY <1>4, <1>a, <3>1, WritesLog DEF Ended
  <2>4. UNCHANGED <<issued, answered, aborted, seed, known, disposed, gone, inbox, wakes, emitted, assistants, latest>>
    BY <1>4 DEF AssistantMessage, TurnEnds, promptVars, seedVars, projectVars
  <2>5. \/ caller' = caller
        \/ TurnEnds /\ Completes(caller) /\ caller' = Resolved(caller)
    BY <1>4 DEF AssistantMessage, TurnEnds, promptVars, Resolved
  <2>6. /\ caller' \in Callers /\ caller'.at = caller.at /\ caller'.turn = caller.turn /\ caller'.ahead = caller.ahead
        /\ caller'.done = caller.done
           \/ (TurnEnds /\ Completes(caller) /\ caller'.done = "resolved")
    BY <1>b, <2>5, CallerRecord
  <2>7. Typed' /\ Budget'
    <3>1. Typed'
      BY <1>a, <2>2, <2>3, <2>4, <2>6 DEF Typed
    <3> QED
      BY <1>a, <2>3, <2>4, <2>6, <3>1, BudgetSame
  <2>8. CASE caller'.done = caller.done
    <3>1. Unclaimed'
      BY <1>a, <2>4, <2>6, <2>8 DEF Unclaimed
    <3>2. ~disposed /\ caller.done = "resolved" => Over(caller.turn, Len(log'))
      BY <1>a, <1>b, <2>2, Len(log) \in Nat, Len(log') \in Nat, OverLater DEF Waited
    <3>3. Waited'
      BY <1>a, <2>2, <2>4, <2>6, <2>8, <3>2 DEF Waited, Over
    <3> QED
      BY <2>2, <2>7, <3>1, <3>3
  <2>9. CASE TurnEnds /\ Completes(caller) /\ caller'.done = "resolved"
    <3>1. caller.at = "waiting" /\ caller.turn = turn.n
      BY <2>9 DEF Completes
    <3>2. ~disposed => \A i \in 1 .. Len(inbox) : inbox[i] # "prompt"
      BY <1>a, <2>3, <3>1 DEF Unclaimed
    <3>3. Unclaimed'
      BY <2>4, <2>6, <3>1, <3>2 DEF Unclaimed
    <3>4. Waited'
      BY <1>a, <2>2, <2>3, <2>4, <2>6, <2>9, <3>1 DEF Waited, Over
    <3> QED
      BY <2>2, <2>7, <3>3, <3>4
  <2> QED
    BY <2>6, <2>8, <2>9
<1>5. CASE Project
  <2>1. /\ chain' \in Seq(Entry) /\ emitted' \in Seq(Entry)
        /\ assistants' \in Seq(Assistant) /\ latest' \in 0 .. Len(assistants')
        /\ Kept' /\ Ended' /\ Stamped'
        /\ log' = log /\ disposed' = disposed
        /\ Len(emitted') = IF disposed THEN Len(emitted) ELSE Len(emitted) + 1
    BY <1>5, <1>a, ProjectKeeps
  <2>2. /\ UNCHANGED <<issued, answered, aborted, seed, known, gone, inbox, turn, wakes>>
        /\ caller' = Awaited
    BY <1>5 DEF Project, seedVars, childVars
  <2>3. /\ caller' \in Callers /\ caller'.at = caller.at /\ caller'.turn = caller.turn /\ caller'.done = caller.done
        /\ caller.ahead \in Nat /\ caller'.ahead = IF caller.ahead = 0 THEN 0 ELSE caller.ahead - 1
    <3>1. CASE caller.ahead = 0
      BY <1>b, <2>2, <3>1 DEF Awaited, Callers
    <3>2. CASE caller.ahead # 0
      <4>1. caller.ahead - 1 \in Nat /\ caller' = [caller EXCEPT !.ahead = caller.ahead - 1]
        BY <1>b, <2>2, <3>2 DEF Awaited, Callers
      <4> QED
        BY <1>b, <3>2, <4>1 DEF Callers
    <3> QED
      BY <3>1, <3>2
  <2>4. Typed'
    BY <1>a, <2>1, <2>2, <2>3 DEF Typed
  <2>5. Budget'
    BY <1>a, <2>2, <2>3, <2>4, BudgetSame
  <2>6. Unclaimed'
    BY <1>a, <2>1, <2>2, <2>3 DEF Unclaimed
  <2>7. /\ Len(emitted) \in Nat /\ Len(emitted') \in Nat /\ Len(emitted) <= Len(emitted')
        /\ ~disposed => Len(emitted) + caller.ahead <= Len(emitted') + caller'.ahead
    BY <1>b, <2>1, <2>3, SMTT(30)
  <2>8. /\ \A n \in answered : Over(n, Len(emitted'))
        /\ ~disposed /\ caller.at = "draining" => Over(caller.turn, Len(emitted') + caller'.ahead)
    <3>1. \A n \in answered : Over(n, Len(emitted'))
      BY <1>a, <1>b, <2>7, OverLater DEF Waited
    <3>2. Len(emitted) + caller.ahead \in Nat /\ Len(emitted') + caller'.ahead \in Nat
      BY <2>3, <2>7
    <3> QED
      BY <1>a, <1>b, <2>7, <3>1, <3>2, OverLater DEF Waited
  <2>9. Waited'
    BY <1>a, <2>1, <2>2, <2>3, <2>8 DEF Waited, Over
  <2> QED
    BY <2>1, <2>4, <2>5, <2>6, <2>9
<1> QED
  BY <1>1, <1>2, <1>3, <1>4, <1>5 DEF Next, QuietSteps, ChildStep

\* A caller whose prompt resolved has had its turn: every message the turn
\* logged, and its end, reached the subscribers, and what an assistant message
\* gives as its stopReason is how its turn ended, wherever the turns, the
\* projections, an abort or a disposal fell between the awaits of prompt().
THEOREM PromptDelivered == Spec => []PromptMeansDelivered
<1>1. DeliveredInv => PromptMeansDelivered
  <2> SUFFICES ASSUME DeliveredInv PROVE PromptMeansDelivered
    OBVIOUS
  <2>a. TypeOK /\ Kept /\ Stamped /\ Waited
    BY DEF DeliveredInv
  <2>b. /\ log \in Seq(Entry) /\ chain \in Seq(Entry) /\ emitted \in Seq(Entry)
        /\ assistants \in Seq(Assistant)
    BY <2>a DEF TypeOK, Assistant
  <2>c. /\ DOMAIN log = 1 .. Len(log) /\ DOMAIN emitted = 1 .. Len(emitted)
        /\ DOMAIN assistants = 1 .. Len(assistants)
    BY <2>b
  <2>1. \A k \in 1 .. Len(emitted) :
          k \in 1 .. Len(log) /\ k \in 1 .. Len(log) - Len(chain) /\ emitted[k] = log[k]
    BY <2>a, <2>b DEF Kept
  <2>2. StopReasonsTrue
    <3>1. \A k \in 1 .. Len(emitted) :
            Failed(emitted[k]) =>
              \E i \in 1 .. Len(assistants) : assistants[i] = [turn |-> emitted[k].turn, stop |-> emitted[k].what]
      BY <2>a, <2>1 DEF Stamped
    <3> QED
      BY <2>a, <2>c, <3>1 DEF StopReasonsTrue, Stamped
  <2>3. ASSUME NEW n \in answered
        PROVE  /\ \E i \in DOMAIN emitted : emitted[i].turn = n /\ emitted[i].what \in Reasons
               /\ Places(emitted, n) = Places(log, n)
               /\ \A k \in Places(log, n) : emitted[k] = log[k]
    <3>1. OverIn(log, n, Len(emitted))
      BY <2>a DEF Waited, Over
    <3>2. \A k \in 1 .. Len(log) : log[k].turn = n => k \in 1 .. Len(emitted)
      BY <2>b, <3>1 DEF OverIn
    <3> QED
      BY <2>1, <2>c, <3>1, <3>2 DEF OverIn, Places
  <2> QED
    BY <2>a, <2>2, <2>3 DEF PromptMeansDelivered
<1> QED
  BY <1>1, InitDelivered, StepDelivered, PTL DEF Spec
=============================================================================
