------------------------ MODULE ChildCreation_proofs ------------------------
(***************************************************************************)
(* Proved of ChildCreation, for any calls, sessions and tools, and without *)
(* its bounds: an archive is retired only when its session is gone; a      *)
(* child sees the tools it was asked for last; a session that was handed   *)
(* over is described once.                                                 *)
(*                                                                         *)
(* The verdict is asked for before the archive is discarded, and other     *)
(* calls and deletions come in between.  The invariant says why it still   *)
(* stands: a session that was deleted stays deleted, because every step    *)
(* that brings one to life finds it absent or stored.                      *)
(***************************************************************************)
EXTENDS ChildCreation, TLAPS

(* Positions of a call. *)
Positions == {"none", "preset", "creating", "restricting", "publishing", "listing", "discarding",
              "mounting", "ready", "ended", "rejected"}

(* What an idle call is said to have asked; there may be no requests at all. *)
AnyRequest == CHOOSE r \in Requests : TRUE

CallRecord ==
  [at : Positions, options : Requests \cup {AnyRequest}, reopen : BOOLEAN,
   of : SUBSET Sessions, wants : (SUBSET Names) \cup {NoNames}, renamings : Nat]

(* Calls and sessions are what they are said to be. *)
Shape ==
  /\ call \in [Calls -> CallRecord]
  /\ native \in [Sessions -> [state : {"absent", "stored", "live", "deleted"}, by : SUBSET Calls]]

(* A call is about one session. *)
OfOne == \A c \in Calls : \A s, t \in call[c].of : s = t

(* A call that discards an archive does so for a session that is gone. *)
DiscardsGone ==
  \A c \in Calls : call[c].at = "discarding" => \A s \in call[c].of : native[s].state = "deleted"

GoneInv == Shape /\ OfOne /\ DiscardsGone

-----------------------------------------------------------------------------
\* A call that was not made works on no session,
LEMMA IdleShape == Idle \in CallRecord /\ Idle.at = "none" /\ Idle.of = {}
<1>1. Idle = [at |-> "none", options |-> AnyRequest, reopen |-> FALSE,
              of |-> {}, wants |-> NoNames, renamings |-> 0]
  BY DEF Idle, AnyRequest
<1>2. ASSUME NEW any
      PROVE  [at |-> "none", options |-> any, reopen |-> FALSE, of |-> {}, wants |-> NoNames,
              renamings |-> 0]
               \in [at : Positions, options : Requests \cup {any}, reopen : BOOLEAN,
                    of : SUBSET Sessions, wants : (SUBSET Names) \cup {NoNames}, renamings : Nat]
  BY DEF Positions
<1> QED
  BY <1>1, <1>2 DEF CallRecord

\* nor does one that is over.
LEMMA OverShape ==
  ASSUME NEW how \in {"ended", "rejected"}
  PROVE  Over(how) \in CallRecord /\ Over(how).at = how /\ Over(how).of = {}
BY IdleShape DEF Over, CallRecord, Positions

\* At first no call has been made.
LEMMA InitGone == Init => GoneInv
<1> SUFFICES ASSUME Init PROVE GoneInv
  OBVIOUS
<1>1. Shape
  BY IdleShape DEF Init, Shape
<1>2. \A c \in Calls : call[c].of = {} /\ call[c].at = "none"
  BY IdleShape DEF Init
<1>3. OfOne /\ DiscardsGone
  BY <1>2 DEF OfOne, DiscardsGone
<1> QED
  BY <1>1, <1>3 DEF GoneInv

(* A call that moves on, about the same session, to anything but a discard. *)
LEMMA MovesOn ==
  ASSUME GoneInv, NEW c \in Calls, NEW from, NEW to \in Positions \ {"discarding"},
         MovesTo(c, from, to), UNCHANGED native
  PROVE  GoneInv'
<1>1. Shape'
  BY DEF GoneInv, Shape, CallRecord, MovesTo
<1>2. \A d \in Calls : call'[d].of = call[d].of /\ (call'[d].at = "discarding" => call[d].at = "discarding")
  BY DEF GoneInv, Shape, CallRecord, MovesTo
<1>3. OfOne' /\ DiscardsGone'
  BY <1>2 DEF GoneInv, OfOne, DiscardsGone
<1> QED
  BY <1>1, <1>3 DEF GoneInv

(* A call that is over. *)
LEMMA CallOver ==
  ASSUME GoneInv, NEW c \in Calls, NEW how \in {"ended", "rejected"},
         call' = [call EXCEPT ![c] = Over(how)], UNCHANGED native
  PROVE  GoneInv'
<1>1. Shape'
  BY OverShape DEF GoneInv, Shape
<1>2. \A d \in Calls : \/ call'[d] = call[d]
                       \/ call'[d].of = {}
  BY OverShape DEF GoneInv, Shape
<1>3. OfOne' /\ DiscardsGone'
  BY <1>2 DEF GoneInv, OfOne, DiscardsGone
<1> QED
  BY <1>1, <1>3 DEF GoneInv

(* What a step does to a session, as far as deletion is concerned: nothing  *)
(* that was deleted comes back.                                             *)
LEMMA StaysDeleted ==
  ASSUME GoneInv, Shape', NEW c \in Calls, NEW s \in Sessions,
         Published(c, s) \/ Disposed(c, s) \/ Deleted(s)
  PROVE  \A t \in Sessions : native[t].state = "deleted" => native'[t].state = "deleted"
<1>1. CASE Published(c, s)
  BY <1>1 DEF GoneInv, Shape, Published
<1>2. CASE Disposed(c, s)
  BY <1>2 DEF GoneInv, Shape, Disposed
<1>3. CASE Deleted(s)
  BY <1>3 DEF GoneInv, Shape, Deleted
<1> QED
  BY <1>1, <1>2, <1>3

(* The steps that leave the calls alone or only end one.                    *)
LEMMA SessionStep ==
  ASSUME GoneInv, NEW c \in Calls, NEW s \in Sessions, Disposed(c, s) \/ Deleted(s)
  PROVE  GoneInv'
<1>1. Shape'
  <2>1. CASE Disposed(c, s)
    <3>1. call' \in [Calls -> CallRecord]
      BY <2>1, OverShape DEF GoneInv, Shape, Disposed
    <3> QED
      BY <2>1, <3>1 DEF GoneInv, Shape, Disposed
  <2>2. CASE Deleted(s)
    BY <2>2 DEF GoneInv, Shape, Deleted
  <2> QED
    BY <2>1, <2>2
<1>2. \A t \in Sessions : native[t].state = "deleted" => native'[t].state = "deleted"
  BY <1>1, StaysDeleted
<1>3. \A d \in Calls : call'[d] = call[d] \/ (call'[d].of = {} /\ call'[d].at = "ended")
  BY OverShape DEF GoneInv, Shape, Disposed, Deleted
<1>4. \A d \in Calls : call[d].of \subseteq Sessions
  BY DEF GoneInv, Shape, CallRecord
<1>5. OfOne' /\ DiscardsGone'
  BY <1>2, <1>3, <1>4 DEF GoneInv, OfOne, DiscardsGone
<1> QED
  BY <1>1, <1>5 DEF GoneInv

(* What a call is once it has been asked.  Of the fields' types nothing     *)
(* matters but that the new values are in them.                             *)
Asked(r, options, s, reopen, wants) ==
  [r EXCEPT !.at = "preset", !.options = options, !.of = {s}, !.reopen = reopen, !.wants = wants]

\* Setting five fields of a record with six.
LEMMA FiveFields ==
  ASSUME NEW At, NEW Options, NEW Reopen, NEW Of, NEW Wants, NEW Renamings,
         NEW at \in At, NEW options \in Options, NEW reopen \in Reopen, NEW of \in Of,
         NEW wants \in Wants,
         NEW r \in [at : At, options : Options, reopen : Reopen, of : Of, wants : Wants,
                    renamings : Renamings]
  PROVE  LET new == [r EXCEPT !.at = at, !.options = options, !.of = of, !.reopen = reopen,
                              !.wants = wants]
         IN /\ new \in [at : At, options : Options, reopen : Reopen, of : Of, wants : Wants,
                        renamings : Renamings]
            /\ new.at = at /\ new.of = of
OBVIOUS

\* A call that begins works on the session it is for.
LEMMA AskedShape ==
  ASSUME NEW r \in CallRecord, NEW options \in Requests, NEW s \in Sessions,
         NEW reopen \in BOOLEAN, NEW wants \in (SUBSET Names) \cup {NoNames}
  PROVE  /\ Asked(r, options, s, reopen, wants) \in CallRecord
         /\ Asked(r, options, s, reopen, wants).at = "preset"
         /\ Asked(r, options, s, reopen, wants).of = {s}
<1>1. "preset" \in Positions /\ options \in Requests \cup {AnyRequest} /\ {s} \in SUBSET Sessions
  BY DEF Positions
<1> QED
  BY <1>1, FiveFields, Zenon DEF CallRecord, Asked

\* A call begins.
LEMMA AskGone ==
  ASSUME GoneInv, NEW c \in Calls, NEW s \in Sessions, NEW options \in Requests, Ask(c, s, options)
  PROVE  GoneInv'
<1>1. PICK wants \in (SUBSET Names) \cup {NoNames}, reopen \in BOOLEAN :
        call' = [call EXCEPT ![c] = [@ EXCEPT !.at = "preset", !.options = options, !.of = {s},
                                              !.reopen = reopen, !.wants = wants]]
  <2> DEFINE asks == IF options.tools # NoNames THEN options.tools
                     ELSE IF options.noTools # "no" THEN {} ELSE NoNames
  <2>1. asks \in (SUBSET Names) \cup {NoNames}
    BY CreationAssumption DEF CreationAssumption
  <2>2. (s \in archived) \in BOOLEAN
    OBVIOUS
  <2>3. call' = [call EXCEPT ![c] = [@ EXCEPT !.at = "preset", !.options = options, !.of = {s},
                                              !.reopen = (s \in archived), !.wants = asks]]
    BY SMT DEF Ask
  <2> HIDE DEF asks
  <2> QED
    BY <2>1, <2>2, <2>3
<1> DEFINE asked == Asked(call[c], options, s, reopen, wants)
<1>2. call' = [call EXCEPT ![c] = asked] /\ native' = native
  BY <1>1, Zenon DEF Ask, Asked
<1>3. asked \in CallRecord /\ asked.at = "preset" /\ asked.of = {s}
  <2>1. call[c] \in CallRecord
    BY DEF GoneInv, Shape
  <2> QED
    BY <2>1, AskedShape
<1> HIDE DEF asked
<1>4. Shape'
  BY <1>2, <1>3 DEF GoneInv, Shape
<1>5. \A d \in Calls : call'[d] = call[d] \/ (call'[d].of = {s} /\ call'[d].at = "preset")
  BY <1>2, <1>3 DEF GoneInv, Shape
<1>6. OfOne' /\ DiscardsGone'
  BY <1>2, <1>5 DEF GoneInv, OfOne, DiscardsGone
<1> QED
  BY <1>4, <1>6 DEF GoneInv

(* The verdict is what the listing says.                                    *)
LEMMA ListedGone ==
  ASSUME GoneInv, NEW c \in Calls, NEW s \in Sessions, Listed(c, s)
  PROVE  GoneInv'
<1>1. CASE call' = [call EXCEPT ![c] = Over("rejected")]
  BY <1>1, CallOver DEF Listed
<1>2. CASE Verdict(s) /\ call' = [call EXCEPT ![c].at = "discarding"]
  <2>1. Shape'
    BY <1>2, SMTT(60) DEF GoneInv, Shape, CallRecord, Positions, Listed
  <2>2. /\ \A d \in Calls : call'[d].of = call[d].of
        /\ \A d \in Calls \ {c} : call'[d].at = call[d].at
    BY <1>2 DEF GoneInv, Shape, CallRecord
  <2>3. \A t \in call[c].of : native'[t].state = "deleted"
    BY <1>2 DEF GoneInv, OfOne, Listed, Verdict
  <2>4. OfOne' /\ DiscardsGone'
    BY <2>2, <2>3 DEF GoneInv, OfOne, DiscardsGone, Listed
  <2> QED
    BY <2>1, <2>4 DEF GoneInv
<1> QED
  BY <1>1, <1>2 DEF Listed

\* The host publishes the agent.
LEMMA PublishedGone ==
  ASSUME GoneInv, NEW c \in Calls, NEW s \in Sessions, Published(c, s)
  PROVE  GoneInv'
<1>1. Shape'
  <2>1. call' \in [Calls -> CallRecord]
    <3>1. call' = [call EXCEPT ![c].at = "mounting"]
      BY Zenon DEF Published, MovesTo
    <3> QED
      BY <3>1 DEF GoneInv, Shape, CallRecord, Positions
  <2>2. [state |-> "live", by |-> {c}]
          \in [state : {"absent", "stored", "live", "deleted"}, by : SUBSET Calls]
    OBVIOUS
  <2>3. native' = [native EXCEPT ![s] = [state |-> "live", by |-> {c}]]
    BY DEF Published
  <2>4. native' \in [Sessions -> [state : {"absent", "stored", "live", "deleted"}, by : SUBSET Calls]]
    BY <2>2, <2>3, Zenon DEF GoneInv, Shape
  <2> QED
    BY <2>1, <2>4 DEF Shape
<1>2. \A t \in Sessions : native[t].state = "deleted" => native'[t].state = "deleted"
  BY <1>1, StaysDeleted
<1>3. \A d \in Calls : /\ call'[d].of = call[d].of
                       /\ call'[d].at = "discarding" => call[d].at = "discarding"
  BY DEF GoneInv, Shape, CallRecord, Published, MovesTo
<1>4. \A d \in Calls : call[d].of \subseteq Sessions
  BY DEF GoneInv, Shape, CallRecord
<1>5. OfOne' /\ DiscardsGone'
  BY <1>2, <1>3, <1>4 DEF GoneInv, OfOne, DiscardsGone
<1> QED
  BY <1>1, <1>5 DEF GoneInv

\* The host refuses it.
LEMMA RefusedGone ==
  ASSUME GoneInv, NEW c \in Calls, NEW s \in Sessions, Refused(c, s)
  PROVE  GoneInv'
<1>1. CASE call[c].reopen
  <2>1. call' = [call EXCEPT ![c].at = "listing"] /\ native' = native
    BY <1>1 DEF Refused
  <2>2. MovesTo(c, call[c].at, "listing") /\ "listing" \in Positions \ {"discarding"}
    BY <2>1 DEF MovesTo, Positions
  <2> QED
    BY <2>1, <2>2, MovesOn
<1>2. CASE ~call[c].reopen
  <2>1. call' = [call EXCEPT ![c] = Over("rejected")] /\ native' = native
    BY <1>2 DEF Refused
  <2> QED
    BY <2>1, CallOver
<1> QED
  BY <1>1, <1>2

\* The creation hands the agent over.
LEMMA HandOverGone ==
  ASSUME GoneInv, NEW c \in Calls, NEW s \in Sessions, HandOver(c, s)
  PROVE  GoneInv'
<1>1. CASE native[s].by = {c}
  <2>1. MovesTo(c, "mounting", "ready") /\ native' = native /\ "ready" \in Positions \ {"discarding"}
    BY <1>1 DEF HandOver, Positions
  <2> QED
    BY <2>1, MovesOn
<1>2. CASE native[s].by # {c}
  BY <1>2, CallOver DEF HandOver
<1> QED
  BY <1>1, <1>2

\* The package names the active tools anew.
LEMMA RenamedGone ==
  ASSUME GoneInv, NEW c \in Calls, NEW s \in Sessions, NEW names \in SUBSET Names,
         SetActiveToolsByName(c, s, names)
  PROVE  GoneInv'
<1>1. Shape'
  BY DEF GoneInv, Shape, CallRecord, SetActiveToolsByName
<1>2. \A d \in Calls : call'[d].of = call[d].of /\ call'[d].at = call[d].at
  BY DEF GoneInv, Shape, CallRecord, SetActiveToolsByName
<1>3. OfOne'
  BY <1>2, Zenon DEF GoneInv, OfOne
<1>4. native' = native
  BY DEF SetActiveToolsByName
<1>5. DiscardsGone'
  BY <1>2, <1>4, Zenon DEF GoneInv, DiscardsGone
<1> QED
  BY <1>1, <1>3, <1>5 DEF GoneInv

\* Every step keeps the invariant.
LEMMA StepGone == GoneInv /\ [Next]_vars => GoneInv'
<1> SUFFICES ASSUME GoneInv, [Next]_vars PROVE GoneInv'
  OBVIOUS
<1>1. ASSUME NEW c \in Calls, NEW s \in Sessions, NEW options \in Requests, Ask(c, s, options)
      PROVE  GoneInv'
  BY <1>1, AskGone
<1>2. ASSUME NEW c \in Calls, NEW s \in Sessions, Step(c, s)
      PROVE  GoneInv'
  <2>1. CASE SetUpBegins(c, s)
    BY <2>1, MovesOn DEF SetUpBegins, Positions
  <2>2. CASE Published(c, s)
    BY <2>2, PublishedGone
  <2>3. CASE HandOver(c, s)
    BY <2>3, HandOverGone
  <2>4. CASE Listed(c, s)
    BY <2>4, ListedGone
  <2>5. CASE Discard(c, s)
    BY <2>5, CallOver DEF Discard
  <2> QED
    BY <1>2, <2>1, <2>2, <2>3, <2>4, <2>5 DEF Step
<1>3. ASSUME NEW c \in Calls, NEW s \in Sessions, Refused(c, s)
      PROVE  GoneInv'
  BY <1>3, RefusedGone
<1>4. ASSUME NEW c \in Calls, NEW s \in Sessions, Disposed(c, s)
      PROVE  GoneInv'
  BY <1>4, SessionStep
<1>5. ASSUME NEW c \in Calls, NEW s \in Sessions, NEW names \in SUBSET Names,
             SetActiveToolsByName(c, s, names)
      PROVE  GoneInv'
  BY <1>5, RenamedGone
<1>6. ASSUME NEW c \in Calls, ResolvePreset(c) \/ SetUpEnds(c)
      PROVE  GoneInv'
  BY <1>6, MovesOn DEF ResolvePreset, SetUpEnds, Positions
<1>7. ASSUME NEW s \in Sessions, Deleted(s)
      PROVE  GoneInv'
  <2>1. CASE Calls = {}
    BY <1>7, <2>1 DEF GoneInv, Shape, OfOne, DiscardsGone, Deleted
  <2> QED
    BY <1>7, <2>1, SessionStep
<1>8. CASE UNCHANGED vars
  BY <1>8 DEF vars, GoneInv, Shape, OfOne, DiscardsGone
<1> QED
  BY <1>1, <1>2, <1>3, <1>4, <1>5, <1>6, <1>7, <1>8 DEF Next

(* "Only a POSITIVE 'gone' retires the archive identity": whatever comes    *)
(* between the verdict and the discard, no archive of a session that still  *)
(* exists is retired (subagent-bridge.ts 1011-1018).                        *)
THEOREM GoneBeforeRetired == Spec => RetiredOnlyWhenGone
<1>1. ASSUME GoneInv, Next
      PROVE  \A s \in archived \ archived' : native[s].state = "deleted"
  <2>1. \/ archived \subseteq archived'
        \/ \E c \in Calls, s \in Sessions : Discard(c, s)
    <3>1. ASSUME NEW c \in Calls, NEW s \in Sessions, HandOver(c, s)
          PROVE  archived \subseteq archived'
      BY <3>1 DEF HandOver
    <3>2. ASSUME NEW c \in Calls, NEW s \in Sessions, NEW options \in Requests, Ask(c, s, options)
          PROVE  archived' = archived
      BY <3>2, Zenon DEF Ask
    <3>3. ASSUME NEW c \in Calls, NEW s \in Sessions,
                 SetUpBegins(c, s) \/ Published(c, s) \/ Listed(c, s) \/ Refused(c, s) \/ Disposed(c, s)
          PROVE  archived' = archived
      BY <3>3, Zenon DEF SetUpBegins, Published, Listed, Refused, Disposed
    <3>4. ASSUME NEW c \in Calls, NEW s \in Sessions, NEW names \in SUBSET Names,
                 SetActiveToolsByName(c, s, names)
          PROVE  archived' = archived
      BY <3>4, Zenon DEF SetActiveToolsByName
    <3>5. ASSUME NEW c \in Calls, ResolvePreset(c) \/ SetUpEnds(c)
          PROVE  archived' = archived
      BY <3>5, Zenon DEF ResolvePreset, SetUpEnds
    <3>6. ASSUME NEW s \in Sessions, Deleted(s)
          PROVE  archived' = archived
      BY <3>6, Zenon DEF Deleted
    <3> QED
      BY <1>1, <3>1, <3>2, <3>3, <3>4, <3>5, <3>6 DEF Next, Step
  <2>2. ASSUME NEW c \in Calls, NEW r \in Sessions, Discard(c, r)
        PROVE  \A s \in archived \ archived' : native[s].state = "deleted"
    BY <1>1, <2>2 DEF GoneInv, DiscardsGone, Discard
  <2> QED
    BY <2>1, <2>2
<1>2. GoneInv /\ [Next]_vars =>
        [\A s \in Sessions : s \in archived \ archived' => native[s].state = "deleted"]_vars
  BY <1>1 DEF vars
<1> QED
  BY <1>2, InitGone, StepGone, PTL DEF Spec, RetiredOnlyWhenGone

-----------------------------------------------------------------------------
(* The child that is made.  Its restrictions are followed from the set-up   *)
(* to the last renaming: those the child session does not hold admit        *)
(* everything, so retiring the held one leaves only what was denied at      *)
(* first.  A session is described in the step that publishes it, once in    *)
(* its life, because a later one finds it stored.                           *)

ScopeRecord ==
  [carried : SUBSET Native, allow : [Kinds -> SUBSET Native], deny : SUBSET Native, custom : BOOLEAN]

(* What a call asks for at first.                                           *)
Wanted(options) ==
  IF options.tools # NoNames THEN options.tools ELSE IF options.noTools # "no" THEN {} ELSE NoNames

(* The child of c runs.                                                     *)
Runs(c) == \E s \in Sessions : native[s] = [state |-> "live", by |-> {c}]

(* The restrictions that may narrow the child.                              *)
Narrowed(c) == IF call[c].at = "ready" THEN held[c] ELSE Adopted(c)

AsAsked(sc, options, wants, kinds) ==
  /\ Admitted(sc) = (IF wants = NoNames THEN sc.carried ELSE sc.carried \cap NativeNames(wants)) \ sc.deny
  /\ sc.deny \subseteq NativeNames(options.excluded)
  /\ options.tools = NoNames /\ options.noTools = "no" =>
       sc.carried \cap NativeNames(options.excluded) \subseteq sc.deny
  /\ \A k \in Kinds \ kinds : sc.allow[k] = Native

Unnarrowed(sc) == sc.allow = Unrestricted /\ sc.deny = {}

Sound(c) ==
  /\ call[c].at \in {"preset", "creating", "restricting", "publishing", "mounting"} =>
       call[c].wants = Wanted(call[c].options)
  /\ call[c].at = "restricting" => Unnarrowed(scope[c])
  /\ call[c].at = "publishing" \/ (call[c].at \in {"mounting", "ready"} /\ Runs(c)) =>
       AsAsked(scope[c], call[c].options, call[c].wants, Narrowed(c))

(* A live session is run by the call that published it.                     *)
Lives ==
  /\ \A s \in Sessions : native[s].state # "live" => native[s].by = {}
  /\ \A s \in Sessions, c \in Calls :
       native[s].by = {c} => call[c].at \in {"mounting", "ready"} /\ s \in call[c].of

Logged ==
  \A s \in Sessions :
    journal[s].descriptors = IF native[s].state = "absent" \/ ~host.vocabulary THEN 0 ELSE 1

Typed ==
  /\ host \in [roster : BOOLEAN, prompts : BOOLEAN, vocabulary : BOOLEAN]
  /\ scope \in [Calls -> ScopeRecord] /\ held \in [Calls -> SUBSET Kinds]
  /\ journal \in [Sessions -> [policies : Nat, descriptors : Nat]]
  /\ archived \subseteq Sessions
  /\ \A c \in Calls : call[c].renamings <= MaxRenamings

MadeInv == Typed /\ Lives /\ Logged /\ \A c \in Calls : Sound(c)

\* What a request asks for is a set of names, or nothing.
LEMMA RequestsTyped ==
  /\ AnyRequest \in Requests /\ MaxRenamings \in Nat
  /\ \A o \in Requests : Wanted(o) \in (SUBSET Names) \cup {NoNames}
  /\ \A o \in Requests : o.custom \in BOOLEAN
  /\ {} # NoNames /\ NoNames \notin SUBSET Names
<1>1. AnyRequest \in Requests /\ MaxRenamings \in Nat
  BY CreationAssumption DEF CreationAssumption, AnyRequest
<1>2. \A o \in Requests : Wanted(o) \in (SUBSET Names) \cup {NoNames} /\ o.custom \in BOOLEAN
  BY CreationAssumption DEF CreationAssumption, Wanted
<1>3. {} # NoNames /\ NoNames \notin SUBSET Names
  BY CreationAssumption DEF CreationAssumption, NoNames
<1> QED
  BY <1>1, <1>2, <1>3

\* A scope that carries only native tools is unnarrowed.
LEMMA BareShape ==
  /\ Bare \in ScopeRecord /\ Unnarrowed(Bare)
  /\ \A carried \in SUBSET Native : /\ [Bare EXCEPT !.carried = carried] \in ScopeRecord
                                    /\ Unnarrowed([Bare EXCEPT !.carried = carried])
<1>1. Unrestricted \in [Kinds -> SUBSET Native]
  BY DEF Unrestricted
<1>2. Global \in SUBSET Native
  BY CreationAssumption DEF CreationAssumption
<1> QED
  BY <1>1, <1>2 DEF Bare, ScopeRecord, Unnarrowed

\* The tools a scope admits, spelt out.
LEMMA AdmittedIs ==
  ASSUME NEW sc
  PROVE  Admitted(sc) =
           {t \in sc.carried : t \in sc.allow["initial"] /\ t \in sc.allow["active"] /\ t \notin sc.deny}
BY DEF Admitted, Kinds

(* One restriction is put in force, or retired.                             *)
LEMMA AllowShape ==
  ASSUME NEW sc \in ScopeRecord, NEW allow \in [Kinds -> SUBSET Native]
  PROVE  LET new == [sc EXCEPT !.allow = allow]
         IN /\ new \in ScopeRecord /\ new.carried = sc.carried /\ new.deny = sc.deny
            /\ new.allow = allow /\ new.custom = sc.custom
BY DEF ScopeRecord

(* The set-up leaves what was asked for.                                    *)
LEMMA RestrictedAsAsked ==
  ASSUME NEW sc \in ScopeRecord, Unnarrowed(sc), NEW options \in Requests, NEW wants,
         wants = Wanted(options), NEW custom \in BOOLEAN
  PROVE  LET new == [Restricted(sc, options, wants) EXCEPT !.custom = custom]
         IN /\ new \in ScopeRecord
            /\ AsAsked(new, options, wants, IF wants # NoNames THEN {"initial"} ELSE {})
<1> DEFINE known == NativeNames(wants) \cap sc.carried
           narrow == [sc.allow EXCEPT !["initial"] = known]
           allowed == IF wants = NoNames THEN sc ELSE [sc EXCEPT !.allow = narrow]
           deny == NativeNames(options.excluded) \cap Admitted(allowed)
           new == [Restricted(sc, options, wants) EXCEPT !.custom = custom]
<1>1. sc.allow = Unrestricted /\ sc.deny = {} /\ sc.carried \subseteq Native
      /\ sc.allow["initial"] = Native /\ sc.allow["active"] = Native
  BY DEF Unnarrowed, ScopeRecord, Unrestricted, Kinds
<1>2. Known(sc, wants) = known
  BY <1>1, AdmittedIs DEF Known
<1>3. narrow \in [Kinds -> SUBSET Native] /\ narrow["initial"] = known /\ narrow["active"] = Native
  BY <1>1 DEF Unrestricted, Kinds
<1>4. /\ allowed \in ScopeRecord /\ allowed.carried = sc.carried
      /\ wants = NoNames => Admitted(allowed) = sc.carried
      /\ wants # NoNames => Admitted(allowed) = sc.carried \cap NativeNames(wants)
      /\ allowed.allow["initial"] = IF wants = NoNames THEN Native ELSE known
      /\ allowed.allow["active"] = Native
  <2>1. CASE wants = NoNames
    BY <1>1, <2>1, AdmittedIs
  <2>2. CASE wants # NoNames
    <3>1. /\ allowed = [sc EXCEPT !.allow = narrow]
          /\ allowed \in ScopeRecord /\ allowed.carried = sc.carried /\ allowed.deny = {}
          /\ allowed.allow = narrow
      BY <1>1, <1>3, <2>2, AllowShape
    <3> HIDE DEF allowed, narrow
    <3> QED
      BY <1>1, <1>3, <2>2, <3>1, AdmittedIs
  <2> QED
    BY <2>1, <2>2
<1>5. Restricted(sc, options, wants) = [allowed EXCEPT !.deny = deny]
  BY <1>2 DEF Restricted, Known
<1> HIDE DEF allowed
<1>6. deny \in SUBSET Native
  BY <1>1, <1>4
<1>7. /\ new \in ScopeRecord /\ new.carried = sc.carried /\ new.deny = deny
      /\ new.allow = allowed.allow
  BY <1>4, <1>5, <1>6 DEF ScopeRecord
<1> HIDE DEF new
<1>8. Admitted(new) = (IF wants = NoNames THEN sc.carried ELSE sc.carried \cap NativeNames(wants)) \ deny
  BY <1>1, <1>4, <1>7, AdmittedIs
<1>9. options.tools = NoNames /\ options.noTools = "no" => wants = NoNames
  BY DEF Wanted
<1>10. AsAsked(new, options, wants, IF wants # NoNames THEN {"initial"} ELSE {})
  BY <1>4, <1>7, <1>8, <1>9 DEF AsAsked, Kinds
<1> QED
  BY <1>7, <1>10 DEF new

(* A renaming retires what narrowed the child, and narrows it anew.         *)
LEMMA RenamedAsAsked ==
  ASSUME NEW sc \in ScopeRecord, NEW options, NEW wants, NEW retired, NEW names \in SUBSET Names,
         AsAsked(sc, options, wants, retired)
  PROVE  /\ Renamed(sc, retired, names) \in ScopeRecord
         /\ AsAsked(Renamed(sc, retired, names), options, names, {"active"})
<1> DEFINE open == [sc EXCEPT !.allow = [k \in Kinds |-> IF k \in retired THEN Native ELSE sc.allow[k]]]
           known == NativeNames(names) \cap (sc.carried \ sc.deny)
           narrow == [Unrestricted EXCEPT !["active"] = known]
           new == Renamed(sc, retired, names)
<1>1. [k \in Kinds |-> IF k \in retired THEN Native ELSE sc.allow[k]] = Unrestricted
  BY DEF AsAsked, Unrestricted
<1>2. Unrestricted \in [Kinds -> SUBSET Native] /\ sc.carried \subseteq Native
  BY DEF Unrestricted, ScopeRecord
<1>3. /\ open = [sc EXCEPT !.allow = Unrestricted]
      /\ open \in ScopeRecord /\ open.carried = sc.carried /\ open.deny = sc.deny
      /\ open.allow = Unrestricted
  BY <1>1, <1>2, AllowShape
<1>4. new = [open EXCEPT !.allow["active"] = Known(open, names)]
  BY DEF Renamed
<1> HIDE DEF open, new
<1>5. Known(open, names) = known
  BY <1>2, <1>3, AdmittedIs, ZenonT(30) DEF Known, Unrestricted, Kinds
<1>6. new = [open EXCEPT !.allow = narrow]
  BY <1>3, <1>4, <1>5
<1>7. narrow \in [Kinds -> SUBSET Native] /\ narrow["initial"] = Native /\ narrow["active"] = known
  BY <1>2 DEF Unrestricted, Kinds
<1> HIDE DEF narrow
<1>8. /\ new \in ScopeRecord /\ new.carried = sc.carried /\ new.deny = sc.deny /\ new.allow = narrow
  BY <1>3, <1>6, <1>7, AllowShape
<1>9. Admitted(new) = (sc.carried \cap NativeNames(names)) \ sc.deny
  BY <1>2, <1>7, <1>8, AdmittedIs
<1>10. AsAsked(new, options, names, {"active"})
  BY <1>7, <1>8, <1>9, RequestsTyped DEF AsAsked, Kinds
<1> QED
  BY <1>8, <1>10 DEF new

-----------------------------------------------------------------------------
\* At first no session has been described.
LEMMA InitMade == Init => MadeInv
<1> SUFFICES ASSUME Init PROVE MadeInv
  OBVIOUS
<1>1. /\ call = [c \in Calls |-> Idle] /\ scope = [c \in Calls |-> Bare] /\ held = [c \in Calls |-> {}]
      /\ native = [s \in Sessions |-> [state |-> "absent", by |-> {}]]
      /\ journal = [s \in Sessions |-> [policies |-> 0, descriptors |-> 0]] /\ archived = {}
      /\ host \in [roster : BOOLEAN, prompts : BOOLEAN, vocabulary : BOOLEAN]
  BY DEF Init
<1>2. Idle.at = "none" /\ Idle.renamings = 0
  BY DEF Idle
<1>3. Typed
  BY <1>1, <1>2, BareShape, RequestsTyped DEF Typed
<1>4. Lives /\ Logged
  BY <1>1 DEF Lives, Logged
<1>5. \A c \in Calls : Sound(c)
  BY <1>1, <1>2 DEF Sound
<1> QED
  BY <1>3, <1>4, <1>5 DEF MadeInv

(* A call whose child, restrictions and asking stay.                        *)
LEMMA StaysSound ==
  ASSUME NEW c \in Calls, Sound(c), call'[c] = call[c], scope'[c] = scope[c], held'[c] = held[c],
         Runs(c)' => Runs(c)
  PROVE  Sound(c)'
BY DEF Sound, Narrowed, Adopted

(* One call takes a step, and no session changes hands.                     *)
LEMMA OneStep ==
  ASSUME GoneInv, MadeInv, NEW c \in Calls, Typed', UNCHANGED <<host, native>>,
         \A d \in Calls \ {c} : call'[d] = call[d] /\ scope'[d] = scope[d] /\ held'[d] = held[d],
         \A s \in Sessions : journal'[s].descriptors = journal[s].descriptors,
         \A s \in Sessions : native[s].by = {c} => call'[c].at \in {"mounting", "ready"} /\ s \in call'[c].of,
         Sound(c)'
  PROVE  MadeInv'
<1>1. \A d \in Calls : Runs(d)' <=> Runs(d)
  BY DEF Runs
<1>2. \A d \in Calls : Sound(d)'
  <2> SUFFICES ASSUME NEW d \in Calls PROVE Sound(d)'
    OBVIOUS
  <2> QED
    BY <1>1, StaysSound DEF MadeInv
<1>3. Lives'
  BY DEF MadeInv, Lives
<1>4. Logged'
  BY DEF MadeInv, Logged
<1> QED
  BY <1>2, <1>3, <1>4 DEF MadeInv

(* What a call asks for.                                                    *)
SameAsks(r, q) ==
  r.options = q.options /\ r.wants = q.wants /\ r.reopen = q.reopen /\ r.of = q.of
    /\ r.renamings = q.renamings

\* A call that moves on keeps what it asked for, and the others stay.
LEMMA MovesFields ==
  ASSUME Shape, NEW c \in Calls, NEW from, NEW to \in Positions, MovesTo(c, from, to)
  PROVE  /\ call[c].at = from /\ call'[c].at = to /\ SameAsks(call'[c], call[c])
         /\ \A d \in Calls \ {c} : call'[d] = call[d]
<1>1. call' = [call EXCEPT ![c].at = to] /\ call[c].at = from
  BY DEF MovesTo
<1>2. call[c] \in CallRecord
  BY DEF Shape
<1>3. [call[c] EXCEPT !.at = to].at = to /\ SameAsks([call[c] EXCEPT !.at = to], call[c])
  BY <1>2 DEF CallRecord, SameAsks
<1> QED
  BY <1>1, <1>3 DEF Shape

\* A call that is over has nothing left to rename, and the others stay.
LEMMA OverFields ==
  ASSUME Shape, NEW c \in Calls, NEW how \in {"ended", "rejected"}, call' = [call EXCEPT ![c] = Over(how)]
  PROVE  /\ call'[c].at = how /\ call'[c].renamings = 0
         /\ \A d \in Calls \ {c} : call'[d] = call[d]
<1>1. Idle.renamings = 0 /\ Over(how) = [Idle EXCEPT !.at = how] /\ Over(how).at = how
  BY OverShape DEF Over, Idle
<1>2. Over(how).renamings = 0
  BY <1>1, IdleShape DEF CallRecord
<1> QED
  BY <1>1, <1>2 DEF Shape

(* Nobody's child is touched by a call that has none.                       *)
LEMMA NoChildYet ==
  ASSUME MadeInv, NEW c \in Calls, call[c].at \notin {"mounting", "ready"}
  PROVE  \A s \in Sessions : native[s].by # {c}
BY DEF MadeInv, Lives

\* A call begins.
LEMMA AskMade ==
  ASSUME GoneInv, MadeInv, NEW c \in Calls, NEW s \in Sessions, NEW options \in Requests, Ask(c, s, options)
  PROVE  MadeInv'
<1> DEFINE reopens == s \in archived
<1>1. /\ call' = [call EXCEPT ![c] = [call[c] EXCEPT !.at = "preset", !.options = options, !.of = {s},
                                        !.reopen = reopens, !.wants = Wanted(options)]]
      /\ call[c].at = "none" /\ UNCHANGED <<host, scope, held, native, journal, archived>>
  BY Zenon DEF Ask, Wanted
<1>2. ASSUME NEW r \in CallRecord, NEW reopen
      PROVE  LET new == [r EXCEPT !.at = "preset", !.options = options, !.of = {s},
                                  !.reopen = reopen, !.wants = Wanted(options)]
             IN /\ new.at = "preset" /\ new.options = options /\ new.wants = Wanted(options)
                /\ new.renamings = r.renamings
  BY DEF CallRecord
<1>3. call \in [Calls -> CallRecord] /\ call[c] \in CallRecord
  BY DEF GoneInv, Shape
<1> HIDE DEF reopens
<1>4. /\ call'[c].at = "preset" /\ call'[c].options = options /\ call'[c].wants = Wanted(options)
      /\ call'[c].renamings = call[c].renamings
      /\ \A d \in Calls \ {c} : call'[d] = call[d]
  <2> DEFINE new == [call[c] EXCEPT !.at = "preset", !.options = options, !.of = {s},
                                    !.reopen = reopens, !.wants = Wanted(options)]
  <2>1. /\ new.at = "preset" /\ new.options = options /\ new.wants = Wanted(options)
        /\ new.renamings = call[c].renamings
    BY <1>2, <1>3
  <2>2. call' = [call EXCEPT ![c] = new]
    BY <1>1
  <2> HIDE DEF new
  <2> QED
    BY <1>3, <2>1, <2>2
<1>5. Typed'
  BY <1>1, <1>4 DEF MadeInv, Typed
<1>6. Sound(c)'
  BY <1>4 DEF Sound
<1> QED
  BY <1>1, <1>4, <1>5, <1>6, NoChildYet, OneStep

\* The set-up of the scope begins,
LEMMA SetUpMade ==
  ASSUME GoneInv, MadeInv, NEW c \in Calls, NEW s \in Sessions, SetUpBegins(c, s)
  PROVE  MadeInv'
<1>1. /\ MovesTo(c, "creating", "restricting") /\ UNCHANGED <<host, held, native, archived>>
      /\ journal' = [journal EXCEPT ![s].policies = @ + 1]
  BY DEF SetUpBegins
<1>2. PICK carried \in SUBSET Native : scope' = [scope EXCEPT ![c] = [Bare EXCEPT !.carried = carried]]
  <2>1. Global \in SUBSET Native
    BY CreationAssumption DEF CreationAssumption
  <2>2. \E joined \in BOOLEAN :
          scope' = [scope EXCEPT ![c] =
                      [Bare EXCEPT !.carried = IF host.roster /\ ~joined THEN Global ELSE Native]]
    BY DEF SetUpBegins
  <2> QED
    BY <2>1, <2>2
<1>3. "restricting" \in Positions /\ Shape
  BY DEF Positions, GoneInv
<1>4. /\ call[c].at = "creating" /\ call'[c].at = "restricting" /\ SameAsks(call'[c], call[c])
      /\ \A d \in Calls \ {c} : call'[d] = call[d]
  BY <1>1, <1>3, MovesFields
<1>5. [Bare EXCEPT !.carried = carried] \in ScopeRecord /\ Unnarrowed([Bare EXCEPT !.carried = carried])
  BY BareShape
<1>6. /\ scope' \in [Calls -> ScopeRecord] /\ Unnarrowed(scope'[c])
      /\ \A d \in Calls \ {c} : scope'[d] = scope[d]
  BY <1>2, <1>5 DEF MadeInv, Typed
<1>7. /\ journal' \in [Sessions -> [policies : Nat, descriptors : Nat]]
      /\ \A t \in Sessions : journal'[t].descriptors = journal[t].descriptors
  BY <1>1 DEF MadeInv, Typed
<1>8. Typed'
  BY <1>1, <1>4, <1>6, <1>7 DEF MadeInv, Typed, SameAsks
<1>9. Sound(c)'
  BY <1>4, <1>6 DEF MadeInv, Sound, SameAsks
<1> QED
  BY <1>1, <1>4, <1>6, <1>7, <1>8, <1>9, NoChildYet, OneStep

\* and ends.
LEMMA SetUpEndsMade ==
  ASSUME GoneInv, MadeInv, NEW c \in Calls, SetUpEnds(c)
  PROVE  MadeInv'
<1> DEFINE options == call[c].options
           custom == options.custom /\ options.noTools # "all"
           new == [Restricted(scope[c], options, call[c].wants) EXCEPT !.custom = custom]
<1>1. /\ MovesTo(c, "restricting", "publishing") /\ UNCHANGED <<host, held, native, journal, archived>>
      /\ scope' = [scope EXCEPT ![c] = new]
  BY DEF SetUpEnds
<1>2. "publishing" \in Positions /\ Shape
  BY DEF Positions, GoneInv
<1>3. /\ call[c].at = "restricting" /\ call'[c].at = "publishing" /\ SameAsks(call'[c], call[c])
      /\ \A d \in Calls \ {c} : call'[d] = call[d]
  BY <1>1, <1>2, MovesFields
<1>4. options \in Requests /\ custom \in BOOLEAN /\ scope[c] \in ScopeRecord
  BY RequestsTyped DEF GoneInv, Shape, CallRecord, MadeInv, Typed
<1>5. Unnarrowed(scope[c]) /\ call[c].wants = Wanted(options)
  BY <1>3 DEF MadeInv, Sound
<1>6. /\ new \in ScopeRecord
      /\ AsAsked(new, options, call[c].wants, IF call[c].wants # NoNames THEN {"initial"} ELSE {})
  BY <1>4, <1>5, RestrictedAsAsked, ZenonT(30)
<1> HIDE DEF new, custom
<1>7. /\ scope' \in [Calls -> ScopeRecord] /\ scope'[c] = new
      /\ \A d \in Calls \ {c} : scope'[d] = scope[d]
  BY <1>1, <1>6 DEF MadeInv, Typed
<1>8. Typed'
  BY <1>1, <1>3, <1>7 DEF MadeInv, Typed, SameAsks
<1>9. Sound(c)'
  BY <1>3, <1>5, <1>6, <1>7 DEF Sound, SameAsks, Narrowed, Adopted
<1> QED
  BY <1>1, <1>3, <1>7, <1>8, <1>9, NoChildYet, OneStep

\* The host refuses the agent: its scope goes.
LEMMA RefusedMade ==
  ASSUME GoneInv, MadeInv, NEW c \in Calls, NEW s \in Sessions, Refused(c, s)
  PROVE  MadeInv'
<1>1. /\ scope' = [scope EXCEPT ![c] = Bare] /\ UNCHANGED <<host, held, native, journal, archived>>
      /\ call[c].at \in {"creating", "restricting", "publishing"}
      /\ call' = [call EXCEPT ![c].at = "listing"] \/ call' = [call EXCEPT ![c] = Over("rejected")]
  BY DEF Refused
<1>2. Shape /\ "listing" \in Positions
  BY DEF GoneInv, Positions
<1>3. /\ call'[c].at \in {"listing", "rejected"} /\ call'[c].renamings \in {0, call[c].renamings}
      /\ \A d \in Calls \ {c} : call'[d] = call[d]
  <2>1. CASE call' = [call EXCEPT ![c].at = "listing"]
    <3>1. MovesTo(c, call[c].at, "listing")
      BY <2>1 DEF MovesTo
    <3> QED
      BY <1>2, <3>1, MovesFields DEF SameAsks
  <2>2. CASE call' = [call EXCEPT ![c] = Over("rejected")]
    BY <1>2, <2>2, OverFields
  <2> QED
    BY <1>1, <2>1, <2>2
<1>4. scope' \in [Calls -> ScopeRecord] /\ \A d \in Calls \ {c} : scope'[d] = scope[d]
  BY <1>1, BareShape DEF MadeInv, Typed
<1>5. Typed'
  BY <1>1, <1>3, <1>4, RequestsTyped DEF MadeInv, Typed
<1>6. Sound(c)'
  BY <1>3 DEF Sound
<1> QED
  BY <1>1, <1>3, <1>4, <1>5, <1>6, NoChildYet, OneStep

(* Steps of a call without a child that leave the scopes alone.             *)
LEMMA BareStep ==
  ASSUME GoneInv, MadeInv, NEW c \in Calls, NEW from, NEW to,
         <<from, to>> \in {<<"preset", "creating">>, <<"listing", "discarding">>},
         MovesTo(c, from, to), UNCHANGED <<host, scope, held, native, journal, archived>>
  PROVE  MadeInv'
<1>1. /\ to \in Positions /\ from \notin {"mounting", "ready"} /\ Shape
      /\ to \in {"creating", "discarding"} /\ (to = "creating" => from = "preset")
  BY DEF Positions, GoneInv
<1>2. /\ call[c].at = from /\ call'[c].at = to /\ SameAsks(call'[c], call[c])
      /\ \A d \in Calls \ {c} : call'[d] = call[d]
  BY <1>1, MovesFields
<1>3. Typed'
  BY <1>2 DEF MadeInv, Typed, SameAsks
<1>4. Sound(c)'
  BY <1>1, <1>2 DEF MadeInv, Sound, SameAsks
<1> QED
  BY <1>1, <1>2, <1>3, <1>4, NoChildYet, OneStep

\* A call ends that holds no session.
LEMMA BareEnd ==
  ASSUME GoneInv, MadeInv, NEW c \in Calls, NEW how \in {"ended", "rejected"},
         call' = [call EXCEPT ![c] = Over(how)], UNCHANGED <<host, scope, held, native, journal>>,
         archived' \subseteq Sessions, \A s \in Sessions : native[s].by # {c}
  PROVE  MadeInv'
<1>1. /\ call'[c].at = how /\ call'[c].renamings = 0
      /\ \A d \in Calls \ {c} : call'[d] = call[d]
  BY OverFields DEF GoneInv
<1>2. Typed'
  BY <1>1, RequestsTyped DEF MadeInv, Typed
<1>3. Sound(c)'
  BY <1>1 DEF Sound
<1> QED
  BY <1>1, <1>2, <1>3, OneStep

(* The packages are mounted and the session handed over, if it is still the *)
(* child of this call that runs it.                                         *)
LEMMA HandOverMade ==
  ASSUME GoneInv, MadeInv, NEW c \in Calls, NEW s \in Sessions, HandOver(c, s)
  PROVE  MadeInv'
<1>1. /\ s \in call[c].of /\ call[c].at = "mounting" /\ UNCHANGED <<host, scope, native, journal>>
      /\ archived' \subseteq Sessions
  BY DEF HandOver, MovesTo, MadeInv, Typed
<1>2. CASE native[s].by = {c}
  <2>1. MovesTo(c, "mounting", "ready") /\ held' = [held EXCEPT ![c] = Adopted(c)]
    BY <1>2 DEF HandOver
  <2>2. "ready" \in Positions /\ Shape
    BY DEF Positions, GoneInv
  <2>3. /\ call'[c].at = "ready" /\ SameAsks(call'[c], call[c])
        /\ \A d \in Calls \ {c} : call'[d] = call[d]
    BY <2>1, <2>2, MovesFields
  <2>4. Adopted(c) \in SUBSET Kinds
    BY DEF Adopted, Kinds
  <2>5. /\ held' \in [Calls -> SUBSET Kinds] /\ held'[c] = Adopted(c)
        /\ \A d \in Calls \ {c} : held'[d] = held[d]
    BY <2>1, <2>4 DEF MadeInv, Typed
  <2>6. Typed'
    BY <1>1, <2>3, <2>5 DEF MadeInv, Typed, SameAsks
  <2>7. Runs(c)
    <3>1. native[s].state = "live" /\ native[s].by = {c}
      BY <1>2 DEF MadeInv, Lives
    <3>2. native[s] \in [state : {"absent", "stored", "live", "deleted"}, by : SUBSET Calls]
      BY <2>2 DEF Shape
    <3>3. native[s] = [state |-> "live", by |-> {c}]
      BY <3>1, <3>2
    <3> QED
      BY <3>3 DEF Runs
  <2>8. AsAsked(scope[c], call[c].options, call[c].wants, Adopted(c))
    BY <1>1, <2>7 DEF MadeInv, Sound, Narrowed
  <2>9. Sound(c)'
    BY <1>1, <2>3, <2>5, <2>8 DEF Sound, SameAsks, Narrowed
  <2>10. \A t \in Sessions : native[t].by = {c} => call'[c].at = "ready" /\ t \in call'[c].of
    BY <2>3 DEF MadeInv, Lives, SameAsks
  <2> QED
    BY <1>1, <2>3, <2>5, <2>6, <2>9, <2>10, OneStep
<1>3. CASE native[s].by # {c}
  <2>1. call' = [call EXCEPT ![c] = Over("ended")] /\ held' = held
    BY <1>3 DEF HandOver
  <2>2. \A t \in Sessions : native[t].by # {c}
    <3> SUFFICES ASSUME NEW t \in Sessions, native[t].by = {c} PROVE FALSE
      OBVIOUS
    <3>1. t \in call[c].of
      BY DEF MadeInv, Lives
    <3>2. t = s
      BY <1>1, <3>1 DEF GoneInv, OfOne
    <3> QED
      BY <1>3, <3>2
  <2> QED
    BY <1>1, <2>1, <2>2, BareEnd
<1> QED
  BY <1>2, <1>3

\* The package names the active tools anew: the last list is what counts.
LEMMA RenamedMade ==
  ASSUME GoneInv, MadeInv, NEW c \in Calls, NEW s \in Sessions, NEW names \in SUBSET Names,
         SetActiveToolsByName(c, s, names)
  PROVE  MadeInv'
<1> DEFINE new == Renamed(scope[c], held[c], names)
<1>1. /\ call[c].at = "ready" /\ native[s] = [state |-> "live", by |-> {c}]
      /\ call[c].renamings < MaxRenamings
      /\ call' = [call EXCEPT ![c].wants = names, ![c].renamings = @ + 1]
      /\ scope' = [scope EXCEPT ![c] = new] /\ held' = [held EXCEPT ![c] = {"active"}]
      /\ UNCHANGED <<host, native, journal, archived>>
  BY DEF SetActiveToolsByName
<1>2. call \in [Calls -> CallRecord] /\ call[c] \in CallRecord /\ Runs(c)
  BY <1>1 DEF GoneInv, Shape, Runs
<1>3. /\ call'[c].at = "ready" /\ call'[c].options = call[c].options /\ call'[c].wants = names
      /\ call'[c].of = call[c].of /\ call'[c].renamings = call[c].renamings + 1
      /\ \A d \in Calls \ {c} : call'[d] = call[d]
  BY <1>1, <1>2 DEF CallRecord
<1>4. call[c].renamings + 1 <= MaxRenamings
  BY <1>1, <1>2, RequestsTyped DEF CallRecord
<1>5. AsAsked(scope[c], call[c].options, call[c].wants, held[c]) /\ scope[c] \in ScopeRecord
  BY <1>1, <1>2 DEF MadeInv, Sound, Narrowed, Typed
<1>6. new \in ScopeRecord /\ AsAsked(new, call[c].options, names, {"active"})
  BY <1>5, RenamedAsAsked
<1> HIDE DEF new
<1>7. /\ scope' \in [Calls -> ScopeRecord] /\ scope'[c] = new
      /\ held' \in [Calls -> SUBSET Kinds] /\ held'[c] = {"active"}
      /\ \A d \in Calls \ {c} : scope'[d] = scope[d] /\ held'[d] = held[d]
  BY <1>1, <1>6 DEF MadeInv, Typed, Kinds
<1>8. Typed'
  BY <1>1, <1>3, <1>4, <1>7, ZenonT(30) DEF MadeInv, Typed
<1>9. Sound(c)'
  BY <1>3, <1>6, <1>7 DEF Sound, Narrowed
<1>10. \A t \in Sessions : native[t].by = {c} => call'[c].at = "ready" /\ t \in call'[c].of
  BY <1>3 DEF MadeInv, Lives
<1> QED
  BY <1>1, <1>3, <1>7, <1>8, <1>9, <1>10, OneStep

-----------------------------------------------------------------------------
(* The steps in which a session changes hands.                              *)

\* The host publishes the agent, which is described when it is new.
LEMMA PublishedMade ==
  ASSUME GoneInv, MadeInv, NEW c \in Calls, NEW s \in Sessions, Published(c, s)
  PROVE  MadeInv'
<1>1. /\ s \in call[c].of /\ native[s].state = (IF call[c].reopen THEN "stored" ELSE "absent")
      /\ MovesTo(c, "publishing", "mounting") /\ UNCHANGED <<host, scope, held, archived>>
      /\ native' = [native EXCEPT ![s] = [state |-> "live", by |-> {c}]]
      /\ journal' = [journal EXCEPT ![s].descriptors = @ + Described(c)]
  BY DEF Published
<1>2. "mounting" \in Positions /\ Shape
  BY DEF Positions, GoneInv
<1>3. /\ call[c].at = "publishing" /\ call'[c].at = "mounting" /\ SameAsks(call'[c], call[c])
      /\ \A d \in Calls \ {c} : call'[d] = call[d]
  BY <1>1, <1>2, MovesFields
<1>4. /\ native'[s].state = "live" /\ native'[s].by = {c}
      /\ \A t \in Sessions \ {s} : native'[t] = native[t]
  BY <1>1, <1>2 DEF Shape
<1>5. Described(c) \in Nat
  BY DEF Described
<1>6. /\ journal' \in [Sessions -> [policies : Nat, descriptors : Nat]]
      /\ journal'[s].descriptors = journal[s].descriptors + Described(c)
      /\ \A t \in Sessions \ {s} : journal'[t] = journal[t]
  BY <1>1, <1>5 DEF MadeInv, Typed
<1>7. Typed'
  BY <1>1, <1>3, <1>6 DEF MadeInv, Typed, SameAsks
<1>8. Logged'
  <2>1. journal'[s].descriptors = IF host.vocabulary THEN 1 ELSE 0
    BY <1>1, <1>6 DEF MadeInv, Logged, Described
  <2> QED
    BY <1>1, <1>4, <1>6, <2>1 DEF MadeInv, Logged
<1>9. Lives'
  <2>1. ASSUME NEW t \in Sessions, NEW d \in Calls, native'[t].by = {d}
        PROVE  call'[d].at \in {"mounting", "ready"} /\ t \in call'[d].of
    <3>1. CASE d = c
      <4>1. t = s
        BY <1>3, <1>4, <2>1, <3>1 DEF MadeInv, Lives
      <4> QED
        BY <1>1, <1>3, <3>1, <4>1 DEF SameAsks
    <3>2. CASE d # c
      <4>1. t # s
        BY <1>4, <2>1, <3>2
      <4> QED
        BY <1>3, <1>4, <2>1, <3>2, <4>1 DEF MadeInv, Lives
    <3> QED
      BY <3>1, <3>2
  <2> QED
    BY <1>4, <2>1 DEF MadeInv, Lives
<1>10. ASSUME NEW d \in Calls PROVE Sound(d)'
  <2>1. CASE d = c
    <3>1. call[c].wants = Wanted(call[c].options) /\ AsAsked(scope[c], call[c].options, call[c].wants, Adopted(c))
      BY <1>3 DEF MadeInv, Sound, Narrowed
    <3> QED
      BY <1>1, <1>3, <2>1, <3>1 DEF Sound, SameAsks, Narrowed, Adopted
  <2>2. CASE d # c
    <3>1. Runs(d)' => Runs(d)
      BY <1>4, <2>2 DEF Runs
    <3> QED
      BY <1>1, <1>3, <2>2, <3>1, StaysSound DEF MadeInv
  <2> QED
    BY <2>1, <2>2
<1> QED
  BY <1>7, <1>8, <1>9, <1>10 DEF MadeInv

\* The agent is disposed of: its scope goes.
LEMMA DisposedMade ==
  ASSUME GoneInv, MadeInv, NEW c \in Calls, NEW s \in Sessions, Disposed(c, s)
  PROVE  MadeInv'
<1>1. /\ native[s] = [state |-> "live", by |-> {c}]
      /\ native' = [native EXCEPT ![s] = [state |-> "stored", by |-> {}]]
      /\ scope' = [scope EXCEPT ![c] = Bare] /\ held' = [held EXCEPT ![c] = {}]
      /\ call' = [call EXCEPT ![c] = IF call[c].at = "ready" THEN Over("ended") ELSE call[c]]
      /\ UNCHANGED <<host, journal, archived>>
  BY DEF Disposed
<1>2. /\ native'[s].state = "stored" /\ native'[s].by = {} /\ native[s].state = "live" /\ native[s].by = {c}
      /\ \A t \in Sessions \ {s} : native'[t] = native[t]
  BY <1>1 DEF GoneInv, Shape
<1>3. /\ \A d \in Calls \ {c} : call'[d] = call[d] /\ scope'[d] = scope[d] /\ held'[d] = held[d]
      /\ scope' \in [Calls -> ScopeRecord] /\ held' \in [Calls -> SUBSET Kinds]
  BY <1>1, BareShape DEF GoneInv, Shape, MadeInv, Typed
<1>4. /\ call'[c] = call[c] \/ call'[c].at = "ended"
      /\ call'[c].renamings \in {0, call[c].renamings}
      /\ call'[c].at # "ready"
  <2>1. CASE call[c].at = "ready"
    <3>1. call' = [call EXCEPT ![c] = Over("ended")]
      BY <1>1, <2>1
    <3> QED
      BY <3>1, OverFields DEF GoneInv
  <2>2. CASE call[c].at # "ready"
    BY <1>1, <2>2 DEF GoneInv, Shape
  <2> QED
    BY <2>1, <2>2
<1>5. Typed'
  BY <1>1, <1>3, <1>4, RequestsTyped DEF MadeInv, Typed
<1>6. Logged'
  BY <1>1, <1>2 DEF MadeInv, Logged
<1>7. \A t \in Sessions : native'[t].by # {c}
  <2> SUFFICES ASSUME NEW t \in Sessions, native'[t].by = {c} PROVE FALSE
    OBVIOUS
  <2>1. t # s /\ native[t].by = {c}
    BY <1>2
  <2>2. s \in call[c].of /\ t \in call[c].of
    BY <1>2, <2>1 DEF MadeInv, Lives
  <2> QED
    BY <2>1, <2>2 DEF GoneInv, OfOne
<1>8. Lives'
  BY <1>2, <1>3, <1>7 DEF MadeInv, Lives
<1>9. ASSUME NEW d \in Calls PROVE Sound(d)'
  <2>1. CASE d = c
    <3>1. call[c].at \in {"mounting", "ready"}
      BY <1>2 DEF MadeInv, Lives
    <3>2. ~Runs(c)'
      BY <1>7 DEF Runs
    <3> QED
      BY <1>4, <2>1, <3>1, <3>2 DEF MadeInv, Sound
  <2>2. CASE d # c
    <3>1. Runs(d)' => Runs(d)
      BY <1>2 DEF Runs
    <3> QED
      BY <1>3, <2>2, <3>1, StaysSound DEF MadeInv
  <2> QED
    BY <2>1, <2>2
<1> QED
  BY <1>5, <1>6, <1>8, <1>9 DEF MadeInv

\* The store deletes a session.
LEMMA DeletedMade ==
  ASSUME GoneInv, MadeInv, NEW s \in Sessions, Deleted(s)
  PROVE  MadeInv'
<1>1. /\ native[s].state = "stored" /\ native' = [native EXCEPT ![s].state = "deleted"]
      /\ UNCHANGED <<host, call, scope, held, journal, archived>>
  BY DEF Deleted
<1>2. /\ native'[s].state = "deleted" /\ native'[s].by = native[s].by
      /\ \A t \in Sessions \ {s} : native'[t] = native[t]
  BY <1>1 DEF GoneInv, Shape
<1>3. Typed' /\ Logged' /\ Lives'
  BY <1>1, <1>2 DEF MadeInv, Typed, Logged, Lives
<1>4. ASSUME NEW d \in Calls PROVE Sound(d)'
  <2>1. Runs(d)' => Runs(d)
    BY <1>2 DEF Runs
  <2> QED
    BY <1>1, <2>1, StaysSound DEF MadeInv
<1> QED
  BY <1>3, <1>4 DEF MadeInv

\* Every step keeps the invariant.
LEMMA StepMade == GoneInv /\ MadeInv /\ [Next]_vars => MadeInv'
<1> SUFFICES ASSUME GoneInv, MadeInv, [Next]_vars PROVE MadeInv'
  OBVIOUS
<1>1. ASSUME NEW c \in Calls, NEW s \in Sessions, Step(c, s) PROVE MadeInv'
  <2>1. CASE Listed(c, s)
    <3>1. call[c].at = "listing" /\ UNCHANGED <<host, scope, held, native, journal, archived>>
      BY <2>1 DEF Listed
    <3>2. CASE call' = [call EXCEPT ![c].at = "discarding"]
      <4>1. MovesTo(c, "listing", "discarding")
        BY <3>1, <3>2 DEF MovesTo
      <4> QED
        BY <3>1, <4>1, BareStep
    <3>3. CASE call' = [call EXCEPT ![c] = Over("rejected")]
      BY <3>1, <3>3, BareEnd, NoChildYet DEF MadeInv, Typed
    <3> QED
      BY <2>1, <3>2, <3>3 DEF Listed
  <2>2. CASE Discard(c, s)
    BY <2>2, BareEnd, NoChildYet DEF Discard, MadeInv, Typed
  <2> QED
    BY <1>1, <2>1, <2>2, SetUpMade, PublishedMade, HandOverMade DEF Step
<1>2. ASSUME NEW c \in Calls, ResolvePreset(c) PROVE MadeInv'
  BY <1>2, BareStep DEF ResolvePreset
<1>3. CASE UNCHANGED vars
  <2>1. \A c \in Calls : Sound(c)'
    BY <1>3 DEF vars, MadeInv, Sound, Runs, Narrowed, Adopted
  <2> QED
    BY <1>3, <2>1 DEF vars, MadeInv, Typed, Lives, Logged
<1> QED
  BY <1>1, <1>2, <1>3, AskMade, RefusedMade, DisposedMade, RenamedMade, SetUpEndsMade, DeletedMade
     DEF Next

(* Whoever else creates, reopens, disposes of or deletes sessions in        *)
(* between, and however often the tools are renamed: a child sees, of the   *)
(* host's tools, those it was asked for last, but for what was excluded at  *)
(* first ("must retire this one, not stack on it", subagent-bridge.ts       *)
(* 938-939).                                                                *)
THEOREM ChildSeesAsAsked == Spec => []ToolsAsAsked
<1>1. GoneInv /\ MadeInv => ToolsAsAsked
  <2> SUFFICES ASSUME GoneInv, MadeInv, NEW c \in Calls, NEW s \in Sessions, HandedOver(c, s)
               PROVE  LET wanted == IF call[c].wants = NoNames THEN scope[c].carried
                                    ELSE scope[c].carried \cap NativeNames(call[c].wants)
                          excluded == NativeNames(call[c].options.excluded)
                      IN /\ Admitted(scope[c]) \subseteq wanted
                         /\ wanted \ excluded \subseteq Admitted(scope[c])
                         /\ (call[c].options.tools = NoNames /\ call[c].options.noTools = "no")
                              => Admitted(scope[c]) \cap excluded = {}
    BY DEF ToolsAsAsked
  <2>1. AsAsked(scope[c], call[c].options, call[c].wants, held[c])
    BY DEF HandedOver, Runs, MadeInv, Sound, Narrowed
  <2>2. Admitted(scope[c]) \subseteq scope[c].carried
    BY DEF Admitted
  <2> QED
    BY <2>1, <2>2 DEF AsAsked
<1> QED
  BY <1>1, InitGone, StepGone, InitMade, StepMade, PTL DEF Spec

(* However often a session is reopened and whatever calls failed: the log   *)
(* of a session that was ever handed over has one descriptor if the host    *)
(* knows the event (another "would duplicate the identity event",           *)
(* subagent-bridge.ts 1037-1045).                                           *)
THEOREM SessionDescribedOnce == Spec => []DescribedOnce
<1>1. GoneInv /\ MadeInv => DescribedOnce
  <2> SUFFICES ASSUME GoneInv, MadeInv PROVE DescribedOnce
    OBVIOUS
  <2>1. call \in [Calls -> [at : {"none", "preset", "creating", "restricting", "publishing", "listing",
                               "discarding", "mounting", "ready", "ended", "rejected"},
                         options : Requests, reopen : BOOLEAN, of : SUBSET Sessions,
                         wants : (SUBSET Names) \cup {NoNames}, renamings : 0 .. MaxRenamings]]
    <3>1. \A c \in Calls : call[c] \in CallRecord /\ call[c].renamings <= MaxRenamings
      BY DEF GoneInv, Shape, MadeInv, Typed
    <3>2. Requests \cup {AnyRequest} = Requests
      BY RequestsTyped
    <3>3. ASSUME NEW r \in CallRecord, r.renamings <= MaxRenamings
          PROVE  r \in [at : Positions, options : Requests, reopen : BOOLEAN, of : SUBSET Sessions,
                        wants : (SUBSET Names) \cup {NoNames}, renamings : 0 .. MaxRenamings]
      BY <3>2, <3>3, RequestsTyped DEF CallRecord
    <3>4. call = [c \in Calls |-> call[c]]
      BY DEF GoneInv, Shape
    <3> QED
      BY <3>1, <3>3, <3>4 DEF Positions
  <2>2. scope \in [Calls -> [carried : SUBSET Native, allow : [Kinds -> SUBSET Native],
                             deny : SUBSET Native, custom : BOOLEAN]]
    BY DEF MadeInv, Typed, ScopeRecord
  <2>3. TypeOK
    BY <2>1, <2>2 DEF TypeOK, GoneInv, Shape, MadeInv, Typed
  <2> QED
    BY <2>3 DEF DescribedOnce, MadeInv, Logged
<1> QED
  BY <1>1, InitGone, StepGone, InitMade, StepMade, PTL DEF Spec
=============================================================================
