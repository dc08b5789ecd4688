--------------------------- MODULE ChildCreation ---------------------------
(***************************************************************************)
(* createBridgedAgentSession (src/src/subagent-bridge.ts): how a package's *)
(* child session comes into being, or is reopened from the archive file    *)
(* that names it, and what becomes of its tools afterwards.                *)
(*                                                                         *)
(* A call runs over several awaits: the roster's preset, the registry's    *)
(* create or resume with the set-up it calls on the unpublished scope, the *)
(* mount of the child's packages, and after a failed resume the listing of *)
(* the stored sessions.  Other calls, deletions of sessions and the end of *)
(* the parent (which takes its children along) may come in between.        *)
(*                                                                         *)
(* DSH is external: the registry, its tool restrictions (a tool is visible *)
(* if every restriction of the scope admits it; registrations of the scope *)
(* itself are out of their reach) and its stored sessions.                 *)
(***************************************************************************)
EXTENDS Naturals, FiniteSets

CONSTANTS
  Calls,        \* calls of createAgentSession
  Sessions,     \* durable sessions they may create
  Names,        \* Pi's tool names a package may use
  Native,       \* the host's tools
  Global,       \* those of them a child sees that joined no preset
  Requests,     \* the options a call may come with
  MaxRenamings  \* bound: calls of setActiveToolsByName, per child

NoNames == {"no names"}   \* the option is absent

ASSUME CreationAssumption ==
  /\ Global \subseteq Native /\ MaxRenamings \in Nat
  /\ "no names" \notin Names /\ Requests # {}
  /\ Requests \subseteq [tools : (SUBSET Names) \cup {NoNames}, excluded : SUBSET Names,
                         noTools : {"no", "builtin", "all"}, custom : BOOLEAN, prompt : BOOLEAN]

VARIABLES
  host,       \* what the composition has: a roster, a prompt service, the subagent vocabulary
  call,       \* each call: position, options, session, and what it was asked for last
  scope,      \* the child's scope: restrictions, custom tools, and what it sees without them
  held,       \* which restriction the child session's #restrictionDispose retires
  native,     \* DSH: each session, absent, stored, live or deleted
  journal,    \* its log: how often the delegation policy and the descriptor were appended
  archived    \* the sessions an archive file names

vars == <<host, call, scope, held, native, journal, archived>>

Kinds == {"initial", "active"}

(* nativeToolNameOf: find and ls are both served by glob.                   *)
NativeName(name) == IF name \in {"find", "ls"} THEN "glob" ELSE name
NativeNames(names) == {NativeName(n) : n \in names}

(* Of the host's tools, what every restriction in force admits.             *)
Admitted(sc) == {t \in sc.carried : (\A k \in Kinds : t \in sc.allow[k]) /\ t \notin sc.deny}

(* restrict() refuses unknown names; those a child does not see are left    *)
(* out (childSchemas).                                                      *)
Known(sc, names) == NativeNames(names) \cap Admitted(sc)

Unrestricted == [k \in Kinds |-> Native]
Bare == [carried |-> Global, allow |-> Unrestricted, deny |-> {}, custom |-> FALSE]
Idle == [at |-> "none", options |-> CHOOSE r \in Requests : TRUE, reopen |-> FALSE,
         of |-> {}, wants |-> NoNames, renamings |-> 0]

TypeOK ==
  /\ host \in [roster : BOOLEAN, prompts : BOOLEAN, vocabulary : BOOLEAN]
  /\ call \in [Calls -> [at : {"none", "preset", "creating", "restricting", "publishing", "listing",
                               "discarding", "mounting", "ready", "ended", "rejected"},
                         options : Requests, reopen : BOOLEAN, of : SUBSET Sessions,
                         wants : (SUBSET Names) \cup {NoNames}, renamings : 0 .. MaxRenamings]]
  /\ scope \in [Calls -> [carried : SUBSET Native, allow : [Kinds -> SUBSET Native],
                          deny : SUBSET Native, custom : BOOLEAN]]
  /\ held \in [Calls -> SUBSET Kinds]
  /\ native \in [Sessions -> [state : {"absent", "stored", "live", "deleted"}, by : SUBSET Calls]]
  /\ journal \in [Sessions -> [policies : Nat, descriptors : Nat]]
  /\ archived \subseteq Sessions

Init ==
  /\ host \in [roster : BOOLEAN, prompts : BOOLEAN, vocabulary : BOOLEAN]
  /\ call = [c \in Calls |-> Idle]
  /\ scope = [c \in Calls |-> Bare]
  /\ held = [c \in Calls |-> {}]
  /\ native = [s \in Sessions |-> [state |-> "absent", by |-> {}]]
  /\ journal = [s \in Sessions |-> [policies |-> 0, descriptors |-> 0]]
  /\ archived = {}

(* A call that is over leaves nothing behind but how it ended.              *)
Over(how) == [Idle EXCEPT !.at = how]

MovesTo(c, from, to) ==
  /\ call[c].at = from
  /\ call' = [call EXCEPT ![c].at = to]

-----------------------------------------------------------------------------
(* The call, up to the registry.                                            *)

(* A fresh session, or the one an archive file names.                       *)
Ask(c, s, options) ==
  /\ call[c].at = "none"
  /\ \/ native[s].state = "absent" /\ \A d \in Calls : s \notin call[d].of
     \/ s \in archived
  /\ call' = [call EXCEPT ![c] = [@ EXCEPT !.at = "preset", !.options = options, !.of = {s},
                !.reopen = s \in archived,
                !.wants = IF options.tools # NoNames THEN options.tools
                          ELSE IF options.noTools # "no" THEN {} ELSE NoNames]]
  /\ UNCHANGED <<host, scope, held, native, journal, archived>>

(* The roster has answered, whatever it said.                               *)
ResolvePreset(c) ==
  /\ MovesTo(c, "preset", "creating")
  /\ UNCHANGED <<host, scope, held, native, journal, archived>>

(* The registry calls the set-up: the policy is seeded into the log, and    *)
(* the child joins a preset composition, inherited or mounted.  Without a   *)
(* roster the host's tools are global; with one, a child that joins nothing *)
(* is left with what happens to be.                                         *)
SetUpBegins(c, s) ==
  /\ s \in call[c].of
  /\ native[s].state = IF call[c].reopen THEN "stored" ELSE "absent"
  /\ \A d \in Calls : call[d].at \in {"restricting", "publishing"} => s \notin call[d].of
  /\ MovesTo(c, "creating", "restricting")
  /\ journal' = [journal EXCEPT ![s].policies = @ + 1]
  /\ \E joined \in BOOLEAN :
       scope' = [scope EXCEPT ![c] =
                   [Bare EXCEPT !.carried = IF host.roster /\ ~joined THEN Global ELSE Native]]
  /\ UNCHANGED <<host, held, native, archived>>

(* The allowlist, then the denylist as a restriction of its own.            *)
Restricted(sc, options, wants) ==
  LET allowed == IF wants = NoNames THEN sc
                 ELSE [sc EXCEPT !.allow["initial"] = Known(sc, wants)]
  IN [allowed EXCEPT !.deny = Known(allowed, options.excluded)]

(* The rest of the set-up runs without a break.  It throws for a prompt     *)
(* that no service can carry.                                               *)
SetUpEnds(c) ==
  LET options == call[c].options IN
    /\ ~(options.prompt /\ ~host.prompts)
    /\ MovesTo(c, "restricting", "publishing")
    /\ scope' = [scope EXCEPT ![c] =
                   [Restricted(@, options, call[c].wants) EXCEPT
                      !.custom = options.custom /\ options.noTools # "all"]]
    /\ UNCHANGED <<host, held, native, journal, archived>>

(* FAULT: whatever is not there to be resumed counts as gone.               *)
Verdict_Unasked(s) == native[s].state # "stored"

(* sessionGoneFromPersistence: only a listing that lacks the session says   *)
(* so; one that fails or does not exist says nothing.                       *)
Verdict(s) == native[s].state = "deleted"

(* The set-up threw, the signal was aborted, or the registry refused; the   *)
(* scope is unwound.                                                        *)
Refused(c, s) ==
  /\ s \in call[c].of
  /\ call[c].at \in {"creating", "restricting", "publishing"}
  /\ call' = [call EXCEPT ![c] = IF @.reopen THEN [@ EXCEPT !.at = "listing"] ELSE Over("rejected")]
  /\ scope' = [scope EXCEPT ![c] = Bare]
  /\ UNCHANGED <<host, held, native, journal, archived>>

Listed(c, s) ==
  /\ s \in call[c].of
  /\ call[c].at = "listing"
  /\ \/ Verdict(s) /\ call' = [call EXCEPT ![c].at = "discarding"]
     \/ call' = [call EXCEPT ![c] = Over("rejected")]
  /\ UNCHANGED <<host, scope, held, native, journal, archived>>

(* discardStaleArchive, then the error.                                     *)
Discard(c, s) ==
  /\ s \in call[c].of
  /\ call[c].at = "discarding"
  /\ call' = [call EXCEPT ![c] = Over("rejected")]
  /\ archived' = archived \ {s}
  /\ UNCHANGED <<host, scope, held, native, journal>>

-----------------------------------------------------------------------------
(* The child is there.                                                      *)

(* FAULT: a reopened child is described again.                              *)
Described_Again(c) == IF host.vocabulary THEN 1 ELSE 0

(* How often the descriptor is appended: a reopened session has it, a host  *)
(* without the subagent vocabulary refuses it.                              *)
Described(c) == IF ~call[c].reopen /\ host.vocabulary THEN 1 ELSE 0

(* create() or resume() resolves: the child is published, described and     *)
(* adopted.                                                                 *)
Published(c, s) ==
  /\ s \in call[c].of
  /\ native[s].state = IF call[c].reopen THEN "stored" ELSE "absent"
  /\ MovesTo(c, "publishing", "mounting")
  /\ native' = [native EXCEPT ![s] = [state |-> "live", by |-> {c}]]
  /\ journal' = [journal EXCEPT ![s].descriptors = @ + Described(c)]
  /\ UNCHANGED <<host, scope, held, archived>>

(* FAULT: the session does not know of the restriction it began with.       *)
Adopted_Nothing(c) == {}

Adopted(c) == IF call[c].wants # NoNames THEN {"initial"} ELSE {}

(* The packages are mounted; those that do not mount are reported, and no   *)
(* more.  The session is handed over with the restriction, and its archive  *)
(* may name it from now on.  Its agent may be gone by then.                 *)
HandOver(c, s) ==
  /\ s \in call[c].of
  /\ IF native[s].by = {c} THEN /\ MovesTo(c, "mounting", "ready")
                               /\ held' = [held EXCEPT ![c] = Adopted(c)]
                          ELSE /\ call[c].at = "mounting"
                               /\ call' = [call EXCEPT ![c] = Over("ended")]
                               /\ held' = held
  /\ archived' = IF native[s].state = "deleted" THEN archived ELSE archived \cup {s}
  /\ UNCHANGED <<host, scope, native, journal>>

(* The restriction held is retired; then what the child sees says which     *)
(* names the new one may have.                                              *)
Renamed(sc, retired, names) ==
  LET open == [sc EXCEPT !.allow = [k \in Kinds |-> IF k \in retired THEN Native ELSE @[k]]]
  IN [open EXCEPT !.allow["active"] = Known(open, names)]

SetActiveToolsByName(c, s, names) ==
  /\ s \in call[c].of
  /\ call[c].at = "ready"
  /\ native[s] = [state |-> "live", by |-> {c}]
  /\ call[c].renamings < MaxRenamings
  /\ call' = [call EXCEPT ![c].wants = names, ![c].renamings = @ + 1]
  /\ scope' = [scope EXCEPT ![c] = Renamed(@, held[c], names)]
  /\ held' = [held EXCEPT ![c] = {"active"}]
  /\ UNCHANGED <<host, native, journal, archived>>

(* The session is disposed, or its parent is: the scope goes with the agent.*)
Disposed(c, s) ==
  /\ native[s] = [state |-> "live", by |-> {c}]
  /\ native' = [native EXCEPT ![s] = [state |-> "stored", by |-> {}]]
  /\ scope' = [scope EXCEPT ![c] = Bare]
  /\ held' = [held EXCEPT ![c] = {}]
  /\ call' = [call EXCEPT ![c] = IF @.at = "ready" THEN Over("ended") ELSE @]
  /\ UNCHANGED <<host, journal, archived>>

(* The user deletes the stored session.                                     *)
Deleted(s) ==
  /\ native[s].state = "stored"
  /\ native' = [native EXCEPT ![s].state = "deleted"]
  /\ UNCHANGED <<host, call, scope, held, journal, archived>>

-----------------------------------------------------------------------------
Step(c, s) ==
  \/ SetUpBegins(c, s) \/ Published(c, s) \/ HandOver(c, s) \/ Listed(c, s) \/ Discard(c, s)

Next ==
  \/ \E c \in Calls, s \in Sessions :
       \/ \E options \in Requests : Ask(c, s, options)
       \/ Step(c, s) \/ Refused(c, s) \/ Disposed(c, s)
       \/ \E names \in SUBSET Names : SetActiveToolsByName(c, s, names)
  \/ \E c \in Calls : ResolvePreset(c) \/ SetUpEnds(c)
  \/ \E s \in Sessions : Deleted(s)

Spec == Init /\ [][Next]_vars

-----------------------------------------------------------------------------
(* Properties.                                                              *)

(* Session s is in the hands of the package, and the child of c runs it.     *)
HandedOver(c, s) == call[c].at = "ready" /\ native[s] = [state |-> "live", by |-> {c}]

(* A child sees of the host's tools those it was asked for last, but for    *)
(* what was excluded at first: a later setActiveToolsByName "must retire    *)
(* this one, not stack on it" (subagent-bridge.ts:938-939).  Unless it      *)
(* began with an allowlist, none of the excluded ones comes back.           *)
ToolsAsAsked ==
  \A c \in Calls, s \in Sessions :
    LET wanted == IF call[c].wants = NoNames THEN scope[c].carried
                  ELSE scope[c].carried \cap NativeNames(call[c].wants)
        excluded == NativeNames(call[c].options.excluded)
    IN HandedOver(c, s) =>
         /\ Admitted(scope[c]) \subseteq wanted
         /\ wanted \ excluded \subseteq Admitted(scope[c])
         /\ (call[c].options.tools = NoNames /\ call[c].options.noTools = "no")
              => Admitted(scope[c]) \cap excluded = {}

(* "The child cannot re-open a denied name through setActiveToolsByName"    *)
(* (subagent-bridge.ts:943-945).  Refuted: the denylist is cut to what the  *)
(* allowlist has left.                                                      *)
DeniedStaysDenied ==
  \A c \in Calls, s \in Sessions :
    HandedOver(c, s) => Admitted(scope[c]) \cap NativeNames(call[c].options.excluded) = {}

(* However often it is reopened, and whatever calls failed, the log of a    *)
(* session that was ever handed over has one descriptor if the host knows   *)
(* the event: without it the session is a "corrupt" row, and another "would *)
(* duplicate the identity event" (subagent-bridge.ts:1037-1045).            *)
DescribedOnce ==
  /\ TypeOK
  /\ \A s \in Sessions :
       native[s].state \in {"live", "stored"} =>
         journal[s].descriptors = IF host.vocabulary THEN 1 ELSE 0

(* "Only a POSITIVE 'gone' retires the archive identity": a reopening that  *)
(* fails, because another has the session or for whatever reason, leaves a  *)
(* session that still exists reopenable (subagent-bridge.ts:1011-1016).     *)
RetiredOnlyWhenGone ==
  [][\A s \in Sessions : s \in archived \ archived' => native[s].state = "deleted"]_vars
=============================================================================
