---------------------------- MODULE EngineMounts ----------------------------
(***************************************************************************)
(* The pi2dsh engine: one plugin that prepares the Pi packages of a DSH    *)
(* profile and mounts them on every agent it serves (src/src/engine.ts,    *)
(* src/src/host.ts).                                                       *)
(*                                                                         *)
(* Three paths mount packages on an agent's scope, and every agent must be *)
(* served by exactly one of them:                                          *)
(*   "root"    installAgentScopedMounts: the registry's runtime roots,     *)
(*             from agent/created or from the backfill of live roots;      *)
(*   "native"  installNativeSubagentMounts: subagents DSH itself spawned,  *)
(*             when serveNativeSubagents is on;                            *)
(*   "bridge"  mountChildExtensions: children the Pi subagent bridge made. *)
(*                                                                         *)
(* All of them run against apply(), which registers the listeners first    *)
(* and resolves the packages much later; `gate' is the promise             *)
(* preparedPackages that the first two await.  An agent and its scope      *)
(* (agent.ctx) are one element of Agents.                                  *)
(***************************************************************************)
EXTENDS Naturals, FiniteSets

CONSTANTS
  Agents,     \* agents (each with its own scope) that may appear
  Packages,   \* the Pi packages of the profile
  Extending   \* those of them that declare extension entry files

ASSUME ExtendingAssumption == Extending \subseteq Packages

VARIABLES
  config,     \* the EngineConfig flags, fixed when the engine is applied
  lineage,    \* what each agent is, fixed when it is created
  engine,     \* where apply() is
  prepared,   \* what preparePiHost returned
  catalog,    \* the child-extension catalog has been registered
  gate,       \* preparedPackages: pending, or resolved to a set of packages
  backfill,   \* the installAgentScopedMounts continuation: not run / roots it waits for
  life,       \* per agent: where DSH's serial agent/created delivery is
  pass,       \* per agent and path: the memoised mount pass
  attempts,   \* per agent and package: activations tried on that scope
  mounted,    \* per agent: the packages that are active on its scope
  failed      \* per agent: packages reported as not mounted

vars == <<config, lineage, engine, prepared, catalog, gate, backfill, life,
          pass, attempts, mounted, failed>>

Path == {"root", "native", "bridge"}

\* "rootChild" is a DSH subagent the registry reports as a runtime root; a
\* "bridgeChild" carries the pi2dsh-sub- session id prefix.
Lineage == {"root", "rootChild", "nativeChild", "bridgeChild"}

Pending     == [open |-> FALSE, packages |-> {}]
NoPass      == [state |-> "none", todo |-> {}]
PassRecord  == [state : {"none", "waiting", "mounting", "settled"}, todo : SUBSET Packages]
NotRun      == [run |-> FALSE, roots |-> {}]

TypeOK ==
  /\ config \in [serveNativeSubagents : BOOLEAN]
  /\ lineage \in [Agents -> Lineage]
  /\ engine \in {"builtins", "discover", "prepare", "anchor", "settle",
                 "ready", "idle", "failed"}
  /\ prepared \in SUBSET Packages
  /\ catalog \in BOOLEAN
  /\ gate \in [open : BOOLEAN, packages : SUBSET Packages]
  /\ backfill \in [run : BOOLEAN, roots : SUBSET Agents]
  /\ life \in [Agents -> {"older", "absent", "rootStep", "nativeStep", "live", "disposed"}]
  /\ pass \in [Agents -> [Path -> PassRecord]]
  /\ attempts \in [Agents -> [Packages -> Nat]]
  /\ mounted \in [Agents -> SUBSET Packages]
  /\ failed \in [Agents -> SUBSET Packages]

-----------------------------------------------------------------------------
(* Who is served by which path.                                            *)

InRoots(a) == lineage[a] \in {"root", "rootChild"}

\* agents.roots(): the live or initialising agents the registry calls roots.
Roots == {a \in Agents : InRoots(a) /\ life[a] \notin {"absent", "disposed"}}

IsSubagentOrigin(a) == lineage[a] # "root"
HasBridgePrefix(a)  == lineage[a] = "bridgeChild"

\* A fault: the native listener forgets that roots are served elsewhere.
ServedNatively_NoRootCheck(a) ==
  config.serveNativeSubagents /\ IsSubagentOrigin(a) /\ ~HasBridgePrefix(a)

\* handle() of installNativeSubagentMounts: its three early returns.
ServedNatively(a) ==
  /\ config.serveNativeSubagents
  /\ IsSubagentOrigin(a)
  /\ ~HasBridgePrefix(a)
  /\ ~InRoots(a)

\* ensureMount: start the pass for this scope unless one is already known.
EnsureMount(a, path) ==
  IF pass[a][path].state = "none"
  THEN [pass EXCEPT ![a][path].state = "waiting"]
  ELSE pass

-----------------------------------------------------------------------------
Init ==
  /\ config \in [serveNativeSubagents : BOOLEAN]
  /\ lineage \in [Agents -> Lineage]
  /\ life \in [Agents -> {"absent", "older"}]   \* the engine may be enabled late
  /\ \A a \in Agents : life[a] = "older" => lineage[a] # "bridgeChild"
  /\ engine = "builtins"
  /\ prepared = {}
  /\ catalog = FALSE
  /\ gate = Pending
  /\ backfill = NotRun
  /\ pass = [a \in Agents |-> [p \in Path |-> NoPass]]
  /\ attempts = [a \in Agents |-> [p \in Packages |-> 0]]
  /\ mounted = [a \in Agents |-> {}]
  /\ failed = [a \in Agents |-> {}]

agentVars == <<life, pass, attempts, mounted, failed>>

\* resolvePrepared: a promise resolves once.
Resolve(set) == gate' = IF gate.open THEN gate ELSE [open |-> TRUE, packages |-> set]

-----------------------------------------------------------------------------
(* apply(): each await is a step of its own.                               *)

\* A fault: the catch block rethrows without opening the gates.
EngineFails_GateShut ==
  /\ engine \in {"builtins", "discover", "prepare", "anchor"}
  /\ engine' = "failed"
  /\ UNCHANGED <<config, lineage, prepared, catalog, gate, backfill, agentVars>>

\* The catch block: open the gates with nothing and propagate the failure.
EngineFails ==
  /\ engine \in {"builtins", "discover", "prepare", "anchor"}
  /\ engine' = "failed"
  /\ Resolve({})
  /\ UNCHANGED <<config, lineage, prepared, catalog, backfill, agentVars>>

MountBuiltins ==
  /\ engine = "builtins"
  /\ engine' = "discover"
  /\ UNCHANGED <<config, lineage, prepared, catalog, gate, backfill, agentVars>>

\* Discovery finds no package: the engine idles with open gates.
DiscoverNone ==
  /\ engine = "discover"
  /\ engine' = "idle"
  /\ Resolve({})
  /\ UNCHANGED <<config, lineage, prepared, catalog, backfill, agentVars>>

DiscoverSome ==
  /\ engine = "discover"
  /\ engine' = "prepare"
  /\ UNCHANGED <<config, lineage, prepared, catalog, gate, backfill, agentVars>>

\* preparePiHost leaves out the packages it cannot resolve (all of them: it
\* throws, EngineFails); the catalog is registered in the same synchronous run.
Prepare ==
  /\ engine = "prepare"
  /\ \E ok \in (SUBSET Packages) \ {{}} : prepared' = ok
  /\ catalog' = TRUE
  /\ engine' = "anchor"
  /\ UNCHANGED <<config, lineage, gate, backfill, agentVars>>

\* The host anchors are up (not all of them failed): the gates open.
MountAnchors ==
  /\ engine = "anchor"
  /\ Resolve(prepared)
  /\ engine' = "settle"
  /\ UNCHANGED <<config, lineage, prepared, catalog, backfill, agentVars>>

\* The continuation of installAgentScopedMounts: live roots are mounted too.
Backfill ==
  /\ gate.open
  /\ ~backfill.run
  /\ backfill' = [run |-> TRUE, roots |-> Roots]
  /\ pass' = [a \in Agents |->
                IF a \in Roots THEN EnsureMount(a, "root")[a] ELSE pass[a]]
  /\ UNCHANGED <<config, lineage, engine, prepared, catalog, gate, life,
                 attempts, mounted, failed>>

\* apply() returns once existingRootsReady has resolved.
EngineReady ==
  /\ engine = "settle"
  /\ backfill.run
  /\ \A a \in backfill.roots : pass[a]["root"].state = "settled"
  /\ engine' = "ready"
  /\ UNCHANGED <<config, lineage, prepared, catalog, gate, backfill, agentVars>>

-----------------------------------------------------------------------------
(* agent/created: DSH awaits the two listeners one after the other and     *)
(* releases the agent's initialisation after the last.                     *)

\* A bridge child is created by a mounted package, from the anchors on.
AgentCreated(a) ==
  /\ life[a] = "absent"
  /\ lineage[a] = "bridgeChild" => engine \in {"anchor", "settle", "ready"}
  /\ life' = [life EXCEPT ![a] = "rootStep"]
  /\ pass' = IF InRoots(a) THEN EnsureMount(a, "root") ELSE pass
  /\ UNCHANGED <<config, lineage, engine, prepared, catalog, gate, backfill,
                 attempts, mounted, failed>>

\* After a failed apply() the host may have removed the engine's listeners.
AgentCreatedUnheard(a) ==
  /\ engine = "failed"
  /\ life[a] = "absent"
  /\ lineage[a] # "bridgeChild"
  /\ life' = [life EXCEPT ![a] = "live"]
  /\ UNCHANGED <<config, lineage, engine, prepared, catalog, gate, backfill,
                 pass, attempts, mounted, failed>>

\* A native child announced again for the same session keeps its scope.
Reannounced(a) ==
  /\ life[a] \in {"older", "live"}
  /\ lineage[a] = "nativeChild"
  /\ life' = [life EXCEPT ![a] = "rootStep"]
  /\ UNCHANGED <<config, lineage, engine, prepared, catalog, gate, backfill,
                 pass, attempts, mounted, failed>>

\* A fault: the root listener returns without awaiting the mount.
RootListenerDone_NoAwait(a) ==
  /\ life[a] = "rootStep"
  /\ life' = [life EXCEPT ![a] = "nativeStep"]
  /\ pass' = IF ServedNatively(a) THEN EnsureMount(a, "native") ELSE pass
  /\ UNCHANGED <<config, lineage, engine, prepared, catalog, gate, backfill,
                 attempts, mounted, failed>>

\* The root listener is done; the native one runs up to its own await.
RootListenerDone(a) ==
  /\ life[a] = "rootStep"
  /\ InRoots(a) => pass[a]["root"].state = "settled"
  /\ life' = [life EXCEPT ![a] = "nativeStep"]
  /\ pass' = IF ServedNatively(a) THEN EnsureMount(a, "native") ELSE pass
  /\ UNCHANGED <<config, lineage, engine, prepared, catalog, gate, backfill,
                 attempts, mounted, failed>>

NativeListenerDone(a) ==
  /\ life[a] = "nativeStep"
  /\ ServedNatively(a) => pass[a]["native"].state = "settled"
  /\ life' = [life EXCEPT ![a] = "live"]
  /\ UNCHANGED <<config, lineage, engine, prepared, catalog, gate, backfill,
                 pass, attempts, mounted, failed>>

\* Disposal unwinds what was mounted on the scope; a pass in flight goes on
\* and finds the scope gone.
AgentDisposed(a) ==
  /\ life[a] \notin {"absent", "disposed"}
  /\ life' = [life EXCEPT ![a] = "disposed"]
  /\ mounted' = [mounted EXCEPT ![a] = {}]
  /\ UNCHANGED <<config, lineage, engine, prepared, catalog, gate, backfill,
                 pass, attempts, failed>>

-----------------------------------------------------------------------------
(* The mount passes.                                                       *)

StartPass(a, path, set) ==
  pass' = [pass EXCEPT ![a][path] =
             [state |-> IF set = {} THEN "settled" ELSE "mounting", todo |-> set]]

\* The memoised promise continues once the gate is open: a root mounts the
\* packages the gate resolved to.
RootPassStarts(a) ==
  /\ gate.open
  /\ pass[a]["root"].state = "waiting"
  /\ StartPass(a, "root", gate.packages)
  /\ UNCHANGED <<config, lineage, engine, prepared, catalog, gate, backfill,
                 life, attempts, mounted, failed>>

\* A native child mounts the catalog: the prepared packages with entries.
NativePassStarts(a) ==
  /\ gate.open
  /\ pass[a]["native"].state = "waiting"
  /\ StartPass(a, "native", IF catalog THEN prepared \cap Extending ELSE {})
  /\ UNCHANGED <<config, lineage, engine, prepared, catalog, gate, backfill,
                 life, attempts, mounted, failed>>

\* createBridgedAgentSession, after agents.create has released the child: the
\* creator's resource loader picks some of the catalogued packages.
BridgePassStarts(a) ==
  /\ lineage[a] = "bridgeChild"
  /\ life[a] = "live"
  /\ pass[a]["bridge"].state = "none"
  /\ \E names \in SUBSET (prepared \cap Extending) :
       StartPass(a, "bridge", names)
  /\ UNCHANGED <<config, lineage, engine, prepared, catalog, gate, backfill,
                 life, attempts, mounted, failed>>

\* A fault: packages are activated on the host's scope, which survives.
MountPackage_OnHost(a, path, p, ok) ==
  /\ pass[a][path].state = "mounting"
  /\ p \in pass[a][path].todo
  /\ LET rest == pass[a][path].todo \ {p} IN
       pass' = [pass EXCEPT ![a][path].todo = rest,
                            ![a][path].state = IF rest = {} THEN "settled" ELSE @]
  /\ attempts' = [attempts EXCEPT ![a][p] = @ + 1]
  /\ mounted' = [mounted EXCEPT ![a] = @ \cup {p}]
  /\ UNCHANGED <<config, lineage, engine, prepared, catalog, gate, backfill, life, failed>>

\* applyPreparedPiHost: one activation; its failure stays its own.
MountPackage(a, path, p, ok) ==
  /\ pass[a][path].state = "mounting"
  /\ p \in pass[a][path].todo
  /\ ok => life[a] # "disposed"
  /\ LET rest == pass[a][path].todo \ {p} IN
       pass' = [pass EXCEPT ![a][path].todo = rest,
                            ![a][path].state = IF rest = {} THEN "settled" ELSE @]
  /\ attempts' = [attempts EXCEPT ![a][p] = @ + 1]
  /\ IF ok
     THEN /\ mounted' = [mounted EXCEPT ![a] = @ \cup {p}]
          /\ UNCHANGED failed
     ELSE /\ failed' = [failed EXCEPT ![a] = @ \cup {p}]
          /\ UNCHANGED mounted
  /\ UNCHANGED <<config, lineage, engine, prepared, catalog, gate, backfill, life>>

-----------------------------------------------------------------------------
MountStep(a) ==
  \/ RootPassStarts(a)
  \/ NativePassStarts(a)
  \/ \E path \in Path, p \in Packages, ok \in BOOLEAN : MountPackage(a, path, p, ok)

ListenerStep(a) == RootListenerDone(a) \/ NativeListenerDone(a)

EngineStep ==
  \/ MountBuiltins \/ DiscoverNone \/ DiscoverSome \/ Prepare \/ MountAnchors
  \/ EngineReady \/ EngineFails

Next ==
  \/ EngineStep
  \/ Backfill
  \/ \E a \in Agents :
       \/ AgentCreated(a) \/ AgentCreatedUnheard(a) \/ Reannounced(a)
       \/ AgentDisposed(a) \/ BridgePassStarts(a)
       \/ ListenerStep(a) \/ MountStep(a)

Spec == Init /\ [][Next]_vars

\* Promises settle and their continuations run: the event loop is fair to
\* apply(), to the listeners and to the passes.  Nothing makes a user create
\* or dispose an agent.
Fairness ==
  /\ WF_vars(EngineStep)
  /\ WF_vars(Backfill)
  /\ \A a \in Agents : WF_vars(ListenerStep(a)) /\ WF_vars(MountStep(a))

FairSpec == Spec /\ Fairness

-----------------------------------------------------------------------------
(* Properties.                                                             *)

\* No package is activated twice on one scope, whichever of the three paths,
\* the backfill and a repeated announcement meet there (engine.ts:316-329).
ServedOnce == \A a \in Agents, p \in Packages : attempts[a][p] <= 1

\* What the engine owes an agent: the packages its gate or catalog holds.
Owed(a) ==
  CASE InRoots(a)        -> gate.packages
    [] ServedNatively(a) -> IF catalog THEN prepared \cap Extending ELSE {}
    [] OTHER             -> {}

\* On this scope every owed package is up or has been reported as failed.
Settled(a) ==
  \A p \in Owed(a) : p \in failed[a] \/ p \in mounted[a]

Released(a) == life[a] \in {"older", "live"}

\* An agent released from agent/created by the engine's listeners never runs
\* its first turn with a package still on its way (engine.ts:215-218,331-332),
\* and when apply() returns the roots that were alive before the engine was
\* enabled are served like the ones created later (280-287,548).
ReadyBeforeRelease ==
  \A a \in Agents :
    \/ life[a] = "live" /\ \E path \in {"root", "native"} : pass[a][path].state # "none"
    \/ engine = "ready" /\ Released(a) /\ InRoots(a)
    => Settled(a)

\* No activation outlives its agent: a pass that goes on after the disposal
\* leaves nothing behind on the scope (engine.ts:508-510).
NothingLeftBehind == \A a \in Agents : life[a] \in {"absent", "disposed"} => mounted[a] = {}

\* Every agent whose creation is being delivered is released or disposed of:
\* no outcome of apply() leaves a gate closed (engine.ts:550-551).
EveryAgentReleased ==
  \A a \in Agents : life[a] = "rootStep" ~> life[a] \in {"live", "disposed"}

=============================================================================
