------------------------ MODULE EngineMounts_proofs -------------------------
(***************************************************************************)
(* Proofs about EngineMounts, for any sets of agents and packages.         *)
(*                                                                         *)
(* ServedOnce is not inductive: that no package is activated twice rests   *)
(* on which path may serve an agent at all, and on what a pass has still   *)
(* to do.  OnceInv says both.                                                 *)
(***************************************************************************)
EXTENDS EngineMounts, TLAPS

\* The one path that may serve an agent of this lineage.
OwnPath(a) ==
  IF InRoots(a) THEN "root"
  ELSE IF lineage[a] = "nativeChild" THEN "native" ELSE "bridge"

\* A pass exists on the agent's own path only.
OnlyOwnPath ==
  \A a \in Agents, path \in Path : pass[a][path].state # "none" => path = OwnPath(a)

\* Nothing is activated before the pass starts.
NothingBeforePass ==
  \A a \in Agents : pass[a][OwnPath(a)].state \in {"none", "waiting"}
                      => \A p \in Packages : attempts[a][p] = 0

\* What a pass has still to do has not been tried.
TodoUntried ==
  \A a \in Agents, path \in Path :
    pass[a][path].state = "mounting"
      => \A p \in pass[a][path].todo : attempts[a][p] = 0

-----------------------------------------------------------------------------
(* Type correctness.                                                       *)

\* A fresh or waiting pass is a pass.
LEMMA EnsureMountType ==
  ASSUME TypeOK, NEW a \in Agents, NEW path \in Path
  PROVE  EnsureMount(a, path) \in [Agents -> [Path -> PassRecord]]
<1>1. pass \in [Agents -> [Path -> PassRecord]] /\ pass[a] \in [Path -> PassRecord]
  BY DEF TypeOK
<1>2. [pass[a][path] EXCEPT !.state = "waiting"] \in PassRecord
  BY <1>1 DEF PassRecord
<1>3. [pass[a] EXCEPT ![path] = [pass[a][path] EXCEPT !.state = "waiting"]]
        \in [Path -> PassRecord]
  BY <1>1, <1>2
<1> QED
  BY <1>1, <1>3 DEF EnsureMount

\* Starting a pass on a set of packages keeps the passes well typed.
LEMMA StartPassType ==
  ASSUME TypeOK, NEW a \in Agents, NEW path \in Path,
         NEW set \in SUBSET Packages,
         StartPass(a, path, set)
  PROVE  pass' \in [Agents -> [Path -> PassRecord]]
BY DEF StartPass, TypeOK, PassRecord

\* The initial state is well typed.
LEMMA InitType == Init => TypeOK
<1> SUFFICES ASSUME Init PROVE TypeOK
  OBVIOUS
<1>1. NoPass \in PassRecord
  BY DEF NoPass, PassRecord
<1>2. /\ pass \in [Agents -> [Path -> PassRecord]]
      /\ attempts \in [Agents -> [Packages -> Nat]]
      /\ mounted \in [Agents -> SUBSET Packages]
      /\ failed \in [Agents -> SUBSET Packages]
  BY <1>1 DEF Init
<1>3. /\ gate \in [open : BOOLEAN, packages : SUBSET Packages]
      /\ backfill \in [run : BOOLEAN, roots : SUBSET Agents]
  BY DEF Init, Pending, NotRun
<1>4. life \in [Agents -> {"older", "absent", "rootStep", "nativeStep", "live", "disposed"}]
  BY DEF Init
<1> QED
  BY <1>2, <1>3, <1>4 DEF Init, TypeOK

\* The engine's own steps keep the state well typed.
LEMMA EngineType == TypeOK /\ (EngineStep \/ Backfill) => TypeOK'
<1> SUFFICES ASSUME TypeOK, EngineStep \/ Backfill PROVE TypeOK'
  OBVIOUS
<1>1. CASE MountBuiltins
  BY <1>1 DEF MountBuiltins, TypeOK, agentVars
<1>2. CASE DiscoverNone
  BY <1>2 DEF DiscoverNone, Resolve, TypeOK, agentVars
<1>3. CASE DiscoverSome
  BY <1>3 DEF DiscoverSome, TypeOK, agentVars
<1>4. CASE Prepare
  BY <1>4 DEF Prepare, TypeOK, agentVars
<1>5. CASE MountAnchors
  BY <1>5 DEF MountAnchors, Resolve, TypeOK, agentVars
<1>6. CASE EngineReady
  BY <1>6 DEF EngineReady, TypeOK, agentVars
<1>7. CASE EngineFails
  BY <1>7 DEF EngineFails, Resolve, TypeOK, agentVars
<1>8. CASE Backfill
  <2>1. pass' \in [Agents -> [Path -> PassRecord]]
    <3>1. \A a \in Agents : EnsureMount(a, "root")[a] \in [Path -> PassRecord]
      BY EnsureMountType DEF Path
    <3> QED
      BY <1>8, <3>1 DEF Backfill, TypeOK
  <2>2. backfill' \in [run : BOOLEAN, roots : SUBSET Agents]
    BY <1>8 DEF Backfill, Roots
  <2> QED
    BY <1>8, <2>1, <2>2 DEF Backfill, TypeOK
<1> QED
  BY <1>1, <1>2, <1>3, <1>4, <1>5, <1>6, <1>7, <1>8 DEF EngineStep

\* The registry's events and the listeners keep the state well typed.
LEMMA AgentType ==
  ASSUME TypeOK, NEW a \in Agents,
         AgentCreated(a) \/ AgentCreatedUnheard(a) \/ Reannounced(a)
           \/ AgentDisposed(a) \/ ListenerStep(a)
  PROVE  TypeOK'
<1>1. CASE AgentCreated(a)
  BY <1>1, EnsureMountType DEF AgentCreated, TypeOK, Path
<1>2. CASE AgentCreatedUnheard(a)
  BY <1>2 DEF AgentCreatedUnheard, TypeOK
<1>3. CASE Reannounced(a)
  BY <1>3 DEF Reannounced, TypeOK
<1>4. CASE AgentDisposed(a)
  BY <1>4 DEF AgentDisposed, TypeOK
<1>5. CASE RootListenerDone(a)
  BY <1>5, EnsureMountType DEF RootListenerDone, TypeOK, Path
<1>6. CASE NativeListenerDone(a)
  BY <1>6 DEF NativeListenerDone, TypeOK
<1> QED
  BY <1>1, <1>2, <1>3, <1>4, <1>5, <1>6 DEF ListenerStep

\* The steps of the mount passes keep the state well typed.
LEMMA MountType ==
  ASSUME TypeOK, NEW a \in Agents, BridgePassStarts(a) \/ MountStep(a)
  PROVE  TypeOK'
<1>1. CASE RootPassStarts(a)
  <2>1. gate.packages \in SUBSET Packages
    BY DEF TypeOK
  <2>2. pass' \in [Agents -> [Path -> PassRecord]]
    BY <1>1, <2>1, StartPassType DEF RootPassStarts, Path
  <2> QED
    BY <1>1, <2>2 DEF RootPassStarts, TypeOK
<1>2. CASE NativePassStarts(a)
  <2>1. (IF catalog THEN prepared \cap Extending ELSE {}) \in SUBSET Packages
    BY DEF TypeOK
  <2>2. pass' \in [Agents -> [Path -> PassRecord]]
    BY <1>2, <2>1, StartPassType DEF NativePassStarts, Path
  <2> QED
    BY <1>2, <2>2 DEF NativePassStarts, TypeOK
<1>3. CASE BridgePassStarts(a)
  <2>1. PICK names \in SUBSET (prepared \cap Extending) : StartPass(a, "bridge", names)
    BY <1>3 DEF BridgePassStarts
  <2>2. pass' \in [Agents -> [Path -> PassRecord]]
    BY <2>1, StartPassType DEF TypeOK, Path
  <2> QED
    BY <1>3, <2>2 DEF BridgePassStarts, TypeOK
<1>4. ASSUME NEW path \in Path, NEW p \in Packages, NEW ok \in BOOLEAN,
             MountPackage(a, path, p, ok)
      PROVE  TypeOK'
  <2>1. pass' \in [Agents -> [Path -> PassRecord]]
    <3> DEFINE rest == pass[a][path].todo \ {p}
               next == [pass[a][path] EXCEPT
                          !.todo = rest,
                          !.state = IF rest = {} THEN "settled" ELSE @]
    <3>1. pass \in [Agents -> [Path -> PassRecord]] /\ pass[a] \in [Path -> PassRecord]
      BY DEF TypeOK
    <3>2. next \in PassRecord
      BY <3>1 DEF PassRecord
    <3>3. pass' = [pass EXCEPT ![a] = [pass[a] EXCEPT ![path] = next]]
      BY <1>4, <3>1 DEF MountPackage, PassRecord
    <3> HIDE DEF next
    <3>4. [pass[a] EXCEPT ![path] = next] \in [Path -> PassRecord]
      BY <3>1, <3>2
    <3> QED
      BY <3>1, <3>3, <3>4
  <2>2. attempts' \in [Agents -> [Packages -> Nat]]
    BY <1>4 DEF MountPackage, TypeOK
  <2>3. mounted' \in [Agents -> SUBSET Packages]
    <3>1. mounted \in [Agents -> SUBSET Packages]
      BY DEF TypeOK
    <3>2. CASE ok
      <4>1. mounted' = [mounted EXCEPT ![a] = mounted[a] \cup {p}]
        BY <1>4, <3>2 DEF MountPackage
      <4>2. mounted[a] \cup {p} \in SUBSET Packages
        BY <3>1
      <4> QED
        BY <3>1, <4>1, <4>2
    <3>3. CASE ~ok
      BY <1>4, <3>1, <3>3 DEF MountPackage
    <3> QED
      BY <3>2, <3>3
  <2>4. failed' \in [Agents -> SUBSET Packages]
    <3>1. failed \in [Agents -> SUBSET Packages]
      BY DEF TypeOK
    <3>2. CASE ok
      BY <1>4, <3>1, <3>2 DEF MountPackage
    <3>3. CASE ~ok
      <4>1. failed' = [failed EXCEPT ![a] = failed[a] \cup {p}]
        BY <1>4, <3>3 DEF MountPackage
      <4>2. failed[a] \cup {p} \in SUBSET Packages
        BY <3>1
      <4> QED
        BY <3>1, <4>1, <4>2
    <3> QED
      BY <3>2, <3>3
  <2> QED
    BY <1>4, <2>1, <2>2, <2>3, <2>4 DEF MountPackage, TypeOK
<1> QED
  BY <1>1, <1>2, <1>3, <1>4 DEF MountStep

\* Every state of the engine has its types, for any agents and packages.
THEOREM TypeCorrect == Spec => []TypeOK
<1>1. TypeOK /\ [Next]_vars => TypeOK'
  <2>1. TypeOK /\ UNCHANGED vars => TypeOK'
    BY DEF TypeOK, vars
  <2> QED
    BY <2>1, EngineType, AgentType, MountType DEF Next
<1> QED
  BY <1>1, InitType, PTL DEF Spec

-----------------------------------------------------------------------------
(* Each package is activated at most once on a scope.                      *)

\* The inductive invariant, on top of the types.
OnceInv == OnlyOwnPath /\ NothingBeforePass /\ TodoUntried /\ ServedOnce

\* The initial state satisfies the inductive invariant.
LEMMA InitOnce == Init => OnceInv
<1> SUFFICES ASSUME Init PROVE OnceInv
  OBVIOUS
<1>1. \A a \in Agents, path \in Path : pass[a][path].state = "none"
  BY DEF Init, NoPass
<1>2. \A a \in Agents, p \in Packages : attempts[a][p] = 0
  BY DEF Init
<1> QED
  BY <1>1, <1>2 DEF OnceInv, OnlyOwnPath, NothingBeforePass, TodoUntried, ServedOnce

\* An agent's own path is one of the paths.
LEMMA OwnPathIsPath == \A a \in Agents : OwnPath(a) \in Path
BY DEF OwnPath, Path

\* A step that leaves the passes and the attempts alone keeps the invariant.
LEMMA OnceStutter ==
  ASSUME OnceInv, UNCHANGED <<lineage, pass, attempts>>
  PROVE  OnceInv'
BY DEF OnceInv, OnlyOwnPath, NothingBeforePass, TodoUntried, ServedOnce, OwnPath, InRoots

\* So does a step that only begins to wait, on agents' own paths.
LEMMA OnceWait ==
  ASSUME OnceInv, UNCHANGED <<lineage, attempts>>,
         \A a \in Agents, path \in Path :
           \/ pass'[a][path] = pass[a][path]
           \/ /\ path = OwnPath(a)
              /\ pass[a][path].state = "none"
              /\ pass'[a][path].state = "waiting"
  PROVE  OnceInv'
<1>1. \A a \in Agents : OwnPath(a)' = OwnPath(a)
  BY DEF OwnPath, InRoots
<1>2. OnlyOwnPath'
  BY <1>1 DEF OnceInv, OnlyOwnPath
<1>3. NothingBeforePass'
  BY <1>1, OwnPathIsPath DEF OnceInv, NothingBeforePass
<1>4. TodoUntried'
  BY DEF OnceInv, TodoUntried
<1>5. ServedOnce'
  BY DEF OnceInv, ServedOnce
<1> QED
  BY <1>2, <1>3, <1>4, <1>5 DEF OnceInv

\* ensureMount on an agent's own path only begins to wait.
LEMMA EnsureMountWaits ==
  ASSUME TypeOK, NEW a \in Agents, NEW path \in Path
  PROVE  \A b \in Agents, q \in Path :
           \/ EnsureMount(a, path)[b][q] = pass[b][q]
           \/ /\ b = a /\ q = path
              /\ pass[b][q].state = "none"
              /\ EnsureMount(a, path)[b][q].state = "waiting"
<1>1. pass \in [Agents -> [Path -> PassRecord]] /\ pass[a] \in [Path -> PassRecord]
  BY DEF TypeOK
<1>2. pass[a][path] \in PassRecord
  BY <1>1
<1>3. [pass[a][path] EXCEPT !.state = "waiting"].state = "waiting"
  BY <1>2 DEF PassRecord
<1> QED
  BY <1>1, <1>3 DEF EnsureMount

\* A pass that starts, on an agent's own path, has tried nothing yet.
LEMMA OnceStart ==
  ASSUME TypeOK, OnceInv, UNCHANGED <<lineage, attempts>>,
         NEW a \in Agents, NEW path \in Path, path = OwnPath(a),
         pass[a][path].state \in {"none", "waiting"},
         NEW set \in SUBSET Packages,
         StartPass(a, path, set)
  PROVE  OnceInv'
<1> DEFINE new == [state |-> IF set = {} THEN "settled" ELSE "mounting",
                   todo |-> set]
<1>1. pass \in [Agents -> [Path -> PassRecord]] /\ pass[a] \in [Path -> PassRecord]
  BY DEF TypeOK
<1>2. /\ pass'[a][path] = new
      /\ \A b \in Agents, q \in Path : (b # a \/ q # path) => pass'[b][q] = pass[b][q]
  BY <1>1 DEF StartPass
<1>3. \A b \in Agents : OwnPath(b)' = OwnPath(b)
  BY DEF OwnPath, InRoots
<1>4. \A p \in Packages : attempts[a][p] = 0
  BY DEF OnceInv, NothingBeforePass
<1>5. OnlyOwnPath'
  BY <1>2, <1>3 DEF OnceInv, OnlyOwnPath
<1>6. new.state \notin {"none", "waiting"} /\ new.todo \subseteq Packages
  OBVIOUS
<1> HIDE DEF new
<1>7. NothingBeforePass'
  BY <1>2, <1>3, <1>4, OwnPathIsPath DEF OnceInv, NothingBeforePass
<1>8. TodoUntried'
  <2> SUFFICES ASSUME NEW b \in Agents, NEW q \in Path, pass'[b][q].state = "mounting",
                      NEW p \in pass'[b][q].todo
               PROVE  attempts[b][p] = 0
    BY DEF TodoUntried
  <2>1. CASE b = a /\ q = path
    BY <2>1, <1>2, <1>4, <1>6
  <2>2. CASE b # a \/ q # path
    BY <2>2, <1>2 DEF OnceInv, TodoUntried
  <2> QED
    BY <2>1, <2>2
<1>9. ServedOnce'
  BY DEF OnceInv, ServedOnce
<1> QED
  BY <1>5, <1>7, <1>8, <1>9 DEF OnceInv

\* One activation takes one untried package off its pass.
LEMMA OnceMount ==
  ASSUME TypeOK, OnceInv, NEW a \in Agents, NEW path \in Path, NEW p \in Packages,
         NEW ok \in BOOLEAN, MountPackage(a, path, p, ok)
  PROVE  OnceInv'
<1> DEFINE rest == pass[a][path].todo \ {p}
           next == [pass[a][path] EXCEPT
                      !.todo = rest,
                      !.state = IF rest = {} THEN "settled" ELSE @]
<1>1. /\ pass \in [Agents -> [Path -> PassRecord]]
      /\ pass[a] \in [Path -> PassRecord]
      /\ pass[a][path] \in PassRecord
  BY DEF TypeOK
<1>2. pass[a][path].state = "mounting" /\ p \in pass[a][path].todo
  BY DEF MountPackage
<1>3. /\ next.todo = rest
      /\ next.state \in {"mounting", "settled"}
  BY <1>1, <1>2 DEF PassRecord
<1>4. pass' = [pass EXCEPT ![a] = [pass[a] EXCEPT ![path] = next]]
  BY <1>1 DEF MountPackage, PassRecord
<1> HIDE DEF next
<1>5. /\ pass'[a][path] = next
      /\ \A b \in Agents, q \in Path : (b # a \/ q # path) => pass'[b][q] = pass[b][q]
  BY <1>1, <1>4
<1>6. attempts[a][p] = 0
  BY <1>2 DEF OnceInv, TodoUntried
<1>7. /\ attempts'[a][p] = 1
      /\ \A b \in Agents, q \in Packages :
           (b # a \/ q # p) => attempts'[b][q] = attempts[b][q]
  BY <1>6 DEF MountPackage, TypeOK
<1>8. path = OwnPath(a)
  BY <1>2 DEF OnceInv, OnlyOwnPath
<1>9. \A b \in Agents : OwnPath(b)' = OwnPath(b)
  BY DEF OwnPath, InRoots, MountPackage
<1>10. OnlyOwnPath'
  BY <1>5, <1>8, <1>9 DEF OnceInv, OnlyOwnPath
<1>11. NothingBeforePass'
  BY <1>3, <1>5, <1>7, <1>8, <1>9, OwnPathIsPath DEF OnceInv, NothingBeforePass
<1>12. TodoUntried'
  <2> SUFFICES ASSUME NEW b \in Agents, NEW q \in Path, pass'[b][q].state = "mounting",
                      NEW r \in pass'[b][q].todo
               PROVE  attempts'[b][r] = 0
    BY DEF TodoUntried
  <2>1. CASE b = a /\ q = path
    <3>1. r \in pass[a][path].todo /\ r # p /\ r \in Packages
      BY <2>1, <1>1, <1>3, <1>5 DEF PassRecord
    <3>2. attempts[a][r] = 0
      BY <3>1, <1>2 DEF OnceInv, TodoUntried
    <3> QED
      BY <2>1, <3>1, <3>2, <1>7
  <2>2. CASE b = a /\ q # path
    BY <2>2, <1>2, <1>5, <1>8 DEF OnceInv, OnlyOwnPath
  <2>3. CASE b # a
    <3>1. r \in pass[b][q].todo /\ r \in Packages /\ pass[b][q].state = "mounting"
      BY <2>3, <1>1, <1>5 DEF PassRecord
    <3> QED
      BY <2>3, <3>1, <1>7 DEF OnceInv, TodoUntried
  <2> QED
    BY <2>1, <2>2, <2>3
<1>13. ServedOnce'
  BY <1>7 DEF OnceInv, ServedOnce
<1> QED
  BY <1>10, <1>11, <1>12, <1>13 DEF OnceInv

\* Every step keeps the inductive invariant: one case per action that touches
\* the passes, one for all the others.
LEMMA OnceStep == TypeOK /\ OnceInv /\ [Next]_vars => OnceInv'
<1> SUFFICES ASSUME TypeOK, OnceInv, [Next]_vars PROVE OnceInv'
  OBVIOUS
<1>1. CASE UNCHANGED vars
  BY <1>1, OnceStutter DEF vars
<1>2. CASE EngineStep
  <2>1. UNCHANGED <<lineage, pass, attempts>>
    BY <1>2 DEF EngineStep, MountBuiltins, DiscoverNone, DiscoverSome, Prepare,
                MountAnchors, EngineReady, EngineFails, agentVars
  <2> QED
    BY <2>1, OnceStutter
<1>3. CASE Backfill
  <2>1. \A a \in Agents : a \in Roots => OwnPath(a) = "root"
    BY DEF Roots, OwnPath
  <2>2. \A a \in Agents, path \in Path :
          \/ pass'[a][path] = pass[a][path]
          \/ /\ path = OwnPath(a)
             /\ pass[a][path].state = "none"
             /\ pass'[a][path].state = "waiting"
    <3> SUFFICES ASSUME NEW a \in Agents, NEW path \in Path
                 PROVE  \/ pass'[a][path] = pass[a][path]
                        \/ /\ path = OwnPath(a)
                           /\ pass[a][path].state = "none"
                           /\ pass'[a][path].state = "waiting"
      OBVIOUS
    <3>1. CASE a \in Roots
      <4>1. pass'[a] = EnsureMount(a, "root")[a]
        BY <1>3, <3>1 DEF Backfill
      <4>2. "root" \in Path
        BY DEF Path
      <4> QED
        BY <2>1, <3>1, <4>1, <4>2, EnsureMountWaits
    <3>2. CASE a \notin Roots
      BY <1>3, <3>2 DEF Backfill
    <3> QED
      BY <3>1, <3>2
  <2>3. UNCHANGED <<lineage, attempts>>
    BY <1>3 DEF Backfill
  <2> QED
    BY <2>2, <2>3, OnceWait
<1>4. ASSUME NEW a \in Agents, AgentCreated(a) PROVE OnceInv'
  <2>1. CASE InRoots(a)
    <3>1. OwnPath(a) = "root" /\ "root" \in Path
      BY <2>1 DEF OwnPath, Path
    <3>2. pass' = EnsureMount(a, "root") /\ UNCHANGED <<lineage, attempts>>
      BY <1>4, <2>1 DEF AgentCreated
    <3> QED
      BY <3>1, <3>2, EnsureMountWaits, OnceWait
  <2>2. CASE ~InRoots(a)
    BY <1>4, <2>2, OnceStutter DEF AgentCreated
  <2> QED
    BY <2>1, <2>2
<1>5. ASSUME NEW a \in Agents, RootListenerDone(a) PROVE OnceInv'
  <2>1. CASE ServedNatively(a)
    <3>1. lineage[a] \in Lineage
      BY DEF TypeOK
    <3>2. OwnPath(a) = "native" /\ "native" \in Path
      BY <2>1, <3>1 DEF OwnPath, Path, ServedNatively, IsSubagentOrigin, HasBridgePrefix,
                        InRoots, Lineage
    <3>3. pass' = EnsureMount(a, "native") /\ UNCHANGED <<lineage, attempts>>
      BY <1>5, <2>1 DEF RootListenerDone
    <3> QED
      BY <3>2, <3>3, EnsureMountWaits, OnceWait
  <2>2. CASE ~ServedNatively(a)
    BY <1>5, <2>2, OnceStutter DEF RootListenerDone
  <2> QED
    BY <2>1, <2>2
<1>6. ASSUME NEW a \in Agents,
             AgentCreatedUnheard(a) \/ Reannounced(a) \/ AgentDisposed(a)
               \/ NativeListenerDone(a)
      PROVE  OnceInv'
  BY <1>6, OnceStutter DEF AgentCreatedUnheard, Reannounced, AgentDisposed, NativeListenerDone
<1>7. ASSUME NEW a \in Agents, RootPassStarts(a) PROVE OnceInv'
  <2>1. "root" \in Path /\ pass[a]["root"].state = "waiting"
    BY <1>7 DEF RootPassStarts, Path
  <2>2. "root" = OwnPath(a)
    BY <2>1 DEF OnceInv, OnlyOwnPath
  <2>3. gate.packages \in SUBSET Packages
    BY DEF TypeOK
  <2>4. /\ StartPass(a, "root", gate.packages)
        /\ UNCHANGED <<lineage, attempts>>
    BY <1>7 DEF RootPassStarts
  <2> QED
    BY <2>1, <2>2, <2>3, <2>4, OnceStart
<1>8. ASSUME NEW a \in Agents, NativePassStarts(a) PROVE OnceInv'
  <2>1. "native" \in Path /\ pass[a]["native"].state = "waiting"
    BY <1>8 DEF NativePassStarts, Path
  <2>2. "native" = OwnPath(a)
    BY <2>1 DEF OnceInv, OnlyOwnPath
  <2>3. (IF catalog THEN prepared \cap Extending ELSE {}) \in SUBSET Packages
    BY DEF TypeOK
  <2>4. /\ StartPass(a, "native", IF catalog THEN prepared \cap Extending ELSE {})
        /\ UNCHANGED <<lineage, attempts>>
    BY <1>8 DEF NativePassStarts
  <2> QED
    BY <2>1, <2>2, <2>3, <2>4, OnceStart
<1>9. ASSUME NEW a \in Agents, BridgePassStarts(a) PROVE OnceInv'
  <2>1. PICK names \in SUBSET (prepared \cap Extending) : StartPass(a, "bridge", names)
    BY <1>9 DEF BridgePassStarts
  <2>2. names \in SUBSET Packages
    BY DEF TypeOK
  <2>3. "bridge" \in Path /\ pass[a]["bridge"].state = "none" /\ lineage[a] = "bridgeChild"
    BY <1>9 DEF BridgePassStarts, Path
  <2>4. "bridge" = OwnPath(a)
    BY <2>3 DEF OwnPath, InRoots
  <2>5. UNCHANGED <<lineage, attempts>>
    BY <1>9 DEF BridgePassStarts
  <2> QED
    BY <2>1, <2>2, <2>3, <2>4, <2>5, OnceStart
<1>10. ASSUME NEW a \in Agents, NEW path \in Path, NEW p \in Packages, NEW ok \in BOOLEAN,
              MountPackage(a, path, p, ok)
       PROVE  OnceInv'
  BY <1>10, OnceMount
<1> QED
  BY <1>1, <1>2, <1>3, <1>4, <1>5, <1>6, <1>7, <1>8, <1>9, <1>10
     DEF Next, ListenerStep, MountStep

\* No package is ever activated twice on one agent's scope, for any number of
\* agents and packages: the three paths, the backfill and a repeated
\* announcement never meet there (engine.ts:316-329).
THEOREM ServedAtMostOnce == Spec => []ServedOnce
<1>1. OnceInv => ServedOnce
  BY DEF OnceInv
<1> QED
  BY <1>1, InitOnce, OnceStep, TypeCorrect, PTL DEF Spec

-----------------------------------------------------------------------------
(* Nothing outlives its agent.                                             *)

\* No pass is known for an agent that was never created.
AbsentIdle ==
  \A a \in Agents, path \in Path : life[a] = "absent" => pass[a][path].state = "none"

\* The inductive invariant of NothingLeftBehind.
LeftInv == AbsentIdle /\ NothingLeftBehind

\* The initial state satisfies it.
LEMMA InitLeft == Init => LeftInv
BY DEF Init, LeftInv, AbsentIdle, NothingLeftBehind, NoPass

\* A step that creates no agent, disposes of none and leaves their passes
\* and activations alone where there is none keeps it.
LEMMA LeftKept ==
  ASSUME LeftInv,
         \A a \in Agents : life'[a] \in {"absent", "disposed"} => life'[a] = life[a],
         mounted' = mounted,
         \A a \in Agents, path \in Path :
           life[a] = "absent" => pass'[a][path].state = pass[a][path].state
  PROVE  LeftInv'
<1>1. AbsentIdle'
  BY DEF LeftInv, AbsentIdle
<1>2. NothingLeftBehind'
  BY DEF LeftInv, NothingLeftBehind
<1> QED
  BY <1>1, <1>2 DEF LeftInv

\* Every step keeps it: the creations, the disposal and the activation are the
\* steps that could break it.
LEMMA LeftStep == TypeOK /\ LeftInv /\ [Next]_vars => LeftInv'
<1> SUFFICES ASSUME TypeOK, LeftInv, [Next]_vars PROVE LeftInv'
  OBVIOUS
<1> USE DEF LeftInv
<1>1. CASE UNCHANGED vars
  BY <1>1, LeftKept DEF vars
<1>2. CASE EngineStep
  <2>1. UNCHANGED <<life, pass, mounted>>
    BY <1>2 DEF EngineStep, MountBuiltins, DiscoverNone, DiscoverSome, Prepare,
                MountAnchors, EngineReady, EngineFails, agentVars
  <2> QED
    BY <2>1, LeftKept
<1>3. CASE Backfill
  <2>1. \A a \in Agents : life[a] = "absent" => pass'[a] = pass[a]
    BY <1>3 DEF Backfill, Roots
  <2> QED
    BY <1>3, <2>1, LeftKept DEF Backfill
<1>4. ASSUME NEW a \in Agents,
             AgentCreated(a) \/ AgentCreatedUnheard(a) \/ Reannounced(a)
               \/ RootListenerDone(a) \/ NativeListenerDone(a)
      PROVE  LeftInv'
  <2>1. /\ \A b \in Agents : life'[b] \in {"absent", "disposed"} => b # a /\ life'[b] = life[b]
        /\ mounted' = mounted
    BY <1>4 DEF AgentCreated, AgentCreatedUnheard, Reannounced, RootListenerDone,
                NativeListenerDone, TypeOK
  <2>2. /\ "root" \in Path /\ "native" \in Path
        /\ \A path \in Path : pass' \in {pass, EnsureMount(a, "root"), EnsureMount(a, "native")}
    BY <1>4 DEF Path, AgentCreated, AgentCreatedUnheard, Reannounced, RootListenerDone,
                NativeListenerDone
  <2>3. \A b \in Agents, path \in Path : b # a => pass'[b][path] = pass[b][path]
    BY <2>2, EnsureMountWaits
  <2>4. AbsentIdle'
    BY <2>1, <2>3 DEF AbsentIdle
  <2>5. NothingLeftBehind'
    BY <2>1 DEF NothingLeftBehind
  <2> QED
    BY <2>4, <2>5
<1>5. ASSUME NEW a \in Agents, AgentDisposed(a) PROVE LeftInv'
  BY <1>5 DEF AgentDisposed, AbsentIdle, NothingLeftBehind, TypeOK
<1>6. ASSUME NEW a \in Agents,
             RootPassStarts(a) \/ NativePassStarts(a) \/ BridgePassStarts(a)
      PROVE  LeftInv'
  <2>1. life[a] # "absent"
    BY <1>6 DEF RootPassStarts, NativePassStarts, BridgePassStarts, AbsentIdle, Path
  <2>2. \A b \in Agents : b # a => pass'[b] = pass[b]
    BY <1>6 DEF RootPassStarts, NativePassStarts, BridgePassStarts, StartPass, TypeOK
  <2>3. UNCHANGED <<life, mounted>>
    BY <1>6 DEF RootPassStarts, NativePassStarts, BridgePassStarts
  <2> QED
    BY <2>1, <2>2, <2>3, LeftKept
<1>7. ASSUME NEW a \in Agents, NEW path \in Path, NEW p \in Packages, NEW ok \in BOOLEAN,
             MountPackage(a, path, p, ok)
      PROVE  LeftInv'
  <2>1. life[a] # "absent" /\ UNCHANGED life
    BY <1>7 DEF MountPackage, AbsentIdle
  <2>2. \A b \in Agents : b # a => pass'[b] = pass[b] /\ mounted'[b] = mounted[b]
    BY <1>7 DEF MountPackage, TypeOK
  <2>3. life[a] = "disposed" => mounted' = mounted
    BY <1>7 DEF MountPackage
  <2>4. AbsentIdle'
    BY <2>1, <2>2 DEF AbsentIdle
  <2>5. NothingLeftBehind'
    BY <2>1, <2>2, <2>3 DEF NothingLeftBehind
  <2> QED
    BY <2>4, <2>5
<1> QED
  BY <1>1, <1>2, <1>3, <1>4, <1>5, <1>6, <1>7 DEF Next, ListenerStep, MountStep

\* An activation never outlives its agent, although a pass goes on past the
\* disposal (engine.ts:508-510), for any number of agents and packages.
THEOREM NothingOutlivesAgent == Spec => []NothingLeftBehind
<1>1. LeftInv => NothingLeftBehind
  BY DEF LeftInv
<1> QED
  BY <1>1, InitLeft, LeftStep, TypeCorrect, PTL DEF Spec

-----------------------------------------------------------------------------
(* No agent is released with a package still on its way.                   *)

\* The gate opens only once nothing more is prepared, and opens empty if
\* apply() has failed.
GateTells ==
  /\ gate.open => engine \in {"settle", "ready", "idle", "failed"}
  /\ engine = "failed" => gate.open /\ gate.packages = {}

\* The native path has a pass only for an agent its listener serves.
NativeServed == \A a \in Agents : pass[a]["native"].state # "none" => ServedNatively(a)

\* A pass that has started knows all its agent is owed: it is still to do, up
\* or reported.  A settled pass has nothing to do.
PassCovers ==
  \A a \in Agents, path \in {"root", "native"} :
    pass[a][path].state \in {"mounting", "settled"} =>
      /\ gate.open
      /\ pass[a][path].state = "settled" => pass[a][path].todo = {}
      /\ life[a] # "disposed" =>
           \A p \in Owed(a) : p \in pass[a][path].todo \/ p \in failed[a] \/ p \in mounted[a]

\* What the listeners have awaited: a root that has passed the first one, and a
\* native child that has passed the second, have a settled pass.  A failed
\* engine may no longer have been listening, and owes a root nothing.
ListenersAwaited ==
  \A a \in Agents :
    /\ life[a] \in {"nativeStep", "live"} /\ InRoots(a) =>
         pass[a]["root"].state = "settled" \/ engine = "failed"
    /\ life[a] = "live" /\ pass[a]["native"].state # "none" =>
         pass[a]["native"].state = "settled"

\* The roots that were there first are among those apply() waits for.
BackfillAwaited ==
  /\ backfill.run => \A a \in Agents : life[a] = "older" /\ InRoots(a) => a \in backfill.roots
  /\ engine = "ready" =>
       backfill.run /\ \A a \in backfill.roots : pass[a]["root"].state = "settled"

\* The inductive invariant of ReadyBeforeRelease, on top of the types, OnceInv
\* and LeftInv.
ReadyInv == GateTells /\ NativeServed /\ PassCovers /\ ListenersAwaited /\ BackfillAwaited

\* The initial state satisfies it.
LEMMA InitReady == Init => ReadyInv
<1> SUFFICES ASSUME Init PROVE ReadyInv
  OBVIOUS
<1>1. \A a \in Agents, path \in Path : pass[a][path].state = "none"
  BY DEF Init, NoPass
<1>2. \A a \in Agents : life[a] \in {"absent", "older"}
  BY DEF Init
<1>3. gate.open = FALSE /\ backfill.run = FALSE /\ engine = "builtins"
  BY DEF Init, Pending, NotRun
<1> QED
  BY <1>1, <1>2, <1>3 DEF ReadyInv, GateTells, NativeServed, PassCovers, ListenersAwaited,
                          BackfillAwaited, Path

\* Together with the other invariants it gives what the engine owes.
LEMMA ReadyEnough == TypeOK /\ OnceInv /\ ReadyInv => ReadyBeforeRelease
<1> SUFFICES ASSUME TypeOK, OnceInv, ReadyInv, NEW a \in Agents,
                    \/ life[a] = "live" /\ \E path \in {"root", "native"} : pass[a][path].state # "none"
                    \/ engine = "ready" /\ Released(a) /\ InRoots(a)
             PROVE  Settled(a)
  BY DEF ReadyBeforeRelease
<1>1. SUFFICES ASSUME Owed(a) # {}
               PROVE  \E path \in {"root", "native"} :
                        life[a] # "disposed" /\ pass[a][path].state = "settled"
  BY DEF ReadyInv, PassCovers, Settled
<1>2. life[a] # "disposed"
  BY DEF Released
<1>3. CASE InRoots(a)
  <2>1. engine # "failed"
    <3>1. Owed(a) = gate.packages
      BY <1>3 DEF Owed, ServedNatively
    <3> QED
      BY <1>1, <3>1 DEF ReadyInv, GateTells
  <2>2. CASE life[a] = "live"
    BY <1>2, <1>3, <2>1, <2>2 DEF ReadyInv, ListenersAwaited
  <2>3. CASE life[a] # "live"
    BY <1>2, <1>3, <2>3 DEF ReadyInv, BackfillAwaited, Released
  <2> QED
    BY <2>2, <2>3
<1>4. CASE ~InRoots(a)
  <2>1. life[a] = "live" /\ \E path \in {"root", "native"} : pass[a][path].state # "none"
    BY <1>4
  <2>2. "root" # OwnPath(a)
    BY <1>4 DEF OwnPath
  <2>3. pass[a]["native"].state # "none"
    BY <2>1, <2>2 DEF OnceInv, OnlyOwnPath, Path
  <2> QED
    BY <1>2, <2>1, <2>3 DEF ReadyInv, ListenersAwaited
<1> QED
  BY <1>3, <1>4

\* What an agent is owed depends on the engine's state only.
LEMMA OwedKept ==
  ASSUME UNCHANGED <<config, lineage, gate, catalog, prepared>>
  PROVE  \A a \in Agents : /\ Owed(a)' = Owed(a)
                           /\ InRoots(a)' = InRoots(a)
                           /\ ServedNatively(a)' = ServedNatively(a)
BY DEF Owed, InRoots, ServedNatively, IsSubagentOrigin, HasBridgePrefix

\* apply() goes on: once the gate is open, nothing an agent is owed changes.
LEMMA ReadyEngine == TypeOK /\ ReadyInv /\ EngineStep => ReadyInv'
<1> SUFFICES ASSUME TypeOK, ReadyInv, EngineStep PROVE ReadyInv'
  OBVIOUS
<1> USE DEF ReadyInv
<1>1. UNCHANGED <<config, lineage, backfill, life, pass, attempts, mounted, failed>>
  BY DEF EngineStep, MountBuiltins, DiscoverNone, DiscoverSome, Prepare,
         MountAnchors, EngineReady, EngineFails, agentVars
<1>2. /\ gate.open => engine = "settle" /\ engine' = "ready" /\ EngineReady
                      /\ UNCHANGED <<gate, catalog, prepared>>
      /\ engine # "failed"
      /\ engine' = "ready" => EngineReady
  BY DEF GateTells, EngineStep, MountBuiltins, DiscoverNone, DiscoverSome, Prepare,
         MountAnchors, EngineReady, EngineFails
<1>3. GateTells'
  <2>1. CASE EngineReady
    BY <1>2, <2>1 DEF GateTells, EngineReady
  <2>2. CASE gate.open
    BY <1>2, <2>1, <2>2
  <2>3. CASE ~gate.open /\ ~EngineReady
    BY <2>3 DEF GateTells, EngineStep, MountBuiltins, DiscoverNone, DiscoverSome, Prepare,
                MountAnchors, EngineFails, Resolve
  <2> QED
    BY <2>1, <2>2, <2>3
<1>4. NativeServed'
  BY <1>1 DEF NativeServed, ServedNatively, IsSubagentOrigin, HasBridgePrefix, InRoots
<1>5. PassCovers'
  <2>1. CASE gate.open
    BY <1>1, <1>2, <2>1, OwedKept DEF PassCovers
  <2>2. CASE ~gate.open
    BY <1>1, <2>2 DEF PassCovers
  <2> QED
    BY <2>1, <2>2
<1>6. ListenersAwaited'
  BY <1>1, <1>2 DEF ListenersAwaited, InRoots
<1>7. BackfillAwaited'
  BY <1>1, <1>2 DEF BackfillAwaited, EngineReady, InRoots
<1> QED
  BY <1>3, <1>4, <1>5, <1>6, <1>7

\* Steps of agents and passes leave apply() alone.
LEMMA ReadyFrame ==
  ASSUME ReadyInv, UNCHANGED <<config, lineage, engine, prepared, catalog, gate>>
  PROVE  /\ GateTells'
         /\ \A a \in Agents : /\ Owed(a)' = Owed(a)
                              /\ InRoots(a)' = InRoots(a)
                              /\ ServedNatively(a)' = ServedNatively(a)
BY OwedKept DEF ReadyInv, GateTells

\* A pass that only begins to wait covers what it covered.
LEMMA ReadyWait ==
  ASSUME TypeOK, ReadyInv,
         UNCHANGED <<config, lineage, engine, prepared, catalog, gate, mounted, failed>>,
         \A a \in Agents : life'[a] # "disposed" => life[a] # "disposed",
         \A a \in Agents, path \in Path :
           \/ pass'[a][path] = pass[a][path]
           \/ /\ path = "native" => ServedNatively(a)
              /\ pass[a][path].state = "none"
              /\ pass'[a][path].state = "waiting"
  PROVE  /\ NativeServed' /\ PassCovers'
         /\ BackfillAwaited /\ UNCHANGED backfill
              /\ (\A a \in Agents : life'[a] = "older" => life[a] = "older")
            => BackfillAwaited'
<1> USE DEF ReadyInv
<1>1. NativeServed'
  BY ReadyFrame DEF NativeServed, Path
<1>2. PassCovers'
  BY ReadyFrame DEF PassCovers, Path
<1>3. ASSUME UNCHANGED backfill, \A a \in Agents : life'[a] = "older" => life[a] = "older"
      PROVE  BackfillAwaited'
  <2>1. \A a \in Agents : pass[a]["root"].state = "settled" => pass'[a]["root"].state = "settled"
    BY DEF Path
  <2>2. \A a \in Agents : InRoots(a)' = InRoots(a)
    BY ReadyFrame
  <2>3. engine = "ready" => \A a \in backfill.roots : pass'[a]["root"].state = "settled"
    BY <2>1 DEF BackfillAwaited, TypeOK
  <2> QED
    BY <1>3, <2>2, <2>3 DEF BackfillAwaited
<1> QED
  BY <1>1, <1>2, <1>3

\* Events of agents: what a listener has awaited is settled when it goes on.
LEMMA ReadyAgent ==
  ASSUME TypeOK, OnceInv, LeftInv, ReadyInv, NEW a \in Agents,
         AgentCreated(a) \/ AgentCreatedUnheard(a) \/ Reannounced(a)
           \/ AgentDisposed(a) \/ ListenerStep(a)
  PROVE  ReadyInv'
<1> USE DEF ReadyInv
<1>1. /\ UNCHANGED <<config, lineage, engine, prepared, catalog, gate, backfill, failed>>
      /\ \A b \in Agents : b # a => life'[b] = life[b]
      /\ life'[a] # "older"
      /\ life'[a] # "disposed" => life[a] # "disposed"
  BY DEF AgentCreated, AgentCreatedUnheard, Reannounced, AgentDisposed, ListenerStep,
         RootListenerDone, NativeListenerDone, TypeOK
<1>2. \A b \in Agents, path \in Path :
        \/ pass'[b][path] = pass[b][path]
        \/ /\ path = "native" => ServedNatively(b)
           /\ b = a
           /\ pass[b][path].state = "none"
           /\ pass'[b][path].state = "waiting"
  <2>1. \/ pass' = pass
        \/ pass' = EnsureMount(a, "root")
        \/ pass' = EnsureMount(a, "native") /\ ServedNatively(a)
    BY DEF AgentCreated, AgentCreatedUnheard, Reannounced, AgentDisposed, ListenerStep,
           RootListenerDone, NativeListenerDone
  <2> QED
    BY <2>1, EnsureMountWaits DEF Path
<1>3. GateTells' /\ \A b \in Agents : InRoots(b)' = InRoots(b)
  BY <1>1, ReadyFrame
<1>4. NativeServed' /\ PassCovers' /\ BackfillAwaited'
  <2>1. CASE AgentDisposed(a)
    <3>1. UNCHANGED pass /\ \A b \in Agents : b # a => mounted'[b] = mounted[b]
      BY <2>1 DEF AgentDisposed, TypeOK
    <3>2. life'[a] = "disposed"
      BY <2>1 DEF AgentDisposed, TypeOK
    <3> QED
      BY <1>1, <3>1, <3>2, ReadyFrame DEF NativeServed, PassCovers, BackfillAwaited
  <2>2. CASE ~AgentDisposed(a)
    <3>1. UNCHANGED mounted
      BY <2>2 DEF AgentCreated, AgentCreatedUnheard, Reannounced, ListenerStep,
                  RootListenerDone, NativeListenerDone
    <3> QED
      BY <1>1, <1>2, <3>1, ReadyWait
  <2> QED
    BY <2>1, <2>2
<1>5. ListenersAwaited'
  <2> SUFFICES ASSUME NEW b \in Agents
               PROVE  /\ life'[b] \in {"nativeStep", "live"} /\ InRoots(b) =>
                           pass'[b]["root"].state = "settled" \/ engine = "failed"
                      /\ life'[b] = "live" /\ pass'[b]["native"].state # "none" =>
                           pass'[b]["native"].state = "settled"
    BY <1>1, <1>3 DEF ListenersAwaited
  <2>1. CASE b # a
    BY <2>1, <1>1, <1>2 DEF ListenersAwaited, Path
  <2>2. CASE b = a /\ life'[a] \notin {"nativeStep", "live"}
    BY <2>2
  <2>3. CASE b = a /\ AgentCreatedUnheard(a)
    <3>1. \A path \in Path : pass'[a][path].state = "none"
      BY <2>3 DEF AgentCreatedUnheard, LeftInv, AbsentIdle
    <3> QED
      BY <2>3, <3>1 DEF AgentCreatedUnheard, Path
  <2>4. CASE b = a /\ RootListenerDone(a)
    <3>1. InRoots(a) => pass'[a]["root"].state = "settled"
      BY <2>4, <1>2 DEF RootListenerDone, Path
    <3>2. life'[a] = "nativeStep"
      BY <2>4 DEF RootListenerDone, TypeOK
    <3> QED
      BY <2>4, <3>1, <3>2
  <2>5. CASE b = a /\ NativeListenerDone(a)
    <3>1. life[a] = "nativeStep" /\ pass' = pass
      BY <2>5 DEF NativeListenerDone
    <3>2. pass[a]["native"].state # "none" => pass[a]["native"].state = "settled"
      BY <2>5 DEF NativeListenerDone, NativeServed
    <3> QED
      BY <2>5, <3>1, <3>2 DEF ListenersAwaited
  <2>6. CASE AgentCreated(a) \/ Reannounced(a) \/ AgentDisposed(a)
    <3>1. life'[a] \in {"rootStep", "disposed"}
      BY <2>6 DEF AgentCreated, Reannounced, AgentDisposed, TypeOK
    <3> QED
      BY <2>1, <2>2, <3>1
  <2> QED
    BY <2>1, <2>2, <2>3, <2>4, <2>5, <2>6 DEF ListenerStep
<1> QED
  BY <1>3, <1>4, <1>5

\* The backfill begins passes, and apply() will wait for each of them.
LEMMA ReadyBackfill == TypeOK /\ OnceInv /\ ReadyInv /\ Backfill => ReadyInv'
<1> SUFFICES ASSUME TypeOK, OnceInv, ReadyInv, Backfill PROVE ReadyInv'
  OBVIOUS
<1> USE DEF ReadyInv
<1>1. UNCHANGED <<config, lineage, engine, prepared, catalog, gate, life, mounted, failed>>
  BY DEF Backfill
<1>2. \A b \in Agents, path \in Path :
        \/ pass'[b][path] = pass[b][path]
        \/ /\ path = "root"
           /\ pass[b][path].state = "none"
           /\ pass'[b][path].state = "waiting"
  <2>1. \A b \in Agents : pass'[b] = IF b \in Roots THEN EnsureMount(b, "root")[b] ELSE pass[b]
    BY DEF Backfill
  <2> QED
    BY <2>1, EnsureMountWaits DEF Path
<1>3. GateTells' /\ \A b \in Agents : InRoots(b)' = InRoots(b)
  BY <1>1, ReadyFrame
<1>4. NativeServed' /\ PassCovers'
  BY <1>1, <1>2, ReadyWait
<1>5. ListenersAwaited'
  <2>1. \A b \in Agents : /\ pass[b]["root"].state = "settled" => pass'[b]["root"].state = "settled"
                          /\ pass'[b]["native"] = pass[b]["native"]
    BY <1>2 DEF Path
  <2> QED
    BY <1>1, <1>3, <2>1 DEF ListenersAwaited
<1>6. BackfillAwaited'
  <2>1. engine # "ready"
    BY DEF Backfill, BackfillAwaited
  <2>2. backfill'.roots = Roots
    BY DEF Backfill
  <2> QED
    BY <1>1, <1>3, <2>1, <2>2 DEF BackfillAwaited, Roots
<1> QED
  BY <1>3, <1>4, <1>5, <1>6

\* A pass that starts takes over exactly what its agent is owed.
LEMMA ReadyStart ==
  ASSUME TypeOK, OnceInv, ReadyInv, NEW a \in Agents,
         RootPassStarts(a) \/ NativePassStarts(a) \/ BridgePassStarts(a)
  PROVE  ReadyInv'
<1> USE DEF ReadyInv
<1>1. UNCHANGED <<config, lineage, engine, prepared, catalog, gate, backfill, life, mounted, failed>>
  BY DEF RootPassStarts, NativePassStarts, BridgePassStarts
<1>2. PICK path \in Path, set \in SUBSET Packages :
        /\ StartPass(a, path, set)
        /\ pass[a][path].state \in {"none", "waiting"}
        /\ path \in {"root", "native"} =>
             gate.open /\ set = Owed(a) /\ pass[a][path].state = "waiting"
  <2>1. CASE RootPassStarts(a)
    <3>1. pass[a]["root"].state = "waiting" /\ "root" \in Path
      BY <2>1 DEF RootPassStarts, Path
    <3>2. InRoots(a)
      BY <3>1 DEF OnceInv, OnlyOwnPath, OwnPath
    <3>3. Owed(a) = gate.packages
      BY <3>2 DEF Owed, ServedNatively
    <3>4. gate.packages \in SUBSET Packages
      BY DEF TypeOK
    <3> QED
      BY <2>1, <3>1, <3>3, <3>4 DEF RootPassStarts
  <2>2. CASE NativePassStarts(a)
    <3>1. pass[a]["native"].state = "waiting" /\ "native" \in Path
      BY <2>2 DEF NativePassStarts, Path
    <3>2. ServedNatively(a)
      BY <3>1 DEF NativeServed
    <3>3. Owed(a) = IF catalog THEN prepared \cap Extending ELSE {}
      BY <3>2 DEF Owed, ServedNatively
    <3>4. Owed(a) \in SUBSET Packages
      BY <3>3 DEF TypeOK
    <3> QED
      BY <2>2, <3>1, <3>3, <3>4 DEF NativePassStarts
  <2>3. CASE BridgePassStarts(a)
    <3>1. PICK names \in SUBSET (prepared \cap Extending) : StartPass(a, "bridge", names)
      BY <2>3 DEF BridgePassStarts
    <3>2. names \in SUBSET Packages
      BY DEF TypeOK
    <3>3. pass[a]["bridge"].state = "none" /\ "bridge" \in Path
      BY <2>3 DEF BridgePassStarts, Path
    <3> QED
      BY <3>1, <3>2, <3>3
  <2> QED
    BY <2>1, <2>2, <2>3
<1> DEFINE new == [state |-> IF set = {} THEN "settled" ELSE "mounting", todo |-> set]
<1>3. /\ pass'[a][path] = new
      /\ \A b \in Agents, q \in Path : (b # a \/ q # path) => pass'[b][q] = pass[b][q]
  BY <1>2 DEF StartPass, TypeOK
<1>4. /\ new.todo = set
      /\ new.state \in {"mounting", "settled"}
      /\ new.state = "settled" => set = {}
  OBVIOUS
<1> HIDE DEF new
<1>5. GateTells' /\ \A b \in Agents : /\ InRoots(b)' = InRoots(b)
                                      /\ Owed(b)' = Owed(b)
                                      /\ ServedNatively(b)' = ServedNatively(b)
  BY <1>1, ReadyFrame
<1>6. NativeServed'
  <2>1. \A b \in Agents : pass'[b]["native"].state # "none" => pass[b]["native"].state # "none"
    BY <1>2, <1>3 DEF Path
  <2> QED
    BY <1>5, <2>1 DEF NativeServed
<1>7. PassCovers'
  <2> SUFFICES ASSUME NEW b \in Agents, NEW q \in {"root", "native"},
                      pass'[b][q].state \in {"mounting", "settled"}
               PROVE  /\ gate.open
                      /\ pass'[b][q].state = "settled" => pass'[b][q].todo = {}
                      /\ life[b] # "disposed" =>
                           \A p \in Owed(b) :
                             p \in pass'[b][q].todo \/ p \in failed[b] \/ p \in mounted[b]
    BY <1>1, <1>5 DEF PassCovers
  <2>1. CASE b = a /\ q = path
    BY <2>1, <1>2, <1>3, <1>4
  <2>2. CASE b # a \/ q # path
    BY <2>2, <1>3 DEF PassCovers, Path
  <2> QED
    BY <2>1, <2>2
<1>8. \A b \in Agents, q \in Path : pass[b][q].state = "settled" => pass'[b][q].state = "settled"
  BY <1>2, <1>3
<1>9. ListenersAwaited'
  <2>1. \A b \in Agents : life[b] = "live" /\ pass[b]["native"].state # "none" =>
                            pass'[b]["native"].state = "settled"
    BY <1>8 DEF ListenersAwaited, Path
  <2>2. \A b \in Agents : pass'[b]["native"].state # "none" => pass[b]["native"].state # "none"
    BY <1>2, <1>3 DEF Path
  <2> QED
    BY <1>1, <1>5, <1>8, <2>1, <2>2 DEF ListenersAwaited, Path
<1>10. BackfillAwaited'
  BY <1>1, <1>5, <1>8 DEF BackfillAwaited, TypeOK, Path
<1> QED
  BY <1>5, <1>6, <1>7, <1>9, <1>10

\* An activation takes its package off the pass: it is up or reported.
LEMMA ReadyMount ==
  ASSUME TypeOK, ReadyInv, NEW a \in Agents, NEW path \in Path, NEW p \in Packages,
         NEW ok \in BOOLEAN, MountPackage(a, path, p, ok)
  PROVE  ReadyInv'
<1> USE DEF ReadyInv
<1> DEFINE rest == pass[a][path].todo \ {p}
           next == [pass[a][path] EXCEPT
                      !.todo = rest,
                      !.state = IF rest = {} THEN "settled" ELSE @]
<1>1. UNCHANGED <<config, lineage, engine, prepared, catalog, gate, backfill, life>>
  BY DEF MountPackage
<1>2. /\ pass \in [Agents -> [Path -> PassRecord]]
      /\ pass[a] \in [Path -> PassRecord]
      /\ pass[a][path] \in PassRecord
      /\ pass[a][path].state = "mounting" /\ p \in pass[a][path].todo
  BY DEF TypeOK, MountPackage
<1>3. /\ next.todo = rest
      /\ next.state \in {"mounting", "settled"}
      /\ next.state = "settled" => rest = {}
  BY <1>2 DEF PassRecord
<1>4. pass' = [pass EXCEPT ![a] = [pass[a] EXCEPT ![path] = next]]
  BY <1>2 DEF MountPackage, PassRecord
<1> HIDE DEF next
<1>5. /\ pass'[a][path] = next
      /\ \A b \in Agents, q \in Path : (b # a \/ q # path) => pass'[b][q] = pass[b][q]
  BY <1>2, <1>4
<1>6. /\ \A b \in Agents : mounted[b] \subseteq mounted'[b] /\ failed[b] \subseteq failed'[b]
      /\ p \in mounted'[a] \/ p \in failed'[a]
  <2>1. mounted \in [Agents -> SUBSET Packages] /\ failed \in [Agents -> SUBSET Packages]
    BY DEF TypeOK
  <2>2. CASE ok
    BY <2>1, <2>2 DEF MountPackage
  <2>3. CASE ~ok
    BY <2>1, <2>3 DEF MountPackage
  <2> QED
    BY <2>2, <2>3
<1>7. GateTells' /\ \A b \in Agents : /\ InRoots(b)' = InRoots(b)
                                      /\ Owed(b)' = Owed(b)
                                      /\ ServedNatively(b)' = ServedNatively(b)
  BY <1>1, ReadyFrame
<1>8. \A b \in Agents, q \in Path :
        /\ pass'[b][q].state # "none" => pass[b][q].state # "none"
        /\ pass[b][q].state = "settled" => pass'[b][q].state = "settled"
  BY <1>2, <1>3, <1>5
<1>9. NativeServed'
  BY <1>7, <1>8 DEF NativeServed, Path
<1>10. PassCovers'
  <2> SUFFICES ASSUME NEW b \in Agents, NEW q \in {"root", "native"},
                      pass'[b][q].state \in {"mounting", "settled"}
               PROVE  /\ gate.open
                      /\ pass'[b][q].state = "settled" => pass'[b][q].todo = {}
                      /\ life[b] # "disposed" =>
                           \A r \in Owed(b) :
                             r \in pass'[b][q].todo \/ r \in failed'[b] \/ r \in mounted'[b]
    BY <1>1, <1>7 DEF PassCovers
  <2>1. CASE b = a /\ q = path
    <3>1. gate.open /\ (life[a] # "disposed" =>
             \A r \in Owed(a) : r \in pass[a][path].todo \/ r \in failed[a] \/ r \in mounted[a])
      BY <2>1, <1>2 DEF PassCovers
    <3> QED
      BY <2>1, <3>1, <1>3, <1>5, <1>6
  <2>2. CASE b # a \/ q # path
    BY <2>2, <1>5, <1>6 DEF PassCovers, Path
  <2> QED
    BY <2>1, <2>2
<1>11. ListenersAwaited'
  BY <1>1, <1>7, <1>8 DEF ListenersAwaited, Path
<1>12. BackfillAwaited'
  BY <1>1, <1>7, <1>8 DEF BackfillAwaited, TypeOK, Path
<1> QED
  BY <1>7, <1>9, <1>10, <1>11, <1>12

\* Every step keeps the inductive invariant.
LEMMA ReadyStep == TypeOK /\ OnceInv /\ LeftInv /\ ReadyInv /\ [Next]_vars => ReadyInv'
<1> SUFFICES ASSUME TypeOK, OnceInv, LeftInv, ReadyInv, [Next]_vars PROVE ReadyInv'
  OBVIOUS
<1>1. CASE UNCHANGED vars
  <2>1. UNCHANGED <<config, lineage, engine, prepared, catalog, gate>>
    BY <1>1 DEF vars
  <2> QED
    BY <1>1, <2>1, ReadyFrame DEF vars, ReadyInv, NativeServed, PassCovers, ListenersAwaited, BackfillAwaited
<1> QED
  BY <1>1, ReadyEngine, ReadyBackfill, ReadyAgent, ReadyStart, ReadyMount DEF Next, MountStep

\* An agent the engine's listeners have released, and every root once apply() has
\* returned, has all its packages up or reported (engine.ts:215-218,280-287),
\* for any number of agents and packages, whatever apply() comes to meanwhile.
THEOREM ReleasedReady == Spec => []ReadyBeforeRelease
BY InitOnce, InitLeft, InitReady, ReadyEnough, OnceStep, LeftStep, ReadyStep,
   TypeCorrect, PTL DEF Spec

=============================================================================
