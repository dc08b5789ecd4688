--------------------------- MODULE ProviderLedger ---------------------------
(***************************************************************************)
(* One provider in the host's ledger of providers and its route in DSH     *)
(* (src/src/runtime.ts, src/src/provider-adapter.ts).                      *)
(*                                                                         *)
(* Packages register what they know of a provider; every agent has an      *)
(* instance of each package, so the same registration comes again and      *)
(* again.  The ledger keeps one slot per package, over the built-in        *)
(* entry, and composes them in the order in which the packages came.  The  *)
(* route built on the composition belongs to the instances that asked for  *)
(* it; it goes with the last of them, and is built anew whenever the       *)
(* composition changes.  A provider with a transport is an adapter of      *)
(* DSH at once; one that only declares a catalog is mounted through DSH's  *)
(* own adapter over several awaits.                                        *)
(*                                                                         *)
(* Abstractions: of a configuration only the endpoint, the model list, the *)
(* endpoint the listed models carry, and whether it has a transport or a   *)
(* login; functions are compared by presence, as providerFingerprint does. *)
(* What DSH's settings hold of a provider is not followed.                 *)
(***************************************************************************)
EXTENDS Naturals, FiniteSets, SequencesExt

CONSTANTS
  Instances,     \* package instances, one per agent and package
  PackageOf,     \* the package of each
  Registrations, \* what packages may register: fields, 0 or FALSE where undefined
  BuiltinUrl,    \* endpoint of the engine's built-in entry, 0 if there is none
  HasSettings,   \* whether DSH's own adapter is mounted and takes profiles by its settings
  MaxRoutes, MaxGenerations \* bounds on the routes built and on the mounts of one

Packages == {PackageOf[i] : i \in Instances}

ASSUME LedgerAssumption ==
  /\ IsFiniteSet(Instances)
  /\ BuiltinUrl \in Nat /\ HasSettings \in BOOLEAN
  /\ Registrations \subseteq [url : Nat, list : Nat, transport : BOOLEAN]
  /\ MaxRoutes \in Nat /\ MaxGenerations \in Nat \ {0}

VARIABLES
  alive,       \* instances that are not unloaded
  slots,       \* providerPackages: what each package has registered
  order,       \* providerPackageOrder
  canonical,   \* the composition: providers
  dsh,         \* the route, its owners (providerRouteOwners), the mounts of DSH's
               \* adapter under way or mounted, who holds the provider's name
  owned,       \* instances with the provider in ownedProviderRoutes
  built,       \* routes built so far
  discovering  \* providerModelDiscoveries: whether a catalog refresh is under way

vars == <<alive, slots, order, canonical, dsh, owned, built, discovering>>

Unknown == [url |-> 0, list |-> 0, at |-> 0, transport |-> FALSE, oauth |-> FALSE, known |-> FALSE]
Builtin == IF BuiltinUrl = 0 THEN Unknown ELSE [Unknown EXCEPT !.url = BuiltinUrl, !.oauth = TRUE, !.known = TRUE]
Empty   == [url |-> 0, list |-> 0, transport |-> FALSE]
NoRoute == [id |-> 0, kind |-> "none", shape |-> Unknown, generation |-> 0]
Nobody  == <<0, 0>>

Init ==
  /\ alive = Instances
  /\ slots = [p \in Packages |-> {}] /\ order = <<>>
  /\ canonical = Builtin
  /\ dsh = [route |-> NoRoute, owners |-> {}, mounts |-> {}, holder |-> Nobody]
  /\ owned = {} /\ built = 0 /\ discovering = FALSE

-----------------------------------------------------------------------------
(* The layered composition.                                                *)

Defined(new, old) == IF new = 0 THEN old ELSE new

\* mergeProviderRegistration: a package registers again.
Merged(slot, r) ==
  LET old == IF slot = {} THEN Empty ELSE CHOOSE s \in slot : TRUE
  IN {[url |-> Defined(r.url, old.url), list |-> Defined(r.list, old.list),
       transport |-> r.transport \/ old.transport]}

\* overlayProviderConfig: without models of its own an overlay keeps the
\* models below it, moved to its endpoint if it has one.
Overlay(base, r) ==
  [base EXCEPT !.url = Defined(r.url, @), !.list = Defined(r.list, @), !.known = TRUE,
               !.at = IF r.list # 0 THEN 0 ELSE IF r.url # 0 /\ base.list # 0 THEN r.url ELSE @,
               !.transport = @ \/ r.transport]

\* Packages overlay each other in the order in which they first registered
\* anything, however often their instances register.
Ordered(p) == IF Contains(order, p) THEN order ELSE Append(order, p)

\* recomposeSharedProvider
Composed(bySlot, packages) ==
  FoldLeft(LAMBDA base, p : IF bySlot[p] = {} THEN base
                            ELSE Overlay(base, CHOOSE r \in bySlot[p] : TRUE),
           Builtin, packages)

-----------------------------------------------------------------------------
(* The route.  A step of the code retires and builds in one go: s is DSH's *)
(* side of it, as left by what came before.                                *)

\* mounted?.dispose?.(): a mount still under way is left to itself.
WithoutMounted(s) ==
  LET mounted == {m \in s.mounts : m.at = "mounted" /\ m.route = s.route.id}
  IN [s EXCEPT !.mounts = @ \ mounted,
               !.holder = IF \E m \in mounted : @ = <<m.route, m.generation>> THEN Nobody ELSE @]

\* retireSharedProviderRoute, and the end of releaseSharedProviderRoute.
Retired(s) ==
  [WithoutMounted(s) EXCEPT !.route = NoRoute, !.owners = {},
                            !.holder = IF s.route.kind = "transport" THEN Nobody ELSE @]

Declaring(route, generation) == [route |-> route, generation |-> generation, at |-> "declaring"]

\* registerPiProviderRoute: an adapter of DSH at once, unless the name is
\* taken, or a mount of DSH's own adapter; a mere login has nothing to route.
Built(s, i, config) ==
  LET new(kind) == [s EXCEPT !.owners = {i},
                             !.route = [id |-> built + 1, kind |-> kind, shape |-> config, generation |-> 1]]
  IN IF config.transport
     THEN IF s.holder # Nobody THEN s
          ELSE [new("transport") EXCEPT !.holder = <<built + 1, 0>>]
     ELSE IF config.list = 0 /\ config.oauth THEN s
     ELSE [new("catalog") EXCEPT !.mounts = @ \cup {Declaring(built + 1, 1)}]

\* registerSharedProviderRoute
Publish(s, i, config) ==
  LET new == IF s.route.id # 0 THEN [s EXCEPT !.owners = @ \cup {i}] ELSE Built(s, i, config)
  IN /\ dsh' = new
     /\ owned' = IF i \in new.owners THEN owned \cup {i} ELSE owned
     /\ built' = IF new.route.id > built THEN new.route.id ELSE built
     /\ built' <= MaxRoutes

\* releaseSharedProviderRoute
Released(s, i) ==
  IF i \notin owned THEN s
  ELSE IF s.owners \ {i} # {} THEN [s EXCEPT !.owners = @ \ {i}]
  ELSE Retired(s)

-----------------------------------------------------------------------------
\* registerPiProvider
Register(i, r) ==
  /\ i \in alive
  /\ LET p == PackageOf[i]
     IN /\ slots' = [slots EXCEPT ![p] = Merged(@, r)]
        /\ order' = Ordered(p)
  /\ canonical' = Composed(slots', order')
  /\ Publish(IF canonical' = canonical THEN dsh ELSE Retired(dsh), i, canonical')
  /\ discovering' = TRUE
  /\ UNCHANGED alive

\* A fault: the route is not retired when the composition changes.
Recompose_Only(i, s) == dsh' = s /\ owned' = owned \ {i} /\ UNCHANGED built

\* What remains of the composition is published by the instance that withdrew.
Recompose(i, s) ==
  IF canonical' = canonical THEN dsh' = s /\ owned' = owned \ {i} /\ UNCHANGED built
  ELSE IF canonical'.known THEN
    LET new == Built(Retired(s), i, canonical')
    IN /\ dsh' = new
       /\ owned' = IF i \in new.owners THEN owned \cup {i} ELSE owned \ {i}
       /\ built' = IF new.route.id > built THEN new.route.id ELSE built
       /\ built' <= MaxRoutes
  ELSE dsh' = Retired(s) /\ owned' = owned \ {i} /\ UNCHANGED built

\* unregisterPiProvider
Unregister(i) ==
  /\ i \in alive
  /\ slots' = [slots EXCEPT ![PackageOf[i]] = {}]
  /\ canonical' = Composed(slots', order)
  /\ Recompose(i, Released(dsh, i))
  /\ UNCHANGED <<alive, order, discovering>>

\* A fault: an unloaded instance stays among the owners.
Unload_Keeps(i) ==
  /\ i \in alive /\ alive' = alive \ {i} /\ owned' = owned \ {i}
  /\ UNCHANGED <<slots, order, canonical, dsh, built, discovering>>

\* The teardown of an instance; its registration stays.
Unload(i) ==
  /\ i \in alive /\ alive' = alive \ {i}
  /\ dsh' = Released(dsh, i) /\ owned' = owned \ {i}
  /\ UNCHANGED <<slots, order, canonical, built, discovering>>

\* Signing out retires the route of a provider without a transport.
SignOut ==
  /\ dsh.route.kind = "catalog"
  /\ dsh' = Retired(dsh)
  /\ UNCHANGED <<alive, slots, order, canonical, owned, built, discovering>>

\* discoverProviderModels ends; a success announces the route again, which
\* for DSH's own adapter is another mount.
Discovered ==
  /\ discovering /\ discovering' = FALSE
  /\ \/ UNCHANGED dsh
     \/ LET next == dsh.route.generation + 1
        IN /\ dsh.route.kind = "catalog" /\ next <= MaxGenerations
           /\ dsh' = [WithoutMounted(dsh) EXCEPT !.route.generation = next,
                                                 !.mounts = @ \cup {Declaring(dsh.route.id, next)}]
  /\ UNCHANGED <<alive, slots, order, canonical, owned, built>>

-----------------------------------------------------------------------------
(* mountOfficialAdapter                                                    *)

\* The profile is taken by the settings of DSH's adapter, or a mount of its
\* own is tried, which fails when the name is held.
Declare(m) ==
  /\ m \in dsh.mounts /\ m.at = "declaring"
  /\ dsh' = IF HasSettings \/ dsh.holder # Nobody THEN [dsh EXCEPT !.mounts = @ \ {m}]
            ELSE [dsh EXCEPT !.mounts = (@ \ {m}) \cup {[m EXCEPT !.at = "mounting"]},
                             !.holder = <<m.route, m.generation>>]
  /\ UNCHANGED <<alive, slots, order, canonical, owned, built, discovering>>

\* A fault: only the generation is asked for.
Stale_Generation(m) == dsh.route.id = m.route /\ dsh.route.generation # m.generation

\* The route was disposed or announced again meanwhile.
Stale(m) == dsh.route.id # m.route \/ dsh.route.generation # m.generation

Mounted(m) ==
  /\ m \in dsh.mounts /\ m.at = "mounting"
  /\ dsh' = IF Stale(m) THEN [dsh EXCEPT !.mounts = @ \ {m}, !.holder = Nobody]
            ELSE [dsh EXCEPT !.mounts = (@ \ {m}) \cup {[m EXCEPT !.at = "mounted"]}]
  /\ UNCHANGED <<alive, slots, order, canonical, owned, built, discovering>>

-----------------------------------------------------------------------------
Ledger == \/ \E i \in Instances : Unregister(i) \/ Unload(i) \/ \E r \in Registrations : Register(i, r)
          \/ SignOut \/ Discovered

Mounts == \E m \in dsh.mounts : Declare(m) \/ Mounted(m)

Next == Ledger \/ Mounts

Spec == Init /\ [][Next]_vars

-----------------------------------------------------------------------------
(* Properties.                                                             *)

\* The types of the state.
TypeOK ==
  /\ alive \subseteq Instances /\ owned \subseteq Instances
  /\ \A p \in Packages : Cardinality(slots[p]) <= 1
  /\ {order[k] : k \in 1 .. Len(order)} \subseteq Packages /\ Len(order) <= Cardinality(Packages)
  /\ dsh.owners \subseteq Instances /\ dsh.route.kind \in {"none", "transport", "catalog"}
  /\ \A m \in dsh.mounts : m.route \in 1 .. built /\ m.generation \in 1 .. MaxGenerations
  /\ built \in 0 .. MaxRoutes /\ discovering \in BOOLEAN

\* A route never serves an old composition: what other packages or other
\* agents' instances register or withdraw in between, it was built on
\* what the ledger says now (runtime.ts 3270-3276, 5062-5069).
RouteIsCanonical == TypeOK /\ (dsh.route.id # 0 => dsh.route.shape = canonical)

\* Only the present route's latest mount is left standing, and the name in DSH
\* is held by nothing that is over (provider-adapter.ts 686-692).
NoGhostAdapter ==
  /\ \A m \in dsh.mounts : m.at = "mounted" => m.route = dsh.route.id /\ m.generation = dsh.route.generation
  /\ dsh.holder # Nobody =>
       \/ dsh.route.kind = "transport" /\ dsh.holder = <<dsh.route.id, 0>>
       \/ \E m \in dsh.mounts : m.at # "declaring" /\ dsh.holder = <<m.route, m.generation>>

\* A route belongs to instances that are there and know that they own it: it
\* cannot outlive the last of them.
OwnersAreThere == dsh.route.id # 0 => dsh.owners # {} /\ dsh.owners \subseteq owned \cap alive
=============================================================================
