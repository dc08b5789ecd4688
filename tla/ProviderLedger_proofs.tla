------------------------ MODULE ProviderLedger_proofs ------------------------
(***************************************************************************)
(* Proved of ProviderLedger, for any instances, packages and registrations *)
(* and any bounds: a route always belongs to instances that are there and  *)
(* know it, so it cannot outlive the last of them; it serves what the      *)
(* ledger says now; and nothing of DSH's own adapter is left standing, nor *)
(* holds the provider's name, once it is over.                             *)
(***************************************************************************)
EXTENDS ProviderLedger, FiniteSetTheorems, TLAPS

(* DSH's side of the route is a record, whatever its fields hold.           *)
Route(id, kind, shape, generation) ==
  [id |-> id, kind |-> kind, shape |-> shape, generation |-> generation]
SideOf(route, owners, mounts, holder) ==
  [route |-> route, owners |-> owners, mounts |-> mounts, holder |-> holder]

IsRoute(r) == \E id, kind, shape, generation : r = Route(id, kind, shape, generation)
Side(s) == \E r, o, m, h : IsRoute(r) /\ s = SideOf(r, o, m, h)

(* Side s names as owners only the instances in `those', and some of them.  *)
OwnedBy(s, those) ==
  Side(s) /\ s.route.id \in Nat /\ (s.route.id # 0 => s.owners # {} /\ s.owners \subseteq those)

OwnersInv == built \in Nat /\ OwnedBy(dsh, owned \cap alive)

-----------------------------------------------------------------------------
(* What changing a field leaves of a record.                                *)

\* What setting a field of the DSH side makes of it.
LEMMA Fields ==
  ASSUME NEW r, NEW o, NEW m, NEW h, NEW new
  PROVE  /\ SideOf(r, o, m, h).route = r /\ SideOf(r, o, m, h).owners = o
         /\ [SideOf(r, o, m, h) EXCEPT !.route = new] = SideOf(new, o, m, h)
         /\ [SideOf(r, o, m, h) EXCEPT !.owners = new] = SideOf(r, new, m, h)
         /\ [SideOf(r, o, m, h) EXCEPT !.mounts = new] = SideOf(r, o, new, h)
         /\ [SideOf(r, o, m, h) EXCEPT !.holder = new] = SideOf(r, o, m, new)
BY DEF SideOf

\* Setting a field to a well-formed value leaves the side well formed.
LEMMA Changed ==
  ASSUME NEW s, Side(s), NEW new
  PROVE  /\ LET t == [s EXCEPT !.mounts = new] IN Side(t) /\ t.route = s.route /\ t.owners = s.owners
         /\ LET t == [s EXCEPT !.holder = new] IN Side(t) /\ t.route = s.route /\ t.owners = s.owners
         /\ LET t == [s EXCEPT !.owners = new] IN Side(t) /\ t.route = s.route /\ t.owners = new
         /\ IsRoute(new) => LET t == [s EXCEPT !.route = new]
                            IN Side(t) /\ t.route = new /\ t.owners = s.owners
<1>1. PICK r, o, m, h : IsRoute(r) /\ s = SideOf(r, o, m, h)
  BY Zenon DEF Side
<1>2. s.route = r /\ s.owners = o
  BY <1>1, Fields
<1>3. /\ [s EXCEPT !.mounts = new] = SideOf(r, o, new, h)
      /\ [s EXCEPT !.holder = new] = SideOf(r, o, m, new)
      /\ [s EXCEPT !.owners = new] = SideOf(r, new, m, h)
      /\ [s EXCEPT !.route = new] = SideOf(new, o, m, h)
  BY <1>1 DEF SideOf
<1>4. \A route, owners, mounts, holder :
        LET t == SideOf(route, owners, mounts, holder)
        IN (IsRoute(route) => Side(t)) /\ t.route = route /\ t.owners = owners
  BY Fields DEF Side
<1> QED
  BY <1>1, <1>2, <1>3, <1>4

\* The absent route counts as a route, with no number.
LEMMA NoRouteIsRoute == IsRoute(NoRoute) /\ NoRoute.id = 0
BY DEF NoRoute, IsRoute, Route

\* Retiring a route leaves a well-formed side without one.
LEMMA RetiredSide ==
  ASSUME NEW s, Side(s)
  PROVE  /\ Side(WithoutMounted(s)) /\ WithoutMounted(s).route = s.route
         /\ WithoutMounted(s).owners = s.owners
         /\ Side(Retired(s)) /\ Retired(s).route.id = 0
<1>1. ASSUME NEW t, NEW mounts, NEW holder, Side(t)
      PROVE  LET next == [t EXCEPT !.mounts = mounts, !.holder = holder]
             IN Side(next) /\ next.route = t.route /\ next.owners = t.owners
  <2> DEFINE first == [t EXCEPT !.mounts = mounts]
  <2>1. Side(first) /\ first.route = t.route /\ first.owners = t.owners
    BY <1>1, Changed
  <2> HIDE DEF first
  <2>2. LET next == [first EXCEPT !.holder = holder]
        IN Side(next) /\ next.route = first.route /\ next.owners = first.owners
    BY <2>1, Changed
  <2> QED
    BY <2>1, <2>2 DEF first
<1>2. /\ Side(WithoutMounted(s)) /\ WithoutMounted(s).route = s.route
      /\ WithoutMounted(s).owners = s.owners
  <2>1. PICK mounts, holder : WithoutMounted(s) = [s EXCEPT !.mounts = mounts, !.holder = holder]
    BY Zenon DEF WithoutMounted
  <2>2. LET next == [s EXCEPT !.mounts = mounts, !.holder = holder]
        IN Side(next) /\ next.route = s.route /\ next.owners = s.owners
    BY <1>1, ZenonT(60)
  <2> QED
    BY <2>1, <2>2, Zenon
<1>3. ASSUME NEW t, NEW holder, Side(t)
      PROVE  LET next == [t EXCEPT !.route = NoRoute, !.owners = {}, !.holder = holder]
             IN Side(next) /\ next.route.id = 0
  <2> DEFINE first == [t EXCEPT !.route = NoRoute]
             second == [first EXCEPT !.owners = {}]
  <2>1. Side(first) /\ first.route = NoRoute
    BY <1>3, NoRouteIsRoute, Changed
  <2> HIDE DEF first
  <2>2. Side(second) /\ second.route = NoRoute
    BY <2>1, Changed
  <2> HIDE DEF second
  <2>3. LET next == [second EXCEPT !.holder = holder] IN Side(next) /\ next.route = NoRoute
    BY <2>2, Changed
  <2> QED
    BY <2>3, NoRouteIsRoute DEF first, second
<1>4. Side(Retired(s)) /\ Retired(s).route.id = 0
  <2>1. PICK holder :
          Retired(s) = [WithoutMounted(s) EXCEPT !.route = NoRoute, !.owners = {}, !.holder = holder]
    BY Zenon DEF Retired
  <2>2. LET next == [WithoutMounted(s) EXCEPT !.route = NoRoute, !.owners = {}, !.holder = holder]
        IN Side(next) /\ next.route.id = 0
    BY <1>2, <1>3, Zenon
  <2> QED
    BY <2>1, <2>2, Zenon
<1> QED
  BY <1>2, <1>4

(* A route that is built belongs to the instance that asked for it.         *)
LEMMA BuiltOwned ==
  ASSUME NEW s, Side(s), s.route.id = 0, NEW i, NEW config, built \in Nat
  PROVE  LET new == Built(s, i, config)
         IN Side(new) /\ new.route.id \in Nat /\ (new.route.id # 0 => new.owners = {i})
<1> DEFINE route(kind) == [id |-> built + 1, kind |-> kind, shape |-> config, generation |-> 1]
           new(kind) == [s EXCEPT !.owners = {i}, !.route = route(kind)]
<1>1. ASSUME NEW kind PROVE IsRoute(route(kind)) /\ route(kind).id = built + 1
  BY DEF IsRoute, Route
<1>2. built + 1 \in Nat /\ built + 1 # 0
  OBVIOUS
<1>3. ASSUME NEW kind
      PROVE  Side(new(kind)) /\ new(kind).route.id = built + 1 /\ new(kind).owners = {i}
  <2>1. IsRoute(route(kind)) /\ route(kind).id = built + 1
    BY <1>1
  <2> HIDE DEF route
  <2> DEFINE first == [s EXCEPT !.owners = {i}]
  <2>2. PICK o : o = {i}
    OBVIOUS
  <2>3. LET t == [s EXCEPT !.owners = o] IN Side(t) /\ t.route = s.route /\ t.owners = o
    BY Changed, ZenonT(60)
  <2>4. Side(first) /\ first.owners = {i}
    BY <2>2, <2>3
  <2> HIDE DEF first
  <2>5. LET next == [first EXCEPT !.route = route(kind)]
        IN Side(next) /\ next.route = route(kind) /\ next.owners = first.owners
    BY <2>1, <2>4, Changed
  <2> QED
    BY <2>1, <2>4, <2>5 DEF first
<1>4. \/ Built(s, i, config) = s
      \/ \E holder : Built(s, i, config) = [new("transport") EXCEPT !.holder = holder]
      \/ \E mounts : Built(s, i, config) = [new("catalog") EXCEPT !.mounts = mounts]
  BY Zenon DEF Built
<1> HIDE DEF new
<1>5. CASE Built(s, i, config) = s
  BY <1>5
<1>6. ASSUME NEW holder, Built(s, i, config) = [new("transport") EXCEPT !.holder = holder]
      PROVE  /\ Side(Built(s, i, config)) /\ Built(s, i, config).route.id = built + 1
             /\ Built(s, i, config).owners = {i}
  <2>1. LET next == [new("transport") EXCEPT !.holder = holder]
        IN Side(next) /\ next.route = new("transport").route /\ next.owners = new("transport").owners
    BY <1>3, Changed
  <2> QED
    BY <1>3, <1>6, <2>1
<1>7. ASSUME NEW mounts, Built(s, i, config) = [new("catalog") EXCEPT !.mounts = mounts]
      PROVE  /\ Side(Built(s, i, config)) /\ Built(s, i, config).route.id = built + 1
             /\ Built(s, i, config).owners = {i}
  <2>1. LET next == [new("catalog") EXCEPT !.mounts = mounts]
        IN Side(next) /\ next.route = new("catalog").route /\ next.owners = new("catalog").owners
    BY <1>3, Changed
  <2> QED
    BY <1>3, <1>7, <2>1
<1> QED
  BY <1>2, <1>4, <1>5, <1>6, <1>7

\* An owner that is released leaves the others in place.
LEMMA ReleasedOwned ==
  ASSUME NEW s, NEW i, OwnedBy(s, owned \cap alive)
  PROVE  OwnedBy(Released(s, i), (owned \ {i}) \cap alive)
<1>1. CASE i \notin owned
  <2>1. Released(s, i) = s
    BY <1>1 DEF Released
  <2> QED
    BY <1>1, <2>1 DEF OwnedBy
<1>2. CASE i \in owned /\ s.owners \ {i} # {}
  <2>1. Released(s, i) = [s EXCEPT !.owners = s.owners \ {i}]
    BY <1>2 DEF Released
  <2>2. LET next == [s EXCEPT !.owners = s.owners \ {i}]
        IN Side(next) /\ next.route = s.route /\ next.owners = s.owners \ {i}
    BY Changed, ZenonT(60) DEF OwnedBy
  <2> QED
    BY <1>2, <2>1, <2>2 DEF OwnedBy
<1>3. CASE i \in owned /\ s.owners \ {i} = {}
  <2>1. Released(s, i) = Retired(s)
    BY <1>3 DEF Released
  <2> QED
    BY <2>1, RetiredSide DEF OwnedBy
<1> QED
  BY <1>1, <1>2, <1>3

\* At first there is no route.
LEMMA InitOwners == Init => OwnersInv
<1> SUFFICES ASSUME Init PROVE OwnersInv
  OBVIOUS
<1>1. dsh = SideOf(NoRoute, {}, {}, Nobody) /\ built = 0
  BY DEF Init, SideOf
<1>2. Side(dsh) /\ dsh.route = NoRoute
  BY <1>1, NoRouteIsRoute, Fields DEF Side
<1> QED
  BY <1>1, <1>2, NoRouteIsRoute DEF OwnersInv, OwnedBy

(* What becomes of a side that was published by an instance that is there.  *)
LEMMA PublishOwned ==
  ASSUME NEW s, NEW i \in alive, NEW config, built \in Nat,
         OwnedBy(s, owned \cap alive), Publish(s, i, config), alive' = alive
  PROVE  OwnersInv'
<1>1. CASE s.route.id # 0
  <2> DEFINE new == [s EXCEPT !.owners = s.owners \cup {i}]
  <2>1. Side(new) /\ new.route = s.route /\ new.owners = s.owners \cup {i}
    BY Changed DEF OwnedBy
  <2>2. /\ dsh' = new /\ owned' = IF i \in new.owners THEN owned \cup {i} ELSE owned
        /\ built' = IF new.route.id > built THEN new.route.id ELSE built
        /\ built' <= MaxRoutes
    BY <1>1 DEF Publish
  <2>3. owned' = owned \cup {i}
    BY <2>1, <2>2
  <2>4. s.route.id \in Nat /\ s.owners \subseteq owned \cap alive
    BY <1>1 DEF OwnedBy
  <2> HIDE DEF new
  <2>5. built' \in Nat
    BY <2>1, <2>2, <2>4
  <2>6. new.owners # {} /\ new.owners \subseteq owned' \cap alive'
    BY <2>1, <2>3, <2>4
  <2> QED
    BY <2>1, <2>2, <2>4, <2>5, <2>6 DEF OwnersInv, OwnedBy
<1>2. CASE s.route.id = 0
  <2> DEFINE new == Built(s, i, config)
  <2>1. /\ dsh' = new /\ owned' = IF i \in new.owners THEN owned \cup {i} ELSE owned
        /\ built' = IF new.route.id > built THEN new.route.id ELSE built
    BY <1>2 DEF Publish
  <2>2. Side(new) /\ new.route.id \in Nat /\ (new.route.id # 0 => new.owners = {i})
    BY <1>2, BuiltOwned DEF OwnedBy
  <2> HIDE DEF new
  <2>3. CASE new.route.id = 0
    BY <2>1, <2>2, <2>3 DEF OwnersInv, OwnedBy
  <2>4. CASE new.route.id # 0
    BY <2>1, <2>2, <2>4 DEF OwnersInv, OwnedBy
  <2> QED
    BY <2>3, <2>4
<1> QED
  BY <1>1, <1>2

\* Composing anew leaves owners that are there, the instance if it builds a route.
LEMMA RecomposeOwned ==
  ASSUME NEW s, NEW i \in alive, built \in Nat,
         OwnedBy(s, (owned \ {i}) \cap alive), Recompose(i, s), alive' = alive
  PROVE  OwnersInv'
<1>1. CASE dsh' = s /\ owned' = owned \ {i} /\ built' = built
  BY <1>1 DEF OwnersInv
<1>2. CASE dsh' = Retired(s) /\ owned' = owned \ {i} /\ built' = built
  BY <1>2, RetiredSide DEF OwnersInv, OwnedBy
<1>3. CASE LET new == Built(Retired(s), i, canonical')
           IN /\ dsh' = new
              /\ owned' = IF i \in new.owners THEN owned \cup {i} ELSE owned \ {i}
              /\ built' = IF new.route.id > built THEN new.route.id ELSE built
  <2> DEFINE new == Built(Retired(s), i, canonical')
  <2>1. Side(Retired(s)) /\ Retired(s).route.id = 0
    BY RetiredSide DEF OwnedBy
  <2>2. Side(new) /\ new.route.id \in Nat /\ (new.route.id # 0 => new.owners = {i})
    BY <2>1, BuiltOwned
  <2> QED
    BY <1>3, <2>2 DEF OwnersInv, OwnedBy
<1> QED
  BY <1>1, <1>2, <1>3 DEF Recompose

\* Every step keeps the invariant.
LEMMA StepOwners == OwnersInv /\ [Next]_vars => OwnersInv'
<1> SUFFICES ASSUME OwnersInv, [Next]_vars PROVE OwnersInv'
  OBVIOUS
<1>1. ASSUME NEW i \in Instances, NEW r \in Registrations, Register(i, r) PROVE OwnersInv'
  <2>1. OwnedBy(dsh, owned \cap alive) /\ OwnedBy(Retired(dsh), owned \cap alive)
    BY RetiredSide DEF OwnersInv, OwnedBy
  <2>2. /\ i \in alive /\ alive' = alive
        /\ Publish(IF canonical' = canonical THEN dsh ELSE Retired(dsh), i, canonical')
    BY <1>1 DEF Register
  <2> QED
    BY <2>1, <2>2, PublishOwned DEF OwnersInv
<1>2. ASSUME NEW i \in Instances, Unregister(i) PROVE OwnersInv'
  BY <1>2, ReleasedOwned, RecomposeOwned DEF Unregister, OwnersInv
<1>3. ASSUME NEW i \in Instances, Unload(i) PROVE OwnersInv'
  <2>1. OwnedBy(Released(dsh, i), (owned \ {i}) \cap alive)
    BY ReleasedOwned DEF OwnersInv
  <2>2. dsh' = Released(dsh, i) /\ owned' = owned \ {i} /\ built' = built /\ alive' = alive \ {i}
    BY <1>3 DEF Unload
  <2> QED
    BY <2>1, <2>2 DEF OwnersInv, OwnedBy
<1>4. ASSUME Side(dsh'), dsh'.route.id = dsh.route.id, dsh'.owners = dsh.owners,
             UNCHANGED <<owned, alive, built>>
      PROVE  OwnersInv'
  BY <1>4 DEF OwnersInv, OwnedBy
<1>5. CASE SignOut
  BY <1>5, RetiredSide DEF SignOut, OwnersInv, OwnedBy
<1>6. CASE Discovered
  <2>1. CASE UNCHANGED dsh
    BY <1>4, <1>6, <2>1 DEF Discovered, OwnersInv, OwnedBy
  <2>2. CASE dsh' # dsh
    <3>1. PICK next, mounts :
            dsh' = [WithoutMounted(dsh) EXCEPT !.route.generation = next, !.mounts = mounts]
      BY <1>6, <2>2, Zenon DEF Discovered
    <3> DEFINE s == WithoutMounted(dsh)
    <3>2. Side(s) /\ s.route = dsh.route /\ s.owners = dsh.owners
      BY RetiredSide DEF OwnersInv, OwnedBy
    <3>3. dsh' = [s EXCEPT !.route.generation = next, !.mounts = mounts]
      BY <3>1
    <3> HIDE DEF s
    <3>4. PICK r, o, m, h : IsRoute(r) /\ s = SideOf(r, o, m, h)
      BY <3>2, Zenon DEF Side
    <3>5. PICK id, kind, shape, generation : r = Route(id, kind, shape, generation)
      BY <3>4, Zenon DEF IsRoute
    <3>6. dsh' = SideOf(Route(id, kind, shape, next), o, mounts, h)
      BY <3>3, <3>4, <3>5 DEF SideOf, Route
    <3>7. Side(dsh') /\ dsh'.route = Route(id, kind, shape, next) /\ dsh'.owners = o
      BY <3>6, Fields DEF Side, IsRoute
    <3>8. s.route = r /\ s.owners = o /\ r.id = id /\ Route(id, kind, shape, next).id = id
      BY <3>4, <3>5, Fields DEF Route
    <3> QED
      BY <1>4, <1>6, <3>2, <3>7, <3>8 DEF Discovered
  <2> QED
    BY <2>1, <2>2
<1>7. ASSUME NEW m \in dsh.mounts, Declare(m) \/ Mounted(m) PROVE OwnersInv'
  <2>1. PICK mounts, holder :
          \/ dsh' = [dsh EXCEPT !.mounts = mounts]
          \/ dsh' = [dsh EXCEPT !.mounts = mounts, !.holder = holder]
    BY <1>7, Zenon DEF Declare, Mounted
  <2> DEFINE first == [dsh EXCEPT !.mounts = mounts]
  <2>2. Side(first) /\ first.route = dsh.route /\ first.owners = dsh.owners
    BY Changed DEF OwnersInv, OwnedBy
  <2>3. CASE dsh' = first
    BY <1>4, <1>7, <2>2, <2>3 DEF Declare, Mounted
  <2>4. CASE dsh' = [first EXCEPT !.holder = holder]
    <3> HIDE DEF first
    <3>1. LET t == [first EXCEPT !.holder = holder]
          IN Side(t) /\ t.route = first.route /\ t.owners = first.owners
      BY <2>2, Changed
    <3> QED
      BY <1>4, <1>7, <2>2, <2>4, <3>1 DEF Declare, Mounted
  <2> QED
    BY <2>1, <2>3, <2>4
<1>8. CASE UNCHANGED vars
  BY <1>4, <1>8 DEF vars, OwnersInv, OwnedBy
<1> QED
  BY <1>1, <1>2, <1>3, <1>5, <1>6, <1>7, <1>8 DEF Next, Ledger, Mounts

(* However many instances of however many packages register, withdraw and   *)
(* are unloaded in whatever order, with mounts and refreshes in between: a  *)
(* route belongs to instances that are there and know that they own it.     *)
THEOREM RoutesAreOwned == Spec => []OwnersAreThere
<1>1. OwnersInv => OwnersAreThere
  BY DEF OwnersInv, OwnedBy, OwnersAreThere
<1> QED
  BY <1>1, InitOwners, StepOwners, PTL DEF Spec
-----------------------------------------------------------------------------
(* A route serves the present composition through its one adapter.          *)

MountRecord(b) == [route : 1 .. b, generation : 1 .. MaxGenerations,
                   at : {"declaring", "mounting", "mounted"}]

(* The route is one of the first b that were built, and built on c.         *)
OfLedger(route, b, c) ==
  /\ route.id \in 0 .. b /\ route.generation \in Nat
  /\ route.kind \in {"none", "transport", "catalog"}
  /\ route.id = 0 => route.kind = "none"
  /\ route.id # 0 => route.shape = c

(* What is mounted is the route's latest mount.                             *)
Standing(route, mounts) ==
  \A m \in mounts : m.at = "mounted" => m.route = route.id /\ m.generation = route.generation

(* Who holds the provider's name holds it for the route or for a mount.     *)
Held(route, mounts, holder) ==
  holder # Nobody =>
    \/ route.kind = "transport" /\ holder = <<route.id, 0>>
    \/ \E m \in mounts : m.at # "declaring" /\ holder = <<m.route, m.generation>>

Sound(s, b, c) ==
  /\ OfLedger(s.route, b, c) /\ s.owners \subseteq Instances /\ s.mounts \subseteq MountRecord(b)
  /\ Standing(s.route, s.mounts) /\ Held(s.route, s.mounts, s.holder)

(* The packages registered, each with at most one slot, and each once in    *)
(* the order of composition.                                                *)
Listed ==
  /\ alive \subseteq Instances /\ owned \subseteq Instances /\ discovering \in BOOLEAN
  /\ slots = [p \in Packages |-> slots[p]]
  /\ \A p \in Packages : slots[p] = {} \/ \E r : slots[p] = {r}
  /\ order \in Seq(Packages)
  /\ \A j, k \in 1 .. Len(order) : order[j] = order[k] => j = k

(* The inductive invariant of RouteIsCanonical and NoGhostAdapter.          *)
LedgerInv == Listed /\ built \in 0 .. MaxRoutes /\ Sound(dsh, built, canonical)

(* The operators of the route, field by field.                              *)
LEMMA AllFields ==
  ASSUME NEW r, NEW o, NEW m, NEW h
  PROVE  /\ SideOf(r, o, m, h).route = r /\ SideOf(r, o, m, h).owners = o
         /\ SideOf(r, o, m, h).mounts = m /\ SideOf(r, o, m, h).holder = h
BY DEF SideOf

RouteTo(s, new)  == [s EXCEPT !.route = new]
OwnersTo(s, new) == [s EXCEPT !.owners = new]
MountsTo(s, new) == [s EXCEPT !.mounts = new]
HolderTo(s, new) == [s EXCEPT !.holder = new]

\* The same, for the operators that set one field.
LEMMA FieldsSet ==
  ASSUME NEW r, NEW o, NEW m, NEW h, NEW new
  PROVE  /\ RouteTo(SideOf(r, o, m, h), new) = SideOf(new, o, m, h)
         /\ OwnersTo(SideOf(r, o, m, h), new) = SideOf(r, new, m, h)
         /\ MountsTo(SideOf(r, o, m, h), new) = SideOf(r, o, new, h)
         /\ HolderTo(SideOf(r, o, m, h), new) = SideOf(r, o, m, new)
BY DEF SideOf, RouteTo, OwnersTo, MountsTo, HolderTo

Gone(r, m) == {x \in m : x.at = "mounted" /\ x.route = r.id}
Left(r, m, h) == IF \E x \in Gone(r, m) : h = <<x.route, x.generation>> THEN Nobody ELSE h

\* What unmounting the adapters of a route leaves of the side,
LEMMA WithoutMountedIs ==
  ASSUME NEW r, NEW o, NEW m, NEW h
  PROVE  WithoutMounted(SideOf(r, o, m, h)) = SideOf(r, o, m \ Gone(r, m), Left(r, m, h))
<1> DEFINE s == SideOf(r, o, m, h)
<1>1. s.route = r /\ s.mounts = m /\ s.holder = h
  BY AllFields
<1> HIDE DEF s
<1>2. /\ {x \in s.mounts : x.at = "mounted" /\ x.route = s.route.id} = Gone(r, m)
      /\ Left(r, m, h) = IF \E x \in Gone(r, m) : s.holder = <<x.route, x.generation>> THEN Nobody ELSE s.holder
  BY <1>1 DEF Gone, Left
<1>3. WithoutMounted(s) = HolderTo(MountsTo(s, m \ Gone(r, m)), Left(r, m, h))
  BY <1>1, <1>2, Zenon DEF WithoutMounted, HolderTo, MountsTo
<1> QED
  BY <1>3, FieldsSet DEF s

LeftRetired(r, m, h) == IF r.kind = "transport" THEN Nobody ELSE Left(r, m, h)

\* and what retiring the route leaves of it.
LEMMA RetiredIs ==
  ASSUME NEW r, NEW o, NEW m, NEW h
  PROVE  Retired(SideOf(r, o, m, h)) = SideOf(NoRoute, {}, m \ Gone(r, m), LeftRetired(r, m, h))
<1> DEFINE s == SideOf(r, o, m \ Gone(r, m), Left(r, m, h))
           left == IF r.kind = "transport" THEN Nobody ELSE Left(r, m, h)
<1>1. WithoutMounted(SideOf(r, o, m, h)) = s
  BY WithoutMountedIs
<1>2. SideOf(r, o, m, h).route = r /\ s.holder = Left(r, m, h)
  BY AllFields
<1>3. Retired(SideOf(r, o, m, h)) = HolderTo(OwnersTo(RouteTo(s, NoRoute), {}), left)
  BY <1>1, <1>2, Zenon DEF Retired, HolderTo, OwnersTo, RouteTo
<1> QED
  BY <1>3, FieldsSet DEF LeftRetired

(* Taking the route's mount down leaves no mount standing, and the name     *)
(* with a mount that is still under way, or with the transport.             *)
LEMMA TakenDown ==
  ASSUME NEW r, NEW m, NEW h, Standing(r, m), Held(r, m, h)
  PROVE  /\ \A x \in m \ Gone(r, m) : x.at # "mounted"
         /\ Held(r, m \ Gone(r, m), Left(r, m, h))
BY DEF Standing, Held, Gone, Left, Nobody

\* Unmounting keeps the side sound, and leaves no adapter mounted.
LEMMA WithoutMountedSound ==
  ASSUME NEW s, NEW b, NEW c, Side(s), Sound(s, b, c)
  PROVE  /\ Sound(WithoutMounted(s), b, c)
         /\ \A m \in WithoutMounted(s).mounts : m.at # "mounted"
<1>1. PICK r, o, m, h : s = SideOf(r, o, m, h)
  BY Zenon DEF Side
<1>2. OfLedger(r, b, c) /\ o \subseteq Instances /\ m \subseteq MountRecord(b) /\ Standing(r, m) /\ Held(r, m, h)
  BY <1>1, AllFields DEF Sound
<1>3. /\ \A x \in m \ Gone(r, m) : x.at # "mounted"
      /\ Held(r, m \ Gone(r, m), Left(r, m, h))
  BY <1>2, TakenDown
<1>4. Standing(r, m \ Gone(r, m))
  BY <1>3 DEF Standing
<1> DEFINE g == m \ Gone(r, m)
           left == Left(r, m, h)
<1>5. WithoutMounted(s) = SideOf(r, o, g, left) /\ g \subseteq MountRecord(b)
  BY <1>1, <1>2, WithoutMountedIs
<1> HIDE DEF g, left
<1>6. /\ WithoutMounted(s).route = r /\ WithoutMounted(s).owners = o
      /\ WithoutMounted(s).mounts = g /\ WithoutMounted(s).holder = left
  BY <1>5, AllFields
<1> QED
  BY <1>2, <1>3, <1>4, <1>5, <1>6 DEF Sound, g, left

\* The absent route agrees with any ledger.
LEMMA NoRouteOfLedger ==
  ASSUME NEW b \in Nat, NEW c
  PROVE  OfLedger(NoRoute, b, c)
BY DEF OfLedger, NoRoute

(* A retired route may be followed by one built on any composition.         *)
LEMMA RetiredSound ==
  ASSUME NEW s, NEW b \in Nat, NEW c, NEW d, Side(s), Sound(s, b, c)
  PROVE  Sound(Retired(s), b, d)
<1>1. PICK r, o, m, h : s = SideOf(r, o, m, h)
  BY Zenon DEF Side
<1>2. OfLedger(r, b, c) /\ o \subseteq Instances /\ m \subseteq MountRecord(b) /\ Standing(r, m) /\ Held(r, m, h)
  BY <1>1, AllFields DEF Sound
<1> DEFINE g == m \ Gone(r, m)
           left == LeftRetired(r, m, h)
<1>6. Retired(s) = SideOf(NoRoute, {}, g, left)
  BY <1>1, RetiredIs
<1>3. (\A x \in g : x.at # "mounted") /\ Held(r, g, Left(r, m, h))
  BY <1>2, TakenDown
<1>4. Standing(NoRoute, g)
  BY <1>3 DEF Standing
<1>5. Held(NoRoute, g, left)
  BY <1>3 DEF Held, LeftRetired
<1>7. g \subseteq MountRecord(b)
  BY <1>2
<1> HIDE DEF g, left
<1>8. /\ Retired(s).route = NoRoute /\ Retired(s).owners = {}
      /\ Retired(s).mounts = g /\ Retired(s).holder = left
  BY <1>6, AllFields
<1> QED
  BY <1>4, <1>5, <1>7, <1>8, NoRouteOfLedger DEF Sound

(* More routes built do not disturb what is there.                          *)
LEMMA MountRecordGrows ==
  ASSUME NEW b \in Nat
  PROVE  MountRecord(b) \subseteq MountRecord(b + 1)
BY DEF MountRecord

Latest(s) == IF s.route.id > built THEN s.route.id ELSE built

(* A route is built where there is none.                                    *)
LEMMA BuiltSound ==
  ASSUME NEW s, Side(s), built \in Nat, NEW c, Sound(s, built, c), s.route.id = 0, NEW i \in Instances
  PROVE  /\ Latest(Built(s, i, c)) \in Nat
         /\ Sound(Built(s, i, c), Latest(Built(s, i, c)), c)
<1>1. PICK r, o, m, h : s = SideOf(r, o, m, h)
  BY Zenon DEF Side
<1>2. /\ OfLedger(r, built, c) /\ o \subseteq Instances /\ m \subseteq MountRecord(built)
      /\ Standing(r, m) /\ Held(r, m, h) /\ r.id = 0
  BY <1>1, AllFields DEF Sound
<1>3. \A x \in m : x.at # "mounted" /\ x \in MountRecord(built + 1)
  BY <1>2, MountRecordGrows DEF Standing, MountRecord
<1> DEFINE route(kind) == [id |-> built + 1, kind |-> kind, shape |-> c, generation |-> 1]
<1>4. \/ Built(s, i, c) = s
      \/ h = Nobody /\ Built(s, i, c) = SideOf(route("transport"), {i}, m, <<built + 1, 0>>)
      \/ Built(s, i, c) = SideOf(route("catalog"), {i}, m \cup {Declaring(built + 1, 1)}, h)
  <2> DEFINE new(kind) == RouteTo(OwnersTo(s, {i}), route(kind))
  <2>1. \/ Built(s, i, c) = s
        \/ s.holder = Nobody /\ Built(s, i, c) = HolderTo(new("transport"), <<built + 1, 0>>)
        \/ Built(s, i, c) = MountsTo(new("catalog"), new("catalog").mounts \cup {Declaring(built + 1, 1)})
    BY Zenon DEF Built, RouteTo, OwnersTo, MountsTo, HolderTo
  <2>2. \A kind : new(kind) = SideOf(route(kind), {i}, m, h)
    BY <1>1, FieldsSet
  <2> HIDE DEF route, new
  <2>3. s.holder = h /\ new("catalog").mounts = m
    BY <1>1, <2>2, AllFields
  <2>4. HolderTo(new("transport"), <<built + 1, 0>>) = SideOf(route("transport"), {i}, m, <<built + 1, 0>>)
    <3>1. HolderTo(SideOf(route("transport"), {i}, m, h), <<built + 1, 0>>)
            = SideOf(route("transport"), {i}, m, <<built + 1, 0>>)
      BY FieldsSet, SMTT(30)
    <3> QED
      BY <2>2, <3>1
  <2>5. MountsTo(new("catalog"), m \cup {Declaring(built + 1, 1)})
          = SideOf(route("catalog"), {i}, m \cup {Declaring(built + 1, 1)}, h)
    BY <2>2, FieldsSet
  <2> QED
    BY <2>1, <2>3, <2>4, <2>5, Zenon
<1>5. \A kind \in {"transport", "catalog"} :
        OfLedger(route(kind), built + 1, c) /\ route(kind).id = built + 1 /\ route(kind).kind = kind
  BY DEF OfLedger
<1> HIDE DEF route
<1>6. CASE Built(s, i, c) = s
  BY <1>1, <1>2, <1>6, AllFields DEF Latest
<1>7. ASSUME NEW kind \in {"transport", "catalog"}, NEW mounts, NEW holder,
             Built(s, i, c) = SideOf(route(kind), {i}, mounts, holder),
             mounts \subseteq MountRecord(built + 1), Standing(route(kind), mounts),
             Held(route(kind), mounts, holder)
      PROVE  /\ Latest(Built(s, i, c)) \in Nat
             /\ Sound(Built(s, i, c), Latest(Built(s, i, c)), c)
  <2>1. /\ Built(s, i, c).route = route(kind) /\ Built(s, i, c).owners = {i}
        /\ Built(s, i, c).mounts = mounts /\ Built(s, i, c).holder = holder
    BY <1>7, AllFields
  <2>2. Latest(Built(s, i, c)) = built + 1
    BY <1>5, <2>1 DEF Latest
  <2> QED
    BY <1>5, <1>7, <2>1, <2>2, built + 1 \in Nat, Zenon DEF Sound
<1>8. CASE h = Nobody /\ Built(s, i, c) = SideOf(route("transport"), {i}, m, <<built + 1, 0>>)
  <2>1. Standing(route("transport"), m) /\ m \subseteq MountRecord(built + 1)
    BY <1>3 DEF Standing
  <2>2. Held(route("transport"), m, <<built + 1, 0>>)
    BY <1>5 DEF Held
  <2> QED
    BY <1>7, <1>8, <2>1, <2>2
<1>9. CASE Built(s, i, c) = SideOf(route("catalog"), {i}, m \cup {Declaring(built + 1, 1)}, h)
  <2> DEFINE mounts == m \cup {Declaring(built + 1, 1)}
  <2>1. Declaring(built + 1, 1) \in MountRecord(built + 1) /\ Declaring(built + 1, 1).at = "declaring"
    BY LedgerAssumption DEF Declaring, MountRecord
  <2>2. Standing(route("catalog"), mounts) /\ mounts \subseteq MountRecord(built + 1)
    BY <1>3, <2>1 DEF Standing
  <2>3. Held(route("catalog"), mounts, h)
    BY <1>2 DEF Held, OfLedger
  <2> QED
    BY <1>7, <1>9, <2>2, <2>3
<1> QED
  BY <1>4, <1>6, <1>8, <1>9

(* Only the owners change.                                                  *)
LEMMA OwnersSound ==
  ASSUME NEW s, NEW b, NEW c, Side(s), Sound(s, b, c), NEW those \in SUBSET Instances
  PROVE  Sound([s EXCEPT !.owners = those], b, c)
<1>1. PICK r, o, m, h : s = SideOf(r, o, m, h)
  BY Zenon DEF Side
<1>2. [s EXCEPT !.owners = those] = SideOf(r, those, m, h)
  BY <1>1, Fields
<1> QED
  BY <1>1, <1>2, AllFields DEF Sound

\* Releasing an owner keeps the side sound.
LEMMA ReleasedSound ==
  ASSUME NEW s, NEW i, NEW b \in Nat, NEW c, Side(s), Sound(s, b, c)
  PROVE  Sound(Released(s, i), b, c) /\ Side(Released(s, i))
<1>1. s.owners \ {i} \in SUBSET Instances
  BY DEF Sound
<1>2. Side([s EXCEPT !.owners = s.owners \ {i}])
  BY Changed
<1> QED
  BY <1>1, <1>2, OwnersSound, RetiredSound, RetiredSide DEF Released

(* What an instance publishes on a sound side is sound.                     *)
LEMMA PublishSound ==
  ASSUME NEW s, NEW i \in Instances, NEW c, built \in Nat, Side(s), Sound(s, built, c),
         Publish(s, i, c), canonical' = c, owned \subseteq Instances
  PROVE  built' \in 0 .. MaxRoutes /\ Sound(dsh', built', canonical') /\ owned' \subseteq Instances
<1>1. /\ owned' \subseteq Instances
      /\ built' <= MaxRoutes
  BY Zenon DEF Publish
<1>2. CASE s.route.id # 0
  <2>1. dsh' = [s EXCEPT !.owners = s.owners \cup {i}] /\ s.owners \cup {i} \in SUBSET Instances
    BY <1>2 DEF Publish, Sound
  <2>2. dsh'.route = s.route
    BY <2>1, Changed
  <2>3. built' = built
    <3>1. s.route.id \in 0 .. built
      BY DEF Sound, OfLedger
    <3> DEFINE new == [s EXCEPT !.owners = s.owners \cup {i}]
    <3>2. built' = IF new.route.id > built THEN new.route.id ELSE built
      BY <1>2 DEF Publish
    <3>3. new = dsh'
      BY <2>1
    <3> HIDE DEF new
    <3> QED
      BY <2>2, <3>1, <3>2, <3>3
  <2> QED
    BY <1>1, <2>1, <2>3, OwnersSound
<1>3. CASE s.route.id = 0
  <2>1. dsh' = Built(s, i, c) /\ built' = Latest(Built(s, i, c))
    BY <1>3, Zenon DEF Publish, Latest
  <2> QED
    BY <1>1, <1>3, <2>1, BuiltSound
<1> QED
  BY <1>2, <1>3

\* Composing anew makes the side agree with the new composition.
LEMMA RecomposeSound ==
  ASSUME NEW s, NEW i \in Instances, built \in 0 .. MaxRoutes, Side(s), Sound(s, built, canonical),
         Recompose(i, s), owned \subseteq Instances
  PROVE  built' \in 0 .. MaxRoutes /\ Sound(dsh', built', canonical') /\ owned' \subseteq Instances
<1>1. built \in Nat /\ owned' \subseteq Instances
  <2>1. owned' \subseteq owned \cup {i}
    BY DEF Recompose
  <2> QED
    BY <2>1, LedgerAssumption
<1>2. CASE canonical' = canonical
  BY <1>1, <1>2 DEF Recompose
<1>3. CASE canonical' # canonical /\ canonical'.known
  <2> DEFINE r == Retired(s)
  <2>1. Side(r) /\ r.route.id = 0 /\ Sound(r, built, canonical')
    BY <1>1, RetiredSide, RetiredSound
  <2>2. dsh' = Built(r, i, canonical') /\ built' = Latest(Built(r, i, canonical')) /\ built' <= MaxRoutes
    BY <1>3, Zenon DEF Recompose, Latest
  <2> HIDE DEF r
  <2> QED
    BY <1>1, <2>1, <2>2, BuiltSound
<1>4. CASE canonical' # canonical /\ ~canonical'.known
  <2>1. dsh' = Retired(s) /\ built' = built
    BY <1>4 DEF Recompose
  <2> QED
    BY <1>1, <2>1, RetiredSound
<1> QED
  BY <1>2, <1>3, <1>4

(* The slots and the order keep their shape.                                *)
LEMMA ListedRegister ==
  ASSUME Listed, NEW i \in Instances, NEW r \in Registrations, Register(i, r), owned' \subseteq Instances
  PROVE  Listed'
<1> DEFINE p == PackageOf[i]
<1>1. p \in Packages /\ slots' = [slots EXCEPT ![p] = Merged(@, r)] /\ order' = Ordered(p)
  BY DEF Register, Packages
<1>2. alive' \subseteq Instances /\ discovering' \in BOOLEAN
  BY DEF Register, Listed
<1>3. \E x : Merged(slots[p], r) = {x}
  BY DEF Merged
<1> HIDE DEF p
<1>4. /\ slots' = [q \in Packages |-> slots'[q]]
      /\ \A q \in Packages : slots'[q] = {} \/ \E x : slots'[q] = {x}
  <2> DEFINE new == Merged(slots[p], r)
  <2>1. slots = [q \in Packages |-> slots[q]] /\ slots' = [slots EXCEPT ![p] = new]
    BY <1>1 DEF Listed
  <2> HIDE DEF new
  <2>2. /\ slots' = [q \in Packages |-> slots'[q]] /\ slots'[p] = new
        /\ \A q \in Packages : q # p => slots'[q] = slots[q]
    BY <1>1, <2>1
  <2> QED
    BY <1>3, <2>2 DEF new, Listed
<1>5. /\ order' \in Seq(Packages)
      /\ \A j, k \in 1 .. Len(order') : order'[j] = order'[k] => j = k
  <2>1. CASE Contains(order, p)
    BY <1>1, <2>1 DEF Ordered, Listed
  <2>2. CASE ~Contains(order, p)
    <3>1. order' = Append(order, p) /\ order \in Seq(Packages)
      BY <1>1, <2>2 DEF Ordered, Listed
    <3>2. \A k \in 1 .. Len(order) : order[k] # p
      BY <2>2 DEF Contains
    <3>3. /\ order' \in Seq(Packages) /\ Len(order') = Len(order) + 1 /\ order'[Len(order) + 1] = p
          /\ \A k \in 1 .. Len(order) : order'[k] = order[k]
      BY <1>1, <3>1
    <3> QED
      BY <3>1, <3>2, <3>3 DEF Listed
  <2> QED
    BY <2>1, <2>2
<1> QED
  BY <1>2, <1>4, <1>5 DEF Listed

\* An instance that unregisters is in no list afterwards.
LEMMA ListedUnregister ==
  ASSUME Listed, NEW i \in Instances, Unregister(i), owned' \subseteq Instances
  PROVE  Listed'
<1>1. PackageOf[i] \in Packages /\ slots' = [slots EXCEPT ![PackageOf[i]] = {}]
  BY DEF Unregister, Packages
<1>2. UNCHANGED <<alive, order, discovering>>
  BY DEF Unregister
<1>3. /\ slots' = [q \in Packages |-> slots'[q]]
      /\ \A q \in Packages : slots'[q] = {} \/ \E x : slots'[q] = {x}
  BY <1>1 DEF Listed
<1> QED
  BY <1>2, <1>3 DEF Listed

(* The initial state satisfies the invariant.                               *)
LEMMA InitLedger == Init => LedgerInv
<1> SUFFICES ASSUME Init PROVE LedgerInv
  OBVIOUS
<1>1. dsh = SideOf(NoRoute, {}, {}, Nobody) /\ built = 0 /\ owned = {} /\ alive = Instances
      /\ discovering = FALSE /\ slots = [p \in Packages |-> {}] /\ order = <<>>
  BY DEF Init, SideOf
<1>2. Sound(dsh, built, canonical)
  BY <1>1, AllFields, NoRouteOfLedger DEF Sound, Standing, Held
<1>3. Listed
  <2>1. /\ slots = [p \in Packages |-> slots[p]]
        /\ \A p \in Packages : slots[p] = {}
    BY <1>1
  <2>2. order \in Seq(Packages) /\ Len(order) = 0
    BY <1>1
  <2>3. alive \subseteq Instances /\ owned \subseteq Instances /\ discovering \in BOOLEAN
    BY <1>1
  <2>4. \A j, k \in 1 .. Len(order) : order[j] = order[k] => j = k
    BY <2>2
  <2> QED
    BY <2>1, <2>2, <2>3, <2>4, Zenon DEF Listed
<1> QED
  BY <1>1, <1>2, <1>3, LedgerAssumption DEF LedgerInv

(* The mounts of DSH's own adapter: only the latest one is left standing.   *)
LEMMA MountStepSound ==
  ASSUME Side(dsh), NEW c, built \in Nat, Sound(dsh, built, c), NEW x \in dsh.mounts, Declare(x) \/ Mounted(x)
  PROVE  Sound(dsh', built, c)
<1>1. PICK r, o, m, h : dsh = SideOf(r, o, m, h)
  BY Zenon DEF Side
<1>2. /\ dsh.route = r /\ dsh.mounts = m /\ dsh.holder = h
      /\ OfLedger(r, built, c) /\ o \subseteq Instances /\ m \subseteq MountRecord(built)
      /\ Standing(r, m) /\ Held(r, m, h) /\ x \in m
  BY <1>1, AllFields DEF Sound
<1> DEFINE to(at) == (m \ {x}) \cup {[x EXCEPT !.at = at]}
<1>3. \/ x.at = "declaring" /\ dsh' = MountsTo(dsh, m \ {x})
      \/ /\ x.at = "declaring"
         /\ dsh' = HolderTo(MountsTo(dsh, to("mounting")), <<x.route, x.generation>>)
      \/ x.at = "mounting" /\ dsh' = HolderTo(MountsTo(dsh, m \ {x}), Nobody)
      \/ x.at = "mounting" /\ ~Stale(x) /\ dsh' = MountsTo(dsh, to("mounted"))
  BY <1>2, Zenon DEF Declare, Mounted, MountsTo, HolderTo
<1>4. \A at \in {"mounting", "mounted"} :
        LET y == [x EXCEPT !.at = at]
        IN y \in MountRecord(built) /\ y.at = at /\ y.route = x.route /\ y.generation = x.generation
  BY <1>2 DEF MountRecord
<1>5. ASSUME NEW mounts \in SUBSET MountRecord(built), NEW holder,
             Standing(r, mounts), Held(r, mounts, holder), dsh' = SideOf(r, o, mounts, holder)
      PROVE  Sound(dsh', built, c)
  BY <1>2, <1>5, AllFields DEF Sound
<1>6. CASE x.at = "declaring" /\ dsh' = MountsTo(dsh, m \ {x})
  <2>1. dsh' = SideOf(r, o, m \ {x}, h)
    BY <1>1, <1>6, FieldsSet
  <2>2. m \ {x} \in SUBSET MountRecord(built) /\ Standing(r, m \ {x})
    BY <1>2 DEF Standing
  <2>3. Held(r, m \ {x}, h)
    BY <1>2, <1>6 DEF Held
  <2> QED
    BY <1>5, <2>1, <2>2, <2>3
<1>7. CASE x.at = "declaring" /\ dsh' = HolderTo(MountsTo(dsh, to("mounting")), <<x.route, x.generation>>)
  <2> DEFINE y == [x EXCEPT !.at = "mounting"]
             mounts == to("mounting")
  <2>1. dsh' = SideOf(r, o, mounts, <<x.route, x.generation>>)
    BY <1>1, <1>7, FieldsSet
  <2>2. y \in MountRecord(built) /\ y.at = "mounting" /\ y.route = x.route /\ y.generation = x.generation
    BY <1>4
  <2> HIDE DEF y
  <2>3. mounts \in SUBSET MountRecord(built) /\ Standing(r, mounts)
    BY <1>2, <2>2 DEF Standing, y
  <2>4. Held(r, mounts, <<x.route, x.generation>>)
    BY <2>2 DEF Held, y
  <2> QED
    BY <1>5, <2>1, <2>3, <2>4
<1>8. CASE x.at = "mounting" /\ dsh' = HolderTo(MountsTo(dsh, m \ {x}), Nobody)
  <2>1. dsh' = SideOf(r, o, m \ {x}, Nobody)
    BY <1>1, <1>8, FieldsSet
  <2>2. m \ {x} \in SUBSET MountRecord(built) /\ Standing(r, m \ {x}) /\ Held(r, m \ {x}, Nobody)
    BY <1>2 DEF Standing, Held
  <2> QED
    BY <1>5, <2>1, <2>2
<1>9. CASE x.at = "mounting" /\ ~Stale(x) /\ dsh' = MountsTo(dsh, to("mounted"))
  <2> DEFINE y == [x EXCEPT !.at = "mounted"]
             mounts == to("mounted")
  <2>1. dsh' = SideOf(r, o, mounts, h)
    BY <1>1, <1>9, FieldsSet
  <2>2. y \in MountRecord(built) /\ y.at = "mounted" /\ y.route = x.route /\ y.generation = x.generation
    BY <1>4
  <2>3. x.route = r.id /\ x.generation = r.generation
    BY <1>2, <1>9 DEF Stale
  <2> HIDE DEF y
  <2>4. mounts \in SUBSET MountRecord(built) /\ Standing(r, mounts)
    BY <1>2, <2>2, <2>3 DEF Standing, y
  <2>5. Held(r, mounts, h)
    BY <1>2, <2>2 DEF Held, y
  <2> QED
    BY <1>5, <2>1, <2>4, <2>5
<1> QED
  BY <1>3, <1>6, <1>7, <1>8, <1>9

(* A route announced again: the mount that stood is taken down first.       *)
LEMMA DiscoveredSound ==
  ASSUME Side(dsh), NEW c, built \in Nat, Sound(dsh, built, c), Discovered
  PROVE  Sound(dsh', built, c)
<1>1. CASE UNCHANGED dsh
  BY <1>1
<1> DEFINE next == dsh.route.generation + 1
           s == WithoutMounted(dsh)
<1>2. CASE /\ dsh.route.kind = "catalog" /\ next <= MaxGenerations
           /\ dsh' = [s EXCEPT !.route.generation = next,
                               !.mounts = @ \cup {Declaring(dsh.route.id, next)}]
  <2>1. Side(s) /\ s.route = dsh.route /\ Sound(s, built, c) /\ \A m \in s.mounts : m.at # "mounted"
    BY RetiredSide, WithoutMountedSound
  <2>2. PICK r, o, m, h : IsRoute(r) /\ s = SideOf(r, o, m, h)
    BY <2>1, Zenon DEF Side
  <2>3. PICK id, kind, shape, generation : r = Route(id, kind, shape, generation)
    BY <2>2, Zenon DEF IsRoute
  <2> HIDE DEF s
  <2>4. /\ s.route = r /\ r.id = id /\ r.kind = kind /\ r.shape = shape /\ r.generation = generation
        /\ s.mounts = m /\ s.holder = h
    BY <2>2, <2>3, AllFields DEF Route
  <2>5. /\ OfLedger(r, built, c) /\ o \subseteq Instances /\ m \subseteq MountRecord(built)
        /\ Held(r, m, h) /\ kind = "catalog"
    BY <1>2, <2>1, <2>2, <2>4, AllFields DEF Sound
  <2> DEFINE new == Declaring(id, next)
             route == Route(id, kind, shape, next)
             mounts == m \cup {new}
  <2>6. next \in 1 .. MaxGenerations /\ id \in 1 .. built
    BY <1>2, <2>1, <2>4, <2>5, LedgerAssumption DEF OfLedger
  <2>7. new \in MountRecord(built) /\ new.at = "declaring"
    BY <2>6 DEF MountRecord, Declaring
  <2>8. OfLedger(route, built, c) /\ route.kind = "catalog"
    BY <2>4, <2>5, <2>6 DEF OfLedger, Route
  <2>9. dsh' = SideOf(route, o, mounts, h)
    <3>1. dsh.route.id = id
      BY <2>1, <2>4
    <3> HIDE DEF next, new
    <3>2. dsh' = MountsTo([s EXCEPT !.route.generation = next], s.mounts \cup {new})
      <4>1. s.mounts = [s EXCEPT !.route.generation = next].mounts
        BY <2>2, AllFields DEF SideOf
      <4> QED
        BY <1>2, <3>1, <4>1, Zenon DEF MountsTo, new
    <3>3. [s EXCEPT !.route.generation = next] = SideOf(route, o, m, h)
      BY <2>2, <2>3 DEF SideOf, Route
    <3> QED
      BY <2>4, <3>2, <3>3, FieldsSet
  <2> HIDE DEF new, route
  <2>10. Standing(route, mounts) /\ mounts \subseteq MountRecord(built)
    BY <2>1, <2>4, <2>5, <2>7 DEF Standing
  <2>11. Held(route, mounts, h)
    BY <2>5, <2>4 DEF Held
  <2> QED
    BY <2>5, <2>8, <2>9, <2>10, <2>11, AllFields DEF Sound
<1> QED
  BY <1>1, <1>2 DEF Discovered

\* Every step keeps the invariant.
LEMMA StepLedger == OwnersInv /\ LedgerInv /\ [Next]_vars => LedgerInv'
<1> SUFFICES ASSUME OwnersInv, LedgerInv, [Next]_vars PROVE LedgerInv'
  OBVIOUS
<1>1. /\ Side(dsh) /\ built \in Nat /\ built \in 0 .. MaxRoutes /\ Listed
      /\ Sound(dsh, built, canonical) /\ owned \subseteq Instances
  BY DEF OwnersInv, OwnedBy, LedgerInv, Listed
<1>2. ASSUME NEW i \in Instances, NEW r \in Registrations, Register(i, r) PROVE LedgerInv'
  <2> DEFINE s == IF canonical' = canonical THEN dsh ELSE Retired(dsh)
  <2>1. Side(s) /\ Sound(s, built, canonical')
    BY <1>1, RetiredSide, RetiredSound
  <2>2. Publish(s, i, canonical')
    BY <1>2, Zenon DEF Register
  <2> HIDE DEF s
  <2>3. built' \in 0 .. MaxRoutes /\ Sound(dsh', built', canonical') /\ owned' \subseteq Instances
    BY <1>1, <2>1, <2>2, PublishSound
  <2> QED
    BY <1>1, <1>2, <2>3, ListedRegister DEF LedgerInv
<1>3. ASSUME NEW i \in Instances, Unregister(i) PROVE LedgerInv'
  <2>1. Side(Released(dsh, i)) /\ Sound(Released(dsh, i), built, canonical)
    BY <1>1, ReleasedSound
  <2>2. built' \in 0 .. MaxRoutes /\ Sound(dsh', built', canonical') /\ owned' \subseteq Instances
    BY <1>1, <1>3, <2>1, RecomposeSound DEF Unregister
  <2> QED
    BY <1>1, <1>3, <2>2, ListedUnregister DEF LedgerInv
<1>4. ASSUME Sound(dsh', built, canonical), UNCHANGED <<slots, order, canonical, built>>,
             alive' \subseteq alive, owned' \subseteq owned, discovering' \in BOOLEAN
      PROVE  LedgerInv'
  BY <1>1, <1>4 DEF LedgerInv, Listed
<1>5. ASSUME NEW i \in Instances, Unload(i) PROVE LedgerInv'
  BY <1>1, <1>4, <1>5, ReleasedSound DEF Unload, Listed
<1>6. CASE SignOut
  BY <1>1, <1>4, <1>6, RetiredSound DEF SignOut, Listed
<1>7. CASE Discovered
  BY <1>1, <1>4, <1>7, DiscoveredSound DEF Discovered
<1>8. ASSUME NEW m \in dsh.mounts, Declare(m) \/ Mounted(m) PROVE LedgerInv'
  BY <1>1, <1>4, <1>8, MountStepSound DEF Declare, Mounted, Listed
<1>9. CASE UNCHANGED vars
  BY <1>1, <1>4, <1>9 DEF vars, Listed
<1> QED
  BY <1>2, <1>3, <1>5, <1>6, <1>7, <1>8, <1>9 DEF Next, Ledger, Mounts

(* The packages are finitely many, and the order lists each at most once.   *)
LEMMA OrderBounded ==
  ASSUME Listed
  PROVE  {order[k] : k \in 1 .. Len(order)} \subseteq Packages /\ Len(order) <= Cardinality(Packages)
<1>1. order \in Seq(Packages) /\ Len(order) \in Nat /\ order \in [1 .. Len(order) -> Packages]
  BY DEF Listed
<1>2. IsFiniteSet(Packages)
  <2> DEFINE f == [i \in Instances |-> PackageOf[i]]
  <2>1. f \in Surjection(Instances, Packages)
    BY DEF Surjection, Packages
  <2> QED
    BY <2>1, FS_Surjection, LedgerAssumption
<1>3. order \in Injection(1 .. Len(order), Packages)
  BY <1>1 DEF Injection, IsInjective, Listed
<1>4. Cardinality(1 .. Len(order)) = Len(order)
  BY <1>1, FS_Interval
<1>5. Len(order) <= Cardinality(Packages)
  BY <1>2, <1>3, <1>4, FS_Injection
<1> QED
  BY <1>1, <1>5

\* The invariant gives the types.
LEMMA LedgerTyped == LedgerInv => TypeOK
<1> SUFFICES ASSUME LedgerInv PROVE TypeOK
  OBVIOUS
<1>1. \A p \in Packages : Cardinality(slots[p]) <= 1
  <2> SUFFICES ASSUME NEW p \in Packages PROVE Cardinality(slots[p]) <= 1
    OBVIOUS
  <2>1. slots[p] = {} \/ \E r : slots[p] = {r}
    BY DEF LedgerInv, Listed
  <2>2. Cardinality(slots[p]) \in {0, 1}
    BY <2>1, FS_EmptySet, FS_Singleton
  <2> QED
    BY <2>2
<1>2. /\ dsh.owners \subseteq Instances /\ dsh.route.kind \in {"none", "transport", "catalog"}
      /\ \A m \in dsh.mounts : m.route \in 1 .. built /\ m.generation \in 1 .. MaxGenerations
  BY DEF LedgerInv, Sound, OfLedger, MountRecord
<1> QED
  BY <1>1, <1>2, OrderBounded DEF LedgerInv, Listed, TypeOK

(* A route never serves an old composition, whoever registers, withdraws or *)
(* is unloaded in between (runtime.ts 3270-3276, 5062-5069), for any number *)
(* of packages and instances.                                               *)
THEOREM RouteServesLedger == Spec => []RouteIsCanonical
<1>1. LedgerInv => RouteIsCanonical
  BY LedgerTyped DEF RouteIsCanonical, LedgerInv, Sound, OfLedger
<1> QED
  BY <1>1, InitOwners, StepOwners, InitLedger, StepLedger, PTL DEF Spec

(* Whatever is over meanwhile, only the route's latest mount is left        *)
(* standing, and the provider's name is never held by a ghost               *)
(* (provider-adapter.ts 686-692).                                           *)
THEOREM GhostsAreGone == Spec => []NoGhostAdapter
<1>1. LedgerInv => NoGhostAdapter
  BY DEF NoGhostAdapter, LedgerInv, Sound, Standing, Held
<1> QED
  BY <1>1, InitOwners, StepOwners, InitLedger, StepLedger, PTL DEF Spec
=============================================================================
