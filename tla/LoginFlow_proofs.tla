-------------------------- MODULE LoginFlow_proofs --------------------------
(***************************************************************************)
(* Proved of LoginFlow, for any number of logins and of links, and however *)
(* many links are kept: the links served are those of logins in flight,    *)
(* no question outlives its login, and what the card says is so.           *)
(* Proved of StoredLogins, in the second part, for any number of providers *)
(* and jobs: a refresh token serves once, memory follows what the user did *)
(* last, the file as well with one provider, and a key that was waited for *)
(* is alive.                                                               *)
(* Proved of BrowserSurfaces, at the end: what the page shows is there and *)
(* the last, and the composer takes each request once, in order.           *)
(***************************************************************************)
EXTENDS LoginFlow, StoredLogins, BrowserSurfaces, FiniteSetTheorems, WellFoundedInduction, TLAPS

Positions == {"none", "waiting", "flow", "storing", "routing", "over"}

LoginRecord ==
  [at : Positions, door : Doors, after : 0 .. MaxLogins, waits : BOOLEAN, external : BOOLEAN,
   done : BOOLEAN, open : BOOLEAN, stored : BOOLEAN]

(* What the steps keep of the types. *)
Shape ==
  /\ login \in [Logins -> LoginRecord]
  /\ active \in {0} \cup Logins
  /\ published = [l \in Logins |-> published[l]]

LiveInv == Shape /\ LinksAreLive /\ NoQuestionOutlivesLogin

(* A login has let go of the callback port unless its flow goes on; its     *)
(* question may be open only if it is in flight and not called off.         *)
Flying(r) == r.at \in {"flow", "storing"}
Sound(r) == r.open => Flying(r) /\ ~r.done

-----------------------------------------------------------------------------
(* What the operators on a login keep.                                     *)

\* A login that is called off or has ended is a well-formed record without an open question.
LEMMA RecordShapes ==
  ASSUME NEW r \in LoginRecord, NEW at \in Positions
  PROVE  /\ CalledOff(r) \in LoginRecord /\ CalledOff(r).at = r.at /\ Sound(CalledOff(r))
         /\ Ended(r, at) \in LoginRecord /\ Ended(r, at).at = at /\ Sound(Ended(r, at))
<1>1. CalledOff(r) \in LoginRecord /\ CalledOff(r).at = r.at /\ CalledOff(r).open = FALSE
  BY DEF CalledOff, LoginRecord
<1>2. Ended(r, at) \in LoginRecord /\ Ended(r, at).at = at /\ Ended(r, at).open = FALSE
  BY <1>1 DEF Ended, LoginRecord
<1> QED
  BY <1>1, <1>2 DEF Sound

\* So is one whose flow has just begun.
LEMMA StartedShape ==
  ASSUME NEW r \in LoginRecord, ~r.open
  PROVE  Started(r) \in LoginRecord /\ Started(r).at = "flow" /\ Sound(Started(r))
<1>1. Started(r) \in LoginRecord /\ Started(r).at = "flow" /\ Started(r).open = FALSE
  <2>1. r.open = FALSE
    BY DEF LoginRecord
  <2>2. ASSUME NEW first \in 0 .. MaxLogins, NEW aborted \in BOOLEAN
        PROVE  LET next == [r EXCEPT !.at = "flow", !.after = first, !.done = aborted]
               IN next \in LoginRecord /\ next.at = "flow" /\ next.open = FALSE
    BY <2>1 DEF LoginRecord, Positions
  <2>3. r.external \in BOOLEAN /\ 0 \in 0 .. MaxLogins
    BY LoginAssumption DEF LoginAssumption, LoginRecord
  <2> QED
    BY <2>2, <2>3, Zenon DEF Started
<1> QED
  BY <1>1 DEF Sound

\* The properties, said of the records.
LEMMA Meaning ==
  ASSUME Shape
  PROVE  /\ InFlight = {l \in Logins : Flying(login[l])}
         /\ LinksAreLive <=> \A k \in links : \E l \in Logins : Flying(login[l]) /\ k \in published[l]
         /\ NoQuestionOutlivesLogin <=> \A l \in Logins : Sound(login[l])
<1>1. InFlight = {l \in Logins : Flying(login[l])}
  BY DEF InFlight, Flying
<1>2. LinksAreLive <=> \A k \in links : \E l \in Logins : Flying(login[l]) /\ k \in published[l]
  BY <1>1 DEF LinksAreLive
<1>3. NoQuestionOutlivesLogin <=> \A l \in Logins : Sound(login[l])
  BY <1>1 DEF NoQuestionOutlivesLogin, Sound
<1> QED
  BY <1>1, <1>2, <1>3

(* The steps that change one login and no link.  It stays in flight.       *)
LEMMA OneChanges ==
  ASSUME LiveInv, NEW l \in Logins, NEW r \in LoginRecord,
         login' = [login EXCEPT ![l] = r], Sound(r), Flying(login[l]) => Flying(r),
         active' \in {0} \cup Logins, published' = published, links' \subseteq links
  PROVE  LiveInv'
<1>1. Shape'
  BY DEF LiveInv, Shape
<1>2. \A m \in Logins : login'[m] = IF m = l THEN r ELSE login[m]
  BY DEF LiveInv, Shape
<1>3. \A m \in Logins : Sound(login'[m])
  BY <1>2, Meaning DEF LiveInv
<1>4. \A m \in Logins : Flying(login[m]) => Flying(login'[m])
  BY <1>2
<1>5. \A k \in links' : \E m \in Logins : Flying(login'[m]) /\ k \in published'[m]
  BY <1>4, Meaning DEF LiveInv
<1>6. LinksAreLive' /\ NoQuestionOutlivesLogin'
  BY <1>1, <1>3, <1>5 DEF LinksAreLive, NoQuestionOutlivesLogin, InFlight, Flying, Sound
<1> QED
  BY <1>1, <1>6 DEF LiveInv

(* The steps that let go of the callback port, and with it of the links.   *)
LEMMA LetsGo ==
  ASSUME LiveInv, NEW l \in Logins, NEW r \in LoginRecord,
         login' = [login EXCEPT ![l] = r], Sound(r), Release(l), published' = published
  PROVE  LiveInv'
<1>1. Shape'
  BY DEF LiveInv, Shape, Release, Unserve
<1>2. \A m \in Logins : login'[m] = IF m = l THEN r ELSE login[m]
  BY DEF LiveInv, Shape
<1>3. \A m \in Logins : Sound(login'[m])
  BY <1>2, Meaning DEF LiveInv
<1>4. links' = links \ published[l]
  BY DEF Release, Unserve
<1>5. \A k \in links' : \E m \in Logins : Flying(login'[m]) /\ k \in published'[m]
  BY <1>2, <1>4, Meaning DEF LiveInv
<1>6. LinksAreLive' /\ NoQuestionOutlivesLogin'
  BY <1>1, <1>3, <1>5 DEF LinksAreLive, NoQuestionOutlivesLogin, InFlight, Flying, Sound
<1> QED
  BY <1>1, <1>6 DEF LiveInv

\* At first no login runs and nothing is published.
LEMMA InitLive == Init => LiveInv
<1> SUFFICES ASSUME Init PROVE LiveInv
  OBVIOUS
<1>1. Shape
  BY LoginAssumption DEF LoginAssumption, Init, Shape, LoginRecord, Positions, Doors
<1>2. \A l \in Logins : ~login[l].open
  BY DEF Init
<1>3. NoQuestionOutlivesLogin /\ LinksAreLive
  BY <1>2 DEF Init, NoQuestionOutlivesLogin, LinksAreLive
<1> QED
  BY <1>1, <1>3 DEF LiveInv

-----------------------------------------------------------------------------
(* A login begins while none is in flight, or takes over.                  *)

\* A login that begins takes over: the one before it is called off.
LEMMA BeginLive ==
  ASSUME LiveInv, NEW l \in Logins, NEW door \in Doors, NEW waits \in BOOLEAN, Begin(l, door, waits)
  PROVE  LiveInv'
<1> DEFINE fresh == [login[l] EXCEPT !.door = door, !.waits = waits]
           waiting == [fresh EXCEPT !.at = "waiting", !.after = active]
<1>1. login[l] \in LoginRecord /\ login[l].at = "none" /\ ~login[l].open
  BY Meaning DEF LiveInv, Shape, Begin, Begun, Sound, Flying
<1>2. fresh \in LoginRecord /\ ~fresh.open
  BY <1>1 DEF LoginRecord
<1>3. CASE active = 0
  <2>1. login' = [login EXCEPT ![l] = Started(fresh)] /\ active' = l /\ links' = links
    BY <1>3, Zenon DEF Begin
  <2> HIDE DEF fresh
  <2>2. published' = published
    BY DEF Begin
  <2>3. Started(fresh) \in LoginRecord /\ Started(fresh).at = "flow" /\ Sound(Started(fresh))
    BY <1>2, StartedShape
  <2> QED
    BY <1>1, <2>1, <2>2, <2>3, OneChanges DEF Flying
<1>4. CASE active # 0
  <2>1. active \in Logins
    BY <1>4 DEF LiveInv, Shape
  <2> DEFINE first == [login EXCEPT ![l] = waiting]
  <2>2. /\ login' = [first EXCEPT ![active] = CalledOff(@)] /\ active' = 0
        /\ links' = links \ published[active] /\ published' = published
    BY <1>4, Zenon DEF Begin, Supersede, Unserve
  <2>3. waiting \in LoginRecord /\ waiting.at = "waiting" /\ Sound(waiting)
    <3> HIDE DEF fresh
    <3>1. active \in 0 .. MaxLogins
      BY <2>1 DEF Logins
    <3>2. waiting \in LoginRecord /\ waiting.at = "waiting" /\ waiting.open = fresh.open
      BY <1>2, <3>1 DEF LoginRecord, Positions
    <3> QED
      BY <1>2, <3>2 DEF Sound
  <2> HIDE DEF waiting
  <2>4. first \in [Logins -> LoginRecord]
    BY <2>3 DEF LiveInv, Shape
  <2>5. \A m \in Logins : Sound(first[m]) /\ (Flying(login[m]) => Flying(first[m]))
    BY <1>1, <2>3, Meaning DEF LiveInv, Shape, Flying
  <2> HIDE DEF first
  <2>6. Shape'
    BY <2>1, <2>2, <2>4, RecordShapes DEF LiveInv, Shape, Positions
  <2>7. \A m \in Logins : Sound(login'[m]) /\ (Flying(login[m]) => Flying(login'[m]))
    <3>1. ASSUME NEW m \in Logins PROVE login'[m] = IF m = active THEN CalledOff(first[m]) ELSE first[m]
      BY <2>1, <2>2, <2>4
    <3>2. CalledOff(first[active]).at = first[active].at /\ Sound(CalledOff(first[active]))
      BY <2>1, <2>4, RecordShapes DEF Positions
    <3> QED
      BY <2>1, <2>5, <3>1, <3>2 DEF Flying
  <2>8. \A k \in links' : \E m \in Logins : Flying(login'[m]) /\ k \in published'[m]
    BY <2>2, <2>7, Meaning DEF LiveInv
  <2>9. LinksAreLive' /\ NoQuestionOutlivesLogin'
    BY <2>6, <2>7, <2>8 DEF LinksAreLive, NoQuestionOutlivesLogin, InFlight, Flying, Sound
  <2> QED
    BY <2>6, <2>9 DEF LiveInv
<1> QED
  BY <1>3, <1>4

(* The login in flight is called off, as a cancel of the card does it.     *)
LEMMA CancelLive ==
  ASSUME LiveInv, Cancel
  PROVE  LiveInv'
<1>1. CASE active = 0
  BY <1>1 DEF Cancel, LiveInv, Shape, LinksAreLive, NoQuestionOutlivesLogin, InFlight
<1>2. CASE active # 0
  <2>1. active \in Logins
    BY <1>2 DEF LiveInv, Shape
  <2>2. /\ login' = [login EXCEPT ![active] = CalledOff(login[active])] /\ active' = 0
        /\ links' = links \ published[active] /\ published' = published
    BY <1>2 DEF Cancel, Supersede, Unserve
  <2>3. /\ CalledOff(login[active]) \in LoginRecord /\ Sound(CalledOff(login[active]))
        /\ CalledOff(login[active]).at = login[active].at
    BY <2>1, RecordShapes DEF LiveInv, Shape, Positions
  <2> QED
    BY <2>1, <2>2, <2>3, OneChanges DEF Flying
<1> QED
  BY <1>1, <1>2

(* A new address adds a link of a login in flight, and may cost an old one.*)
LEMMA AnnounceLive ==
  ASSUME LiveInv, NEW l \in Logins, Announce(l)
  PROVE  LiveInv'
<1>1. PICK link : links' = Publish(link) /\ published' = [published EXCEPT ![l] = @ \cup {link}]
  BY DEF Announce
<1>2. links' \subseteq links \cup {link}
  BY <1>1 DEF Publish
<1>3. Shape'
  BY <1>1, <1>2 DEF LiveInv, Shape, Announce
<1>4. \A m \in Logins : published[m] \subseteq published'[m]
  BY <1>1 DEF LiveInv, Shape
<1>5. Flying(login[l]) /\ link \in published'[l] /\ login' = login
  BY <1>1 DEF LiveInv, Shape, Announce, Flying
<1>6. \A k \in links' : \E m \in Logins : Flying(login'[m]) /\ k \in published'[m]
  BY <1>2, <1>4, <1>5, Meaning DEF LiveInv
<1>7. \A m \in Logins : Sound(login'[m])
  BY <1>5, Meaning DEF LiveInv
<1>8. LinksAreLive' /\ NoQuestionOutlivesLogin'
  BY <1>3, <1>6, <1>7 DEF LinksAreLive, NoQuestionOutlivesLogin, InFlight, Flying, Sound
<1> QED
  BY <1>3, <1>8 DEF LiveInv

\* What a running flow does to its own links and its own question.
LEMMA FlowLive ==
  ASSUME LiveInv, NEW l \in Logins, Flow(l)
  PROVE  LiveInv'
<1>1. login[l] \in LoginRecord /\ Sound(login[l]) /\ active \in {0} \cup Logins
  BY Meaning DEF LiveInv, Shape
<1> DEFINE Becomes(r) == login' = [login EXCEPT ![l] = r]
<1>2. ASSUME NEW r \in LoginRecord, Becomes(r), Sound(r), Flying(login[l]) => Flying(r),
             active' \in {0} \cup Logins, links' \subseteq links, published' = published
      PROVE  LiveInv'
  BY <1>2, OneChanges
<1>3. CASE TakeOver(l)
  <2>1. ~login[l].open
    BY <1>1, <1>3 DEF TakeOver, Sound, Flying
  <2>2. Becomes(Started(login[l])) /\ active' = l /\ UNCHANGED <<links, published>>
    BY <1>3, Zenon DEF TakeOver
  <2>3. Started(login[l]) \in LoginRecord /\ Started(login[l]).at = "flow" /\ Sound(Started(login[l]))
    BY <1>1, <2>1, StartedShape
  <2> QED
    BY <1>2, <2>2, <2>3 DEF Flying
<1>4. CASE GiveUp(l)
  <2>1. Becomes([login[l] EXCEPT !.at = "over"]) /\ UNCHANGED <<active, links, published>>
    BY <1>4 DEF GiveUp
  <2>2. /\ [login[l] EXCEPT !.at = "over"] \in LoginRecord
        /\ [login[l] EXCEPT !.at = "over"].open = FALSE
    BY <1>1, <1>4 DEF GiveUp, LoginRecord, Positions, Sound, Flying
  <2>3. ~Flying(login[l])
    BY <1>4 DEF GiveUp, Flying
  <2> QED
    BY <1>1, <1>2, <2>1, <2>2, <2>3 DEF Sound
<1>5. CASE ExternalAbort(l)
  <2> DEFINE r == [login[l] EXCEPT !.external = TRUE]
  <2>1. r \in LoginRecord /\ r.at = login[l].at /\ r.open = login[l].open /\ r.done = login[l].done
    BY <1>1 DEF LoginRecord
  <2>2. Becomes(IF l \in InFlight THEN CalledOff(r) ELSE r) /\ UNCHANGED <<active, links, published>>
    BY <1>5, Zenon DEF ExternalAbort
  <2> HIDE DEF r
  <2>3. Sound(r)
    BY <1>1, <2>1 DEF Sound, Flying
  <2>4. CalledOff(r) \in LoginRecord /\ CalledOff(r).at = r.at /\ Sound(CalledOff(r))
    BY <2>1, RecordShapes DEF Positions
  <2> QED
    BY <1>1, <1>2, <2>1, <2>2, <2>3, <2>4 DEF Flying
<1>6. CASE Announce(l)
  BY <1>6, AnnounceLive
<1>7. CASE Ask(l)
  <2>1. /\ UNCHANGED <<active, links, published>> /\ login[l].at = "flow"
        /\ login' = [login EXCEPT ![l].open = ~login[l].done]
    BY <1>7 DEF Ask
  <2>2. login[l].done \in BOOLEAN
    BY <1>1 DEF LoginRecord
  <2>3. CASE login[l].done = TRUE
    <3>1. Becomes([login[l] EXCEPT !.open = FALSE])
      BY <2>1, <2>3
    <3>2. /\ [login[l] EXCEPT !.open = FALSE] \in LoginRecord
          /\ [login[l] EXCEPT !.open = FALSE].at = "flow"
          /\ [login[l] EXCEPT !.open = FALSE].open = FALSE
      BY <1>1, <2>1 DEF LoginRecord
    <3> QED
      BY <1>1, <1>2, <2>1, <3>1, <3>2 DEF Sound, Flying
  <2>4. CASE login[l].done = FALSE
    <3>1. Becomes([login[l] EXCEPT !.open = TRUE])
      BY <2>1, <2>4
    <3>2. /\ [login[l] EXCEPT !.open = TRUE] \in LoginRecord
          /\ [login[l] EXCEPT !.open = TRUE].at = "flow"
          /\ [login[l] EXCEPT !.open = TRUE].done = FALSE
      BY <1>1, <2>1, <2>4 DEF LoginRecord
    <3> QED
      BY <1>1, <1>2, <2>1, <3>1, <3>2 DEF Sound, Flying
  <2> QED
    BY <2>2, <2>3, <2>4
<1>8. CASE Settle(l)
  <2>1. Becomes([login[l] EXCEPT !.open = FALSE]) /\ UNCHANGED <<active, links, published>>
    BY <1>8 DEF Settle
  <2>2. /\ [login[l] EXCEPT !.open = FALSE] \in LoginRecord
        /\ [login[l] EXCEPT !.open = FALSE].at = login[l].at
        /\ [login[l] EXCEPT !.open = FALSE].open = FALSE
    BY <1>1 DEF LoginRecord
  <2> QED
    BY <1>1, <1>2, <2>1, <2>2 DEF Sound, Flying
<1>9. CASE DismissDeviceCode(l)
  <2>1. Becomes(CalledOff(login[l])) /\ UNCHANGED <<active, links, published>>
    BY <1>9 DEF DismissDeviceCode
  <2>2. /\ CalledOff(login[l]) \in LoginRecord /\ CalledOff(login[l]).at = login[l].at
        /\ Sound(CalledOff(login[l]))
    BY <1>1, RecordShapes DEF Positions
  <2> QED
    BY <1>1, <1>2, <2>1, <2>2 DEF Flying
<1>10. CASE Succeed(l)
  <2>1. /\ Becomes([login[l] EXCEPT !.at = "storing"]) /\ UNCHANGED <<active, links, published>>
        /\ login[l].at = "flow"
    BY <1>10 DEF Succeed, MaySettle
  <2>2. /\ [login[l] EXCEPT !.at = "storing"] \in LoginRecord
        /\ [login[l] EXCEPT !.at = "storing"].at = "storing"
        /\ [login[l] EXCEPT !.at = "storing"].open = login[l].open
        /\ [login[l] EXCEPT !.at = "storing"].done = login[l].done
    BY <1>1 DEF LoginRecord, Positions
  <2> QED
    BY <1>1, <1>2, <2>1, <2>2 DEF Sound, Flying
<1>11. CASE Fail(l)
  <2>1. Becomes(Ended(login[l], "over")) /\ Release(l) /\ published' = published
    BY <1>11 DEF Fail
  <2>2. Ended(login[l], "over") \in LoginRecord /\ Sound(Ended(login[l], "over"))
    BY <1>1, RecordShapes DEF Positions
  <2> QED
    BY <2>1, <2>2, LetsGo
<1>12. CASE Store(l)
  <2> DEFINE r == Ended(login[l], "routing")
  <2>1. Becomes([r EXCEPT !.stored = TRUE]) /\ Release(l) /\ published' = published
    BY <1>12, Zenon DEF Store
  <2>2. r \in LoginRecord /\ Sound(r) /\ r.at = "routing"
    BY <1>1, RecordShapes DEF Positions
  <2> HIDE DEF r
  <2>3. /\ [r EXCEPT !.stored = TRUE] \in LoginRecord /\ [r EXCEPT !.stored = TRUE].open = FALSE
    BY <2>2 DEF LoginRecord, Sound, Flying
  <2> QED
    BY <2>1, <2>3, LetsGo DEF Sound
<1>13. ASSUME NEW how \in {"ok", "failed"}, Finish(l, how)
       PROVE  LiveInv'
  <2>1. Becomes([login[l] EXCEPT !.at = "over"]) /\ UNCHANGED <<active, links, published>>
    BY <1>13 DEF Finish
  <2>2. ~Flying(login[l])
    BY <1>13 DEF Finish, Flying
  <2>3. /\ [login[l] EXCEPT !.at = "over"] \in LoginRecord
        /\ [login[l] EXCEPT !.at = "over"].open = FALSE
    BY <1>1, <2>2 DEF LoginRecord, Positions, Sound
  <2> QED
    BY <1>1, <1>2, <2>1, <2>2, <2>3 DEF Sound
<1> QED
  BY <1>3, <1>4, <1>5, <1>6, <1>7, <1>8, <1>9, <1>10, <1>11, <1>12, <1>13 DEF Flow

\* Every step keeps the invariant.
LEMMA StepLive == LiveInv /\ [Next]_vars => LiveInv'
<1> SUFFICES ASSUME LiveInv, [Next]_vars PROVE LiveInv'
  OBVIOUS
<1>1. ASSUME UNCHANGED <<login, active, links, published>> PROVE LiveInv'
  BY <1>1 DEF LiveInv, Shape, LinksAreLive, NoQuestionOutlivesLogin, InFlight
<1>2. CASE Dismiss \/ CancelDone \/ UNCHANGED vars
  BY <1>1, <1>2 DEF Dismiss, CancelDone, vars
<1>3. ASSUME Answer PROVE LiveInv'
  <2>1. shown \in Logins
    BY <1>3 DEF Answer, Settle, InFlight
  <2> QED
    BY <1>3, <2>1, FlowLive DEF Answer, Flow
<1> QED
  BY <1>2, <1>3, FlowLive, BeginLive, CancelLive DEF Next

-----------------------------------------------------------------------------
(* However many logins take over from each other, whichever of them have   *)
(* been called off and go on publishing: a link that is served is one of a *)
(* login in flight (runtime.ts 3589, 3939).                                 *)
THEOREM OnlyLiveLinks == Spec => []LinksAreLive
<1>1. LiveInv => LinksAreLive
  BY DEF LiveInv
<1> QED
  BY <1>1, InitLive, StepLive, PTL DEF Spec

(* Whichever way a login ends or is called off, nobody is left before a     *)
(* question of its (oauth-bridge.ts 339-347, 362).                          *)
THEOREM QuestionsEndInTime == Spec => []NoQuestionOutlivesLogin
<1>1. LiveInv => NoQuestionOutlivesLogin
  BY DEF LiveInv
<1> QED
  BY <1>1, InitLive, StepLive, PTL DEF Spec

-----------------------------------------------------------------------------
(* The card.  A credential is stored before the route is asked for, and an  *)
(* attempt is told on the card in the step that ends it; a login that is no *)
(* longer on the card when it ends never comes back to it.                  *)

CardShape ==
  /\ shown \in {0} \cup Logins /\ cancelling \in {0} \cup Logins
  /\ outcome \in [Logins -> {"none", "ok", "failed", "cancelled"}]
  /\ published \in [Logins -> SUBSET (1 .. MaxLinks)]

FewLinks == IsFiniteSet(links) /\ Cardinality(links) <= MaxPending

(* What is told of a login in record r is so.                               *)
Told(r, o) ==
  /\ o = "ok" => r.stored /\ r.at = "over"
  /\ r.at = "routing" => r.stored

AllTold ==
  /\ \A l \in Logins : Told(login[l], outcome[l])
  /\ shown # 0 /\ login[shown].at = "over" => outcome[shown] # "none"

CardInv == CardShape /\ FewLinks /\ AllTold

\* At first the card is empty.
LEMMA InitCard == Init => CardInv
<1> SUFFICES ASSUME Init PROVE CardInv
  OBVIOUS
<1>1. CardShape
  BY DEF Init, CardShape
<1>2. FewLinks
  BY FS_EmptySet, LoginAssumption DEF Init, FewLinks, LoginAssumption
<1>3. AllTold
  BY DEF Init, AllTold, Told
<1> QED
  BY <1>1, <1>2, <1>3 DEF CardInv

(* A set of numbers that is not empty has a least one.                      *)
LEMMA LeastExists ==
  ASSUME NEW T \in SUBSET Nat, T # {}
  PROVE  \E x \in T : \A y \in T : x <= y
<1>1. PICK x \in T : \A y \in T : ~ (<<y, x>> \in OpToRel(<, Nat))
  BY NatLessThanWellFounded, WFMin, ZenonT(30)
<1>2. \A y \in T : ~ (y < x)
  BY <1>1 DEF OpToRel
<1> QED
  BY <1>2

(* The links served are at most as many as are kept.                        *)
LEMMA FewerLinks ==
  ASSUME FewLinks, links' \subseteq links PROVE FewLinks'
<1>1. IsFiniteSet(links') /\ Cardinality(links') <= Cardinality(links)
  BY FS_Subset DEF FewLinks
<1>2. Cardinality(links') \in Nat /\ Cardinality(links) \in Nat
  BY <1>1, FS_CardinalityType DEF FewLinks
<1> QED
  BY <1>1, <1>2, LoginAssumption DEF FewLinks, LoginAssumption

\* Keeping the newest links never exceeds the limit.
LEMMA PublishKeeps ==
  ASSUME FewLinks, NEW link \in Nat, links \subseteq Nat
  PROVE  IsFiniteSet(Publish(link)) /\ Cardinality(Publish(link)) <= MaxPending
<1> DEFINE all == links \cup {link}
           Oldest(o) == o \in all /\ \A k \in all : o <= k
           old == CHOOSE o : Oldest(o)
<1>2. IsFiniteSet(links) /\ Cardinality(links) \in Nat
  BY FS_CardinalityType DEF FewLinks
<1>1. IsFiniteSet(all) /\ Cardinality(all) \in Nat /\ Cardinality(all) <= Cardinality(links) + 1
  <2>1. IsFiniteSet(all) /\ (Cardinality(all) = Cardinality(links) \/ Cardinality(all) = Cardinality(links) + 1)
    BY <1>2, FS_AddElement
  <2> QED
    BY <1>2, <2>1
<1>3. old \in all
  <2>1. \E o \in all : \A k \in all : o <= k
    BY LeastExists
  <2> QED
    BY <2>1
<1>4. Publish(link) = IF Cardinality(all) > MaxPending THEN all \ {old} ELSE all
  <2>1. old = CHOOSE oldest \in all : \A k \in all : oldest <= k
    OBVIOUS
  <2> QED
    BY <2>1, Zenon DEF Publish
<1>5. IsFiniteSet(all \ {old}) /\ Cardinality(all \ {old}) = Cardinality(all) - 1
  BY <1>1, <1>3, FS_RemoveElement, ZenonT(30)
<1> HIDE DEF all, old
<1> QED
  BY <1>1, <1>2, <1>4, <1>5, LoginAssumption DEF FewLinks, LoginAssumption

(* One login changes, and what is told of it.                               *)
LEMMA OneTold ==
  ASSUME LiveInv, CardInv, NEW l \in Logins, NEW r \in LoginRecord,
         login' = [login EXCEPT ![l] = r], shown' = shown,
         NEW o \in {"none", "ok", "failed", "cancelled"}, outcome' = [outcome EXCEPT ![l] = o],
         Told(r, o), shown = l /\ r.at = "over" => o # "none"
  PROVE  AllTold' /\ outcome' \in [Logins -> {"none", "ok", "failed", "cancelled"}]
<1>1. \A m \in Logins : /\ login'[m] = IF m = l THEN r ELSE login[m]
                        /\ outcome'[m] = IF m = l THEN o ELSE outcome[m]
  BY DEF LiveInv, Shape, CardInv, CardShape
<1>2. \A m \in Logins : Told(login'[m], outcome'[m])
  BY <1>1 DEF CardInv, AllTold
<1>3. shown # 0 /\ login'[shown].at = "over" => outcome'[shown] # "none"
  BY <1>1 DEF CardInv, AllTold, CardShape
<1> QED
  BY <1>2, <1>3 DEF AllTold, CardInv, CardShape

(* A login that goes on is not told of.                                     *)
LEMMA GoesOn ==
  ASSUME LiveInv, CardInv, NEW l \in Logins, NEW r \in LoginRecord,
         login' = [login EXCEPT ![l] = r], UNCHANGED <<shown, cancelling, outcome, published>>,
         links' \subseteq links, login[l].at # "over", r.at \notin {"routing", "over"}
  PROVE  CardInv'
<1>1. Told(r, outcome[l])
  BY DEF CardInv, AllTold, Told
<1>2. outcome[l] \in {"none", "ok", "failed", "cancelled"} /\ outcome' = [outcome EXCEPT ![l] = outcome[l]]
  BY DEF CardInv, CardShape
<1>3. AllTold'
  BY <1>1, <1>2, OneTold, ZenonT(30)
<1> QED
  BY <1>3, FewerLinks DEF CardInv, CardShape

(* A login ends, and its card says how.                                     *)
LEMMA EndsTold ==
  ASSUME LiveInv, CardInv, NEW l \in Logins, NEW r \in LoginRecord, NEW how \in {"ok", "failed"},
         login' = [login EXCEPT ![l] = r], UNCHANGED <<shown, cancelling, published>>,
         links' \subseteq links, login[l].at # "over", r.at = "over", how = "ok" => r.stored,
         Conclude(l, how)
  PROVE  CardInv'
<1>1. PICK o \in {"none", "ok", "failed", "cancelled"} :
        /\ outcome' = [outcome EXCEPT ![l] = o]
        /\ o = IF shown = l THEN how ELSE outcome[l]
  BY DEF Conclude, CardInv, CardShape
<1>2. outcome[l] # "ok"
  BY DEF CardInv, AllTold, Told
<1>3. Told(r, o)
  BY <1>1, <1>2 DEF Told
<1>4. outcome' = [outcome EXCEPT ![l] = o] /\ (shown = l /\ r.at = "over" => o # "none")
  BY <1>1
<1>5. AllTold' /\ outcome' \in [Logins -> {"none", "ok", "failed", "cancelled"}]
  BY <1>3, <1>4, OneTold
<1> QED
  BY <1>5, FewerLinks DEF CardInv, CardShape

-----------------------------------------------------------------------------
\* A login that begins calls off the one before it, and the card is told when it ends.
LEMMA BeginCard ==
  ASSUME LiveInv, CardInv, NEW l \in Logins, NEW door \in Doors, NEW waits \in BOOLEAN,
         Begin(l, door, waits)
  PROVE  CardInv'
<1> DEFINE fresh == [login[l] EXCEPT !.door = door, !.waits = waits]
           waiting == [fresh EXCEPT !.at = "waiting", !.after = active]
<1>1. login[l] \in LoginRecord /\ login[l].at = "none" /\ ~login[l].open
  BY Meaning DEF LiveInv, Shape, Begin, Begun, Sound, Flying
<1>2. fresh \in LoginRecord /\ ~fresh.open
  BY <1>1 DEF LoginRecord
<1>3. /\ shown' \in {l, shown} /\ cancelling' = cancelling
      /\ outcome' = outcome /\ published' = published
  BY DEF Begin
<1> DEFINE Quiet(m) == login'[m].at \notin {"routing", "over"}
           Same(m) == login'[m].at = login[m].at /\ login'[m].stored = login[m].stored
<1>4. links' \subseteq links /\ Quiet(l) /\ \A m \in Logins \ {l} : Same(m)
  <2>1. CASE active = 0
    <3>1. login' = [login EXCEPT ![l] = Started(fresh)] /\ links' = links
      BY <2>1, Zenon DEF Begin
    <3> HIDE DEF fresh
    <3>2. Started(fresh).at = "flow"
      BY <1>2, StartedShape
    <3> QED
      BY <3>1, <3>2 DEF LiveInv, Shape
  <2>2. CASE active # 0
    <3>1. active \in Logins /\ active \in 0 .. MaxLogins
      BY <2>2 DEF LiveInv, Shape, Logins
    <3> DEFINE first == [login EXCEPT ![l] = waiting]
    <3>2. /\ login' = [first EXCEPT ![active] = CalledOff(@)]
          /\ links' = links \ published[active]
      BY <2>2, Zenon DEF Begin, Supersede, Unserve
    <3>3. waiting \in LoginRecord /\ waiting.at = "waiting"
      <4> HIDE DEF fresh
      <4> QED
        BY <1>2, <3>1 DEF LoginRecord, Positions
    <3> HIDE DEF waiting
    <3>4. first \in [Logins -> LoginRecord] /\ first[l] = waiting /\ \A m \in Logins \ {l} : first[m] = login[m]
      BY <3>3 DEF LiveInv, Shape
    <3> HIDE DEF first
    <3>5. \A r \in LoginRecord : CalledOff(r).at = r.at /\ CalledOff(r).stored = r.stored
      BY DEF CalledOff, LoginRecord
    <3>6. \A m \in Logins : login'[m].at = first[m].at /\ login'[m].stored = first[m].stored
      BY <3>1, <3>2, <3>4, <3>5
    <3> QED
      BY <3>2, <3>3, <3>4, <3>6
  <2> QED
    BY <2>1, <2>2
<1> HIDE DEF fresh, waiting
<1>5. outcome[l] # "ok"
  BY <1>1 DEF CardInv, AllTold, Told
<1>6. \A m \in Logins : Told(login'[m], outcome'[m])
  BY <1>3, <1>4, <1>5 DEF CardInv, AllTold, Told
<1>7. shown' # 0 /\ login'[shown'].at = "over" => outcome'[shown'] # "none"
  BY <1>3, <1>4 DEF CardInv, CardShape, AllTold
<1> QED
  BY <1>3, <1>4, <1>6, <1>7, FewerLinks DEF CardInv, CardShape, AllTold

\* A flow that announces a link lets the oldest go when there are too many.
LEMMA AnnounceCard ==
  ASSUME LiveInv, CardInv, NEW l \in Logins, Announce(l)
  PROVE  CardInv'
<1> DEFINE link == Cardinality(AllLinks) + 1
<1>1. /\ links' = Publish(link) /\ published' = [published EXCEPT ![l] = @ \cup {link}]
      /\ Cardinality(AllLinks) < MaxLinks /\ UNCHANGED <<login, shown, outcome, cancelling>>
  BY DEF Announce
<1>2. AllLinks \subseteq 1 .. MaxLinks /\ MaxLinks \in Nat
  BY LoginAssumption DEF LoginAssumption, AllLinks, CardInv, CardShape
<1>3. Cardinality(AllLinks) \in Nat
  <2>1. IsFiniteSet(1 .. MaxLinks)
    BY <1>2, FS_Interval
  <2>2. IsFiniteSet(AllLinks)
    BY <1>2, <2>1, FS_Subset
  <2> QED
    BY <2>2, FS_CardinalityType
<1>4. link \in Nat /\ link \in 1 .. MaxLinks
  BY <1>1, <1>2, <1>3
<1>5. links \subseteq Nat
  BY <1>2 DEF LiveInv, LinksAreLive, AllLinks, InFlight
<1> HIDE DEF link
<1>6. FewLinks'
  BY <1>1, <1>4, <1>5, PublishKeeps DEF CardInv, FewLinks
<1>7. CardShape'
  BY <1>1, <1>4 DEF CardInv, CardShape
<1> QED
  BY <1>1, <1>6, <1>7 DEF CardInv, AllTold

\* What a flow does, it tells the card in the same step.
LEMMA FlowCard ==
  ASSUME LiveInv, CardInv, NEW l \in Logins, Flow(l)
  PROVE  CardInv'
<1>1. login[l] \in LoginRecord /\ Sound(login[l])
  BY Meaning DEF LiveInv, Shape
<1> DEFINE Becomes(r) == login' = [login EXCEPT ![l] = r]
           Rest == UNCHANGED <<shown, cancelling, outcome, published>> /\ links' \subseteq links
           Closing == UNCHANGED <<shown, cancelling, published>> /\ links' \subseteq links
<1>2. ASSUME NEW r \in LoginRecord, Becomes(r), Rest, login[l].at # "over", r.at \notin {"routing", "over"}
      PROVE  CardInv'
  BY <1>2, GoesOn
<1>3. ASSUME NEW r \in LoginRecord, NEW how \in {"ok", "failed"}, Becomes(r), Closing, login[l].at # "over",
             r.at = "over", how = "ok" => r.stored, Conclude(l, how)
      PROVE  CardInv'
  BY <1>3, EndsTold
<1>4. CASE TakeOver(l)
  <2>1. Becomes(Started(login[l])) /\ Rest /\ login[l].at = "waiting"
    BY <1>4, Zenon DEF TakeOver
  <2>2. ~login[l].open
    BY <1>1, <2>1 DEF Sound, Flying
  <2>3. Started(login[l]) \in LoginRecord /\ Started(login[l]).at = "flow"
    BY <1>1, <2>2, StartedShape
  <2> QED
    BY <1>2, <2>1, <2>3
<1>5. CASE GiveUp(l)
  <2>1. Becomes([login[l] EXCEPT !.at = "over"]) /\ Closing /\ login[l].at = "waiting" /\ Conclude(l, "failed")
    BY <1>5 DEF GiveUp
  <2>2. [login[l] EXCEPT !.at = "over"] \in LoginRecord /\ [login[l] EXCEPT !.at = "over"].at = "over"
    BY <1>1 DEF LoginRecord, Positions
  <2> QED
    BY <1>3, <2>1, <2>2
<1>6. CASE ExternalAbort(l)
  <2> DEFINE r == [login[l] EXCEPT !.external = TRUE]
  <2>1. r \in LoginRecord /\ r.at = login[l].at
    BY <1>1 DEF LoginRecord
  <2>2. /\ Becomes(IF l \in InFlight THEN CalledOff(r) ELSE r) /\ Rest
        /\ login[l].at \in {"waiting", "flow", "storing"}
    BY <1>6, Zenon DEF ExternalAbort
  <2> HIDE DEF r
  <2>3. CalledOff(r) \in LoginRecord /\ CalledOff(r).at = r.at
    BY <2>1, RecordShapes DEF Positions
  <2> QED
    BY <1>2, <2>1, <2>2, <2>3
<1>7. CASE Announce(l)
  BY <1>7, AnnounceCard
<1>8. CASE Ask(l)
  <2>1. /\ login[l].at = "flow" /\ Rest /\ Becomes([login[l] EXCEPT !.open = ~login[l].done])
    BY <1>8 DEF Ask
  <2>2. /\ [login[l] EXCEPT !.open = ~login[l].done] \in LoginRecord
        /\ [login[l] EXCEPT !.open = ~login[l].done].at = login[l].at
    BY <1>1 DEF LoginRecord
  <2> QED
    BY <1>2, <2>1, <2>2
<1>9. CASE Settle(l)
  <2>1. Becomes([login[l] EXCEPT !.open = FALSE]) /\ Rest /\ login[l].at \in {"flow", "storing"}
    BY <1>9 DEF Settle, InFlight
  <2>2. [login[l] EXCEPT !.open = FALSE] \in LoginRecord /\ [login[l] EXCEPT !.open = FALSE].at = login[l].at
    BY <1>1 DEF LoginRecord
  <2> QED
    BY <1>2, <2>1, <2>2
<1>10. CASE DismissDeviceCode(l)
  <2>1. Becomes(CalledOff(login[l])) /\ Rest /\ login[l].at \in {"flow", "storing"}
    BY <1>10 DEF DismissDeviceCode, InFlight
  <2>2. CalledOff(login[l]) \in LoginRecord /\ CalledOff(login[l]).at = login[l].at
    BY <1>1, RecordShapes DEF Positions
  <2> QED
    BY <1>2, <2>1, <2>2
<1>11. CASE Succeed(l)
  <2>1. Becomes([login[l] EXCEPT !.at = "storing"]) /\ Rest /\ login[l].at = "flow"
    BY <1>11 DEF Succeed, MaySettle
  <2>2. [login[l] EXCEPT !.at = "storing"] \in LoginRecord /\ [login[l] EXCEPT !.at = "storing"].at = "storing"
    BY <1>1 DEF LoginRecord, Positions
  <2> QED
    BY <1>2, <2>1, <2>2
<1>12. CASE Fail(l)
  <2>1. /\ Becomes(Ended(login[l], "over")) /\ Closing /\ Conclude(l, "failed")
        /\ login[l].at \in {"flow", "storing"}
    BY <1>12 DEF Fail, MaySettle, Release, Unserve
  <2>2. Ended(login[l], "over") \in LoginRecord /\ Ended(login[l], "over").at = "over"
    BY <1>1, RecordShapes DEF Positions
  <2> QED
    BY <1>3, <2>1, <2>2
<1>13. CASE Store(l)
  <2> DEFINE ended == Ended(login[l], "routing")
             r == [ended EXCEPT !.stored = TRUE]
  <2>1. Becomes(r) /\ Rest /\ login[l].at = "storing"
    BY <1>13, Zenon DEF Store, Release, Unserve
  <2>2. ended \in LoginRecord /\ ended.at = "routing"
    BY <1>1, RecordShapes DEF Positions
  <2> HIDE DEF ended
  <2>3. r \in LoginRecord /\ r.at = "routing" /\ r.stored
    BY <2>2 DEF LoginRecord
  <2> HIDE DEF r
  <2>4. outcome[l] # "ok" /\ outcome[l] \in {"none", "ok", "failed", "cancelled"}
    BY <2>1 DEF CardInv, AllTold, Told, CardShape
  <2>5. Told(r, outcome[l]) /\ outcome' = [outcome EXCEPT ![l] = outcome[l]] /\ shown' = shown
    BY <2>1, <2>3, <2>4 DEF Told, CardInv, CardShape
  <2>6. AllTold'
    BY <2>1, <2>3, <2>4, <2>5, OneTold, ZenonT(30)
  <2> QED
    BY <2>1, <2>6, FewerLinks DEF CardInv, CardShape
<1>14. ASSUME NEW how \in {"ok", "failed"}, Finish(l, how)
       PROVE  CardInv'
  <2>1. Becomes([login[l] EXCEPT !.at = "over"]) /\ Closing /\ login[l].at = "routing" /\ Conclude(l, how)
    BY <1>14 DEF Finish
  <2>2. login[l].stored
    BY <2>1 DEF CardInv, AllTold, Told
  <2>3. /\ [login[l] EXCEPT !.at = "over"] \in LoginRecord /\ [login[l] EXCEPT !.at = "over"].at = "over"
        /\ [login[l] EXCEPT !.at = "over"].stored = login[l].stored
    BY <1>1 DEF LoginRecord, Positions
  <2> QED
    BY <1>3, <2>1, <2>2, <2>3
<1> QED
  BY <1>4, <1>5, <1>6, <1>7, <1>8, <1>9, <1>10, <1>11, <1>12, <1>13, <1>14 DEF Flow

(* A cancel says so of the login that is on the card when its wait is over, *)
(* and only of a login nothing has been said of.                            *)
LEMMA CancelledTells ==
  ASSUME LiveInv, CardInv, Cancelled, login' = login, shown' = shown
  PROVE  AllTold' /\ outcome' \in [Logins -> {"none", "ok", "failed", "cancelled"}]
<1>1. CASE outcome' = outcome
  BY <1>1 DEF CardInv, AllTold, CardShape
<1>2. CASE shown # 0 /\ outcome[shown] = "none" /\ outcome' = [outcome EXCEPT ![shown] = "cancelled"]
  <2>1. shown \in Logins
    BY <1>2 DEF CardInv, CardShape
  <2>2. Told(login[shown], "cancelled")
    BY <1>2, <2>1 DEF CardInv, AllTold, Told
  <2>3. login[shown] \in LoginRecord /\ login' = [login EXCEPT ![shown] = login[shown]]
    BY <2>1 DEF LiveInv, Shape
  <2>4. outcome' = [outcome EXCEPT ![shown] = "cancelled"]
    BY <1>2
  <2> QED
    BY <2>1, <2>2, <2>3, <2>4, OneTold
<1> QED
  BY <1>1, <1>2 DEF Cancelled

\* Cancelling tells the card, or calls the login off and waits for it.
LEMMA CancelCard ==
  ASSUME LiveInv, CardInv, Cancel PROVE CardInv'
<1>1. shown' = shown /\ published' = published
  BY DEF Cancel
<1>2. CASE active = 0
  <2>1. Cancelled /\ UNCHANGED <<login, links, cancelling>>
    BY <1>2 DEF Cancel
  <2> QED
    BY <1>1, <2>1, CancelledTells DEF CardInv, CardShape, FewLinks
<1>3. CASE active # 0
  <2>1. active \in Logins
    BY <1>3 DEF LiveInv, Shape
  <2>2. /\ login' = [login EXCEPT ![active] = CalledOff(login[active])]
        /\ links' \subseteq links /\ outcome' = outcome /\ cancelling' = active
    BY <1>3 DEF Cancel, Supersede, Unserve
  <2>3. /\ login[active] \in LoginRecord /\ CalledOff(login[active]).at = login[active].at
        /\ CalledOff(login[active]).stored = login[active].stored
    BY <2>1 DEF LiveInv, Shape, CalledOff, LoginRecord
  <2>4. \A m \in Logins : login'[m].at = login[m].at /\ login'[m].stored = login[m].stored
    BY <2>1, <2>2, <2>3 DEF LiveInv, Shape
  <2>5. AllTold'
    BY <1>1, <2>2, <2>4 DEF CardInv, CardShape, AllTold, Told
  <2> QED
    BY <1>1, <2>1, <2>2, <2>5, FewerLinks DEF CardInv, CardShape
<1> QED
  BY <1>2, <1>3

\* Every step keeps the invariant.
LEMMA StepCard == LiveInv /\ CardInv /\ [Next]_vars => CardInv'
<1> SUFFICES ASSUME LiveInv, CardInv, [Next]_vars PROVE CardInv'
  OBVIOUS
<1>1. CASE UNCHANGED vars
  BY <1>1 DEF vars, CardInv, CardShape, FewLinks, AllTold
<1>2. CASE Dismiss
  BY <1>2 DEF Dismiss, CardInv, CardShape, FewLinks, AllTold
<1>3. CASE Answer
  <2>1. shown \in Logins /\ Settle(shown)
    BY <1>3 DEF Answer, Settle, InFlight
  <2> QED
    BY <2>1, FlowCard DEF Flow
<1>4. CASE CancelDone
  <2>1. UNCHANGED <<login, shown, links, published>> /\ cancelling' = 0 /\ (Cancelled \/ outcome' = outcome)
    BY <1>4 DEF CancelDone
  <2>2. AllTold' /\ outcome' \in [Logins -> {"none", "ok", "failed", "cancelled"}]
    BY <2>1, CancelledTells DEF CardInv, CardShape, AllTold
  <2> QED
    BY <2>1, <2>2 DEF CardInv, CardShape, FewLinks
<1> QED
  BY <1>1, <1>2, <1>3, <1>4, FlowCard, BeginCard, CancelCard DEF Next

(* Whatever doors the logins come in by, whoever takes over from whom and   *)
(* whenever a cancel's wait ends: the card says a login succeeded only when *)
(* its credential is stored, and a login of the card that is over has an    *)
(* outcome (runtime.ts 5976-5983).                                          *)
THEOREM CardIsTruthful == Spec => []CardTellsTruth
<1>1. LiveInv /\ CardInv => CardTellsTruth
  <2> SUFFICES ASSUME LiveInv, CardInv PROVE CardTellsTruth
    OBVIOUS
  <2>1. login \in [Logins ->
       [at : {"none", "waiting", "flow", "storing", "routing", "over"}, door : Doors,
        after : 0 .. MaxLogins, waits : BOOLEAN, external : BOOLEAN, done : BOOLEAN,
        open : BOOLEAN, stored : BOOLEAN]]
    BY DEF LiveInv, Shape, LoginRecord, Positions
  <2>2. {0} \cup Logins \subseteq 0 .. MaxLogins
    BY LoginAssumption DEF LoginAssumption, Logins
  <2>3. TypeOK
    BY <2>1, <2>2 DEF LiveInv, Shape, CardInv, CardShape, FewLinks, LinksAreLive, InFlight, AllLinks, TypeOK
  <2> QED
    BY <2>3 DEF CardInv, AllTold, Told, CardTellsTruth
<1> QED
  BY <1>1, InitLive, StepLive, InitCard, StepCard, PTL DEF Spec

-----------------------------------------------------------------------------
(***************************************************************************)
(* What becomes of a login once it is complete: StoredLogins.  None of its *)
(* variables is one of LoginFlow's.                                        *)
(* The argument: every credential belongs to one provider, and one job of  *)
(* a provider runs at a time, the first of its chain, on the credential in *)
(* memory.  So what a renewal uses up is in nobody else's hands, and what  *)
(* it stores descends from the login that was there.                       *)
(***************************************************************************)
\* A job, by its record: it runs in the chain of its provider, or waits there.
Running(r) == r.at \in {"refreshing", "saving"} \/ (r.at = "writing" /\ r.kind = "login")
InLine(r)  == r.at \in {"storing", "deleting", "renewing"} \/ Running(r)

\* The queue c of p holds jobs of p, each once; only its first may run.
InOrder(c, p, jobs) ==
  \A k \in 1 .. Len(c) :
    /\ of[c[k]] = p /\ InLine(jobs[c[k]])
    /\ k > 1 => ~Running(jobs[c[k]])
    /\ \A l \in 1 .. Len(c) : c[k] = c[l] => k = l

\* Chains are such queues, and a job that runs is the first in its own.
ChainsInOrder ==
  /\ \A p \in Providers : InOrder(chain[p], p, job)
  /\ \A j \in Jobs : Running(job[j]) => AtHead(j)

\* DSH's store has a write of every job that waits for one.
SetsInOrder ==
  \A k \in 1 .. Len(sets) :
    /\ job[sets[k]].at = "setting"
    /\ \A l \in 1 .. Len(sets) : sets[k] = sets[l] => k = l

\* A job that waits for its turn stands in the queue it waits in.
Enlisted ==
  /\ \A j \in Jobs : InLine(job[j]) => \E k \in 1 .. Len(chain[of[j]]) : chain[of[j]][k] = j
  /\ \A j \in Jobs : job[j].at = "setting" => \E k \in 1 .. Len(sets) : sets[k] = j

\* What a job is, by where it stands.
OfKind(r) ==
  /\ r.at = "storing" => r.kind = "login"
  /\ r.at = "deleting" => r.kind = "logout"
  /\ r.at = "writing" => r.kind \in {"login", "logout"}
  /\ r.at = "declaring" => r.kind \in {"login", "restore"}
  /\ r.at \in {"routing", "resolving", "renewing", "refreshing", "saving", "holding", "setting"}
       => r.kind \in {"login", "request", "restore"}

Kinds == \A j \in Jobs : OfKind(job[j])

\* c is one of p's credentials, of the n issued, according to o.
Belongs(o, n, c, p) == c \in 1 .. n /\ o[c] = p

\* Whatever is kept of p's, in memory, in the file or in a snapshot, is p's.
Kept(o) ==
  /\ \A p \in Providers : mem[p] # None => Belongs(o, issued, mem[p], p)
  /\ \A p \in Providers : disk[p] # None => Belongs(o, issued, disk[p], p)
  /\ \A j \in Jobs, p \in Providers : job[j].snap[p] # None => Belongs(o, issued, job[j].snap[p], p)
  /\ \A j \in Jobs : job[j].at = "storing" => Belongs(o, issued, job[j].cred, of[j])

\* A credential no login has stored yet is nowhere else, and starts a line.
Unstored ==
  \A j \in Jobs : job[j].at = "storing" =>
    /\ job[j].cred \notin spent /\ root[job[j].cred] = job[j].cred
    /\ \A p \in Providers : mem[p] # job[j].cred
    /\ \A i \in Jobs \ {j} : job[i].at = "storing" => job[i].cred # job[j].cred

\* The job that runs works on what is in memory.
OnMemory ==
  \A j \in Jobs : Running(job[j]) => job[j].cred # None /\ mem[of[j]] = job[j].cred

\* What is in memory descends from the login committed and has not been used up.
Alive ==
  /\ spent \subseteq 1 .. issued
  /\ \A c \in Creds : c > issued => root[c] = c
  /\ \A p \in Providers : /\ mem[p] \notin spent
                          /\ IF mem[p] = None THEN committed[p] = None ELSE root[mem[p]] = committed[p]

\* Of a provider the user has signed out of, nothing is kept or on its way.
SignedOut ==
  /\ \A j \in Jobs : job[j].at = "writing" /\ job[j].kind = "logout" => job[j].snap[of[j]] = None
  /\ \A p \in out :
       /\ disk[p] = None /\ mem[p] = None
       /\ \A j \in Jobs : of[j] = p => ~Running(job[j]) /\ job[j].at # "storing"

\* What is handed over is fresh; what was published is what DSH has.
Handed ==
  /\ \A c \in Creds : c > issued => age[c] = 0
  /\ \A j \in Jobs : job[j].at \in {"saving", "holding", "setting"} =>
       job[j].cred \in 1 .. issued /\ age[job[j].cred] = 0
  /\ \A p \in Providers : memo[p] # None => ref[p] = memo[p]
-----------------------------------------------------------------------------
(* Types.                                                                  *)

JobRecord == [kind : {"none", "login", "logout", "request", "restore"},
              at : JobStates, cred : Creds \cup {None}, ok : BOOLEAN,
              routed : BOOLEAN, waits : BOOLEAN, snap : [Providers -> Creds \cup {None}]]

\* What the store keeps, where the jobs stand, and all the rest.
StoreTyped ==
  /\ mem \in [Providers -> Creds \cup {None}] /\ disk \in [Providers -> Creds \cup {None}]
  /\ committed \in [Providers -> Creds \cup {None}] /\ out \subseteq Providers
  /\ issued \in Creds /\ root \in [Creds -> Creds] /\ spent \subseteq Creds
  /\ age \in [Creds -> 0 .. 2] /\ crashes \in 0 .. MaxCrashes

JobsTyped ==
  /\ job \in [Jobs -> JobRecord] /\ of \in [Jobs -> Providers]
  /\ chain \in [Providers -> Seq(Jobs)] /\ sets \in Seq(Jobs)

HostTyped ==
  /\ ref \in [Providers -> Creds \cup {None}] /\ memo \in [Providers -> Creds \cup {None}]
  /\ declared \subseteq Providers /\ hooked \in BOOLEAN

\* The type invariant by parts; what it says of the queues is part of their order.
LEMMA TypeParts ==
  /\ StoredTypeOK => StoreTyped /\ JobsTyped /\ HostTyped
  /\ StoreTyped /\ JobsTyped /\ HostTyped /\ ChainsInOrder => StoredTypeOK
BY DEF StoredTypeOK, StoreTyped, JobsTyped, HostTyped, JobRecord, ChainsInOrder, Running

\* An idle job's record.
LEMMA IdleShape ==
  /\ Idle \in JobRecord /\ Idle.at = "idle"
  /\ Idle.snap \in [Providers -> Creds \cup {None}]
  /\ \A p \in Providers : Idle.snap[p] = None
<1>1. Idle.at = "idle" /\ Idle.snap = [p \in Providers |-> None]
  BY DEF Idle
<1>2. Idle \in JobRecord
  BY DEF Idle, JobRecord, JobStates, None
<1> QED
  BY <1>1, <1>2

\* What becomes of it when a job has ended.
LEMMA EndShape ==
  ASSUME NEW ok \in BOOLEAN, NEW r, r = [Idle EXCEPT !.at = "done", !.ok = ok]
  PROVE  r \in JobRecord /\ r.at = "done" /\ r.snap = Idle.snap /\ r.ok = ok /\ r.kind = "none"
<1>1. r.at = "done" /\ r.ok = ok /\ r.kind = "none" /\ r.snap = Idle.snap
  BY DEF Idle
<1>2. r \in JobRecord
  BY DEF Idle, JobRecord, JobStates, None
<1> QED
  BY <1>1, <1>2

-----------------------------------------------------------------------------
(* The queues.                                                             *)

\* Only j's record changes.
OnlyJob(j) == of' = of /\ \A i \in Jobs \ {j} : job'[i] = job[i]

\* What a step of j may do to the chain of its provider.
ChainStep(j) ==
  \/ chain' = chain /\ (InLine(job[j]) <=> InLine(job'[j])) /\ (Running(job'[j]) => AtHead(j))
  \/ Enqueue(j) /\ ~InLine(job[j]) /\ InLine(job'[j]) /\ ~Running(job'[j])
  \/ LeaveChain(j) /\ AtHead(j) /\ ~InLine(job'[j])

\* What it may do to the writes of DSH's store: j has none afterwards, or a new one.
SetsLeft(j) ==
  \/ sets' = sets /\ job[j].at # "setting"
  \/ sets # <<>> /\ Head(sets) = j /\ sets' = Tail(sets)

SetsStep(j) ==
  \/ SetsLeft(j) /\ job'[j].at # "setting"
  \/ sets' = Append(sets, j) /\ job[j].at # "setting" /\ job'[j].at = "setting"

\* A job stays in its place.
LEMMA ChainStays ==
  ASSUME JobsTyped, ChainsInOrder, NEW j \in Jobs, OnlyJob(j),
         chain' = chain, InLine(job[j]) => InLine(job'[j]), Running(job'[j]) => AtHead(j)
  PROVE  ChainsInOrder'
<1>1. \A i \in Jobs : Running(job'[i]) => AtHead(i)
  BY DEF OnlyJob, ChainsInOrder
<1>2. ASSUME NEW p \in Providers PROVE InOrder(chain[p], p, job')
  <2>1. chain[p] \in Seq(Jobs) /\ InOrder(chain[p], p, job)
    BY DEF JobsTyped, ChainsInOrder
  <2>2. ASSUME NEW k \in 1 .. Len(chain[p])
        PROVE  InLine(job'[chain[p][k]]) /\ (k > 1 => ~Running(job'[chain[p][k]]))
    <3>1. CASE chain[p][k] = j
      <4>1. ASSUME k > 1, Running(job'[j]) PROVE FALSE
        <5>1. chain[p][1] = j /\ 1 \in 1 .. Len(chain[p])
          BY <2>1, <3>1, <4>1 DEF AtHead, InOrder
        <5> QED
          BY <2>1, <3>1, <4>1, <5>1 DEF InOrder
      <4> QED
        BY <2>1, <3>1, <4>1 DEF InOrder
    <3>2. CASE chain[p][k] # j
      <4>1. chain[p][k] \in Jobs \ {j}
        BY <2>1, <3>2
      <4> QED
        BY <2>1, <4>1 DEF OnlyJob, InOrder
    <3> QED
      BY <3>1, <3>2
  <2> QED
    BY <2>1, <2>2 DEF InOrder
<1> QED
  BY <1>1, <1>2 DEF ChainsInOrder, InOrder, OnlyJob, AtHead

\* A job that was in no queue comes last in its chain.
LEMMA ChainGrows ==
  ASSUME JobsTyped, ChainsInOrder, NEW j \in Jobs, OnlyJob(j),
         Enqueue(j), ~InLine(job[j]), InLine(job'[j]), ~Running(job'[j])
  PROVE  ChainsInOrder' /\ chain' \in [Providers -> Seq(Jobs)]
<1>1. /\ chain' \in [Providers -> Seq(Jobs)]
      /\ \A p \in Providers \ {of[j]} : chain'[p] = chain[p]
      /\ chain'[of[j]] = Append(chain[of[j]], j) /\ of[j] \in Providers
  BY DEF Enqueue, JobsTyped
<1>2. ASSUME NEW p \in Providers PROVE InOrder(chain'[p], p, job')
  <2>1. chain[p] \in Seq(Jobs) /\ InOrder(chain[p], p, job)
    BY DEF JobsTyped, ChainsInOrder
  <2>2. \A k \in 1 .. Len(chain[p]) : chain[p][k] \in Jobs \ {j}
    BY <2>1 DEF InOrder
  <2>3. InOrder(chain[p], p, job')
    BY <2>1, <2>2 DEF InOrder, OnlyJob
  <2>4. CASE p = of[j]
    <3>1. chain'[p] = Append(chain[p], j)
      BY <1>1, <2>4
    <3>2. /\ Len(chain'[p]) = Len(chain[p]) + 1 /\ Len(chain[p]) \in Nat
          /\ \A k \in 1 .. Len(chain'[p]) :
               \/ k \in 1 .. Len(chain[p]) /\ chain'[p][k] = chain[p][k]
               \/ k = Len(chain[p]) + 1 /\ chain'[p][k] = j
      BY <2>1, <3>1
    <3> QED
      BY <2>2, <2>3, <2>4, <3>2 DEF InOrder
  <2>5. CASE p # of[j]
    BY <1>1, <2>3, <2>5
  <2> QED
    BY <2>4, <2>5
<1>3. \A i \in Jobs : Running(job'[i]) => i # j /\ AtHead(i)
  BY DEF OnlyJob, ChainsInOrder
<1>4. \A p \in Providers : chain[p] # <<>> => chain'[p] # <<>> /\ Head(chain'[p]) = Head(chain[p])
  <2> SUFFICES ASSUME NEW p \in Providers, chain[p] # <<>>
               PROVE  chain'[p] # <<>> /\ Head(chain'[p]) = Head(chain[p])
    OBVIOUS
  <2>1. chain[p] \in Seq(Jobs)
    BY DEF JobsTyped
  <2>2. chain'[p] = chain[p] \/ chain'[p] = Append(chain[p], j)
    BY <1>1
  <2> QED
    BY <2>1, <2>2
<1>5. \A i \in Jobs : Running(job'[i]) => AtHead(i)'
  BY <1>3, <1>4 DEF AtHead, OnlyJob, JobsTyped
<1> QED
  BY <1>1, <1>2, <1>5 DEF ChainsInOrder, InOrder, OnlyJob

\* The first job of a chain leaves it; what comes behind it did not run.
LEMMA ChainShrinks ==
  ASSUME JobsTyped, ChainsInOrder, NEW j \in Jobs, OnlyJob(j),
         LeaveChain(j), AtHead(j), ~InLine(job'[j])
  PROVE  ChainsInOrder' /\ chain' \in [Providers -> Seq(Jobs)]
<1>1. /\ chain' \in [Providers -> Seq(Jobs)]
      /\ \A p \in Providers \ {of[j]} : chain'[p] = chain[p]
      /\ chain'[of[j]] = Tail(chain[of[j]]) /\ of[j] \in Providers
      /\ chain[of[j]] \in Seq(Jobs) /\ chain[of[j]] # <<>> /\ Head(chain[of[j]]) = j
  BY DEF LeaveChain, AtHead, JobsTyped
<1>2. ASSUME NEW p \in Providers PROVE InOrder(chain'[p], p, job')
  <2>1. chain[p] \in Seq(Jobs) /\ InOrder(chain[p], p, job)
    BY DEF JobsTyped, ChainsInOrder
  <2>2. CASE p = of[j]
    <3>1. chain'[p] = Tail(chain[p]) /\ chain[p] # <<>> /\ chain[p][1] = j
      BY <1>1, <2>2
    <3>2. /\ Len(chain'[p]) = Len(chain[p]) - 1 /\ Len(chain[p]) \in Nat
          /\ \A k \in 1 .. Len(chain'[p]) : chain'[p][k] = chain[p][k + 1] /\ k + 1 \in 1 .. Len(chain[p])
      BY <2>1, <3>1
    <3>3. \A k \in 1 .. Len(chain'[p]) : chain[p][k + 1] \in Jobs \ {j}
      <4> SUFFICES ASSUME NEW k \in 1 .. Len(chain'[p]) PROVE chain[p][k + 1] \in Jobs \ {j}
        OBVIOUS
      <4>1. k + 1 \in 1 .. Len(chain[p]) /\ 1 \in 1 .. Len(chain[p]) /\ k + 1 # 1
        BY <3>2
      <4> QED
        BY <2>1, <3>1, <4>1 DEF InOrder
    <3>4. ASSUME NEW k \in 1 .. Len(chain'[p])
          PROVE  /\ of[chain'[p][k]] = p /\ InLine(job'[chain'[p][k]])
                 /\ ~Running(job'[chain'[p][k]])
      <4>1. k + 1 \in 1 .. Len(chain[p]) /\ k + 1 > 1
        BY <3>2
      <4> QED
        BY <2>1, <3>2, <3>3, <4>1 DEF InOrder, OnlyJob
    <3>5. \A k, l \in 1 .. Len(chain'[p]) : chain'[p][k] = chain'[p][l] => k = l
      <4> SUFFICES ASSUME NEW k \in 1 .. Len(chain'[p]), NEW l \in 1 .. Len(chain'[p]),
                          chain'[p][k] = chain'[p][l]
                   PROVE  k = l
        OBVIOUS
      <4>1. /\ k + 1 \in 1 .. Len(chain[p]) /\ l + 1 \in 1 .. Len(chain[p])
            /\ chain[p][k + 1] = chain[p][l + 1]
        BY <3>2
      <4>2. k + 1 = l + 1
        BY <2>1, <4>1 DEF InOrder
      <4> QED
        BY <4>2
    <3> QED
      BY <3>4, <3>5 DEF InOrder, OnlyJob
  <2>3. CASE p # of[j]
    <3>1. \A k \in 1 .. Len(chain[p]) : chain[p][k] \in Jobs \ {j}
      BY <2>1, <2>3 DEF InOrder
    <3>2. InOrder(chain[p], p, job')
      BY <2>1, <3>1 DEF InOrder, OnlyJob
    <3> QED
      BY <1>1, <2>3, <3>2
  <2> QED
    BY <2>2, <2>3
<1>3. \A i \in Jobs : Running(job'[i]) => AtHead(i)'
  <2> SUFFICES ASSUME NEW i \in Jobs, Running(job'[i]) PROVE AtHead(i)'
    OBVIOUS
  <2>1. i # j
    BY DEF InLine
  <2>2. AtHead(i)
    BY <2>1 DEF ChainsInOrder, OnlyJob
  <2>3. of[i] # of[j]
    BY <1>1, <2>1, <2>2 DEF AtHead
  <2> QED
    BY <1>1, <2>2, <2>3 DEF AtHead, OnlyJob, JobsTyped
<1> QED
  BY <1>1, <1>2, <1>3 DEF ChainsInOrder, InOrder, OnlyJob

\* Whatever a step does to its chain, chains stay in order.
LEMMA ChainKept ==
  ASSUME JobsTyped, ChainsInOrder, NEW j \in Jobs, OnlyJob(j), ChainStep(j)
  PROVE  ChainsInOrder' /\ chain' \in [Providers -> Seq(Jobs)]
BY ChainStays, ChainGrows, ChainShrinks DEF ChainStep, JobsTyped

\* The writes of DSH's store stay in order.
LEMMA SetsKept ==
  ASSUME JobsTyped, SetsInOrder, NEW j \in Jobs, OnlyJob(j), SetsStep(j)
  PROVE  SetsInOrder' /\ sets' \in Seq(Jobs)
<1>1. sets \in Seq(Jobs) /\ Len(sets) \in Nat
  BY DEF JobsTyped
<1>2. CASE sets' = sets /\ job[j].at # "setting"
  <2>1. \A k \in 1 .. Len(sets) : sets[k] \in Jobs \ {j}
    BY <1>1, <1>2 DEF SetsInOrder
  <2> QED
    BY <1>1, <1>2, <2>1 DEF SetsInOrder, OnlyJob
<1>3. CASE sets' = Append(sets, j) /\ job[j].at # "setting" /\ job'[j].at = "setting"
  <2>1. \A k \in 1 .. Len(sets) : sets[k] \in Jobs \ {j}
    BY <1>1, <1>3 DEF SetsInOrder
  <2>2. /\ sets' \in Seq(Jobs) /\ Len(sets') = Len(sets) + 1
        /\ \A k \in 1 .. Len(sets') : (k \in 1 .. Len(sets) /\ sets'[k] = sets[k])
                                      \/ (k = Len(sets) + 1 /\ sets'[k] = j)
    BY <1>1, <1>3
  <2> QED
    BY <1>1, <1>3, <2>1, <2>2 DEF SetsInOrder, OnlyJob
<1>4. CASE sets # <<>> /\ Head(sets) = j /\ sets' = Tail(sets) /\ job'[j].at # "setting"
  <2>1. sets[1] = j /\ 1 \in 1 .. Len(sets)
    BY <1>1, <1>4
  <2>2. /\ sets' \in Seq(Jobs) /\ Len(sets') = Len(sets) - 1
        /\ \A k \in 1 .. Len(sets') : sets'[k] = sets[k + 1] /\ k + 1 \in 1 .. Len(sets)
    BY <1>1, <1>4
  <2>3. \A k \in 1 .. Len(sets') : sets'[k] \in Jobs \ {j}
    <3> SUFFICES ASSUME NEW k \in 1 .. Len(sets') PROVE sets'[k] \in Jobs \ {j}
      OBVIOUS
    <3>1. k + 1 \in 1 .. Len(sets) /\ k + 1 # 1 /\ sets'[k] = sets[k + 1]
      BY <1>1, <2>2
    <3> QED
      BY <1>1, <2>1, <3>1 DEF SetsInOrder
  <2>4. \A k, l \in 1 .. Len(sets') : sets'[k] = sets'[l] => k = l
    <3> SUFFICES ASSUME NEW k \in 1 .. Len(sets'), NEW l \in 1 .. Len(sets'), sets'[k] = sets'[l]
                 PROVE  k = l
      OBVIOUS
    <3>1. k + 1 = l + 1
      BY <2>2 DEF SetsInOrder
    <3> QED
      BY <3>1
  <2>5. \A k \in 1 .. Len(sets') : job'[sets'[k]].at = "setting"
    BY <2>2, <2>3 DEF SetsInOrder, OnlyJob
  <2> QED
    BY <2>2, <2>4, <2>5 DEF SetsInOrder
<1> QED
  BY <1>2, <1>3, <1>4 DEF SetsStep, SetsLeft

\* An entry of a queue that is not its first is found again when the first leaves.
LEMMA TailKeeps ==
  ASSUME NEW s \in Seq(Jobs), s # <<>>, NEW i \in Jobs, i # Head(s),
         \E k \in 1 .. Len(s) : s[k] = i
  PROVE  \E k \in 1 .. Len(Tail(s)) : Tail(s)[k] = i
<1>1. PICK k \in 1 .. Len(s) : s[k] = i
  OBVIOUS
<1>2. k # 1
  BY <1>1
<1>3. k - 1 \in 1 .. Len(Tail(s)) /\ Tail(s)[k - 1] = s[k]
  BY <1>2
<1> QED
  BY <1>1, <1>3

\* Appending puts one more at the end and moves nobody.
LEMMA AppendKeeps ==
  ASSUME NEW s \in Seq(Jobs), NEW j \in Jobs, NEW i \in Jobs,
         i = j \/ \E k \in 1 .. Len(s) : s[k] = i
  PROVE  \E k \in 1 .. Len(Append(s, j)) : Append(s, j)[k] = i
<1>1. /\ Len(Append(s, j)) = Len(s) + 1 /\ Append(s, j)[Len(s) + 1] = j
      /\ Len(s) \in Nat /\ \A k \in 1 .. Len(s) : Append(s, j)[k] = s[k]
  OBVIOUS
<1>2. CASE i = j
  BY <1>1, <1>2
<1>3. CASE \E k \in 1 .. Len(s) : s[k] = i
  BY <1>1, <1>3
<1> QED
  BY <1>2, <1>3

\* No step takes a job off its queue before its turn.
LEMMA EnlistedKept ==
  ASSUME JobsTyped, Enlisted, NEW j \in Jobs, OnlyJob(j), ChainStep(j), SetsStep(j)
  PROVE  Enlisted'
<1>1. ASSUME NEW i \in Jobs, InLine(job'[i])
      PROVE  \E k \in 1 .. Len(chain'[of[i]]) : chain'[of[i]][k] = i
  <2>1. chain \in [Providers -> Seq(Jobs)] /\ of[i] \in Providers /\ of[j] \in Providers
    BY DEF JobsTyped
  <2>2. i # j => \E k \in 1 .. Len(chain[of[i]]) : chain[of[i]][k] = i
    BY <1>1 DEF Enlisted, OnlyJob
  <2>3. CASE chain' = chain /\ (InLine(job[j]) <=> InLine(job'[j]))
    BY <1>1, <2>2, <2>3 DEF Enlisted
  <2>4. CASE Enqueue(j)
    <3>1. chain' = [chain EXCEPT ![of[j]] = Append(chain[of[j]], j)]
      BY <2>4 DEF Enqueue
    <3>2. CASE of[i] = of[j]
      <4>1. chain'[of[i]] = Append(chain[of[i]], j) /\ chain[of[i]] \in Seq(Jobs)
        BY <2>1, <3>1, <3>2
      <4>2. \E k \in 1 .. Len(Append(chain[of[i]], j)) : Append(chain[of[i]], j)[k] = i
        BY <2>2, <4>1, AppendKeeps
      <4> QED
        BY <4>1, <4>2
    <3>3. CASE of[i] # of[j]
      BY <2>1, <2>2, <3>1, <3>3
    <3> QED
      BY <3>2, <3>3
  <2>5. CASE LeaveChain(j) /\ AtHead(j) /\ ~InLine(job'[j])
    <3>1. /\ chain' = [chain EXCEPT ![of[j]] = Tail(chain[of[j]])]
          /\ chain[of[j]] # <<>> /\ Head(chain[of[j]]) = j /\ i # j
      BY <1>1, <2>5 DEF LeaveChain, AtHead
    <3>2. CASE of[i] = of[j]
      <4>1. chain'[of[i]] = Tail(chain[of[i]]) /\ chain[of[i]] \in Seq(Jobs)
        BY <2>1, <3>1, <3>2
      <4>2. i # Head(chain[of[i]]) /\ chain[of[i]] # <<>>
        BY <3>1, <3>2
      <4>3. \E k \in 1 .. Len(Tail(chain[of[i]])) : Tail(chain[of[i]])[k] = i
        BY <2>2, <3>1, <4>1, <4>2, TailKeeps
      <4> QED
        BY <4>1, <4>3
    <3>3. CASE of[i] # of[j]
      BY <2>1, <2>2, <3>1, <3>3
    <3> QED
      BY <3>2, <3>3
  <2> QED
    BY <2>3, <2>4, <2>5 DEF ChainStep
<1>2. ASSUME NEW i \in Jobs, job'[i].at = "setting"
      PROVE  \E k \in 1 .. Len(sets') : sets'[k] = i
  <2>1. sets \in Seq(Jobs)
    BY DEF JobsTyped
  <2>2. i # j => \E k \in 1 .. Len(sets) : sets[k] = i
    BY <1>2 DEF Enlisted, OnlyJob
  <2>3. CASE sets' = sets /\ job'[j].at # "setting"
    BY <1>2, <2>2, <2>3
  <2>4. CASE sets' = Append(sets, j)
    BY <2>1, <2>2, <2>4, AppendKeeps
  <2>5. CASE sets # <<>> /\ Head(sets) = j /\ sets' = Tail(sets) /\ job'[j].at # "setting"
    BY <1>2, <2>1, <2>2, <2>5, TailKeeps
  <2> QED
    BY <2>3, <2>4, <2>5 DEF SetsStep, SetsLeft
<1> QED
  BY <1>1, <1>2 DEF Enlisted, OnlyJob

-----------------------------------------------------------------------------
(* Steps that leave memory, file and credentials alone.                    *)

\* What such a step of j does to j's record, to its queues and to DSH.
QuietStep(j) ==
  /\ UNCHANGED <<mem, disk, credVars, userVars, crashes>>
  /\ OnlyJob(j) /\ job' \in [Jobs -> JobRecord] /\ OfKind(job'[j])
  /\ ChainStep(j) /\ SetsStep(j) /\ HostTyped'
  /\ \A p \in Providers : job'[j].snap[p] \in {None, job[j].snap[p]}
  /\ job'[j].at \notin {"storing", "writing", "saving"}
  /\ job'[j].at = "refreshing" => job'[j].cred # None /\ mem[of[j]] = job'[j].cred
  /\ job'[j].at \in {"holding", "setting"} =>
       \/ job[j].at = "holding" /\ job'[j].cred = job[j].cred
       \/ job'[j].cred # None /\ mem[of[j]] = job'[j].cred /\ ~ExpiresSoon(job'[j].cred)
  /\ \A p \in Providers : \/ memo'[p] = memo[p] /\ ref'[p] = ref[p]
                          \/ memo'[p] = ref'[p]

\* Types, queues and kinds, which every step keeps.
WellFormed ==
  /\ StoreTyped /\ JobsTyped /\ HostTyped
  /\ ChainsInOrder /\ SetsInOrder /\ Enlisted /\ Kinds

\* The inductive invariant of RefreshOnce: o says whose each credential is.
StoreInvOf(o) == WellFormed /\ Kept(o) /\ Unstored /\ OnMemory /\ Alive
StoreInv == \E o \in [Creds -> Providers] : StoreInvOf(o)

\* The record of one job replaced.
LEMMA RecordReplaced ==
  ASSUME JobsTyped, NEW j \in Jobs, NEW r \in JobRecord, of' = of, job' = [job EXCEPT ![j] = r]
  PROVE  OnlyJob(j) /\ job' \in [Jobs -> JobRecord] /\ job'[j] = r
BY DEF JobsTyped, OnlyJob

\* The jobs begin: a signing-out, a request, a mount.
LEMMA BeginIsQuiet ==
  ASSUME WellFormed, NEW j \in Jobs, SignOut(j) \/ Request(j) \/ Restore(j)
  PROVE  QuietStep(j)
<1>1. job[j] \in JobRecord /\ of[j] \in Providers
  BY DEF WellFormed, JobsTyped
<1>2. ASSUME NEW r \in JobRecord, job' = [job EXCEPT ![j] = r], of' = of,
             UNCHANGED <<mem, disk, hostVars, credVars, userVars, crashes>>,
             OfKind(r), r.snap = Idle.snap, r.at \in {"deleting", "resolving", "routing"},
             ChainStep(j), job[j].at = "idle"
      PROVE  QuietStep(j)
  <2>1. OnlyJob(j) /\ job' \in [Jobs -> JobRecord] /\ job'[j] = r
    BY <1>2, RecordReplaced DEF WellFormed
  <2>2. SetsStep(j) /\ HostTyped'
    BY <1>2 DEF SetsStep, SetsLeft, HostTyped, WellFormed, hostVars
  <2>3. UNCHANGED <<mem, disk, ref, memo, credVars, userVars, crashes>>
    BY <1>2 DEF hostVars
  <2>4. \A p \in Providers : job'[j].snap[p] = None
    <3>1. \A p \in Providers : Idle.snap[p] = None
      BY IdleShape
    <3> QED
      BY <1>2, <2>1, <3>1
  <2> QED
    BY <1>2, <2>1, <2>2, <2>3, <2>4 DEF QuietStep
<1>3. CASE SignOut(j)
  <2> DEFINE r == [Idle EXCEPT !.kind = "logout", !.at = "deleting"]
  <2>1. r \in JobRecord /\ OfKind(r) /\ r.snap = Idle.snap /\ r.at = "deleting"
    BY DEF JobRecord, JobStates, OfKind, Idle, None
  <2>2. job' = [job EXCEPT ![j] = r] /\ job'[j] = r /\ of' = of /\ job[j].at = "idle"
    BY <1>3, <2>1, RecordReplaced DEF SignOut, WellFormed
  <2>3. OnlyJob(j)
    BY <2>1, <2>2, RecordReplaced DEF WellFormed
  <2> HIDE DEF r
  <2>4. ChainStep(j)
    BY <1>3, <2>1, <2>2 DEF SignOut, ChainStep, InLine, Running
  <2> QED
    BY <1>2, <1>3, <2>1, <2>2, <2>4 DEF SignOut
<1>4. CASE Request(j)
  <2> DEFINE waits == mem[of[j]] = None \/ Expired(mem[of[j]])
             r == [Idle EXCEPT !.kind = "request", !.at = "resolving", !.waits = waits]
  <2>1. r \in JobRecord /\ OfKind(r) /\ r.snap = Idle.snap /\ r.at = "resolving"
    <3>1. waits \in BOOLEAN
      OBVIOUS
    <3> HIDE DEF waits
    <3>2. r.at = "resolving" /\ r.kind = "request" /\ r.snap = Idle.snap
      BY DEF Idle
    <3>3. r \in JobRecord
      BY <3>1 DEF Idle, None, JobRecord, JobStates
    <3> QED
      BY <3>2, <3>3 DEF OfKind
  <2>2. job' = [job EXCEPT ![j] = r] /\ job'[j] = r /\ of' = of /\ job[j].at = "idle"
    <3>1. job' = [job EXCEPT ![j] = r] /\ of' = of /\ job[j].at = "idle"
      BY <1>4, Zenon DEF Request
    <3> HIDE DEF r
    <3> QED
      BY <2>1, <3>1, RecordReplaced DEF WellFormed
  <2> HIDE DEF r
  <2>4. ChainStep(j)
    BY <1>4, <2>1, <2>2 DEF Request, storeVars, ChainStep, InLine, Running
  <2> QED
    BY <1>2, <1>4, <2>1, <2>2, <2>4 DEF Request, storeVars
<1>5. CASE Restore(j)
  <2> DEFINE r == [Idle EXCEPT !.kind = "restore", !.at = "routing"]
  <2>1. r \in JobRecord /\ OfKind(r) /\ r.snap = Idle.snap /\ r.at = "routing"
    BY DEF JobRecord, JobStates, OfKind, Idle, None
  <2>2. job' = [job EXCEPT ![j] = r] /\ job'[j] = r /\ of' = of /\ job[j].at = "idle"
    BY <1>5, <2>1, RecordReplaced DEF Restore, WellFormed
  <2> HIDE DEF r
  <2>4. ChainStep(j)
    BY <1>5, <2>1, <2>2 DEF Restore, storeVars, ChainStep, InLine, Running
  <2> QED
    BY <1>2, <1>5, <2>1, <2>2, <2>4 DEF Restore, storeVars
<1> QED
  BY <1>3, <1>4, <1>5

\* A job goes on, holds a credential, ends: what that makes of its record.
LEMMA RecordSteps ==
  ASSUME JobsTyped, NEW j \in Jobs, of' = of
  PROVE  /\ \A at \in JobStates : Goes(j, at) =>
              /\ OnlyJob(j) /\ job' \in [Jobs -> JobRecord]
              /\ job'[j].at = at /\ job'[j].kind = job[j].kind /\ job'[j].cred = job[j].cred
              /\ job'[j].snap = job[j].snap /\ job'[j].ok = job[j].ok
         /\ \A c \in Creds \cup {None} : Holds(j, c) =>
              /\ OnlyJob(j) /\ job' \in [Jobs -> JobRecord]
              /\ job'[j].at = "holding" /\ job'[j].kind = job[j].kind /\ job'[j].cred = c
              /\ job'[j].snap = job[j].snap /\ job'[j].ok = job[j].ok
         /\ \A ok \in BOOLEAN : Ends(j, ok) =>
              /\ OnlyJob(j) /\ job' \in [Jobs -> JobRecord]
              /\ job'[j].at = "done" /\ job'[j].kind = "none" /\ job'[j].ok = ok
              /\ \A p \in Providers : job'[j].snap[p] = None
<1>1. job[j] \in JobRecord
  BY DEF JobsTyped
<1>2. ASSUME NEW at \in JobStates, Goes(j, at)
      PROVE  /\ OnlyJob(j) /\ job' \in [Jobs -> JobRecord]
             /\ job'[j].at = at /\ job'[j].kind = job[j].kind /\ job'[j].cred = job[j].cred
             /\ job'[j].snap = job[j].snap /\ job'[j].ok = job[j].ok
  <2> DEFINE r == [job[j] EXCEPT !.at = at]
  <2>1. job' = [job EXCEPT ![j] = r]
    BY <1>2 DEF Goes
  <2>2. r \in JobRecord /\ r.at = at /\ r.kind = job[j].kind /\ r.cred = job[j].cred
        /\ r.snap = job[j].snap /\ r.ok = job[j].ok
    BY <1>1 DEF JobRecord
  <2> HIDE DEF r
  <2> QED
    BY <2>1, <2>2, RecordReplaced
<1>3. ASSUME NEW c \in Creds \cup {None}, Holds(j, c)
      PROVE  /\ OnlyJob(j) /\ job' \in [Jobs -> JobRecord]
             /\ job'[j].at = "holding" /\ job'[j].kind = job[j].kind /\ job'[j].cred = c
             /\ job'[j].snap = job[j].snap /\ job'[j].ok = job[j].ok
  <2> DEFINE r == [job[j] EXCEPT !.at = "holding", !.cred = c]
  <2>1. job' = [job EXCEPT ![j] = r]
    BY <1>3 DEF Holds
  <2>2. r \in JobRecord /\ r.at = "holding" /\ r.kind = job[j].kind /\ r.cred = c
        /\ r.snap = job[j].snap /\ r.ok = job[j].ok
    BY <1>1 DEF JobRecord, JobStates
  <2> HIDE DEF r
  <2> QED
    BY <2>1, <2>2, RecordReplaced
<1>4. ASSUME NEW ok \in BOOLEAN, Ends(j, ok)
      PROVE  /\ OnlyJob(j) /\ job' \in [Jobs -> JobRecord]
             /\ job'[j].at = "done" /\ job'[j].kind = "none" /\ job'[j].ok = ok
             /\ \A p \in Providers : job'[j].snap[p] = None
  <2> DEFINE r == [Idle EXCEPT !.at = "done", !.ok = ok]
  <2>1. job' = [job EXCEPT ![j] = r]
    BY <1>4 DEF Ends
  <2>2. r \in JobRecord /\ r.at = "done" /\ r.kind = "none" /\ r.ok = ok /\ r.snap = Idle.snap
    <3>1. r = [Idle EXCEPT !.at = "done", !.ok = ok]
      OBVIOUS
    <3> HIDE DEF r
    <3> QED
      BY <3>1, EndShape, ZenonT(30)
  <2> HIDE DEF r
  <2> QED
    BY <2>1, <2>2, RecordReplaced, IdleShape
<1> QED
  BY <1>2, <1>3, <1>4

\* A job that only ends is quiet, whether it leaves its chain or was in none.
LEMMA EndIsQuiet ==
  ASSUME WellFormed, NEW j \in Jobs, NEW ok \in BOOLEAN, Ends(j, ok), of' = of,
         UNCHANGED <<mem, disk, credVars, userVars, crashes>>,
         \/ chain' = chain /\ ~InLine(job[j])
         \/ LeaveChain(j) /\ AtHead(j),
         SetsLeft(j), HostTyped',
         \A p \in Providers : (memo'[p] = memo[p] /\ ref'[p] = ref[p]) \/ memo'[p] = ref'[p]
  PROVE  QuietStep(j)
<1>1. /\ OnlyJob(j) /\ job' \in [Jobs -> JobRecord] /\ job'[j].at = "done"
      /\ \A p \in Providers : job'[j].snap[p] = None
  BY RecordSteps DEF WellFormed
<1>2. OfKind(job'[j]) /\ ~InLine(job'[j])
  BY <1>1 DEF OfKind, InLine, Running
<1>3. ChainStep(j) /\ SetsStep(j)
  BY <1>1, <1>2 DEF ChainStep, InLine, SetsStep
<1> QED
  BY <1>1, <1>2, <1>3 DEF QuietStep

\* A renewal's second look, its failure, a write that fails.
LEMMA ChainIsQuiet ==
  ASSUME WellFormed, NEW j \in Jobs, CheckAgain(j) \/ RefreshFails(j) \/ FileNotWritten(j)
  PROVE  QuietStep(j)
<1>1. job[j] \in JobRecord /\ of[j] \in Providers /\ OfKind(job[j])
      /\ mem[of[j]] \in Creds \cup {None}
  BY DEF WellFormed, JobsTyped, StoreTyped, Kinds
<1>2. Running(job[j]) => AtHead(j)
  BY DEF WellFormed, ChainsInOrder
<1>3. HostTyped' /\ of' = of /\ UNCHANGED <<mem, disk, credVars, userVars, crashes>>
      /\ memo' = memo /\ ref' = ref /\ sets' = sets
  BY DEF CheckAgain, RefreshFails, FileNotWritten, storeVars, hostVars, HostTyped, WellFormed
<1>4. job[j].at # "setting" /\ SetsLeft(j)
  BY <1>3 DEF CheckAgain, RefreshFails, FileNotWritten, SetsLeft
<1>5. CASE CheckAgain(j)
  <2>1. job[j].at = "renewing" /\ AtHead(j)
    BY <1>5 DEF CheckAgain
  <2>2. CASE LeaveChain(j) /\ Ends(j, FALSE)
    BY <1>3, <1>4, <2>1, <2>2, EndIsQuiet
  <2>3. CASE LeaveChain(j) /\ mem[of[j]] # None /\ ~ExpiresSoon(mem[of[j]]) /\ Holds(j, mem[of[j]])
    <3>1. /\ OnlyJob(j) /\ job' \in [Jobs -> JobRecord]
          /\ job'[j].at = "holding" /\ job'[j].kind = job[j].kind /\ job'[j].cred = mem[of[j]]
          /\ job'[j].snap = job[j].snap
      BY <1>1, <1>3, <2>3, RecordSteps DEF WellFormed
    <3>2. OfKind(job'[j]) /\ ~InLine(job'[j])
      BY <1>1, <2>1, <3>1 DEF OfKind, InLine, Running
    <3>3. ChainStep(j) /\ SetsStep(j)
      BY <1>4, <2>1, <2>3, <3>1, <3>2 DEF ChainStep, SetsStep
    <3> QED
      BY <1>3, <1>4, <2>3, <3>1, <3>2, <3>3 DEF QuietStep
  <2>4. CASE /\ mem[of[j]] # None /\ chain' = chain
             /\ job' = [job EXCEPT ![j].at = "refreshing", ![j].cred = mem[of[j]]]
    <3> DEFINE r == [job[j] EXCEPT !.at = "refreshing", !.cred = mem[of[j]]]
    <3>1. job' = [job EXCEPT ![j] = r]
      BY <2>4
    <3>2. r \in JobRecord /\ r.at = "refreshing" /\ r.kind = job[j].kind /\ r.cred = mem[of[j]]
          /\ r.snap = job[j].snap
      BY <1>1 DEF JobRecord, JobStates
    <3> HIDE DEF r
    <3>3. OnlyJob(j) /\ job' \in [Jobs -> JobRecord] /\ job'[j] = r
      BY <1>3, <3>1, <3>2, RecordReplaced DEF WellFormed
    <3>4. OfKind(r) /\ InLine(r) /\ ChainStep(j) /\ SetsStep(j)
      BY <1>1, <1>4, <2>1, <2>4, <3>2, <3>3 DEF OfKind, InLine, Running, ChainStep, SetsStep
    <3> QED
      BY <1>3, <1>4, <2>4, <3>2, <3>3, <3>4 DEF QuietStep
  <2> QED
    BY <1>5, <2>2, <2>3, <2>4 DEF CheckAgain
<1>6. CASE RefreshFails(j)
  BY <1>2, <1>3, <1>4, <1>6, EndIsQuiet DEF RefreshFails, Running
<1>7. CASE FileNotWritten(j)
  <2>1. CASE job[j].kind = "logout"
    <3>1. ~InLine(job[j]) /\ chain' = chain
      BY <1>1, <1>7, <2>1 DEF FileNotWritten, OfKind, InLine, Running
    <3> QED
      BY <1>3, <1>4, <1>7, <3>1, EndIsQuiet DEF FileNotWritten
  <2>2. CASE job[j].kind # "logout"
    <3>1. AtHead(j) /\ LeaveChain(j)
      BY <1>1, <1>2, <1>7, <2>2 DEF FileNotWritten, OfKind, Running
    <3> QED
      BY <1>3, <1>4, <1>7, <3>1, EndIsQuiet DEF FileNotWritten
  <2> QED
    BY <2>1, <2>2
<1> QED
  BY <1>5, <1>6, <1>7

\* From a credential to DSH: up to the hand-over.
LEMMA ResolveIsQuiet ==
  ASSUME WellFormed, NEW j \in Jobs, Route(j) \/ Resolve(j) \/ Declare(j)
  PROVE  QuietStep(j)
<1>1. job[j] \in JobRecord /\ of[j] \in Providers /\ OfKind(job[j])
      /\ mem[of[j]] \in Creds \cup {None}
  BY DEF WellFormed, JobsTyped, StoreTyped, Kinds
<1>2. HostTyped' /\ of' = of /\ UNCHANGED <<mem, disk, credVars, userVars, crashes>>
      /\ memo' = memo /\ ref' = ref /\ sets' = sets
  BY <1>1 DEF Route, Resolve, Declare, storeVars, hostVars, HostTyped, WellFormed
<1>3. job[j].at \in {"routing", "resolving", "declaring"} /\ ~InLine(job[j]) /\ SetsLeft(j)
  BY <1>2 DEF Route, Resolve, Declare, SetsLeft, InLine, Running
<1>4. ASSUME NEW ok \in BOOLEAN, Ends(j, ok), chain' = chain PROVE QuietStep(j)
  BY <1>2, <1>3, <1>4, EndIsQuiet
<1>5. CASE Route(j)
  <2>1. CASE mem[of[j]] = None
    BY <1>4, <1>5, <2>1 DEF Route, storeVars
  <2>2. CASE mem[of[j]] # None
    <3> DEFINE b == of[j] \in declared
               r == [job[j] EXCEPT !.at = "resolving", !.routed = b]
    <3>0. b \in BOOLEAN
      OBVIOUS
    <3>a. job' = [job EXCEPT ![j].at = "resolving", ![j].routed = b]
      BY <1>5, <2>2, Zenon DEF Route
    <3> HIDE DEF b
    <3>1. job' = [job EXCEPT ![j] = r]
      BY <3>a
    <3>2. r \in JobRecord /\ r.at = "resolving" /\ r.kind = job[j].kind /\ r.snap = job[j].snap
      BY <1>1, <3>0 DEF JobRecord, JobStates
    <3> HIDE DEF r
    <3>3. OnlyJob(j) /\ job' \in [Jobs -> JobRecord] /\ job'[j] = r
      BY <1>2, <3>1, <3>2, RecordReplaced DEF WellFormed
    <3>4. OfKind(r) /\ ChainStep(j) /\ SetsStep(j)
      BY <1>1, <1>3, <1>5, <3>2, <3>3 DEF Route, storeVars, OfKind, InLine, Running, ChainStep, SetsStep
    <3> QED
      BY <1>2, <1>3, <3>2, <3>3, <3>4 DEF QuietStep
  <2> QED
    BY <2>1, <2>2
<1>6. CASE Resolve(j)
  <2>1. CASE Ends(j, FALSE) /\ chain' = chain
    BY <1>4, <2>1
  <2>2. CASE mem[of[j]] # None /\ ~ExpiresSoon(mem[of[j]]) /\ Holds(j, mem[of[j]]) /\ chain' = chain
    <3>1. /\ OnlyJob(j) /\ job' \in [Jobs -> JobRecord]
          /\ job'[j].at = "holding" /\ job'[j].kind = job[j].kind /\ job'[j].cred = mem[of[j]]
          /\ job'[j].snap = job[j].snap
      BY <1>1, <1>2, <2>2, RecordSteps DEF WellFormed
    <3>2. OfKind(job'[j]) /\ ChainStep(j) /\ SetsStep(j)
      BY <1>1, <1>3, <1>6, <2>2, <3>1 DEF Resolve, OfKind, InLine, Running, ChainStep, SetsStep
    <3> QED
      BY <1>2, <1>3, <2>2, <3>1, <3>2 DEF QuietStep
  <2>3. CASE Enqueue(j) /\ job' = [job EXCEPT ![j].at = "renewing", ![j].cred = mem[of[j]]]
    <3> DEFINE r == [job[j] EXCEPT !.at = "renewing", !.cred = mem[of[j]]]
    <3>1. job' = [job EXCEPT ![j] = r]
      BY <2>3
    <3>2. r \in JobRecord /\ r.at = "renewing" /\ r.kind = job[j].kind /\ r.snap = job[j].snap
      BY <1>1 DEF JobRecord, JobStates
    <3> HIDE DEF r
    <3>3. OnlyJob(j) /\ job' \in [Jobs -> JobRecord] /\ job'[j] = r
      BY <1>2, <3>1, <3>2, RecordReplaced DEF WellFormed
    <3>4. OfKind(r) /\ ChainStep(j) /\ SetsStep(j)
      BY <1>1, <1>3, <1>6, <2>3, <3>2, <3>3 DEF Resolve, OfKind, InLine, Running, ChainStep, SetsStep
    <3> QED
      BY <1>2, <1>3, <3>2, <3>3, <3>4 DEF QuietStep
  <2> QED
    BY <1>6, <2>1, <2>2, <2>3 DEF Resolve
<1>7. CASE Declare(j)
  BY <1>4, <1>7 DEF Declare, storeVars
<1> QED
  BY <1>5, <1>6, <1>7

\* The hand-over: what publishing makes of a job, by its kind.
LEMMA PublishedSteps ==
  ASSUME WellFormed, NEW j \in Jobs, of' = of, Published(j), job[j].kind \in {"login", "request", "restore"}
  PROVE  /\ \/ Ends(j, TRUE)
            \/ Goes(j, "declaring") /\ job[j].kind \in {"login", "restore"}
         /\ hooked' \in BOOLEAN
BY DEF Published, WellFormed, HostTyped

\* The hand-over: the check against the memo, and DSH's answers.
LEMMA PublishIsQuiet ==
  ASSUME WellFormed, NEW j \in Jobs, PublishKey(j) \/ KeySet(j) \/ KeyNotSet(j)
  PROVE  QuietStep(j)
<1>1. job[j] \in JobRecord /\ of[j] \in Providers /\ OfKind(job[j])
  BY DEF WellFormed, JobsTyped, Kinds
<1>2. of' = of /\ chain' = chain /\ UNCHANGED <<mem, disk, credVars, userVars, crashes>>
  BY DEF PublishKey, KeySet, KeyNotSet, storeVars
<1>3. ASSUME sets # <<>>, Head(sets) = j PROVE job[j].at = "setting"
  <2>1. sets \in Seq(Jobs) /\ 1 \in 1 .. Len(sets) /\ sets[1] = j
    BY <1>3 DEF WellFormed, JobsTyped
  <2> QED
    BY <2>1 DEF WellFormed, SetsInOrder
<1>4. job[j].at \in {"holding", "setting"} /\ ~InLine(job[j])
  BY <1>3 DEF PublishKey, KeySet, KeyNotSet, InLine, Running
<1>5. job[j].kind \in {"login", "request", "restore"}
  BY <1>1, <1>4 DEF OfKind
<1>6. ASSUME Published(j), SetsLeft(j), HostTyped',
             \A p \in Providers : (memo'[p] = memo[p] /\ ref'[p] = ref[p]) \/ memo'[p] = ref'[p]
      PROVE  QuietStep(j)
  <2>1. CASE Ends(j, TRUE)
    BY <1>2, <1>4, <1>6, <2>1, EndIsQuiet
  <2>2. CASE Goes(j, "declaring") /\ job[j].kind \in {"login", "restore"}
    <3>1. /\ OnlyJob(j) /\ job' \in [Jobs -> JobRecord]
          /\ job'[j].at = "declaring" /\ job'[j].kind = job[j].kind /\ job'[j].snap = job[j].snap
      BY <1>2, <2>2, RecordSteps DEF WellFormed, JobStates
    <3>2. OfKind(job'[j]) /\ ChainStep(j) /\ SetsStep(j)
      BY <1>2, <1>4, <1>6, <2>2, <3>1 DEF OfKind, InLine, Running, ChainStep, SetsStep
    <3> QED
      BY <1>2, <1>6, <3>1, <3>2 DEF QuietStep
  <2> QED
    BY <1>2, <1>5, <1>6, <2>1, <2>2, PublishedSteps
<1>7. CASE PublishKey(j)
  <2>1. CASE memo[of[j]] = job[j].cred
    <3>1. Published(j) /\ sets' = sets /\ memo' = memo /\ ref' = ref /\ declared' = declared
          /\ job[j].at = "holding"
      BY <1>7, <2>1 DEF PublishKey
    <3>2. HostTyped' /\ SetsLeft(j)
      BY <1>2, <1>5, <3>1, PublishedSteps DEF WellFormed, HostTyped, SetsLeft
    <3> QED
      BY <1>6, <3>1, <3>2
  <2>2. CASE memo[of[j]] # job[j].cred
    <3>1. /\ Goes(j, "setting") /\ sets' = Append(sets, j) /\ job[j].at = "holding"
          /\ UNCHANGED <<ref, memo, declared, hooked>>
      BY <1>7, <2>2 DEF PublishKey
    <3>2. /\ OnlyJob(j) /\ job' \in [Jobs -> JobRecord] /\ job'[j].at = "setting"
          /\ job'[j].kind = job[j].kind /\ job'[j].cred = job[j].cred /\ job'[j].snap = job[j].snap
      BY <1>2, <3>1, RecordSteps DEF WellFormed, JobStates
    <3>3. OfKind(job'[j]) /\ ChainStep(j) /\ SetsStep(j)
      BY <1>2, <1>4, <1>5, <3>1, <3>2 DEF OfKind, InLine, Running, ChainStep, SetsStep
    <3>4. HostTyped'
      BY <3>1 DEF WellFormed, HostTyped
    <3> QED
      BY <1>2, <3>1, <3>2, <3>3, <3>4 DEF QuietStep
  <2> QED
    BY <2>1, <2>2
<1>8. CASE KeySet(j)
  <2>1. /\ sets # <<>> /\ Head(sets) = j /\ sets' = Tail(sets) /\ Published(j) /\ declared' = declared
        /\ ref' = [ref EXCEPT ![of[j]] = job[j].cred] /\ memo' = [memo EXCEPT ![of[j]] = job[j].cred]
    BY <1>8 DEF KeySet
  <2>2. job[j].cred \in Creds \cup {None}
    BY <1>1 DEF JobRecord
  <2>3. HostTyped' /\ SetsLeft(j)
    BY <1>1, <1>2, <1>5, <2>1, <2>2, PublishedSteps DEF WellFormed, HostTyped, SetsLeft
  <2>4. \A p \in Providers : (memo'[p] = memo[p] /\ ref'[p] = ref[p]) \/ memo'[p] = ref'[p]
    BY <1>1, <2>1 DEF WellFormed, HostTyped
  <2> QED
    BY <1>6, <2>1, <2>3, <2>4
<1>9. CASE KeyNotSet(j)
  <2>1. /\ sets # <<>> /\ Head(sets) = j /\ sets' = Tail(sets) /\ Ends(j, FALSE)
        /\ UNCHANGED <<ref, memo, declared, hooked>>
    BY <1>9 DEF KeyNotSet
  <2>2. HostTyped' /\ SetsLeft(j)
    BY <2>1 DEF WellFormed, HostTyped, SetsLeft
  <2> QED
    BY <1>2, <1>4, <2>1, <2>2, EndIsQuiet
<1> QED
  BY <1>7, <1>8, <1>9

\* What a quiet step keeps of the queues and of the records.
LEMMA QuietKeepsForm ==
  ASSUME WellFormed, NEW j \in Jobs, QuietStep(j)
  PROVE  WellFormed'
<1>1. ChainsInOrder' /\ chain' \in [Providers -> Seq(Jobs)]
  BY ChainKept DEF WellFormed, QuietStep
<1>2. SetsInOrder' /\ sets' \in Seq(Jobs)
  BY SetsKept DEF WellFormed, QuietStep
<1>3. JobsTyped' /\ Kinds'
  BY <1>1, <1>2 DEF WellFormed, QuietStep, OnlyJob, JobsTyped, Kinds
<1>4. StoreTyped'
  BY DEF WellFormed, QuietStep, credVars, userVars, StoreTyped
<1>5. Enlisted'
  BY EnlistedKept DEF WellFormed, QuietStep
<1> QED
  BY <1>1, <1>2, <1>3, <1>4, <1>5 DEF WellFormed, QuietStep

\* A quiet step keeps every credential where it belongs.
LEMMA QuietKeepsStore ==
  ASSUME WellFormed, NEW j \in Jobs, QuietStep(j), NEW o \in [Creds -> Providers],
         Kept(o), Unstored, OnMemory, Alive
  PROVE  Kept(o)' /\ Unstored' /\ OnMemory' /\ Alive'
<1>1. /\ UNCHANGED <<mem, disk, issued, root, spent, committed, of>>
      /\ \A i \in Jobs \ {j} : job'[i] = job[i]
      /\ job'[j].at # "storing"
  BY DEF QuietStep, credVars, userVars, OnlyJob
<1>2. Kept(o)'
  <2>1. \A i \in Jobs, p \in Providers : job'[i].snap[p] \in {None, job[i].snap[p]}
    BY <1>1 DEF QuietStep
  <2> QED
    BY <1>1, <2>1 DEF Kept, Belongs
<1>3. Unstored'
  BY <1>1 DEF Unstored
<1>4. OnMemory'
  BY <1>1 DEF OnMemory, Running, QuietStep
<1>5. Alive'
  BY <1>1 DEF Alive
<1> QED
  BY <1>2, <1>3, <1>4, <1>5

\* It cannot bring back what was signed out of, nor spoil what is handed over.
LEMMA QuietKeepsRest ==
  ASSUME WellFormed, NEW j \in Jobs, QuietStep(j), NEW o \in [Creds -> Providers], Kept(o)
  PROVE  /\ SignedOut => SignedOut'
         /\ Handed => Handed'
<1>1. /\ UNCHANGED <<mem, disk, issued, age, out, of>>
      /\ \A i \in Jobs \ {j} : job'[i] = job[i]
      /\ job'[j].at \notin {"storing", "writing", "saving"}
      /\ job'[j].at = "refreshing" => mem[of[j]] # None
      /\ of[j] \in Providers
  BY DEF QuietStep, credVars, userVars, OnlyJob, WellFormed, JobsTyped
<1>2. ASSUME SignedOut PROVE SignedOut'
  <2>1. \A i \in Jobs : job'[i].at = "writing" /\ job'[i].kind = "logout" => job'[i].snap[of'[i]] = None
    BY <1>1, <1>2 DEF SignedOut
  <2>2. ASSUME NEW p \in out, NEW i \in Jobs, of[i] = p
        PROVE  ~Running(job'[i]) /\ job'[i].at # "storing"
    BY <1>1, <1>2, <2>2 DEF SignedOut, Running, WellFormed, StoreTyped
  <2> QED
    BY <1>1, <1>2, <2>1, <2>2 DEF SignedOut
<1>3. ASSUME Handed PROVE Handed'
  <2>1. ASSUME job'[j].at \in {"holding", "setting"}
        PROVE  job'[j].cred \in 1 .. issued /\ age[job'[j].cred] = 0
    <3>1. CASE job[j].at = "holding" /\ job'[j].cred = job[j].cred
      BY <1>3, <3>1 DEF Handed
    <3>2. CASE job'[j].cred # None /\ mem[of[j]] = job'[j].cred /\ ~ExpiresSoon(job'[j].cred)
      <4>1. mem[of[j]] \in 1 .. issued /\ mem[of[j]] \in Creds
        BY <1>1, <3>2 DEF Kept, Belongs, WellFormed, StoreTyped
      <4> QED
        BY <3>2, <4>1 DEF ExpiresSoon, WellFormed, StoreTyped
    <3> QED
      BY <2>1, <3>1, <3>2 DEF QuietStep
  <2>2. \A p \in Providers : memo'[p] # None => ref'[p] = memo'[p]
    BY <1>3 DEF Handed, QuietStep
  <2>3. \A i \in Jobs : job'[i].at \in {"saving", "holding", "setting"} =>
          job'[i].cred \in 1 .. issued /\ age[job'[i].cred] = 0
    BY <1>1, <1>3, <2>1 DEF Handed
  <2> QED
    BY <1>1, <1>3, <2>2, <2>3 DEF Handed
<1> QED
  BY <1>2, <1>3

-----------------------------------------------------------------------------
(* Steps that change what is kept.                                         *)

\* A step of one job that keeps its queues in order, its record and the types.
LEMMA StepKeepsForm ==
  ASSUME WellFormed, NEW j \in Jobs, OnlyJob(j), job' \in [Jobs -> JobRecord],
         OfKind(job'[j]), ChainStep(j), SetsStep(j), HostTyped', StoreTyped'
  PROVE  WellFormed'
<1>1. ChainsInOrder' /\ chain' \in [Providers -> Seq(Jobs)]
  BY ChainKept DEF WellFormed
<1>2. SetsInOrder' /\ sets' \in Seq(Jobs)
  BY SetsKept DEF WellFormed
<1>3. JobsTyped' /\ Kinds'
  BY <1>1, <1>2 DEF WellFormed, OnlyJob, JobsTyped, Kinds
<1>4. Enlisted'
  BY EnlistedKept DEF WellFormed
<1> QED
  BY <1>1, <1>2, <1>3, <1>4 DEF WellFormed

\* A login has returned: its credential is the next one, and nobody has it yet.
LEMMA LoginReturnsKeeps ==
  ASSUME NEW o \in [Creds -> Providers], StoreInvOf(o), NEW j \in Jobs, LoginReturns(j)
  PROVE  StoreInv' /\ (Handed => Handed') /\ (SignedOut => SignedOut')
<1> DEFINE r == [Idle EXCEPT !.kind = "login", !.at = "storing", !.cred = issued + 1]
<1>1. /\ job[j].at = "idle" /\ issued' = issued + 1 /\ job' = [job EXCEPT ![j] = r] /\ Enqueue(j)
      /\ out' = out \ {of[j]}
      /\ UNCHANGED <<mem, disk, of, hostVars, age, root, spent, committed, crashes>>
  BY DEF LoginReturns
<1>2. /\ issued \in 1 .. MaxCreds /\ issued + 1 \in 1 .. MaxCreds /\ of[j] \in Providers
      /\ MaxCreds \in Nat
  BY BoundsAssumption DEF LoginReturns, StoreInvOf, WellFormed, StoreTyped, JobsTyped, Creds
<1>3. r \in JobRecord /\ r.kind = "login" /\ r.at = "storing" /\ r.cred = issued + 1
      /\ r.snap = Idle.snap
  BY <1>2, IdleShape DEF JobRecord, JobStates, Idle, Creds
<1>4. PICK o2 \in [Creds -> Providers] : o2[issued + 1] = of[j] /\ \A c \in 1 .. issued : o2[c] = o[c]
  <2> DEFINE w == [o EXCEPT ![issued + 1] = of[j]]
  <2>1. w \in [Creds -> Providers] /\ w[issued + 1] = of[j] /\ \A c \in 1 .. issued : w[c] = o[c]
    BY <1>2 DEF Creds
  <2> HIDE DEF w
  <2> QED
    BY <2>1
<1> HIDE DEF r
<1>5. OnlyJob(j) /\ job' \in [Jobs -> JobRecord] /\ job'[j] = r
  BY <1>1, <1>3, RecordReplaced DEF StoreInvOf, WellFormed
<1>6. OfKind(r) /\ ~Running(r) /\ ChainStep(j) /\ SetsStep(j)
  BY <1>1, <1>3, <1>5 DEF OfKind, Running, InLine, ChainStep, SetsStep, SetsLeft, hostVars
<1>7. HostTyped' /\ StoreTyped'
  BY <1>1, <1>2 DEF StoreInvOf, WellFormed, HostTyped, StoreTyped, hostVars, Creds
<1>8. WellFormed'
  BY <1>3, <1>5, <1>6, <1>7, StepKeepsForm DEF StoreInvOf
<1>9. \A c, p : Belongs(o, issued, c, p) => Belongs(o2, issued', c, p)
  BY <1>1, <1>2, <1>4 DEF Belongs
<1>10. Kept(o2)'
  <2>1. \A i \in Jobs \ {j} : job'[i] = job[i] /\ of'[i] = of[i]
    BY <1>1, <1>5 DEF OnlyJob
  <2>2. Belongs(o2, issued', r.cred, of[j])
    BY <1>1, <1>2, <1>3, <1>4 DEF Belongs
  <2>3. \A p \in Providers : r.snap[p] = None
    BY <1>3, IdleShape
  <2>4. \A p \in Providers : mem'[p] # None => Belongs(o2, issued', mem'[p], p)
    BY <1>1, <1>9 DEF StoreInvOf, Kept
  <2>5. \A p \in Providers : disk'[p] # None => Belongs(o2, issued', disk'[p], p)
    BY <1>1, <1>9 DEF StoreInvOf, Kept
  <2>6. \A i \in Jobs, p \in Providers : job'[i].snap[p] # None => Belongs(o2, issued', job'[i].snap[p], p)
    BY <1>5, <1>9, <2>1, <2>3 DEF StoreInvOf, Kept
  <2>7. \A i \in Jobs : job'[i].at = "storing" => Belongs(o2, issued', job'[i].cred, of'[i])
    BY <1>1, <1>5, <1>9, <2>1, <2>2 DEF StoreInvOf, Kept
  <2> QED
    BY <2>4, <2>5, <2>6, <2>7 DEF Kept
<1>11. Unstored'
  <2>1. /\ issued + 1 \notin spent /\ root[issued + 1] = issued + 1
        /\ \A p \in Providers : mem[p] # issued + 1
        /\ \A i \in Jobs : job[i].at = "storing" => job[i].cred # issued + 1
    BY <1>2 DEF StoreInvOf, Kept, Belongs, Alive, Creds, None
  <2> QED
    BY <1>1, <1>3, <1>5, <2>1 DEF Unstored, OnlyJob, StoreInvOf
<1>12. OnMemory'
  BY <1>1, <1>5, <1>6 DEF OnMemory, OnlyJob, StoreInvOf
<1>13. Alive'
  BY <1>1, <1>2 DEF Alive, StoreInvOf, Creds
<1>14. StoreInv'
  BY <1>4, <1>8, <1>10, <1>11, <1>12, <1>13 DEF StoreInv, StoreInvOf
<1>15. ASSUME Handed PROVE Handed'
  BY <1>1, <1>2, <1>3, <1>5, <1>15 DEF Handed, OnlyJob, hostVars, Creds
<1>16. ASSUME SignedOut PROVE SignedOut'
  BY <1>1, <1>3, <1>5, <1>6, <1>16 DEF SignedOut, OnlyJob
<1> QED
  BY <1>14, <1>15, <1>16

\* A login is stored: it is the line from now on, and its job is the one that runs.
LEMMA StoreLoginKeeps ==
  ASSUME NEW o \in [Creds -> Providers], StoreInvOf(o), NEW j \in Jobs, StoreLogin(j)
  PROVE  StoreInv' /\ (Handed => Handed') /\ (SignedOut => SignedOut')
<1> DEFINE p == of[j]
           c == job[j].cred
           r == [job[j] EXCEPT !.at = "writing", !.snap = mem']
<1>1. /\ job[j].at = "storing" /\ AtHead(j)
      /\ mem' = [mem EXCEPT ![p] = c] /\ committed' = [committed EXCEPT ![p] = c]
      /\ job' = [job EXCEPT ![j] = r]
      /\ UNCHANGED <<disk, chain, of, hostVars, credVars, out, crashes>>
  BY DEF StoreLogin
<1>2. /\ job[j] \in JobRecord /\ p \in Providers /\ c \in Creds /\ c \in 1 .. issued /\ o[c] = p
      /\ job[j].kind = "login" /\ c # None
  BY <1>1 DEF StoreInvOf, WellFormed, JobsTyped, JobRecord, Kept, Belongs, Kinds, OfKind, None, Creds
<1>3. /\ mem' \in [Providers -> Creds \cup {None}] /\ mem'[p] = c
      /\ \A q \in Providers \ {p} : mem'[q] = mem[q]
      /\ committed' \in [Providers -> Creds \cup {None}] /\ committed'[p] = c
      /\ \A q \in Providers \ {p} : committed'[q] = committed[q]
  BY <1>1, <1>2 DEF StoreInvOf, WellFormed, StoreTyped
<1>4. r \in JobRecord /\ r.kind = "login" /\ r.at = "writing" /\ r.cred = c /\ r.snap = mem'
  BY <1>2, <1>3 DEF JobRecord, JobStates
<1> HIDE DEF r, c, p
<1>5. OnlyJob(j) /\ job' \in [Jobs -> JobRecord] /\ job'[j] = r
  BY <1>1, <1>4, RecordReplaced DEF StoreInvOf, WellFormed
<1>6. OfKind(r) /\ Running(r) /\ ChainStep(j) /\ SetsStep(j)
  BY <1>1, <1>4, <1>5 DEF OfKind, Running, InLine, ChainStep, SetsStep, SetsLeft, hostVars
<1>7. HostTyped' /\ StoreTyped'
  BY <1>1, <1>3 DEF StoreInvOf, WellFormed, HostTyped, StoreTyped, hostVars, credVars
<1>8. WellFormed'
  BY <1>5, <1>6, <1>7, StepKeepsForm DEF StoreInvOf
<1>9. /\ \A i \in Jobs \ {j} : job'[i] = job[i]
      /\ UNCHANGED <<issued, root, spent, age, of, disk, out, memo, ref>>
  BY <1>1, <1>5 DEF OnlyJob, credVars, hostVars
<1>10. Kept(o)'
  <2>1. \A q \in Providers : mem'[q] # None => Belongs(o, issued', mem'[q], q)
    BY <1>2, <1>3, <1>9 DEF StoreInvOf, Kept, Belongs
  <2> QED
    BY <1>4, <1>5, <1>9, <2>1 DEF StoreInvOf, Kept, Belongs
<1>11. Unstored'
  BY <1>1, <1>2, <1>3, <1>4, <1>5, <1>9 DEF Unstored, StoreInvOf, c
<1>12. \A i \in Jobs \ {j} : Running(job[i]) => of[i] # p
  BY <1>1 DEF StoreInvOf, WellFormed, ChainsInOrder, AtHead, p
<1>13. OnMemory'
  <2>1. job'[j].cred # None /\ mem'[of'[j]] = job'[j].cred
    BY <1>2, <1>3, <1>4, <1>5, <1>9 DEF p
  <2>2. \A i \in Jobs \ {j} : Running(job'[i]) => job'[i].cred # None /\ mem'[of'[i]] = job'[i].cred
    BY <1>3, <1>9, <1>12 DEF OnMemory, StoreInvOf, WellFormed, JobsTyped
  <2> QED
    BY <2>1, <2>2 DEF OnMemory
<1>14. Alive'
  <2>1. c \notin spent /\ root[c] = c
    BY <1>1 DEF StoreInvOf, Unstored, c
  <2> QED
    BY <1>2, <1>3, <1>9, <2>1 DEF StoreInvOf, Alive
<1>15. StoreInv'
  BY <1>8, <1>10, <1>11, <1>13, <1>14 DEF StoreInv, StoreInvOf
<1>16. ASSUME Handed PROVE Handed'
  BY <1>4, <1>5, <1>9, <1>16 DEF Handed
<1>17. ASSUME SignedOut PROVE SignedOut'
  <2>1. p \notin out
    BY <1>1, <1>17 DEF SignedOut, p
  <2> QED
    BY <1>3, <1>4, <1>5, <1>9, <1>17, <2>1 DEF SignedOut, p, StoreInvOf, WellFormed, StoreTyped
<1> QED
  BY <1>15, <1>16, <1>17

\* A signing-out empties memory; whatever ran in that chain is over.
LEMMA DeleteKeeps ==
  ASSUME NEW o \in [Creds -> Providers], StoreInvOf(o), NEW j \in Jobs, DeleteCredential(j)
  PROVE  StoreInv' /\ (Handed => Handed') /\ (SignedOut => SignedOut')
<1> DEFINE p == of[j]
           r == [job[j] EXCEPT !.at = "writing", !.snap = mem']
<1>1. /\ job[j].at = "deleting" /\ AtHead(j) /\ LeaveChain(j)
      /\ mem' = [mem EXCEPT ![p] = None] /\ committed' = [committed EXCEPT ![p] = None]
      /\ job' = [job EXCEPT ![j] = r]
      /\ UNCHANGED <<disk, of, hostVars, credVars, out, crashes>>
  BY DEF DeleteCredential
<1>2. job[j] \in JobRecord /\ p \in Providers /\ job[j].kind = "logout"
  BY <1>1 DEF StoreInvOf, WellFormed, JobsTyped, Kinds, OfKind
<1>3. /\ mem' \in [Providers -> Creds \cup {None}] /\ mem'[p] = None
      /\ \A q \in Providers \ {p} : mem'[q] = mem[q]
      /\ committed' \in [Providers -> Creds \cup {None}] /\ committed'[p] = None
      /\ \A q \in Providers \ {p} : committed'[q] = committed[q]
  BY <1>1, <1>2 DEF StoreInvOf, WellFormed, StoreTyped
<1>4. r \in JobRecord /\ r.kind = "logout" /\ r.at = "writing" /\ r.snap = mem'
  BY <1>2, <1>3 DEF JobRecord, JobStates
<1> HIDE DEF r, p
<1>5. OnlyJob(j) /\ job' \in [Jobs -> JobRecord] /\ job'[j] = r
  BY <1>1, <1>4, RecordReplaced DEF StoreInvOf, WellFormed
<1>6. OfKind(r) /\ ~Running(r) /\ ChainStep(j) /\ SetsStep(j)
  BY <1>1, <1>4, <1>5 DEF OfKind, Running, InLine, ChainStep, SetsStep, SetsLeft, hostVars
<1>7. HostTyped' /\ StoreTyped'
  BY <1>1, <1>3 DEF StoreInvOf, WellFormed, HostTyped, StoreTyped, hostVars, credVars
<1>8. WellFormed'
  BY <1>5, <1>6, <1>7, StepKeepsForm DEF StoreInvOf
<1>9. /\ \A i \in Jobs \ {j} : job'[i] = job[i]
      /\ UNCHANGED <<issued, root, spent, age, of, disk, out, memo, ref>>
  BY <1>1, <1>5 DEF OnlyJob, credVars, hostVars
<1>10. Kept(o)'
  <2>1. \A q \in Providers : mem'[q] # None => Belongs(o, issued', mem'[q], q)
    BY <1>3, <1>9 DEF StoreInvOf, Kept, Belongs
  <2> QED
    BY <1>4, <1>5, <1>9, <2>1 DEF StoreInvOf, Kept, Belongs
<1>11. \A i \in Jobs : job'[i].at = "storing" => i # j /\ job[i].cred # None
  BY <1>4, <1>5, <1>9 DEF StoreInvOf, Kept, Belongs, None, WellFormed, StoreTyped, Creds
<1>12. Unstored'
  BY <1>3, <1>9, <1>11 DEF Unstored, StoreInvOf
<1>13. \A i \in Jobs \ {j} : Running(job[i]) => of[i] # p
  BY <1>1 DEF StoreInvOf, WellFormed, ChainsInOrder, AtHead, p
<1>14. OnMemory'
  BY <1>3, <1>5, <1>6, <1>9, <1>13 DEF OnMemory, StoreInvOf, WellFormed, JobsTyped
<1>15. Alive'
  <2>1. None \notin spent
    BY DEF StoreInvOf, Alive, None, WellFormed, StoreTyped, Creds
  <2> QED
    BY <1>2, <1>3, <1>9, <2>1 DEF StoreInvOf, Alive
<1>16. StoreInv'
  BY <1>8, <1>10, <1>12, <1>14, <1>15 DEF StoreInv, StoreInvOf
<1>17. ASSUME Handed PROVE Handed'
  BY <1>4, <1>5, <1>9, <1>17 DEF Handed
<1>18. ASSUME SignedOut PROVE SignedOut'
  <2>1. \A i \in Jobs : job'[i].at = "writing" /\ job'[i].kind = "logout" => job'[i].snap[of'[i]] = None
    BY <1>3, <1>4, <1>5, <1>9, <1>18 DEF SignedOut, p
  <2>2. \A q \in out : mem'[q] = None
    BY <1>3, <1>18 DEF SignedOut, StoreInvOf, WellFormed, StoreTyped
  <2> QED
    BY <1>4, <1>5, <1>6, <1>9, <1>18, <2>1, <2>2 DEF SignedOut
<1> QED
  BY <1>16, <1>17, <1>18

\* A renewal returns: the credential it started from is used up, and nobody
\* else's, for every credential belongs to one provider and one job runs there.
LEMMA RefreshReturnsKeeps ==
  ASSUME NEW o \in [Creds -> Providers], StoreInvOf(o), NEW j \in Jobs, RefreshReturns(j)
  PROVE  StoreInv' /\ (Handed => Handed') /\ (SignedOut => SignedOut')
<1> DEFINE p == of[j]
           c == job[j].cred
           n == issued + 1
           r == [job[j] EXCEPT !.at = "saving", !.cred = n, !.snap = mem']
<1>1. /\ job[j].at = "refreshing" /\ issued' = n
      /\ root' = [root EXCEPT ![n] = root[c]] /\ spent' = spent \cup {c}
      /\ mem' = [mem EXCEPT ![p] = n] /\ job' = [job EXCEPT ![j] = r]
      /\ UNCHANGED <<disk, chain, of, hostVars, age, userVars, crashes>>
  BY DEF RefreshReturns
<1>2. /\ issued \in 1 .. MaxCreds /\ n \in 1 .. MaxCreds /\ p \in Providers /\ MaxCreds \in Nat
      /\ n \in Creds /\ n # None
  BY BoundsAssumption DEF RefreshReturns, StoreInvOf, WellFormed, StoreTyped, JobsTyped, Creds, None
<1>3. /\ job[j] \in JobRecord /\ Running(job[j]) /\ AtHead(j)
      /\ c # None /\ mem[p] = c /\ c \in 1 .. issued /\ c \in Creds /\ o[c] = p
      /\ job[j].kind \in {"login", "request", "restore"}
  BY <1>1, <1>2 DEF StoreInvOf, WellFormed, JobsTyped, ChainsInOrder, OnMemory, Running, Kept,
                    Belongs, Kinds, OfKind, Creds
<1>4. PICK o2 \in [Creds -> Providers] : o2[n] = p /\ \A d \in 1 .. issued : o2[d] = o[d]
  <2> DEFINE w == [o EXCEPT ![n] = p]
  <2>1. w \in [Creds -> Providers] /\ w[n] = p /\ \A d \in 1 .. issued : w[d] = o[d]
    BY <1>2 DEF Creds
  <2> HIDE DEF w
  <2> QED
    BY <2>1
<1>5. /\ mem' \in [Providers -> Creds \cup {None}] /\ mem'[p] = n
      /\ \A q \in Providers \ {p} : mem'[q] = mem[q]
      /\ root' \in [Creds -> Creds] /\ root'[n] = root[c]
      /\ \A d \in Creds \ {n} : root'[d] = root[d]
  BY <1>1, <1>2, <1>3 DEF StoreInvOf, WellFormed, StoreTyped
<1>6. r \in JobRecord /\ r.kind = job[j].kind /\ r.at = "saving" /\ r.cred = n /\ r.snap = mem'
  BY <1>2, <1>3, <1>5 DEF JobRecord, JobStates
<1>7. n = issued + 1
  OBVIOUS
<1>8. SetsStep(j)
  BY <1>1, <1>6 DEF SetsStep, SetsLeft, hostVars, StoreInvOf, WellFormed, JobsTyped
<1> HIDE DEF r, c, p, n
<1>9. OnlyJob(j) /\ job' \in [Jobs -> JobRecord] /\ job'[j] = r
  BY <1>1, <1>6, RecordReplaced DEF StoreInvOf, WellFormed
<1>10. OfKind(r) /\ Running(r) /\ InLine(r)
  BY <1>3, <1>6 DEF OfKind, Running, InLine
<1>11. ChainStep(j)
  BY <1>1, <1>3, <1>9, <1>10 DEF ChainStep, InLine
<1>12. HostTyped' /\ StoreTyped'
  BY <1>1, <1>2, <1>3, <1>5 DEF StoreInvOf, WellFormed, HostTyped, StoreTyped, hostVars, userVars
<1>13. WellFormed'
  BY <1>8, <1>9, <1>10, <1>11, <1>12, StepKeepsForm DEF StoreInvOf
<1>14. /\ \A i \in Jobs \ {j} : job'[i] = job[i]
       /\ UNCHANGED <<age, of, disk, committed, out, memo, ref>>
  BY <1>1, <1>9 DEF OnlyJob, userVars, hostVars
<1>15. \A d, q : Belongs(o, issued, d, q) => Belongs(o2, issued', d, q)
  BY <1>1, <1>2, <1>4, <1>7 DEF Belongs
<1>16. Kept(o2)'
  <2>1. Belongs(o2, issued', n, p)
    BY <1>1, <1>2, <1>4, <1>7 DEF Belongs
  <2>2. \A q \in Providers : mem'[q] # None => Belongs(o2, issued', mem'[q], q)
    BY <1>5, <1>15, <2>1 DEF StoreInvOf, Kept
  <2>3. \A q \in Providers : disk'[q] # None => Belongs(o2, issued', disk'[q], q)
    BY <1>14, <1>15 DEF StoreInvOf, Kept
  <2>4. \A i \in Jobs, q \in Providers : job'[i].snap[q] # None => Belongs(o2, issued', job'[i].snap[q], q)
    BY <1>6, <1>9, <1>14, <1>15, <2>2 DEF StoreInvOf, Kept
  <2>5. \A i \in Jobs : job'[i].at = "storing" => Belongs(o2, issued', job'[i].cred, of'[i])
    BY <1>6, <1>9, <1>14, <1>15 DEF StoreInvOf, Kept
  <2> QED
    BY <2>2, <2>3, <2>4, <2>5 DEF Kept
<1>17. Unstored'
  <2> SUFFICES ASSUME NEW i \in Jobs, job'[i].at = "storing"
               PROVE  /\ job'[i].cred \notin spent' /\ root'[job'[i].cred] = job'[i].cred
                      /\ \A q \in Providers : mem'[q] # job'[i].cred
                      /\ \A k \in Jobs \ {i} : job'[k].at = "storing" => job'[k].cred # job'[i].cred
    BY DEF Unstored
  <2>1. i # j /\ job'[i] = job[i] /\ job[i].at = "storing"
    BY <1>6, <1>9, <1>14
  <2>2. job[i].cred \in 1 .. issued /\ job[i].cred # n /\ job[i].cred \in Creds
    BY <1>2, <1>7, <2>1 DEF StoreInvOf, Kept, Belongs, Creds
  <2>3. /\ job[i].cred \notin spent /\ job[i].cred # c /\ root[job[i].cred] = job[i].cred
        /\ \A q \in Providers : mem[q] # job[i].cred
        /\ \A k \in Jobs \ {i} : job[k].at = "storing" => job[k].cred # job[i].cred
    BY <1>2, <1>3, <2>1 DEF StoreInvOf, Unstored
  <2>4. \A q \in Providers : mem'[q] # job[i].cred
    BY <1>5, <2>2, <2>3
  <2>5. root'[job[i].cred] = job[i].cred
    BY <1>5, <2>2, <2>3
  <2>6. \A k \in Jobs \ {i} : job'[k].at = "storing" => job'[k].cred # job[i].cred
    BY <1>6, <1>9, <1>14, <2>3
  <2> QED
    BY <1>1, <2>1, <2>3, <2>4, <2>5, <2>6
<1>18. OnMemory'
  <2>1. \A i \in Jobs \ {j} : Running(job[i]) => of[i] # p
    BY <1>3 DEF StoreInvOf, WellFormed, ChainsInOrder, AtHead, p
  <2>2. job'[j].cred # None /\ mem'[of'[j]] = job'[j].cred
    BY <1>2, <1>5, <1>6, <1>9, <1>14 DEF p
  <2>3. \A i \in Jobs \ {j} : Running(job'[i]) => job'[i].cred # None /\ mem'[of'[i]] = job'[i].cred
    BY <1>5, <1>14, <2>1 DEF OnMemory, StoreInvOf, WellFormed, JobsTyped
  <2> QED
    BY <2>2, <2>3 DEF OnMemory
<1>19. Alive'
  <2>1. spent \subseteq 1 .. issued /\ \A d \in Creds : d > issued => root[d] = d
    BY DEF StoreInvOf, Alive
  <2>2. spent' \subseteq 1 .. issued' /\ n \notin spent'
    BY <1>1, <1>2, <1>3, <1>7, <2>1
  <2>3. \A d \in Creds : d > issued' => root'[d] = d
    BY <1>1, <1>2, <1>5, <1>7, <2>1 DEF Creds
  <2>4. ASSUME NEW q \in Providers \ {p}
        PROVE  /\ mem'[q] \notin spent'
               /\ IF mem'[q] = None THEN committed'[q] = None ELSE root'[mem'[q]] = committed'[q]
    <3>1. mem'[q] = mem[q] /\ mem[q] \notin spent /\ committed'[q] = committed[q]
      BY <1>5, <1>14 DEF StoreInvOf, Alive
    <3>2. CASE mem[q] = None
      BY <1>1, <1>3, <3>1, <3>2 DEF StoreInvOf, Alive
    <3>3. CASE mem[q] # None
      <4>1. mem[q] \in 1 .. issued /\ o[mem[q]] = q
        BY <3>3 DEF StoreInvOf, Kept, Belongs
      <4>2. mem[q] # c /\ mem[q] \in Creds \ {n}
        BY <1>2, <1>3, <1>7, <4>1 DEF Creds
      <4> QED
        BY <1>1, <1>5, <3>1, <3>3, <4>2 DEF StoreInvOf, Alive
    <3> QED
      BY <3>2, <3>3
  <2>5. mem'[p] \notin spent' /\ mem'[p] # None /\ root'[mem'[p]] = committed'[p]
    BY <1>2, <1>3, <1>5, <1>14, <2>2 DEF StoreInvOf, Alive
  <2> QED
    BY <2>2, <2>3, <2>4, <2>5 DEF Alive
<1>20. StoreInv'
  BY <1>13, <1>16, <1>17, <1>18, <1>19 DEF StoreInv, StoreInvOf
<1>21. ASSUME Handed PROVE Handed'
  <2>1. age[n] = 0 /\ \A d \in Creds : d > issued' => age'[d] = 0
    BY <1>1, <1>2, <1>7, <1>14, <1>21 DEF Handed, Creds
  <2>2. \A i \in Jobs \ {j} : job'[i].at \in {"saving", "holding", "setting"} =>
          job'[i].cred \in 1 .. issued' /\ age'[job'[i].cred] = 0
    BY <1>1, <1>2, <1>7, <1>14, <1>21 DEF Handed
  <2>3. job'[j].cred \in 1 .. issued' /\ age'[job'[j].cred] = 0
    BY <1>1, <1>2, <1>6, <1>7, <1>9, <1>14, <2>1
  <2> QED
    BY <1>14, <1>21, <2>1, <2>2, <2>3 DEF Handed
<1>22. ASSUME SignedOut PROVE SignedOut'
  <2>1. p \notin out
    BY <1>3, <1>22 DEF SignedOut, p
  <2>2. \A q \in out : mem'[q] = None
    BY <1>5, <1>22, <2>1 DEF SignedOut, StoreInvOf, WellFormed, StoreTyped
  <2> QED
    BY <1>6, <1>9, <1>14, <1>22, <2>1, <2>2 DEF SignedOut, p
<1> QED
  BY <1>20, <1>21, <1>22

\* With one provider the file says what was last said of it.
OneProvider == \A p, q \in Providers : p = q

\* The file is written: a login or a renewal goes on, a signing-out is answered.
LEMMA FileWrittenKeeps ==
  ASSUME NEW o \in [Creds -> Providers], StoreInvOf(o), NEW j \in Jobs, FileWritten(j)
  PROVE  StoreInv' /\ (Handed => Handed') /\ (OneProvider /\ SignedOut => SignedOut')
<1> DEFINE p == of[j]
<1>1. /\ job[j].at \in {"writing", "saving"} /\ disk' = job[j].snap
      /\ UNCHANGED <<mem, of, hostVars, credVars, committed, crashes>>
  BY DEF FileWritten
<1>2. /\ job[j] \in JobRecord /\ p \in Providers /\ OfKind(job[j])
      /\ disk' \in [Providers -> Creds \cup {None}]
  BY <1>1 DEF StoreInvOf, WellFormed, JobsTyped, Kinds, JobRecord
<1>3. /\ OnlyJob(j) /\ job' \in [Jobs -> JobRecord] /\ OfKind(job'[j]) /\ ~InLine(job'[j])
      /\ job'[j].at \in {"done", "routing", "holding"}
      /\ job'[j].at = "holding" => job[j].at = "saving" /\ job'[j].cred = job[j].cred
      /\ \A q \in Providers : job'[j].snap[q] = None
      /\ ChainStep(j)
      /\ \/ job[j].kind = "logout" /\ job[j].at = "writing"
            /\ out' = IF LoggedInSince(p) THEN out ELSE out \cup {p}
         \/ job[j].kind # "logout" /\ Running(job[j]) /\ out' = out
  <2>1. CASE job[j].kind = "logout" /\ Ends(j, TRUE) /\ chain' = chain
             /\ out' = IF LoggedInSince(p) THEN out ELSE out \cup {p}
    <3>1. /\ OnlyJob(j) /\ job' \in [Jobs -> JobRecord] /\ job'[j].at = "done"
          /\ \A q \in Providers : job'[j].snap[q] = None
      BY <1>1, <2>1, RecordSteps DEF StoreInvOf, WellFormed
    <3>2. job[j].at = "writing" /\ ~InLine(job[j]) /\ OfKind(job'[j]) /\ ~InLine(job'[j])
      BY <1>1, <1>2, <2>1, <3>1 DEF OfKind, InLine, Running
    <3> QED
      BY <2>1, <3>1, <3>2 DEF ChainStep, InLine
  <2>2. CASE /\ job[j].kind # "logout" /\ LeaveChain(j) /\ out' = out
             /\ job' = [job EXCEPT ![j].at = IF @ = "writing" THEN "routing" ELSE "holding",
                                   ![j].snap = Idle.snap]
    <3> DEFINE at == IF job[j].at = "writing" THEN "routing" ELSE "holding"
               r == [job[j] EXCEPT !.at = at, !.snap = Idle.snap]
    <3>1. job' = [job EXCEPT ![j] = r]
      BY <2>2
    <3>2. /\ at \in JobStates /\ at \in {"routing", "holding"}
          /\ at = "holding" => job[j].at = "saving"
      BY <1>1 DEF JobStates
    <3> HIDE DEF at
    <3>3. r \in JobRecord /\ r.at = at /\ r.kind = job[j].kind /\ r.cred = job[j].cred
          /\ r.snap = Idle.snap
      BY <1>2, <3>2, IdleShape DEF JobRecord
    <3> HIDE DEF r
    <3>4. OnlyJob(j) /\ job' \in [Jobs -> JobRecord] /\ job'[j] = r
      BY <1>1, <3>1, <3>3, RecordReplaced DEF StoreInvOf, WellFormed
    <3>5. Running(job[j]) /\ AtHead(j) /\ job[j].kind \in {"login", "request", "restore"}
      BY <1>1, <1>2, <2>2 DEF Running, OfKind, StoreInvOf, WellFormed, ChainsInOrder
    <3>6. OfKind(r) /\ ~InLine(r)
      BY <3>2, <3>3, <3>5 DEF OfKind, InLine, Running
    <3> QED
      BY <2>2, <3>2, <3>3, <3>4, <3>5, <3>6, IdleShape DEF ChainStep
  <2> QED
    BY <2>1, <2>2 DEF FileWritten
<1> HIDE DEF p
<1>4. /\ \A i \in Jobs \ {j} : job'[i] = job[i]
      /\ UNCHANGED <<mem, issued, root, spent, age, of, committed, memo, ref, sets, crashes>>
  BY <1>1, <1>3 DEF OnlyJob, credVars, hostVars
<1>5. WellFormed'
  <2>1. SetsStep(j) /\ HostTyped'
    BY <1>1, <1>3 DEF SetsStep, SetsLeft, hostVars, StoreInvOf, WellFormed, HostTyped
  <2>2. StoreTyped'
    BY <1>2, <1>3, <1>4 DEF StoreInvOf, WellFormed, StoreTyped
  <2> QED
    BY <1>3, <2>1, <2>2, StepKeepsForm DEF StoreInvOf
<1>6. Kept(o)'
  BY <1>1, <1>3, <1>4 DEF StoreInvOf, Kept
<1>7. Unstored'
  BY <1>3, <1>4 DEF StoreInvOf, Unstored
<1>8. OnMemory'
  BY <1>3, <1>4 DEF StoreInvOf, OnMemory, InLine
<1>9. Alive'
  BY <1>4 DEF StoreInvOf, Alive
<1>10. StoreInv'
  BY <1>5, <1>6, <1>7, <1>8, <1>9 DEF StoreInv, StoreInvOf
<1>11. ASSUME Handed PROVE Handed'
  BY <1>3, <1>4, <1>11 DEF Handed
<1>12. ASSUME OneProvider, SignedOut PROVE SignedOut'
  <2>1. \A q \in Providers : q = p
    BY <1>2, <1>12 DEF OneProvider
  <2>2. \A i \in Jobs : job'[i].at = "writing" /\ job'[i].kind = "logout" => job'[i].snap[of'[i]] = None
    BY <1>3, <1>4, <1>12 DEF SignedOut
  <2>3. CASE job[j].kind = "logout" /\ job[j].at = "writing"
             /\ out' = IF LoggedInSince(p) THEN out ELSE out \cup {p}
    <3>1. \A q \in Providers : disk'[q] = None
      BY <1>1, <1>12, <2>1, <2>3 DEF SignedOut, p
    <3>2. out \subseteq Providers
      BY DEF StoreInvOf, WellFormed, StoreTyped
    <3>3. ASSUME NEW q \in out'
          PROVE  mem[q] = None /\ \A i \in Jobs : of[i] = q => ~Running(job[i]) /\ job[i].at # "storing"
      <4>1. CASE q \in out
        BY <1>12, <4>1 DEF SignedOut
      <4>2. CASE q = p /\ ~LoggedInSince(p)
        BY <4>2 DEF LoggedInSince, StoreInvOf, OnMemory
      <4> QED
        BY <2>3, <4>1, <4>2
    <3>4. ASSUME NEW q \in out', NEW i \in Jobs, of[i] = q
          PROVE  ~Running(job'[i]) /\ job'[i].at # "storing"
      BY <1>3, <1>4, <3>3, <3>4 DEF InLine
    <3>5. \A q \in out' : q \in Providers
      BY <1>2, <2>3, <3>2
    <3> QED
      BY <1>4, <2>2, <3>1, <3>3, <3>4, <3>5 DEF SignedOut
  <2>4. CASE job[j].kind # "logout" /\ Running(job[j]) /\ out' = out
    <3>1. out' = {}
      BY <1>12, <2>1, <2>4 DEF SignedOut, StoreInvOf, WellFormed, StoreTyped, p
    <3> QED
      BY <2>2, <3>1 DEF SignedOut
  <2> QED
    BY <1>3, <2>3, <2>4
<1> QED
  BY <1>10, <1>11, <1>12

\* Time passes for no credential that is being handed over.
LEMMA AgesKeeps ==
  ASSUME NEW o \in [Creds -> Providers], StoreInvOf(o), NEW c \in Creds, Ages(c)
  PROVE  StoreInv' /\ (Handed => Handed') /\ (SignedOut => SignedOut')
<1>1. /\ UNCHANGED <<mem, disk, chain, of, job, hostVars, issued, root, spent, committed, out, crashes>>
      /\ age' = [age EXCEPT ![c] = age[c] + 1] /\ age[c] < 2 /\ c <= issued
      /\ \A j \in Jobs : ~(job[j].at \in {"saving", "holding", "setting"} /\ job[j].cred = c)
  BY DEF Ages, storeVars, userVars
<1>2. /\ age' \in [Creds -> 0 .. 2] /\ \A d \in Creds \ {c} : age'[d] = age[d]
  <2>1. age \in [Creds -> 0 .. 2] /\ age[c] + 1 \in 0 .. 2
    BY <1>1 DEF StoreInvOf, WellFormed, StoreTyped
  <2> QED
    BY <1>1, <2>1
<1>3. WellFormed'
  BY <1>1, <1>2 DEF StoreInvOf, WellFormed, StoreTyped, JobsTyped, HostTyped, hostVars,
                    ChainsInOrder, SetsInOrder, Enlisted, Kinds, InOrder, AtHead
<1>4. Kept(o)' /\ Unstored' /\ OnMemory' /\ Alive'
  BY <1>1 DEF StoreInvOf, Kept, Unstored, OnMemory, Alive
<1>5. StoreInv'
  BY <1>3, <1>4 DEF StoreInv, StoreInvOf
<1>6. ASSUME Handed PROVE Handed'
  <2>1. \A d \in Creds : d > issued' => age'[d] = 0
    <3>1. \A d \in Creds : d > issued => d # c
      BY <1>1 DEF StoreInvOf, WellFormed, StoreTyped, Creds
    <3> QED
      BY <1>1, <1>2, <1>6, <3>1 DEF Handed
  <2>2. ASSUME NEW j \in Jobs, job'[j].at \in {"saving", "holding", "setting"}
        PROVE  job'[j].cred \in 1 .. issued' /\ age'[job'[j].cred] = 0
    <3>1. job[j].cred \in 1 .. issued /\ age[job[j].cred] = 0 /\ job[j].cred # c
      BY <1>1, <1>6, <2>2 DEF Handed
    <3>2. job[j].cred \in Creds
      BY <3>1 DEF StoreInvOf, WellFormed, StoreTyped, JobsTyped, JobRecord, None
    <3> QED
      BY <1>1, <1>2, <3>1, <3>2
  <2> QED
    BY <1>1, <1>6, <2>1, <2>2 DEF Handed, hostVars
<1>7. ASSUME SignedOut PROVE SignedOut'
  BY <1>1, <1>7 DEF SignedOut
<1> QED
  BY <1>5, <1>6, <1>7

\* The process dies: the file is all there is, and nobody is under way.
LEMMA CrashKeeps ==
  ASSUME NEW o \in [Creds -> Providers], StoreInvOf(o), Crash
  PROVE  StoreInv' /\ (Handed => Handed') /\ (SignedOut => SignedOut')
<1>1. /\ crashes < MaxCrashes /\ crashes' = crashes + 1 /\ mem' = disk
      /\ chain' = [p \in Providers |-> <<>>] /\ memo' = [p \in Providers |-> None]
      /\ sets' = <<>> /\ hooked' = FALSE /\ spent' = {}
      /\ committed' = [p \in Providers |-> IF disk[p] = None THEN None ELSE root[disk[p]]]
      /\ UNCHANGED <<disk, of, ref, declared, age, issued, root, out>>
  BY DEF Crash
<1>2. /\ job' \in [Jobs -> JobRecord]
      /\ \A j \in Jobs : /\ job'[j].at \in {"idle", "done"}
                         /\ \A p \in Providers : job'[j].snap[p] = None
  <2> DEFINE d == [Idle EXCEPT !.at = "done"]
  <2>1. d \in JobRecord /\ d.at = "done" /\ d.snap = Idle.snap
    BY IdleShape DEF JobRecord, JobStates
  <2>2. job' = [j \in Jobs |-> IF job[j].at = "idle" THEN Idle ELSE d]
    BY DEF Crash
  <2> HIDE DEF d
  <2> QED
    BY <2>1, <2>2, IdleShape
<1>3. crashes' \in 0 .. MaxCrashes
  <2>1. crashes \in 0 .. MaxCrashes
    BY DEF StoreInvOf, WellFormed, StoreTyped
  <2> QED
    BY <1>1, <2>1, BoundsAssumption
<1>4. WellFormed'
  <2>1. StoreTyped'
    BY <1>1, <1>3 DEF StoreInvOf, WellFormed, StoreTyped
  <2>2. JobsTyped' /\ HostTyped'
    <3>1. chain' \in [Providers -> Seq(Jobs)] /\ sets' \in Seq(Jobs)
      BY <1>1
    <3>2. memo' \in [Providers -> Creds \cup {None}]
      BY <1>1
    <3> QED
      BY <1>1, <1>2, <3>1, <3>2 DEF StoreInvOf, WellFormed, JobsTyped, HostTyped
  <2>3. Kinds' /\ \A j \in Jobs : ~Running(job'[j])
    BY <1>2 DEF Kinds, OfKind, Running
  <2>4. ChainsInOrder' /\ SetsInOrder'
    BY <1>1, <2>3 DEF ChainsInOrder, InOrder, SetsInOrder
  <2>5. Enlisted'
    BY <1>2 DEF Enlisted, InLine, Running
  <2> QED
    BY <2>1, <2>2, <2>3, <2>4, <2>5 DEF WellFormed
<1>5. Kept(o)' /\ Unstored' /\ OnMemory'
  BY <1>1, <1>2 DEF StoreInvOf, Kept, Unstored, OnMemory, Running
<1>6. Alive'
  BY <1>1 DEF StoreInvOf, Alive
<1>7. StoreInv'
  BY <1>4, <1>5, <1>6 DEF StoreInv, StoreInvOf
<1>8. ASSUME Handed PROVE Handed'
  BY <1>1, <1>2, <1>8 DEF Handed
<1>9. ASSUME SignedOut PROVE SignedOut'
  BY <1>1, <1>2, <1>9 DEF SignedOut, Running
<1> QED
  BY <1>7, <1>8, <1>9

-----------------------------------------------------------------------------
(* The theorems.                                                           *)

\* What an earlier process may have left behind belongs to one provider.
LEMMA StoreInit ==
  ASSUME StoredInit
  PROVE  StoreInv /\ Handed /\ SignedOut
<1> DEFINE Left == {p \in Providers : disk[p] # None}
<1>1. /\ disk \in [Providers -> {None, 1}] /\ mem = disk /\ ref = disk /\ committed = disk
      /\ chain = [p \in Providers |-> <<>>] /\ of \in [Jobs -> Providers]
      /\ job = [j \in Jobs |-> Idle] /\ memo = [p \in Providers |-> None] /\ sets = <<>>
      /\ declared \subseteq Providers /\ hooked = FALSE /\ age = [c \in Creds |-> 0] /\ issued = 1
      /\ root = [c \in Creds |-> c] /\ spent = {} /\ out = {} /\ crashes = 0 /\ Cardinality(Left) <= 1
  BY DEF StoredInit
<1>2. 1 \in Creds /\ 1 # None /\ None = 0 /\ 0 \in 0 .. MaxCrashes
  BY BoundsAssumption DEF Creds, None
<1>3. PICK q \in Providers : Left \subseteq {q}
  <2>1. IsFiniteSet(Left)
    BY FS_Subset, BoundsAssumption
  <2>2. Cardinality(Left) = 0 \/ Cardinality(Left) = 1
    BY <1>1, <2>1, FS_CardinalityType
  <2> HIDE DEF Left
  <2>3. CASE Left = {}
    BY <2>3, BoundsAssumption
  <2>4. CASE \E x : Left = {x}
    <3>1. Left \subseteq Providers
      BY DEF Left
    <3> QED
      BY <2>4, <3>1
  <2> QED
    BY <2>1, <2>2, <2>3, <2>4, FS_EmptySet, FS_Singleton
<1>4. PICK o \in [Creds -> Providers] : o[1] = q
  <2>1. [c \in Creds |-> q] \in [Creds -> Providers] /\ [c \in Creds |-> q][1] = q
    BY <1>2, <1>3
  <2> QED
    BY <2>1
<1>5. \A j \in Jobs : /\ job[j] \in JobRecord /\ job[j].at = "idle"
                      /\ \A p \in Providers : job[j].snap[p] = None
  BY <1>1, IdleShape
<1>6. \A j \in Jobs : ~Running(job[j]) /\ OfKind(job[j])
  BY <1>5 DEF Running, OfKind
<1>7. WellFormed
  <2>1. StoreTyped
    BY <1>1, <1>2 DEF StoreTyped
  <2>2. chain \in [Providers -> Seq(Jobs)] /\ sets \in Seq(Jobs)
    BY <1>1
  <2>3. JobsTyped
    BY <1>1, <1>5, <2>2 DEF JobsTyped
  <2>4. HostTyped
    BY <1>1, <1>2 DEF HostTyped
  <2>5. ChainsInOrder /\ SetsInOrder /\ Kinds
    BY <1>1, <1>6 DEF ChainsInOrder, InOrder, SetsInOrder, Kinds
  <2>6. Enlisted
    BY <1>5 DEF Enlisted, InLine, Running
  <2> QED
    BY <2>1, <2>3, <2>4, <2>5, <2>6 DEF WellFormed
<1>8. Kept(o)
  <2>1. \A p \in Providers : disk[p] # None => disk[p] = 1 /\ p = q
    BY <1>1, <1>3
  <2>2. \A p \in Providers : disk[p] # None => Belongs(o, issued, disk[p], p)
    BY <1>1, <1>4, <2>1 DEF Belongs
  <2> QED
    BY <1>1, <1>5, <2>2 DEF Kept
<1>9. Unstored /\ OnMemory
  BY <1>5, <1>6 DEF Unstored, OnMemory
<1>10. Alive
  BY <1>1, <1>2 DEF Alive
<1>11. Handed /\ SignedOut
  BY <1>1, <1>5 DEF Handed, SignedOut
<1> QED
  BY <1>4, <1>7, <1>8, <1>9, <1>10, <1>11 DEF StoreInv, StoreInvOf

\* Every step keeps what is kept where it belongs, in order and alive.
LEMMA StoreStep ==
  ASSUME StoreInv, [StoredNext]_storedVars
  PROVE  StoreInv' /\ (Handed => Handed') /\ (OneProvider /\ SignedOut => SignedOut')
<1>1. PICK o \in [Creds -> Providers] : StoreInvOf(o)
  BY DEF StoreInv
<1>2. ASSUME NEW j \in Jobs, QuietStep(j)
      PROVE  StoreInv' /\ (Handed => Handed') /\ (SignedOut => SignedOut')
  BY <1>1, <1>2, QuietKeepsForm, QuietKeepsStore, QuietKeepsRest DEF StoreInv, StoreInvOf
<1>3. ASSUME NEW j \in Jobs, Begins(j)
      PROVE  StoreInv' /\ (Handed => Handed') /\ (SignedOut => SignedOut')
  BY <1>1, <1>2, <1>3, BeginIsQuiet, LoginReturnsKeeps DEF Begins, StoreInvOf
<1>4. ASSUME NEW j \in Jobs, Continues(j)
      PROVE  StoreInv' /\ (Handed => Handed') /\ (OneProvider /\ SignedOut => SignedOut')
  <2>1. CASE StoreLogin(j) \/ DeleteCredential(j) \/ RefreshReturns(j)
    BY <1>1, <2>1, StoreLoginKeeps, DeleteKeeps, RefreshReturnsKeeps
  <2>2. CASE FileWritten(j)
    BY <1>1, <2>2, FileWrittenKeeps
  <2>3. CASE CheckAgain(j) \/ RefreshFails(j) \/ FileNotWritten(j)
    BY <1>1, <1>2, <2>3, ChainIsQuiet DEF StoreInvOf
  <2>4. CASE Route(j) \/ Resolve(j) \/ Declare(j)
    BY <1>1, <1>2, <2>4, ResolveIsQuiet DEF StoreInvOf
  <2>5. CASE PublishKey(j) \/ KeySet(j) \/ KeyNotSet(j)
    BY <1>1, <1>2, <2>5, PublishIsQuiet DEF StoreInvOf
  <2> QED
    BY <1>4, <2>1, <2>2, <2>3, <2>4, <2>5 DEF Continues, InChain
<1>5. ASSUME UNCHANGED storedVars
      PROVE  StoreInv' /\ (Handed => Handed') /\ (SignedOut => SignedOut')
  <2>1. UNCHANGED <<mem, disk, chain, of, job, ref, memo, sets, declared, hooked, age, issued,
                    root, spent, committed, out, crashes>>
    BY <1>5 DEF storedVars, storeVars, hostVars, credVars, userVars
  <2>2. WellFormed'
    BY <1>1, <2>1 DEF StoreInvOf, WellFormed, StoreTyped, JobsTyped, HostTyped, ChainsInOrder,
                      SetsInOrder, Enlisted, Kinds, InOrder, AtHead
  <2>3. Kept(o)' /\ Unstored' /\ OnMemory' /\ Alive'
    BY <1>1, <2>1 DEF StoreInvOf, Kept, Unstored, OnMemory, Alive
  <2>4. (Handed => Handed') /\ (SignedOut => SignedOut')
    BY <2>1 DEF Handed, SignedOut
  <2> QED
    BY <2>2, <2>3, <2>4 DEF StoreInv, StoreInvOf
<1> QED
  BY <1>1, <1>3, <1>4, <1>5, AgesKeeps, CrashKeeps DEF StoredNext

\* The invariant holds throughout.
LEMMA StoreKept == StoredSpec => [](StoreInv /\ Handed)
<1>1. StoredInit => StoreInv /\ Handed
  BY StoreInit
<1>2. StoreInv /\ Handed /\ [StoredNext]_storedVars => (StoreInv /\ Handed)'
  BY StoreStep
<1> QED
  BY <1>1, <1>2, PTL DEF StoredSpec

\* A refresh token serves once, however many requests found it about to expire.
THEOREM TokenServesOnce == StoredSpec => []RefreshOnce
<1>1. StoreInv => RefreshOnce
  <2> SUFFICES ASSUME NEW o \in [Creds -> Providers], StoreInvOf(o) PROVE RefreshOnce
    BY DEF StoreInv
  <2>1. StoredTypeOK
    BY TypeParts DEF StoreInvOf, WellFormed
  <2>2. ASSUME NEW j \in Jobs, job[j].at = "refreshing" PROVE job[j].cred \notin spent
    BY <2>2 DEF StoreInvOf, OnMemory, Running, Alive, WellFormed, JobsTyped
  <2> QED
    BY <2>1, <2>2 DEF RefreshOnce
<1> QED
  BY <1>1, StoreKept, PTL

\* Nobody waits in vain: the job in whose way others stand is under way itself,
\* and when it stands in a queue, it is the first there.  This is the part of
\* NeverStuck that does not speak of what is ENABLED.
THEOREM WaitingIsForSomeone ==
  StoredSpec => [](\A j \in Jobs : job[j].at \notin {"idle", "done"} =>
                     LET first == FirstFor(j) IN
                       /\ job[first].at \notin {"idle", "done"}
                       /\ InLine(job[first]) => AtHead(first)
                       /\ job[first].at = "setting" => Head(sets) = first)
<1> DEFINE Served(j) ==
      LET first == FirstFor(j) IN
        /\ job[first].at \notin {"idle", "done"}
        /\ InLine(job[first]) => AtHead(first)
        /\ job[first].at = "setting" => Head(sets) = first
<1>1. ASSUME WellFormed, NEW j \in Jobs, job[j].at \notin {"idle", "done"}
      PROVE  Served(j)
  <2>1. CASE job[j].at \in {"storing", "deleting", "renewing"}
    <3>1. chain[of[j]] \in Seq(Jobs) /\ of[j] \in Providers
      BY <1>1 DEF WellFormed, JobsTyped
    <3>2. \E k \in 1 .. Len(chain[of[j]]) : chain[of[j]][k] = j
      BY <1>1, <2>1 DEF WellFormed, Enlisted, InLine
    <3>3. /\ chain[of[j]] # <<>> /\ 1 \in 1 .. Len(chain[of[j]])
          /\ Head(chain[of[j]]) = chain[of[j]][1]
      BY <3>1, <3>2
    <3>4. of[Head(chain[of[j]])] = of[j] /\ InLine(job[Head(chain[of[j]])])
      BY <1>1, <3>1, <3>3 DEF WellFormed, ChainsInOrder, InOrder
    <3>5. FirstFor(j) = Head(chain[of[j]])
      BY <2>1 DEF FirstFor
    <3> QED
      BY <3>3, <3>4, <3>5 DEF AtHead, InLine, Running
  <2>2. CASE job[j].at = "setting"
    <3>1. sets \in Seq(Jobs) /\ \E k \in 1 .. Len(sets) : sets[k] = j
      BY <1>1, <2>2 DEF WellFormed, JobsTyped, Enlisted
    <3>2. 1 \in 1 .. Len(sets) /\ Head(sets) = sets[1]
      BY <3>1
    <3>3. job[Head(sets)].at = "setting"
      BY <1>1, <3>2 DEF WellFormed, SetsInOrder
    <3>4. FirstFor(j) = Head(sets)
      BY <2>2 DEF FirstFor
    <3> QED
      BY <3>3, <3>4 DEF InLine, Running
  <2>3. CASE job[j].at \notin {"storing", "deleting", "renewing", "setting"}
    <3>1. FirstFor(j) = j
      BY <2>3 DEF FirstFor
    <3> QED
      BY <1>1, <2>3, <3>1 DEF WellFormed, ChainsInOrder, InLine
  <2> QED
    BY <2>1, <2>2, <2>3
<1>2. StoreInv => \A j \in Jobs : job[j].at \notin {"idle", "done"} => Served(j)
  BY <1>1 DEF StoreInv, StoreInvOf
<1> QED
  BY <1>2, StoreKept, PTL

\* Whatever is in the store descends from the last login committed.
THEOREM MemoryFollowsUser ==
  StoredSpec => [](\A p \in Providers : IF mem[p] = None THEN committed[p] = None
                                                          ELSE root[mem[p]] = committed[p])
<1>1. StoreInv => \A p \in Providers : IF mem[p] = None THEN committed[p] = None
                                                        ELSE root[mem[p]] = committed[p]
  BY DEF StoreInv, StoreInvOf, Alive
<1> QED
  BY <1>1, StoreKept, PTL

\* With one provider, a signing-out that was answered holds on disk as well.
THEOREM UserIsFollowed ==
  ASSUME OneProvider
  PROVE  StoredSpec => []StoreFollowsUser
<1>1. StoredInit => StoreInv /\ SignedOut
  BY StoreInit
<1>2. StoreInv /\ SignedOut /\ [StoredNext]_storedVars => (StoreInv /\ SignedOut)'
  BY StoreStep
<1>3. StoreInv /\ SignedOut => StoreFollowsUser
  BY DEF StoreInv, StoreInvOf, Alive, SignedOut, StoreFollowsUser
<1> QED
  BY <1>1, <1>2, <1>3, PTL DEF StoredSpec

\* Only the end of a job says it went well.
LEMMA NotYetOk ==
  ASSUME JobsTyped, NEW i \in Jobs, NEW j \in Jobs, ~job[i].ok
  PROVE  /\ Ends(j, FALSE) => ~job'[i].ok
         /\ \A c : Holds(j, c) => ~job'[i].ok
         /\ \A a, c : job' = [job EXCEPT ![j].at = a, ![j].cred = c] => ~job'[i].ok
         /\ \A a, b : job' = [job EXCEPT ![j].at = a, ![j].routed = b] => ~job'[i].ok
         /\ \A a, s : job' = [job EXCEPT ![j].at = a, ![j].snap = s] => ~job'[i].ok
<1>1. job \in [Jobs -> JobRecord]
  BY DEF JobsTyped
<1>2. Ends(j, FALSE) => ~job'[i].ok
  BY <1>1 DEF Ends, Idle
<1>3. \A c : Holds(j, c) => ~job'[i].ok
  BY <1>1 DEF Holds, JobRecord
<1>4. \A a, c : job' = [job EXCEPT ![j].at = a, ![j].cred = c] => ~job'[i].ok
  BY <1>1 DEF JobRecord
<1>5. \A a, b : job' = [job EXCEPT ![j].at = a, ![j].routed = b] => ~job'[i].ok
  BY <1>1 DEF JobRecord
<1>6. \A a, s : job' = [job EXCEPT ![j].at = a, ![j].snap = s] => ~job'[i].ok
  BY <1>1 DEF JobRecord
<1> QED
  BY <1>2, <1>3, <1>4, <1>5, <1>6

\* A request that waited for its key goes out on one that is alive.
THEOREM AwaitedKeyLives == StoredSpec => AwaitedKeyIsAlive
<1> DEFINE Answered == \A j \in Jobs :
             (job[j].kind = "request" /\ job[j].waits /\ ~job[j].ok /\ job'[j].ok)
               => ~Expired(ref'[of[j]])
<1>1. ASSUME StoreInv, Handed, StoredNext PROVE Answered
  <2>1. PICK o \in [Creds -> Providers] : StoreInvOf(o)
    BY <1>1 DEF StoreInv
  <2> SUFFICES ASSUME NEW i \in Jobs, job[i].kind = "request", ~job[i].ok, job'[i].ok
               PROVE  ~Expired(ref'[of[i]])
    OBVIOUS
  <2>2. WellFormed /\ job[i] \in JobRecord /\ of[i] \in Providers /\ OfKind(job[i])
    BY <2>1 DEF StoreInvOf, WellFormed, JobsTyped, Kinds
  <2>3. ASSUME job[i].cred \in 1 .. issued, age[job[i].cred] = 0, ref'[of[i]] = job[i].cred
        PROVE  ~Expired(ref'[of[i]])
    BY <2>3 DEF Expired
  <2>5. ASSUME NEW j \in Jobs, Begins(j) PROVE FALSE
    <3>1. CASE LoginReturns(j)
      BY <2>2, <3>1 DEF LoginReturns, Idle, WellFormed, JobsTyped
    <3>2. CASE SignOut(j)
      BY <2>2, <3>2 DEF SignOut, Idle, WellFormed, JobsTyped
    <3>3. CASE Request(j)
      BY <2>2, <3>3 DEF Request, Idle, WellFormed, JobsTyped
    <3>4. CASE Restore(j)
      BY <2>2, <3>4 DEF Restore, Idle, WellFormed, JobsTyped
    <3> QED
      BY <2>5, <3>1, <3>2, <3>3, <3>4 DEF Begins
  <2>6. ASSUME NEW j \in Jobs, StoreLogin(j) \/ DeleteCredential(j) \/ RefreshReturns(j) PROVE FALSE
    <3>1. PICK r : job' = [job EXCEPT ![j] = r] /\ r.ok = job[j].ok
      BY <2>2, <2>6 DEF StoreLogin, DeleteCredential, RefreshReturns, WellFormed, JobsTyped, JobRecord
    <3> QED
      BY <2>2, <3>1 DEF WellFormed, JobsTyped
  <2>7. ASSUME NEW j \in Jobs, CheckAgain(j) \/ RefreshFails(j) \/ FileNotWritten(j) PROVE FALSE
    <3>1. \/ Ends(j, FALSE)
          \/ \E c : Holds(j, c)
          \/ \E c : job' = [job EXCEPT ![j].at = "refreshing", ![j].cred = c]
      BY <2>7 DEF CheckAgain, RefreshFails, FileNotWritten
    <3>2. /\ ~Ends(j, FALSE) /\ \A c : ~Holds(j, c)
          /\ \A c : job' # [job EXCEPT ![j].at = "refreshing", ![j].cred = c]
      BY <2>2, NotYetOk DEF WellFormed
    <3> QED
      BY <3>1, <3>2
  <2>8. ASSUME NEW j \in Jobs, FileWritten(j) PROVE FALSE
    <3>1. CASE job[j].kind = "logout" /\ Ends(j, TRUE)
      BY <2>2, <3>1 DEF Ends, WellFormed, JobsTyped
    <3>2. CASE job' = [job EXCEPT ![j].at = IF @ = "writing" THEN "routing" ELSE "holding",
                                  ![j].snap = Idle.snap]
      BY <2>2, <3>2, NotYetOk DEF WellFormed
    <3> QED
      BY <2>8, <3>1, <3>2 DEF FileWritten
  <2>9. ASSUME NEW j \in Jobs, Route(j) \/ Resolve(j) \/ KeyNotSet(j) PROVE FALSE
    <3>1. CASE Route(j)
      <4>1. CASE Ends(j, FALSE)
        BY <2>2, <4>1, NotYetOk DEF WellFormed
      <4>2. CASE \E b : job' = [job EXCEPT ![j].at = "resolving", ![j].routed = b]
        <5>1. PICK b : job' = [job EXCEPT ![j].at = "resolving", ![j].routed = b]
          BY <4>2
        <5> QED
          BY <2>2, <5>1, NotYetOk DEF WellFormed
      <4> QED
        BY <3>1, <4>1, <4>2, Zenon DEF Route
    <3>2. CASE Resolve(j) \/ KeyNotSet(j)
      <4>1. \/ Ends(j, FALSE)
            \/ \E c : Holds(j, c)
            \/ \E c : job' = [job EXCEPT ![j].at = "renewing", ![j].cred = c]
        BY <3>2 DEF Resolve, KeyNotSet
      <4>2. /\ ~Ends(j, FALSE) /\ \A c : ~Holds(j, c)
            /\ \A c : job' # [job EXCEPT ![j].at = "renewing", ![j].cred = c]
        BY <2>2, NotYetOk DEF WellFormed
      <4> QED
        BY <4>1, <4>2
    <3> QED
      BY <2>9, <3>1, <3>2
  <2>10. ASSUME NEW j \in Jobs, Declare(j) PROVE FALSE
    <3>1. Ends(j, TRUE) /\ job[j].kind # "request"
      BY <2>2, <2>10 DEF Declare, WellFormed, Kinds, OfKind
    <3> QED
      BY <2>2, <3>1 DEF Ends, WellFormed, JobsTyped
  <2>11. ASSUME NEW j \in Jobs, i # j, PublishKey(j) \/ KeySet(j) PROVE FALSE
    <3>1. \E r : job' = [job EXCEPT ![j] = r]
      BY <2>11 DEF PublishKey, KeySet, Published, Ends, Goes
    <3> QED
      BY <2>2, <2>11, <3>1 DEF WellFormed, JobsTyped
  <2>12. CASE PublishKey(i)
    <3>1. job[i].at = "holding" /\ ref' = ref
      BY <2>12 DEF PublishKey
    <3>2. memo[of[i]] = job[i].cred
      <4>1. ASSUME Goes(i, "setting") PROVE FALSE
        BY <2>2, <4>1 DEF Goes, WellFormed, JobsTyped, JobRecord
      <4> QED
        BY <2>12, <4>1 DEF PublishKey
    <3>3. job[i].cred \in 1 .. issued /\ age[job[i].cred] = 0
      BY <1>1, <3>1 DEF Handed
    <3>4. ref'[of[i]] = job[i].cred
      BY <1>1, <2>2, <3>1, <3>2, <3>3 DEF Handed, None
    <3> QED
      BY <2>3, <3>3, <3>4
  <2>13. CASE KeySet(i)
    <3>1. sets # <<>> /\ Head(sets) = i /\ ref' = [ref EXCEPT ![of[i]] = job[i].cred]
      BY <2>13 DEF KeySet
    <3>2. sets \in Seq(Jobs) /\ 1 \in 1 .. Len(sets) /\ sets[1] = i
      BY <2>2, <3>1 DEF WellFormed, JobsTyped
    <3>3. job[i].at = "setting"
      BY <2>2, <3>2 DEF WellFormed, SetsInOrder
    <3>4. job[i].cred \in 1 .. issued /\ age[job[i].cred] = 0
      BY <1>1, <3>3 DEF Handed
    <3>5. ref'[of[i]] = job[i].cred
      BY <2>2, <3>1 DEF WellFormed, HostTyped
    <3> QED
      BY <2>3, <3>4, <3>5
  <2>14. CASE \E c \in Creds : Ages(c)
    BY <2>14 DEF Ages
  <2>15. CASE Crash
    <3>1. job'[i] = IF job[i].at = "idle" THEN Idle ELSE [Idle EXCEPT !.at = "done"]
      BY <2>15 DEF Crash
    <3> QED
      BY <3>1 DEF Idle
  <2> QED
    BY <1>1, <2>5, <2>6, <2>7, <2>8, <2>9, <2>10, <2>11, <2>12, <2>13, <2>14, <2>15
    DEF StoredNext, Continues, InChain
<1> QED
  BY <1>1, StoreKept, PTL DEF AwaitedKeyIsAlive, StoredSpec

-----------------------------------------------------------------------------
(***************************************************************************)
(* The page on which the card of a login stands: BrowserSurfaces, whose    *)
(* variables are its own as well.  The instances of a package are mounted  *)
(* in order, so the one that runs commands has none after it, and the      *)
(* component retained of a widget is the last call's or none.              *)
(***************************************************************************)
\* The registry of the host: instances begin in order; who runs commands is
\* mounted and the last to begin; when nobody does, none that is mounted is that.
RegistryInv ==
  /\ instance \in [Instances -> {"new", "mounted", "gone"}]
  /\ \A i, j \in Instances : j < i /\ instance[i] # "new" => instance[j] # "new"
  /\ runner \in {0} \cup Instances /\ source \in {0} \cup Instances
  /\ runner # 0 => /\ instance[runner] = "mounted"
                   /\ \A i \in Instances : i > runner => instance[i] = "new"
  /\ runner = 0 => \A i \in Instances : instance[i] = "mounted" =>
                     \E j \in Instances : j > i /\ instance[j] # "new"
  /\ source # 0 => instance[source] = "mounted"

\* Of a widget, what is retained and what is shown is the last call's.
WidgetInv ==
  /\ widget \in [calls : Nat, component : Nat, shown : Nat]
  /\ widget.component \in {0, widget.calls} /\ widget.shown \in {0, widget.calls}

\* The answers on their way, kept and applied carry numbers of requests.
Answers == [draft : Nat, entries : BOOLEAN]

AnswersInv ==
  /\ draft \in Nat /\ applied \in Nat /\ latest \subseteq Answers
  /\ poll \in [1 .. MaxPolls -> [at : {"free", "asked", "answered"}, state : Answers]]

SurfacesInv == RegistryInv /\ WidgetInv /\ AnswersInv

\* A set of instances that is not empty has a newest.
LEMMA NewestExists ==
  ASSUME NEW T \in SUBSET Instances, T # {}
  PROVE  \E x \in T : \A y \in T : y <= x
<1>1. {N - i : i \in T} \in SUBSET Nat /\ {N - i : i \in T} # {}
  <2>1. \A i \in T : N - i \in Nat
    BY SurfacesAssumption DEF Instances
  <2>2. PICK i \in T : TRUE
    OBVIOUS
  <2>3. N - i \in {N - j : j \in T}
    BY <2>2
  <2> QED
    BY <2>1, <2>3
<1>2. PICK m \in {N - i : i \in T} : \A n \in {N - i : i \in T} : m <= n
  BY <1>1, LeastExists
<1>3. PICK x \in T : m = N - x
  BY <1>2
<1>4. ASSUME NEW y \in T PROVE y <= x
  <2>1. N - x <= N - y
    BY <1>2, <1>3, <1>4
  <2> QED
    BY <2>1, SurfacesAssumption DEF Instances
<1> QED
  BY <1>3, <1>4

\* An instance begins, or is disposed of.
LEMMA RegistryKept ==
  ASSUME RegistryInv, NEW i \in Instances, Mount(i) \/ Unmount(i)
  PROVE  RegistryInv'
<1>1. i \in Nat /\ i # 0 /\ \A j \in Instances : j \in Nat /\ j # 0
  BY DEF Instances
<1>2. CASE Mount(i)
  <2>1. \A j \in Instances : j < i => instance[j] # "new"
    BY <1>1, <1>2 DEF Mount, Instances
  <2>2. \A j \in Instances : j > i => instance[j] = "new"
    BY <1>2 DEF Mount, RegistryInv
  <2> QED
    BY <1>1, <1>2, <2>1, <2>2 DEF Mount, RegistryInv
<1>3. CASE Unmount(i)
  <2>1. CASE runner = i
    <3>1. \A j \in Instances : instance'[j] = "mounted" => j < i /\ instance'[i] # "new"
      BY <1>1, <1>3, <2>1 DEF Unmount, RegistryInv
    <3> QED
      BY <1>1, <1>3, <2>1, <3>1 DEF Unmount, Unregistered, RegistryInv
  <2>2. CASE runner # i
    BY <1>1, <1>3, <2>2 DEF Unmount, Unregistered, RegistryInv
  <2> QED
    BY <2>1, <2>2
<1> QED
  BY <1>2, <1>3

\* Calls of setWidget, and drawings on whatever handle.
LEMMA WidgetKept ==
  ASSUME WidgetInv,
         \/ \E text \in BOOLEAN : SetLines(text)
         \/ \E makes \in BOOLEAN, renders \in BOOLEAN : SetFactory(makes, renders)
         \/ \E n \in 1 .. MaxWidgets, renders \in BOOLEAN : RequestRender(n, renders)
  PROVE  WidgetInv'
<1>1. ASSUME NEW text \in BOOLEAN, SetLines(text) PROVE WidgetInv'
  BY <1>1 DEF SetLines, WidgetInv
<1>2. ASSUME NEW makes \in BOOLEAN, NEW renders \in BOOLEAN, SetFactory(makes, renders)
      PROVE  WidgetInv'
  <2> DEFINE n == widget.calls + 1
  <2>1. widget' = [calls |-> n, component |-> IF makes THEN n ELSE 0,
                   shown |-> IF makes /\ renders THEN n ELSE 0]
    BY <1>2 DEF SetFactory
  <2>2. n \in Nat
    BY DEF WidgetInv
  <2> HIDE DEF n
  <2> QED
    BY <2>1, <2>2 DEF WidgetInv
<1>3. ASSUME NEW n \in 1 .. MaxWidgets, NEW renders \in BOOLEAN, RequestRender(n, renders)
      PROVE  WidgetInv'
  <2>1. n \in 1 .. widget.calls /\ widget' = Drawn(n, renders)
    BY <1>3 DEF RequestRender
  <2>2. CASE widget.component # n
    BY <2>1, <2>2 DEF Drawn, WidgetInv
  <2>3. CASE widget.component = n
    <3>1. n = widget.calls /\ n \in Nat
      BY <2>1, <2>3 DEF WidgetInv
    <3>2. widget' = [widget EXCEPT !.shown = IF renders THEN n ELSE 0]
      BY <2>1, <2>3 DEF Drawn
    <3> QED
      BY <3>1, <3>2 DEF WidgetInv
  <2> QED
    BY <2>2, <2>3
<1> QED
  BY <1>1, <1>2, <1>3

\* Whatever the page asks, gets and shows.
LEMMA AnswersKept ==
  ASSUME RegistryInv, AnswersInv, Page
  PROVE  /\ AnswersInv'
         /\ Composer \in subscribed /\ Composer \in subscribed' => applied' >= applied
<1>1. \A rev, last \in Nat : Applied(rev, last) \in Nat /\ Applied(rev, last) >= last
  BY DEF Applied
<1>2. Empty \in Answers /\ Payload \in Answers
  BY DEF Empty, Payload, Answers, AnswersInv
<1>3. ASSUME AskServer PROVE poll' \in [1 .. MaxPolls -> [at : {"free", "asked", "answered"}, state : Answers]]
  BY <1>3 DEF AskServer, AnswersInv
<1>4. ASSUME NEW s \in Seats, Subscribe(s)
      PROVE  /\ AnswersInv'
             /\ Composer \in subscribed /\ Composer \in subscribed' => applied' >= applied
  <2>1. PICK start \in IF latest = {} THEN {Empty} ELSE latest :
          applied' = IF s = Composer THEN Applied(start.draft, 0) ELSE applied
    BY <1>4 DEF Subscribe
  <2>2. start \in Answers
    BY <1>2, <2>1 DEF AnswersInv
  <2>3. applied' \in Nat
    BY <1>1, <2>1, <2>2 DEF Answers, AnswersInv
  <2>4. poll' \in [1 .. MaxPolls -> [at : {"free", "asked", "answered"}, state : Answers]]
    BY <1>3, <1>4 DEF Subscribe, AnswersInv
  <2>5. s \notin subscribed /\ latest' = latest /\ draft' = draft
    BY <1>4 DEF Subscribe, server
  <2> QED
    BY <2>1, <2>3, <2>4, <2>5 DEF AnswersInv
<1>5. ASSUME NEW s \in Seats, Unsubscribe(s)
      PROVE  /\ AnswersInv'
             /\ Composer \in subscribed /\ Composer \in subscribed' => applied' >= applied
  BY <1>5 DEF Unsubscribe, server, AnswersInv
<1>6. ASSUME Tick PROVE AnswersInv' /\ applied' = applied
  BY <1>3, <1>6 DEF Tick, server, AnswersInv
<1>7. ASSUME NEW k \in DOMAIN poll, Serve(k) \/ Lose(k) PROVE AnswersInv' /\ applied' = applied
  BY <1>2, <1>7 DEF Serve, Lose, Free, server, AnswersInv
<1>8. ASSUME NEW k \in DOMAIN poll, Receive(k) PROVE AnswersInv' /\ applied' >= applied
  <2>1. k \in 1 .. MaxPolls /\ poll[k].state \in Answers /\ poll[k].state.draft \in Nat
    BY DEF AnswersInv, Answers
  <2>2. applied' = IF Composer \in subscribed THEN Applied(poll[k].state.draft, applied) ELSE applied
    BY <1>8 DEF Receive, Shown
  <2>3. applied' \in Nat /\ applied' >= applied
    <3>1. applied \in Nat
      BY DEF AnswersInv
    <3>2. Applied(poll[k].state.draft, applied) \in Nat /\ Applied(poll[k].state.draft, applied) >= applied
      BY <1>1, <2>1, <3>1
    <3>3. CASE Composer \in subscribed
      BY <2>2, <3>2, <3>3
    <3>4. CASE Composer \notin subscribed
      BY <2>2, <3>1, <3>4
    <3> QED
      BY <3>3, <3>4
  <2>4. /\ latest' = {poll[k].state} /\ draft' = draft /\ poll' = [poll EXCEPT ![k] = Free]
    BY <1>8 DEF Receive, server
  <2> QED
    BY <1>2, <2>1, <2>3, <2>4 DEF AnswersInv, Free
<1>9. applied \in Nat
  BY DEF AnswersInv
<1> QED
  BY <1>4, <1>5, <1>6, <1>7, <1>8, <1>9 DEF Page

\* Every step keeps the registry, the widget and the answers.
LEMMA SurfacesStep ==
  ASSUME SurfacesInv, [SurfacesNext]_surfacesVars
  PROVE  /\ SurfacesInv'
         /\ Composer \in subscribed /\ Composer \in subscribed' => applied' >= applied
<1>1. /\ (UNCHANGED <<instance, runner, source>> => RegistryInv')
      /\ (UNCHANGED widget => WidgetInv')
      /\ (UNCHANGED <<draft, latest, poll, applied>> => AnswersInv' /\ applied' >= applied)
  BY DEF SurfacesInv, RegistryInv, WidgetInv, AnswersInv
<1>2. CASE \E i \in Instances : Mount(i) \/ Unmount(i)
  BY <1>1, <1>2, RegistryKept DEF SurfacesInv, Mount, Unmount, page
<1>3. CASE RequestDraft
  BY <1>1, <1>3 DEF SurfacesInv, RequestDraft, page, AnswersInv
<1>4. CASE \/ \E text \in BOOLEAN : SetLines(text)
           \/ \E makes \in BOOLEAN, renders \in BOOLEAN : SetFactory(makes, renders)
           \/ \E n \in 1 .. MaxWidgets, renders \in BOOLEAN : RequestRender(n, renders)
  <2>1. WidgetInv'
    BY <1>4, WidgetKept DEF SurfacesInv
  <2>2. UNCHANGED <<instance, runner, source, draft, latest, poll, applied>>
    BY <1>4 DEF SetLines, SetFactory, RequestRender, page
  <2> QED
    BY <1>1, <2>1, <2>2 DEF SurfacesInv
<1>5. CASE Page
  <2>1. UNCHANGED <<instance, runner, source, widget>>
    BY <1>5 DEF Page, Subscribe, Unsubscribe, Tick, Serve, Receive, Lose, server
  <2> QED
    BY <1>1, <1>5, <2>1, AnswersKept DEF SurfacesInv
<1>6. CASE UNCHANGED surfacesVars
  BY <1>1, <1>6 DEF SurfacesInv, surfacesVars, server, page
<1> QED
  BY <1>2, <1>3, <1>4, <1>5, <1>6 DEF SurfacesNext, Host

\* The invariant holds throughout.
LEMMA SurfacesKept == SurfacesSpec => []SurfacesInv
<1>1. ASSUME SurfacesInit PROVE SurfacesInv
  <2>1. RegistryInv /\ WidgetInv
    BY <1>1 DEF SurfacesInit, RegistryInv, WidgetInv, Instances
  <2>2. Empty \in Answers
    BY DEF Empty, Answers
  <2>3. AnswersInv
    BY <1>1, <2>2 DEF SurfacesInit, AnswersInv, Free
  <2> QED
    BY <2>1, <2>3 DEF SurfacesInv
<1>2. SurfacesInv /\ [SurfacesNext]_surfacesVars => SurfacesInv'
  BY SurfacesStep
<1> QED
  BY <1>1, <1>2, PTL DEF SurfacesSpec

\* What the page shows, and what runs its commands, is there and the last,
\* however many instances come and go.
THEOREM PageShowsLive == SurfacesSpec => []ShownIsLive
<1>1. ASSUME SurfacesInv PROVE RegistryIsLive
  <2> DEFINE begun == {i \in Instances : instance[i] # "new"}
             newest == CHOOSE i \in begun : \A j \in begun : j <= i
  <2>1. source # 0 => instance[source] = "mounted"
    BY <1>1 DEF SurfacesInv, RegistryInv
  <2>2. \A i \in Instances : i \in Nat /\ i # 0
    BY DEF Instances
  <2>3. CASE begun = {}
    BY <1>1, <2>1, <2>2, <2>3 DEF SurfacesInv, RegistryInv, RegistryIsLive
  <2>4. CASE begun # {}
    <3>1. \E i \in begun : \A j \in begun : j <= i
      BY <2>4, NewestExists
    <3>2. newest \in begun /\ \A j \in begun : j <= newest
      BY <3>1
    <3> HIDE DEF newest
    <3>3. runner = IF instance[newest] = "mounted" THEN newest ELSE 0
      <4>1. newest \in Instances /\ instance[newest] # "new" /\ newest \in Nat
        BY <2>2, <3>2
      <4>2. CASE runner = 0
        <5>1. instance[newest] = "mounted" => \E j \in Instances : j > newest /\ instance[j] # "new"
          BY <1>1, <4>1, <4>2 DEF SurfacesInv, RegistryInv
        <5> QED
          BY <2>2, <3>2, <4>1, <4>2, <5>1
      <4>3. CASE runner # 0
        <5>1. /\ runner \in Instances /\ instance[runner] = "mounted" /\ runner \in Nat
              /\ \A i \in Instances : i > runner => instance[i] = "new"
          BY <1>1, <2>2, <4>3 DEF SurfacesInv, RegistryInv
        <5>2. runner <= newest /\ ~(newest > runner)
          BY <3>2, <4>1, <5>1
        <5> QED
          BY <4>1, <5>1, <5>2
      <4> QED
        BY <4>2, <4>3
    <3> QED
      BY <2>1, <2>4, <3>3 DEF RegistryIsLive, newest
  <2> QED
    BY <2>3, <2>4
<1>2. SurfacesInv => ShownIsLive
  BY <1>1 DEF SurfacesInv, WidgetInv, ShownIsLive, WidgetIsLatest
<1> QED
  BY <1>2, SurfacesKept, PTL

\* The composer takes each request once, in order, however answers arrive.
THEOREM RequestsApplyInOrder == SurfacesSpec => AppliedInOrder
<1>1. SurfacesInv /\ [SurfacesNext]_surfacesVars =>
        [(Composer \in subscribed /\ Composer \in subscribed') => applied' >= applied]_surfacesVars
  BY SurfacesStep
<1> QED
  BY <1>1, SurfacesKept, PTL DEF SurfacesSpec, AppliedInOrder
=============================================================================
