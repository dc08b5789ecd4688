----------------------------- MODULE LoginFlow -----------------------------
(***************************************************************************)
(* One interactive OAuth login: runProviderLogin and supersedeActiveLogin  *)
(* (src/src/runtime.ts), the faces of the login card (loginState and       *)
(* loginAction there), loginPiProvider and oauthInteraction                *)
(* (src/src/oauth-bridge.ts) and the short links of                        *)
(* src/src/browser-surfaces.ts.                                            *)
(*                                                                         *)
(* A login comes in by one of three doors: the card of the models page,    *)
(* polled and answered over the package's route; the command /login; the   *)
(* host's authorization seam.  It takes over from the login in flight:     *)
(* calls it off and waits, five seconds at most, until it has let go of    *)
(* the callback port.  Its flow is the package's own, external here: it    *)
(* shows addresses and device codes, asks for codes, and settles.  A flow  *)
(* may wait for its question to be closed before it settles, as Pi's       *)
(* anthropic flow does, or leave it on the screen.                         *)
(***************************************************************************)
EXTENDS Integers, FiniteSets

CONSTANTS
  MaxLogins,   \* bound: logins begun
  MaxLinks,    \* bound: short links published
  MaxPending   \* links kept at most; 8 in the code

ASSUME LoginAssumption ==
  /\ MaxLogins \in Nat /\ MaxLinks \in Nat
  /\ MaxPending \in Nat \ {0}

Logins == 1 .. MaxLogins
Doors == {"card", "command", "seam"}

VARIABLES
  login,      \* each login: door, position and signals
  active,     \* SharedHostState.activeLogin, or 0
  shown,      \* SharedHostState.browserLogin: the login on the card, or 0
  outcome,    \* per login of the card: its flow's `done'
  links,      \* pendingAuthorizations: the links served, numbered as published
  published,  \* per login: the links it published
  cancelling  \* the login a cancel of the card waits for, or 0

vars == <<login, active, shown, outcome, links, published, cancelling>>

Begun == {l \in Logins : login[l].at # "none"}
InFlight == {l \in Logins : login[l].at \in {"flow", "storing"}}
AllLinks == UNION {published[l] : l \in Logins}

Init ==
  /\ login = [l \in Logins |->
       [at |-> "none", door |-> "card", after |-> 0, waits |-> FALSE, external |-> FALSE,
        done |-> FALSE, open |-> FALSE, stored |-> FALSE]]
  /\ active = 0 /\ shown = 0 /\ cancelling = 0
  /\ outcome = [l \in Logins |-> "none"]
  /\ links = {} /\ published = [l \in Logins |-> {}]

(* FAULT: only the flow's own signal closes its question. *)
CalledOff_OwnSignal(r) == [r EXCEPT !.done = TRUE]

(* The login's signal is aborted: whichever screen its question is on, the  *)
(* signal closes it.                                                        *)
CalledOff(r) == [r EXCEPT !.done = TRUE, !.open = FALSE]

Unserve(gone) == links' = links \ gone

(* FAULT: nobody listens for a failure. *)
Conclude_Success(l, how) ==
  outcome' = IF shown = l /\ how = "ok" THEN [outcome EXCEPT ![l] = how] ELSE outcome

Conclude(l, how) == outcome' = IF shown = l THEN [outcome EXCEPT ![l] = how] ELSE outcome

-----------------------------------------------------------------------------
(* Beginning, and taking over from the login in flight.                     *)

(* The flow starts and becomes the one in flight; it may start called off.  *)
Started(r) == [r EXCEPT !.at = "flow", !.after = 0, !.done = r.external]

(* supersedeActiveLogin, up to its wait: nothing is in flight from now on.  *)
(* `called' is the state of the logins before it.                           *)
Supersede(called) ==
  /\ active' = 0
  /\ login' = [called EXCEPT ![active] = CalledOff(@)]
  /\ Unserve(published[active])

Begin(l, door, waits) ==
  /\ l \notin Begun /\ \A m \in 1 .. l - 1 : m \in Begun
  /\ shown' = IF door = "card" THEN l ELSE shown
  /\ LET fresh == [login[l] EXCEPT !.door = door, !.waits = waits]
     IN IF active = 0
        THEN /\ login' = [login EXCEPT ![l] = Started(fresh)]
             /\ active' = l
             /\ UNCHANGED links
        ELSE Supersede([login EXCEPT ![l] = [fresh EXCEPT !.at = "waiting", !.after = active]])
  /\ UNCHANGED <<outcome, published, cancelling>>

LetGo(l) == l \notin InFlight

TakeOver(l) ==
  /\ login[l].at = "waiting" /\ LetGo(login[l].after)
  /\ login' = [login EXCEPT ![l] = Started(@)]
  /\ active' = l
  /\ UNCHANGED <<shown, outcome, links, published, cancelling>>

(* Five seconds are over. *)
GiveUp(l) ==
  /\ login[l].at = "waiting" /\ ~LetGo(login[l].after)
  /\ login' = [login EXCEPT ![l].at = "over"]
  /\ Conclude(l, "failed")
  /\ UNCHANGED <<active, shown, links, published, cancelling>>

(* The host aborts the signal it gave the command or the seam's session. *)
ExternalAbort(l) ==
  /\ login[l].at \in {"waiting", "flow", "storing"} /\ login[l].door # "card"
  /\ ~login[l].external
  /\ LET r == [login[l] EXCEPT !.external = TRUE]
     IN login' = [login EXCEPT ![l] = IF l \in InFlight THEN CalledOff(r) ELSE r]
  /\ UNCHANGED <<active, shown, outcome, links, published, cancelling>>

-----------------------------------------------------------------------------
(* The flow of the package.                                                 *)

(* publishAuthorization: the oldest link gives way. *)
Publish(link) ==
  LET all == links \cup {link}
  IN IF Cardinality(all) > MaxPending
     THEN all \ {CHOOSE oldest \in all : \A k \in all : oldest <= k} ELSE all

(* An address to open, by a short link of its own. *)
Announce(l) ==
  /\ login[l].at = "flow" /\ Cardinality(AllLinks) < MaxLinks
  /\ LET link == Cardinality(AllLinks) + 1
     IN links' = Publish(link) /\ published' = [published EXCEPT ![l] = @ \cup {link}]
  /\ UNCHANGED <<login, active, shown, outcome, cancelling>>

(* A question, put on the screen unless the signal is aborted already.  A   *)
(* flow asks one at a time.                                                 *)
Ask(l) ==
  /\ login[l].at = "flow" /\ ~login[l].open
  /\ login' = [login EXCEPT ![l].open = ~login[l].done]
  /\ UNCHANGED <<active, shown, outcome, links, published, cancelling>>

(* The question settles: answered in the host's dialog, or closed by the    *)
(* flow, whose callback got the code first.                                 *)
Settle(l) ==
  /\ l \in InFlight /\ login[l].open
  /\ login' = [login EXCEPT ![l].open = FALSE]
  /\ UNCHANGED <<active, shown, outcome, links, published, cancelling>>

(* A device code: the dialog of the command, dismissed, ends the login. *)
DismissDeviceCode(l) ==
  /\ l \in InFlight /\ login[l].door = "command" /\ ~login[l].done
  /\ login' = [login EXCEPT ![l] = CalledOff(@)]
  /\ UNCHANGED <<active, shown, outcome, links, published, cancelling>>

MaySettle(l) == login[l].at = "flow" /\ ~(login[l].waits /\ login[l].open)

Succeed(l) ==
  /\ MaySettle(l)
  /\ login' = [login EXCEPT ![l].at = "storing"]
  /\ UNCHANGED <<active, shown, outcome, links, published, cancelling>>

(* FAULT: the signal is aborted only when the user calls the login off. *)
Ended_Silent(r, at) == [r EXCEPT !.at = at]

(* The attempt is over, one way or the other, and so is its signal. *)
Ended(r, at) == [CalledOff(r) EXCEPT !.at = at]

(* FAULT: the links are retired only by the login that takes over. *)
Release_Links(l) ==
  /\ active' = IF active = l THEN 0 ELSE active
  /\ UNCHANGED links

Release(l) ==
  /\ Unserve(published[l])
  /\ active' = IF active = l THEN 0 ELSE active

Fail(l) ==
  /\ MaySettle(l) \/ login[l].at = "storing"
  /\ login' = [login EXCEPT ![l] = Ended(@, "over")]
  /\ Release(l)
  /\ Conclude(l, "failed")
  /\ UNCHANGED <<shown, published, cancelling>>

(* The credential is stored, called off or not. *)
Store(l) ==
  /\ login[l].at = "storing"
  /\ login' = [login EXCEPT ![l] = [Ended(@, "routing") EXCEPT !.stored = TRUE]]
  /\ Release(l)
  /\ UNCHANGED <<shown, outcome, published, cancelling>>

(* The route and the models of the provider are there, or could not be had. *)
Finish(l, how) ==
  /\ login[l].at = "routing"
  /\ login' = [login EXCEPT ![l].at = "over"]
  /\ Conclude(l, how)
  /\ UNCHANGED <<active, shown, links, published, cancelling>>

-----------------------------------------------------------------------------
(* The card: loginAction.                                                   *)

Dismiss ==
  /\ shown # 0 /\ shown' = 0
  /\ UNCHANGED <<login, active, outcome, links, published, cancelling>>

Answer ==
  /\ shown # 0 /\ Settle(shown)

(* After the wait the card's flow is the one of that moment. *)
Cancelled ==
  outcome' = IF shown # 0 /\ outcome[shown] = "none"
             THEN [outcome EXCEPT ![shown] = "cancelled"] ELSE outcome

Cancel ==
  /\ cancelling = 0
  /\ IF active = 0
     THEN Cancelled /\ UNCHANGED <<login, active, links, cancelling>>
     ELSE Supersede(login) /\ cancelling' = active /\ UNCHANGED outcome
  /\ UNCHANGED <<shown, published>>

CancelDone ==
  /\ cancelling # 0
  /\ cancelling' = 0
  /\ \/ LetGo(cancelling) /\ Cancelled
     \/ ~LetGo(cancelling) /\ UNCHANGED outcome
  /\ UNCHANGED <<login, active, shown, links, published>>

-----------------------------------------------------------------------------
Flow(l) ==
  \/ TakeOver(l) \/ GiveUp(l) \/ ExternalAbort(l)
  \/ Announce(l) \/ Ask(l) \/ Settle(l) \/ DismissDeviceCode(l)
  \/ Succeed(l) \/ Fail(l) \/ Store(l)
  \/ \E how \in {"ok", "failed"} : Finish(l, how)

Next ==
  \/ \E l \in Logins : Flow(l) \/ \E door \in Doors, waits \in BOOLEAN : Begin(l, door, waits)
  \/ Dismiss \/ Answer \/ Cancel \/ CancelDone

(* A flow that is called off settles, once its question is closed if it     *)
(* waits for that; the rest is the bridge's own.  Nothing is expected of    *)
(* the user.                                                                *)
Fairness == \A l \in Logins :
  /\ WF_vars(login[l].done /\ (Succeed(l) \/ Fail(l)))
  /\ WF_vars(Store(l) \/ (Fail(l) /\ login[l].at = "storing"))
  /\ WF_vars(TakeOver(l) \/ GiveUp(l))
  /\ WF_vars(\E how \in {"ok", "failed"} : Finish(l, how))

Spec == Init /\ [][Next]_vars /\ Fairness

-----------------------------------------------------------------------------
TypeOK ==
  /\ login \in [Logins ->
       [at : {"none", "waiting", "flow", "storing", "routing", "over"}, door : Doors,
        after : 0 .. MaxLogins, waits : BOOLEAN, external : BOOLEAN, done : BOOLEAN,
        open : BOOLEAN, stored : BOOLEAN]]
  /\ active \in 0 .. MaxLogins /\ shown \in 0 .. MaxLogins /\ cancelling \in 0 .. MaxLogins
  /\ outcome \in [Logins -> {"none", "ok", "failed", "cancelled"}]
  /\ published \in [Logins -> SUBSET (1 .. MaxLinks)]
  /\ links \subseteq AllLinks /\ Cardinality(links) <= MaxPending

(* A short link that is served leads to the address of a login in flight,   *)
(* though a flow that has been called off may still publish some: following *)
(* the address of an ended login sends a code the flow that is listening    *)
(* cannot match (runtime.ts 3589, 3939; browser-surfaces.ts 636-645).       *)
LinksAreLive == links \subseteq UNION {published[l] : l \in InFlight}

(* No question outlives its login, whichever way the login ended or was     *)
(* called off, and whether or not its flow took the question back: nobody   *)
(* is left before a box that can no longer do anything (oauth-bridge.ts     *)
(* 339-347, 362; runtime.ts 5927-5947).                                     *)
NoQuestionOutlivesLogin ==
  \A l \in Logins : login[l].open => l \in InFlight /\ ~login[l].done

(* What the card says of its login is so: it succeeded only when the        *)
(* credential is stored, and a login of the card that is over has an        *)
(* outcome (runtime.ts 5976-5983).                                          *)
CardTellsTruth ==
  /\ TypeOK
  /\ \A l \in Logins : outcome[l] = "ok" => login[l].stored /\ login[l].at = "over"
  /\ shown # 0 /\ login[shown].at = "over" => outcome[shown] # "none"

(* A login that is called off lets go of the callback port, also when its   *)
(* flow waits for its question to be closed (oauth-bridge.ts 95-110,        *)
(* 225-234).                                                                *)
CalledOffLetsGo == \A l \in Logins : login[l].done ~> LetGo(l)

=============================================================================
