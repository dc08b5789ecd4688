-------------------------- MODULE BrowserSurfaces --------------------------
(***************************************************************************)
(* What Pi packages put on the page: the class BrowserSurfaces and the     *)
(* route /pi2dsh/browser-state (src/src/browser-surfaces.ts), the sources  *)
(* an instance registers (src/src/runtime.ts), and the page's half: the    *)
(* poller `watch' shared by its seats and the ComposerBridge               *)
(* (src/src/client.ts).                                                    *)
(*                                                                         *)
(* One package, one session on the page, one widget.  The page polls the   *)
(* route every second whether or not the last answer is there, so answers  *)
(* come late, in any order, or not at all, also to seats that were taken   *)
(* after the question.  A text is abstracted to the number of the call     *)
(* that asked for it.  What the composer reports back is left out.         *)
(***************************************************************************)
EXTENDS Naturals

CONSTANTS
  N,           \* instances of the package in the session, mounted in this order: 1 .. N
  Seats,       \* seats of the page that show what the route answers
  Composer,    \* the seat that writes to the composer
  MaxPolls,    \* bound: questions under way
  MaxLost,     \* bound: questions without an answer
  MaxDrafts,   \* bound: texts asked for
  MaxWidgets   \* bound: calls of setWidget

ASSUME SurfacesAssumption ==
  /\ N \in Nat /\ Composer \in Seats
  /\ {MaxPolls, MaxLost, MaxDrafts, MaxWidgets} \subseteq Nat

Instances == 1 .. N

VARIABLES
  instance,   \* each instance of the package: not there yet, mounted, or gone
  runner,     \* #commandRunners for the session: the instance, or none (0)
  source,     \* #entrySources for the package: the instance, or none (0)
  widget,     \* #factoryComponents and the slot of the widget, and the calls made
  draft,      \* #draftRequests: the revision asked for last
  subscribed, \* the seats that read the poller
  timer,      \* whether the page polls
  latest,     \* the page's cache: at most one answer
  poll,       \* each question under way: its position, and the answer
  lost,       \* questions without an answer so far
  view,       \* what each seat shows
  applied     \* appliedRev of the composer's seat

server == <<instance, runner, source, widget, draft>>
page == <<subscribed, timer, latest, poll, lost, view, applied>>
surfacesVars == <<server, page>>

Empty == [draft |-> 0, entries |-> FALSE]
Free == [at |-> "free", state |-> Empty]

SurfacesInit ==
  /\ instance = [i \in Instances |-> "new"] /\ runner = 0 /\ source = 0
  /\ widget = [calls |-> 0, component |-> 0, shown |-> 0] /\ draft = 0
  /\ subscribed = {} /\ timer = FALSE /\ latest = {}
  /\ poll = [k \in 1 .. MaxPolls |-> Free] /\ lost = 0
  /\ view = [s \in Seats |-> Empty] /\ applied = 0

-----------------------------------------------------------------------------
(* The registry, in the host.                                               *)

(* A new load or a new agent of the session may come before the old one is  *)
(* gone.                                                                    *)
Mount(i) ==
  /\ instance[i] = "new"
  /\ \A j \in 1 .. i - 1 : instance[j] # "new"
  /\ instance' = [instance EXCEPT ![i] = "mounted"]
  /\ source' = i
  /\ runner' = i
  /\ UNCHANGED <<widget, draft, page>>

(* The disposer of registerCommandRunner. *)
Unregistered(i) == IF runner = i THEN 0 ELSE runner

(* The disposer of trackEntries asks nothing. *)
Unmount(i) ==
  /\ instance[i] = "mounted"
  /\ instance' = [instance EXCEPT ![i] = "gone"]
  /\ source' = 0
  /\ runner' = Unregistered(i)
  /\ UNCHANGED <<widget, draft, page>>

(* requestDraft *)
RequestDraft ==
  /\ draft < MaxDrafts /\ draft' = draft + 1
  /\ UNCHANGED <<instance, runner, source, widget, page>>

(* setWidget with lines, or with nothing: what was retained is disposed of. *)
SetLines(text) ==
  /\ widget.calls < MaxWidgets
  /\ widget' = [calls |-> widget.calls + 1, component |-> 0,
                shown |-> IF text THEN widget.calls + 1 ELSE 0]
  /\ UNCHANGED <<instance, runner, source, draft, page>>

(* setWidget with a factory, which makes a component or throws; the         *)
(* component renders now, or throws.                                        *)
SetFactory(makes, renders) ==
  /\ widget.calls < MaxWidgets
  /\ LET n == widget.calls + 1
     IN widget' = [calls |-> n, component |-> IF makes THEN n ELSE 0,
                   shown |-> IF makes /\ renders THEN n ELSE 0]
  /\ UNCHANGED <<instance, runner, source, draft, page>>

(* FAULT: whoever holds a handle draws. *)
Drawn_Any(n, renders) == [widget EXCEPT !.shown = IF renders THEN n ELSE 0]

(* requestRender, on the handle of the n-th call. *)
Drawn(n, renders) ==
  IF widget.component = n THEN [widget EXCEPT !.shown = IF renders THEN n ELSE 0] ELSE widget

RequestRender(n, renders) ==
  /\ n \in 1 .. widget.calls
  /\ widget' = Drawn(n, renders)
  /\ UNCHANGED <<instance, runner, source, draft, page>>

Payload == [draft |-> draft, entries |-> source # 0]

-----------------------------------------------------------------------------
(* The page: watch.                                                         *)

AskServer == \E k \in DOMAIN poll : poll[k].at = "free" /\ poll' = [poll EXCEPT ![k].at = "asked"]

(* FAULT: the request is applied whenever it is there. *)
Applied_Any(rev, last) == IF rev > 0 THEN rev ELSE last

(* The composer applies the request of a revision it has not seen. *)
Applied(rev, last) == IF rev > last THEN rev ELSE last

Shown(seats, state) ==
  /\ view' = [s \in Seats |-> IF s \in seats THEN state ELSE view[s]]
  /\ applied' = IF Composer \in seats THEN Applied(state.draft, applied) ELSE applied

(* A seat is mounted: it gets the cached view, and the first one asks.      *)
Subscribe(s) ==
  /\ s \notin subscribed /\ subscribed' = subscribed \cup {s}
  /\ \E start \in IF latest = {} THEN {Empty} ELSE latest :
       /\ view' = [view EXCEPT ![s] = start]
       /\ applied' = IF s = Composer THEN Applied(start.draft, 0) ELSE applied
  /\ timer' = TRUE
  /\ IF timer THEN UNCHANGED poll ELSE AskServer
  /\ UNCHANGED <<latest, lost, server>>

(* FAULT: any seat that goes stops the polling. *)
Polling_Any(left) == FALSE

Polling(left) == left # {}

Unsubscribe(s) ==
  /\ s \in subscribed /\ subscribed' = subscribed \ {s}
  /\ timer' = Polling(subscribed')
  /\ latest' = IF timer' THEN latest ELSE {}
  /\ view' = [view EXCEPT ![s] = Empty]
  /\ applied' = IF s = Composer THEN 0 ELSE applied
  /\ UNCHANGED <<poll, lost, server>>

Tick ==
  /\ timer /\ AskServer
  /\ UNCHANGED <<subscribed, timer, latest, lost, view, applied, server>>

(* The route answers. *)
Serve(k) ==
  /\ poll[k].at = "asked" /\ poll' = [poll EXCEPT ![k] = [at |-> "answered", state |-> Payload]]
  /\ UNCHANGED <<subscribed, timer, latest, lost, view, applied, server>>

Receive(k) ==
  /\ poll[k].at = "answered" /\ poll' = [poll EXCEPT ![k] = Free]
  /\ latest' = {poll[k].state}
  /\ Shown(subscribed, poll[k].state)
  /\ UNCHANGED <<subscribed, timer, lost, server>>

(* The question or its answer is lost, or the answer is an error. *)
Lose(k) ==
  /\ poll[k].at # "free" /\ lost < MaxLost /\ lost' = lost + 1
  /\ poll' = [poll EXCEPT ![k] = Free]
  /\ UNCHANGED <<subscribed, timer, latest, view, applied, server>>

-----------------------------------------------------------------------------
Host ==
  \/ \E i \in Instances : Mount(i) \/ Unmount(i)
  \/ RequestDraft
  \/ \E text \in BOOLEAN : SetLines(text)
  \/ \E makes \in BOOLEAN, renders \in BOOLEAN : SetFactory(makes, renders)
  \/ \E n \in 1 .. MaxWidgets, renders \in BOOLEAN : RequestRender(n, renders)

Page ==
  \/ \E s \in Seats : Subscribe(s) \/ Unsubscribe(s)
  \/ Tick
  \/ \E k \in DOMAIN poll : Serve(k) \/ Receive(k) \/ Lose(k)

SurfacesNext == Host \/ Page

(* The interval keeps ticking, and what is not lost is answered.            *)
SurfacesFairness ==
  /\ WF_surfacesVars(Tick)
  /\ \A k \in 1 .. MaxPolls : WF_surfacesVars(Serve(k)) /\ WF_surfacesVars(Receive(k))

SurfacesSpec == SurfacesInit /\ [][SurfacesNext]_surfacesVars /\ SurfacesFairness

-----------------------------------------------------------------------------
(* The newest instance of the session runs the commands of the page while   *)
(* it is mounted, whenever an older one is disposed of; and no instance     *)
(* that is gone draws entries (browser-surfaces.ts 146-156, 349-352).       *)
RegistryIsLive ==
  LET begun == {i \in Instances : instance[i] # "new"}
      newest == CHOOSE i \in begun : \A j \in begun : j <= i
  IN /\ runner = IF begun # {} /\ instance[newest] = "mounted" THEN newest ELSE 0
     /\ source # 0 => instance[source] = "mounted"

(* The slot of a widget shows nothing but what the last call put there: the *)
(* handle of a component that was replaced or cleared does not bring it     *)
(* back (browser-surfaces.ts 278-301).                                      *)
WidgetIsLatest == widget.shown \in {0, widget.calls}

(* What the page shows, and what runs its commands, is there and the last.  *)
ShownIsLive == RegistryIsLive /\ WidgetIsLatest

(* While the page stays, the composer takes each request once and never an  *)
(* older one after a newer, in whatever order the answers arrive            *)
(* (client.ts 1021-1029).                                                   *)
AppliedInOrder ==
  [][(Composer \in subscribed /\ Composer \in subscribed') => applied' >= applied]_surfacesVars

(* What packages put on the page gets there, and what they ask for reaches  *)
(* the composer, whatever was lost or late before, whichever seats come and *)
(* go (client.ts 172-213).                                                  *)
PageCatchesUp == \A s \in Seats :
  s \in subscribed ~> s \notin subscribed \/ (view[s] = Payload /\ (s = Composer => applied = draft))
=============================================================================
