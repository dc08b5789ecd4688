---------------------------- MODULE StoredLogins ----------------------------
(***************************************************************************)
(* What becomes of a login once the user has completed it: the store of    *)
(* Pi's OAuth credentials (FileCredentialStore, src/src/oauth-bridge.ts,   *)
(* over the vendored InMemoryCredentialStore), their renewal               *)
(* (resolveStoredOAuth), and their way to DSH (src/src/runtime.ts): the    *)
(* key published in DSH's credential store and the route declared in its   *)
(* settings.                                                               *)
(*                                                                         *)
(* Everything is asynchronous.  Writers of one provider's credential form  *)
(* a chain; each writes the whole file, by a temporary file and a rename.  *)
(* A signing-out writes after it has left the chain.  Requests renew and   *)
(* publish on the way, logins and mounts publish and declare.              *)
(*                                                                         *)
(* Abstractions.  A credential is a number; what a renewal returns is a    *)
(* new one.  The life of a token is fresh, soon to expire (within Pi's     *)
(* five-minute window), expired.  A token does not expire between being    *)
(* resolved and being stored with DSH, which takes up its writes in order. *)
(* Providers that answer with a header instead of a key, and keys that the *)
(* environment overrides, are left out.                                    *)
(***************************************************************************)
EXTENDS Naturals, Sequences, FiniteSets

CONSTANTS
  Providers,    \* OAuth providers without a transport of their own
  Jobs,         \* logins, signings-out, requests, mounts: each does one thing
  MaxCreds,     \* bound: credentials ever issued
  MaxCrashes,   \* bound: deaths of the process
  WritesFail    \* whether a write of the file or of DSH's store may fail

ASSUME BoundsAssumption ==
  /\ Providers # {} /\ IsFiniteSet(Providers)
  /\ MaxCreds \in Nat \ {0}
  /\ MaxCrashes \in Nat
  /\ WritesFail \in BOOLEAN

VARIABLES
  mem,       \* `credentials' of the store
  disk,      \* auth.json
  chain,     \* `chains' of the store: the jobs queued for each provider
  of,        \* the provider each job is about; never changes
  job,       \* what each job is and where it stands
  ref,       \* DSH's credential store: what the route's apiKeyEnv resolves to
  memo,      \* publishedOAuthKeys
  sets,      \* writes DSH's credential store has not finished
  declared,  \* DSH's settings: providers with a route
  hooked,    \* oauthRefreshHooked
  age,       \* of each credential: 0 fresh, 1 soon to expire, 2 expired
  issued,    \* how many credentials there are
  root,      \* the login each credential descends from
  spent,     \* credentials a renewal has used up
  committed, \* the last login committed, 0 after a signing-out
  out,       \* providers the user has signed out of and not begun to log in to since
  crashes

storeVars == <<mem, disk, chain>>
hostVars  == <<ref, memo, sets, declared, hooked>>
credVars  == <<age, issued, root, spent>>
userVars  == <<committed, out>>
storedVars == <<storeVars, of, job, hostVars, credVars, userVars, crashes>>

None  == 0
Creds == 1 .. MaxCreds
Idle  == [kind |-> "none", at |-> "idle", cred |-> None, ok |-> FALSE,
          routed |-> FALSE, waits |-> FALSE, snap |-> [p \in Providers |-> None]]

AtHead(j)       == chain[of[j]] # <<>> /\ Head(chain[of[j]]) = j
Enqueue(j)      == chain' = [chain EXCEPT ![of[j]] = Append(@, j)]
LeaveChain(j)   == chain' = [chain EXCEPT ![of[j]] = Tail(@)]
ExpiresSoon(c)  == age[c] > 0
Expired(c)      == age[c] = 2

Goes(j, at)     == job' = [job EXCEPT ![j].at = at]
Holds(j, c)     == job' = [job EXCEPT ![j].at = "holding", ![j].cred = c]
Ends(j, ok)     == job' = [job EXCEPT ![j] = [Idle EXCEPT !.at = "done", !.ok = ok]]

-----------------------------------------------------------------------------
\* An earlier process may have left a login behind, with its route and key.
StoredInit ==
  /\ disk \in [Providers -> {None, 1}]
  /\ Cardinality({p \in Providers : disk[p] # None}) <= 1
  /\ mem = disk
  /\ chain = [p \in Providers |-> <<>>]
  /\ of \in [Jobs -> Providers]
  /\ job = [j \in Jobs |-> Idle]
  /\ ref = disk
  /\ memo = [p \in Providers |-> None]
  /\ sets = <<>>
  /\ declared = {p \in Providers : disk[p] # None}
  /\ hooked = FALSE
  /\ age = [c \in Creds |-> 0]
  /\ issued = 1
  /\ root = [c \in Creds |-> c]
  /\ spent = {}
  /\ committed = disk
  /\ out = {}
  /\ crashes = 0

-----------------------------------------------------------------------------
(* The four kinds of jobs begin. *)

\* loginPiProvider: the provider's own flow has returned a credential.
LoginReturns(j) ==
  /\ job[j].at = "idle"
  /\ issued < MaxCreds
  /\ issued' = issued + 1
  /\ job' = [job EXCEPT ![j] = [Idle EXCEPT !.kind = "login", !.at = "storing", !.cred = issued + 1]]
  /\ Enqueue(j)
  /\ out' = out \ {of[j]}
  /\ UNCHANGED <<mem, disk, of, hostVars, age, root, spent, committed, crashes>>

\* The card's sign-out and the sign-out mirror.  Retiring the provider's route
\* handle is no step here: such a provider has none, its route is a setting.
SignOut(j) ==
  /\ job[j].at = "idle"
  /\ job' = [job EXCEPT ![j] = [Idle EXCEPT !.kind = "logout", !.at = "deleting"]]
  /\ Enqueue(j)
  /\ UNCHANGED <<mem, disk, of, hostVars, credVars, userVars, crashes>>

\* The handler of llm/stream: with an expired credential, or none, the request
\* waits for the publication; else it goes out beside it.
Request(j) ==
  /\ job[j].at = "idle"
  /\ hooked /\ of[j] \in declared
  /\ job' = [job EXCEPT ![j] = [Idle EXCEPT !.kind = "request", !.at = "resolving",
                                            !.waits = mem[of[j]] = None \/ Expired(mem[of[j]])]]
  /\ UNCHANGED <<storeVars, of, hostVars, credVars, userVars, crashes>>

\* restoreLoggedInRouteWhenReady, of a package that is mounted.
Restore(j) ==
  /\ job[j].at = "idle"
  /\ job' = [job EXCEPT ![j] = [Idle EXCEPT !.kind = "restore", !.at = "routing"]]
  /\ UNCHANGED <<storeVars, of, hostVars, credVars, userVars, crashes>>

-----------------------------------------------------------------------------
(* The chain of one provider.  Its first job runs; the file is a snapshot  *)
(* of the whole store taken when the write begins.                         *)

\* modify() of a login: it replaces whatever is there.
StoreLogin(j) ==
  /\ job[j].at = "storing" /\ AtHead(j)
  /\ mem' = [mem EXCEPT ![of[j]] = job[j].cred]
  /\ committed' = [committed EXCEPT ![of[j]] = job[j].cred]
  /\ job' = [job EXCEPT ![j].at = "writing", ![j].snap = mem']
  /\ UNCHANGED <<disk, chain, of, hostVars, credVars, out, crashes>>

\* A fault: the file's contents are gathered before the deletion.
DeleteCredential_SnapshotFirst(j) ==
  /\ job[j].at = "deleting" /\ AtHead(j)
  /\ mem' = [mem EXCEPT ![of[j]] = None]
  /\ committed' = [committed EXCEPT ![of[j]] = None]
  /\ LeaveChain(j)
  /\ job' = [job EXCEPT ![j].at = "writing", ![j].snap = mem]
  /\ UNCHANGED <<disk, of, hostVars, credVars, out, crashes>>

\* delete(): the file is written too, but outside the chain, which goes on.
DeleteCredential(j) ==
  /\ job[j].at = "deleting" /\ AtHead(j)
  /\ mem' = [mem EXCEPT ![of[j]] = None]
  /\ committed' = [committed EXCEPT ![of[j]] = None]
  /\ LeaveChain(j)
  /\ job' = [job EXCEPT ![j].at = "writing", ![j].snap = mem']
  /\ UNCHANGED <<disk, of, hostVars, credVars, out, crashes>>

\* A fault: the renewal uses the credential found before it queued.
CheckAgain_NotAgain(j) ==
  /\ job[j].at = "renewing" /\ AtHead(j)
  /\ Goes(j, "refreshing")
  /\ UNCHANGED <<storeVars, of, hostVars, credVars, userVars, crashes>>

\* modify() of a renewal: the check made before queueing is repeated.
CheckAgain(j) ==
  LET current == mem[of[j]]
  IN /\ job[j].at = "renewing" /\ AtHead(j)
     /\ \/ /\ current = None
           /\ LeaveChain(j)
           /\ Ends(j, FALSE)
        \/ /\ current # None /\ ~ExpiresSoon(current)
           /\ LeaveChain(j)
           /\ Holds(j, current)
        \/ /\ current # None /\ ExpiresSoon(current)
           /\ job' = [job EXCEPT ![j].at = "refreshing", ![j].cred = current]
           /\ UNCHANGED chain
     /\ UNCHANGED <<mem, disk, of, hostVars, credVars, userVars, crashes>>

RefreshReturns(j) ==
  /\ job[j].at = "refreshing"
  /\ issued < MaxCreds
  /\ issued' = issued + 1
  /\ root' = [root EXCEPT ![issued + 1] = root[job[j].cred]]
  /\ spent' = spent \cup {job[j].cred}
  /\ mem' = [mem EXCEPT ![of[j]] = issued + 1]
  /\ job' = [job EXCEPT ![j].at = "saving", ![j].cred = issued + 1, ![j].snap = mem']
  /\ UNCHANGED <<disk, chain, of, hostVars, age, userVars, crashes>>

\* A fault: a failure leaves the chain as it is.
RefreshFails_ChainHeld(j) ==
  /\ job[j].at = "refreshing"
  /\ Ends(j, FALSE)
  /\ UNCHANGED <<storeVars, of, hostVars, credVars, userVars, crashes>>

\* Refused, or fifteen seconds have passed.
RefreshFails(j) ==
  /\ job[j].at = "refreshing"
  /\ LeaveChain(j)
  /\ Ends(j, FALSE)
  /\ UNCHANGED <<mem, disk, of, hostVars, credVars, userVars, crashes>>

LoggedInSince(p) ==
  mem[p] # None \/ \E j \in Jobs : of[j] = p /\ job[j].at = "storing"

\* The rename.  A login goes on to its route, a renewal to its key.
FileWritten(j) ==
  /\ job[j].at \in {"writing", "saving"}
  /\ disk' = job[j].snap
  /\ \/ /\ job[j].kind = "logout"
        /\ Ends(j, TRUE)
        /\ out' = IF LoggedInSince(of[j]) THEN out ELSE out \cup {of[j]}
        /\ UNCHANGED chain
     \/ /\ job[j].kind # "logout"
        /\ LeaveChain(j)
        /\ job' = [job EXCEPT ![j].at = IF @ = "writing" THEN "routing" ELSE "holding",
                              ![j].snap = Idle.snap]
        /\ UNCHANGED out
  /\ UNCHANGED <<mem, of, hostVars, credVars, committed, crashes>>

\* The call fails; what was put into memory stays there.
FileNotWritten(j) ==
  /\ WritesFail
  /\ job[j].at \in {"writing", "saving"}
  /\ Ends(j, FALSE)
  /\ IF job[j].kind = "logout" THEN UNCHANGED chain ELSE LeaveChain(j)
  /\ UNCHANGED <<mem, disk, of, hostVars, credVars, userVars, crashes>>

-----------------------------------------------------------------------------
(* From a credential to DSH. *)

\* ensureLoggedInProviderRoute: whether there is a route already is asked first.
Route(j) ==
  /\ job[j].at = "routing"
  /\ IF mem[of[j]] = None
     THEN Ends(j, FALSE)
     ELSE job' = [job EXCEPT ![j].at = "resolving", ![j].routed = of[j] \in declared]
  /\ UNCHANGED <<storeVars, of, hostVars, credVars, userVars, crashes>>

\* resolveStoredOAuth up to the lock.
Resolve(j) ==
  LET stored == mem[of[j]]
  IN /\ job[j].at = "resolving"
     /\ \/ stored = None /\ Ends(j, FALSE) /\ UNCHANGED chain
        \/ stored # None /\ ~ExpiresSoon(stored) /\ Holds(j, stored) /\ UNCHANGED chain
        \/ /\ stored # None /\ ExpiresSoon(stored)
           /\ job' = [job EXCEPT ![j].at = "renewing", ![j].cred = stored]
           /\ Enqueue(j)
     /\ UNCHANGED <<mem, disk, of, hostVars, credVars, userVars, crashes>>

\* publishOAuthCredential has handed the key over: what its caller does next.
Published(j) ==
  IF job[j].kind = "request"
  THEN Ends(j, TRUE) /\ UNCHANGED hooked
  ELSE /\ hooked' = TRUE
       /\ IF job[j].routed THEN Ends(j, TRUE) ELSE Goes(j, "declaring")

\* A fault: any key published before will do.
PublishKey_AnyMemo(j) ==
  /\ job[j].at = "holding"
  /\ IF memo[of[j]] # None
     THEN Published(j) /\ UNCHANGED sets
     ELSE Goes(j, "setting") /\ sets' = Append(sets, j) /\ UNCHANGED hooked
  /\ UNCHANGED <<storeVars, of, ref, memo, declared, credVars, userVars, crashes>>

\* The check against the memo, and the write if it is needed.
PublishKey(j) ==
  /\ job[j].at = "holding"
  /\ IF memo[of[j]] = job[j].cred
     THEN Published(j) /\ UNCHANGED sets
     ELSE Goes(j, "setting") /\ sets' = Append(sets, j) /\ UNCHANGED hooked
  /\ UNCHANGED <<storeVars, of, ref, memo, declared, credVars, userVars, crashes>>

KeySet(j) ==
  /\ sets # <<>> /\ Head(sets) = j
  /\ sets' = Tail(sets)
  /\ ref' = [ref EXCEPT ![of[j]] = job[j].cred]
  /\ memo' = [memo EXCEPT ![of[j]] = job[j].cred]
  /\ Published(j)
  /\ UNCHANGED <<storeVars, of, declared, credVars, userVars, crashes>>

KeyNotSet(j) ==
  /\ WritesFail
  /\ sets # <<>> /\ Head(sets) = j
  /\ sets' = Tail(sets)
  /\ Ends(j, FALSE)
  /\ UNCHANGED <<storeVars, of, ref, memo, declared, hooked, credVars, userVars, crashes>>

\* The profile in the settings of the official adapter.
Declare(j) ==
  /\ job[j].at = "declaring"
  /\ declared' = declared \cup {of[j]}
  /\ Ends(j, TRUE)
  /\ UNCHANGED <<storeVars, of, ref, memo, sets, hooked, credVars, userVars, crashes>>

-----------------------------------------------------------------------------
\* Time.  A token does not expire in the hands of a job that is handing it over.
Ages(c) ==
  /\ c <= issued /\ age[c] < 2
  /\ \E p \in Providers : c \in {mem[p], ref[p]}
  /\ \A j \in Jobs : ~(job[j].at \in {"saving", "holding", "setting"} /\ job[j].cred = c)
  /\ age' = [age EXCEPT ![c] = @ + 1]
  /\ UNCHANGED <<storeVars, of, job, hostVars, issued, root, spent, userVars, crashes>>

\* The process dies; a new one reads the file.
Crash ==
  /\ crashes < MaxCrashes
  /\ crashes' = crashes + 1
  /\ mem' = disk
  /\ chain' = [p \in Providers |-> <<>>]
  /\ job' = [j \in Jobs |-> IF job[j].at = "idle" THEN Idle ELSE [Idle EXCEPT !.at = "done"]]
  /\ memo' = [p \in Providers |-> None]
  /\ sets' = <<>>
  /\ hooked' = FALSE
  /\ spent' = {}
  /\ committed' = [p \in Providers |-> IF disk[p] = None THEN None ELSE root[disk[p]]]
  /\ UNCHANGED <<disk, of, ref, declared, age, issued, root, out>>

-----------------------------------------------------------------------------
Begins(j) == LoginReturns(j) \/ SignOut(j) \/ Request(j) \/ Restore(j)

InChain(j) == StoreLogin(j) \/ DeleteCredential(j) \/ CheckAgain(j)

Continues(j) ==
  \/ InChain(j)
  \/ RefreshReturns(j) \/ RefreshFails(j)
  \/ FileWritten(j) \/ FileNotWritten(j)
  \/ Route(j) \/ Resolve(j)
  \/ PublishKey(j) \/ KeySet(j) \/ KeyNotSet(j) \/ Declare(j)

StoredNext ==
  \/ \E j \in Jobs : Begins(j) \/ Continues(j)
  \/ \E c \in Creds : Ages(c)
  \/ Crash

StoredSpec == StoredInit /\ [][StoredNext]_storedVars

-----------------------------------------------------------------------------
JobStates == {"idle", "storing", "deleting", "writing", "routing", "resolving", "renewing",
              "refreshing", "saving", "holding", "setting", "declaring", "done"}

(* Types, and what the queues hold: the jobs that wait, each once, at its  *)
(* own provider; a job that runs is the first one of its chain.            *)
StoredTypeOK ==
  /\ mem \in [Providers -> Creds \cup {None}]
  /\ disk \in [Providers -> Creds \cup {None}]
  /\ chain \in [Providers -> Seq(Jobs)]
  /\ of \in [Jobs -> Providers]
  /\ job \in [Jobs -> [kind : {"none", "login", "logout", "request", "restore"},
                       at : JobStates, cred : Creds \cup {None}, ok : BOOLEAN,
                       routed : BOOLEAN, waits : BOOLEAN,
                       snap : [Providers -> Creds \cup {None}]]]
  /\ ref \in [Providers -> Creds \cup {None}]
  /\ memo \in [Providers -> Creds \cup {None}]
  /\ sets \in Seq(Jobs)
  /\ declared \subseteq Providers
  /\ hooked \in BOOLEAN
  /\ age \in [Creds -> 0 .. 2]
  /\ issued \in Creds
  /\ root \in [Creds -> Creds]
  /\ spent \subseteq Creds
  /\ committed \in [Providers -> Creds \cup {None}]
  /\ out \subseteq Providers
  /\ crashes \in 0 .. MaxCrashes
  /\ \A j \in Jobs :
       /\ (job[j].at = "saving" \/ job[j].at = "refreshing") => AtHead(j)
       /\ (job[j].at = "writing" /\ job[j].kind = "login") => AtHead(j)

(* A refresh token serves once: no renewal starts from a credential that   *)
(* an earlier renewal of this process has used up, however many requests   *)
(* found it about to expire.                                               *)
RefreshOnce ==
  /\ StoredTypeOK
  /\ \A j \in Jobs : job[j].at = "refreshing" => job[j].cred \notin spent

(* What the user last did stands: whatever is in the store descends from   *)
(* the last login committed, a renewal that was under way neither          *)
(* overwrites a newer login nor brings a credential back, and a            *)
(* signing-out that was answered holds on disk as well, whenever the       *)
(* process dies.                                                           *)
StoreFollowsUser ==
  /\ \A p \in Providers : IF mem[p] = None THEN committed[p] = None ELSE root[mem[p]] = committed[p]
  /\ \A p \in out : disk[p] = None /\ mem[p] = None

(* A request that found its credential expired, and whose renewal worked,  *)
(* goes out on a key that is alive, whatever others publish meanwhile.     *)
AwaitedKeyIsAlive ==
  [][\A j \in Jobs :
       (job[j].kind = "request" /\ job[j].waits /\ ~job[j].ok /\ job'[j].ok)
         => ~Expired(ref'[of[j]])]_storedVars

\* The job that has to move before j can: the first of the queue j stands in.
FirstFor(j) ==
  CASE job[j].at \in {"storing", "deleting", "renewing"} -> Head(chain[of[j]])
    [] job[j].at = "setting" -> Head(sets)
    [] OTHER -> j

(* No job is stuck: what it waits for, a chain behind a renewal that fails *)
(* or a write that does, moves on.  As every job takes a bounded number of *)
(* steps, each one ends.                                                   *)
NeverStuck ==
  \A j \in Jobs : job[j].at \notin {"idle", "done"} => ENABLED Continues(FirstFor(j))

=============================================================================
