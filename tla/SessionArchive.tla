--------------------------- MODULE SessionArchive ---------------------------
(***************************************************************************)
(* PiSessionBridge (src/src/session-bridge.ts): what a Pi package can find *)
(* of a session on disk.                                                   *)
(*                                                                         *)
(* Two files stand for a session.  The archive is the only home of the     *)
(* records Pi has and DSH has not (custom entries, labels, names, branch   *)
(* summaries): a header line, then one line per record, appended and never *)
(* rewritten.  The export is a transcript for file readers, rebuilt from   *)
(* DSH's log and the records.                                              *)
(*                                                                         *)
(* Every package instance has a bridge of its own with its own cache, all  *)
(* of them on the same files.  Bridge calls are synchronous, but for the   *)
(* scan of the stored sessions before the first session_start, which one   *)
(* bridge runs for the whole host; handlers of session events call other   *)
(* bridges meanwhile.  A process may die within a call.                    *)
(*                                                                         *)
(* DSH is assumed to list every session that is live or stored.            *)
(***************************************************************************)
EXTENDS Naturals, Sequences, SequencesExt, FiniteSets

CONSTANTS
  Bridges,     \* the bridges of the process
  Sessions,    \* DSH sessions that may appear
  MaxRecords,  \* bound: records appended, all sessions together
  MaxLog,      \* bound: events in the log of one session
  MaxCrashes   \* bound: deaths of the process

ASSUME BoundsAssumption ==
  MaxRecords \in Nat /\ MaxLog \in Nat /\ MaxCrashes \in Nat

VARIABLES
  native,    \* DSH: what each session is, whether its descriptor says "Side: "
             \* (Pi's in-memory sessions), and how long its log
  archive,   \* the archive file: its complete lines, and whether a part follows
  export,    \* the exported transcript: how much of the log and which records
  cache,     \* `records' of each bridge
  loaded,    \* `loaded' of each bridge
  watched,   \* `exportedSessions' of each bridge
  scan,      \* exportStoredSessions and its memo sessionExportTasks; `gone' is
             \* what was deleted before it began
  acked,     \* the records whose call has returned
  issued,    \* how many records were made
  crashes    \* how often the process died

diskVars   == <<archive, export>>
bridgeVars == <<cache, loaded, watched>>
countVars  == <<acked, issued, crashes>>
vars == <<native, diskVars, bridgeVars, scan, countVars>>

Records == 1 .. MaxRecords
Header  == 0
Junk    == MaxRecords + 1              \* a line that does not parse
Line    == Records \cup {Header, Junk}
NoFile  == [there |-> FALSE, log |-> 0, records |-> {}]
NoScan  == [phase |-> "idle", by |-> {}, prior |-> {}, gone |-> {}, todo |-> {},
            present |-> {}, hidden |-> {}, at |-> {}, log |-> 0]
Unwatched == [kind |-> "none", log |-> 0]

TypeOK ==
  /\ native \in [Sessions -> [state : {"absent", "live", "stored", "deleted"},
                         side : BOOLEAN, log : 0 .. MaxLog]]
  /\ archive \in [Sessions -> [lines : Seq(Line), torn : BOOLEAN]]
  /\ export \in [Sessions -> [there : BOOLEAN, log : 0 .. MaxLog, records : SUBSET Records]]
  /\ cache \in [Bridges -> [Sessions -> Seq(Records)]]
  /\ loaded \in [Bridges -> SUBSET Sessions]
  /\ watched \in [Bridges -> [Sessions -> [kind : {"none", "live", "stored"}, log : 0 .. MaxLog]]]
  /\ scan \in [phase : {"idle", "listing", "next", "writing", "closing", "done"}, by : SUBSET Bridges,
               prior : SUBSET Sessions, gone : SUBSET Sessions, todo : SUBSET Sessions,
               present : SUBSET Sessions, hidden : SUBSET Sessions, at : SUBSET Sessions, log : 0 .. MaxLog]
  /\ acked \in [Sessions -> SUBSET Records]
  /\ issued \in 0 .. MaxRecords /\ crashes \in 0 .. MaxCrashes

-----------------------------------------------------------------------------
(* The files.                                                              *)

EmptyArchive == [lines |-> <<>>, torn |-> FALSE]

\* appendFileSync of one line: behind a part of a line it becomes one with it.
AppendLine(file, line) ==
  [lines |-> Append(file.lines, IF file.torn THEN Junk ELSE line), torn |-> FALSE]

\* The process dies within appendFileSync.
AppendPart(file) == [file EXCEPT !.torn = TRUE]

\* archiveFileFor: an absent or empty file gets the Pi header first.
NeedsHeader(file) == file = EmptyArchive

\* A fault: the file is started afresh whenever it is asked for.
WithHeader_Afresh(file) == AppendLine(EmptyArchive, Header)

WithHeader(file) == IF NeedsHeader(file) THEN AppendLine(file, Header) ELSE file

\* What load() reads, line by line: one that does not parse is dropped.
Parsed(file) ==
  LET read   == {i \in DOMAIN file.lines : file.lines[i] \in Records}
      nth(n) == CHOOSE i \in read : Cardinality({j \in read : j <= i}) = n
  IN [n \in 1 .. Cardinality(read) |-> file.lines[nth(n)]]

\* load(): the records of s as bridge b sees them from now on.
RecordsFor(b, s) == IF s \in loaded[b] THEN cache[b][s] ELSE Parsed(archive[s])

\* exportSessionFile: the log up to a point and the records given.
Exported(log, records) == [there |-> TRUE, log |-> log, records |-> ToSet(records)]

Gone(s) == native[s].state = "deleted"

-----------------------------------------------------------------------------
Init ==
  /\ native \in [Sessions -> [state : {"absent", "stored"}, side : BOOLEAN, log : {0}]]
  /\ archive = [s \in Sessions |-> EmptyArchive]
  /\ \E old \in SUBSET {s \in Sessions : native[s].state = "stored"} :   \* earlier versions
       export = [s \in Sessions |-> IF s \in old THEN Exported(0, <<>>) ELSE NoFile]
  /\ cache = [b \in Bridges |-> [s \in Sessions |-> <<>>]]
  /\ loaded = [b \in Bridges |-> {}]
  /\ watched = [b \in Bridges |-> [s \in Sessions |-> Unwatched]]
  /\ scan = NoScan
  /\ acked = [s \in Sessions |-> {}]
  /\ issued = 0 /\ crashes = 0

-----------------------------------------------------------------------------
(* DSH.                                                                    *)

\* A session is created or resumed, goes on, is closed, and is deleted.
NativeBecomes(s, from, to) ==
  /\ native[s].state \in from
  /\ native' = [native EXCEPT ![s].state = to]
  /\ UNCHANGED <<diskVars, bridgeVars, scan, countVars>>

\* The log of a side session is left alone: it reaches no file.
NativeGoesOn(s) ==
  /\ native[s].state = "live"
  /\ ~native[s].side
  /\ native[s].log < MaxLog
  /\ native' = [native EXCEPT ![s].log = @ + 1]
  /\ UNCHANGED <<diskVars, bridgeVars, scan, countVars>>

-----------------------------------------------------------------------------
(* Synchronous calls on a bridge.                                          *)

\* load(), on its own or for labels, getName and customEntries; the browser
\* asks for sessions that are only shown as well (runtime.ts:6036).
Load(b, s) ==
  /\ s \notin loaded[b]
  /\ native[s].state \in {"live", "stored"}
  /\ cache' = [cache EXCEPT ![b][s] = RecordsFor(b, s)]
  /\ loaded' = [loaded EXCEPT ![b] = @ \cup {s}]
  /\ UNCHANGED <<native, diskVars, watched, scan, countVars>>

\* A fault: the line is written before the archive is loaded.
Persist_WritesFirst(b, s) ==
  LET r == issued + 1
      file == AppendLine(WithHeader(archive[s]), r)
      records == IF s \in loaded[b] THEN Append(cache[b][s], r) ELSE Append(Parsed(file), r)
  IN /\ native[s].state = "live"
     /\ issued < MaxRecords
     /\ issued' = r
     /\ acked' = [acked EXCEPT ![s] = @ \cup {r}]
     /\ cache' = [cache EXCEPT ![b][s] = records]
     /\ loaded' = [loaded EXCEPT ![b] = @ \cup {s}]
     /\ archive' = [archive EXCEPT ![s] = file]
     /\ UNCHANGED <<native, export, watched, scan, crashes>>

\* persist(): load, remember, write, and bring a known export up to date.
Persist(b, s) ==
  LET r == issued + 1
      records == Append(RecordsFor(b, s), r)
      source == watched[b][s]
  IN /\ native[s].state = "live"
     /\ issued < MaxRecords
     /\ issued' = r
     /\ acked' = [acked EXCEPT ![s] = @ \cup {r}]
     /\ cache' = [cache EXCEPT ![b][s] = records]
     /\ loaded' = [loaded EXCEPT ![b] = @ \cup {s}]
     /\ archive' = [archive EXCEPT ![s] = AppendLine(WithHeader(@), r)]
     /\ export' = IF source.kind = "none" THEN export
                  ELSE [export EXCEPT ![s] =
                          Exported(IF source.kind = "live" THEN native[s].log ELSE source.log,
                                   records)]
     /\ UNCHANGED <<native, watched, scan, crashes>>

\* getSessionFile() of a live session.
GetSessionFile(b, s) ==
  /\ native[s].state = "live"
  /\ ~native[s].side
  /\ watched' = [watched EXCEPT ![b][s] = [kind |-> "live", log |-> 0]]
  /\ cache' = [cache EXCEPT ![b][s] = RecordsFor(b, s)]
  /\ loaded' = [loaded EXCEPT ![b] = @ \cup {s}]
  /\ export' = [export EXCEPT ![s] = Exported(native[s].log, RecordsFor(b, s))]
  /\ UNCHANGED <<native, archive, scan, countVars>>

\* createBridgedAgentSession could not resume s and the listing lacks it.
DiscardArchive(b, s) ==
  /\ native[s].state = "deleted"
  /\ archive[s] # EmptyArchive \/ export[s].there
  /\ archive' = [archive EXCEPT ![s] = EmptyArchive]
  /\ export' = [export EXCEPT ![s] = NoFile]
  /\ cache' = [cache EXCEPT ![b][s] = <<>>]
  /\ loaded' = [loaded EXCEPT ![b] = @ \ {s}]
  /\ watched' = [watched EXCEPT ![b][s] = Unwatched]
  /\ UNCHANGED <<native, scan, countVars>>

-----------------------------------------------------------------------------
(* exportStoredSessions: each await ends a step.                           *)

\* One scan per host; another only after this one has failed.
ScanBegins(b) ==
  /\ scan.phase = "idle"
  /\ scan' = [NoScan EXCEPT !.phase = "listing", !.by = {b},
                            !.prior = {s \in Sessions : export[s].there},
                            !.gone = {s \in Sessions : Gone(s)}]
  /\ UNCHANGED <<native, diskVars, bridgeVars, countVars>>

ScanLists ==
  /\ scan.phase = "listing"
  /\ LET listed == {s \in Sessions : native[s].state \in {"live", "stored"}} IN
       scan' = [scan EXCEPT !.phase = "next", !.todo = listed, !.present = listed]
  /\ UNCHANGED <<native, diskVars, bridgeVars, countVars>>

\* list(), open(), read() or close() rejects: the memo is dropped.
ScanFails ==
  /\ scan.phase \in {"listing", "next", "closing"}
  /\ scan' = NoScan
  /\ UNCHANGED <<native, diskVars, bridgeVars, countVars>>

ScanReads(s) ==
  /\ scan.phase = "next"
  /\ s \in scan.todo
  /\ native[s].state \in {"live", "stored"}
  /\ scan' = [scan EXCEPT !.phase = "writing", !.todo = @ \ {s}, !.at = {s},
                          !.log = native[s].log]
  /\ UNCHANGED <<native, diskVars, bridgeVars, countVars>>

\* What was read is exported, unless it is a side session.
ScanWrites(s) ==
  /\ scan.phase = "writing"
  /\ s \in scan.at
  /\ IF native[s].side
     THEN /\ scan' = [scan EXCEPT !.phase = "closing", !.hidden = @ \cup {s}]
          /\ UNCHANGED <<export, bridgeVars>>
     ELSE /\ scan' = [scan EXCEPT !.phase = "closing"]
          /\ \E b \in scan.by :
               /\ watched' = [watched EXCEPT ![b][s] = [kind |-> "stored", log |-> scan.log]]
               /\ cache' = [cache EXCEPT ![b][s] = RecordsFor(b, s)]
               /\ loaded' = [loaded EXCEPT ![b] = @ \cup {s}]
               /\ export' = [export EXCEPT ![s] = Exported(scan.log, RecordsFor(b, s))]
  /\ UNCHANGED <<native, archive, countVars>>

\* The handle is closed and the snapshot forgotten.
ScanCloses(s) ==
  /\ scan.phase = "closing"
  /\ s \in scan.at
  /\ scan' = [scan EXCEPT !.phase = "next", !.at = {}, !.log = 0]
  /\ \E b \in scan.by : watched' = [watched EXCEPT ![b][s] = Unwatched]
  /\ UNCHANGED <<native, diskVars, cache, loaded, countVars>>

\* A fault: whatever the listing lacks is unlinked, old or new.
ScanEnds_EverythingUnlisted ==
  /\ scan.phase = "next"
  /\ scan.todo = {}
  /\ export' = [s \in Sessions |->
                  IF s \notin scan.present \/ s \in scan.hidden THEN NoFile ELSE export[s]]
  /\ scan' = [NoScan EXCEPT !.phase = "done", !.gone = scan.gone]
  /\ UNCHANGED <<native, archive, bridgeVars, countVars>>

\* A fault: side sessions count as present.
ScanEnds_KeepsHidden ==
  /\ scan.phase = "next"
  /\ scan.todo = {}
  /\ export' = [s \in Sessions |->
                  IF s \in scan.prior \ scan.present THEN NoFile ELSE export[s]]
  /\ scan' = [NoScan EXCEPT !.phase = "done", !.gone = scan.gone]
  /\ UNCHANGED <<native, archive, bridgeVars, countVars>>

\* Exports that were there before and belong to no listed session go.
ScanEnds ==
  /\ scan.phase = "next"
  /\ scan.todo = {}
  /\ export' = [s \in Sessions |->
                  IF s \in scan.prior /\ (s \notin scan.present \/ s \in scan.hidden)
                  THEN NoFile ELSE export[s]]
  /\ scan' = [NoScan EXCEPT !.phase = "done", !.gone = scan.gone]
  /\ UNCHANGED <<native, archive, bridgeVars, countVars>>

-----------------------------------------------------------------------------
(* The process dies and is started again.                                  *)

Restarts ==
  /\ crashes < MaxCrashes
  /\ crashes' = crashes + 1
  /\ native' = [s \in Sessions |->
                  [native[s] EXCEPT !.state = IF @ = "live" THEN "stored" ELSE @]]
  /\ cache' = [b \in Bridges |-> [s \in Sessions |-> <<>>]]
  /\ loaded' = [b \in Bridges |-> {}]
  /\ watched' = [b \in Bridges |-> [s \in Sessions |-> Unwatched]]
  /\ scan' = NoScan

Crash ==
  /\ Restarts
  /\ UNCHANGED <<diskVars, acked, issued>>

\* What persist() may leave when the process dies within it: the header, or
\* part of it; the record, or part of it; the export is replaced as a whole.
CrashInPersist(s) ==
  LET begun == WithHeader(archive[s]) IN
    /\ native[s].state = "live"
    /\ issued < MaxRecords
    /\ issued' = issued + 1
    /\ \E left \in {begun, AppendPart(begun), AppendLine(begun, issued + 1)}
             \cup (IF NeedsHeader(archive[s]) THEN {AppendPart(archive[s])} ELSE {}) :
         archive' = [archive EXCEPT ![s] = left]
    /\ Restarts
    /\ UNCHANGED <<export, acked>>

-----------------------------------------------------------------------------
NativeStep ==
  \E s \in Sessions :
    \/ NativeBecomes(s, {"absent", "stored"}, "live")
    \/ NativeBecomes(s, {"live"}, "stored")
    \/ NativeBecomes(s, {"stored"}, "deleted")
    \/ NativeGoesOn(s)

BridgeCall ==
  \E b \in Bridges, s \in Sessions :
    Load(b, s) \/ Persist(b, s) \/ GetSessionFile(b, s) \/ DiscardArchive(b, s)

ScanStep ==
  \/ \E b \in Bridges : ScanBegins(b)
  \/ ScanLists \/ ScanFails \/ ScanEnds
  \/ \E s \in Sessions : ScanReads(s) \/ ScanWrites(s) \/ ScanCloses(s)

Next ==
  \/ NativeStep \/ BridgeCall \/ ScanStep
  \/ Crash \/ \E s \in Sessions : CrashInPersist(s)

Spec == Init /\ [][Next]_vars

-----------------------------------------------------------------------------
(* Properties.                                                             *)

\* The lines a death of the process has spoilt.
CutLines(lines) == {i \in DOMAIN lines : lines[i] = Junk}

\* A record whose call returned has a line of its own, to be loaded again, until
\* its session is gone: it is "persisted as a genuine Pi custom entry line ...
\* and replayed on session start" (docs/capabilities/sessions.md:20).  A line
\* that a death cut short costs one record at most, the one appended to it.
RecordsSurvive ==
  \A s \in Sessions :
    ~Gone(s) => Cardinality(acked[s] \ ToSet(archive[s].lines))
                  <= Cardinality(CutLines(archive[s].lines))

\* What a bridge shows of a session are records of its archive, each once and
\* in the archive's order, whatever other bridges append (session-bridge.ts:307-339),
\* and the records that a death has cost.
CacheFaithful ==
  /\ TypeOK
  /\ \A b \in Bridges, s \in Sessions :
       LET shown == cache[b][s]
           lines == archive[s].lines
       IN ~Gone(s) =>
            /\ ToSet(shown) \subseteq ToSet(lines) \cup acked[s]
            /\ \A i, j \in DOMAIN shown : i < j =>
                 /\ shown[i] # shown[j]
                 /\ {shown[i], shown[j]} \subseteq ToSet(lines) =>
                      \E p, q \in DOMAIN lines : p < q /\ lines[p] = shown[i] /\ lines[q] = shown[j]

\* An archive opens with its Pi header, unless a death cut that short
\* (session-bridge.ts:334-335).
HeaderFirst ==
  \A s \in Sessions : archive[s].lines # <<>> => archive[s].lines[1] \in {Header, Junk}

\* "A positive native deletion verdict retires an export": that of a session
\* that can be resumed is never unlinked, whatever fails
\* (session-bridge.ts:15-16,200-204).
RetiredOnlyWhenGone ==
  [][\A s \in Sessions :
       (export[s].there /\ ~export'[s].there) => Gone(s) \/ native[s].side]_vars

\* After a completed scan there is no export of a session that was gone when
\* the scan began, nor of a side session (session-bridge.ts:200-204).
ScanCleans ==
  scan.phase = "done" => \A s \in scan.gone \cup {t \in Sessions : native[t].side} : ~export[s].there
=============================================================================
