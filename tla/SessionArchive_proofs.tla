----------------------- MODULE SessionArchive_proofs ------------------------
(***************************************************************************)
(* Proofs about SessionArchive, for any bridges, sessions and bounds.      *)
(*                                                                         *)
(* Three invariants, independent of each other.  ArchiveInv is about the   *)
(* archives: the records lost are no more than the lines that were cut     *)
(* short.  ScanInv is about the exports and the scan: what the scan is     *)
(* going to unlink belongs to sessions that are gone or side sessions, and *)
(* all of it was there when the scan began.  ShownInv is about the caches: *)
(* records are numbered as they are made, and their numbers rise in every  *)
(* file and in every cache.                                                *)
(***************************************************************************)
EXTENDS SessionArchive, FiniteSetTheorems, TLAPS

-----------------------------------------------------------------------------
(* Files.                                                                  *)

File == [lines : Seq(Nat), torn : BOOLEAN]

\* What the steps on an archive rely on.
Lines ==
  /\ native \in [Sessions -> [state : {"absent", "live", "stored", "deleted"},
                              side : BOOLEAN, log : Nat]]
  /\ archive \in [Sessions -> File]
  /\ acked \in [Sessions -> SUBSET Nat]
  /\ issued \in Nat

\* Of the records in A no more are missing from the lines than lines are cut.
Kept(A, lines) ==
  /\ IsFiniteSet(A \ ToSet(lines))
  /\ Cardinality(A \ ToSet(lines)) <= Cardinality(CutLines(lines))

Opens(file) == file.lines # <<>> => file.lines[1] \in {Header, Junk}

\* A line that does not parse is a number like the others.
LEMMA JunkIsNat == Junk \in Nat
BY BoundsAssumption DEF Junk

\* A line that is there stays there when another is appended, and the new one
\* is there too.
LEMMA AppendKeeps ==
  ASSUME NEW lines \in Seq(Nat), NEW line \in Nat
  PROVE  ToSet(Append(lines, line)) = ToSet(lines) \cup {line}
<1>1. DOMAIN Append(lines, line) = 1 .. Len(lines) + 1
  OBVIOUS
<1>2. DOMAIN lines = 1 .. Len(lines)
  OBVIOUS
<1>3. \A i \in 1 .. Len(lines) : Append(lines, line)[i] = lines[i]
  OBVIOUS
<1>4. Append(lines, line)[Len(lines) + 1] = line
  OBVIOUS
<1>5. Len(lines) \in Nat
  OBVIOUS
<1>6. 1 .. Len(lines) + 1 = (1 .. Len(lines)) \cup {Len(lines) + 1}
  BY <1>5
<1> QED
  BY <1>1, <1>2, <1>3, <1>4, <1>6 DEF ToSet

\* The cut lines of a file can be counted.
LEMMA CutFinite ==
  ASSUME NEW lines \in Seq(Nat)
  PROVE  /\ IsFiniteSet(CutLines(lines)) /\ Cardinality(CutLines(lines)) \in Nat
         /\ CutLines(lines) \subseteq 1 .. Len(lines)
<1>1. CutLines(lines) \subseteq 1 .. Len(lines)
  BY DEF CutLines
<1>2. IsFiniteSet(1 .. Len(lines))
  BY FS_Interval
<1>3. IsFiniteSet(CutLines(lines))
  BY <1>1, <1>2, FS_Subset
<1> QED
  BY <1>1, <1>3, FS_CardinalityType

\* They stay when a line is appended, and grow by one if that is cut.
LEMMA CutGrows ==
  ASSUME NEW lines \in Seq(Nat), NEW line \in Nat
  PROVE  Cardinality(CutLines(Append(lines, line)))
           = Cardinality(CutLines(lines)) + (IF line = Junk THEN 1 ELSE 0)
<1>1. CutLines(Append(lines, line))
        = CutLines(lines) \cup (IF line = Junk THEN {Len(lines) + 1} ELSE {})
  <2>1. DOMAIN Append(lines, line) = (1 .. Len(lines)) \cup {Len(lines) + 1}
    OBVIOUS
  <2>2. \A i \in 1 .. Len(lines) : Append(lines, line)[i] = lines[i]
    OBVIOUS
  <2>3. Append(lines, line)[Len(lines) + 1] = line /\ DOMAIN lines = 1 .. Len(lines)
    OBVIOUS
  <2> QED
    BY <2>1, <2>2, <2>3 DEF CutLines
<1>2. Len(lines) + 1 \notin CutLines(lines)
  BY CutFinite
<1>3. IsFiniteSet(CutLines(lines)) /\ Cardinality(CutLines(lines)) \in Nat
  BY CutFinite
<1>4. Cardinality(CutLines(lines) \cup {Len(lines) + 1}) = Cardinality(CutLines(lines)) + 1
  BY <1>2, <1>3, FS_AddElement
<1>5. CASE line = Junk
  BY <1>1, <1>4, <1>5
<1>6. CASE line # Junk
  <2>1. CutLines(Append(lines, line)) = CutLines(lines)
    BY <1>1, <1>6
  <2> QED
    BY <1>3, <1>6, <2>1
<1> QED
  BY <1>5, <1>6

\* What is kept of some records is kept of fewer.
LEMMA KeptOfFewer ==
  ASSUME NEW lines \in Seq(Nat), NEW A, NEW B \in SUBSET A, Kept(A, lines)
  PROVE  Kept(B, lines)
<1>1. B \ ToSet(lines) \in SUBSET (A \ ToSet(lines))
  OBVIOUS
<1>2. /\ IsFiniteSet(A \ ToSet(lines))
      /\ Cardinality(A \ ToSet(lines)) <= Cardinality(CutLines(lines))
  BY DEF Kept
<1>3. /\ IsFiniteSet(B \ ToSet(lines))
      /\ Cardinality(B \ ToSet(lines)) <= Cardinality(A \ ToSet(lines))
  BY <1>1, <1>2, FS_Subset
<1>4. /\ Cardinality(A \ ToSet(lines)) \in Nat /\ Cardinality(B \ ToSet(lines)) \in Nat
      /\ Cardinality(CutLines(lines)) \in Nat
  BY <1>2, <1>3, FS_CardinalityType, CutFinite
<1> QED
  BY <1>2, <1>3, <1>4 DEF Kept

\* A file is one line longer after an append; behind a part of a line that line
\* is cut, and with it at most the record appended is lost.
LEMMA LineAppended ==
  ASSUME NEW file \in File, NEW line \in Nat, NEW A, Kept(A, file.lines), Opens(file),
         file.lines = <<>> => file.torn \/ line = Header
  PROVE  LET new == AppendLine(file, line) IN
           /\ new \in File /\ Kept(A \cup {line}, new.lines)
           /\ new.lines # <<>> /\ Opens(new)
<1> DEFINE added == IF file.torn THEN Junk ELSE line
           new == AppendLine(file, line)
           lost == A \ ToSet(file.lines)
           left == (A \cup {line}) \ ToSet(new.lines)
<1>1. /\ file.torn \in BOOLEAN /\ file.lines \in Seq(Nat) /\ added \in Nat
      /\ new = [lines |-> Append(file.lines, added), torn |-> FALSE]
  BY JunkIsNat DEF File, AppendLine
<1>2. /\ new \in File /\ new.lines = Append(file.lines, added) /\ new.lines # <<>>
  <2>1. Append(file.lines, added) \in Seq(Nat) /\ Append(file.lines, added) # <<>>
    BY <1>1, SMTT(60)
  <2> HIDE DEF added
  <2> QED
    BY <1>1, <2>1 DEF File
<1>3. Opens(new)
  <2>1. CASE file.lines = <<>>
    <3>1. new.lines[1] = added
      BY <1>1, <1>2, <2>1
    <3> QED
      BY <2>1, <3>1 DEF Opens
  <2>2. CASE file.lines # <<>>
    <3>1. new.lines[1] = file.lines[1]
      BY <1>1, <1>2, <2>2
    <3> QED
      BY <2>2, <3>1 DEF Opens
  <2> QED
    BY <2>1, <2>2
<1>4. ToSet(new.lines) = ToSet(file.lines) \cup {added}
  BY <1>1, <1>2, AppendKeeps
<1>5. /\ IsFiniteSet(lost) /\ Cardinality(lost) \in Nat
      /\ Cardinality(lost) <= Cardinality(CutLines(file.lines))
  BY FS_CardinalityType DEF Kept
<1>6. /\ Cardinality(CutLines(file.lines)) \in Nat
      /\ Cardinality(CutLines(new.lines))
           = Cardinality(CutLines(file.lines)) + (IF added = Junk THEN 1 ELSE 0)
  BY <1>1, <1>2, CutFinite, CutGrows
<1>7. IsFiniteSet(left) /\ Cardinality(left) <= Cardinality(CutLines(new.lines))
  <2>1. CASE added = Junk
    <3>1. left \in SUBSET (lost \cup {line})
      BY <1>4
    <3>2. /\ IsFiniteSet(lost \cup {line})
          /\ Cardinality(lost \cup {line}) <= Cardinality(lost) + 1
          /\ Cardinality(lost \cup {line}) \in Nat
      <4> HIDE DEF lost
      <4>1. /\ IsFiniteSet(lost \cup {line})
            /\ Cardinality(lost \cup {line})
                 = IF line \in lost THEN Cardinality(lost) ELSE Cardinality(lost) + 1
        BY <1>5, FS_AddElement
      <4> QED
        BY <1>5, <4>1
    <3>3. IsFiniteSet(left) /\ Cardinality(left) <= Cardinality(lost \cup {line})
      BY <3>1, <3>2, FS_Subset
    <3>4. Cardinality(left) \in Nat
      BY <3>3, FS_CardinalityType
    <3> HIDE DEF left, lost, new
    <3> QED
      BY <1>5, <1>6, <2>1, <3>2, <3>3, <3>4
  <2>2. CASE added # Junk
    <3>1. left \in SUBSET lost
      BY <1>4, <2>2
    <3>2. IsFiniteSet(left) /\ Cardinality(left) <= Cardinality(lost)
      BY <1>5, <3>1, FS_Subset
    <3>3. Cardinality(left) \in Nat
      BY <3>2, FS_CardinalityType
    <3> HIDE DEF left, lost, new
    <3> QED
      BY <1>5, <1>6, <2>2, <3>2, <3>3
  <2> QED
    BY <2>1, <2>2
<1> QED
  BY <1>2, <1>3, <1>7 DEF Kept

\* The header is added to an empty file only, and nothing is lost by it.
LEMMA HeaderKeeps ==
  ASSUME NEW file \in File, NEW A, Kept(A, file.lines), Opens(file)
  PROVE  LET begun == WithHeader(file) IN
           /\ begun \in File /\ Kept(A, begun.lines) /\ Opens(begun)
           /\ begun.lines = <<>> => begun.torn
<1>1. Header \in Nat
  BY DEF Header
<1>2. CASE NeedsHeader(file)
  <2> DEFINE begun == AppendLine(file, Header)
  <2>1. WithHeader(file) = begun
    BY <1>2 DEF WithHeader
  <2>2. /\ begun \in File /\ Kept(A \cup {Header}, begun.lines)
        /\ begun.lines # <<>> /\ Opens(begun)
    BY <1>1, LineAppended
  <2> HIDE DEF begun
  <2>3. begun.lines \in Seq(Nat)
    BY <2>2 DEF File
  <2>4. Kept(A, begun.lines)
    BY <2>2, <2>3, KeptOfFewer
  <2> QED
    BY <2>1, <2>2, <2>4
<1>3. CASE ~NeedsHeader(file)
  <2>1. WithHeader(file) = file
    BY <1>3 DEF WithHeader
  <2>2. file.lines = <<>> => file.torn
    BY <1>3 DEF NeedsHeader, EmptyArchive, File
  <2> QED
    BY <2>1, <2>2
<1> QED
  BY <1>2, <1>3

\* What the header and a line behind it do to a file.
LEMMA WrittenFile ==
  ASSUME NEW file \in File, NEW line \in Nat, NEW A, Kept(A, file.lines), Opens(file)
  PROVE  LET new == AppendLine(WithHeader(file), line) IN
           new \in File /\ Kept(A \cup {line}, new.lines) /\ Opens(new)
<1> DEFINE begun == WithHeader(file)
<1>1. /\ begun \in File /\ Kept(A, begun.lines) /\ Opens(begun)
      /\ begun.lines = <<>> => begun.torn
  BY HeaderKeeps
<1> HIDE DEF begun
<1>2. LET new == AppendLine(begun, line) IN
        new \in File /\ Kept(A \cup {line}, new.lines) /\ Opens(new)
  BY <1>1, LineAppended
<1> QED
  BY <1>2 DEF begun

\* Part of a line changes no line.
LEMMA PartKeeps ==
  ASSUME NEW file \in File
  PROVE  AppendPart(file) \in File /\ AppendPart(file).lines = file.lines
BY DEF File, AppendPart

-----------------------------------------------------------------------------
\* The invariant: no more is lost than was cut.
NoneLost == \A s \in Sessions : ~Gone(s) => Kept(acked[s], archive[s].lines)
ArchiveInv == Lines /\ NoneLost /\ HeaderFirst

\* It holds at first.
LEMMA ArchiveInit == Init => ArchiveInv
<1> SUFFICES ASSUME Init PROVE ArchiveInv
  OBVIOUS
<1>1. EmptyArchive \in File /\ EmptyArchive.lines = <<>>
  BY DEF EmptyArchive, File
<1>2. native \in [Sessions -> [state : {"absent", "live", "stored", "deleted"},
                              side : BOOLEAN, log : Nat]]
  BY DEF Init
<1>3. Lines
  BY <1>1, <1>2 DEF Init, Lines
<1>4. Kept({}, <<>>)
  <2>1. {} \ ToSet(<<>>) = {}
    OBVIOUS
  <2>2. IsFiniteSet({}) /\ Cardinality({}) = 0
    BY FS_EmptySet
  <2>3. CutLines(<<>>) = {}
    BY DEF CutLines
  <2>4. /\ IsFiniteSet({} \ ToSet(<<>>)) /\ Cardinality({} \ ToSet(<<>>)) = 0
        /\ Cardinality(CutLines(<<>>)) = 0
    BY <2>1, <2>2, <2>3, Zenon
  <2> QED
    BY <2>4 DEF Kept
<1>5. NoneLost
  BY <1>1, <1>4 DEF Init, NoneLost
<1>6. HeaderFirst
  BY <1>1 DEF Init, HeaderFirst
<1> QED
  BY <1>3, <1>5, <1>6 DEF ArchiveInv

\* A step that leaves the files and the acknowledged records alone keeps it, if
\* a session that was gone stays gone.
LEMMA ArchiveUntouched ==
  ASSUME ArchiveInv, UNCHANGED <<archive, acked>>, issued' \in Nat,
         native' \in [Sessions -> [state : {"absent", "live", "stored", "deleted"},
                                  side : BOOLEAN, log : Nat]],
         \A s \in Sessions : Gone(s) => Gone(s)'
  PROVE  ArchiveInv'
<1>1. Lines'
  BY DEF ArchiveInv, Lines
<1>2. NoneLost'
  BY DEF ArchiveInv, NoneLost, Gone, Kept
<1>3. HeaderFirst'
  BY DEF ArchiveInv, HeaderFirst
<1> QED
  BY <1>1, <1>2, <1>3 DEF ArchiveInv

\* What the invariant says of the archive of one session.
LEMMA OneArchive ==
  ASSUME ArchiveInv, NEW s \in Sessions
  PROVE  /\ archive \in [Sessions -> File] /\ archive[s] \in File
         /\ Opens(archive[s]) /\ issued + 1 \in Nat
         /\ ~Gone(s) => Kept(acked[s], archive[s].lines)
BY DEF ArchiveInv, Lines, NoneLost, HeaderFirst, Opens

\* persist() keeps it: the record it acknowledges is the line it has written.
LEMMA ArchivePersist ==
  ASSUME ArchiveInv, NEW b \in Bridges, NEW s \in Sessions, Persist(b, s)
  PROVE  ArchiveInv'
<1> DEFINE new == AppendLine(WithHeader(archive[s]), issued + 1)
<1>1. Lines /\ NoneLost /\ HeaderFirst /\ acked[s] \in SUBSET Nat
  BY DEF ArchiveInv, Lines
<1>2. /\ archive' = [archive EXCEPT ![s] = new]
      /\ acked' = [acked EXCEPT ![s] = @ \cup {issued + 1}]
      /\ issued' = issued + 1
      /\ native' = native /\ ~Gone(s)
  BY DEF Persist, Gone
<1>3. new \in File /\ Kept(acked[s] \cup {issued + 1}, new.lines) /\ Opens(new)
  BY <1>2, OneArchive, WrittenFile
<1>4. issued + 1 \in Nat
  BY OneArchive
<1> HIDE DEF new
<1>5. Lines'
  BY <1>1, <1>2, <1>3, <1>4 DEF Lines
<1>6. NoneLost'
  <2> SUFFICES ASSUME NEW t \in Sessions, ~Gone(t)' PROVE Kept(acked[t], archive[t].lines)'
    BY DEF NoneLost
  <2>1. CASE t = s
    BY <1>1, <1>2, <1>3, <2>1 DEF Lines, Kept
  <2>2. CASE t # s
    BY <1>1, <1>2, <2>2 DEF Lines, NoneLost, Gone, Kept
  <2> QED
    BY <2>1, <2>2
<1>7. HeaderFirst'
  BY <1>1, <1>2, <1>3 DEF Lines, HeaderFirst, Opens
<1> QED
  BY <1>5, <1>6, <1>7 DEF ArchiveInv

\* The native states after a death of the process.
LEMMA RestartNative ==
  ASSUME Lines, Restarts
  PROVE  /\ native' \in [Sessions -> [state : {"absent", "live", "stored", "deleted"},
                                     side : BOOLEAN, log : Nat]]
         /\ \A s \in Sessions : Gone(s)' <=> Gone(s)
<1>1. \A s \in Sessions :
        /\ native'[s] \in [state : {"absent", "live", "stored", "deleted"}, side : BOOLEAN, log : Nat]
        /\ native'[s].state = "deleted" <=> native[s].state = "deleted"
  BY DEF Lines, Restarts
<1>2. native' = [s \in Sessions |-> native'[s]]
  BY DEF Restarts
<1> QED
  BY <1>1, <1>2 DEF Gone

\* A death within persist() keeps it, whatever part of the two lines it leaves:
\* the record was not acknowledged.
LEMMA ArchiveCrash ==
  ASSUME ArchiveInv, NEW s \in Sessions, CrashInPersist(s)
  PROVE  ArchiveInv'
<1> DEFINE file == archive[s]
           begun == WithHeader(file)
           new == AppendLine(begun, issued + 1)
<1>1. /\ archive \in [Sessions -> File] /\ file \in File /\ Opens(file) /\ issued + 1 \in Nat
      /\ acked[s] \in SUBSET Nat /\ ~Gone(s) /\ Kept(acked[s], file.lines)
  BY OneArchive DEF ArchiveInv, Lines, CrashInPersist, Gone
<1>2. begun \in File /\ Kept(acked[s], begun.lines) /\ Opens(begun)
  BY <1>1, HeaderKeeps
<1>3. new \in File /\ Kept(acked[s], new.lines) /\ Opens(new)
  <2>1. new \in File /\ Kept(acked[s] \cup {issued + 1}, new.lines) /\ Opens(new)
    BY <1>1, WrittenFile
  <2> HIDE DEF new
  <2>2. new.lines \in Seq(Nat)
    BY <2>1 DEF File
  <2> QED
    BY <2>1, <2>2, KeptOfFewer
<1>4. PICK left \in {begun, AppendPart(begun), new, AppendPart(file)} :
        archive' = [archive EXCEPT ![s] = left]
  BY DEF CrashInPersist
<1> HIDE DEF begun, new, file
<1>5. left \in File /\ Kept(acked[s], left.lines) /\ Opens(left)
  <2>1. CASE left = begun \/ left = new
    BY <1>2, <1>3, <2>1
  <2>2. CASE left = AppendPart(begun)
    BY <1>2, <2>2, PartKeeps DEF Opens
  <2>3. CASE left = AppendPart(file)
    BY <1>1, <2>3, PartKeeps DEF Opens
  <2> QED
    BY <1>4, <2>1, <2>2, <2>3
<1>6. /\ native' \in [Sessions -> [state : {"absent", "live", "stored", "deleted"},
                                  side : BOOLEAN, log : Nat]]
      /\ \A t \in Sessions : Gone(t)' <=> Gone(t)
  BY RestartNative DEF ArchiveInv, CrashInPersist
<1>7. acked' = acked /\ issued' = issued + 1
  BY DEF CrashInPersist
<1>8. Lines'
  BY <1>1, <1>4, <1>5, <1>6, <1>7 DEF ArchiveInv, Lines
<1>9. NoneLost'
  <2> SUFFICES ASSUME NEW t \in Sessions, ~Gone(t)' PROVE Kept(acked[t], archive[t].lines)'
    BY DEF NoneLost
  <2>1. CASE t = s
    BY <1>1, <1>4, <1>5, <1>7, <2>1 DEF Kept
  <2>2. CASE t # s
    BY <1>1, <1>4, <1>6, <1>7, <2>2 DEF ArchiveInv, NoneLost, Kept
  <2> QED
    BY <2>1, <2>2
<1>10. HeaderFirst'
  BY <1>1, <1>4, <1>5 DEF ArchiveInv, HeaderFirst, Opens
<1> QED
  BY <1>8, <1>9, <1>10 DEF ArchiveInv

\* Retiring the archive of a session that is gone keeps it.
LEMMA ArchiveDiscard ==
  ASSUME ArchiveInv, NEW b \in Bridges, NEW s \in Sessions, DiscardArchive(b, s)
  PROVE  ArchiveInv'
<1>1. EmptyArchive \in File /\ EmptyArchive.lines = <<>>
  BY DEF EmptyArchive, File
<1>2. /\ archive' = [archive EXCEPT ![s] = EmptyArchive]
      /\ Gone(s)
      /\ UNCHANGED <<native, acked, issued>>
  BY DEF DiscardArchive, Gone, countVars
<1>3. Lines'
  BY <1>1, <1>2 DEF ArchiveInv, Lines
<1>4. NoneLost'
  BY <1>2 DEF ArchiveInv, Lines, NoneLost, Gone, Kept
<1>5. HeaderFirst'
  BY <1>1, <1>2 DEF ArchiveInv, Lines, HeaderFirst
<1> QED
  BY <1>3, <1>4, <1>5 DEF ArchiveInv

\* What DSH does to a session keeps its type, and what is gone stays gone.
LEMMA NativeKeeps ==
  ASSUME Lines, NativeStep
  PROVE  /\ native' \in [Sessions -> [state : {"absent", "live", "stored", "deleted"},
                                     side : BOOLEAN, log : Nat]]
         /\ \A s \in Sessions : Gone(s) => Gone(s)'
         /\ UNCHANGED <<diskVars, bridgeVars, scan, countVars>>
<1> USE DEF Gone, Lines
<1>1. PICK s \in Sessions :
        \/ NativeBecomes(s, {"absent", "stored"}, "live")
        \/ NativeBecomes(s, {"live"}, "stored")
        \/ NativeBecomes(s, {"stored"}, "deleted")
        \/ NativeGoesOn(s)
  BY DEF NativeStep
<1>2. CASE NativeBecomes(s, {"absent", "stored"}, "live")
  BY <1>2 DEF NativeBecomes
<1>3. CASE NativeBecomes(s, {"live"}, "stored")
  BY <1>3 DEF NativeBecomes
<1>4. CASE NativeBecomes(s, {"stored"}, "deleted")
  BY <1>4 DEF NativeBecomes
<1>5. CASE NativeGoesOn(s)
  BY <1>5 DEF NativeGoesOn
<1> QED
  BY <1>1, <1>2, <1>3, <1>4, <1>5

\* The scan never touches an archive.
LEMMA ScanLeavesArchive ==
  ASSUME ScanStep PROVE UNCHANGED <<native, archive, countVars>>
BY DEF ScanStep, ScanBegins, ScanLists, ScanFails, ScanReads, ScanWrites, ScanCloses,
       ScanEnds, diskVars

\* Every step keeps the invariant.
LEMMA ArchiveNext ==
  ASSUME ArchiveInv, [Next]_vars PROVE ArchiveInv'
<1>1. Lines
  BY DEF ArchiveInv
<1>2. CASE NativeStep
  BY <1>1, <1>2, NativeKeeps, ArchiveUntouched DEF diskVars, countVars, Lines
<1>3. CASE BridgeCall
  <2>1. PICK b \in Bridges, s \in Sessions :
          Load(b, s) \/ Persist(b, s) \/ GetSessionFile(b, s) \/ DiscardArchive(b, s)
    BY <1>3 DEF BridgeCall
  <2>2. CASE Load(b, s)
    BY <1>1, <2>2, ArchiveUntouched DEF Load, diskVars, countVars, Lines, Gone
  <2>3. CASE GetSessionFile(b, s)
    BY <1>1, <2>3, ArchiveUntouched DEF GetSessionFile, countVars, Lines, Gone
  <2> QED
    BY <2>1, <2>2, <2>3, ArchivePersist, ArchiveDiscard
<1>4. CASE ScanStep
  BY <1>1, <1>4, ScanLeavesArchive, ArchiveUntouched DEF countVars, Lines, Gone
<1>5. CASE Crash
  BY <1>1, <1>5, RestartNative, ArchiveUntouched DEF Crash, diskVars, Lines
<1>6. CASE \E s \in Sessions : CrashInPersist(s)
  BY <1>6, ArchiveCrash
<1>7. CASE UNCHANGED vars
  BY <1>1, <1>7, ArchiveUntouched DEF vars, diskVars, countVars, Lines, Gone
<1> QED
  BY <1>2, <1>3, <1>4, <1>5, <1>6, <1>7 DEF Next

\* No record whose call returned is lost from its archive before its session is
\* gone, but one for each line that a death of the process cut short, whatever
\* bridges, scans and deaths do (persist(), archiveFileFor(), discardArchive()).
THEOREM NoRecordLost == Spec => []RecordsSurvive
<1>1. Init => ArchiveInv
  BY ArchiveInit
<1>2. ArchiveInv /\ [Next]_vars => ArchiveInv'
  BY ArchiveNext
<1>3. ArchiveInv => RecordsSurvive
  BY DEF ArchiveInv, NoneLost, Kept, RecordsSurvive
<1> QED
  BY <1>1, <1>2, <1>3, PTL DEF Spec

\* Every archive opens with its header, or with what a death left of it
\* (archiveFileFor()).
THEOREM HeaderComesFirst == Spec => []HeaderFirst
<1>1. Init => ArchiveInv
  BY ArchiveInit
<1>2. ArchiveInv /\ [Next]_vars => ArchiveInv'
  BY ArchiveNext
<1>3. ArchiveInv => HeaderFirst
  BY DEF ArchiveInv
<1> QED
  BY <1>1, <1>2, <1>3, PTL DEF Spec

-----------------------------------------------------------------------------
(* The scan of the stored sessions.                                        *)

NativeRecord == [state : {"absent", "live", "stored", "deleted"}, side : BOOLEAN, log : Nat]
ScanRecord ==
  [phase : {"idle", "listing", "next", "writing", "closing", "done"}, by : SUBSET Bridges,
   prior : SUBSET Sessions, gone : SUBSET Sessions, todo : SUBSET Sessions,
   present : SUBSET Sessions, hidden : SUBSET Sessions, at : SUBSET Sessions, log : Nat]

Scanning == scan.phase \in {"listing", "next", "writing", "closing"}
Listed   == scan.phase \in {"next", "writing", "closing"}
Side(s)  == native[s].side

ScanTypes ==
  /\ native \in [Sessions -> NativeRecord]
  /\ DOMAIN export = Sessions
  /\ \A s \in Sessions : export[s].there \in BOOLEAN
  /\ DOMAIN watched = Bridges
  /\ \A b \in Bridges : DOMAIN watched[b] = Sessions
  /\ scan \in ScanRecord

\* What has an export or stands in the scan has been a session.
KnownSessions ==
  \A s \in Sessions :
    export[s].there \/ s \in scan.prior \cup scan.present => native[s].state # "absent"

\* No bridge watches a side session.
SidesUnwatched ==
  \A b \in Bridges, s \in Sessions : Side(s) => watched[b][s].kind = "none"

\* What was gone when the scan began is still gone.
GoneForGood == \A s \in scan.gone : Gone(s)

\* The scan handles listed sessions, none of them gone when it began; what it
\* had an export of and the listing lacks is gone; what it hides is a side session.
ListedOnly ==
  Listed => /\ scan.todo \subseteq scan.present /\ scan.at \subseteq scan.present
            /\ scan.present \cap scan.gone = {}
            /\ \A s \in scan.prior \ scan.present : Gone(s)
            /\ \A s \in scan.hidden : Side(s)

\* Exports that have to go were there when the scan began.
CondemnedPrior ==
  Scanning => \A s \in Sessions : (s \in scan.gone \/ Side(s)) /\ export[s].there => s \in scan.prior

\* A listed side session is still to be looked at or hidden.
SidesHidden ==
  Listed => \A s \in scan.present :
              Side(s) => \/ s \in scan.todo \cup scan.hidden
                         \/ scan.phase = "writing" /\ s \in scan.at

\* One session is handled at a time, and none before the listing has come.
OneAtATime ==
  /\ \A s, t \in scan.at : s = t
  /\ scan.phase = "listing" => scan.hidden = {} /\ scan.at = {}

ScanInv ==
  /\ OneAtATime
  /\ ScanTypes /\ KnownSessions /\ SidesUnwatched /\ GoneForGood
  /\ ListedOnly /\ CondemnedPrior /\ SidesHidden /\ ScanCleans

USE DEF NativeRecord, ScanRecord

\* It holds at first.
LEMMA ScanInit == Init => ScanInv
<1> SUFFICES ASSUME Init PROVE ScanInv
  OBVIOUS
<1>1. scan = NoScan /\ NoScan \in ScanRecord
  BY DEF Init, NoScan
<1>2. \A s \in Sessions :
        /\ export[s].there \in BOOLEAN
        /\ export[s].there => native[s].state = "stored"
  BY DEF Init, Exported, NoFile
<1>3. DOMAIN export = Sessions /\ native \in [Sessions -> NativeRecord]
  BY DEF Init
<1>4. watched = [b \in Bridges |-> [s \in Sessions |-> Unwatched]]
  BY DEF Init
<1>5. ScanTypes
  BY <1>1, <1>2, <1>3, <1>4 DEF ScanTypes
<1>6. KnownSessions
  BY <1>1, <1>2 DEF KnownSessions, NoScan
<1>7. SidesUnwatched
  BY <1>4 DEF SidesUnwatched, Unwatched
<1>8. OneAtATime /\ GoneForGood /\ ListedOnly /\ CondemnedPrior /\ SidesHidden /\ ScanCleans
  BY <1>1 DEF OneAtATime, GoneForGood, ListedOnly, CondemnedPrior, SidesHidden, ScanCleans, NoScan, Listed, Scanning
<1> QED
  BY <1>5, <1>6, <1>7, <1>8 DEF ScanInv

\* What DSH and a restart of the process leave of the sessions.
SessionsGoOn ==
  /\ native' \in [Sessions -> NativeRecord]
  /\ \A s \in Sessions : /\ native'[s].side = native[s].side
                         /\ Gone(s) => native'[s].state = "deleted"
                         /\ native[s].state # "absent" => native'[s].state # "absent"

\* A step of DSH keeps the invariant.
LEMMA ScanNative ==
  ASSUME ScanInv, SessionsGoOn, UNCHANGED <<export, watched, scan>>
  PROVE  ScanInv'
<1> USE DEF SessionsGoOn, Gone, Side
<1>1. ScanTypes'
  BY DEF ScanInv, ScanTypes
<1>2. KnownSessions'
  BY DEF ScanInv, ScanTypes, KnownSessions
<1>3. SidesUnwatched'
  BY DEF ScanInv, ScanTypes, SidesUnwatched
<1>4. GoneForGood'
  BY DEF ScanInv, ScanTypes, GoneForGood
<1>5. ListedOnly'
  BY DEF ScanInv, ScanTypes, ListedOnly, Listed
<1>6. CondemnedPrior'
  BY DEF ScanInv, ScanTypes, CondemnedPrior, Scanning
<1>7. SidesHidden' /\ OneAtATime'
  BY DEF ScanInv, ScanTypes, SidesHidden, Listed, OneAtATime
<1>8. ScanCleans'
  BY DEF ScanInv, ScanTypes, ScanCleans
<1> QED
  BY <1>1, <1>2, <1>3, <1>4, <1>5, <1>6, <1>7, <1>8 DEF ScanInv

\* So does a step after which no scan runs: a failed scan, a dead process.
LEMMA ScanDropped ==
  ASSUME ScanInv, SessionsGoOn, export' = export, scan' = NoScan,
         DOMAIN watched' = Bridges, \A b \in Bridges : DOMAIN watched'[b] = Sessions,
         \A b \in Bridges, s \in Sessions : Side(s) => watched'[b][s].kind = "none"
  PROVE  ScanInv'
<1> USE DEF SessionsGoOn, Gone, Side, NoScan
<1>1. ScanTypes'
  BY DEF ScanInv, ScanTypes
<1>2. KnownSessions'
  BY DEF ScanInv, ScanTypes, KnownSessions
<1>3. SidesUnwatched'
  BY DEF ScanInv, ScanTypes, SidesUnwatched
<1>4. OneAtATime' /\ GoneForGood' /\ ListedOnly' /\ CondemnedPrior' /\ SidesHidden' /\ ScanCleans'
  BY DEF OneAtATime, GoneForGood, ListedOnly, CondemnedPrior, SidesHidden, ScanCleans, Listed, Scanning
<1> QED
  BY <1>1, <1>2, <1>3, <1>4 DEF ScanInv

\* Exports appear for live sessions only, and not for side sessions.
ExportsFit ==
  /\ DOMAIN export' = Sessions
  /\ \A s \in Sessions :
       /\ export'[s].there \in BOOLEAN
       /\ export'[s].there => \/ export[s].there
                              \/ native[s].state = "live" /\ ~Side(s)

\* No bridge takes to watching a side session.
WatchFits ==
  /\ DOMAIN watched' = Bridges /\ \A b \in Bridges : DOMAIN watched'[b] = Sessions
  /\ \A b \in Bridges, s \in Sessions : Side(s) => watched'[b][s].kind = "none"

\* So does a step that exports no session that is gone, nor a side session.
LEMMA ScanBridge ==
  ASSUME ScanInv, UNCHANGED <<native, scan>>, ExportsFit, WatchFits
  PROVE  ScanInv'
<1> USE DEF Gone, Side, ExportsFit, WatchFits
<1>1. ScanTypes'
  BY DEF ScanInv, ScanTypes
<1>2. KnownSessions'
  BY DEF ScanInv, ScanTypes, KnownSessions
<1>3. SidesUnwatched'
  BY DEF ScanInv, ScanTypes, SidesUnwatched
<1>4. GoneForGood'
  BY DEF ScanInv, GoneForGood
<1>5. ListedOnly' /\ SidesHidden' /\ OneAtATime'
  BY DEF ScanInv, ListedOnly, SidesHidden, Listed, OneAtATime
<1>6. CondemnedPrior'
  BY DEF ScanInv, ScanTypes, CondemnedPrior, GoneForGood, Scanning
<1>7. ScanCleans'
  BY DEF ScanInv, ScanTypes, ScanCleans, GoneForGood
<1> QED
  BY <1>1, <1>2, <1>3, <1>4, <1>5, <1>6, <1>7 DEF ScanInv

\* A bridge changes its watch on one session.
LEMMA OneWatch ==
  ASSUME ScanTypes, SidesUnwatched, NEW b \in Bridges, NEW s \in Sessions, NEW new,
         watched' = [watched EXCEPT ![b][s] = new],
         Side(s) => new.kind = "none"
  PROVE  WatchFits
BY DEF ScanTypes, SidesUnwatched, WatchFits

\* Exports and watches that do not change fit.
LEMMA SameExports == ScanTypes /\ export' = export => ExportsFit
BY DEF ScanTypes, ExportsFit

\* The same for the watches.
LEMMA SameWatch == ScanTypes /\ SidesUnwatched /\ watched' = watched => WatchFits
BY DEF ScanTypes, SidesUnwatched, WatchFits

\* The bridge calls are such steps.
LEMMA ScanBridgeCall == ScanInv /\ BridgeCall => ScanInv'
<1> SUFFICES ASSUME ScanInv, NEW b \in Bridges, NEW s \in Sessions,
                    Load(b, s) \/ Persist(b, s) \/ GetSessionFile(b, s) \/ DiscardArchive(b, s)
             PROVE  ScanInv'
  BY DEF BridgeCall
<1>0. ScanTypes /\ SidesUnwatched
  BY DEF ScanInv
<1>1. CASE Load(b, s)
  BY <1>0, <1>1, ScanBridge, SameExports, SameWatch DEF Load, diskVars
<1>2. CASE Persist(b, s)
  <2>1. UNCHANGED <<native, watched, scan>> /\ native[s].state = "live"
    BY <1>2 DEF Persist
  <2>2. CASE watched[b][s].kind = "none"
    <3>1. export' = export
      BY <1>2, <2>2 DEF Persist
    <3> QED
      BY <1>0, <2>1, <3>1, ScanBridge, SameExports, SameWatch
  <2>3. CASE watched[b][s].kind # "none"
    <3>1. ~Side(s)
      BY <1>0, <2>3 DEF SidesUnwatched
    <3>2. PICK log, records : export' = [export EXCEPT ![s] = Exported(log, records)]
      BY <1>2, <2>3 DEF Persist
    <3>3. Exported(log, records).there \in BOOLEAN
      BY DEF Exported
    <3>4. ExportsFit
      BY <1>0, <2>1, <3>1, <3>2, <3>3 DEF ScanTypes, ExportsFit
    <3> QED
      BY <1>0, <2>1, <3>4, ScanBridge, SameWatch
  <2> QED
    BY <2>2, <2>3
<1>3. CASE GetSessionFile(b, s)
  <2>1. /\ UNCHANGED <<native, scan>> /\ native[s].state = "live" /\ ~Side(s)
        /\ watched' = [watched EXCEPT ![b][s] = [kind |-> "live", log |-> 0]]
    BY <1>3 DEF GetSessionFile, Side
  <2>2. PICK log, records : export' = [export EXCEPT ![s] = Exported(log, records)]
    BY <1>3 DEF GetSessionFile
  <2>3. Exported(log, records).there \in BOOLEAN
    BY DEF Exported
  <2>4. ExportsFit
    BY <1>0, <2>1, <2>2, <2>3 DEF ScanTypes, ExportsFit
  <2>5. WatchFits
    BY <1>0, <2>1, OneWatch
  <2> QED
    BY <2>1, <2>4, <2>5, ScanBridge
<1>4. CASE DiscardArchive(b, s)
  <2>1. /\ UNCHANGED <<native, scan>>
        /\ watched' = [watched EXCEPT ![b][s] = Unwatched]
        /\ export' = [export EXCEPT ![s] = NoFile]
    BY <1>4 DEF DiscardArchive
  <2>2. NoFile.there \in BOOLEAN /\ ~NoFile.there /\ Unwatched.kind = "none"
    BY DEF NoFile, Unwatched
  <2>3. ExportsFit
    BY <1>0, <2>1, <2>2 DEF ScanTypes, ExportsFit
  <2>4. WatchFits
    BY <1>0, <2>1, <2>2, OneWatch
  <2> QED
    BY <2>1, <2>3, <2>4, ScanBridge
<1> QED
  BY <1>1, <1>2, <1>3, <1>4

\* The scan's own steps keep it.
LEMMA ScanOwnStep == ScanInv /\ ScanStep => ScanInv'
<1> SUFFICES ASSUME ScanInv, ScanStep PROVE ScanInv'
  OBVIOUS
<1>0. /\ ScanTypes /\ KnownSessions /\ SidesUnwatched /\ GoneForGood
      /\ ListedOnly /\ CondemnedPrior /\ SidesHidden /\ OneAtATime
  BY DEF ScanInv
<1> USE DEF Gone, Side
<1>1. ASSUME NEW b \in Bridges, ScanBegins(b) PROVE ScanInv'
  <2>1. /\ UNCHANGED <<native, export, watched>>
        /\ scan' = [NoScan EXCEPT !.phase = "listing", !.by = {b},
                                  !.prior = {s \in Sessions : export[s].there},
                                  !.gone = {s \in Sessions : Gone(s)}]
    BY <1>1 DEF ScanBegins, diskVars, bridgeVars
  <2>2. ScanTypes'
    <3>1. scan' \in ScanRecord
      BY <2>1 DEF NoScan, ScanRecord
    <3> QED
      BY <1>0, <2>1, <3>1 DEF ScanTypes
  <2>3. KnownSessions' /\ SidesUnwatched' /\ GoneForGood' /\ OneAtATime'
    BY <1>0, <2>1 DEF KnownSessions, SidesUnwatched, GoneForGood, NoScan, OneAtATime
  <2>4. ListedOnly' /\ CondemnedPrior' /\ SidesHidden' /\ ScanCleans'
    BY <1>0, <2>1 DEF ListedOnly, CondemnedPrior, SidesHidden, ScanCleans, Listed, Scanning, NoScan
  <2> QED
    BY <2>2, <2>3, <2>4 DEF ScanInv
<1>2. CASE ScanLists
  <2> DEFINE listed == {s \in Sessions : native[s].state \in {"live", "stored"}}
  <2>1. /\ UNCHANGED <<native, export, watched>>
        /\ scan.phase = "listing"
        /\ scan' = [scan EXCEPT !.phase = "next", !.todo = listed, !.present = listed]
    BY <1>2 DEF ScanLists, diskVars, bridgeVars
  <2>2. ScanTypes'
    BY <1>0, <2>1 DEF ScanTypes
  <2>3. KnownSessions' /\ SidesUnwatched' /\ GoneForGood' /\ OneAtATime'
    BY <1>0, <2>1 DEF ScanTypes, KnownSessions, SidesUnwatched, GoneForGood, OneAtATime
  <2>4. ListedOnly'
    BY <1>0, <2>1 DEF ScanTypes, ListedOnly, KnownSessions, GoneForGood, OneAtATime
  <2>5. CondemnedPrior' /\ SidesHidden' /\ ScanCleans'
    BY <1>0, <2>1 DEF ScanTypes, CondemnedPrior, SidesHidden, ScanCleans, Listed, Scanning, OneAtATime
  <2> QED
    BY <2>2, <2>3, <2>4, <2>5 DEF ScanInv
<1>3. CASE ScanFails
  BY <1>0, <1>3, ScanDropped DEF ScanFails, ScanTypes, SidesUnwatched, SessionsGoOn, diskVars, bridgeVars
<1>4. ASSUME NEW s \in Sessions, ScanReads(s) PROVE ScanInv'
  <2>1. /\ UNCHANGED <<native, export, watched>>
        /\ scan.phase = "next" /\ s \in scan.todo
        /\ scan' = [scan EXCEPT !.phase = "writing", !.todo = @ \ {s}, !.at = {s},
                                !.log = native[s].log]
    BY <1>4 DEF ScanReads, diskVars, bridgeVars
  <2>2. ScanTypes'
    BY <1>0, <2>1 DEF ScanTypes
  <2>3. KnownSessions' /\ SidesUnwatched' /\ GoneForGood' /\ OneAtATime'
    BY <1>0, <2>1 DEF ScanTypes, KnownSessions, SidesUnwatched, GoneForGood, OneAtATime
  <2>4. ListedOnly'
    BY <1>0, <2>1 DEF ScanTypes, ListedOnly, Listed
  <2>5. CondemnedPrior' /\ SidesHidden' /\ ScanCleans'
    BY <1>0, <2>1 DEF ScanTypes, CondemnedPrior, SidesHidden, ScanCleans, Listed, Scanning, OneAtATime
  <2> QED
    BY <2>2, <2>3, <2>4, <2>5 DEF ScanInv
<1>5. ASSUME NEW s \in Sessions, ScanWrites(s), Side(s) PROVE ScanInv'
  <2>1. /\ UNCHANGED <<native, export, watched>>
        /\ scan.phase = "writing" /\ s \in scan.at
        /\ scan' = [scan EXCEPT !.phase = "closing", !.hidden = @ \cup {s}]
    BY <1>5 DEF ScanWrites, bridgeVars
  <2>2. ScanTypes'
    BY <1>0, <2>1 DEF ScanTypes
  <2>3. KnownSessions' /\ SidesUnwatched' /\ GoneForGood' /\ OneAtATime'
    BY <1>0, <2>1 DEF ScanTypes, KnownSessions, SidesUnwatched, GoneForGood, OneAtATime
  <2>4. ListedOnly'
    BY <1>0, <1>5, <2>1 DEF ScanTypes, ListedOnly, Listed
  <2>5. CondemnedPrior' /\ SidesHidden' /\ ScanCleans'
    BY <1>0, <2>1 DEF ScanTypes, CondemnedPrior, SidesHidden, ScanCleans, Listed, Scanning, OneAtATime
  <2> QED
    BY <2>2, <2>3, <2>4, <2>5 DEF ScanInv
<1>6. ASSUME NEW s \in Sessions, ScanWrites(s), ~Side(s) PROVE ScanInv'
  <2>1. /\ native' = native
        /\ scan.phase = "writing" /\ s \in scan.at
        /\ scan' = [scan EXCEPT !.phase = "closing"]
    BY <1>6 DEF ScanWrites
  <2>2. PICK b \in scan.by :
          /\ watched' = [watched EXCEPT ![b][s] = [kind |-> "stored", log |-> scan.log]]
          /\ export' = [export EXCEPT ![s] = Exported(scan.log, RecordsFor(b, s))]
    BY <1>6 DEF ScanWrites
  <2>3. /\ DOMAIN export' = Sessions
        /\ \A t \in Sessions \ {s} : export'[t] = export[t]
        /\ export'[s].there = TRUE
    BY <1>0, <2>2 DEF ScanTypes, Exported
  <2>4. DOMAIN watched' = Bridges /\ \A c \in Bridges : DOMAIN watched'[c] = Sessions
    BY <1>0, <2>2 DEF ScanTypes
  <2>5. ScanTypes'
    BY <1>0, <2>1, <2>3, <2>4 DEF ScanTypes
  <2>6. s \in scan.present /\ s \notin scan.gone
    BY <1>0, <2>1 DEF ListedOnly, Listed
  <2>7. KnownSessions' /\ GoneForGood' /\ OneAtATime'
    BY <1>0, <2>1, <2>3, <2>6 DEF ScanTypes, KnownSessions, GoneForGood, OneAtATime
  <2>8. SidesUnwatched'
    BY <1>0, <1>6, <2>1, <2>2 DEF ScanTypes, SidesUnwatched
  <2>9. ListedOnly'
    BY <1>0, <2>1 DEF ScanTypes, ListedOnly, Listed
  <2>10. CondemnedPrior'
    BY <1>0, <1>6, <2>1, <2>3, <2>6 DEF ScanTypes, CondemnedPrior, Scanning
  <2>11. SidesHidden' /\ ScanCleans'
    BY <1>0, <1>6, <2>1, <2>6 DEF ScanTypes, SidesHidden, ScanCleans, Listed, OneAtATime
  <2> QED
    BY <2>5, <2>7, <2>8, <2>9, <2>10, <2>11 DEF ScanInv
<1>7. ASSUME NEW s \in Sessions, ScanCloses(s) PROVE ScanInv'
  <2>1. /\ UNCHANGED <<native, export>>
        /\ scan.phase = "closing"
        /\ scan' = [scan EXCEPT !.phase = "next", !.at = {}, !.log = 0]
    BY <1>7 DEF ScanCloses, diskVars
  <2>2. PICK b \in scan.by : watched' = [watched EXCEPT ![b][s] = Unwatched]
    BY <1>7 DEF ScanCloses
  <2>3. DOMAIN watched' = Bridges /\ \A c \in Bridges : DOMAIN watched'[c] = Sessions
    BY <1>0, <2>2 DEF ScanTypes
  <2>4. ScanTypes'
    BY <1>0, <2>1, <2>3 DEF ScanTypes
  <2>5. SidesUnwatched'
    BY <1>0, <2>1, <2>2 DEF ScanTypes, SidesUnwatched, Unwatched
  <2>6. KnownSessions' /\ GoneForGood' /\ OneAtATime'
    BY <1>0, <2>1 DEF ScanTypes, KnownSessions, GoneForGood, OneAtATime
  <2>7. ListedOnly'
    BY <1>0, <2>1 DEF ScanTypes, ListedOnly, Listed
  <2>8. CondemnedPrior' /\ SidesHidden' /\ ScanCleans'
    BY <1>0, <2>1 DEF ScanTypes, CondemnedPrior, SidesHidden, ScanCleans, Listed, Scanning, OneAtATime
  <2> QED
    BY <2>4, <2>5, <2>6, <2>7, <2>8 DEF ScanInv
<1>8. CASE ScanEnds
  <2>1. /\ UNCHANGED <<native, watched>>
        /\ scan.phase = "next" /\ scan.todo = {}
        /\ export' = [s \in Sessions |->
                        IF s \in scan.prior /\ (s \notin scan.present \/ s \in scan.hidden)
                        THEN NoFile ELSE export[s]]
        /\ scan' = [NoScan EXCEPT !.phase = "done", !.gone = scan.gone]
    BY <1>8 DEF ScanEnds, bridgeVars
  <2>2. \A s \in Sessions : /\ export'[s].there \in BOOLEAN
                            /\ export'[s].there => export[s].there
                            /\ s \in scan.prior /\ (s \notin scan.present \/ s \in scan.hidden)
                                 => ~export'[s].there
    BY <1>0, <2>1 DEF ScanTypes, NoFile
  <2>3. ScanTypes'
    <3>1. scan.gone \in SUBSET Sessions
      BY <1>0 DEF ScanTypes, ScanRecord
    <3>2. scan' \in ScanRecord
      BY <2>1, <3>1 DEF NoScan, ScanRecord
    <3> QED
      BY <1>0, <2>1, <2>2, <3>2 DEF ScanTypes
  <2>4. KnownSessions' /\ SidesUnwatched' /\ GoneForGood' /\ OneAtATime'
    BY <1>0, <2>1, <2>2 DEF ScanTypes, KnownSessions, SidesUnwatched, GoneForGood, NoScan, OneAtATime
  <2>5. ListedOnly' /\ CondemnedPrior' /\ SidesHidden'
    BY <2>1 DEF ListedOnly, CondemnedPrior, SidesHidden, Listed, Scanning, NoScan
  <2>6. \A s \in scan.gone \cup {t \in Sessions : native[t].side} : ~export'[s].there
    <3> SUFFICES ASSUME NEW s \in Sessions, s \in scan.gone \/ Side(s) PROVE ~export'[s].there
      BY <1>0 DEF ScanTypes
    <3>1. CASE s \notin scan.prior
      BY <1>0, <2>1, <2>2, <3>1 DEF CondemnedPrior, Scanning
    <3>2. CASE s \in scan.prior /\ s \in scan.gone
      BY <1>0, <2>1, <2>2, <3>2 DEF ListedOnly, Listed
    <3>3. CASE s \in scan.prior /\ Side(s)
      BY <1>0, <2>1, <2>2, <3>3 DEF SidesHidden, Listed
    <3> QED
      BY <3>1, <3>2, <3>3
  <2>7. ScanCleans'
    BY <2>1, <2>6 DEF ScanCleans, NoScan
  <2> QED
    BY <2>3, <2>4, <2>5, <2>7 DEF ScanInv
<1> QED
  BY <1>1, <1>2, <1>3, <1>4, <1>5, <1>6, <1>7, <1>8 DEF ScanStep

\* A restart of the process ends the scan and forgets every watch.
LEMMA ScanRestart == ScanInv /\ Restarts /\ export' = export => ScanInv'
<1> SUFFICES ASSUME ScanInv, Restarts, export' = export PROVE ScanInv'
  OBVIOUS
<1>1. \A s \in Sessions :
        /\ native'[s] = [native[s] EXCEPT !.state = IF @ = "live" THEN "stored" ELSE @]
        /\ native[s] \in NativeRecord
  BY DEF Restarts, ScanInv, ScanTypes
<1>2. SessionsGoOn
  <2>1. \A s \in Sessions : /\ native'[s] \in NativeRecord
                            /\ native'[s].side = native[s].side
                            /\ Gone(s) => native'[s].state = "deleted"
                            /\ native[s].state # "absent" => native'[s].state # "absent"
    <3> SUFFICES ASSUME NEW s \in Sessions
                 PROVE  /\ native'[s] \in NativeRecord
                        /\ native'[s].side = native[s].side
                        /\ Gone(s) => native'[s].state = "deleted"
                        /\ native[s].state # "absent" => native'[s].state # "absent"
      OBVIOUS
    <3>1. PICK state \in {"absent", "live", "stored", "deleted"} :
            /\ state = IF native[s].state = "live" THEN "stored" ELSE native[s].state
            /\ native'[s] = [native[s] EXCEPT !.state = state]
      BY <1>1 DEF NativeRecord
    <3> QED
      BY <1>1, <3>1 DEF Gone, NativeRecord
  <2>2. native' \in [Sessions -> NativeRecord]
    BY <2>1 DEF Restarts
  <2> QED
    BY <2>1, <2>2 DEF SessionsGoOn
<1>3. /\ DOMAIN watched' = Bridges /\ \A b \in Bridges : DOMAIN watched'[b] = Sessions
      /\ \A b \in Bridges, s \in Sessions : watched'[b][s].kind = "none"
      /\ scan' = NoScan
  BY DEF Restarts, Unwatched
<1> QED
  BY <1>2, <1>3, ScanDropped

\* A step of DSH only moves sessions on.
LEMMA NativeGoesForward == ScanTypes /\ NativeStep => SessionsGoOn
<1> SUFFICES ASSUME ScanTypes, NEW s \in Sessions,
                    \/ NativeBecomes(s, {"absent", "stored"}, "live")
                    \/ NativeBecomes(s, {"live"}, "stored")
                    \/ NativeBecomes(s, {"stored"}, "deleted")
                    \/ NativeGoesOn(s)
             PROVE  SessionsGoOn
  BY DEF NativeStep
<1> USE DEF ScanTypes, SessionsGoOn, Gone
<1>1. CASE NativeBecomes(s, {"absent", "stored"}, "live")
  BY <1>1 DEF NativeBecomes
<1>2. CASE NativeBecomes(s, {"live"}, "stored")
  BY <1>2 DEF NativeBecomes
<1>3. CASE NativeBecomes(s, {"stored"}, "deleted")
  BY <1>3 DEF NativeBecomes
<1>4. CASE NativeGoesOn(s)
  BY <1>4 DEF NativeGoesOn
<1> QED
  BY <1>1, <1>2, <1>3, <1>4

\* Every step keeps the invariant.
LEMMA ScanNext == ScanInv /\ [Next]_vars => ScanInv'
<1> SUFFICES ASSUME ScanInv, [Next]_vars PROVE ScanInv'
  OBVIOUS
<1>0. ScanTypes
  BY DEF ScanInv
<1>1. CASE NativeStep
  <2>1. UNCHANGED <<export, watched, scan>>
    BY <1>1 DEF NativeStep, NativeBecomes, NativeGoesOn, diskVars, bridgeVars
  <2> QED
    BY <1>0, <1>1, <2>1, NativeGoesForward, ScanNative
<1>2. CASE BridgeCall
  BY <1>2, ScanBridgeCall
<1>3. CASE ScanStep
  BY <1>3, ScanOwnStep
<1>4. CASE Crash
  BY <1>4, ScanRestart DEF Crash, diskVars
<1>5. CASE \E s \in Sessions : CrashInPersist(s)
  BY <1>5, ScanRestart DEF CrashInPersist
<1>6. CASE UNCHANGED vars
  <2>1. UNCHANGED <<native, export, watched, scan>> /\ SessionsGoOn
    BY <1>0, <1>6 DEF vars, diskVars, bridgeVars, ScanTypes, SessionsGoOn, Gone
  <2> QED
    BY <2>1, ScanNative
<1> QED
  BY <1>1, <1>2, <1>3, <1>4, <1>5, <1>6 DEF Next

\* Once a scan is done, no export is left of a session that was gone when it
\* began, nor of a side session, whatever went on meanwhile
\* (exportStoredSessions()).
THEOREM ScanDoesClean == Spec => []ScanCleans
<1>1. ScanInv => ScanCleans
  BY DEF ScanInv
<1> QED
  BY <1>1, ScanInit, ScanNext, PTL DEF Spec

\* Unlinking an export needs a session that is gone, or a side session: the
\* step itself, from the invariant.
LEMMA RetiringStep ==
  ScanInv /\ [Next]_vars
    => (\A s \in Sessions : (export[s].there /\ ~export'[s].there) => Gone(s) \/ native[s].side)
<1> SUFFICES ASSUME ScanInv, [Next]_vars, NEW s \in Sessions, export[s].there, ~export'[s].there
             PROVE  Gone(s) \/ native[s].side
  OBVIOUS
<1>0. ScanTypes /\ ListedOnly
  BY DEF ScanInv
<1>1. CASE export' = export
  BY <1>1
<1>2. CASE ScanEnds
  <2>1. s \in scan.prior /\ (s \notin scan.present \/ s \in scan.hidden) /\ scan.phase = "next"
    BY <1>2 DEF ScanEnds
  <2> QED
    BY <1>0, <2>1 DEF ListedOnly, Listed, Side
<1>3. ASSUME NEW b \in Bridges, NEW t \in Sessions, DiscardArchive(b, t) PROVE Gone(s)
  <2>1. export' = [export EXCEPT ![t] = NoFile] /\ Gone(t)
    BY <1>3 DEF DiscardArchive, Gone
  <2> QED
    BY <1>0, <2>1 DEF ScanTypes
<1>4. ASSUME NEW b \in Bridges, NEW t \in Sessions, Persist(b, t) PROVE FALSE
  <2>1. CASE watched[b][t].kind = "none"
    BY <1>4, <2>1 DEF Persist
  <2>2. CASE watched[b][t].kind # "none"
    <3>1. PICK log, records : export' = [export EXCEPT ![t] = Exported(log, records)]
      BY <1>4, <2>2 DEF Persist
    <3> QED
      BY <1>0, <3>1 DEF ScanTypes, Exported
  <2> QED
    BY <2>1, <2>2
<1>5. ASSUME NEW b \in Bridges, NEW t \in Sessions, GetSessionFile(b, t) PROVE FALSE
  <2>1. PICK log, records : export' = [export EXCEPT ![t] = Exported(log, records)]
    BY <1>5 DEF GetSessionFile
  <2> QED
    BY <1>0, <2>1 DEF ScanTypes, Exported
<1>6. ASSUME NEW t \in Sessions, ScanWrites(t) PROVE FALSE
  <2>1. CASE native[t].side
    BY <1>6, <2>1 DEF ScanWrites
  <2>2. CASE ~native[t].side
    <3>1. PICK log, records : export' = [export EXCEPT ![t] = Exported(log, records)]
      BY <1>6, <2>2 DEF ScanWrites
    <3> QED
      BY <1>0, <3>1 DEF ScanTypes, Exported
  <2> QED
    BY <2>1, <2>2
<1>7. CASE NativeStep \/ Crash \/ (\E t \in Sessions : CrashInPersist(t)) \/ UNCHANGED vars
  <2>1. export' = export
    BY <1>7 DEF NativeStep, NativeBecomes, NativeGoesOn, Crash, CrashInPersist, vars, diskVars
  <2> QED
    BY <1>1, <2>1
<1>8. CASE BridgeCall
  <2>1. \A b \in Bridges, t \in Sessions : Load(b, t) => export' = export
    BY DEF Load, diskVars
  <2> QED
    BY <1>1, <1>3, <1>4, <1>5, <1>8, <2>1 DEF BridgeCall
<1>9. CASE ScanStep
  <2>1. /\ \A b \in Bridges : ScanBegins(b) => export' = export
        /\ ScanLists \/ ScanFails => export' = export
        /\ \A t \in Sessions : ScanReads(t) \/ ScanCloses(t) => export' = export
    BY DEF ScanBegins, ScanLists, ScanFails, ScanReads, ScanCloses, diskVars
  <2> QED
    BY <1>1, <1>2, <1>6, <1>9, <2>1 DEF ScanStep
<1> QED
  BY <1>7, <1>8, <1>9 DEF Next

\* No step ever unlinks the export of a session that can still be resumed,
\* whatever else fails (exportStoredSessions(), discardArchive()).
THEOREM OnlyGoneRetired == Spec => RetiredOnlyWhenGone
<1>1. ScanInv /\ [Next]_vars =>
        [\A s \in Sessions : (export[s].there /\ ~export'[s].there) => Gone(s) \/ native[s].side]_vars
  BY RetiringStep
<1> QED
  BY <1>1, ScanInit, ScanNext, PTL DEF Spec, RetiredOnlyWhenGone

-----------------------------------------------------------------------------
(* What the bridges show: ShownInv.                                        *)

\* The records of a file have the order of its lines: load() reads them so.
LEMMA ParsedInOrder ==
  ASSUME NEW file, file.lines \in Seq(Line)
  PROVE  \E n \in Nat : \E at \in [1 .. n -> 1 .. Len(file.lines)] :
           /\ Parsed(file) = [k \in 1 .. n |-> file.lines[at[k]]]
           /\ \A k \in 1 .. n : file.lines[at[k]] \in Records
           /\ \A k, m \in 1 .. n : k < m => at[k] < at[m]
<1> DEFINE read    == {i \in DOMAIN file.lines : file.lines[i] \in Records}
           UpTo(i) == {j \in read : j <= i}
           n       == Cardinality(read)
           rank    == [i \in read |-> Cardinality(UpTo(i))]
           at      == [k \in 1 .. n |-> CHOOSE i \in read : Cardinality(UpTo(i)) = k]
<1>1. /\ DOMAIN file.lines = 1 .. Len(file.lines) /\ Len(file.lines) \in Nat
      /\ read \in SUBSET (1 .. Len(file.lines)) /\ \A i \in read : i \in Nat /\ file.lines[i] \in Records
  OBVIOUS
<1>2. IsFiniteSet(read) /\ n \in Nat /\ IsFiniteSet(1 .. n) /\ Cardinality(1 .. n) = n
  <2> HIDE DEF read
  <2>1. IsFiniteSet(read)
    <3>1. IsFiniteSet(1 .. Len(file.lines))
      BY <1>1, FS_Interval
    <3> QED
      BY <1>1, <3>1, FS_Subset
  <2>2. n \in Nat
    BY <2>1, FS_CardinalityType
  <2> HIDE DEF n
  <2> QED
    BY <2>1, <2>2, FS_Interval
<1>3. Parsed(file) = [k \in 1 .. n |-> file.lines[CHOOSE i \in read : Cardinality(UpTo(i)) = k]]
  BY Zenon DEF Parsed
<1> HIDE DEF read
<1>4. \A i \in read : IsFiniteSet(UpTo(i)) /\ Cardinality(UpTo(i)) \in 1 .. n
  <2> SUFFICES ASSUME NEW i \in read PROVE IsFiniteSet(UpTo(i)) /\ Cardinality(UpTo(i)) \in 1 .. n
    OBVIOUS
  <2>1. UpTo(i) \in SUBSET read /\ i \in UpTo(i)
    BY <1>1
  <2> HIDE DEF UpTo
  <2>2. IsFiniteSet(UpTo(i)) /\ Cardinality(UpTo(i)) <= n
    BY <1>2, <2>1, FS_Subset
  <2>3. Cardinality(UpTo(i)) \in Nat /\ Cardinality(UpTo(i)) # 0
    BY <2>1, <2>2, FS_CardinalityType, FS_EmptySet
  <2> QED
    BY <1>2, <2>2, <2>3
<1>5. \A i, j \in read : i < j => Cardinality(UpTo(i)) < Cardinality(UpTo(j))
  <2> SUFFICES ASSUME NEW i \in read, NEW j \in read, i < j PROVE Cardinality(UpTo(i)) < Cardinality(UpTo(j))
    OBVIOUS
  <2>1. UpTo(i) \in SUBSET UpTo(j) /\ j \in UpTo(j) /\ j \notin UpTo(i)
    <3>1. \A k \in read : k <= i => k <= j
      BY <1>1
    <3>2. j <= j /\ ~(j <= i)
      BY <1>1
    <3> QED
      BY <3>1, <3>2
  <2>2. IsFiniteSet(UpTo(j)) /\ Cardinality(UpTo(i)) \in 1 .. n /\ Cardinality(UpTo(j)) \in 1 .. n
    BY <1>4
  <2> HIDE DEF UpTo
  <2>3. Cardinality(UpTo(i)) <= Cardinality(UpTo(j)) /\ Cardinality(UpTo(i)) # Cardinality(UpTo(j))
    BY <2>1, <2>2, FS_Subset
  <2> QED
    BY <1>2, <2>2, <2>3
<1>6. \A k \in 1 .. n : \E i \in read : rank[i] = k
  <2>1. rank \in [read -> 1 .. n]
    BY <1>4
  <2>2. ASSUME NEW i \in read, NEW j \in read, rank[i] = rank[j] PROVE i = j
    <3>1. ~(i < j) /\ ~(j < i)
      <4>1. Cardinality(UpTo(i)) = Cardinality(UpTo(j))
        BY <2>2
      <4>2. Cardinality(UpTo(i)) \in 1 .. n /\ Cardinality(UpTo(j)) \in 1 .. n
        BY <1>4
      <4>3. /\ i < j => Cardinality(UpTo(i)) < Cardinality(UpTo(j))
            /\ j < i => Cardinality(UpTo(j)) < Cardinality(UpTo(i))
        BY <1>5
      <4> HIDE DEF rank, UpTo, n
      <4> QED
        BY <1>2, <4>1, <4>2, <4>3
    <3> QED
      BY <1>1, <3>1
  <2>3. rank \in Surjection(read, 1 .. n)
    <3>1. rank \in Injection(read, 1 .. n)
      <4> HIDE DEF rank
      <4> QED
        BY <2>1, <2>2 DEF Injection, IsInjective
    <3> QED
      BY <1>2, <3>1, FS_Injection
  <2> QED
    BY <2>3 DEF Surjection
<1>7. \A k \in 1 .. n : at[k] \in read /\ Cardinality(UpTo(at[k])) = k
  <2> SUFFICES ASSUME NEW k \in 1 .. n PROVE at[k] \in read /\ Cardinality(UpTo(at[k])) = k
    OBVIOUS
  <2>1. \E i \in read : Cardinality(UpTo(i)) = k
    BY <1>6
  <2>2. at[k] = CHOOSE i \in read : Cardinality(UpTo(i)) = k
    OBVIOUS
  <2> HIDE DEF at, UpTo
  <2> QED
    BY <2>1, <2>2, Zenon
<1>8. Parsed(file) = [k \in 1 .. n |-> file.lines[at[k]]]
  BY <1>3, Zenon
<1> HIDE DEF at, UpTo
<1>9. ASSUME NEW k \in 1 .. n, NEW m \in 1 .. n, k < m PROVE at[k] < at[m]
  <2>1. at[m] < at[k] => Cardinality(UpTo(at[m])) < Cardinality(UpTo(at[k]))
    BY <1>5, <1>7
  <2>2. at[k] \in Nat /\ at[m] \in Nat /\ k \in Nat /\ m \in Nat
    <3>1. at[k] \in read /\ at[m] \in read
      BY <1>7
    <3> HIDE DEF n
    <3>2. at[k] \in Nat /\ at[m] \in Nat
      BY <1>1, <3>1, Zenon
    <3>3. k \in Nat /\ m \in Nat
      BY <1>2
    <3> QED
      BY <3>2, <3>3
  <2>3. ~(m < k) /\ k # m
    BY <1>9, <2>2
  <2>4. Cardinality(UpTo(at[k])) = k /\ Cardinality(UpTo(at[m])) = m
    BY <1>7
  <2> HIDE DEF n
  <2>5. ~(at[m] < at[k]) /\ at[k] # at[m]
    BY <2>1, <2>3, <2>4
  <2> QED
    BY <2>2, <2>5
<1>10. at \in [1 .. n -> 1 .. Len(file.lines)] /\ \A k \in 1 .. n : file.lines[at[k]] \in Records
  <2>1. \A k \in 1 .. n : at[k] \in 1 .. Len(file.lines) /\ file.lines[at[k]] \in Records
    BY <1>1, <1>7
  <2>2. at = [k \in 1 .. n |-> at[k]]
    BY DEF at
  <2> HIDE DEF n
  <2> QED
    BY <2>1, <2>2
<1> HIDE DEF n
<1> QED
  BY <1>2, <1>8, <1>9, <1>10

LEMMA RecordsAreNumbers == Records \subseteq Nat /\ Records \subseteq Line
  BY BoundsAssumption DEF Records, Line

\* Records are numbered as they are made: the numbers in q rise, up to n.
Rises(q) == \A i, j \in 1 .. Len(q) : i < j /\ q[i] \in Records /\ q[j] \in Records => q[i] < q[j]
Reaches(q, n) == \A i \in 1 .. Len(q) : q[i] \in Records => q[i] <= n

Fits(file, n) ==
  file \in [lines : Seq(Line), torn : BOOLEAN] /\ Rises(file.lines) /\ Reaches(file.lines, n)

\* The records q can be shown, where those in A may be and n have been made.
Shows(q, A, n) == q \in Seq(Records) /\ Rises(q) /\ Reaches(q, n) /\ ToSet(q) \subseteq A

\* What may be shown of s: of a session that is gone, whatever was remembered.
Known(s) == IF Gone(s) THEN Line ELSE ToSet(archive[s].lines) \cup acked[s]

ShownInv ==
  /\ TypeOK
  /\ \A s \in Sessions : Fits(archive[s], issued)
  /\ \A b \in Bridges, s \in Sessions : Shows(cache[b][s], Known(s), issued)

\* A file that is read can be shown.
LEMMA ParsedShows ==
  ASSUME NEW n \in Nat, NEW file, Fits(file, n)
  PROVE  Shows(Parsed(file), ToSet(file.lines) \cap Records, n)
<1>1. file.lines \in Seq(Line) /\ Rises(file.lines) /\ Reaches(file.lines, n)
  BY DEF Fits
<1>2. PICK m \in Nat : \E at \in [1 .. m -> 1 .. Len(file.lines)] :
        /\ Parsed(file) = [k \in 1 .. m |-> file.lines[at[k]]]
        /\ \A k \in 1 .. m : file.lines[at[k]] \in Records
        /\ \A k, l \in 1 .. m : k < l => at[k] < at[l]
  BY <1>1, ParsedInOrder
<1>3. PICK at \in [1 .. m -> 1 .. Len(file.lines)] :
        /\ Parsed(file) = [k \in 1 .. m |-> file.lines[at[k]]]
        /\ \A k \in 1 .. m : file.lines[at[k]] \in Records
        /\ \A k, l \in 1 .. m : k < l => at[k] < at[l]
  BY <1>2
<1> DEFINE q == Parsed(file)
<1>4. q \in [1 .. m -> Records] /\ \A k \in 1 .. m : q[k] = file.lines[at[k]]
  BY <1>3
<1> HIDE DEF q
<1>5. q \in Seq(Records) /\ Len(q) = m /\ DOMAIN q = 1 .. m
  BY <1>4
<1>6. Rises(q)
  <2> SUFFICES ASSUME NEW i \in 1 .. m, NEW j \in 1 .. m, i < j PROVE q[i] < q[j]
    BY <1>5 DEF Rises
  <2>1. at[i] \in 1 .. Len(file.lines) /\ at[j] \in 1 .. Len(file.lines) /\ at[i] < at[j]
    BY <1>3
  <2>2. file.lines[at[i]] < file.lines[at[j]]
    BY <1>1, <1>3, <2>1 DEF Rises
  <2> QED
    BY <1>4, <2>2
<1>7. Reaches(q, n)
  BY <1>1, <1>3, <1>4, <1>5 DEF Reaches
<1>8. ASSUME NEW r \in ToSet(q) PROVE r \in ToSet(file.lines) \cap Records
  <2>1. PICK k \in 1 .. m : r = q[k]
    BY <1>5, <1>8 DEF ToSet
  <2>2. DOMAIN file.lines = 1 .. Len(file.lines)
    BY <1>1
  <2> QED
    BY <1>3, <1>4, <2>1, <2>2 DEF ToSet
<1> QED
  BY <1>5, <1>6, <1>7, <1>8 DEF Shows, q

\* Another record may be put behind those that are shown.
LEMMA OneMoreShows ==
  ASSUME NEW n \in Nat, n + 1 \in Records, NEW q, NEW A, Shows(q, A, n)
  PROVE  Shows(Append(q, n + 1), A \cup {n + 1}, n + 1)
<1>1. q \in Seq(Records) /\ Rises(q) /\ Reaches(q, n) /\ ToSet(q) \subseteq A
  BY DEF Shows
<1> DEFINE p == Append(q, n + 1)
<1>2. /\ p \in Seq(Records) /\ Len(p) = Len(q) + 1 /\ Len(q) \in Nat /\ p[Len(q) + 1] = n + 1
      /\ \A i \in 1 .. Len(q) : p[i] = q[i] /\ q[i] \in Records
  BY <1>1
<1>3. \A i \in 1 .. Len(q) : q[i] \in Nat
  BY <1>2, RecordsAreNumbers
<1>4. \A i \in 1 .. Len(p) : i \in 1 .. Len(q) \/ i = Len(q) + 1
  BY <1>2
<1> HIDE DEF p
<1>5. \A i \in 1 .. Len(q) : q[i] <= n
  BY <1>1, <1>2 DEF Reaches
<1>6. Reaches(p, n + 1)
  <2> SUFFICES ASSUME NEW i \in 1 .. Len(p) PROVE p[i] <= n + 1
    BY DEF Reaches
  <2>1. CASE i \in 1 .. Len(q)
    BY <1>2, <1>5, <1>3, <2>1
  <2>2. CASE i = Len(q) + 1
    BY <1>2, <2>2
  <2> QED
    BY <1>4, <2>1, <2>2
<1>7. Rises(p)
  <2> SUFFICES ASSUME NEW i \in 1 .. Len(p), NEW j \in 1 .. Len(p), i < j PROVE p[i] < p[j]
    BY DEF Rises
  <2>1. i \in 1 .. Len(q)
    BY <1>2
  <2>2. CASE j \in 1 .. Len(q)
    BY <1>1, <1>2, <2>1, <2>2 DEF Rises
  <2>3. CASE j = Len(q) + 1
    BY <1>2, <1>5, <1>3, <2>1, <2>3
  <2> QED
    BY <1>4, <2>2, <2>3
<1>8. ASSUME NEW r \in ToSet(p) PROVE r \in A \cup {n + 1}
  <2>1. DOMAIN p = 1 .. Len(p) /\ DOMAIN q = 1 .. Len(q)
    BY <1>1, <1>2
  <2>2. PICK i \in 1 .. Len(p) : r = p[i]
    BY <1>8, <2>1 DEF ToSet
  <2>3. CASE i \in 1 .. Len(q)
    BY <1>1, <1>2, <2>1, <2>2, <2>3 DEF ToSet
  <2>4. CASE i = Len(q) + 1
    BY <1>2, <2>2, <2>4
  <2> QED
    BY <1>4, <2>3, <2>4
<1> QED
  BY <1>2, <1>6, <1>7, <1>8 DEF Shows, p

\* What can be shown can be shown later.
LEMMA ShowsStill ==
  ASSUME NEW n \in Nat, NEW m \in Nat, n <= m, NEW q, NEW A, NEW B, A \subseteq B, Shows(q, A, n)
  PROVE  Shows(q, B, m)
<1>1. \A i \in 1 .. Len(q) : q[i] \in Nat
  <2>1. \A i \in 1 .. Len(q) : q[i] \in Records
    BY DEF Shows
  <2> QED
    BY <2>1, RecordsAreNumbers
<1>2. Reaches(q, m)
  BY <1>1 DEF Shows, Reaches
<1> QED
  BY <1>2 DEF Shows

\* What was in the file is in the longer one.
LEMMA LineFits ==
  ASSUME NEW n \in Nat, NEW m \in Nat, n <= m, NEW file, Fits(file, n), NEW line \in Line,
         line \in Records => n < line /\ line <= m
  PROVE  Fits(AppendLine(file, line), m) /\ ToSet(file.lines) \subseteq ToSet(AppendLine(file, line).lines)
<1> DEFINE added == IF file.torn THEN Junk ELSE line
           p     == Append(file.lines, added)
           q     == file.lines
<1>1. /\ q \in Seq(Line) /\ file.torn \in BOOLEAN /\ Rises(q) /\ Reaches(q, n)
  BY DEF Fits
<1>2. added \in Line /\ (added \in Records => n < added /\ added <= m)
  BY <1>1, BoundsAssumption DEF Line, Junk, Records
<1>3. AppendLine(file, line) = [lines |-> p, torn |-> FALSE]
  BY DEF AppendLine
<1> HIDE DEF added, q
<1>4. /\ p = Append(q, added) /\ p \in Seq(Line) /\ Len(p) = Len(q) + 1 /\ Len(q) \in Nat
      /\ p[Len(q) + 1] = added /\ \A i \in 1 .. Len(q) : p[i] = q[i] /\ q[i] \in Line
      /\ DOMAIN p = 1 .. Len(p) /\ DOMAIN q = 1 .. Len(q)
  BY <1>1, <1>2 DEF q
<1>5. \A i \in 1 .. Len(p) : i \in 1 .. Len(q) \/ i = Len(q) + 1
  BY <1>4
<1> HIDE DEF p
<1>6. \A i \in 1 .. Len(q) : q[i] \in Records => q[i] <= n /\ q[i] \in Nat
  BY <1>1, RecordsAreNumbers DEF Reaches
<1>7. Reaches(p, m)
  <2> SUFFICES ASSUME NEW i \in 1 .. Len(p), p[i] \in Records PROVE p[i] <= m
    BY DEF Reaches
  <2>1. CASE i \in 1 .. Len(q)
    BY <1>4, <1>6, <2>1
  <2>2. CASE i = Len(q) + 1
    BY <1>2, <1>4, <2>2
  <2> QED
    BY <1>5, <2>1, <2>2
<1>8. Rises(p)
  <2> SUFFICES ASSUME NEW i \in 1 .. Len(p), NEW j \in 1 .. Len(p), i < j, p[i] \in Records, p[j] \in Records
               PROVE  p[i] < p[j]
    BY DEF Rises
  <2>1. i \in 1 .. Len(q)
    BY <1>4
  <2>2. CASE j \in 1 .. Len(q)
    BY <1>1, <1>4, <2>1, <2>2 DEF Rises
  <2>3. CASE j = Len(q) + 1
    <3>1. q[i] <= n /\ q[i] \in Nat /\ p[i] = q[i]
      BY <1>4, <1>6, <2>1
    <3>2. p[j] = added /\ n < added /\ added \in Nat
      BY <1>2, <1>4, <2>3, RecordsAreNumbers
    <3> QED
      BY <3>1, <3>2
  <2> QED
    BY <1>5, <2>2, <2>3
<1>9. ToSet(q) \subseteq ToSet(p)
  BY <1>4 DEF ToSet
<1>10. AppendLine(file, line).lines = p /\ AppendLine(file, line) \in [lines : Seq(Line), torn : BOOLEAN]
  BY <1>3, <1>4
<1> QED
  BY <1>7, <1>8, <1>9, <1>10 DEF Fits, q

LEMMA HeaderFits ==
  ASSUME NEW n \in Nat, NEW file, Fits(file, n)
  PROVE  Fits(WithHeader(file), n) /\ ToSet(file.lines) \subseteq ToSet(WithHeader(file).lines)
<1>1. Header \in Line /\ Header \notin Records
  BY DEF Header, Line, Records
<1>2. CASE NeedsHeader(file)
  BY <1>1, <1>2, LineFits DEF WithHeader
<1>3. CASE ~NeedsHeader(file)
  BY <1>3 DEF WithHeader
<1> QED
  BY <1>2, <1>3

\* The header, and the next record.
LEMMA WrittenFits ==
  ASSUME NEW n \in Nat, n + 1 \in Records, NEW file, Fits(file, n)
  PROVE  LET new == AppendLine(WithHeader(file), n + 1) IN
           Fits(new, n + 1) /\ ToSet(file.lines) \subseteq ToSet(new.lines)
<1> DEFINE begun == WithHeader(file)
<1>1. Fits(begun, n) /\ ToSet(file.lines) \subseteq ToSet(begun.lines)
  BY HeaderFits
<1> HIDE DEF begun
<1>2. n + 1 \in Line /\ n + 1 \in Nat /\ n < n + 1 /\ n <= n + 1 /\ n + 1 <= n + 1
  BY RecordsAreNumbers
<1>3. Fits(AppendLine(begun, n + 1), n + 1) /\ ToSet(begun.lines) \subseteq ToSet(AppendLine(begun, n + 1).lines)
  BY <1>1, <1>2, LineFits
<1> QED
  BY <1>1, <1>3 DEF begun

\* A file of so many records is one of more.
LEMMA FitsStill ==
  ASSUME NEW n \in Nat, NEW m \in Nat, n <= m, NEW file, Fits(file, n)
  PROVE  Fits(file, m)
<1>1. \A i \in 1 .. Len(file.lines) : file.lines[i] \in Records => file.lines[i] <= n /\ file.lines[i] \in Nat
  BY RecordsAreNumbers DEF Fits, Reaches
<1>2. Reaches(file.lines, m)
  BY <1>1 DEF Reaches
<1> QED
  BY <1>2 DEF Fits

\* Part of a line is no line.
LEMMA PartFits ==
  ASSUME NEW n \in Nat, NEW file, Fits(file, n)
  PROVE  Fits(AppendPart(file), n) /\ AppendPart(file).lines = file.lines
  BY DEF Fits, AppendPart

LEMMA MembersIn ==
  ASSUME NEW S, NEW q \in Seq(S) PROVE ToSet(q) \subseteq S
  BY DEF ToSet

\* What load() gives can be shown, whether it is remembered or read again.
LEMMA FoundShows ==
  ASSUME ShownInv, NEW b \in Bridges, NEW s \in Sessions
  PROVE  Shows(RecordsFor(b, s), Known(s), issued)
<1>1. issued \in Nat /\ Fits(archive[s], issued) /\ Shows(cache[b][s], Known(s), issued)
  BY BoundsAssumption DEF ShownInv, TypeOK
<1>2. ToSet(archive[s].lines) \cap Records \subseteq Known(s)
  BY RecordsAreNumbers DEF Known
<1>3. Shows(Parsed(archive[s]), ToSet(archive[s].lines) \cap Records, issued)
  BY <1>1, ParsedShows
<1>4. Shows(Parsed(archive[s]), Known(s), issued)
  BY <1>1, <1>2, <1>3, ShowsStill
<1> QED
  BY <1>1, <1>4 DEF RecordsFor

\* A session goes on as what it is, or further.
SessionsLast == \A s \in Sessions : Gone(s) => Gone(s)'

\* A step keeps the invariant if it forgets no record and shows what can be shown.
LEMMA ShownStill ==
  ASSUME ShownInv, TypeOK', issued <= issued', SessionsLast,
         \A s \in Sessions : Fits(archive'[s], issued'),
         \A s \in Sessions : Gone(s)' \/ (/\ ToSet(archive[s].lines) \subseteq ToSet(archive'[s].lines)
                                          /\ acked[s] \subseteq acked'[s]),
         \A b \in Bridges, s \in Sessions :
           cache'[b][s] \in {cache[b][s], <<>>} \/ Shows(cache'[b][s], Known(s)', issued')
  PROVE  ShownInv'
<1>1. issued \in Nat /\ issued' \in Nat
  BY BoundsAssumption DEF ShownInv, TypeOK
<1>2. ASSUME NEW b \in Bridges, NEW s \in Sessions PROVE Shows(cache'[b][s], Known(s)', issued')
  <2>1. CASE cache'[b][s] = cache[b][s]
    <3>1. ToSet(archive[s].lines) \cup acked[s] \subseteq Line
      <4>1. archive[s].lines \in Seq(Line) /\ acked[s] \subseteq Records
        BY DEF ShownInv, TypeOK
      <4> QED
        BY <4>1, RecordsAreNumbers, MembersIn
    <3>2. Known(s) \subseteq Known(s)'
      BY <3>1 DEF Known, SessionsLast
    <3>3. Shows(cache[b][s], Known(s), issued)
      BY DEF ShownInv
    <3> QED
      BY <1>1, <2>1, <3>2, <3>3, ShowsStill
  <2>2. CASE cache'[b][s] = <<>>
    <3>1. <<>> \in Seq(Records) /\ Len(<<>>) = 0 /\ ToSet(<<>>) = {}
      BY DEF ToSet
    <3>2. Shows(<<>>, Known(s)', issued')
      BY <3>1 DEF Shows, Rises, Reaches
    <3> QED
      BY <2>2, <3>2
  <2> QED
    BY <2>1, <2>2
<1> QED
  BY <1>2 DEF ShownInv

\* One bridge remembers q of one session.
Remembers(b, s, q) ==
  /\ cache' \in [Bridges -> [Sessions -> Seq(Records)]] /\ cache'[b][s] = q
  /\ \A c \in Bridges, t \in Sessions : cache'[c][t] = cache[c][t] \/ (c = b /\ t = s)

LEMMA CacheSet ==
  ASSUME TypeOK, NEW b \in Bridges, NEW s \in Sessions, NEW q \in Seq(Records),
         cache' = [cache EXCEPT ![b][s] = q]
  PROVE  Remembers(b, s, q)
<1>1. cache \in [Bridges -> [Sessions -> Seq(Records)]]
  BY DEF TypeOK
<1> QED
  BY <1>1 DEF Remembers

LEMMA WatchSet ==
  ASSUME TypeOK, NEW b \in Bridges, NEW s \in Sessions,
         NEW w \in [kind : {"none", "live", "stored"}, log : 0 .. MaxLog],
         watched' = [watched EXCEPT ![b][s] = w]
  PROVE  watched' \in [Bridges -> [Sessions -> [kind : {"none", "live", "stored"}, log : 0 .. MaxLog]]]
  BY DEF TypeOK

\* What is exported.
LEMMA ExportTyped ==
  ASSUME NEW log \in 0 .. MaxLog, NEW q \in Seq(Records)
  PROVE  Exported(log, q) \in [there : BOOLEAN, log : 0 .. MaxLog, records : SUBSET Records]
<1>1. ToSet(q) \subseteq Records
  BY MembersIn
<1> QED
  BY <1>1 DEF Exported

LEMMA Nothing ==
  /\ 0 \in 0 .. MaxLog /\ NoFile \in [there : BOOLEAN, log : 0 .. MaxLog, records : SUBSET Records]
  /\ Unwatched \in [kind : {"none", "live", "stored"}, log : 0 .. MaxLog]
  /\ NoScan \in [phase : {"idle", "listing", "next", "writing", "closing", "done"}, by : SUBSET Bridges,
                 prior : SUBSET Sessions, gone : SUBSET Sessions, todo : SUBSET Sessions,
                 present : SUBSET Sessions, hidden : SUBSET Sessions, at : SUBSET Sessions, log : 0 .. MaxLog]
  /\ EmptyArchive \in [lines : Seq(Line), torn : BOOLEAN] /\ EmptyArchive.lines = <<>>
  /\ \A n \in Nat : Fits(EmptyArchive, n)
<1>1. 0 \in 0 .. MaxLog
  BY BoundsAssumption
<1>2. EmptyArchive \in [lines : Seq(Line), torn : BOOLEAN] /\ EmptyArchive.lines = <<>>
  BY DEF EmptyArchive
<1>3. Len(<<>>) = 0
  OBVIOUS
<1>4. \A n \in Nat : Fits(EmptyArchive, n)
  BY <1>2, <1>3 DEF Fits, Rises, Reaches
<1> QED
  BY <1>1, <1>2, <1>4 DEF NoFile, Unwatched, NoScan

\* The steps that leave the files of records and the bridges' memories alone.
LEMMA ShownUntouched ==
  ASSUME ShownInv, TypeOK', SessionsLast, UNCHANGED <<archive, cache, acked, issued>>
  PROVE  ShownInv'
<1>1. issued \in Nat
  BY BoundsAssumption DEF ShownInv, TypeOK
<1> QED
  BY <1>1, ShownStill DEF ShownInv

Described == [state : {"absent", "live", "stored", "deleted"}, side : BOOLEAN, log : 0 .. MaxLog]

\* One session becomes something else, other than deleted before.
LEMMA NativeSet ==
  ASSUME TypeOK, NEW s \in Sessions, NEW r \in Described, native' = [native EXCEPT ![s] = r],
         native[s].state # "deleted"
  PROVE  native' \in [Sessions -> Described] /\ SessionsLast
<1>1. native \in [Sessions -> Described]
  BY DEF TypeOK, Described
<1>2. native' \in [Sessions -> Described]
  BY <1>1
<1>3. \A t \in Sessions : t # s => native'[t] = native[t]
  BY <1>1
<1>4. SessionsLast
  BY <1>3 DEF SessionsLast, Gone
<1> QED
  BY <1>2, <1>4

\* The steps of DSH.
LEMMA ShownNative == ShownInv /\ NativeStep => ShownInv'
<1> SUFFICES ASSUME ShownInv, NEW s \in Sessions,
                    \/ NativeBecomes(s, {"absent", "stored"}, "live")
                    \/ NativeBecomes(s, {"live"}, "stored")
                    \/ NativeBecomes(s, {"stored"}, "deleted")
                    \/ NativeGoesOn(s)
             PROVE  ShownInv'
  BY DEF NativeStep
<1>1. UNCHANGED <<archive, export, cache, loaded, watched, scan, acked, issued, crashes>>
  BY DEF NativeBecomes, NativeGoesOn, diskVars, bridgeVars, countVars
<1>2. native' \in [Sessions -> Described] /\ SessionsLast
  <2>1. TypeOK /\ MaxLog \in Nat
    BY BoundsAssumption DEF ShownInv
  <2>2. native[s] \in Described
    BY <2>1 DEF TypeOK, Described
  <2>3. ASSUME NEW from \in SUBSET {"absent", "live", "stored"}, NEW to \in {"live", "stored", "deleted"},
               NativeBecomes(s, from, to)
        PROVE  native' \in [Sessions -> Described] /\ SessionsLast
    <3> DEFINE r == [native[s] EXCEPT !.state = to]
    <3>1. native' = [native EXCEPT ![s] = r] /\ native[s].state # "deleted"
      BY <2>3 DEF NativeBecomes
    <3>2. r \in Described
      BY <2>2 DEF Described
    <3> QED
      BY <2>1, <3>1, <3>2, NativeSet
  <2>4. CASE NativeGoesOn(s)
    <3> DEFINE r == [native[s] EXCEPT !.log = @ + 1]
    <3>1. native' = [native EXCEPT ![s] = r] /\ native[s].state = "live" /\ native[s].log < MaxLog
      BY <2>4 DEF NativeGoesOn
    <3>2. r \in Described
      BY <2>1, <2>2, <3>1 DEF Described
    <3> QED
      BY <2>1, <3>1, <3>2, NativeSet
  <2> QED
    BY <2>3, <2>4
<1>3. TypeOK'
  BY <1>1, <1>2 DEF TypeOK, Described, ShownInv
<1> QED
  BY <1>1, <1>2, <1>3, ShownUntouched

\* A bridge loads, and may export, what can be shown.
LEMMA ShownLoads ==
  ASSUME ShownInv, TypeOK', NEW b \in Bridges, NEW s \in Sessions, UNCHANGED <<native, archive, acked, issued>>,
         cache' = [cache EXCEPT ![b][s] = RecordsFor(b, s)]
  PROVE  ShownInv'
<1> DEFINE known == RecordsFor(b, s)
<1>1. issued \in Nat /\ TypeOK
  BY BoundsAssumption DEF ShownInv, TypeOK
<1>2. Shows(known, Known(s), issued)
  BY FoundShows
<1>3. issued \in Nat /\ TypeOK /\ Shows(known, Known(s), issued) /\ known \in Seq(Records)
  BY <1>1, <1>2 DEF Shows
<1>4. cache' = [cache EXCEPT ![b][s] = known]
  OBVIOUS
<1> HIDE DEF known
<1>5. Remembers(b, s, known)
  BY <1>3, <1>4, CacheSet
<1>6. SessionsLast /\ Known(s)' = Known(s)
  BY DEF SessionsLast, Gone, Known
<1>7. \A c \in Bridges, t \in Sessions :
        cache'[c][t] \in {cache[c][t], <<>>} \/ Shows(cache'[c][t], Known(t)', issued')
  BY <1>3, <1>5, <1>6 DEF Remembers
<1>8. \A t \in Sessions : Fits(archive'[t], issued')
  BY DEF ShownInv
<1> QED
  BY <1>3, <1>6, <1>7, <1>8, ShownStill

\* The calls of a bridge.
LEMMA ShownBridge ==
  ASSUME ShownInv, NEW b \in Bridges, NEW s \in Sessions,
         Load(b, s) \/ Persist(b, s) \/ GetSessionFile(b, s) \/ DiscardArchive(b, s)
  PROVE  ShownInv'
<1> DEFINE known == RecordsFor(b, s)
<1>1. issued \in Nat /\ TypeOK
  BY BoundsAssumption DEF ShownInv, TypeOK
<1>2. Shows(known, Known(s), issued)
  BY FoundShows
<1>3. TypeOK /\ issued \in Nat /\ known \in Seq(Records) /\ Shows(known, Known(s), issued)
  BY <1>1, <1>2 DEF Shows
<1> HIDE DEF known
<1>4. CASE Load(b, s)
  <2>1. /\ UNCHANGED <<native, archive, export, watched, scan, acked, issued, crashes>>
        /\ cache' = [cache EXCEPT ![b][s] = known] /\ loaded' = [loaded EXCEPT ![b] = @ \cup {s}]
    BY <1>4 DEF Load, diskVars, countVars, known
  <2>2. Remembers(b, s, known)
    BY <1>3, <2>1, CacheSet
  <2>3. TypeOK'
    <3>1. loaded' \in [Bridges -> SUBSET Sessions]
      BY <1>3, <2>1 DEF TypeOK
    <3> QED
      BY <1>3, <2>1, <2>2, <3>1 DEF TypeOK, Remembers
  <2> QED
    BY <2>1, <2>3, ShownLoads DEF known
<1>5. CASE GetSessionFile(b, s)
  <2>1. /\ UNCHANGED <<native, archive, scan, acked, issued, crashes>>
        /\ watched' = [watched EXCEPT ![b][s] = [kind |-> "live", log |-> 0]]
        /\ cache' = [cache EXCEPT ![b][s] = known] /\ loaded' = [loaded EXCEPT ![b] = @ \cup {s}]
        /\ export' = [export EXCEPT ![s] = Exported(native[s].log, known)]
    BY <1>5 DEF GetSessionFile, countVars, known
  <2>2. Remembers(b, s, known)
    BY <1>3, <2>1, CacheSet
  <2>3. TypeOK'
    <3>1. loaded' \in [Bridges -> SUBSET Sessions]
      BY <1>3, <2>1 DEF TypeOK
    <3>2. watched' \in [Bridges -> [Sessions -> [kind : {"none", "live", "stored"}, log : 0 .. MaxLog]]]
      <4>1. [kind |-> "live", log |-> 0] \in [kind : {"none", "live", "stored"}, log : 0 .. MaxLog]
        BY Nothing
      <4> QED
        BY <1>3, <2>1, <4>1, WatchSet
    <3>3. native[s].log \in 0 .. MaxLog
      BY <1>3 DEF TypeOK
    <3>4. Exported(native[s].log, known) \in [there : BOOLEAN, log : 0 .. MaxLog, records : SUBSET Records]
      BY <1>3, <3>3, ExportTyped
    <3>5. export' \in [Sessions -> [there : BOOLEAN, log : 0 .. MaxLog, records : SUBSET Records]]
      BY <1>3, <2>1, <3>4 DEF TypeOK
    <3> QED
      BY <1>3, <2>1, <2>2, <3>1, <3>2, <3>5 DEF TypeOK, Remembers
  <2> QED
    BY <2>1, <2>3, ShownLoads DEF known
<1>6. CASE Persist(b, s)
  <2> DEFINE r       == issued + 1
             records == Append(known, r)
             file    == AppendLine(WithHeader(archive[s]), r)
             source  == watched[b][s]
             upto    == IF source.kind = "live" THEN native[s].log ELSE source.log
  <2>1. /\ UNCHANGED <<native, watched, scan, crashes>> /\ ~Gone(s)
        /\ issued < MaxRecords /\ issued' = r /\ acked' = [acked EXCEPT ![s] = @ \cup {r}]
        /\ cache' = [cache EXCEPT ![b][s] = records] /\ loaded' = [loaded EXCEPT ![b] = @ \cup {s}]
        /\ archive' = [archive EXCEPT ![s] = file]
        /\ export' = export \/ export' = [export EXCEPT ![s] = Exported(upto, records)]
    BY <1>6 DEF Persist, Gone, known
  <2>2. r \in Records /\ r \in Nat /\ r \in 0 .. MaxRecords /\ issued <= r
    BY <1>3, <2>1, BoundsAssumption DEF Records
  <2>3. /\ Shows(records, Known(s) \cup {r}, r) /\ records \in Seq(Records)
        /\ Fits(file, r) /\ ToSet(archive[s].lines) \subseteq ToSet(file.lines)
    BY <1>3, <2>2, OneMoreShows, WrittenFits DEF Shows, ShownInv
  <2>4. upto \in 0 .. MaxLog
    BY <1>3 DEF TypeOK
  <2> HIDE DEF records, file, upto, r
  <2>5. /\ file \in [lines : Seq(Line), torn : BOOLEAN]
        /\ archive' \in [Sessions -> [lines : Seq(Line), torn : BOOLEAN]] /\ archive'[s] = file
        /\ \A t \in Sessions : t # s => archive'[t] = archive[t]
        /\ acked' \in [Sessions -> SUBSET Records] /\ acked'[s] = acked[s] \cup {r}
        /\ \A t \in Sessions : t # s => acked'[t] = acked[t]
    BY <1>3, <2>1, <2>2, <2>3 DEF Fits, TypeOK
  <2>6. Remembers(b, s, records)
    BY <1>3, <2>1, <2>3, CacheSet
  <2>7. TypeOK'
    <3>1. loaded' \in [Bridges -> SUBSET Sessions]
      BY <1>3, <2>1 DEF TypeOK
    <3>2. export' \in [Sessions -> [there : BOOLEAN, log : 0 .. MaxLog, records : SUBSET Records]]
      <4>1. Exported(upto, records) \in [there : BOOLEAN, log : 0 .. MaxLog, records : SUBSET Records]
        BY <2>3, <2>4, ExportTyped
      <4> QED
        BY <1>3, <2>1, <4>1 DEF TypeOK
    <3> QED
      BY <1>3, <2>1, <2>2, <2>5, <2>6, <3>1, <3>2 DEF TypeOK, Remembers
  <2>8. SessionsLast /\ ~Gone(s)' /\ ~Gone(s)
    BY <2>1 DEF SessionsLast, Gone
  <2>9. Shows(records, Known(s)', issued')
    <3>1. Known(s) \cup {r} \subseteq Known(s)'
      BY <2>3, <2>5, <2>8 DEF Known
    <3>2. r \in Nat /\ r <= r
      BY <2>2
    <3> QED
      BY <2>1, <2>3, <3>1, <3>2, ShowsStill
  <2>10. \A t \in Sessions : /\ Fits(archive'[t], issued')
                             /\ ToSet(archive[t].lines) \subseteq ToSet(archive'[t].lines)
                             /\ acked[t] \subseteq acked'[t]
    <3> SUFFICES ASSUME NEW t \in Sessions
                 PROVE  /\ Fits(archive'[t], issued')
                        /\ ToSet(archive[t].lines) \subseteq ToSet(archive'[t].lines)
                        /\ acked[t] \subseteq acked'[t]
      OBVIOUS
    <3>1. CASE t = s
      BY <2>1, <2>3, <2>5, <3>1
    <3>2. CASE t # s
      <4>1. Fits(archive[t], r)
        BY <1>3, <2>2, FitsStill DEF ShownInv
      <4> QED
        BY <2>1, <2>5, <3>2, <4>1
    <3> QED
      BY <3>1, <3>2
  <2>11. \A c \in Bridges, t \in Sessions :
           cache'[c][t] \in {cache[c][t], <<>>} \/ Shows(cache'[c][t], Known(t)', issued')
    BY <2>6, <2>9 DEF Remembers
  <2>12. issued <= issued'
    BY <2>1, <2>2
  <2> QED
    BY <2>7, <2>8, <2>10, <2>11, <2>12, ShownStill
<1>7. CASE DiscardArchive(b, s)
  <2>1. /\ UNCHANGED <<native, scan, acked, issued, crashes>> /\ Gone(s)
        /\ archive' = [archive EXCEPT ![s] = EmptyArchive] /\ export' = [export EXCEPT ![s] = NoFile]
        /\ cache' = [cache EXCEPT ![b][s] = <<>>] /\ loaded' = [loaded EXCEPT ![b] = @ \ {s}]
        /\ watched' = [watched EXCEPT ![b][s] = Unwatched]
    BY <1>7 DEF DiscardArchive, countVars, Gone
  <2>2. /\ archive' \in [Sessions -> [lines : Seq(Line), torn : BOOLEAN]] /\ archive'[s] = EmptyArchive
        /\ \A t \in Sessions : t # s => archive'[t] = archive[t]
        /\ export' \in [Sessions -> [there : BOOLEAN, log : 0 .. MaxLog, records : SUBSET Records]]
        /\ loaded' \in [Bridges -> SUBSET Sessions]
    BY <1>3, <2>1, Nothing DEF TypeOK
  <2>3. watched' \in [Bridges -> [Sessions -> [kind : {"none", "live", "stored"}, log : 0 .. MaxLog]]]
    BY <1>3, <2>1, Nothing, WatchSet
  <2>4. Remembers(b, s, <<>>)
    <3>1. <<>> \in Seq(Records)
      OBVIOUS
    <3> QED
      BY <1>3, <2>1, <3>1, CacheSet
  <2>5. TypeOK'
    BY <1>3, <2>1, <2>2, <2>3, <2>4 DEF TypeOK, Remembers
  <2>6. \A t \in Sessions : Fits(archive'[t], issued')
    BY <1>3, <2>1, <2>2, Nothing DEF ShownInv
  <2>7. SessionsLast /\ Gone(s)'
    BY <2>1 DEF SessionsLast, Gone
  <2>8. \A t \in Sessions : Gone(t)' \/ (/\ ToSet(archive[t].lines) \subseteq ToSet(archive'[t].lines)
                                         /\ acked[t] \subseteq acked'[t])
    BY <2>1, <2>2, <2>7
  <2>9. \A c \in Bridges, t \in Sessions : cache'[c][t] \in {cache[c][t], <<>>}
    BY <2>4 DEF Remembers
  <2>10. issued <= issued'
    BY <1>3, <2>1
  <2> QED
    BY <2>5, <2>6, <2>7, <2>8, <2>9, <2>10, ShownStill
<1> QED
  BY <1>4, <1>5, <1>6, <1>7

ScanType == [phase : {"idle", "listing", "next", "writing", "closing", "done"}, by : SUBSET Bridges,
             prior : SUBSET Sessions, gone : SUBSET Sessions, todo : SUBSET Sessions,
             present : SUBSET Sessions, hidden : SUBSET Sessions, at : SUBSET Sessions, log : 0 .. MaxLog]

LEMMA ExportsTyped ==
  ASSUME TypeOK
  PROVE  \A s \in Sessions : export[s] \in [there : BOOLEAN, log : 0 .. MaxLog, records : SUBSET Records]
  BY DEF TypeOK

\* The scan of the stored sessions remembers, if anything, what it loads.
LEMMA ShownScan == ShownInv /\ ScanStep => ShownInv'
<1> SUFFICES ASSUME ShownInv, ScanStep PROVE ShownInv'
  OBVIOUS
<1>1. TypeOK /\ scan \in ScanType /\ MaxLog \in Nat
  BY BoundsAssumption DEF ShownInv, TypeOK, ScanType
<1>2. UNCHANGED <<native, archive, acked, issued, crashes>> /\ SessionsLast
  BY DEF ScanStep, ScanBegins, ScanLists, ScanFails, ScanEnds, ScanReads, ScanWrites, ScanCloses,
         diskVars, bridgeVars, countVars, SessionsLast, Gone
<1>3. ASSUME scan' \in ScanType, UNCHANGED <<export, cache, loaded, watched>> PROVE ShownInv'
  <2>1. TypeOK'
    BY <1>1, <1>2, <1>3 DEF TypeOK, ScanType
  <2> QED
    BY <1>2, <1>3, <2>1, ShownUntouched
<1>4. ASSUME NEW b \in Bridges, ScanBegins(b) PROVE ShownInv'
  <2>1. scan' \in ScanType
    BY <1>4, Nothing DEF ScanBegins, ScanType
  <2> QED
    BY <1>3, <1>4, <2>1 DEF ScanBegins, diskVars, bridgeVars
<1>5. CASE ScanLists
  <2>1. scan' \in ScanType
    BY <1>1, <1>5 DEF ScanLists, ScanType
  <2> QED
    BY <1>3, <1>5, <2>1 DEF ScanLists, diskVars, bridgeVars
<1>6. CASE ScanFails
  <2>1. scan' \in ScanType
    BY <1>6, Nothing DEF ScanFails, ScanType
  <2> QED
    BY <1>3, <1>6, <2>1 DEF ScanFails, diskVars, bridgeVars
<1>7. ASSUME NEW s \in Sessions, ScanReads(s) PROVE ShownInv'
  <2>1. native[s].log \in 0 .. MaxLog
    BY <1>1 DEF TypeOK
  <2>2. scan' \in ScanType
    BY <1>1, <1>7, <2>1 DEF ScanReads, ScanType
  <2> QED
    BY <1>3, <1>7, <2>2 DEF ScanReads, diskVars, bridgeVars
<1>8. CASE ScanEnds
  <2>1. UNCHANGED <<cache, loaded, watched>> /\ scan' = [NoScan EXCEPT !.phase = "done", !.gone = scan.gone]
    BY <1>8 DEF ScanEnds, bridgeVars
  <2>2. scan' \in ScanType
    BY <1>1, <2>1, Nothing DEF ScanType
  <2>3. export' \in [Sessions -> [there : BOOLEAN, log : 0 .. MaxLog, records : SUBSET Records]]
    <3>1. export' = [s \in Sessions |->
                       IF s \in scan.prior /\ (s \notin scan.present \/ s \in scan.hidden)
                       THEN NoFile ELSE export[s]]
      BY <1>8 DEF ScanEnds
    <3> QED
      BY <1>1, <3>1, ExportsTyped, Nothing
  <2>4. TypeOK'
    BY <1>1, <1>2, <2>1, <2>2, <2>3 DEF TypeOK, ScanType
  <2> QED
    BY <1>2, <2>1, <2>4, ShownUntouched
<1>9. ASSUME NEW s \in Sessions, ScanCloses(s) PROVE ShownInv'
  <2>1. UNCHANGED <<export, cache, loaded>> /\ scan' = [scan EXCEPT !.phase = "next", !.at = {}, !.log = 0]
    BY <1>9 DEF ScanCloses, diskVars
  <2>2. scan' \in ScanType
    BY <1>1, <2>1, Nothing DEF ScanType
  <2>3. PICK b \in scan.by : watched' = [watched EXCEPT ![b][s] = Unwatched]
    BY <1>9 DEF ScanCloses
  <2>4. b \in Bridges
    BY <1>1 DEF ScanType
  <2>5. watched' \in [Bridges -> [Sessions -> [kind : {"none", "live", "stored"}, log : 0 .. MaxLog]]]
    BY <1>1, <2>3, <2>4, Nothing, WatchSet
  <2>6. TypeOK'
    BY <1>1, <1>2, <2>1, <2>2, <2>5 DEF TypeOK, ScanType
  <2> QED
    BY <1>2, <2>1, <2>6, ShownUntouched
<1>10. ASSUME NEW s \in Sessions, ScanWrites(s), native[s].side PROVE ShownInv'
  <2>1. UNCHANGED <<export, cache, loaded, watched>>
        /\ scan' = [scan EXCEPT !.phase = "closing", !.hidden = @ \cup {s}]
    BY <1>10 DEF ScanWrites, bridgeVars
  <2>2. scan' \in ScanType
    BY <1>1, <2>1 DEF ScanType
  <2> QED
    BY <1>3, <2>1, <2>2
<1>11. ASSUME NEW s \in Sessions, ScanWrites(s), ~native[s].side PROVE ShownInv'
  <2>1. PICK b \in scan.by :
          /\ watched' = [watched EXCEPT ![b][s] = [kind |-> "stored", log |-> scan.log]]
          /\ cache' = [cache EXCEPT ![b][s] = RecordsFor(b, s)]
          /\ loaded' = [loaded EXCEPT ![b] = @ \cup {s}]
          /\ export' = [export EXCEPT ![s] = Exported(scan.log, RecordsFor(b, s))]
    BY <1>11 DEF ScanWrites
  <2>2. b \in Bridges /\ scan.log \in 0 .. MaxLog
    BY <1>1 DEF ScanType
  <2> DEFINE known == RecordsFor(b, s)
  <2>3. Shows(known, Known(s), issued)
    BY <2>2, FoundShows
  <2>4. known \in Seq(Records)
    BY <2>3 DEF Shows
  <2>5. cache' = [cache EXCEPT ![b][s] = known] /\ export' = [export EXCEPT ![s] = Exported(scan.log, known)]
    BY <2>1
  <2> HIDE DEF known
  <2>6. Remembers(b, s, known)
    BY <1>1, <2>2, <2>4, <2>5, CacheSet
  <2>7. watched' \in [Bridges -> [Sessions -> [kind : {"none", "live", "stored"}, log : 0 .. MaxLog]]]
    <3>1. [kind |-> "stored", log |-> scan.log] \in [kind : {"none", "live", "stored"}, log : 0 .. MaxLog]
      BY <2>2
    <3> QED
      BY <1>1, <2>1, <2>2, <3>1, WatchSet
  <2>8. export' \in [Sessions -> [there : BOOLEAN, log : 0 .. MaxLog, records : SUBSET Records]]
    <3>1. Exported(scan.log, known) \in [there : BOOLEAN, log : 0 .. MaxLog, records : SUBSET Records]
      BY <2>2, <2>4, ExportTyped
    <3> QED
      BY <1>1, <2>5, <3>1 DEF TypeOK
  <2>9. scan' \in ScanType
    <3>1. scan' = [scan EXCEPT !.phase = "closing"]
      BY <1>11 DEF ScanWrites
    <3> QED
      BY <1>1, <3>1 DEF ScanType
  <2>10. loaded' \in [Bridges -> SUBSET Sessions]
    BY <1>1, <2>1, <2>2 DEF TypeOK
  <2>11. TypeOK'
    BY <1>1, <1>2, <2>6, <2>7, <2>8, <2>9, <2>10 DEF TypeOK, ScanType, Remembers
  <2> QED
    BY <1>2, <2>2, <2>5, <2>11, ShownLoads DEF known
<1> QED
  BY <1>4, <1>5, <1>6, <1>7, <1>8, <1>9, <1>10, <1>11 DEF ScanStep

\* The process dies, in a call that appends or elsewhere.
LEMMA ShownRestarts ==
  ASSUME ShownInv, Restarts, UNCHANGED <<export, acked>>, issued' \in 0 .. MaxRecords, issued <= issued',
         \A s \in Sessions : Fits(archive'[s], issued') /\ ToSet(archive[s].lines) \subseteq ToSet(archive'[s].lines),
         archive' \in [Sessions -> [lines : Seq(Line), torn : BOOLEAN]]
  PROVE  ShownInv'
<1>1. TypeOK /\ crashes \in Nat /\ MaxCrashes \in Nat
  BY BoundsAssumption DEF ShownInv, TypeOK
<1>2. native \in [Sessions -> Described]
  BY <1>1 DEF TypeOK, Described
<1>3. native' = [s \in Sessions |-> [native[s] EXCEPT !.state = IF @ = "live" THEN "stored" ELSE @]]
  BY DEF Restarts
<1>4. native' \in [Sessions -> Described] /\ SessionsLast
  <2>1. \A s \in Sessions : [native[s] EXCEPT !.state = IF @ = "live" THEN "stored" ELSE @] \in Described
    BY <1>2 DEF Described
  <2>2. \A s \in Sessions : native[s].state = "deleted" => native'[s].state = "deleted"
    BY <1>2, <1>3 DEF Described
  <2> QED
    BY <1>3, <2>1, <2>2 DEF SessionsLast, Gone
<1>5. crashes' \in 0 .. MaxCrashes
  BY <1>1 DEF Restarts
<1>6. /\ cache' = [b \in Bridges |-> [s \in Sessions |-> <<>>]] /\ loaded' = [b \in Bridges |-> {}]
      /\ watched' = [b \in Bridges |-> [s \in Sessions |-> Unwatched]] /\ scan' = NoScan
  BY DEF Restarts
<1>7. /\ cache' \in [Bridges -> [Sessions -> Seq(Records)]] /\ loaded' \in [Bridges -> SUBSET Sessions]
      /\ watched' \in [Bridges -> [Sessions -> [kind : {"none", "live", "stored"}, log : 0 .. MaxLog]]]
      /\ scan' \in ScanType
  <2>1. <<>> \in Seq(Records)
    OBVIOUS
  <2>2. [s \in Sessions |-> <<>>] \in [Sessions -> Seq(Records)]
    BY <2>1
  <2>3. cache' \in [Bridges -> [Sessions -> Seq(Records)]]
    BY <1>6, <2>2
  <2>4. [s \in Sessions |-> Unwatched] \in [Sessions -> [kind : {"none", "live", "stored"}, log : 0 .. MaxLog]]
    BY Nothing
  <2>5. watched' \in [Bridges -> [Sessions -> [kind : {"none", "live", "stored"}, log : 0 .. MaxLog]]]
    BY <1>6, <2>4
  <2> QED
    BY <1>6, <2>3, <2>5, Nothing DEF ScanType
<1>8. TypeOK'
  BY <1>1, <1>4, <1>5, <1>7 DEF TypeOK, Described, ScanType
<1>9. \A b \in Bridges, s \in Sessions : cache'[b][s] = <<>>
  BY <1>6
<1> QED
  BY <1>4, <1>8, <1>9, ShownStill

LEMMA ShownCrash == ShownInv /\ (Crash \/ \E s \in Sessions : CrashInPersist(s)) => ShownInv'
<1> SUFFICES ASSUME ShownInv, Crash \/ \E s \in Sessions : CrashInPersist(s) PROVE ShownInv'
  OBVIOUS
<1>1. /\ archive \in [Sessions -> [lines : Seq(Line), torn : BOOLEAN]] /\ issued \in 0 .. MaxRecords
      /\ issued \in Nat /\ MaxRecords \in Nat /\ \A t \in Sessions : Fits(archive[t], issued)
  BY BoundsAssumption DEF ShownInv, TypeOK
<1>2. CASE Crash
  BY <1>1, <1>2, ShownRestarts DEF Crash, diskVars
<1>3. ASSUME NEW s \in Sessions, CrashInPersist(s) PROVE ShownInv'
  <2> DEFINE begun == WithHeader(archive[s])
             r     == issued + 1
  <2>1. PICK left : /\ \/ left \in {begun, AppendPart(begun), AppendLine(begun, r)}
                       \/ left = AppendPart(archive[s])
                    /\ archive' = [archive EXCEPT ![s] = left]
    BY <1>3 DEF CrashInPersist
  <2>2. /\ issued < MaxRecords /\ issued' = r /\ Restarts /\ UNCHANGED <<export, acked>>
    BY <1>3 DEF CrashInPersist
  <2>3. r \in Nat /\ r \in 0 .. MaxRecords /\ r \in Records /\ issued <= r
    BY <1>1, <2>2 DEF Records
  <2>4. Fits(begun, issued) /\ ToSet(archive[s].lines) \subseteq ToSet(begun.lines)
    BY <1>1, HeaderFits
  <2>5. Fits(AppendLine(begun, r), r) /\ ToSet(archive[s].lines) \subseteq ToSet(AppendLine(begun, r).lines)
    BY <1>1, <2>3, WrittenFits
  <2> HIDE DEF begun, r
  <2>6. Fits(AppendPart(begun), issued) /\ AppendPart(begun).lines = begun.lines
    BY <1>1, <2>4, PartFits
  <2>7. Fits(AppendPart(archive[s]), issued) /\ AppendPart(archive[s]).lines = archive[s].lines
    BY <1>1, PartFits
  <2>8. Fits(left, r) /\ ToSet(archive[s].lines) \subseteq ToSet(left.lines)
    <3>1. CASE left = AppendLine(begun, r)
      BY <2>5, <3>1
    <3>2. CASE left \in {begun, AppendPart(begun), AppendPart(archive[s])}
      <4>1. Fits(left, issued) /\ ToSet(archive[s].lines) \subseteq ToSet(left.lines)
        BY <2>4, <2>6, <2>7, <3>2
      <4> QED
        BY <1>1, <2>3, <4>1, FitsStill
    <3> QED
      BY <2>1, <3>1, <3>2
  <2>9. left \in [lines : Seq(Line), torn : BOOLEAN]
    BY <2>8 DEF Fits
  <2>10. /\ archive' \in [Sessions -> [lines : Seq(Line), torn : BOOLEAN]] /\ archive'[s] = left
         /\ \A t \in Sessions : t # s => archive'[t] = archive[t]
    BY <1>1, <2>1, <2>9
  <2>11. \A t \in Sessions : Fits(archive[t], r)
    BY <1>1, <2>3, FitsStill
  <2>12. \A t \in Sessions : Fits(archive'[t], r) /\ ToSet(archive[t].lines) \subseteq ToSet(archive'[t].lines)
    BY <2>8, <2>10, <2>11
  <2> QED
    BY <2>2, <2>3, <2>10, <2>12, ShownRestarts
<1> QED
  BY <1>2, <1>3

\* No step shows a record that is in no archive and was not acknowledged.
LEMMA ShownNext == ShownInv /\ [Next]_vars => ShownInv'
<1> SUFFICES ASSUME ShownInv, [Next]_vars PROVE ShownInv'
  OBVIOUS
<1>1. CASE NativeStep
  BY <1>1, ShownNative
<1>2. CASE BridgeCall
  BY <1>2, ShownBridge DEF BridgeCall
<1>3. CASE ScanStep
  BY <1>3, ShownScan
<1>4. CASE Crash \/ \E s \in Sessions : CrashInPersist(s)
  BY <1>4, ShownCrash
<1>5. CASE UNCHANGED vars
  <2>1. UNCHANGED <<native, archive, export, cache, loaded, watched, scan, acked, issued, crashes>>
    BY <1>5 DEF vars, diskVars, bridgeVars, countVars
  <2>2. TypeOK'
    BY <2>1 DEF ShownInv, TypeOK
  <2> QED
    BY <2>1, <2>2, ShownUntouched DEF SessionsLast, Gone
<1> QED
  BY <1>1, <1>2, <1>3, <1>4, <1>5 DEF Next

LEMMA ShownInit == Init => ShownInv
<1> SUFFICES ASSUME Init PROVE ShownInv
  OBVIOUS
<1>1. /\ archive = [s \in Sessions |-> EmptyArchive] /\ cache = [b \in Bridges |-> [s \in Sessions |-> <<>>]]
      /\ loaded = [b \in Bridges |-> {}] /\ watched = [b \in Bridges |-> [s \in Sessions |-> Unwatched]]
      /\ scan = NoScan /\ acked = [s \in Sessions |-> {}] /\ issued = 0 /\ crashes = 0
  BY DEF Init
<1>2. <<>> \in Seq(Records) /\ Len(<<>>) = 0 /\ ToSet(<<>>) = {}
  BY DEF ToSet
<1>3. native \in [Sessions -> Described]
  <2>1. native \in [Sessions -> [state : {"absent", "stored"}, side : BOOLEAN, log : {0}]]
    BY DEF Init
  <2> QED
    BY <2>1, Nothing DEF Described
<1>4. export \in [Sessions -> [there : BOOLEAN, log : 0 .. MaxLog, records : SUBSET Records]]
  <2>1. PICK old : export = [s \in Sessions |-> IF s \in old THEN Exported(0, <<>>) ELSE NoFile]
    BY DEF Init
  <2>2. Exported(0, <<>>) \in [there : BOOLEAN, log : 0 .. MaxLog, records : SUBSET Records]
    BY <1>2, Nothing, ExportTyped
  <2> QED
    BY <2>1, <2>2, Nothing
<1>5. /\ cache \in [Bridges -> [Sessions -> Seq(Records)]] /\ loaded \in [Bridges -> SUBSET Sessions]
      /\ watched \in [Bridges -> [Sessions -> [kind : {"none", "live", "stored"}, log : 0 .. MaxLog]]]
      /\ archive \in [Sessions -> [lines : Seq(Line), torn : BOOLEAN]] /\ scan \in ScanType
  <2>1. [s \in Sessions |-> <<>>] \in [Sessions -> Seq(Records)]
    BY <1>2
  <2>2. [s \in Sessions |-> Unwatched] \in [Sessions -> [kind : {"none", "live", "stored"}, log : 0 .. MaxLog]]
    BY Nothing
  <2>3. cache \in [Bridges -> [Sessions -> Seq(Records)]]
    BY <1>1, <2>1
  <2>4. watched \in [Bridges -> [Sessions -> [kind : {"none", "live", "stored"}, log : 0 .. MaxLog]]]
    BY <1>1, <2>2
  <2> QED
    BY <1>1, <2>3, <2>4, Nothing DEF ScanType
<1>6. /\ acked \in [Sessions -> SUBSET Records] /\ issued \in 0 .. MaxRecords /\ crashes \in 0 .. MaxCrashes
  BY <1>1, BoundsAssumption
<1>7. TypeOK
  BY <1>3, <1>4, <1>5, <1>6 DEF TypeOK, Described, ScanType
<1>8. \A s \in Sessions : Fits(archive[s], issued)
  BY <1>1, Nothing
<1>9. \A b \in Bridges, s \in Sessions : Shows(cache[b][s], Known(s), issued)
  <2>1. \A b \in Bridges, s \in Sessions : cache[b][s] = <<>>
    BY <1>1
  <2>2. \A A, n : Shows(<<>>, A, n)
    BY <1>2 DEF Shows, Rises, Reaches
  <2> QED
    BY <2>1, <2>2
<1> QED
  BY <1>7, <1>8, <1>9 DEF ShownInv

\* Numbers that rise in the memory and in the file stand in the same order.
LEMMA ShownFaithful == ShownInv => CacheFaithful
<1> SUFFICES ASSUME ShownInv, NEW b \in Bridges, NEW s \in Sessions, ~Gone(s)
             PROVE  LET shown == cache[b][s]
                        lines == archive[s].lines
                    IN /\ ToSet(shown) \subseteq ToSet(lines) \cup acked[s]
                       /\ \A i, j \in DOMAIN shown : i < j =>
                            /\ shown[i] # shown[j]
                            /\ {shown[i], shown[j]} \subseteq ToSet(lines) =>
                                 \E p, q \in DOMAIN lines : p < q /\ lines[p] = shown[i] /\ lines[q] = shown[j]
  BY DEF CacheFaithful, ShownInv
<1> DEFINE shown == cache[b][s]
           lines == archive[s].lines
<1>1. /\ Shows(shown, Known(s), issued) /\ Fits(archive[s], issued)
  BY DEF ShownInv
<1>2. /\ shown \in Seq(Records) /\ Rises(shown) /\ ToSet(shown) \subseteq ToSet(lines) \cup acked[s]
      /\ lines \in Seq(Line) /\ Rises(lines)
  BY <1>1 DEF Shows, Fits, Known
<1> HIDE DEF shown, lines
<1>3. ASSUME NEW i \in DOMAIN shown, NEW j \in DOMAIN shown, i < j
      PROVE  /\ shown[i] # shown[j]
             /\ {shown[i], shown[j]} \subseteq ToSet(lines) =>
                  \E p, q \in DOMAIN lines : p < q /\ lines[p] = shown[i] /\ lines[q] = shown[j]
  <2>1. /\ DOMAIN shown = 1 .. Len(shown) /\ DOMAIN lines = 1 .. Len(lines)
        /\ Len(lines) \in Nat /\ shown[i] \in Records /\ shown[j] \in Records
    BY <1>2
  <2>2. shown[i] < shown[j] /\ shown[i] \in Nat /\ shown[j] \in Nat
    BY <1>2, <1>3, <2>1, RecordsAreNumbers DEF Rises
  <2>3. ASSUME {shown[i], shown[j]} \subseteq ToSet(lines)
        PROVE  \E p, q \in DOMAIN lines : p < q /\ lines[p] = shown[i] /\ lines[q] = shown[j]
    <3>1. PICK p \in DOMAIN lines : lines[p] = shown[i]
      BY <2>3 DEF ToSet
    <3>2. PICK q \in DOMAIN lines : lines[q] = shown[j]
      BY <2>3 DEF ToSet
    <3>3. p \in Nat /\ q \in Nat
      BY <2>1
    <3>4. ~(q < p)
      BY <1>2, <2>1, <2>2, <3>1, <3>2 DEF Rises
    <3>5. p # q
      BY <2>2, <3>1, <3>2
    <3> QED
      BY <3>1, <3>2, <3>3, <3>4, <3>5
  <2> QED
    BY <2>2, <2>3
<1> QED
  BY <1>2, <1>3 DEF shown, lines

\* CacheFaithful: the records a bridge shows of a session are those of its
\* archive, each once and in the archive's order, but for those a death of the
\* process has cost (session-bridge.ts:307-339).
THEOREM CacheIsFaithful == Spec => []CacheFaithful
<1>1. Init => ShownInv
  BY ShownInit
<1>2. ShownInv /\ [Next]_vars => ShownInv'
  BY ShownNext
<1>3. ShownInv => CacheFaithful
  BY ShownFaithful
<1> QED
  BY <1>1, <1>2, <1>3, PTL DEF Spec
=============================================================================
