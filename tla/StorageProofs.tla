----------------------------- MODULE StorageProofs -----------------------------
(***************************************************************************)
(* The sector allocator of a region file, for any number of chunks, any    *)
(* lengths of records and any limit of the sector count; and the store and *)
(* its file side by side.                                                  *)
(*                                                                         *)
(* Along the way of a save the run that AddChunk chose belongs to no entry *)
(* of the file, and the parts written so far are in it (JobPlaced); an     *)
(* entry counts the sectors of what it was written for (EntryCounts).  The *)
(* first keeps every other record untouched until the entry is written and *)
(* makes the new entry right when it is; the second says that the sectors  *)
(* of a record are those its entry keeps from others.                      *)
(***************************************************************************)
EXTENDS MCStorage, RegionManagerProofs

JobRun == Run(job.offset, SectorsOf[job.content])

JobPlaced ==
    job # NoFileJob =>
        /\ open
        /\ job.offset + SectorsOf[job.content] - 1 <= MaxSector
        /\ ~failed =>
            /\ \A c \in RegionChunks : EntrySectors(fileHeader[c]) \cap JobRun = {}
            /\ \A p \in 1..SectorsOf[job.content] : p < job.part =>
                 sectors[job.offset + p - 1] =
                    [chunk |-> job.chunk, content |-> job.content, part |-> p]

EntryCounts ==
    \A c \in RegionChunks : saved[c] \in Records =>
        fileHeader[c].numberOfSectors = SectorsOf[saved[c]] % CountLimit

FileInv ==
    /\ RegionFileTypeOK
    /\ HeaderIsFiles
    /\ EntriesDisjoint
    /\ RecordsSurvive
    /\ EntryCounts
    /\ JobPlaced

-----------------------------------------------------------------------------

(* An entry counts no more sectors than the record has, and all of them when
   eight bits are enough. *)
LEMMA Truncation ==
    ASSUME NEW n \in Nat
    PROVE  /\ n % CountLimit \in 0..(CountLimit - 1)
           /\ n % CountLimit <= n
           /\ n < CountLimit => n % CountLimit = n
<1>1. CountLimit \in Nat \ {0}
  BY CountLimitType
<1>2. n % CountLimit \in 0..(CountLimit - 1)
  BY <1>1
<1>3. n < CountLimit => n % CountLimit = n
  BY <1>1
<1> QED BY <1>1, <1>2, <1>3

(* The new file and the closed object satisfy the invariant. *)
LEMMA FileInitInv == RegionFileInit => FileInv
<1> SUFFICES ASSUME RegionFileInit PROVE FileInv
  OBVIOUS
<1>1. RegionFileTypeOK
  <2>1. NoEntry \in RawEntries
    BY CountLimitType DEF RawEntries, NoEntry
  <2> QED BY <2>1 DEF RegionFileInit, RegionFileTypeOK
<1>2. EntriesDisjoint
  BY DEF RegionFileInit, EntriesDisjoint, EntrySectors, NoEntry
<1>3. RecordsSurvive /\ EntryCounts
  BY AbsentNulls DEF RegionFileInit, RecordsSurvive, EntryCounts
<1>4. JobPlaced /\ HeaderIsFiles
  BY DEF RegionFileInit, JobPlaced, HeaderIsFiles
<1> QED BY <1>1, <1>2, <1>3, <1>4 DEF FileInv

(* CreateRegion, the constructor, the end of the object and a crash write
   nothing that a save has written. *)
LEMMA FileStep ==
    ASSUME FileInv, CreateRegion \/ Open \/ Close \/ Crash
    PROVE  FileInv'
<1> USE DEF FileInv
<1>1. UNCHANGED <<fileHeader, sectors, saved>>
  BY DEF CreateRegion, Open, Close, Crash, fileVars
<1>2. EntriesDisjoint' /\ RecordsSurvive' /\ EntryCounts'
  BY <1>1, ZenonT(40) DEF EntriesDisjoint, EntrySectors, RecordsSurvive, Counted, ReadsBack, EntryExists, EntryCounts
<1>3. CASE CreateRegion
  BY <1>2, <1>3 DEF CreateRegion, RegionFileTypeOK, HeaderIsFiles, JobPlaced, JobRun, EntrySectors
<1>4. CASE Open
  <2>1. job = NoFileJob /\ job' = NoFileJob
    BY <1>4 DEF Open, JobPlaced
  <2>2. RegionFileTypeOK'
    BY <1>4 DEF Open, RegionFileTypeOK, fileVars
  <2>3. HeaderIsFiles' /\ JobPlaced'
    BY <1>4, <2>1 DEF Open, HeaderIsFiles, JobPlaced, fileVars
  <2> QED BY <1>2, <2>2, <2>3
<1>5. CASE Close \/ Crash
  <2>1. RegionFileTypeOK'
    BY <1>5 DEF Close, Crash, RegionFileTypeOK, fileVars
  <2>2. HeaderIsFiles' /\ JobPlaced'
    BY <1>5 DEF Close, Crash, HeaderIsFiles, JobPlaced
  <2> QED BY <1>2, <2>1, <2>2
<1> QED BY <1>3, <1>4, <1>5

(* A stream that fails leaves the file as it is. *)
LEMMA StreamFailsStep ==
    ASSUME FileInv, StreamFails
    PROVE  FileInv'
<1> USE DEF FileInv, StreamFails, fileVars
<1>1. EntriesDisjoint' /\ RecordsSurvive' /\ EntryCounts'
  BY ZenonT(40) DEF EntriesDisjoint, EntrySectors, RecordsSurvive, Counted, ReadsBack, EntryExists, EntryCounts
<1>2. RegionFileTypeOK' /\ HeaderIsFiles' /\ JobPlaced'
  BY DEF RegionFileTypeOK, HeaderIsFiles, JobPlaced
<1> QED BY <1>1, <1>2

(* AddChunk chooses a run that no entry of the file has, as its own header is
   the file's while the stream works. *)
LEMMA AddChunkStep ==
    ASSUME FileInv, NEW c \in RegionChunks, NEW v \in Records, AddChunk(c, v)
    PROVE  FileInv'
<1> USE DEF FileInv
<1>1. UNCHANGED <<headerCopy, file, fileHeader, sectors, open, failed, saved>>
  BY DEF AddChunk, fileVars
<1>2. EntriesDisjoint' /\ RecordsSurvive' /\ EntryCounts' /\ HeaderIsFiles'
  <2>1. EntriesDisjoint' /\ EntryCounts' /\ HeaderIsFiles'
    BY <1>1 DEF EntriesDisjoint, EntrySectors, EntryCounts, HeaderIsFiles
  <2>2. RecordsSurvive'
    BY <1>1 DEF RecordsSurvive, Counted, ReadsBack, EntryExists
  <2> QED BY <2>1, <2>2
<1>3. PICK s \in Sectors :
        /\ s + SectorsOf[v] - 1 <= MaxSector
        /\ FirstFit(c, s, SectorsOf[v])
        /\ job' = [chunk |-> c, content |-> v, offset |-> s, part |-> 1]
  BY DEF AddChunk
<1>4. job' \in FileJobs
  BY <1>3 DEF FileJobs
<1>5. RegionFileTypeOK'
  BY <1>1, <1>4 DEF RegionFileTypeOK
<1>6. ASSUME ~failed, NEW d \in RegionChunks
      PROVE  EntrySectors(fileHeader[d]) \cap Run(s, SectorsOf[v]) = {}
  <2>1. headerCopy = fileHeader
    BY <1>6 DEF AddChunk, HeaderIsFiles
  <2>2. EntrySectors(headerCopy[d]) \subseteq Occupied(c)
    BY DEF Occupied
  <2> QED BY <1>3, <2>1, <2>2 DEF FirstFit, Fits
<1>7. JobPlaced'
  <2>1. JobRun' = Run(s, SectorsOf[v])
    BY <1>3 DEF JobRun, Run
  <2>2. \A p \in 1..SectorsOf[v] : ~(p < 1)
    OBVIOUS
  <2>3. \A d \in RegionChunks : EntrySectors(fileHeader[d])' = EntrySectors(fileHeader[d])
    BY <1>1 DEF EntrySectors
  <2>4. open'
    BY DEF AddChunk
  <2> QED BY <1>1, <1>3, <1>6, <2>1, <2>2, <2>3, <2>4 DEF JobPlaced
<1> QED BY <1>2, <1>5, <1>7

(* A sector written for one record belongs to no other: a chunk that reads
   back before the write does so after it. *)
LEMMA WriteSectorStep ==
    ASSUME FileInv, WriteSector
    PROVE  FileInv'
<1> USE DEF FileInv
<1> DEFINE n == SectorsOf[job.content]
           at == job.offset + job.part - 1
           piece == [chunk |-> job.chunk, content |-> job.content, part |-> job.part]
<1>1. job \in FileJobs /\ job # NoFileJob /\ job.part <= n
  BY DEF WriteSector, RegionFileTypeOK
<1>2. n \in Nat \ {0} /\ job.part \in Nat \ {0} /\ job.offset \in Sectors
  BY <1>1, SectorsOfType DEF FileJobs
<1>3. at \in Sectors /\ at \in JobRun
  BY <1>1, <1>2, MaxSectorType DEF JobPlaced, Sectors, JobRun, Run
<1>4. UNCHANGED <<headerCopy, file, fileHeader, open, failed, saved>>
  BY DEF WriteSector
<1>5. job' = [job EXCEPT !.part = @ + 1]
  BY DEF WriteSector
<1>6. sectors' = IF failed THEN sectors ELSE [sectors EXCEPT ![at] = piece]
  BY DEF WriteSector
<1>7. RegionFileTypeOK'
  <2>1. job.part \in Parts
    BY <1>1, <1>2, MaxSectorType DEF Parts, FileJobs, Sectors, JobPlaced
  <2>2. piece \in Pieces
    BY <1>1, <2>1 DEF Pieces, FileJobs
  <2>3. sectors' \in [Sectors -> Pieces \cup {Blank}]
    BY <1>6, <2>2 DEF RegionFileTypeOK
  <2>4. job' \in FileJobs
    BY <1>1, <1>2, <1>5 DEF FileJobs
  <2> QED BY <1>4, <2>3, <2>4 DEF RegionFileTypeOK
<1>8. EntriesDisjoint' /\ EntryCounts' /\ HeaderIsFiles'
  BY <1>4 DEF EntriesDisjoint, EntrySectors, EntryCounts, HeaderIsFiles
<1>9. RecordsSurvive'
  <2> SUFFICES ASSUME NEW c \in RegionChunks, NEW v \in Records, saved[c] = v, Counted(v)
               PROVE  ReadsBack(fileHeader, c, v)'
    BY <1>4 DEF RecordsSurvive, Counted
  <2>1. ReadsBack(fileHeader, c, v)
    BY DEF RecordsSurvive
  <2>2. CASE failed
    BY <1>4, <1>6, <2>1, <2>2 DEF ReadsBack, EntryExists
  <2>3. CASE ~failed
    <3>1. SectorsOf[v] \in Nat
      BY SectorsOfType
    <3>2. fileHeader[c].numberOfSectors = SectorsOf[v]
      BY <3>1, Truncation DEF EntryCounts, Counted
    <3>3. EntrySectors(fileHeader[c]) = Run(fileHeader[c].offset, SectorsOf[v])
      BY <2>1, <3>2 DEF ReadsBack, EntryExists, EntrySectors
    <3>4. at \notin Run(fileHeader[c].offset, SectorsOf[v])
      BY <1>1, <1>3, <2>3, <3>3 DEF JobPlaced
    <3>5. ASSUME NEW p \in 1..SectorsOf[v]
          PROVE  fileHeader[c].offset + p - 1 # at
      <4>1. fileHeader[c].offset \in Nat
        BY <2>1 DEF RegionFileTypeOK, RawEntries, Sectors
      <4> QED BY <3>1, <3>4, <4>1 DEF Run
    <3>6. \A p \in 1..SectorsOf[v] :
            sectors'[fileHeader[c].offset + p - 1] = sectors[fileHeader[c].offset + p - 1]
      BY <1>6, <2>1, <2>3, <3>5 DEF RegionFileTypeOK, ReadsBack
    <3> QED BY <1>4, <2>1, <3>6 DEF ReadsBack, EntryExists
  <2> QED BY <2>2, <2>3
<1>10. JobPlaced'
  <2>1. /\ job'.offset = job.offset /\ job'.content = job.content
        /\ job'.chunk = job.chunk /\ job'.part = job.part + 1
    BY <1>1, <1>5 DEF FileJobs
  <2>2. open' /\ job'.offset + SectorsOf[job'.content] - 1 <= MaxSector
    BY <1>1, <1>4, <2>1 DEF JobPlaced
  <2>3. ASSUME ~failed'
        PROVE  \A c \in RegionChunks : (EntrySectors(fileHeader[c]) \cap JobRun)' = {}
    BY <1>1, <1>4, <2>1, <2>3 DEF JobPlaced, EntrySectors, JobRun, Run
  <2>4. ASSUME ~failed', NEW p \in 1..SectorsOf[job'.content], p < job'.part
        PROVE  sectors'[job'.offset + p - 1] =
                 [chunk |-> job'.chunk, content |-> job'.content, part |-> p]
    <3>1. CASE p = job.part
      BY <1>3, <1>4, <1>6, <2>1, <2>4, <3>1 DEF RegionFileTypeOK
    <3>2. CASE p # job.part
      <4>1. p < job.part
        BY <1>2, <2>1, <2>4, <3>2
      <4>2. sectors[job.offset + p - 1] =
              [chunk |-> job.chunk, content |-> job.content, part |-> p]
        BY <1>1, <1>4, <2>1, <2>4, <4>1 DEF JobPlaced
      <4>3. job.offset + p - 1 # at /\ job.offset + p - 1 \in Sectors
        BY <1>1, <1>2, <2>1, <3>2, MaxSectorType DEF JobPlaced, Sectors
      <4> QED BY <1>4, <1>6, <2>1, <2>4, <4>2, <4>3 DEF RegionFileTypeOK
    <3> QED BY <3>1, <3>2
  <2> QED BY <2>2, <2>3, <2>4 DEF JobPlaced
<1> QED BY <1>7, <1>8, <1>9, <1>10

(* When the entry is written its record is complete, and in sectors that no
   other entry has. *)
LEMMA WriteEntryStep ==
    ASSUME FileInv, WriteEntry
    PROVE  FileInv'
<1> USE DEF FileInv
<1> DEFINE n == SectorsOf[job.content]
           entry == Entry(job.offset, n)
<1>1. job \in FileJobs /\ job # NoFileJob /\ job.part > n
  BY DEF WriteEntry, RecordWritten, RegionFileTypeOK
<1>2. n \in Nat \ {0} /\ job.chunk \in RegionChunks /\ job.content \in Records /\ job.offset \in Sectors
  BY <1>1, SectorsOfType DEF FileJobs
<1>3. /\ job' = NoFileJob
      /\ headerCopy' = [headerCopy EXCEPT ![job.chunk] = entry]
      /\ UNCHANGED <<file, sectors, open, failed>>
  BY DEF WriteEntry
<1>4. entry \in RawEntries /\ entry.offset = job.offset /\ entry.numberOfSectors = n % CountLimit
  BY <1>2, Truncation DEF Entry, RawEntries
<1>5. JobPlaced'
  BY <1>3 DEF JobPlaced
<1>6. CASE failed
  <2>1. UNCHANGED <<fileHeader, saved>>
    BY <1>6 DEF WriteEntry
  <2>2. RegionFileTypeOK'
    BY <1>3, <1>4, <2>1 DEF RegionFileTypeOK
  <2>3. EntriesDisjoint' /\ RecordsSurvive' /\ EntryCounts' /\ HeaderIsFiles'
    BY <1>3, <1>6, <2>1 DEF EntriesDisjoint, EntrySectors, RecordsSurvive, Counted, ReadsBack,
                            EntryExists, EntryCounts, HeaderIsFiles
  <2> QED BY <1>5, <2>2, <2>3
<1>7. CASE ~failed
  <2>1. /\ fileHeader' = [fileHeader EXCEPT ![job.chunk] = entry]
        /\ saved' = [saved EXCEPT ![job.chunk] = job.content]
    BY <1>7 DEF WriteEntry
  <2>2. RegionFileTypeOK'
    BY <1>2, <1>3, <1>4, <2>1 DEF RegionFileTypeOK
  <2>3. HeaderIsFiles'
    BY <1>1, <1>3, <1>7, <2>1 DEF HeaderIsFiles, JobPlaced
  <2>4. EntryCounts'
    BY <1>2, <1>4, <2>1 DEF EntryCounts, RegionFileTypeOK
  <2>5. EntriesDisjoint'
    <3>1. EntrySectors(entry) \subseteq JobRun
      <4>1. n % CountLimit \in Nat /\ n % CountLimit <= n
        BY <1>2, Truncation, CountLimitType
      <4>2. job.offset \in Nat
        BY <1>2 DEF Sectors
      <4> QED BY <1>2, <1>4, <4>1, <4>2 DEF EntrySectors, JobRun, Run
    <3>2. \A c \in RegionChunks : EntrySectors(fileHeader[c]) \cap JobRun = {}
      BY <1>1, <1>7 DEF JobPlaced
    <3>3. fileHeader'[job.chunk] = entry
      BY <1>2, <2>1 DEF RegionFileTypeOK
    <3>4. \A c \in RegionChunks : c # job.chunk => fileHeader'[c] = fileHeader[c]
      BY <2>1 DEF RegionFileTypeOK
    <3>5. ASSUME NEW c \in RegionChunks, NEW d \in RegionChunks, c # d
          PROVE  EntrySectors(fileHeader'[c]) \cap EntrySectors(fileHeader'[d]) = {}
      <4>1. CASE c = job.chunk
        BY <3>1, <3>2, <3>3, <3>4, <3>5, <4>1
      <4>2. CASE d = job.chunk
        BY <3>1, <3>2, <3>3, <3>4, <3>5, <4>2
      <4>3. CASE c # job.chunk /\ d # job.chunk
        BY <3>4, <3>5, <4>3 DEF EntriesDisjoint
      <4> QED BY <4>1, <4>2, <4>3
    <3> QED BY <3>5 DEF EntriesDisjoint, EntrySectors
  <2>6. RecordsSurvive'
    <3> SUFFICES ASSUME NEW c \in RegionChunks, NEW v \in Records, saved'[c] = v, Counted(v)
                 PROVE  ReadsBack(fileHeader, c, v)'
      BY DEF RecordsSurvive, Counted, ReadsBack, EntryExists
    <3>1. CASE c = job.chunk
      <4>1. v = job.content /\ fileHeader'[c] = entry
        BY <1>2, <2>1, <3>1 DEF RegionFileTypeOK
      <4>2. entry.numberOfSectors = n /\ n # 0
        BY <1>2, <1>4, <4>1, Truncation DEF Counted
      <4>3. entry.offset # 0
        BY <1>2, <1>4 DEF Sectors
      <4>4. ASSUME NEW p \in 1..n
            PROVE  /\ job.offset + p - 1 \in Sectors
                   /\ sectors[job.offset + p - 1] = [chunk |-> c, content |-> v, part |-> p]
        <5>1. job.part \in Nat /\ p < job.part
          BY <1>1, <1>2 DEF FileJobs
        <5>2. job.offset + p - 1 \in Sectors
          BY <1>1, <1>2, MaxSectorType DEF JobPlaced, Sectors
        <5> QED BY <1>1, <1>7, <3>1, <4>1, <5>1, <5>2 DEF JobPlaced
      <4> QED BY <1>3, <1>4, <4>1, <4>2, <4>3, <4>4 DEF ReadsBack, EntryExists
    <3>2. CASE c # job.chunk
      BY <1>3, <2>1, <3>2 DEF RecordsSurvive, Counted, ReadsBack, EntryExists, RegionFileTypeOK
    <3> QED BY <3>1, <3>2
  <2> QED BY <1>5, <2>2, <2>3, <2>4, <2>5, <2>6
<1> QED BY <1>6, <1>7

(* Every step keeps the invariant. *)
LEMMA FileNextInv == FileInv /\ [RegionFileNext]_regionFileVars => FileInv'
<1> SUFFICES ASSUME FileInv, [RegionFileNext]_regionFileVars PROVE FileInv'
  OBVIOUS
<1>1. CASE CreateRegion \/ Open \/ Close \/ Crash
  BY <1>1, FileStep
<1>2. CASE \E c \in RegionChunks, v \in Records : AddChunk(c, v)
  BY <1>2, AddChunkStep
<1>3. CASE WriteSector
  BY <1>3, WriteSectorStep
<1>4. CASE WriteEntry
  BY <1>4, WriteEntryStep
<1>5. CASE StreamFails
  BY <1>5, StreamFailsStep
<1>6. CASE UNCHANGED regionFileVars
  <2>1. UNCHANGED <<headerCopy, file, fileHeader, sectors, job, open, failed, saved>>
    BY <1>6 DEF regionFileVars, fileVars
  <2>2. RegionFileTypeOK' /\ HeaderIsFiles' /\ EntryCounts'
    BY <2>1 DEF FileInv, RegionFileTypeOK, HeaderIsFiles, EntryCounts
  <2>3. EntriesDisjoint' /\ RecordsSurvive'
    BY <2>1 DEF FileInv, EntriesDisjoint, EntrySectors, RecordsSurvive, Counted, ReadsBack, EntryExists
  <2>4. JobPlaced'
    BY <2>1 DEF FileInv, JobPlaced, JobRun, EntrySectors, Run
  <2> QED BY <2>2, <2>3, <2>4 DEF FileInv
<1> QED BY <1>1, <1>2, <1>3, <1>4, <1>5, <1>6 DEF RegionFileNext

-----------------------------------------------------------------------------

(* The inductive invariant holds in every behaviour of a region file. *)
THEOREM RegionFileInvariant == RegionFileSpec => []FileInv
<1> QED BY FileInitInv, FileNextInv, PTL DEF RegionFileSpec

(* Two header entries never share a sector, for every number of chunks, every
   length of records and every crash or failure of the stream. *)
THEOREM SectorsNotShared == RegionFileSpec => []EntriesDisjoint
<1>1. FileInv => EntriesDisjoint
  BY DEF FileInv
<1> QED BY <1>1, RegionFileInvariant, PTL

(* A chunk whose length the entry can count reads back as it was last saved,
   at every point of every later save. *)
THEOREM SavedReadsBack == RegionFileSpec => []RecordsSurvive
<1>1. FileInv => RecordsSurvive
  BY DEF FileInv
<1> QED BY <1>1, RegionFileInvariant, PTL

(* The object allocates from the file's own header while its stream works. *)
THEOREM HeaderCurrent == RegionFileSpec => []HeaderIsFiles
<1>1. FileInv => HeaderIsFiles
  BY DEF FileInv
<1> QED BY <1>1, RegionFileInvariant, PTL

(* The variables of a region file have their types. *)
THEOREM FileTyped == RegionFileSpec => []RegionFileTypeOK
<1>1. FileInv => RegionFileTypeOK
  BY DEF FileInv
<1> QED BY <1>1, RegionFileInvariant, PTL

-----------------------------------------------------------------------------
(* The store and the file side by side *)

(* Neither moves the variables of the other. *)
LEMMA StorageHolds == StorageSpec => [](IInv /\ FileInv)
<1>1. StorageInit => IInv /\ FileInv
  BY InitInv, FileInitInv DEF StorageInit
<1>2. IInv /\ FileInv /\ [StorageNext]_storageVars => IInv' /\ FileInv'
  <2> SUFFICES ASSUME IInv, FileInv, [StorageNext]_storageVars PROVE IInv' /\ FileInv'
    OBVIOUS
  <2>1. [StoreNext]_rmVars /\ [RegionFileNext]_regionFileVars
    BY DEF StorageNext, storageVars
  <2> QED BY <2>1, NextInv, FileNextInv
<1> QED BY <1>1, <1>2, PTL DEF StorageSpec

(* The types of both, for every number of chunks, regions, slots and IO threads. *)
THEOREM StorageTyped == StorageSpec => []StorageTypeOK
<1>1. IInv /\ FileInv => StorageTypeOK
  BY DEF IInv, FileInv, StorageTypeOK
<1> QED BY <1>1, StorageHolds, PTL

(* The header copy of every usable Region object is its file's, and the file's
   own object allocates from what the file has. *)
THEOREM HeadersStayCurrent == StorageSpec => []HeadersAreCurrent
<1>1. IInv /\ FileInv => HeadersAreCurrent
  BY UsableCoherent DEF FileInv, HeadersAreCurrent
<1> QED BY <1>1, StorageHolds, PTL
=============================================================================
