------------------------------ MODULE RegionFile ------------------------------
(***************************************************************************)
(* One region file as its Region object writes it (region.cpp, region.h):   *)
(* the header with an entry for each chunk, the sectors behind it, and     *)
(* AddChunk, which looks for free sectors in its copy of the header,       *)
(* writes the chunk's record there and then the entry.                     *)
(*                                                                         *)
(* RegionManager treats a header entry as the content it leads to; this    *)
(* module is about why that is so, also when the process dies between two  *)
(* writes or the stream fails.  At most one Region object works on a file, *)
(* and its mutex admits one operation at a time (RegionManager).           *)
(*                                                                         *)
(* A sector holds a part of a chunk's record; the first part says how long *)
(* the record is.  The stream passes its bytes on in the order they were   *)
(* written, and the seekp before the entry pushes out the record: a crash  *)
(* of the process keeps a prefix of the writes.  What a machine that loses *)
(* power keeps of them is not modelled.                                    *)
(***************************************************************************)
EXTENDS Naturals

CONSTANTS
    RegionChunks, \* chunk positions of the region
    Records,      \* what a chunk can hold
    SectorsOf,    \* sectorsNeeded for a content
    NoRecord,     \* no chunk
    Blank,        \* a sector that was never written
    NoFileJob,        \* AddChunk is not running
    CountLimit,   \* numberOfSectors is kept modulo this: 2^8
    MaxSector     \* bound: the last sector of the file

Sectors == 2..MaxSector

Parts == {n \in 1..MaxSector : \E v \in Records : n <= SectorsOf[v]}
Pieces == [chunk : RegionChunks, content : Records, part : Parts]
FileJobs == [chunk : RegionChunks, content : Records, offset : Sectors, part : Nat \ {0}]

NoEntry == [offset |-> 0, numberOfSectors |-> 0]

ASSUME SectorsOfType == SectorsOf \in [Records -> Nat \ {0}]
ASSUME CountLimitType == CountLimit \in Nat \ {0, 1}
ASSUME MaxSectorType == MaxSector \in Nat
ASSUME AbsentNulls == NoRecord \notin Records /\ Blank \notin Pieces /\ NoFileJob \notin FileJobs

\* What a header entry can say.
RawEntries == [offset : {0} \cup Sectors, numberOfSectors : 0..(CountLimit - 1)]

VARIABLES
    headerCopy, \* the object's copy of the header
    file,         \* "none", "short" of its header, or "whole"
    fileHeader,   \* the header in the file
    sectors,      \* the sectors of the file
    job,          \* what AddChunk is writing, or NoFileJob
    open,         \* a Region object has the file open
    failed,       \* a read or write failed: the stream ignores all later ones
    saved         \* history: the content each entry in the file was written for

fileVars == <<file, fileHeader, sectors>>
regionFileVars == <<headerCopy, fileVars, job, open, failed, saved>>

RegionFileTypeOK ==
    /\ headerCopy \in [RegionChunks -> RawEntries]
    /\ file \in {"none", "short", "whole"}
    /\ fileHeader \in [RegionChunks -> RawEntries]
    /\ sectors \in [Sectors -> Pieces \cup {Blank}]
    /\ job \in FileJobs \cup {NoFileJob}
    /\ open \in BOOLEAN
    /\ failed \in BOOLEAN
    /\ saved \in [RegionChunks -> Records \cup {NoRecord}]

RegionFileInit ==
    /\ headerCopy = [c \in RegionChunks |-> NoEntry]
    /\ file = "none"
    /\ fileHeader = [c \in RegionChunks |-> NoEntry]
    /\ sectors = [s \in Sectors |-> Blank]
    /\ job = NoFileJob
    /\ open = FALSE
    /\ failed = FALSE
    /\ saved = [c \in RegionChunks |-> NoRecord]

-----------------------------------------------------------------------------
(* The header.                                                             *)

Run(offset, n) == offset..(offset + n - 1)

EntrySectors(entry) ==
    IF entry.offset = 0 THEN {} ELSE Run(entry.offset, entry.numberOfSectors)

\* Slip: the sectors of the chunk's own older record may be taken at once.
OccupiedByOthers(c) ==
    UNION {EntrySectors(headerCopy[d]) : d \in RegionChunks \ {c}}

\* The sectors AddChunk must not write for chunk c; those of its own older
\* record are among them.
Occupied(c) == UNION {EntrySectors(headerCopy[d]) : d \in RegionChunks}

\* Slip: only the first sector of the run is looked at.
FitsAtStart(c, s, n) == s \notin Occupied(c)

Fits(c, s, n) == Run(s, n) \cap Occupied(c) = {}

FirstFit(c, s, n) == Fits(c, s, n) /\ \A t \in 2..(s - 1) : ~Fits(c, t, n)

\* uint8_t(sectorsNeeded)
Entry(offset, n) == [offset |-> offset, numberOfSectors |-> n % CountLimit]

EntryExists(header, c) == header[c].numberOfSectors # 0 /\ header[c].offset # 0

\* What GetChunk decodes with a header: the first sector of a record says how
\* long it is, and the parts must be in their places.
ReadsBack(header, c, v) ==
    /\ EntryExists(header, c)
    /\ \A p \in 1..SectorsOf[v] :
        /\ header[c].offset + p - 1 \in Sectors
        /\ sectors[header[c].offset + p - 1] = [chunk |-> c, content |-> v, part |-> p]

-----------------------------------------------------------------------------
(* The Region object.                                                      *)

\* CreateRegion: the file is made and the blank header written to it.  A full
\* disk or a crash in between leaves a short file, which counts as existing.
CreateRegion ==
    /\ file = "none"
    /\ file' \in {"short", "whole"}
    /\ UNCHANGED <<headerCopy, fileHeader, sectors, job, open, failed, saved>>

\* The constructor reads the header.  In a short file the read fails, and the
\* entries come from an uninitialized word.
Open ==
    /\ file # "none"
    /\ ~open
    /\ open' = TRUE
    /\ IF file = "whole"
       THEN failed' = FALSE /\ headerCopy' = fileHeader
       ELSE failed' = TRUE /\ headerCopy' \in [RegionChunks -> RawEntries]
    /\ UNCHANGED <<fileVars, job, saved>>

\* AddChunk has encoded the chunk and found room for it.
AddChunk(c, v) ==
    /\ open
    /\ job = NoFileJob
    /\ \E s \in Sectors :
        /\ s + SectorsOf[v] - 1 <= MaxSector
        /\ FirstFit(c, s, SectorsOf[v])
        /\ job' = [chunk |-> c, content |-> v, offset |-> s, part |-> 1]
    /\ UNCHANGED <<headerCopy, fileVars, open, failed, saved>>

\* The next sector of the record.
WriteSector ==
    /\ job # NoFileJob
    /\ job.part <= SectorsOf[job.content]
    /\ sectors' = IF failed THEN sectors
                  ELSE [sectors EXCEPT ![job.offset + job.part - 1] =
                           [chunk |-> job.chunk, content |-> job.content, part |-> job.part]]
    /\ job' = [job EXCEPT !.part = @ + 1]
    /\ UNCHANGED <<headerCopy, file, fileHeader, open, failed, saved>>

RecordWritten == job # NoFileJob /\ job.part > SectorsOf[job.content]

\* The entry goes to the copy, and to the file if the stream still works.
WriteEntry ==
    /\ RecordWritten
    /\ LET entry == Entry(job.offset, SectorsOf[job.content])
       IN  /\ headerCopy' = [headerCopy EXCEPT ![job.chunk] = entry]
           /\ IF failed THEN UNCHANGED <<fileHeader, saved>>
              ELSE /\ fileHeader' = [fileHeader EXCEPT ![job.chunk] = entry]
                   /\ saved' = [saved EXCEPT ![job.chunk] = job.content]
    /\ job' = NoFileJob
    /\ UNCHANGED <<file, sectors, open, failed>>

\* A write that finds the disk full, or a read past the end of the file.
StreamFails ==
    /\ open
    /\ ~failed
    /\ failed' = TRUE
    /\ UNCHANGED <<headerCopy, fileVars, job, open, saved>>

\* The last reference to the object goes: no task holds it.
Close ==
    /\ open
    /\ job = NoFileJob
    /\ open' = FALSE
    /\ failed' = FALSE
    /\ UNCHANGED <<headerCopy, fileVars, job, saved>>

\* The process dies, also in the middle of AddChunk.
Crash ==
    /\ open
    /\ open' = FALSE
    /\ job' = NoFileJob
    /\ failed' = FALSE
    /\ UNCHANGED <<headerCopy, fileVars, saved>>

RegionFileNext ==
    \/ CreateRegion
    \/ Open
    \/ \E c \in RegionChunks, v \in Records : AddChunk(c, v)
    \/ WriteSector
    \/ WriteEntry
    \/ StreamFails
    \/ Close
    \/ Crash

RegionFileSpec == RegionFileInit /\ [][RegionFileNext]_regionFileVars

-----------------------------------------------------------------------------
(* Properties.                                                             *)

\* The eight bits of its entry can count the sectors of this content.
Counted(v) == SectorsOf[v] < CountLimit

(* Two entries of the file never share a sector, whatever was saved, replaced,
   cut short by a crash or lost by a failing stream; a record too long for the
   count of its entry takes nothing from others (region.cpp, AddChunk). *)
EntriesDisjoint ==
    \A c, d \in RegionChunks : c # d =>
        EntrySectors(fileHeader[c]) \cap EntrySectors(fileHeader[d]) = {}

(* Every chunk reads back as it was last saved, at every point of every later
   save, of itself or of others, crashed or not, unless its record is too long
   for the eight bits of its entry's count (region.cpp, AddChunk, GetChunk). *)
RecordsSurvive ==
    \A c \in RegionChunks, v \in Records :
        saved[c] = v /\ Counted(v) => ReadsBack(fileHeader, c, v)

(* As long as the stream works, AddChunk looks for room in the header that the
   file has, also in a file that was left short (region.h, ReadHeaderFromFile). *)
HeaderIsFiles == open /\ ~failed => headerCopy = fileHeader

=============================================================================
