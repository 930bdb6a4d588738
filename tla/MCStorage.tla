------------------------------- MODULE MCStorage -------------------------------
(***************************************************************************)
(* RegionManager and RegionFile in one run.  The first treats a header     *)
(* entry as the content it leads to, the second opens the file, and they   *)
(* have no variable in common: the first step of a behaviour is told by    *)
(* part which of them moves.                                               *)
(***************************************************************************)
EXTENDS MCRegionManager, RegionFile

CONSTANTS small, large, overflowing

VARIABLE part

storageVars == <<part, rmVars, regionFileVars>>

MCSectorsOf == (small :> 1) @@ (large :> 2) @@ (overflowing :> 3)

StorageInit ==
    /\ part \in {"manager", "file"}
    /\ RegionManagerInit
    /\ RegionFileInit

StorageNext ==
    /\ UNCHANGED part
    /\ \/ part = "manager" /\ StoreNext /\ UNCHANGED regionFileVars
       \/ part = "file" /\ RegionFileNext /\ UNCHANGED rmVars

StorageSpec == StorageInit /\ [][StorageNext]_storageVars

-----------------------------------------------------------------------------
(* Properties *)

StorageTypeOK == RegionManagerTypeOK /\ RegionFileTypeOK

\* The header copy a Region object works from is the one its file has, whichever objects come and go
\* and whichever write of the file is cut short, until its stream fails.
HeadersAreCurrent == HeaderCoherent /\ HeaderIsFiles

StorageSymmetry == Symmetry \cup Permutations(RegionChunks)
=============================================================================
