------------------------------ MODULE Install ------------------------------
(***************************************************************************)
(* What depot.Download promises the one who keeps asking for the build he  *)
(* asked for: a directory goes from the build on record to the build       *)
(* wanted in one step, whatever happens in between.  Until then nothing is *)
(* said of the files of either build, and nobody touches another file.     *)
(***************************************************************************)
CONSTANTS Builds, Files, Manifest, NoBuild, Absent, Leftovers

VARIABLES
  record,   \* the build on record, NoBuild when there is none
  wanted,   \* the build whose installation has begun and not succeeded
  dir       \* what the files one may rely on hold

FilesOf(b) == {f \in Files : Manifest[b][f] # Absent}
Recorded == IF record = NoBuild THEN {} ELSE FilesOf(record)

Init ==
  /\ \/ record = NoBuild /\ dir \in [Files -> Leftovers]
     \/ record \in Builds /\ dir = Manifest[record]
  /\ wanted = NoBuild

\* Download is called for another build than before, or for the first time.
Begin(b) ==
  /\ wanted = NoBuild
  /\ wanted' = b
  /\ dir' = [f \in Files \ (Recorded \cup FilesOf(b)) |-> dir[f]]
  /\ UNCHANGED record

\* Download returns without an error: files of the old build are gone, those
\* of the new one are there, all others are what they were.
Finish ==
  /\ wanted # NoBuild
  /\ dir' = [f \in Files |-> IF f \in FilesOf(wanted) THEN Manifest[wanted][f]
                             ELSE IF f \in Recorded THEN Absent ELSE dir[f]]
  /\ record' = wanted /\ wanted' = NoBuild

\* The record is given up.  When the installation of another build was
\* interrupted, some files of the old one may already be gone.
Forget ==
  /\ record # NoBuild /\ record' = NoBuild
  /\ \E gone \in SUBSET (Recorded \ DOMAIN dir) :
       LET back == IF wanted = NoBuild THEN {} ELSE Recorded \ FilesOf(wanted)
       IN  dir' = [f \in DOMAIN dir \cup back |->
                     IF f \in DOMAIN dir THEN dir[f]
                     ELSE IF f \in gone THEN Absent ELSE Manifest[record][f]]
  /\ UNCHANGED wanted

Next == (\E b \in Builds : Begin(b)) \/ Finish \/ Forget

vars == <<record, wanted, dir>>
Spec == Init /\ [][Next]_vars
============================================================================
