------------------------------ MODULE MCDepot ------------------------------
(***************************************************************************)
(* Depot with a few small builds, in four sets.  From A to B, f1 keeps its *)
(* size and moves a chunk, f2 keeps one and grows, and both gain the same  *)
(* new one; f3 goes away, and comes back from B to A.                      *)
(*                                                                         *)
(* In the second set a file that was empty gets chunks.                    *)
(*                                                                         *)
(* In the sets of three builds files keep their sizes, and f1 goes back in *)
(* C to what it was in A.  In the first f2 is gone from C; in the second   *)
(* it comes with B and has in C a chunk that f1 has as well.               *)
(***************************************************************************)
EXTENDS Depot, TLC

CONSTANTS A, B, C, f1, f2, f3, c1, c2, c3, c4

MCManifest ==
  (A :> (f1 :> <<c1, c2>> @@ f2 :> <<c3>> @@ f3 :> <<c2>>)) @@
  (B :> (f1 :> <<c2, c4>> @@ f2 :> <<c3, c4>> @@ f3 :> Absent))

MCEmpty ==
  (A :> (f1 :> <<>>)) @@
  (B :> (f1 :> <<c1, c2>>))

MCThreeBuilds ==
  (A :> (f1 :> <<c1, c2>> @@ f2 :> <<c3>> @@ f3 :> Absent)) @@
  (B :> (f1 :> <<c2, c4>> @@ f2 :> <<c4>> @@ f3 :> Absent)) @@
  (C :> (f1 :> <<c1, c2>> @@ f2 :> Absent @@ f3 :> <<c4>>))

MCBack ==
  (A :> (f1 :> <<c1, c2>> @@ f2 :> Absent)) @@
  (B :> (f1 :> <<c2, c4>> @@ f2 :> <<c4>>)) @@
  (C :> (f1 :> <<c1, c2>> @@ f2 :> <<c1>>))

\* A directory with no record beside it is empty, and a file that somebody
\* changes between runs is deleted.
Nothing == {Absent}
============================================================================
