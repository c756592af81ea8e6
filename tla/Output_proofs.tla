--------------------------- MODULE Output_proofs ---------------------------
(***************************************************************************)
(* Two commands that run again over what an earlier run left: proto/prune  *)
(* and `page`.                                                             *)
(*                                                                         *)
(* What proto/prune keeps and writes is exactly what its allowlist needs,  *)
(* for any descriptor set and any allowlists, however many runs there were *)
(* and whichever of them failed.  What `page` leaves in its directory is   *)
(* what it says it is, for any art, any answers of the sites and any       *)
(* number of runs.                                                         *)
(***************************************************************************)
EXTENDS Prune, Web, TLAPS

----------------------------------------------------------------------------
(***************************************************************************)
(* proto/prune.                                                            *)
(***************************************************************************)
LEMMA PruneTypeInit == PruneInit => PruneTypeOK
BY DEF PruneInit, PruneTypeOK, NoFiles

LEMMA ImportsAreFiles == ASSUME NEW t \in Types PROVE Imports(t) \subseteq Files
BY DescriptorsAssumption DEF Imports

LEMMA PruneTypeStep == PruneTypeOK /\ [PruneNext]_pruneVars => PruneTypeOK'
<1> SUFFICES ASSUME PruneTypeOK, [PruneNext]_pruneVars PROVE PruneTypeOK'
  OBVIOUS
<1> USE DEF PruneTypeOK
<1>1. ASSUME NEW allowed \in Allowlists, Generate(allowed) PROVE PruneTypeOK'
  BY <1>1 DEF Generate, Removed, NoFiles
<1>2. ASSUME NEW t \in Types, Visit(t) PROVE PruneTypeOK'
  BY <1>2 DEF Visit
<1>3. ASSUME NEW t \in Types, Emit(t) PROVE PruneTypeOK'
  BY <1>3, ImportsAreFiles DEF Emit, Kept
<1>4. ASSUME NEW f \in Files, FileDone(f) PROVE PruneTypeOK'
  BY <1>4 DEF FileDone
<1>5. ASSUME NEW f \in Files, WriteOut(f) PROVE PruneTypeOK'
  <2>1. ContentOf(f) \in SUBSET Types
    BY DEF ContentOf
  <2> QED
    BY <1>5, <2>1 DEF WriteOut, Fails
<1>6. CASE UnknownName
  BY <1>6 DEF UnknownName, Fails
<1>7. CASE ClosureDone
  BY <1>7 DEF ClosureDone
<1>8. CASE RunPlugin
  BY <1>8 DEF RunPlugin, Fails
<1>9. CASE Report
  BY <1>9 DEF Report
<1>10. CASE UNCHANGED pruneVars
  BY <1>10 DEF pruneVars
<1> QED
  BY <1>1, <1>2, <1>3, <1>4, <1>5, <1>6, <1>7, <1>8, <1>9, <1>10 DEF PruneNext

\* Every state of the pruner is well typed, and no file has a type that was not kept.
THEOREM PruneTypeCorrect == PruneSpec => []PruneTypeOK
BY PruneTypeInit, PruneTypeStep, PTL DEF PruneSpec

----------------------------------------------------------------------------
\* Nothing is visited, or about to be, that some sufficient set does not have.
Sufficient(S) == roots \cap Types \subseteq S /\ NeedsNothing(S)

LeastInv ==
  \A S \in SUBSET Types :
    Sufficient(S) => keep \subseteq S /\ toVisit \cap Types \subseteq S

LEMMA LeastInit == PruneInit => LeastInv
BY DEF PruneInit, LeastInv

LEMMA LeastStep == PruneTypeOK /\ LeastInv /\ [PruneNext]_pruneVars => LeastInv'
<1> SUFFICES ASSUME PruneTypeOK, LeastInv, [PruneNext]_pruneVars,
                    NEW S \in SUBSET Types, Sufficient(S)'
             PROVE  keep' \subseteq S /\ toVisit' \cap Types \subseteq S
  BY DEF LeastInv
<1>1. ASSUME NEW allowed \in Allowlists, Generate(allowed)
      PROVE  keep' \subseteq S /\ toVisit' \cap Types \subseteq S
  BY <1>1 DEF Generate, Sufficient
<1>2. ASSUME NEW t \in Types, Visit(t)
      PROVE  keep' \subseteq S /\ toVisit' \cap Types \subseteq S
  <2>1. Sufficient(S)
    BY <1>2 DEF Visit, Sufficient, NeedsNothing
  <2>2. keep \subseteq S /\ toVisit \cap Types \subseteq S /\ t \in S
    BY <1>2, <2>1 DEF Visit, LeastInv
  <2>3. Needs(t) \subseteq S
    BY <2>1, <2>2 DEF Sufficient, NeedsNothing, Needs
  <2> QED
    BY <1>2, <2>2, <2>3 DEF Visit
<1>3. ASSUME UNCHANGED <<roots, keep, toVisit>>
      PROVE  keep' \subseteq S /\ toVisit' \cap Types \subseteq S
  BY <1>3 DEF LeastInv, Sufficient, NeedsNothing
<1> QED
  BY <1>1, <1>2, <1>3 DEF PruneNext, Emit, FileDone, WriteOut, UnknownName, ClosureDone,
     RunPlugin, Report, Fails, pruneVars

----------------------------------------------------------------------------
\* While it visits, all that is needed was visited or is due; then it has it all.
Closing == roots \subseteq keep \cup toVisit /\ \A t \in keep : Needs(t) \subseteq keep \cup toVisit
Closed  == roots \subseteq keep /\ \A t \in keep : Needs(t) \subseteq keep

\* The import lists are those of the types emitted so far.
DepsRight ==
  \A f, g \in Files :
    g \in deps[f] <=> g # f /\ \E t \in emitted : FileOf[t] = f /\ \E r \in Refs[t] : FileOf[r] = g

FileComplete(f) == \A t \in keep : FileOf[t] = f => t \in emitted

RunInv ==
  /\ task = "closure" => Closing /\ toPrune = Files
  /\ task \in {"closure", "prune"} => outDir = NoFiles
  /\ task \in {"prune", "write", "done"} => Closed
  /\ task = "closure" => emitted = {}
  /\ task \in {"closure", "prune", "write", "done"} => DepsRight
  /\ task \in {"prune", "write", "done"} => \A f \in Files \ toPrune : FileComplete(f)
  /\ task \in {"write", "done"} => toPrune = {} /\ \A f \in Files : outDir[f] \in {{}, ContentOf(f)}
  /\ task = "done" => Unwritten = {}

LEMMA RunInit == PruneInit => RunInv
BY DEF PruneInit, RunInv

\* A file in which nothing can be emitted has all of its types: one that was left out
\* would be nested in another that was, and so on for ever.
LEMMA NothingKept ==
  ASSUME PruneTypeOK, Closed, NEW f \in Files, Kept(f) = {}
  PROVE  FileComplete(f)
<1> DEFINE Missing == {t \in keep \ emitted : FileOf[t] = f}
<1>1. Missing \in SUBSET Types
  BY DEF PruneTypeOK
<1>2. ASSUME NEW t \in Missing PROVE Parent[t] \in Missing
  <2>1. Parent[t] \notin emitted /\ Parent[t] # NoType
    BY DEF Kept
  <2>2. Parent[t] \in keep
    BY <2>1 DEF Closed, Needs
  <2> QED
    BY <1>1, <2>1, <2>2, DescriptorsAssumption
<1>3. Missing = {}
  BY <1>1, <1>2, NestingAssumption
<1> QED
  BY <1>3 DEF FileComplete

LEMMA EmitDeps ==
  ASSUME PruneTypeOK, DepsRight, NEW t \in Types, Emit(t) PROVE DepsRight'
<1> SUFFICES ASSUME NEW f \in Files, NEW g \in Files
             PROVE  g \in deps'[f] <=> g # f /\ \E u \in emitted' : FileOf[u] = f /\
                                                   \E r \in Refs[u] : FileOf[r] = g
  BY DEF DepsRight
<1>1. emitted' = emitted \cup {t} /\ FileOf[t] \in Files
  BY DescriptorsAssumption DEF Emit
<1>2. CASE f = FileOf[t]
  <2>1. deps'[f] = deps[f] \cup Imports(t)
    BY <1>2, <1>1 DEF Emit, PruneTypeOK
  <2>2. g \in Imports(t) <=> g # f /\ \E r \in Refs[t] : FileOf[r] = g
    BY <1>2 DEF Imports
  <2> QED
    BY <1>1, <1>2, <2>1, <2>2 DEF DepsRight
<1>3. CASE f # FileOf[t]
  <2>1. deps'[f] = deps[f]
    BY <1>3 DEF Emit, PruneTypeOK
  <2> QED
    BY <1>1, <1>3, <2>1 DEF DepsRight
<1> QED
  BY <1>2, <1>3

LEMMA RunStep == PruneTypeOK /\ RunInv /\ [PruneNext]_pruneVars => RunInv'
<1> SUFFICES ASSUME PruneTypeOK, RunInv, [PruneNext]_pruneVars PROVE RunInv'
  OBVIOUS
<1>1. ASSUME NEW allowed \in Allowlists, Generate(allowed) PROVE RunInv'
  BY <1>1 DEF Generate, Removed, RunInv, Closing, DepsRight, NoFiles
<1>2. ASSUME NEW t \in Types, Visit(t) PROVE RunInv'
  <2>1. Closing'
    BY <1>2 DEF Visit, RunInv, Closing, Needs
  <2>2. DepsRight'
    BY <1>2 DEF Visit, RunInv, DepsRight
  <2> QED
    BY <1>2, <2>1, <2>2 DEF Visit, RunInv
<1>3. ASSUME NEW t \in Types, Emit(t) PROVE RunInv'
  <2>1. DepsRight'
    BY <1>3, EmitDeps DEF RunInv, Emit
  <2>2. Closed' /\ \A f \in Files \ toPrune' : FileComplete(f)'
    BY <1>3 DEF Emit, RunInv, Closed, Needs, FileComplete
  <2> QED
    BY <1>3, <2>1, <2>2 DEF Emit, RunInv
<1>4. ASSUME NEW f \in Files, FileDone(f) PROVE RunInv'
  <2>1. FileComplete(f)
    BY <1>4, NothingKept DEF FileDone, RunInv
  <2>2. Closed' /\ DepsRight' /\ \A g \in Files \ toPrune' : FileComplete(g)'
    BY <1>4, <2>1 DEF FileDone, RunInv, Closed, Needs, DepsRight, FileComplete
  <2> QED
    BY <1>4, <2>2 DEF FileDone, RunInv
<1>5. ASSUME NEW f \in Files, WriteOut(f) PROVE RunInv'
  <2>1. CASE Fails
    BY <1>5, <2>1 DEF Fails, RunInv
  <2>2. CASE ~Fails
    <3>1. /\ outDir' = [outDir EXCEPT ![f] = ContentOf(f)]
          /\ UNCHANGED <<task, roots, toVisit, keep, toPrune, emitted, deps>>
          /\ task = "write"
      BY <1>5, <2>2 DEF WriteOut
    <3>2. \A g \in Files : outDir'[g] \in {{}, ContentOf(g)'}
      BY <3>1 DEF RunInv, ContentOf, PruneTypeOK
    <3>3. Closed' /\ DepsRight' /\ \A g \in Files \ toPrune' : FileComplete(g)'
      BY <3>1 DEF RunInv, Closed, Needs, DepsRight, FileComplete
    <3> QED
      BY <3>1, <3>2, <3>3 DEF RunInv
  <2> QED
    BY <2>1, <2>2
<1>6. CASE UnknownName
  BY <1>6 DEF UnknownName, Fails, RunInv
<1>7. CASE ClosureDone
  <2>1. Closed' /\ DepsRight'
    BY <1>7 DEF ClosureDone, RunInv, Closing, Closed, Needs, DepsRight
  <2> QED
    BY <1>7, <2>1 DEF ClosureDone, RunInv
<1>8. CASE RunPlugin
  <2>1. CASE Fails
    BY <1>8, <2>1 DEF Fails, RunInv
  <2>2. CASE ~Fails
    <3>1. /\ task' = "write" /\ task = "prune" /\ toPrune = {}
          /\ UNCHANGED <<roots, toVisit, keep, toPrune, emitted, deps, outDir>>
      BY <1>8, <2>2 DEF RunPlugin
    <3>2. Closed' /\ DepsRight' /\ \A g \in Files \ toPrune' : FileComplete(g)'
      BY <3>1 DEF RunInv, Closed, Needs, DepsRight, FileComplete
    <3>3. \A g \in Files : outDir'[g] = {}
      BY <3>1 DEF RunInv, NoFiles
    <3> QED
      BY <3>1, <3>2, <3>3 DEF RunInv
  <2> QED
    BY <2>1, <2>2
<1>9. CASE Report
  <2>1. Closed' /\ DepsRight' /\ \A g \in Files \ toPrune' : FileComplete(g)'
    BY <1>9 DEF Report, RunInv, Closed, Needs, DepsRight, FileComplete
  <2> QED
    BY <1>9, <2>1 DEF Report, RunInv, Unwritten, Generated, ContentOf
<1>10. CASE UNCHANGED pruneVars
  BY <1>10 DEF pruneVars, RunInv, Closing, Closed, Needs, DepsRight, FileComplete, Unwritten,
     Generated, ContentOf
<1> QED
  BY <1>1, <1>2, <1>3, <1>4, <1>5, <1>6, <1>7, <1>8, <1>9, <1>10 DEF PruneNext

\* The state in which a run is done has everything, in its place.
LEMMA DoneIsRight == PruneTypeOK /\ RunInv => SelfContained
<1> SUFFICES ASSUME PruneTypeOK, RunInv, task = "done" PROVE SelfContained
  BY DEF SelfContained
<1> DEFINE there == UNION {outDir[f] : f \in Files}
<1>1. emitted = keep
  BY DescriptorsAssumption DEF PruneTypeOK, RunInv, FileComplete
<1>2. \A f \in Files : outDir[f] = ContentOf(f)
  BY DEF RunInv, Unwritten, Generated, ContentOf
<1>3. there = keep
  BY <1>1, <1>2, DescriptorsAssumption DEF ContentOf, PruneTypeOK
<1>4. roots \subseteq there /\ NeedsNothing(there)
  <2>1. roots \subseteq keep /\ \A t \in keep : Needs(t) \subseteq keep
    BY DEF RunInv, Closed
  <2> QED
    BY <1>3, <2>1 DEF NeedsNothing, Needs
<1>5. \A f \in Files : outDir[f] = {t \in there : FileOf[t] = f}
  BY <1>1, <1>2, <1>3 DEF ContentOf
<1>6. ASSUME NEW f \in Files
      PROVE  deps[f] = {FileOf[r] : r \in UNION {Refs[t] : t \in outDir[f]}} \ {f}
  <2> DEFINE needed == {FileOf[r] : r \in UNION {Refs[t] : t \in outDir[f]}}
  <2>1. needed \subseteq Files
    BY <1>2, DescriptorsAssumption DEF ContentOf, PruneTypeOK
  <2>2. \A g \in Files : g \in needed <=>
          \E t \in emitted : FileOf[t] = f /\ \E r \in Refs[t] : FileOf[r] = g
    BY <1>2 DEF ContentOf
  <2>3. \A g \in Files : g \in deps[f] <=> g \in needed /\ g # f
    BY <2>2 DEF RunInv, DepsRight
  <2>4. deps[f] \subseteq Files
    BY DEF PruneTypeOK
  <2> QED
    BY <2>1, <2>3, <2>4
<1>7. ASSUME NEW f \in Files, NEW g \in deps[f] PROVE outDir[g] # {}
  <2>1. g \in Files
    BY <1>7 DEF PruneTypeOK
  <2>2. PICK t \in emitted : \E r \in Refs[t] : FileOf[r] = g
    BY <1>7, <2>1 DEF RunInv, DepsRight
  <2>3. PICK r \in Refs[t] : FileOf[r] = g
    BY <2>2
  <2>4. r \in emitted
    BY <1>1, <2>2, <2>3 DEF RunInv, Closed, Needs
  <2> QED
    BY <1>2, <2>1, <2>3, <2>4 DEF ContentOf
<1> QED
  BY <1>3, <1>4, <1>5, <1>6, <1>7 DEF SelfContained

\* For any descriptor set and allowlists, whatever runs went before: no type is kept that
\* some sufficient set leaves out, and a run that is done has written exactly what it kept.
THEOREM ExactlyNeededCorrect == PruneSpec => []ExactlyNeeded
<1>1. LeastInv => OnlyNeeded
  BY DEF LeastInv, OnlyNeeded, Sufficient
<1>2. PruneTypeOK /\ LeastInv /\ RunInv => ExactlyNeeded
  BY <1>1, DoneIsRight DEF ExactlyNeeded
<1> QED
  BY PruneTypeInit, PruneTypeStep, LeastInit, LeastStep, RunInit, RunStep, <1>2, PTL
     DEF PruneSpec

----------------------------------------------------------------------------
(***************************************************************************)
(* page.                                                                   *)
(***************************************************************************)
LEMMA EmptyIs == DOMAIN Empty = {}
BY DEF Empty

\* A list of art in which every label comes once.
LabelsOnce(list) ==
  /\ \E S : list \in Seq(S)
  /\ \A j, k \in DOMAIN list : list[j].label = list[k].label => j = k

LEMMA TailOnce ==
  ASSUME NEW list, LabelsOnce(list), list # <<>>
  PROVE  /\ LabelsOnce(Tail(list))
         /\ \A k \in DOMAIN Tail(list) :
              /\ Tail(list)[k].label # Head(list).label
              /\ \E j \in DOMAIN list : list[j].label = Tail(list)[k].label
<1>1. PICK S : list \in Seq(S)
  BY DEF LabelsOnce
<1>2. /\ Tail(list) \in Seq(S) /\ Head(list) = list[1] /\ 1 \in DOMAIN list
      /\ \A k \in DOMAIN Tail(list) : k + 1 \in DOMAIN list /\ k + 1 # 1 /\ Tail(list)[k] = list[k + 1]
      /\ \A k \in DOMAIN Tail(list) : k \in Nat
  BY <1>1
<1>3. ASSUME NEW j \in DOMAIN Tail(list), NEW k \in DOMAIN Tail(list),
             Tail(list)[j].label = Tail(list)[k].label
      PROVE  j = k
  <2>1. j + 1 = k + 1
    BY <1>2, <1>3 DEF LabelsOnce
  <2> QED BY <1>2, <2>1
<1>4. ASSUME NEW k \in DOMAIN Tail(list) PROVE Tail(list)[k].label # Head(list).label
  BY <1>2 DEF LabelsOnce
<1> QED
  BY <1>2, <1>3, <1>4 DEF LabelsOnce

LEMMA ConcatOnce ==
  ASSUME NEW s, NEW t, LabelsOnce(s), LabelsOnce(t),
         \A j \in DOMAIN s, k \in DOMAIN t : s[j].label # t[k].label
  PROVE  LabelsOnce(s \o t)
<1>1. PICK S : s \in Seq(S)
  BY DEF LabelsOnce
<1>2. PICK T : t \in Seq(T)
  BY DEF LabelsOnce
<1>3. s \in Seq(S \cup T) /\ t \in Seq(S \cup T)
  BY <1>1, <1>2
<1>4. s \o t \in Seq(S \cup T) /\ Len(s \o t) = Len(s) + Len(t)
  BY <1>3
<1>5. \A k \in DOMAIN (s \o t) :
        \/ k \in DOMAIN s /\ (s \o t)[k] = s[k]
        \/ k - Len(s) \in DOMAIN t /\ (s \o t)[k] = t[k - Len(s)] /\ k \notin DOMAIN s /\ k \in Int
  BY <1>3, <1>4
<1>6. ASSUME NEW j \in DOMAIN (s \o t), NEW k \in DOMAIN (s \o t),
             (s \o t)[j].label = (s \o t)[k].label
      PROVE  j = k
  <2>1. CASE j \in DOMAIN s /\ (s \o t)[j] = s[j] /\ k \in DOMAIN s /\ (s \o t)[k] = s[k]
    BY <1>6, <2>1 DEF LabelsOnce
  <2>2. CASE /\ j - Len(s) \in DOMAIN t /\ (s \o t)[j] = t[j - Len(s)] /\ j \in Int
             /\ k - Len(s) \in DOMAIN t /\ (s \o t)[k] = t[k - Len(s)] /\ k \in Int
    <3>1. j - Len(s) = k - Len(s)
      BY <1>6, <2>2 DEF LabelsOnce
    <3>2. Len(s) \in Nat
      BY <1>3
    <3> QED BY <2>2, <3>1, <3>2
  <2> QED BY <1>5, <1>6, <2>1, <2>2
<1> QED
  BY <1>4, <1>6 DEF LabelsOnce

LEMMA ConcatFrom ==
  ASSUME NEW s, NEW t, LabelsOnce(s), LabelsOnce(t), NEW k \in DOMAIN (s \o t)
  PROVE  \/ \E j \in DOMAIN s : (s \o t)[k] = s[j]
         \/ \E j \in DOMAIN t : (s \o t)[k] = t[j]
<1>1. PICK S : s \in Seq(S)
  BY DEF LabelsOnce
<1>2. PICK T : t \in Seq(T)
  BY DEF LabelsOnce
<1>3. s \in Seq(S \cup T) /\ t \in Seq(S \cup T)
  BY <1>1, <1>2
<1>4. \/ k \in DOMAIN s /\ (s \o t)[k] = s[k]
      \/ k - Len(s) \in DOMAIN t /\ (s \o t)[k] = t[k - Len(s)]
  BY <1>3
<1> QED BY <1>4

\* The labels of the art an app's info names, and of that its page has.
LEMMA AssetsOnce ==
  ASSUME NEW common \in Commons
  PROVE  /\ LabelsOnce(Assets(common))
         /\ \A k \in DOMAIN Assets(common) :
              /\ Len(Assets(common)[k].label) = 1
              /\ Assets(common)[k].label \notin {<<"store_header">>, <<"background">>}
<1>1. /\ DOMAIN common = 1 .. Len(common) /\ Len(common) \in Nat
      /\ \A k \in DOMAIN common :
            /\ Len(common[k].label) = 1
            /\ common[k].label \notin {<<"store_header">>, <<"background">>}
      /\ \A j, k \in DOMAIN common : common[j].label = common[k].label => j = k
  BY WebAssumption DEF WebAssumption
<1>2. /\ DOMAIN Assets(common) = 1 .. Len(common)
      /\ \A k \in DOMAIN common : Assets(common)[k].label = common[k].label
  BY <1>1 DEF Assets
<1>3. \E S : Assets(common) \in Seq(S)
  <2> DEFINE S == {Assets(common)[k] : k \in DOMAIN common}
  <2>1. Assets(common) = [k \in 1 .. Len(common) |-> Assets(common)[k]]
    BY <1>1 DEF Assets
  <2>2. Assets(common) \in [1 .. Len(common) -> S]
    BY <1>1, <2>1
  <2> HIDE DEF S
  <2>3. Assets(common) \in Seq(S)
    BY <1>1, <2>2
  <2> QED BY <2>3
<1> QED
  BY <1>1, <1>2, <1>3 DEF LabelsOnce

LEMMA NumberedOnce ==
  ASSUME NEW label, NEW paths, DOMAIN paths = 1 .. Len(paths), Len(paths) \in Nat
  PROVE  /\ LabelsOnce(Numbered(label, paths))
         /\ \A k \in DOMAIN Numbered(label, paths) : Len(Numbered(label, paths)[k].label) = 2
<1> DEFINE list == Numbered(label, paths)
           S == {list[k] : k \in DOMAIN paths}
<1>1. /\ DOMAIN list = 1 .. Len(paths)
      /\ \A k \in DOMAIN list : list[k].label = <<label, k>>
      /\ list = [k \in 1 .. Len(paths) |-> list[k]]
  BY DEF Numbered
<1>2. list \in Seq(S)
  <2>1. list \in [1 .. Len(paths) -> S]
    BY <1>1
  <2> HIDE DEF list, S
  <2> QED BY <2>1
<1>3. \A k \in DOMAIN list : Len(list[k].label) = 2
  <2>1. \A k : Len(<<label, k>>) = 2
    OBVIOUS
  <2> HIDE DEF list
  <2> QED BY <1>1, <2>1
<1>4. \A j, k \in DOMAIN list : list[j].label = list[k].label => j = k
  <2> HIDE DEF list
  <2> QED BY <1>1
<1> HIDE DEF S
<1> QED
  BY <1>2, <1>3, <1>4 DEF LabelsOnce

LEMMA PageArtOnce ==
  ASSUME NEW data, DOMAIN data.screenshots = 1 .. Len(data.screenshots),
         Len(data.screenshots) \in Nat
  PROVE  /\ LabelsOnce(PageArt(data))
         /\ \A k \in DOMAIN PageArt(data) :
              \/ Len(PageArt(data)[k].label) = 2
              \/ PageArt(data)[k].label \in {<<"store_header">>, <<"background">>}
<1> DEFINE two == <<[label |-> <<"store_header">>, path |-> data.header],
                    [label |-> <<"background">>, path |-> data.background]>>
           more == Numbered("screenshot", data.screenshots)
<1>1. /\ LabelsOnce(more)
      /\ \A k \in DOMAIN more : Len(more[k].label) = 2
  BY NumberedOnce
<1>2. /\ DOMAIN two = 1 .. 2 /\ Len(two) = 2
      /\ two[1].label = <<"store_header">> /\ two[2].label = <<"background">>
      /\ two \in Seq({two[1], two[2]})
  OBVIOUS
<1>3. <<"store_header">> # <<"background">>
  <2>1. <<"store_header">>[1] # <<"background">>[1]
    OBVIOUS
  <2> QED BY <2>1
<1>4. Len(<<"store_header">>) = 1 /\ Len(<<"background">>) = 1
  OBVIOUS
<1>5. PageArt(data) = two \o more
  BY DEF PageArt
<1> HIDE DEF two, more
<1>6. LabelsOnce(two)
  BY <1>2, <1>3 DEF LabelsOnce
<1>7. \A j \in DOMAIN two, k \in DOMAIN more : two[j].label # more[k].label
  BY <1>1, <1>2, <1>4
<1>8. ASSUME NEW k \in DOMAIN (two \o more)
      PROVE  \/ Len((two \o more)[k].label) = 2
             \/ (two \o more)[k].label \in {<<"store_header">>, <<"background">>}
  <2>1. CASE \E j \in DOMAIN two : (two \o more)[k] = two[j]
    <3>1. \A j \in DOMAIN two : j = 1 \/ j = 2
      BY <1>2
    <3> QED BY <1>2, <2>1, <3>1
  <2>2. CASE \E j \in DOMAIN more : (two \o more)[k] = more[j]
    BY <1>1, <2>2
  <2> QED BY <1>1, <1>6, <1>8, <2>1, <2>2, ConcatFrom
<1> QED
  BY <1>1, <1>5, <1>6, <1>7, <1>8, ConcatOnce

\* Every label comes once in all that is to be got.
LEMMA ArtOnce ==
  ASSUME NEW common \in Commons, NEW answer \in StoreAnswers, answer.kind = "page"
  PROVE  LabelsOnce(Assets(common) \o PageArt(answer.data))
<1>1. /\ DOMAIN answer.data.screenshots = 1 .. Len(answer.data.screenshots)
      /\ Len(answer.data.screenshots) \in Nat
  BY WebAssumption DEF WebAssumption
<1>2. \A j \in DOMAIN Assets(common), k \in DOMAIN PageArt(answer.data) :
        Assets(common)[j].label # PageArt(answer.data)[k].label
  <2> SUFFICES ASSUME NEW j \in DOMAIN Assets(common), NEW k \in DOMAIN PageArt(answer.data)
               PROVE  Assets(common)[j].label # PageArt(answer.data)[k].label
    OBVIOUS
  <2>1. /\ Len(Assets(common)[j].label) = 1
        /\ Assets(common)[j].label \notin {<<"store_header">>, <<"background">>}
    BY AssetsOnce
  <2>2. \/ Len(PageArt(answer.data)[k].label) = 2
        \/ PageArt(answer.data)[k].label \in {<<"store_header">>, <<"background">>}
    BY <1>1, PageArtOnce
  <2> QED BY <2>1, <2>2
<1> QED
  BY <1>1, <1>2, AssetsOnce, PageArtOnce, ConcatOnce

----------------------------------------------------------------------------
\* A label that is still to be got is not listed.
Due == LabelsOnce(art) /\ \A k \in DOMAIN art : art[k].label \notin DOMAIN listed

\* A download is of the first label, into a name that is its own.
UnderWay ==
  doing \in {"copy", "rename"} => art # <<>> /\ version \in Versions /\ tmp[1] = Head(art).label

\* A listed name begins with its label, and holds what was served for it.
Listed ==
  /\ DOMAIN served = DOMAIN listed
  /\ \A label \in DOMAIN listed :
       /\ listed[label][1] = label
       /\ listed[label] \in DOMAIN dir /\ dir[listed[label]] = served[label]

Saved ==
  /\ \A name \in DOMAIN dir : dir[name] \in Versions
  /\ \A files \in pageJSON : \A label \in DOMAIN files : files[label] \in DOMAIN dir

WebInv == Due /\ UnderWay /\ Listed /\ Saved

LEMMA EmptyOnce == LabelsOnce(<<>>)
<1>1. <<>> \in Seq({}) /\ DOMAIN <<>> = {}
  OBVIOUS
<1> QED BY <1>1 DEF LabelsOnce

LEMMA WebInvInit == WebInit => WebInv
BY EmptyIs, EmptyOnce DEF WebInit, NothingUnderWay, WebInv, Due, UnderWay, Listed, Saved, Empty

\* The next label, and nothing else.
LEMMA NextLabelKeeps ==
  ASSUME WebInv, NextLabel, art # <<>>, UNCHANGED <<listed, served, dir, pageJSON>>
  PROVE  WebInv'
<1>1. Due'
  BY TailOnce DEF WebInv, Due, NextLabel
<1>2. UnderWay'
  BY DEF NextLabel, UnderWay
<1> QED
  BY <1>1, <1>2 DEF WebInv, Listed, Saved

LEMMA WebInvNext == WebInv /\ [WebNext]_webVars => WebInv'
<1> SUFFICES ASSUME WebInv, [WebNext]_webVars PROVE WebInv'
  OBVIOUS
<1>1. ASSUME NEW common \in Commons, NEW answer \in StoreAnswers, Page(common, answer)
      PROVE WebInv'
  <2>1. LabelsOnce(art')
    BY <1>1, ArtOnce, AssetsOnce DEF Page
  <2>2. listed' = Empty /\ served' = Empty /\ doing' = "art" /\ dir' = dir /\ pageJSON' = pageJSON
    BY <1>1 DEF Page, Begins, diskVars
  <2> QED BY <2>1, <2>2, EmptyIs DEF WebInv, Due, UnderWay, Listed, Saved
<1>2. CASE SkipLabel \/ GetFails
  BY <1>2, NextLabelKeeps DEF SkipLabel, GetFails, Getting, diskVars
<1>3. ASSUME NEW v \in Versions, NEW ending, GetAnswered(v, ending) PROVE WebInv'
  <2>1. /\ art # <<>> /\ art' = art /\ listed' = listed /\ served' = served /\ dir' = dir
        /\ pageJSON' = pageJSON /\ version' = v /\ tmp'[1] = Head(art).label
    BY <1>3 DEF GetAnswered, Getting, Aside, FileName
  <2> QED BY <2>1 DEF WebInv, Due, UnderWay, Listed, Saved
<1>4. CASE CopyBreaks \/ SaveArtFails
  BY <1>4, NextLabelKeeps DEF CopyBreaks, SaveArtFails, diskVars, WebInv, UnderWay
<1>5. CASE Copied
  BY <1>5 DEF Copied, pageVars, diskVars, WebInv, Due, UnderWay, Listed, Saved
<1>6. CASE RenameArt
  <2> DEFINE label == Head(art).label
  <2>1. /\ art # <<>> /\ version \in Versions /\ tmp[1] = label
        /\ dir' = Put(dir, tmp, version) /\ listed' = Put(listed, label, tmp)
        /\ served' = Put(served, label, version) /\ NextLabel /\ pageJSON' = pageJSON
    BY <1>6 DEF RenameArt, WebInv, UnderWay
  <2>2. label \notin DOMAIN listed
    <3>1. 1 \in DOMAIN art /\ Head(art) = art[1]
      BY <2>1 DEF WebInv, Due, LabelsOnce
    <3> QED BY <3>1 DEF WebInv, Due
  <2>3. Due'
    <3>1. /\ LabelsOnce(Tail(art))
          /\ \A k \in DOMAIN Tail(art) : Tail(art)[k].label # label
                                         /\ Tail(art)[k].label \notin DOMAIN listed
      BY <2>1, TailOnce DEF WebInv, Due
    <3> QED BY <2>1, <3>1 DEF Due, NextLabel, Put
  <2>4. UnderWay'
    BY <2>1 DEF UnderWay, NextLabel
  <2>5. Saved'
    BY <2>1 DEF WebInv, Saved, Put
  <2>6. Listed'
    <3> HIDE DEF label
    <3>1. DOMAIN listed' = DOMAIN listed \cup {label} /\ DOMAIN served' = DOMAIN listed'
      BY <2>1 DEF WebInv, Listed, Put
    <3>2. listed'[label] = tmp /\ dir'[tmp] = version /\ tmp \in DOMAIN dir'
          /\ served'[label] = version
      BY <2>1 DEF Put
    <3>3. ASSUME NEW l \in DOMAIN listed
          PROVE  /\ listed'[l][1] = l
                 /\ listed'[l] \in DOMAIN dir' /\ dir'[listed'[l]] = served'[l]
      <4>1. l # label /\ listed[l] # tmp
        BY <2>1, <2>2 DEF WebInv, Listed
      <4>2. listed'[l] = listed[l] /\ served'[l] = served[l]
        BY <2>1, <4>1 DEF WebInv, Listed, Put
      <4> QED BY <2>1, <4>1, <4>2 DEF WebInv, Listed, Put
    <3> QED BY <2>1, <3>1, <3>2, <3>3 DEF Listed
  <2> QED BY <2>3, <2>4, <2>5, <2>6 DEF WebInv
<1>7. CASE CutJSON
  BY <1>7 DEF CutJSON, pageVars, WebInv, Due, UnderWay, Listed, Saved
<1>8. CASE WriteJSON
  BY <1>8 DEF WriteJSON, pageVars, WebInv, Due, UnderWay, Listed, Saved
<1>9. CASE KillPage
  BY <1>9, EmptyOnce DEF KillPage, diskVars, WebInv, Due, UnderWay, Listed, Saved
<1>10. ASSUME doing' = "done", UNCHANGED <<pageVars, diskVars>> PROVE WebInv'
  BY <1>10 DEF pageVars, diskVars, WebInv, Due, UnderWay, Listed, Saved
<1>11. ASSUME NEW list \in AppLists, PartnerApps(list) PROVE WebInv'
  BY <1>10, <1>11 DEF PartnerApps, Prints, Begins
<1>12. ASSUME NEW list \in BuildLists, Builds(list) PROVE WebInv'
  BY <1>10, <1>12 DEF Builds, Prints, Begins
<1>13. CASE NoPublisherKey \/ PartnerFails
  BY <1>10, <1>13 DEF NoPublisherKey, PartnerFails, Prints, Begins
<1>14. CASE UNCHANGED webVars
  BY <1>14 DEF webVars, pageVars, diskVars, WebInv, Due, UnderWay, Listed, Saved
<1> QED
  BY <1>1, <1>2, <1>3, <1>4, <1>5, <1>6, <1>7, <1>8, <1>9, <1>11, <1>12, <1>13, <1>14 DEF WebNext

\* A file in the directory of `page` is whole, a label is listed with a file of its own
\* that holds what was served for it, and page.json names files that are there: for any
\* art, any answers, and any runs wherever they break off (assets.go:55-69).
THEOREM FilesWholeCorrect == WebSpec => []FilesWhole
<1>1. WebInv => FilesWhole
  BY DEF WebInv, Listed, Saved, FilesWhole
<1> QED
  BY <1>1, WebInvInit, WebInvNext, PTL DEF WebSpec
=============================================================================
