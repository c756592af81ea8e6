------------------------------- MODULE Prune -------------------------------
(***************************************************************************)
(* proto/prune (src/proto/prune/main.go), run by proto/generate.sh: from   *)
(* all of Steam's message types it keeps those an allowlist names and what *)
(* they need, and writes a Go file for each proto file of which anything   *)
(* is left.  Each run starts by removing what the last one wrote.          *)
(*                                                                         *)
(* The descriptor set is external: protoc has resolved every type name in  *)
(* it.  Steam's protos have no package, so a type at top level has no      *)
(* parent.  What is in a field, an option or a comment is left out.        *)
(***************************************************************************)
CONSTANTS
  Types,      \* full names of messages and enums
  Files,
  FileOf,     \* FileOf[t]: the file that defines t
  Parent,     \* Parent[t]: the message t is nested in, or NoType
  Refs,       \* Refs[t]: the types of t's fields
  NoType,
  Allowlists  \* what readAllowlist may give: sets of names

ASSUME DescriptorsAssumption ==
  /\ FileOf \in [Types -> Files]
  /\ Parent \in [Types -> Types \cup {NoType}] /\ NoType \notin Types
  /\ Refs \in [Types -> SUBSET Types]
  /\ \A t \in Types : Parent[t] # NoType => FileOf[Parent[t]] = FileOf[t]

\* Every type is nested in finitely many others, the outermost in none.
ASSUME NestingAssumption ==
  \A S \in SUBSET Types : (\A t \in S : Parent[t] \in S) => S = {}

VARIABLES
  task,       \* what the run does, or how it ended
  roots,      \* the allowlist
  toVisit,    \* names closure is about to visit
  keep,       \* names it visited
  toPrune,    \* files pruneFile has still to look at
  emitted,    \* types in the pruned files
  deps,       \* deps[f]: the import list of the pruned file
  outDir      \* outDir[f]: the types in the Go file of f; none when there is no file

pruneVars == <<task, roots, toVisit, keep, toPrune, emitted, deps, outDir>>

NoFiles == [f \in Files |-> {}]

PruneInit ==
  /\ task = "none" /\ roots = {} /\ toVisit = {} /\ keep = {}
  /\ toPrune = {} /\ emitted = {} /\ deps = NoFiles /\ outDir = NoFiles

Removed == NoFiles

\* generate.sh, from the start, whatever became of the run before.
Generate(allowed) ==
  /\ task \in {"none", "done", "failed"}
  /\ task' = "closure" /\ roots' = allowed /\ toVisit' = allowed
  /\ keep' = {} /\ toPrune' = Files /\ emitted' = {} /\ deps' = NoFiles
  /\ outDir' = Removed

\* log.Fatal, wherever a step can fail.
Fails ==
  /\ task' = "failed"
  /\ UNCHANGED <<roots, toVisit, keep, toPrune, emitted, deps, outDir>>

\* Mutant: the enclosing message is not needed.
OnlyFields(name) == Refs[name]

Needs(name) == Refs[name] \cup ({Parent[name]} \ {NoType})

\* closure: one call of visit, for one of the names whose visit is due.
Visit(name) ==
  /\ task = "closure" /\ name \in toVisit /\ name \in Types
  /\ keep' = keep \cup {name}
  /\ toVisit' = (toVisit \cup Needs(name)) \ keep'
  /\ UNCHANGED <<task, roots, toPrune, emitted, deps, outDir>>

UnknownName == task = "closure" /\ toVisit \ Types # {} /\ Fails

ClosureDone ==
  /\ task = "closure" /\ toVisit = {}
  /\ task' = "prune"
  /\ UNCHANGED <<roots, toVisit, keep, toPrune, emitted, deps, outDir>>

\* pruneFile, pruneMessages and pruneEnums: the next type of a file that is kept;
\* a nested one is only looked at within its message.
Kept(f) ==
  {t \in keep \ emitted : FileOf[t] = f /\ Parent[t] \in emitted \cup {NoType}}

Imports(t) == {FileOf[r] : r \in Refs[t]} \ {FileOf[t]}

Emit(t) ==
  /\ task = "prune" /\ FileOf[t] \in toPrune /\ t \in Kept(FileOf[t])
  /\ emitted' = emitted \cup {t}
  /\ deps' = [deps EXCEPT ![FileOf[t]] = @ \cup Imports(t)]
  /\ UNCHANGED <<task, roots, toVisit, keep, toPrune, outDir>>

FileDone(f) ==
  /\ task = "prune" /\ f \in toPrune /\ Kept(f) = {}
  /\ toPrune' = toPrune \ {f}
  /\ UNCHANGED <<task, roots, toVisit, keep, emitted, deps, outDir>>

\* The files that are generated: those of which something is left.
Generated == {FileOf[t] : t \in emitted}

RunPlugin ==
  /\ task = "prune" /\ toPrune = {}
  /\ \/ Fails
     \/ /\ task' = "write"
        /\ UNCHANGED <<roots, toVisit, keep, toPrune, emitted, deps, outDir>>

ContentOf(f) == {t \in emitted : FileOf[t] = f}

Unwritten == {f \in Generated : outDir[f] = {}}

WriteOut(f) ==
  /\ task = "write" /\ f \in Unwritten
  /\ \/ Fails
     \/ /\ outDir' = [outDir EXCEPT ![f] = ContentOf(f)]
        /\ UNCHANGED <<task, roots, toVisit, keep, toPrune, emitted, deps>>

Report ==
  /\ task = "write" /\ Unwritten = {}
  /\ task' = "done"
  /\ UNCHANGED <<roots, toVisit, keep, toPrune, emitted, deps, outDir>>

PruneNext ==
  \/ \E allowed \in Allowlists : Generate(allowed)
  \/ \E t \in Types : Visit(t) \/ Emit(t)
  \/ \E f \in Files : FileDone(f) \/ WriteOut(f)
  \/ UnknownName \/ ClosureDone \/ RunPlugin \/ Report

PruneSpec == PruneInit /\ [][PruneNext]_pruneVars

----------------------------------------------------------------------------
\* Every variable has its type.
PruneTypeOK ==
  /\ task \in {"none", "closure", "prune", "write", "done", "failed"}
  /\ keep \in SUBSET Types /\ emitted \in SUBSET keep
  /\ toPrune \in SUBSET Files
  /\ deps \in [Files -> SUBSET Files] /\ outDir \in [Files -> SUBSET Types]

\* A set that holds all its members need.
NeedsNothing(S) == \A t \in S : Refs[t] \subseteq S /\ Parent[t] \in S \cup {NoType}

\* No type is kept that could be left out: a set that has the allowlist and all it
\* needs has everything kept (main.go:150-184).
OnlyNeeded ==
  \A S \in SUBSET Types : roots \cap Types \subseteq S /\ NeedsNothing(S) => keep \subseteq S

\* A run that is done leaves exactly what the allowlist needs: all it names is in the
\* Go file of its proto file, so is every type that a field there is of or that another
\* is nested in, and nothing else, not from an earlier allowlist either; the import list
\* of a file names the files its fields need, all of them generated (main.go:189-244).
SelfContained ==
  task = "done" =>
    LET there == UNION {outDir[f] : f \in Files}
    IN  /\ roots \subseteq there /\ NeedsNothing(there) /\ there = keep
        /\ \A f \in Files : outDir[f] = {t \in there : FileOf[t] = f}
        /\ \A f \in Files :
             deps[f] = {FileOf[r] : r \in UNION {Refs[t] : t \in outDir[f]}} \ {f}
        /\ \A f \in Files : \A g \in deps[f] : outDir[g] # {}

\* The types of an allowlist and what they need are kept and written, nothing else is,
\* and all the generated files compile together (main.go:150-244).
ExactlyNeeded == OnlyNeeded /\ SelfContained
============================================================================
