------------------------------ MODULE AppInfo ------------------------------
(***************************************************************************)
(* Product info (src/appinfo) as the commands use it: `apps` asks for the  *)
(* licenses, then the packages, then the names of the apps in them; `info`,*)
(* `page` and `download` fetch one app, to which sections of private       *)
(* branches are added later.                                               *)
(*                                                                         *)
(* Steam is external.  It answers a request with a sequence of items, cut  *)
(* into packets wherever it likes.  An item has an id, a mark that tells   *)
(* it from others, and a body, which is named for what reading it gives.   *)
(* A section of depots is the sequence of its entries, where each of its   *)
(* branches is an entry.                                                   *)
(***************************************************************************)
EXTENDS Integers, Sequences, FiniteSetsExt, SequencesExt, Functions

CONSTANTS
  Wanted,     \* the app that is fetched
  AppAnswers, PackageAnswers, NameAnswers,  \* what Steam may answer
  Public,     \* Public[mark]: the section of depots in a body
  Private,    \* Private[b]: the section of the private branch b
  Lower,      \* Lower[name]: a branch name in lower case
  WordOfId    \* ids are counted modulo this

VARIABLES
  command,    \* "app" or "apps"
  stage,      \* the request under way, or how the command ended
  due,        \* items that are still to come
  sent,       \* history: all items of the answer
  got,        \* what the handler kept of it
  packages,   \* the result of Packages
  names,      \* the result of Names: names[id] is the name of an app
  all,        \* apps -all
  app,        \* the app, from stage "merge" on
  section,    \* entries that mergeDepots has still to add to it
  unlocked    \* history: the private branches merged into it

appVars == <<command, stage, due, sent, got, packages, names, all, app, section, unlocked>>

IsList(s) == s \in Seq(ToSet(s))

NoApp == [mark |-> 0, branches |-> <<>>, depots |-> <<>>]

AppInit ==
  /\ \/ command = "app" /\ stage = "token" /\ all = FALSE
     \/ command = "apps" /\ stage = "licenses" /\ all \in BOOLEAN
  /\ due = <<>> /\ sent = <<>> /\ got = <<>> /\ packages = <<>> /\ names = <<>>
  /\ app = NoApp /\ section = <<>> /\ unlocked = {}

Merged == <<app, section, unlocked>>

AskFor(request, answer) ==
  /\ stage' = request /\ due' = answer /\ sent' = answer /\ got' = <<>>

EndAs(how) == stage' = how /\ UNCHANGED <<due, sent, got>>

----------------------------------------------------------------------------
\* Requests.

\* The token response: a token or none, and then the app may still be denied.
TokenAnswered ==
  /\ stage = "token"
  /\ \/ EndAs("failed")
     \/ \E answer \in AppAnswers : AskFor("info", answer)
  /\ UNCHANGED <<command, packages, names, all, Merged>>

\* Licenses; without one, Packages asks for nothing, and Names for nothing.
LicensesPushed ==
  /\ stage = "licenses"
  /\ \/ EndAs("listed")
     \/ \E answer \in PackageAnswers : AskFor("packages", answer)
  /\ UNCHANGED <<command, packages, names, all, Merged>>

TokensAnswered ==
  /\ stage = "tokens"
  /\ \E answer \in NameAnswers : AskFor("names", answer)
  /\ UNCHANGED <<command, packages, names, all, Merged>>

Answered == stage \in {"info", "packages", "names"}

\* Any request fails, or its answer cannot be read.
RequestBreaks ==
  /\ stage \in {"token", "licenses", "tokens"} \/ Answered
  /\ EndAs("failed")
  /\ UNCHANGED <<command, packages, names, all, Merged>>

----------------------------------------------------------------------------
\* The packets of an answer: what the three handlers keep, and what they fail at.

Keeps(item) ==
  CASE stage = "info"     -> item.id = Wanted /\ item.body # "unknown"
    [] stage = "packages" -> TRUE
    [] stage = "names"    -> item.body = "inline"

Fatal(item) ==
  CASE stage = "info"     -> item.id = Wanted /\ item.body = "unknown"
    [] stage = "packages" -> item.body \in {"short", "garbled"}
    [] stage = "names"    -> FALSE

\* Mutant: the first name of an app stays.
FirstNamed(item) ==
  [id \in DOMAIN names \cup {item.id} |-> IF id \in DOMAIN names THEN names[id] ELSE item.mark]

\* names is a map: a later name of an app replaces an earlier one.
Named(item) ==
  [id \in DOMAIN names \cup {item.id} |-> IF id = item.id THEN item.mark ELSE names[id]]

Keep(item) ==
  IF stage = "names" THEN names' = Named(item) /\ UNCHANGED got
  ELSE got' = Append(got, item) /\ UNCHANGED names

\* Mutant: the handler is done once it found something.
FoundIt(pending, kept) == kept # <<>> \/ ~pending

IsLast(pending, kept) == ~pending

\* cmdApps: the ids of the apps in the packages, package 0 only with -all.
Counts(package) == package.id # 0 \/ all

AppsOf(list) ==
  UNION {ToSet(list[k].apps) : k \in {j \in DOMAIN list : Counts(list[j])}}

\* sort.Slice: any order of the list that has ids ascend; equal ones come as they may.
ById(list) ==
  {[k \in DOMAIN list |-> list[p[k]]] :
     p \in {q \in Bijection(DOMAIN list, DOMAIN list) :
             \A j, k \in DOMAIN list : j < k => list[q[j]].id <= list[q[k]].id}}

\* The handler is done: what the request gave is used.
Used ==
  CASE stage = "info"     -> /\ stage' = IF got = <<>> THEN "failed" ELSE "body"
                             /\ UNCHANGED packages
    [] stage = "packages" -> /\ packages' \in ById(got)
                             /\ stage' = IF AppsOf(got) = {} THEN "listed" ELSE "tokens"
    [] stage = "names"    -> stage' = "listed" /\ UNCHANGED packages

\* A turn of the handler's loop over the items of a packet.
Item ==
  /\ Answered /\ due # <<>>
  /\ due' = Tail(due)
  /\ \/ Fatal(Head(due)) /\ stage' = "refused" /\ UNCHANGED <<got, names>>
     \/ /\ ~Fatal(Head(due)) /\ UNCHANGED stage
        /\ IF Keeps(Head(due)) THEN Keep(Head(due)) ELSE UNCHANGED <<got, names>>
  /\ UNCHANGED <<command, sent, packages, all, Merged>>

\* The last item of a packet was taken; more packets are pending, or none.
PacketEnds(pending) ==
  /\ Answered
  /\ due # <<>> => pending
  /\ IF IsLast(pending, got) THEN Used ELSE UNCHANGED <<stage, packages>>
  /\ UNCHANGED <<command, due, sent, got, names, all, Merged>>

----------------------------------------------------------------------------
\* mergeDepots.

SameName(a, b) == Lower[a] = Lower[b]

AddBranch(branches, entry) ==
  IF \E k \in DOMAIN branches : SameName(branches[k].name, entry.name) THEN branches
  ELSE Append(branches, entry)

\* parseUint32, of a key that is a number; another key counts as 0.
IdOf(key) == key % WordOfId

\* What a list says in the places K, of which a later one replaces an earlier one.
With(f, list, K) ==
  LET of(name) == {k \in K : list[k].name = name}
  IN  [name \in DOMAIN f \cup {list[k].name : k \in K} |->
         IF of(name) = {} THEN f[name] ELSE list[Max(of(name))].gid]

\* An encrypted manifest has a gid under one key or the other, or none.
HaveGid(list) == {k \in DOMAIN list : list[k].gid # 0}

NewDepot(entry) ==
  [id |-> IdOf(entry.key), name |-> entry.name, manifests |-> <<>>, encrypted |-> <<>>]

Extended(d, entry) ==
  [d EXCEPT !.manifests = With(@, entry.manifests, DOMAIN entry.manifests),
            !.encrypted = With(@, entry.encrypted, HaveGid(entry.encrypted))]

Known(depots, entry) == {k \in DOMAIN depots : depots[k].id = IdOf(entry.key)}

\* Mutant: a depot that is known is made anew.
Anew(depots, entry) ==
  Append(SelectSeq(depots, LAMBDA d : d.id # IdOf(entry.key)),
         Extended(NewDepot(entry), entry))

AddDepot(depots, entry) ==
  IF Known(depots, entry) = {} THEN Append(depots, Extended(NewDepot(entry), entry))
  ELSE [k \in DOMAIN depots |->
          IF k \in Known(depots, entry) THEN Extended(depots[k], entry) ELSE depots[k]]

AddEntry(a, entry) ==
  CASE entry.kind = "branch" -> [a EXCEPT !.branches = AddBranch(@, entry)]
    [] entry.kind = "depot" /\ IdOf(entry.key) # 0
                             -> [a EXCEPT !.depots = AddDepot(@, entry)]
    [] OTHER                 -> a

\* A turn of the loop over the section.
MergeEntry ==
  /\ stage = "merge" /\ section # <<>>
  /\ app' = AddEntry(app, Head(section))
  /\ section' = Tail(section)
  /\ UNCHANGED <<command, stage, due, sent, got, packages, names, all, unlocked>>

\* Its depots are sorted.
MergeEnds ==
  /\ stage = "merge" /\ section = <<>>
  /\ \E depots \in ById(app.depots) : app' = [app EXCEPT !.depots = depots]
  /\ EndAs("app")
  /\ UNCHANGED <<command, packages, names, all, section, unlocked>>

----------------------------------------------------------------------------
\* The rest of Fetch: the body, which is in the answer or served over HTTP.

Info == Last(got)

Parsed(mark) ==
  /\ app' = [NoApp EXCEPT !.mark = Info.mark]
  /\ section' = Public[mark]
  /\ EndAs("merge")

NotParsed == EndAs("failed") /\ UNCHANGED <<app, section>>

InlineBody ==
  /\ stage = "body" /\ Info.body # "remote"
  /\ IF Info.body = "inline" THEN Parsed(Info.mark) ELSE NotParsed
  /\ UNCHANGED <<command, packages, names, all, unlocked>>

HashRight(mark) == mark = Info.mark

\* fetchOverHTTP: whatever the host serves, or nothing.
RemoteBody ==
  /\ stage = "body" /\ Info.body = "remote"
  /\ \/ NotParsed
     \/ \E mark \in DOMAIN Public : IF HashRight(mark) THEN Parsed(mark) ELSE NotParsed
  /\ UNCHANGED <<command, packages, names, all, unlocked>>

\* PrivateBeta, each time it is called and answered; otherwise nothing changes.
PrivateBeta(b) ==
  /\ stage = "app"
  /\ section' = Private[b]
  /\ unlocked' = unlocked \cup {b}
  /\ EndAs("merge")
  /\ UNCHANGED <<command, packages, names, all, app>>

AppNext ==
  \/ TokenAnswered \/ LicensesPushed \/ TokensAnswered \/ RequestBreaks
  \/ Item \/ \E pending \in BOOLEAN : PacketEnds(pending)
  \/ InlineBody \/ RemoteBody \/ MergeEntry \/ MergeEnds
  \/ \E b \in DOMAIN Private : PrivateBeta(b)

AppSpec == AppInit /\ [][AppNext]_appVars

----------------------------------------------------------------------------
\* Answers and sections are lists, and a body that can be read has a section.
ASSUME AnswersAssumption ==
  /\ \A answer \in AppAnswers \cup PackageAnswers \cup NameAnswers : IsList(answer)
  /\ \A answer \in AppAnswers : \A item \in ToSet(answer) :
       item.id = Wanted /\ item.body = "inline" => item.mark \in DOMAIN Public

\* What may be told of an app whose body is called mark.
Told(mark) == ToSet(Public[mark]) \cup UNION {ToSet(Private[b]) : b \in DOMAIN Private}

ASSUME SectionsAssumption ==
  /\ WordOfId \in Nat \ {0}
  /\ \A mark \in DOMAIN Public : IsList(Public[mark])
  /\ \A b \in DOMAIN Private : IsList(Private[b])
  /\ \A mark \in DOMAIN Public : \A e \in Told(mark) :
       e.kind = "depot" => e.key \in Nat /\ IsList(e.manifests) /\ IsList(e.encrypted)

\* The app is as sections describe it.
Entries ==
  ToSet(Public[Info.mark]) \cup UNION {ToSet(Private[b]) : b \in unlocked}

Branches == {e \in Entries : e.kind = "branch"}

\* The entries among E of the depot with an id.
Of(id, E) == {e \in E : e.kind = "depot" /\ IdOf(e.key) = id}

DepotIds(E) == {IdOf(e.key) : e \in {x \in E : x.kind = "depot"}} \ {0}

Pairs(f) == {<<name, f[name]>> : name \in DOMAIN f}

PairsAt(list, K) == {<<list[k].name, list[k].gid>> : k \in K}

\* What the entries E say of a depot's manifests, and of its encrypted ones.
Said(id, E) == UNION {PairsAt(e.manifests, DOMAIN e.manifests) : e \in Of(id, E)}

SaidEncrypted(id, E) ==
  UNION {PairsAt(e.encrypted, HaveGid(e.encrypted)) : e \in Of(id, E)}

PublicNames(id) == {e.name : e \in Of(id, ToSet(Public[Info.mark]))}

\* Steam does not contradict itself: a section names a branch once, and all say the
\* same of a manifest.
ASSUME AgreementAssumption ==
  \A mark \in DOMAIN Public :
    /\ \A e, g \in ToSet(Public[mark]) :
         e.kind = "branch" /\ g.kind = "branch" /\ SameName(e.name, g.name) => e = g
    /\ \A id \in DepotIds(Told(mark)) :
         /\ \A p, q \in Said(id, Told(mark)) : p[1] = q[1] => p = q
         /\ \A p, q \in SaidEncrypted(id, Told(mark)) : p[1] = q[1] => p = q

\* Every variable has its type; nothing is due unless a request is under way.
AppTypeOK ==
  /\ command \in {"app", "apps"} /\ all \in BOOLEAN
  /\ stage \in IF command = "app"
               THEN {"token", "info", "body", "merge", "app", "failed", "refused"}
               ELSE {"licenses", "packages", "tokens", "names", "listed", "failed", "refused"}
  /\ IsSuffix(due, sent) /\ ToSet(got) \subseteq ToSet(sent)
  /\ DOMAIN names \subseteq {item.id : item \in ToSet(sent)}
  /\ unlocked \subseteq DOMAIN Private
  /\ stage \notin {"merge", "app"} => app = NoApp /\ unlocked = {}
  /\ IF stage = "merge" THEN ToSet(section) \subseteq Entries ELSE section = <<>>

\* A map holds the last name of each app that the items in the places K name.
LastNames(map, items, K) ==
  LET said == {k \in K : items[k].body = "inline"}
  IN  /\ DOMAIN map = {items[k].id : k \in said}
      /\ \A k \in said : (\A j \in said : items[j].id = items[k].id => j <= k) =>
                           map[items[k].id] = items[k].mark

\* What a request gives is what Steam sent, however it was cut into packets: the
\* last info on the app wanted, every package in the order of their ids, the last name
\* of each app; and an app unknown to Steam, or a package that cannot be read, fails
\* the request wherever in the answer it is (appinfo.go:147-165, licenses.go:82-101,
\* 166-184).
AnswerWhole ==
  LET At(k) == sent[k]
      Wants == {k \in DOMAIN sent : At(k).id = Wanted}
      Bad   == {k \in DOMAIN sent : At(k).body \in {"short", "garbled"}}
  IN  /\ stage \in {"body", "merge", "app"} =>
           /\ Info = At(Max(Wants))
           /\ \A k \in Wants : At(k).body # "unknown"
      /\ stage = "tokens" =>
           /\ Bad = {} /\ ToSet(packages) = ToSet(sent) /\ Len(packages) = Len(sent)
           /\ \A j, k \in DOMAIN packages : j < k => packages[j].id <= packages[k].id
      /\ stage = "listed" /\ AppsOf(packages) # {} =>
           LastNames(names, sent, DOMAIN sent)
      /\ stage = "refused" =>
           IF command = "app" THEN \E k \in Wants : At(k).body = "unknown" ELSE Bad # {}

\* An app has what its sections say, whichever of them were merged, in whatever
\* order and however often: every branch and every depot once, the depots in the
\* order of their ids, all manifests of each, and what appinfo says of a branch or
\* a depot is not changed by a private section.  The section itself has the hash
\* that Steam named (appinfo.go:201-318, 371-393).
AppAsSent ==
  stage = "app" =>
    LET D == DOMAIN app.depots
        B == DOMAIN app.branches
    IN  /\ app.mark = Info.mark
        /\ {Lower[app.branches[k].name] : k \in B} = {Lower[e.name] : e \in Branches}
        /\ \A j, k \in B :
             SameName(app.branches[j].name, app.branches[k].name) => j = k
        /\ Branches \cap ToSet(Public[Info.mark]) \subseteq ToSet(app.branches)
        /\ \A j, k \in D : j < k => app.depots[j].id < app.depots[k].id
        /\ {app.depots[k].id : k \in D} = DepotIds(Entries)
        /\ \A k \in D :
             LET d == app.depots[k]
             IN  /\ Pairs(d.manifests) = Said(d.id, Entries)
                 /\ Pairs(d.encrypted) = SaidEncrypted(d.id, Entries)
                 /\ PublicNames(d.id) # {} => d.name \in PublicNames(d.id)
============================================================================
