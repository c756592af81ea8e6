-------------------------------- MODULE Web --------------------------------
(***************************************************************************)
(* The commands that ask Steam's web sites.  `page -out DIR` reads an      *)
(* app's art from its info and its page from the store (src/store), and    *)
(* downloads art and screenshots into DIR, run after run; `partner-apps`   *)
(* and `builds` list what a publisher's key has access to (src/partner).   *)
(*                                                                         *)
(* The sites are external: each may answer what it likes, or nothing, or   *)
(* send a part of a file.  Art is known by the path in its URL, a picture  *)
(* by its version.                                                         *)
(***************************************************************************)
EXTENDS Integers, Sequences, FiniteSets, SequencesExt

CONSTANTS
  Commons,     \* what appinfo may say of the art: for each label its variants
  StoreAnswers,\* what appdetails may answer
  Base,        \* Base[path]: the last element of a path
  Dotted,      \* those with a dot
  Versions,    \* what may be served at a path
  AppLists, BuildLists,  \* what the partner API may answer
  MaxId, MaxGid, \* the largest depot id, the largest gid
  MaxRuns      \* bound: commands

Cut == 0    \* in place of a version: the beginning of one

\* The labels of an app's art are fields of a struct, those of its page are others.
ASSUME WebAssumption ==
  /\ Cut \notin Versions
  /\ \A common \in Commons :
       /\ DOMAIN common = 1 .. Len(common) /\ Len(common) \in Nat
       /\ \A k \in DOMAIN common :
            /\ Len(common[k].label) = 1
            /\ common[k].label \notin {<<"store_header">>, <<"background">>}
       /\ \A j, k \in DOMAIN common : common[j].label = common[k].label => j = k
  /\ \A answer \in StoreAnswers : answer.kind = "page" =>
       LET shots == answer.data.screenshots
       IN  DOMAIN shots = 1 .. Len(shots) /\ Len(shots) \in Nat

VARIABLES
  doing,       \* what the command does
  dump,        \* what `page` knows of the app; or what another command printed
  art,         \* the labels still to be got, with their paths
  tmp,         \* the name of the file that is downloaded, without .part
  version,     \* what is being served for it
  listed,      \* dump.Files
  dir,         \* the files in DIR: what is in each
  parts,       \* the .part files there, whatever is in them
  pageJSON,    \* the dump.Files that page.json has: none when it is cut
  runs,
  served       \* history: what this run was served, for each label it lists

pageVars == <<art, tmp, version, listed, served>>
diskVars == <<dir, parts, pageJSON>>
webVars == <<doing, dump, runs, pageVars, diskVars>>

Empty == <<>>
Put(f, x, v) == [y \in DOMAIN f \cup {x} |-> IF y = x THEN v ELSE f[y]]

NothingUnderWay ==
  doing = "none" /\ dump = Empty /\ art = <<>> /\ tmp = Empty /\ version = Cut
  /\ listed = Empty /\ served = Empty /\ runs = 0
  /\ dir = Empty /\ parts = {} /\ pageJSON = {Empty}

WebInit == NothingUnderWay

----------------------------------------------------------------------------
\* appinfo: the english variant of each label, or the first there is.

NoPath == ""

PathAt(variants, k) == IF k = 0 THEN NoPath ELSE variants[k].path

Localized(variants) ==
  LET english == PathAt(variants, SelectInSeq(variants, LAMBDA v : v.language = "english"))
  IN  IF english # NoPath THEN english
      ELSE PathAt(variants, SelectInSeq(variants, LAMBDA v : v.path # NoPath))

Assets(common) ==
  [k \in DOMAIN common |-> [label |-> common[k].label, path |-> Localized(common[k].variants)]]

\* store: the page in an answer.  An age is a number, or a string that may be one;
\* requirements are an object or an array; movies have sources by quality.
LooseInt(raw) == IF raw.kind \in {"number", "digits"} THEN raw.value ELSE 0

DropPlaceholder(text) == IF text \in {"Minimum:", "Recommended:"} THEN "" ELSE text

Requirements(raw) == IF raw = <<>> THEN "" ELSE DropPlaceholder(raw.minimum)

Best(sources) ==
  IF "max" \in DOMAIN sources THEN {sources["max"]}
  ELSE IF DOMAIN sources = {} THEN {NoPath} ELSE {sources[q] : q \in DOMAIN sources}

Pages(data) ==
  {[age |-> LooseInt(data.age), requirements |-> Requirements(data.requirements), webm |-> webm] :
     webm \in Best(data.webm)}

Numbered(label, paths) ==
  [k \in DOMAIN paths |-> [label |-> <<label, k>>, path |-> paths[k]]]

PageArt(data) ==
  <<[label |-> <<"store_header">>, path |-> data.header],
    [label |-> <<"background">>, path |-> data.background]>>
  \o Numbered("screenshot", data.screenshots)

----------------------------------------------------------------------------
\* cmdPage.

Begins(what) == doing \in {"none", "done"} /\ runs < MaxRuns /\ runs' = runs + 1 /\ doing' = what

Page(common, answer) ==
  /\ Begins("art")
  /\ IF answer.kind = "page"
     THEN /\ art' = Assets(common) \o PageArt(answer.data)
          /\ dump' \in Pages(answer.data)
     ELSE art' = Assets(common) /\ dump' = [error |-> answer.kind]
  /\ listed' = Empty /\ served' = Empty /\ tmp' = Empty /\ version' = Cut
  /\ UNCHANGED diskVars

Getting == doing = "art" /\ art # <<>>

\* The next label; this one is listed, or there was a warning, or there is no URL.
NextLabel == doing' = "art" /\ art' = Tail(art) /\ tmp' = Empty /\ version' = Cut

SkipLabel ==
  /\ Getting /\ Head(art).path = NoPath
  /\ NextLabel
  /\ UNCHANGED <<dump, runs, listed, served, diskVars>>

\* No answer, a status other than 200, or no file for it.
GetFails ==
  /\ Getting /\ Head(art).path # NoPath
  /\ NextLabel
  /\ UNCHANGED <<dump, runs, listed, served, diskVars>>

Aside(name) == parts' = parts \cup {name} /\ UNCHANGED dir

\* Mutant: pictures with a name of their own are not told apart by label.
FileNameAlone(label, path, ending) ==
  <<Base[path], IF path \in Dotted THEN "" ELSE ending>>

\* Download: the name gets the ending of its type when it has none.
FileName(label, path, ending) ==
  <<label, Base[path], IF path \in Dotted THEN "" ELSE ending>>

\* Download, from os.Create on.
GetAnswered(v, ending) ==
  /\ Getting /\ Head(art).path # NoPath
  /\ doing' = "copy" /\ version' = v
  /\ tmp' = FileName(Head(art).label, Head(art).path, ending)
  /\ Aside(tmp')
  /\ UNCHANGED <<dump, runs, art, listed, served, pageJSON>>

CopyBreaks ==
  /\ doing = "copy"
  /\ parts' = parts \ {tmp}
  /\ NextLabel
  /\ UNCHANGED <<dump, runs, listed, served, dir, pageJSON>>

Copied ==
  /\ doing = "copy"
  /\ doing' = "rename"
  /\ UNCHANGED <<dump, runs, pageVars, diskVars>>

\* Close or Rename fails: the .part stays, complete or not.
SaveArtFails ==
  /\ doing \in {"copy", "rename"}
  /\ NextLabel
  /\ UNCHANGED <<dump, runs, listed, served, diskVars>>

RenameArt ==
  /\ doing = "rename"
  /\ dir' = Put(dir, tmp, version) /\ parts' = parts \ {tmp}
  /\ listed' = Put(listed, Head(art).label, tmp)
  /\ served' = Put(served, Head(art).label, version)
  /\ NextLabel
  /\ UNCHANGED <<dump, runs, pageJSON>>

\* os.WriteFile of page.json, where it is.
CutJSON ==
  /\ doing = "art" /\ art = <<>>
  /\ \/ doing' = "json" /\ pageJSON' = {}
     \/ doing' = "done" /\ UNCHANGED pageJSON    \* the file cannot be opened
  /\ UNCHANGED <<dump, runs, pageVars, dir, parts>>

WriteJSON ==
  /\ doing = "json"
  /\ doing' = "done"
  /\ pageJSON' \in {{listed}, {}}
  /\ UNCHANGED <<dump, runs, pageVars, dir, parts>>

\* The process ends; what is on disk stays.
KillPage ==
  /\ doing \in {"art", "copy", "rename", "json"}
  /\ doing' = "done" /\ art' = <<>> /\ tmp' = Empty /\ version' = Cut
  /\ UNCHANGED <<dump, runs, listed, served, diskVars>>

----------------------------------------------------------------------------
\* partner: Apps and Builds.  A JSON object comes in no order.  An id is a string
\* that should be a number: ParseUint gives 0 for what is none and the largest
\* number for what is larger.

Parse(raw, max) ==
  IF raw.kind # "digits" THEN 0 ELSE IF raw.value > max THEN max ELSE raw.value

AppsInOrder(list) == SortSeq(list, LAMBDA x, y : x.id < y.id)

NewestFirst(list) == SortSeq(list, LAMBDA x, y : x.id > y.id)

DepotsIn(raw) ==
  LET ids == {Parse(d.id, MaxId) : d \in raw}
      gids(id) == {Parse(d.gid, MaxGid) : d \in {x \in raw : Parse(x.id, MaxId) = id}}
  IN  {f \in [ids -> UNION {gids(id) : id \in ids}] : \A id \in ids : f[id] \in gids(id)}

Prints(what) ==
  /\ dump' = what
  /\ UNCHANGED <<pageVars, diskVars>>

PartnerApps(list) ==
  /\ Begins("done")
  /\ Prints([apps |-> AppsInOrder(list)])

Builds(list) ==
  /\ Begins("done")
  /\ \E depots \in [DOMAIN list -> UNION {DepotsIn(b.depots) : b \in ToSet(list)}] :
       /\ \A k \in DOMAIN list : depots[k] \in DepotsIn(list[k].depots)
       /\ Prints([builds |-> NewestFirst(
                    [k \in DOMAIN list |-> [id |-> list[k].id, depots |-> depots[k]]])])

\* partnerClient: login or partner-key never saved a key.
NoPublisherKey == Begins("done") /\ Prints([error |-> "key"])

\* No answer, a status other than 200, or a body that is not JSON.
PartnerFails == Begins("done") /\ Prints([error |-> "partner"])

WebNext ==
  \/ \E common \in Commons, answer \in StoreAnswers : Page(common, answer)
  \/ SkipLabel \/ GetFails
  \/ \E v \in Versions, ending \in {"", ".jpg"} : GetAnswered(v, ending)
  \/ CopyBreaks \/ Copied \/ SaveArtFails \/ RenameArt \/ CutJSON \/ WriteJSON \/ KillPage
  \/ \E list \in AppLists : PartnerApps(list)
  \/ \E list \in BuildLists : Builds(list)
  \/ NoPublisherKey \/ PartnerFails

WebSpec == WebInit /\ [][WebNext]_webVars

----------------------------------------------------------------------------
\* Every variable has its type, and what partner-apps and builds print is in order:
\* apps by their ids, builds the newest first.
WebTypeOK ==
  /\ doing \in {"none", "art", "copy", "rename", "json", "done"}
  /\ runs \in 0 .. MaxRuns /\ version \in Versions \cup {Cut}
  /\ DOMAIN dump \in {{}, {"error"}, {"age", "requirements", "webm"}, {"apps"}, {"builds"}}
  /\ \A field \in {"apps", "builds"} \cap DOMAIN dump : \A j, k \in DOMAIN dump[field] :
       j < k => IF field = "apps" THEN dump.apps[j].id < dump.apps[k].id
                ELSE dump.builds[j].id > dump.builds[k].id
  /\ tmp # Empty => tmp \in parts

\* A file in the directory is whole, however a download broke off and wherever a run
\* was killed; `page` lists for each label a file of its own that holds what was
\* served for it in this run, whatever the runs before left there; and a page.json
\* that is whole names files that are there (assets.go:55-69, main.go:507-541).
FilesWhole ==
  /\ \A name \in DOMAIN dir : dir[name] \in Versions
  /\ \A label \in DOMAIN listed : dir[listed[label]] = served[label]
  /\ \A l1, l2 \in DOMAIN listed : listed[l1] = listed[l2] => l1 = l2
  /\ \A files \in pageJSON : \A label \in DOMAIN files : files[label] \in DOMAIN dir
============================================================================
