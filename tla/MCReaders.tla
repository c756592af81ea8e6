----------------------------- MODULE MCReaders -----------------------------
(***************************************************************************)
(* The CDN client, and the parts of the system that run alone: one of them *)
(* in each behaviour.  They share no state; a part that does not run is in *)
(* a state in which it is finished.                                        *)
(***************************************************************************)
EXTENDS Cdn, Vdf, AppInfo, Content, Prune, Web, TLC

VARIABLE part   \* the part that runs

CdnStays     == UNCHANGED vars
VdfStays     == UNCHANGED vdfVars
AppStays     == UNCHANGED appVars
ContentStays == UNCHANGED contentVars
PruneStays   == UNCHANGED pruneVars
WebStays     == UNCHANGED webVars

all_vars == <<vars, vdfVars, appVars, contentVars, pruneVars, webVars, part>>

CdnIdle == Init /\ serves = [s \in Servers |-> "good"]
VdfIdle == pos = 1 /\ nodes = <<>> /\ depth = 0 /\ parsed = "ok" /\ format = "text" /\ meant = {} /\ src = <<>>
AppIdle ==
  /\ command = "app" /\ stage = "failed" /\ all = FALSE /\ due = <<>> /\ sent = <<>> /\ got = <<>>
  /\ packages = <<>> /\ names = <<>> /\ app = NoApp /\ section = <<>> /\ unlocked = {}
ContentIdle ==
  /\ what = "chunk" /\ chunk = <<>> /\ fetch = "failed" /\ servers = <<>> /\ tries = 0 /\ wait = 0
  /\ data = <<>> /\ files = <<>> /\ body = <<>>

PartsInit ==
  \/ part = "cdn" /\ Init /\ VdfIdle /\ AppIdle /\ ContentIdle /\ PruneInit /\ WebInit
  \/ part = "vdf" /\ CdnIdle /\ VdfInit /\ AppIdle /\ ContentIdle /\ PruneInit /\ WebInit
  \/ part = "appinfo" /\ CdnIdle /\ VdfIdle /\ AppInit /\ ContentIdle /\ PruneInit /\ WebInit
  \/ part = "content" /\ CdnIdle /\ VdfIdle /\ AppIdle /\ ContentInit /\ PruneInit /\ WebInit
  \/ part = "prune" /\ CdnIdle /\ VdfIdle /\ AppIdle /\ ContentIdle /\ PruneInit /\ WebInit
  \/ part = "web" /\ CdnIdle /\ VdfIdle /\ AppIdle /\ ContentIdle /\ PruneInit /\ WebInit

PartsNext ==
  /\ \/ part = "cdn" /\ Next /\ VdfStays /\ AppStays /\ ContentStays /\ PruneStays /\ WebStays
     \/ part = "vdf" /\ VdfNext /\ CdnStays /\ AppStays /\ ContentStays /\ PruneStays /\ WebStays
     \/ part = "appinfo" /\ AppNext /\ CdnStays /\ VdfStays /\ ContentStays /\ PruneStays /\ WebStays
     \/ part = "content" /\ ContentNext /\ CdnStays /\ VdfStays /\ AppStays /\ PruneStays /\ WebStays
     \/ part = "prune" /\ PruneNext /\ CdnStays /\ VdfStays /\ AppStays /\ ContentStays /\ WebStays
     \/ part = "web" /\ WebNext /\ CdnStays /\ VdfStays /\ AppStays /\ ContentStays /\ PruneStays
  /\ UNCHANGED part

\* The fairness of Cdn.
PartsSpec ==
  PartsInit /\ [][PartsNext]_all_vars /\ \A r \in Requests : WF_vars(Request(r))

\* Every variable of every part has its type.
PartsTypeOK ==
  TypeOK /\ VdfTypeOK /\ AppTypeOK /\ ContentTypeOK /\ PruneTypeOK /\ WebTypeOK

----------------------------------------------------------------------------
CONSTANTS r1, r2

\* Vdf: all short texts and bytes, and small listings in every style.
MCAlphabet == {"\"", "\\", "{", "}", " ", "\n", "/", "n", NUL}
MCRawTexts == UNION {[1 .. size -> MCAlphabet] : size \in 0 .. 4}
MCRawBytes == UNION {[1 .. size -> {0, 1, 2, 3, 7, 8, 9, 97}] : size \in 0 .. 4}
MCListings(keys, values) ==
  {list \in UNION {[1 .. size -> [depth : 0 .. 1, key : keys, value : values \cup {Block}]] :
                     size \in 0 .. 2} : WellNested(list)}
MCTextListings == MCListings({<<>>, <<"n", "\"">>}, {Text(<<"\\">>), Text(<<"}", "\n">>)})
MCBinaryListings ==
  MCListings({<<>>, <<97>>}, {Text(<<>>), Text(<<98, 97>>), [number |-> -1], [number |-> 200]})

\* AppInfo: answers of up to three items; two bodies of one app, two private sections.
MCItem(id, how, mark) == [id |-> id, body |-> how, mark |-> mark]
MCItems ==
  {MCItem(1, how, mark) : how \in {"inline", "remote"}, mark \in 1 .. 2}
  \cup {MCItem(1, how, 1) : how \in {"unknown", "bare"}} \cup {MCItem(2, "inline", 3)}
MCAppAnswers == UNION {[1 .. size -> MCItems] : size \in 0 .. 3}
MCPackages ==
  {[id |-> id, body |-> how, apps |-> IF id = 0 THEN <<3>> ELSE <<2, 1>>] :
     id \in {7, 0}, how \in {"short", "ok"}}
MCPackageAnswers == UNION {[1 .. size -> MCPackages] : size \in 0 .. 3}
MCNameAnswers ==
  UNION {[1 .. size -> {MCItem(1, "inline", 1), MCItem(1, "inline", 2), MCItem(1, "empty", 1),
                        MCItem(2, "inline", 3)}] : size \in 0 .. 3}
MCManifest(name, gid) == [name |-> name, gid |-> gid]
MCDepot(key, name, manifests, encrypted) ==
  [kind |-> "depot", key |-> key, name |-> name, manifests |-> manifests, encrypted |-> encrypted]
MCBranch(name, build) == [kind |-> "branch", name |-> name, build |-> build]
MCPublic ==
  <<<<MCDepot(2, "win", <<MCManifest("public", 20)>>, <<MCManifest("beta", 21), MCManifest("old", 0)>>),
      [kind |-> "leaf"],
      MCDepot(1, "mac", <<MCManifest("public", 10)>>, <<>>),
      MCBranch("public", 1), MCBranch("beta", 1),
      MCDepot(0, "x", <<>>, <<>>), MCDepot(8, "y", <<>>, <<>>),
      MCDepot(10, "win2", <<MCManifest("old", 22)>>, <<>>)>>,
    <<MCBranch("public", 2), MCDepot(1, "mac", <<MCManifest("public", 11)>>, <<>>)>>>>
MCPrivate ==
  "secret" :> <<MCBranch("Beta", 7), MCBranch("secret", 7),
                MCDepot(3, "", <<MCManifest("secret", 37)>>, <<>>),
                MCDepot(2, "", <<MCManifest("secret", 27)>>, <<>>)>>
  @@ "other" :> <<MCDepot(1, "", <<>>, <<MCManifest("other", 18)>>),
                  MCBranch("other", 8),
                  MCDepot(2, "", <<MCManifest("other", 28)>>, <<>>)>>
MCLower ==
  [name \in {"public", "beta", "Beta", "secret", "other", "old"} |->
     IF name = "Beta" THEN "beta" ELSE name]

\* Content: two keys, whole bodies in every container, each of them with a byte altered,
\* and short ones of any bytes.
MCXor(x, y) == 2 * (((x \div 2) + (y \div 2)) % 2) + ((x + y) % 2)
MCDecrypt ==
  [key \in {"right", "wrong"} |->
     [b \in [1 .. 2 -> Byte] |->
        IF key = "right" THEN <<(b[2] + 1) % 4, (b[1] + 3 * b[2] + 2) % 4>>
        ELSE <<(b[1] + 3) % 4, (b[1] + b[2]) % 4>>]]
MCInflate == <<1>> :> <<0, 2>> @@ <<2>> :> <<3, 2>> @@ <<3>> :> <<0, 2, 1>> @@ <<>> :> <<>>
MCServer(type, proxy, china) == [type |-> type, proxy |-> proxy, china |-> china]
MCServerLists ==
  {<<>>, <<MCServer("CDN", FALSE, FALSE)>>,
   <<MCServer("CDN", TRUE, FALSE), MCServer("OpenCache", FALSE, FALSE), MCServer("SteamCache", FALSE, TRUE)>>,
   <<MCServer("OpenCache", FALSE, FALSE), MCServer("SteamCache", FALSE, FALSE)>>}
MCChunks == {<<0, 2>>, <<0, 2, 1>>, <<>>}
MCMade ==
  {SymmetricEncrypt(<<mark>> \o b \o footer, key, iv) :
     mark \in 1 .. 3, b \in DOMAIN MCInflate, footer \in {<<>>, <<2>>, <<3>>},
     key \in {"right", "wrong"}, iv \in {<<0, 0>>, <<3, 1>>}}
MCBodies ==
  {s : s \in MCMade \cup UNION {{[t EXCEPT ![k] = b] : k \in DOMAIN t, b \in Byte} : t \in MCMade}
             \cup [1 .. 4 -> Byte] \cup {<<>>, <<1>>, <<1, 2>>, <<1, 2, 3>>}}
MCSealed(bytes, iv) == SymmetricEncrypt(bytes, "right", iv)
MCFile(name, link, clearName, clearLink) ==
  [name |-> name, link |-> link, clear |-> [name |-> clearName, link |-> clearLink]]
MCFileLists ==
  {<<MCFile(MCSealed(<<1, 3, 1, 0>>, <<0, 1>>), <<>>, <<1, 2, 1>>, <<>>),
     MCFile(MCSealed(<<1, 1>>, <<0, 1>>), MCSealed(<<3, 1, 0, 0>>, <<2, 2>>), <<1, 1>>, <<2, 1>>)>>,
   <<MCFile(<<1, 3>>, <<1, 2, 3>>, <<9>>, <<9>>)>>,
   <<MCFile(MCSealed(<<1, 1>>, <<0, 1>>), <<>>, <<1, 1>>, <<>>), MCFile(<<1, 3>>, <<>>, <<9>>, <<>>)>>}
MCIds ==
  {s : s \in UNION {[1 .. size -> Byte] : size \in 0 .. 3} \cup
            {b \o <<0, 1>> : b \in [1 .. 2 -> Byte]}}
MCSection(magics, wholes, lists, encrypted) ==
  [magic : magics, whole : wholes, files : lists, encrypted : encrypted]
MCSections ==
  MCSection({"payload"}, BOOLEAN, MCFileLists, {FALSE})
  \cup MCSection({"metadata"}, BOOLEAN, {<<>>}, BOOLEAN)
  \cup MCSection({"signature", "end", "other"}, {TRUE}, {<<>>}, {FALSE})
MCManifests == {list : list \in UNION {[1 .. size -> MCSections] : size \in 0 .. 3}}

\* Prune: a message with a message and an enum in it, a file that refers to the enum and
\* is referred to, and one that needs the first.
CONSTANTS msg, inner, enum, other, user, stray, fileA, fileB, fileC
MCFileOf == msg :> fileA @@ inner :> fileA @@ enum :> fileA @@ other :> fileB @@ user :> fileC
MCParent == msg :> NoType @@ inner :> msg @@ enum :> inner @@ other :> NoType @@ user :> NoType
MCRefs == msg :> {} @@ inner :> {other} @@ enum :> {} @@ other :> {enum, other} @@ user :> {msg}
MCAllowlists == SUBSET {msg, enum, other, user} \cup {{msg, stray}}

\* Web: art in two languages, two paths that end alike, a store page or none.
MCVariant(language, path) == [language |-> language, path |-> path]
MCLabel(label, variants) == [label |-> <<label>>, variants |-> variants]
MCCommons ==
  {<<MCLabel("header", <<MCVariant("german", "g.jpg"), MCVariant("english", "e.jpg")>>)>>,
   <<MCLabel("header", <<MCVariant("english", ""), MCVariant("german", "old/e.jpg")>>)>>}
MCData(header, shots, age, requirements, qualities) ==
  [header |-> header, background |-> "", screenshots |-> shots, age |-> age,
   requirements |-> requirements, webm |-> [quality \in qualities |-> quality]]
MCStoreAnswers ==
  {[kind |-> "none"],
   [kind |-> "page", data |-> MCData("e.jpg", <<"shot">>, [kind |-> "digits", value |-> 18],
                                     <<>>, {"480", "max"})],
   [kind |-> "page", data |-> MCData("", <<>>, [kind |-> "other"],
                                     [minimum |-> "Minimum:"], {"480", "720"})]}
MCBase == "g.jpg" :> "g.jpg" @@ "e.jpg" :> "e.jpg" @@ "old/e.jpg" :> "e.jpg" @@ "shot" :> "shot"
MCAppLists == {<<>>, <<[id |-> 3], [id |-> 1], [id |-> 2]>>}
MCNumber(value) == [kind |-> "digits", value |-> value]
MCBuildDepot(id, gid) == [id |-> MCNumber(id), gid |-> MCNumber(gid)]
MCBuildLists ==
  {<<[id |-> 1, depots |-> {MCBuildDepot(1, 2)}],
     [id |-> 5, depots |-> {MCBuildDepot(1, 3), MCBuildDepot(2, 99), MCBuildDepot(77, 1),
                            MCBuildDepot(78, 2), [id |-> [kind |-> "text"], gid |-> MCNumber(1)]}]>>}
============================================================================
