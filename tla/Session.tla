------------------------------ MODULE Session ------------------------------
(***************************************************************************)
(* session.Session (src/session/session.go) as `fresh-steamer download`    *)
(* and a sync of several depots use it: processes that log on, and in each *)
(* the goroutines that resolve a manifest, get the depot's key, a request  *)
(* code and the CDN client.  What they learn is cached in the process; the *)
(* depot keys are cached on disk as well, in a file all processes share.   *)
(*                                                                         *)
(* Steam is external: what an app lists and which password opens which     *)
(* branch are constants, and any request may fail.  A key is named by its  *)
(* depot, and branch names that differ in case only are one branch.        *)
(***************************************************************************)
EXTENDS Naturals, FiniteSets

CONSTANTS
  Sessions,    \* processes
  Callers,     \* goroutines
  Of,          \* Of[c]: the process c belongs to
  Depots, Branches, Passwords,
  NoPassword,  \* the empty password
  PasswordOf,  \* PasswordOf[b]: the password of branch b, or NoPassword
  Listed,      \* Listed[d]: branches d has a manifest for in appinfo
  Encrypted,   \* Encrypted[d]: branches d has an encrypted manifest for
  Hidden,      \* branches appinfo does not list
  Private,     \* Private[d]: the hidden branches whose section names d
  Asked,       \* the downloads callers ask for
  Inodes,      \* bound: the files there can be, named or only open
  MaxCalls,    \* bound: downloads of one caller
  MaxOpens,    \* bound: how often a process is started
  MaySaveFail, \* whether SaveKeys may fail
  None,
  Empty,       \* what a file holds that was cut to nothing
  Garbled      \* what a file holds that two wrote at once

Downloads ==
  [depot : Depots, branch : Branches, password : Passwords \cup {NoPassword}]

ASSUME ConstantsAssumption ==
  /\ Of \in [Callers -> Sessions]
  /\ PasswordOf \in [Branches -> Passwords \cup {NoPassword}]
  /\ NoPassword \notin Passwords
  /\ Listed \in [Depots -> SUBSET Branches]
  /\ Encrypted \in [Depots -> SUBSET Branches]
  /\ Hidden \subseteq Branches
  /\ Private \in [Depots -> SUBSET Hidden]
  /\ \A d \in Depots : (Listed[d] \cup Encrypted[d]) \cap Hidden = {}
  /\ Asked \subseteq Downloads
  /\ MaxCalls \in Nat /\ MaxOpens \in Nat /\ MaySaveFail \in BOOLEAN
  /\ None \notin Callers /\ None \notin Inodes /\ None \notin Downloads
  /\ Empty # Garbled
  /\ \A known \in SUBSET Depots : known # Empty /\ known # Garbled
  /\ \A unlocked \in SUBSET Branches : unlocked # None

VARIABLES
  up,          \* up[s]: the process runs and has loaded the keys
  keys,        \* keys[s]: s.depotKeys
  branchKeys,  \* branchKeys[s]: s.branchKeys, from passwords to branches
  client,      \* client[s]: s.cdnClient is set
  mu,          \* mu[s]: who holds s.mu across a request
  pc,          \* pc[c]: where the caller is
  req,         \* req[c]: what it downloads
  merged,      \* merged[c]: the hidden branches merged into its app
  snapshot,    \* snapshot[c]: the keys it saves
  fd,          \* fd[c]: the file it is writing
  path,        \* the key file
  tmp,         \* the key file's .tmp
  content,     \* content[i]: what file i holds
  calls,       \* calls[c]: downloads it began
  opens,       \* opens[s]: starts of the process
  asks,        \* history, asks[c][p]: answers c had for password p
  built,       \* history, built[s]: CDN clients the process built
  refused,     \* history, refused[c]: no request failed, and yet no manifest
  overlapped   \* history: two processes, or two saves, were under way at once

sessionVars == <<up, keys, branchKeys, client, mu>>
callerVars  == <<pc, req, merged, snapshot, fd>>
diskVars    == <<path, tmp, content>>
history     == <<asks, built, refused, overlapped>>
vars == <<sessionVars, callerVars, diskVars, calls, opens, history>>

NotAsked == [p \in Passwords |-> 0]

Init ==
  /\ up = [s \in Sessions |-> FALSE]
  /\ keys = [s \in Sessions |-> {}]
  /\ branchKeys = [s \in Sessions |-> [p \in Passwords |-> None]]
  /\ client = [s \in Sessions |-> FALSE]
  /\ mu = [s \in Sessions |-> None]
  /\ pc = [c \in Callers |-> "idle"]
  /\ req = [c \in Callers |-> None]
  /\ merged = [c \in Callers |-> {}]
  /\ snapshot = [c \in Callers |-> {}]
  /\ fd = [c \in Callers |-> None]
  /\ path = None /\ tmp = None
  /\ content = [i \in Inodes |-> Empty]
  /\ calls = [c \in Callers |-> 0]
  /\ opens = [s \in Sessions |-> 0]
  /\ asks = [c \in Callers |-> NotAsked]
  /\ built = [s \in Sessions |-> 0]
  /\ refused = [c \in Callers |-> FALSE]
  /\ overlapped = FALSE

At(c, where) == pc[c] = where
Goes(c, where) == pc' = [pc EXCEPT ![c] = where]

Free(c) == mu[Of[c]] = None
Branch(c) == req[c].branch
Depot(c) == req[c].depot

----------------------------------------------------------------------------
\* Processes.

\* What is in the key file; without one, nothing.
Stored == IF path = None THEN {} ELSE content[path]

Readable(stored) == stored \notin {Empty, Garbled}

\* Mutant: the cache starts empty in every process.
LoadedNothing == {}

Loaded == Stored

Open(s) ==
  /\ ~up[s] /\ opens[s] < MaxOpens
  /\ Readable(Stored)
  /\ up' = [up EXCEPT ![s] = TRUE]
  /\ keys' = [keys EXCEPT ![s] = Loaded]
  /\ opens' = [opens EXCEPT ![s] = @ + 1]
  /\ overlapped' = (overlapped \/ \E t \in Sessions : up[t])
  /\ UNCHANGED <<branchKeys, client, mu, callerVars, diskVars, calls,
                 asks, built, refused>>

\* The process ends: closed, killed, or crashed.  What is on disk stays.
Exit(s) ==
  /\ up[s]
  /\ up' = [up EXCEPT ![s] = FALSE]
  /\ keys' = [keys EXCEPT ![s] = {}]
  /\ branchKeys' = [branchKeys EXCEPT ![s] = [p \in Passwords |-> None]]
  /\ client' = [client EXCEPT ![s] = FALSE]
  /\ mu' = [mu EXCEPT ![s] = None]
  /\ pc' = [c \in Callers |-> IF Of[c] = s THEN "idle" ELSE pc[c]]
  /\ req' = [c \in Callers |-> IF Of[c] = s THEN None ELSE req[c]]
  /\ merged' = [c \in Callers |-> IF Of[c] = s THEN {} ELSE merged[c]]
  /\ snapshot' = [c \in Callers |-> IF Of[c] = s THEN {} ELSE snapshot[c]]
  /\ fd' = [c \in Callers |-> IF Of[c] = s THEN None ELSE fd[c]]
  /\ asks' = [c \in Callers |-> IF Of[c] = s THEN NotAsked ELSE asks[c]]
  /\ refused' = [c \in Callers |-> IF Of[c] = s THEN FALSE ELSE refused[c]]
  /\ built' = [built EXCEPT ![s] = 0]
  /\ UNCHANGED <<diskVars, calls, opens, overlapped>>

----------------------------------------------------------------------------
\* A download: Begin, then the steps of cmdDownload.

Begin(c, download) ==
  /\ up[Of[c]] /\ At(c, "idle") /\ calls[c] < MaxCalls
  /\ req' = [req EXCEPT ![c] = download]
  /\ \/ UNCHANGED merged                       \* a sync goes on with its app
     \/ merged' = [merged EXCEPT ![c] = {}]    \* AppInfo
  /\ calls' = [calls EXCEPT ![c] = @ + 1]
  /\ refused' = [refused EXCEPT ![c] = FALSE]
  /\ Goes(c, "resolve")
  /\ UNCHANGED <<sessionVars, snapshot, fd, diskVars, opens,
                 asks, built, overlapped>>

\* Any request may fail, and with it the download.
Requesting == {"askPassword", "askSection", "askKey", "code", "askServers"}

RequestFails(c) ==
  /\ pc[c] \in Requesting
  /\ mu' = IF At(c, "askServers") THEN [mu EXCEPT ![Of[c]] = None] ELSE mu
  /\ Goes(c, "idle")
  /\ UNCHANGED <<up, keys, branchKeys, client, req, merged, snapshot, fd,
                 diskVars, calls, opens, history>>

----------------------------------------------------------------------------
\* ResolveManifest, UnlockBranch and branchKey.

HasManifest(c, unlocked) ==
  \/ Branch(c) \in Listed[Depot(c)]
  \/ Branch(c) \in unlocked \cap Private[Depot(c)]

IsEncrypted(c) == Branch(c) \in Encrypted[Depot(c)]

\* app.Branch(branch) # nil
Known(c) == Branch(c) \notin Hidden \/ Branch(c) \in merged[c]

NeedsKey(c) == /\ ~HasManifest(c, merged[c])
               /\ IsEncrypted(c) \/ ~Known(c)
               /\ req[c].password # NoPassword

Resolve(c) ==
  /\ At(c, "resolve")
  /\ \/ /\ HasManifest(c, merged[c])
        /\ Goes(c, "depotKey") /\ UNCHANGED refused
     \/ /\ NeedsKey(c)
        /\ Goes(c, "branchKey") /\ UNCHANGED refused
     \/ /\ ~HasManifest(c, merged[c]) /\ ~NeedsKey(c)
        /\ Goes(c, "idle") /\ refused' = [refused EXCEPT ![c] = TRUE]
  /\ UNCHANGED <<sessionVars, req, merged, snapshot, fd, diskVars, calls, opens,
                 asks, built, overlapped>>

\* What CheckAppBetaPassword answers.
Unlocks(p) == {b \in Branches : PasswordOf[b] = p}

\* Mutant: the cache is per app, not per app and password.
CachedForApp(c) ==
  LET known == {p \in Passwords : branchKeys[Of[c]][p] # None}
  IN  IF known = {} THEN None ELSE branchKeys[Of[c]][CHOOSE p \in known : TRUE]

Cached(c) == branchKeys[Of[c]][req[c].password]

\* The key of the branch is in hand, or the password does not unlock it.
UseKey(c, unlocked) ==
  IF Branch(c) \notin unlocked
  THEN Goes(c, "idle") /\ refused' = [refused EXCEPT ![c] = TRUE]
  ELSE Goes(c, IF IsEncrypted(c) THEN "depotKey" ELSE "askSection")
       /\ UNCHANGED refused

LookUpBranchKey(c) ==
  /\ At(c, "branchKey") /\ Free(c)
  /\ IF Cached(c) = None THEN Goes(c, "askPassword") /\ UNCHANGED refused
     ELSE UseKey(c, Cached(c))
  /\ UNCHANGED <<sessionVars, req, merged, snapshot, fd, diskVars, calls, opens,
                 asks, built, overlapped>>

\* Mutant: the answer is not kept.
Forgets(c) == UNCHANGED branchKeys

Remember(c) ==
  branchKeys' = [branchKeys EXCEPT ![Of[c]][req[c].password] =
                   Unlocks(req[c].password)]

PasswordAnswered(c) ==
  /\ At(c, "askPassword") /\ Free(c)
  /\ Remember(c)
  /\ asks' = [asks EXCEPT ![c][req[c].password] = @ + 1]
  /\ UseKey(c, Unlocks(req[c].password))
  /\ UNCHANGED <<up, keys, client, mu, req, merged, snapshot, fd, diskVars,
                 calls, opens, built, overlapped>>

\* PrivateBeta: the branch's section is merged into the app.
SectionAnswered(c) ==
  /\ At(c, "askSection")
  /\ merged' = [merged EXCEPT ![c] = @ \cup {Branch(c)}]
  /\ IF HasManifest(c, merged'[c]) THEN Goes(c, "depotKey") /\ UNCHANGED refused
     ELSE Goes(c, "idle") /\ refused' = [refused EXCEPT ![c] = TRUE]
  /\ UNCHANGED <<sessionVars, req, snapshot, fd, diskVars, calls, opens,
                 asks, built, overlapped>>

----------------------------------------------------------------------------
\* DepotKey and SaveKeys.

LookUpKey(c) ==
  /\ At(c, "depotKey") /\ Free(c)
  /\ Goes(c, IF Depot(c) \in keys[Of[c]] THEN "code" ELSE "askKey")
  /\ UNCHANGED <<sessionVars, req, merged, snapshot, fd, diskVars, calls, opens,
                 history>>

Saving(c) == pc[c] \in {"save", "write", "rename"}

KeyAnswered(c) ==
  /\ At(c, "askKey") /\ Free(c)
  /\ keys' = [keys EXCEPT ![Of[c]] = @ \cup {Depot(c)}]
  /\ snapshot' = [snapshot EXCEPT ![c] = keys'[Of[c]]]
  /\ Goes(c, "save")
  /\ overlapped' = (overlapped \/ \E d \in Callers : Saving(d))
  /\ UNCHANGED <<up, branchKeys, client, mu, req, merged, fd, diskVars,
                 calls, opens, asks, built, refused>>

\* Mutant: SaveKeys writes to the key file itself.
InPlace(i) == /\ path' = i /\ tmp' = i

NamedTmp(i) == /\ tmp' = i /\ UNCHANGED path

InUse == {path, tmp} \cup {fd[c] : c \in Callers}

\* os.WriteFile opens the .tmp, made anew or cut to nothing.
OpenTmp(c) ==
  /\ At(c, "save")
  /\ \E i \in Inodes :
       /\ IF tmp = None THEN i \notin InUse ELSE i = tmp
       /\ fd' = [fd EXCEPT ![c] = i]
       /\ NamedTmp(i)
       /\ content' = [content EXCEPT ![i] = Empty]
  /\ Goes(c, "write")
  /\ UNCHANGED <<sessionVars, req, merged, snapshot, calls, opens, history>>

\* What a file holds after new is written over old from its start: another
\* writer may have filled it since it was cut, and more keys make a longer file.
WrittenOver(old, new) ==
  CASE old = Empty   -> {new}
    [] old = Garbled -> {new, Garbled}
    [] OTHER         -> {IF Cardinality(old) <= Cardinality(new) THEN new ELSE Garbled}

\* Mutant: a save that fails leaves its file open.
LeavesOpen(c) == UNCHANGED fd

Closes(c) == fd' = [fd EXCEPT ![c] = None]

WriteTmp(c) ==
  /\ At(c, "write")
  /\ \E new \in WrittenOver(content[fd[c]], snapshot[c]) :
       content' = [content EXCEPT ![fd[c]] = new]
  /\ Closes(c)
  /\ Goes(c, "rename")
  /\ UNCHANGED <<sessionVars, req, merged, snapshot, path, tmp, calls, opens, history>>

\* Another save may have renamed the .tmp away: an error that is only logged.
RenameTmp(c) ==
  /\ At(c, "rename")
  /\ path' = IF tmp = None THEN path ELSE tmp
  /\ tmp' = None
  /\ snapshot' = [snapshot EXCEPT ![c] = {}]
  /\ Goes(c, "code")
  /\ UNCHANGED <<sessionVars, req, merged, fd, content, calls, opens, history>>

\* Opening, writing (some of it, or nothing) or renaming fails: it is logged.
SaveFails(c) ==
  /\ MaySaveFail /\ Saving(c)
  /\ \/ UNCHANGED content
     \/ At(c, "write") /\ content' = [content EXCEPT ![fd[c]] = Garbled]
  /\ Closes(c)
  /\ snapshot' = [snapshot EXCEPT ![c] = {}]
  /\ Goes(c, "code")
  /\ UNCHANGED <<sessionVars, req, merged, path, tmp, calls, opens, history>>

----------------------------------------------------------------------------
\* ManifestRequestCode and CDN.

CodeAnswered(c) ==
  /\ At(c, "code")
  /\ Goes(c, "cdn")
  /\ UNCHANGED <<sessionVars, req, merged, snapshot, fd, diskVars, calls, opens,
                 history>>

Holds(c) == mu' = [mu EXCEPT ![Of[c]] = c]

AskServers(c) ==
  /\ At(c, "cdn") /\ Free(c)
  /\ IF client[Of[c]] THEN Goes(c, "idle") /\ UNCHANGED mu
     ELSE Goes(c, "askServers") /\ Holds(c)
  /\ UNCHANGED <<up, keys, branchKeys, client, req, merged, snapshot, fd, diskVars,
                 calls, opens, history>>

ServersAnswered(c) ==
  /\ At(c, "askServers")
  /\ client' = [client EXCEPT ![Of[c]] = TRUE]
  /\ built' = [built EXCEPT ![Of[c]] = @ + 1]
  /\ mu' = [mu EXCEPT ![Of[c]] = None]
  /\ Goes(c, "idle")
  /\ UNCHANGED <<up, keys, branchKeys, req, merged, snapshot, fd, diskVars,
                 calls, opens, asks, refused, overlapped>>

----------------------------------------------------------------------------
Step(c) ==
  \/ \E download \in Asked : Begin(c, download)
  \/ RequestFails(c)
  \/ Resolve(c) \/ LookUpBranchKey(c) \/ PasswordAnswered(c) \/ SectionAnswered(c)
  \/ LookUpKey(c) \/ KeyAnswered(c)
  \/ OpenTmp(c) \/ WriteTmp(c) \/ RenameTmp(c) \/ SaveFails(c)
  \/ CodeAnswered(c) \/ AskServers(c) \/ ServersAnswered(c)

Next ==
  \/ \E s \in Sessions : Open(s) \/ Exit(s)
  \/ \E c \in Callers : Step(c)

Spec == Init /\ [][Next]_vars

----------------------------------------------------------------------------
Places == {"idle", "resolve", "branchKey", "askPassword", "askSection", "depotKey",
           "askKey", "save", "write", "rename", "code", "cdn", "askServers"}

\* Every variable has its type; a process that does not run has no caller in a
\* download, and whoever writes has a file open.
TypeOK ==
  /\ up \in [Sessions -> BOOLEAN] /\ client \in [Sessions -> BOOLEAN]
  /\ keys \in [Sessions -> SUBSET Depots]
  /\ branchKeys \in [Sessions -> [Passwords -> {None} \cup SUBSET Branches]]
  /\ mu \in [Sessions -> Callers \cup {None}]
  /\ pc \in [Callers -> Places]
  /\ req \in [Callers -> Downloads \cup {None}]
  /\ merged \in [Callers -> SUBSET Branches]
  /\ snapshot \in [Callers -> SUBSET Depots]
  /\ fd \in [Callers -> Inodes \cup {None}]
  /\ path \in Inodes \cup {None} /\ tmp \in Inodes \cup {None}
  /\ content \in [Inodes -> {Empty, Garbled} \cup SUBSET Depots]
  /\ calls \in [Callers -> Nat] /\ opens \in [Sessions -> Nat]
  /\ asks \in [Callers -> [Passwords -> Nat]] /\ built \in [Sessions -> Nat]
  /\ refused \in [Callers -> BOOLEAN] /\ overlapped \in BOOLEAN
  /\ \A c \in Callers :
       /\ ~At(c, "idle") => up[Of[c]] /\ req[c] # None
       /\ At(c, "write") <=> fd[c] # None
       /\ pc[c] \in {"branchKey", "askPassword", "askSection"} =>
             req[c].password # NoPassword

\* What a process that runs alone and saves one key at a time leaves on disk can
\* be read, wherever it was killed and whatever failed: the key file is replaced
\* by a whole one, never written in place (session.go:131-135).
FileReadable == ~overlapped => Readable(Stored)

\* As long as that is so, no key that is in the file is lost: not by a save of
\* another key, not by a restart, not by a failed save (session.go:77-87, 178-190).
FileGrows ==
  [][~overlapped' => Stored \subseteq Stored']_vars

\* Every key the process knows is in the file unless a caller is about to save
\* it: the file is "written back to whenever a new key is learned"
\* (session.go:49-52).  Asked of any number of callers.
LearnedIsSaved ==
  \A s \in Sessions :
    up[s] /\ (\A c \in Callers : ~Saving(c)) => /\ Readable(Stored)
                                              /\ keys[s] \subseteq Stored

\* A download goes on only with a manifest that its password, or one given before
\* to the same app, gives it the right to, whatever other callers asked and
\* cached; and the section of a hidden branch is asked for only with its own
\* password (session.go:237-315).
HasRight(c) == PasswordOf[Branch(c)] = req[c].password

ResolvedWithRight ==
  \A c \in Callers :
    /\ At(c, "askSection") => HasRight(c)
    /\ pc[c] \in {"depotKey", "askKey", "save", "write", "rename", "code", "cdn", "askServers"} =>
         HasManifest(c, merged[c]) \/ (IsEncrypted(c) /\ HasRight(c))

\* A download that failed though no request did asked for what it has no right
\* to, or for a branch without a manifest for the depot (session.go:288-297).
RefusedWithReason ==
  \A c \in Callers :
    refused[c] => /\ ~HasManifest(c, merged[c])
                  /\ \/ req[c].password = NoPassword
                     \/ ~HasRight(c)
                     \/ Branch(c) \notin Encrypted[Depot(c)] \cup Private[Depot(c)]

\* Whatever is cached and whoever else asks, a download gets what it has the right
\* to, and nothing else (session.go:237-315).
DecidedByRight == ResolvedWithRight /\ RefusedWithReason

\* A goroutine is told by Steam at most once which branches a password unlocks,
\* over all the depots it downloads (session.go:36-38).
AsksOnce == \A c \in Callers, p \in Passwords : asks[c][p] <= 1

\* A process builds one CDN client, however many callers want it at once
\* (session.go:217-231).
OneClient == \A s \in Sessions : built[s] <= 1
============================================================================
