------------------------------- MODULE Login -------------------------------
(***************************************************************************)
(* The commands `login`, `partner-key` and `logout`: the two ways to log   *)
(* in (src/auth) and the credentials file they and their successors share  *)
(* (src/cmd/fresh-steamer/main.go).  A process runs one command at a time; *)
(* several processes may run at once, and any may be killed.               *)
(*                                                                         *)
(* Steam and the user are external: Steam offers confirmations, and takes  *)
(* a new client id or challenge for a login whenever it likes.  It tells   *)
(* the client in its next answer, where 0 says that nothing is new, and    *)
(* refuses a request with any id but the one it last told and its own.  A  *)
(* challenge that is not the latest cannot be approved.  The user types    *)
(* codes and approves.  Tokens and Steam ids are named by their account.   *)
(***************************************************************************)
EXTENDS Naturals

CONSTANTS
  Processes,
  Accounts,
  Keys,         \* publisher keys
  Offers,       \* sets of confirmations Steam may offer
  MaxCommands,  \* bound: commands begun by all processes
  MaxRotations, \* bound: new client ids, and new challenges, of one login
  None,         \* no account, no key, no code, no file
  Empty,        \* what the file holds once it was cut to nothing
  Torn          \* part of what was written, or of two writes

Codes         == {"emailCode", "deviceCode"}
Confirmations == {"deviceConfirmation", "emailConfirmation"}
GuardTypes    == {"none", "other"} \cup Codes \cup Confirmations

\* A login stands for its account in three fields; those of a login by QR code
\* have no Steam id.
Creds == [accountName : Accounts \cup {None}, steamID : Accounts \cup {None},
          refreshToken : Accounts \cup {None}, publisherKey : Keys \cup {None}]

NoCreds == [accountName |-> None, steamID |-> None,
            refreshToken |-> None, publisherKey |-> None]

Names == {"password", "qr", "partnerKey"}   \* commands that save credentials

ASSUME ConstantsAssumption ==
  /\ Offers \subseteq SUBSET GuardTypes
  /\ MaxCommands \in Nat /\ MaxRotations \in Nat
  /\ None \notin Accounts /\ None \notin Keys
  /\ None \notin GuardTypes /\ None \notin Names
  /\ Empty # Torn /\ {None, Empty, Torn} \cap Creds = {}
  /\ None # Empty /\ None # Torn

VARIABLES
  pc,         \* pc[p]: where the command is
  command,    \* command[p]: which it is
  auth,       \* auth[p]: what the login knows
  steam,      \* steam[p]: what Steam knows of the login
  got,        \* got[p]: the credentials the command obtained
  creds,      \* creds[p]: the credentials it is saving
  file,       \* creds.json
  linked,     \* linked[p]: the file p writes is the one at its path
  commands,   \* commands begun
  saved,      \* history: what was last saved of each credential
  overlapped  \* history: the file was read or removed while it was being saved

procVars == <<pc, command, auth, steam, got, creds>>
diskVars == <<file, linked>>
vars == <<procVars, diskVars, commands, saved, overlapped>>

NoAuth == [offered |-> {}, unread |-> {}, codeKind |-> None, canWait |-> FALSE,
           clientID |-> 0, shown |-> 0]

\* told...: what the client was last told; new...: what an answer under way tells it.
NoSession == [status |-> "none", account |-> None, clientID |-> 0, challenge |-> 0,
              toldID |-> 0, toldChallenge |-> 0, newClientID |-> 0, newChallenge |-> 0]

\* A login that Steam has begun.
Opened(account, challenge) ==
  [NoSession EXCEPT !.status = "open", !.account = account, !.clientID = 1, !.toldID = 1,
                    !.challenge = challenge, !.toldChallenge = challenge]

Init ==
  /\ pc = [p \in Processes |-> "idle"]
  /\ command = [p \in Processes |-> None]
  /\ auth = [p \in Processes |-> NoAuth]
  /\ steam = [p \in Processes |-> NoSession]
  /\ got = [p \in Processes |-> NoCreds]
  /\ creds = [p \in Processes |-> NoCreds]
  /\ file = None
  /\ linked = [p \in Processes |-> FALSE]
  /\ commands = 0
  /\ saved = NoCreds
  /\ overlapped = FALSE

At(p, where) == pc[p] = where
Goes(p, where) == pc' = [pc EXCEPT ![p] = where]

\* The command is over, with or without an error, and its process ends.
Ends(p) ==
  /\ Goes(p, "idle")
  /\ command' = [command EXCEPT ![p] = None]
  /\ auth' = [auth EXCEPT ![p] = NoAuth]
  /\ steam' = [steam EXCEPT ![p] = NoSession]
  /\ got' = [got EXCEPT ![p] = NoCreds]
  /\ creds' = [creds EXCEPT ![p] = NoCreds]

----------------------------------------------------------------------------
\* Login and LoginQR up to their polling loops.

Run(p, name) ==
  /\ At(p, "idle") /\ commands < MaxCommands
  /\ commands' = commands + 1
  /\ command' = [command EXCEPT ![p] = name]
  /\ Goes(p, IF name = "partnerKey" THEN "verify" ELSE "begin")
  /\ UNCHANGED <<auth, steam, got, creds, diskVars, saved, overlapped>>

\* Any request may fail, and with it the command.
Requesting == {"begin", "submit", "poll", "answered", "verify"}

RequestFails(p) ==
  /\ pc[p] \in Requesting
  /\ Ends(p)
  /\ UNCHANGED <<diskVars, commands, saved, overlapped>>

\* A password was given for account a, and Steam offers these confirmations.
BegunWithPassword(p, a, offer) ==
  /\ At(p, "begin") /\ command[p] = "password"
  /\ steam' = [steam EXCEPT ![p] = Opened(a, 0)]
  /\ auth' = [auth EXCEPT ![p] = [NoAuth EXCEPT !.offered = offer, !.unread = offer,
                                              !.clientID = 1]]
  /\ Goes(p, "guard")
  /\ UNCHANGED <<command, got, creds, diskVars, commands, saved, overlapped>>

BegunWithQR(p) ==
  /\ At(p, "begin") /\ command[p] = "qr"
  /\ steam' = [steam EXCEPT ![p] = Opened(None, 1)]
  /\ auth' = [auth EXCEPT ![p] = [NoAuth EXCEPT !.clientID = 1, !.shown = 1]]
  /\ Goes(p, "poll")
  /\ UNCHANGED <<command, got, creds, diskVars, commands, saved, overlapped>>

----------------------------------------------------------------------------
\* handleGuard.  The loop takes the confirmations in any order.

\* Mutant: the first code offered is asked for.
FirstCode(kind, g) == IF kind = None THEN g ELSE kind

PreferredCode(kind, g) == IF kind = None \/ g = "deviceCode" THEN g ELSE kind

ReadConfirmation(p, g) ==
  LET unread == auth[p].unread \ {g}
  IN  /\ At(p, "guard") /\ g \in auth[p].unread
      /\ \/ g = "none" /\ Goes(p, "poll") /\ UNCHANGED auth
         \/ /\ g \in Codes
            /\ auth' = [auth EXCEPT ![p] =
                          [@ EXCEPT !.unread = unread,
                                    !.codeKind = PreferredCode(auth[p].codeKind, g)]]
            /\ UNCHANGED pc
         \/ /\ g \in Confirmations
            /\ auth' = [auth EXCEPT ![p] = [@ EXCEPT !.unread = unread, !.canWait = TRUE]]
            /\ UNCHANGED pc
         \/ /\ g = "other"
            /\ auth' = [auth EXCEPT ![p].unread = unread]
            /\ UNCHANGED pc
      /\ UNCHANGED <<command, steam, got, creds, diskVars, commands, saved, overlapped>>

\* All are read: the user is asked for a code, or told to approve.
Prompt(p) ==
  /\ At(p, "guard") /\ auth[p].unread = {}
  /\ auth[p].codeKind # None \/ auth[p].canWait
  /\ Goes(p, "prompt")
  /\ UNCHANGED <<command, auth, steam, got, creds, diskVars, commands, saved, overlapped>>

NothingSupported(p) ==
  /\ At(p, "guard") /\ auth[p].unread = {}
  /\ auth[p].codeKind = None /\ ~auth[p].canWait
  /\ Ends(p)
  /\ UNCHANGED <<diskVars, commands, saved, overlapped>>

CodeTyped(p) ==
  /\ At(p, "prompt") /\ auth[p].codeKind # None
  /\ Goes(p, "submit")
  /\ UNCHANGED <<command, auth, steam, got, creds, diskVars, commands, saved, overlapped>>

MayWait(p) == auth[p].canWait

\* Nothing is typed, or nothing is asked for.
EmptyCode(p) ==
  /\ At(p, "prompt") /\ MayWait(p)
  /\ Goes(p, "poll")
  /\ UNCHANGED <<command, auth, steam, got, creds, diskVars, commands, saved, overlapped>>

\* Nothing is typed and a code is needed, or the prompt fails.
NoCodeTyped(p) ==
  /\ At(p, "prompt") /\ auth[p].codeKind # None
  /\ Ends(p)
  /\ UNCHANGED <<diskVars, commands, saved, overlapped>>

\* Steam takes requests with this login's id.
Accepts(p) == auth[p].clientID \in {steam[p].toldID, steam[p].clientID}

CodeAccepted(p) ==
  /\ At(p, "submit") /\ Accepts(p) /\ steam[p].status # "closed"
  /\ steam' = [steam EXCEPT ![p].status = "approved"]
  /\ Goes(p, "poll")
  /\ UNCHANGED <<command, auth, got, creds, diskVars, commands, saved, overlapped>>

----------------------------------------------------------------------------
\* The user and Steam.

\* What the user can do about the login without this process.
Approvable(p) ==
  IF command[p] = "qr" THEN auth[p].shown = steam[p].challenge
  ELSE auth[p].offered \cap (Confirmations \cup {"none"}) # {}

Approve(p, a) ==
  /\ steam[p].status = "open" /\ Approvable(p)
  /\ command[p] = "password" => a = steam[p].account
  /\ steam' = [steam EXCEPT ![p] = [@ EXCEPT !.status = "approved", !.account = a]]
  /\ UNCHANGED <<pc, command, auth, got, creds, diskVars, commands, saved, overlapped>>

\* Steam takes a new client id, or challenge, or both, whatever the client is at.
Rotate(p) ==
  /\ steam[p].status = "open"
  /\ \E id \in {steam[p].clientID, steam[p].clientID + 1},
        challenge \in {steam[p].challenge, steam[p].challenge + 1} :
       /\ id <= MaxRotations + 1 /\ challenge <= MaxRotations + 1
       /\ command[p] = "password" => challenge = steam[p].challenge
       /\ steam' = [steam EXCEPT ![p] = [@ EXCEPT !.clientID = id, !.challenge = challenge]]
  /\ UNCHANGED <<pc, command, auth, got, creds, diskVars, commands, saved, overlapped>>

\* Denied, or nobody came: Steam forgets the login, and an answer under way arrives.
Expire(p) ==
  /\ steam[p].status = "open"
  /\ steam' = [steam EXCEPT ![p] =
                 [NoSession EXCEPT !.status = "closed", !.newClientID = steam[p].newClientID,
                                   !.newChallenge = steam[p].newChallenge]]
  /\ UNCHANGED <<pc, command, auth, got, creds, diskVars, commands, saved, overlapped>>

----------------------------------------------------------------------------
\* The polling loops.

\* The credentials an approved login yields; LoginQR has no Steam id.
Obtained(p) ==
  LET account == steam[p].account
  IN  [NoCreds EXCEPT !.accountName = account, !.refreshToken = account,
                      !.steamID = IF command[p] = "qr" THEN None ELSE account]

PollApproved(p) ==
  /\ At(p, "poll") /\ Accepts(p)
  /\ steam[p].status = "approved"
  /\ got' = [got EXCEPT ![p] = Obtained(p)]
  /\ auth' = [auth EXCEPT ![p] = NoAuth]
  /\ steam' = [steam EXCEPT ![p] = NoSession]
  /\ Goes(p, "load")
  /\ UNCHANGED <<command, creds, diskVars, commands, saved, overlapped>>

\* What an answer says where told is known and now is so.
News(told, now) == IF now = told THEN 0 ELSE now

\* Steam's answer is not yet: it tells what is new.
AnswersPending(p) ==
  /\ At(p, "poll") /\ Accepts(p)
  /\ steam[p].status = "open"
  /\ steam' = [steam EXCEPT ![p] =
                 [@ EXCEPT !.newClientID = News(steam[p].toldID, steam[p].clientID),
                           !.newChallenge = News(steam[p].toldChallenge, steam[p].challenge),
                           !.toldID = steam[p].clientID,
                           !.toldChallenge = steam[p].challenge]]
  /\ Goes(p, "answered")
  /\ UNCHANGED <<command, auth, got, creds, diskVars, commands, saved, overlapped>>

\* Mutant: an answer without news is taken for one.
TakesAll(p, id, challenge) ==
  auth' = [auth EXCEPT ![p] = [@ EXCEPT !.clientID = id, !.shown = challenge]]

TakesNew(p, id, challenge) ==
  auth' = [auth EXCEPT ![p] =
             [@ EXCEPT !.clientID = IF id # 0 THEN id ELSE auth[p].clientID,
                       !.shown = IF challenge # 0 THEN challenge ELSE auth[p].shown]]

\* The client takes the answer.
PollPending(p) ==
  /\ At(p, "answered")
  /\ TakesNew(p, steam[p].newClientID, steam[p].newChallenge)
  /\ steam' = [steam EXCEPT ![p] = [@ EXCEPT !.newClientID = 0, !.newChallenge = 0]]
  /\ Goes(p, "wait")
  /\ UNCHANGED <<command, got, creds, diskVars, commands, saved, overlapped>>

IntervalEnds(p) ==
  /\ At(p, "wait")
  /\ Goes(p, "poll")
  /\ UNCHANGED <<command, auth, steam, got, creds, diskVars, commands, saved, overlapped>>

Cancelled(p) ==
  /\ At(p, "wait")
  /\ Ends(p)
  /\ UNCHANGED <<diskVars, commands, saved, overlapped>>

----------------------------------------------------------------------------
\* The credentials file.

KeyVerified(p, key) ==
  /\ At(p, "verify")
  /\ got' = [got EXCEPT ![p].publisherKey = key]
  /\ Goes(p, "load")
  /\ UNCHANGED <<command, auth, steam, creds, diskVars, commands, saved, overlapped>>

Saving(p) == pc[p] \in {"save", "write"}

\* Mutant: a login by QR code leaves the Steam id that was there.
UpdatedKeepingID(old, p) ==
  IF command[p] = "partnerKey" THEN [old EXCEPT !.publisherKey = got[p].publisherKey]
  ELSE [old EXCEPT !.accountName = got[p].accountName,
                   !.steamID = IF got[p].steamID = None THEN @ ELSE got[p].steamID,
                   !.refreshToken = got[p].refreshToken]

\* The command changes what it obtained.
Updated(old, p) ==
  IF command[p] = "partnerKey" THEN [old EXCEPT !.publisherKey = got[p].publisherKey]
  ELSE [got[p] EXCEPT !.publisherKey = old.publisherKey]

\* Mutant: what another command saved is not looked at.
StartsAnew == NoCreds

Existing == IF file = None THEN NoCreds ELSE file

Load(p) ==
  /\ At(p, "load") /\ file \notin {Empty, Torn}
  /\ creds' = [creds EXCEPT ![p] = Updated(Existing, p)]
  /\ Goes(p, "save")
  /\ overlapped' = (overlapped \/ \E q \in Processes : Saving(q))
  /\ UNCHANGED <<command, auth, steam, got, diskVars, commands, saved>>

\* A file that cannot be parsed ends the command, and what it obtained is lost.
LoadFails(p) ==
  /\ At(p, "load") /\ file \in {Empty, Torn}
  /\ Ends(p)
  /\ UNCHANGED <<diskVars, commands, saved, overlapped>>

\* os.WriteFile cuts the file at its path, and then writes it.
Cut(p) ==
  /\ At(p, "save")
  /\ file' = Empty
  /\ linked' = [linked EXCEPT ![p] = TRUE]
  /\ Goes(p, "write")
  /\ UNCHANGED <<command, auth, steam, got, creds, commands, saved, overlapped>>

\* What the file holds after new is written over old from its start.
WrittenOver(old, new) == IF old = Empty THEN {new} ELSE {new, Torn}

\* Mutant: the file is left open.
LeavesOpen(p) == UNCHANGED linked

Closes(p) == linked' = [linked EXCEPT ![p] = FALSE]

Write(p) ==
  /\ At(p, "write")
  /\ IF linked[p] THEN file' \in WrittenOver(file, creds[p]) ELSE UNCHANGED file
  /\ Closes(p)
  /\ saved' = Updated(saved, p)
  /\ Ends(p)
  /\ UNCHANGED <<commands, overlapped>>

\* Opening or writing fails, or the process is killed, after some bytes or none.
SaveFails(p) ==
  /\ Saving(p)
  /\ \/ UNCHANGED file
     \/ At(p, "write") /\ linked[p] /\ file' = Torn
  /\ Closes(p)
  /\ Ends(p)
  /\ UNCHANGED <<commands, saved, overlapped>>

\* Killed anywhere else.
Kill(p) ==
  /\ ~At(p, "idle") /\ ~Saving(p)
  /\ Ends(p)
  /\ UNCHANGED <<diskVars, commands, saved, overlapped>>

\* The command `logout` removes the file, and from those that write it its name.
Logout(p) ==
  /\ At(p, "idle") /\ commands < MaxCommands
  /\ file # None
  /\ commands' = commands + 1
  /\ file' = None
  /\ linked' = [q \in Processes |-> FALSE]
  /\ saved' = NoCreds
  /\ overlapped' = (overlapped \/ \E q \in Processes : Saving(q))
  /\ UNCHANGED procVars

----------------------------------------------------------------------------
Guard(p) ==
  \/ \E g \in GuardTypes : ReadConfirmation(p, g)
  \/ Prompt(p) \/ NothingSupported(p)
  \/ CodeTyped(p) \/ EmptyCode(p) \/ NoCodeTyped(p) \/ CodeAccepted(p)

Poll(p) ==
  \/ PollApproved(p) \/ AnswersPending(p) \/ PollPending(p)
  \/ IntervalEnds(p) \/ Cancelled(p)

SaveCreds(p) ==
  \/ \E key \in Keys : KeyVerified(p, key)
  \/ Load(p) \/ LoadFails(p) \/ Cut(p) \/ Write(p) \/ SaveFails(p)

Outside(p) == Rotate(p) \/ Expire(p) \/ \E a \in Accounts : Approve(p, a)

Next ==
  \E p \in Processes :
    \/ \E name \in Names : Run(p, name)
    \/ \E a \in Accounts, offer \in Offers : BegunWithPassword(p, a, offer)
    \/ BegunWithQR(p)
    \/ RequestFails(p) \/ Guard(p) \/ Poll(p) \/ SaveCreds(p)
    \/ Kill(p) \/ Logout(p) \/ Outside(p)

Spec == Init /\ [][Next]_vars

----------------------------------------------------------------------------
Places == {"idle", "begin", "guard", "prompt", "submit", "poll", "answered", "wait",
           "verify", "load", "save", "write"}

Auths == [offered : SUBSET GuardTypes, unread : SUBSET GuardTypes,
          codeKind : Codes \cup {None}, canWait : BOOLEAN,
          clientID : Nat, shown : Nat]

AuthSessions == [status : {"none", "open", "approved", "closed"},
                 account : Accounts \cup {None}, clientID : Nat, challenge : Nat,
                 toldID : Nat, toldChallenge : Nat, newClientID : Nat, newChallenge : Nat]

\* Every variable has its type; a process that is idle runs no command, and none
\* but one that writes has the file open.
TypeOK ==
  /\ pc \in [Processes -> Places]
  /\ command \in [Processes -> Names \cup {None}]
  /\ auth \in [Processes -> Auths] /\ steam \in [Processes -> AuthSessions]
  /\ got \in [Processes -> Creds] /\ creds \in [Processes -> Creds]
  /\ file \in Creds \cup {None, Empty, Torn}
  /\ linked \in [Processes -> BOOLEAN]
  /\ commands \in Nat
  /\ saved \in Creds /\ overlapped \in BOOLEAN
  /\ \A p \in Processes :
       /\ At(p, "idle") <=> command[p] = None
       /\ linked[p] => At(p, "write")

Whole == file \in Creds

\* A login never polls for an approval that nobody can give: it submitted a code,
\* or Steam offered a way to confirm (auth.go:51-53, 179-200).
PollsApprovable ==
  \A p \in Processes :
    command[p] = "password" /\ pc[p] \in {"poll", "answered", "wait"}
        /\ steam[p].status = "open" =>
      Approvable(p)

\* Whatever the order Steam lists them in, the authenticator's code is asked for
\* when it is offered, the one by email otherwise, and none when none is
\* needed (auth.go:165-187).
AsksBestCode ==
  \A p \in Processes :
    pc[p] \in {"prompt", "submit"} =>
      LET offered == auth[p].offered
      IN  /\ "none" \notin offered
          /\ auth[p].codeKind = IF "deviceCode" \in offered THEN "deviceCode"
                                ELSE IF "emailCode" \in offered THEN "emailCode"
                                ELSE None

\* The guard asks for the best there is, and then waits for nothing that cannot come
\* (auth.go:161-212).
GuardedRight == AsksBestCode /\ PollsApprovable

\* Whenever Steam takes new ids and challenges, also while it answers, and whatever it
\* tells of them or leaves out: the id a login sends is one Steam accepts, and the
\* challenge it shows can be approved, unless it is changed since Steam last answered
\* (auth.go:150-152, qr.go:75-80).
InStep ==
  \A p \in Processes :
    /\ pc[p] \in {"submit", "poll"} /\ steam[p].status # "closed" => Accepts(p)
    /\ command[p] = "qr" /\ pc[p] \in {"poll", "wait"} /\ steam[p].status = "open" =>
         Approvable(p) \/ steam[p].challenge # steam[p].toldChallenge

\* The account, the Steam id and the token in the file are of one login, whatever
\* commands ran at once or were killed (main.go:164-171).
OfOneLogin ==
  Whole => /\ file.refreshToken = file.accountName
           /\ file.steamID \in {None, file.accountName}

\* Unless two saves were under way at once, a file that is whole holds the last
\* login and the last publisher key, however long a command took to get
\* its own and what others saved meanwhile (main.go:164-171, 274-279).
NothingLost == ~overlapped /\ Whole => file = saved
============================================================================
