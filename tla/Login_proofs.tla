---------------------------- MODULE Login_proofs ----------------------------
(***************************************************************************)
(* Proofs about Login, for any processes, accounts, keys and offers.       *)
(***************************************************************************)
EXTENDS Login, TLAPS

----------------------------------------------------------------------------
(***************************************************************************)
(* Types.                                                                  *)
(***************************************************************************)
LEMMA NoCredsType == NoCreds \in Creds /\ NoCreds.publisherKey = None
BY DEF NoCreds, Creds

LEMMA NoAuthType == NoAuth \in Auths /\ NoSession \in AuthSessions
BY DEF NoAuth, Auths, NoSession, AuthSessions

LEMMA OpenedType ==
  ASSUME NEW account \in Accounts \cup {None}, NEW challenge \in Nat
  PROVE  Opened(account, challenge) \in AuthSessions
BY DEF Opened, NoSession, AuthSessions

\* Whatever a command changes in the credentials that were there, they stay
\* credentials.
LEMMA UpdatedType ==
  ASSUME NEW p \in Processes, got \in [Processes -> Creds], NEW old \in Creds
  PROVE  Updated(old, p) \in Creds
BY DEF Updated, Creds

\* A process whose command is over is typed whatever it did.
LEMMA EndsType ==
  ASSUME TypeOK, NEW p \in Processes, Ends(p),
         linked' = [linked EXCEPT ![p] = FALSE] \/ (linked' = linked /\ ~At(p, "write")),
         file' \in Creds \cup {None, Empty, Torn}, commands' = commands,
         saved' \in Creds, overlapped' = overlapped
  PROVE  TypeOK'
BY NoAuthType, NoCredsType DEF TypeOK, Ends, Goes, At, Places

LEMMA TypeInit == Init => TypeOK
<1> SUFFICES ASSUME Init PROVE TypeOK
  OBVIOUS
<1>1. overlapped \in BOOLEAN
  BY Zenon DEF Init
<1>2. ASSUME NEW p \in Processes PROVE pc[p] = "idle" /\ command[p] = None /\ linked[p] = FALSE
  BY DEF Init
<1> QED
  BY <1>1, <1>2, NoAuthType, NoCredsType DEF Init, TypeOK, At, Places

\* A step of a process from one place of its command to another.
Moves(p, where) ==
  /\ Goes(p, where) /\ where \in Places \ {"idle"}
  /\ ~At(p, "idle") /\ ~At(p, "write")
  /\ UNCHANGED <<command, commands>>

LEMMA MovesType ==
  ASSUME TypeOK, NEW p \in Processes, NEW where, Moves(p, where),
         auth' \in [Processes -> Auths], steam' \in [Processes -> AuthSessions],
         got' \in [Processes -> Creds], creds' \in [Processes -> Creds],
         file' \in Creds \cup {None, Empty, Torn},
         linked' = linked \/ (where = "write" /\ linked' = [linked EXCEPT ![p] = TRUE]),
         saved' = saved, overlapped' \in BOOLEAN
  PROVE  TypeOK'
BY DEF TypeOK, Moves, Goes, At, Places

LEMMA TypeStep == TypeOK /\ [Next]_vars => TypeOK'
<1> SUFFICES ASSUME TypeOK, [Next]_vars PROVE TypeOK'
  OBVIOUS
<1> USE DEF procVars, diskVars
<1>1. ASSUME NEW p \in Processes, NEW name \in Names, Run(p, name)
      PROVE  TypeOK'
  <2>1. pc' \in [Processes -> Places] /\ command' \in [Processes -> Names \cup {None}]
    BY <1>1 DEF TypeOK, Run, Goes, At, Places
  <2>2. \A q \in Processes : /\ At(q, "idle")' <=> command'[q] = None
                             /\ linked'[q] => At(q, "write")'
    BY <1>1, ConstantsAssumption DEF TypeOK, Run, Goes, At, Places
  <2>3. QED
    BY <1>1, <2>1, <2>2 DEF TypeOK, Run
<1>2. ASSUME NEW p \in Processes, NEW a \in Accounts, NEW offer \in Offers,
             BegunWithPassword(p, a, offer)
      PROVE  TypeOK'
  <2>1. steam' \in [Processes -> AuthSessions]
    BY <1>2, OpenedType DEF TypeOK, BegunWithPassword
  <2>2. auth' \in [Processes -> Auths]
    <3>1. offer \in SUBSET GuardTypes
      BY ConstantsAssumption
    <3>2. [NoAuth EXCEPT !.offered = offer, !.unread = offer, !.clientID = 1] \in Auths
      BY <3>1 DEF NoAuth, Auths
    <3>3. QED
      BY <1>2, <3>2 DEF BegunWithPassword, TypeOK
  <2>3. Moves(p, "guard")
    BY <1>2 DEF BegunWithPassword, Moves, At, Places
  <2>4. QED
    BY <1>2, <2>1, <2>2, <2>3, MovesType DEF BegunWithPassword, TypeOK
<1>3. ASSUME NEW p \in Processes, BegunWithQR(p)
      PROVE  TypeOK'
  <2>1. steam' \in [Processes -> AuthSessions]
    BY <1>3, OpenedType DEF TypeOK, BegunWithQR
  <2>2. auth' \in [Processes -> Auths]
    BY <1>3 DEF TypeOK, BegunWithQR, NoAuth, Auths
  <2>3. Moves(p, "poll")
    BY <1>3 DEF BegunWithQR, Moves, At, Places
  <2>4. QED
    BY <1>3, <2>1, <2>2, <2>3, MovesType DEF BegunWithQR, TypeOK
<1>4. ASSUME NEW p \in Processes,
             \/ RequestFails(p) \/ NothingSupported(p) \/ NoCodeTyped(p)
             \/ Cancelled(p) \/ LoadFails(p) \/ Kill(p)
      PROVE  TypeOK'
  <2>1. Ends(p) /\ ~At(p, "write")
    BY <1>4 DEF RequestFails, NothingSupported, NoCodeTyped, Cancelled, LoadFails, Kill,
      Requesting, Saving, At
  <2>2. UNCHANGED <<diskVars, commands, saved, overlapped>>
    BY <1>4 DEF RequestFails, NothingSupported, NoCodeTyped, Cancelled, LoadFails, Kill
  <2>3. QED
    BY <2>1, <2>2, EndsType DEF TypeOK
<1>5. ASSUME NEW p \in Processes, NEW g \in GuardTypes, ReadConfirmation(p, g)
      PROVE  TypeOK'
  <2>1. CASE g = "none"
    <3>1. Moves(p, "poll") /\ UNCHANGED auth
      BY <1>5, <2>1 DEF ReadConfirmation, Moves, At, Places, Codes, Confirmations
    <3>2. QED
      BY <1>5, <3>1, MovesType DEF ReadConfirmation, TypeOK
  <2>2. CASE g # "none"
    <3>1. UNCHANGED pc
      BY <1>5, <2>2 DEF ReadConfirmation
    <3>2. auth' \in [Processes -> Auths]
      <4>1. auth[p] \in Auths
        BY DEF TypeOK
      <4>2. CASE g \in Codes
        <5>1. PreferredCode(auth[p].codeKind, g) \in Codes \cup {None}
          BY <4>1, <4>2 DEF PreferredCode, Auths
        <5>2. [auth[p] EXCEPT
               !.unread = auth[p].unread \ {g},
               !.codeKind = PreferredCode(auth[p].codeKind, g)] \in Auths
          BY <4>1, <5>1 DEF Auths
        <5>3. auth' = [auth EXCEPT ![p] = [auth[p] EXCEPT
                         !.unread = auth[p].unread \ {g},
                         !.codeKind = PreferredCode(auth[p].codeKind, g)]]
          BY <1>5, <4>2 DEF ReadConfirmation, Codes, Confirmations
        <5>4. QED
          BY <5>2, <5>3 DEF TypeOK
      <4>3. CASE g \in Confirmations
        <5>1. [auth[p] EXCEPT !.unread = auth[p].unread \ {g}, !.canWait = TRUE] \in Auths
          BY <4>1 DEF Auths
        <5>2. auth' = [auth EXCEPT ![p] = [auth[p] EXCEPT !.unread = auth[p].unread \ {g},
                                                          !.canWait = TRUE]]
          BY <1>5, <4>3 DEF ReadConfirmation, Codes, Confirmations
        <5>3. QED
          BY <5>1, <5>2 DEF TypeOK
      <4>4. CASE g = "other"
        <5>1. [auth[p] EXCEPT !.unread = auth[p].unread \ {g}] \in Auths
          BY <4>1 DEF Auths
        <5>2. QED
          BY <1>5, <4>4, <5>1 DEF ReadConfirmation, TypeOK, Codes, Confirmations
      <4>5. QED
        BY <2>2, <4>2, <4>3, <4>4 DEF GuardTypes
    <3>3. QED
      BY <1>5, <3>1, <3>2 DEF ReadConfirmation, TypeOK, At
  <2>3. QED
    BY <2>1, <2>2
<1>6. ASSUME NEW p \in Processes, Prompt(p) \/ CodeTyped(p) \/ EmptyCode(p) \/ IntervalEnds(p)
      PROVE  TypeOK'
  <2>1. \E where : Moves(p, where) /\ where # "write"
    BY <1>6 DEF Prompt, CodeTyped, EmptyCode, IntervalEnds, Moves, At, Places
  <2>2. UNCHANGED <<auth, steam, got, creds, file, linked, saved, overlapped>>
    BY <1>6 DEF Prompt, CodeTyped, EmptyCode, IntervalEnds
  <2>3. QED
    BY <2>1, <2>2, MovesType DEF TypeOK
<1>7. ASSUME NEW p \in Processes, CodeAccepted(p)
      PROVE  TypeOK'
  <2>1. Moves(p, "poll") /\ steam' \in [Processes -> AuthSessions]
    BY <1>7 DEF CodeAccepted, Moves, At, Places, TypeOK, AuthSessions
  <2>2. QED
    BY <1>7, <2>1, MovesType DEF CodeAccepted, TypeOK
<1>8. ASSUME NEW p \in Processes, PollApproved(p)
      PROVE  TypeOK'
  <2>1. Obtained(p) \in Creds
    BY DEF TypeOK, AuthSessions, Obtained, NoCreds, Creds
  <2>2. Moves(p, "load")
    BY <1>8 DEF PollApproved, Moves, At, Places
  <2>3. QED
    BY <1>8, <2>1, <2>2, NoAuthType, MovesType DEF PollApproved, TypeOK
<1>9. ASSUME NEW p \in Processes, AnswersPending(p)
      PROVE  TypeOK'
  <2>1. steam[p] \in AuthSessions
    BY DEF TypeOK
  <2>2. /\ News(steam[p].toldID, steam[p].clientID) \in Nat
        /\ News(steam[p].toldChallenge, steam[p].challenge) \in Nat
    BY <2>1 DEF News, AuthSessions
  <2>3. steam' \in [Processes -> AuthSessions]
    BY <1>9, <2>1, <2>2 DEF AnswersPending, TypeOK, AuthSessions
  <2>4. Moves(p, "answered")
    BY <1>9 DEF AnswersPending, Moves, At, Places
  <2>5. QED
    BY <1>9, <2>3, <2>4, MovesType DEF AnswersPending, TypeOK
<1>19. ASSUME NEW p \in Processes, PollPending(p)
       PROVE  TypeOK'
  <2>1. steam' \in [Processes -> AuthSessions]
    <3>1. [steam[p] EXCEPT !.newClientID = 0, !.newChallenge = 0] \in AuthSessions
      BY DEF TypeOK, AuthSessions
    <3>2. QED
      BY <1>19, <3>1 DEF PollPending, TypeOK
  <2>2. auth' \in [Processes -> Auths]
    <3>1. PICK id \in Nat, challenge \in Nat :
            auth' = [auth EXCEPT ![p] = [auth[p] EXCEPT !.clientID = id, !.shown = challenge]]
      <4>1. /\ auth[p].clientID \in Nat /\ auth[p].shown \in Nat
            /\ steam[p].newClientID \in Nat /\ steam[p].newChallenge \in Nat
        BY DEF TypeOK, AuthSessions, Auths
      <4> DEFINE id == IF steam[p].newClientID # 0 THEN steam[p].newClientID
                       ELSE auth[p].clientID
                 challenge == IF steam[p].newChallenge # 0 THEN steam[p].newChallenge
                              ELSE auth[p].shown
      <4>2. auth' = [auth EXCEPT ![p] = [auth[p] EXCEPT !.clientID = id, !.shown = challenge]]
        BY <1>19 DEF PollPending, TakesNew
      <4>3. id \in Nat /\ challenge \in Nat
        BY <4>1
      <4> HIDE DEF id, challenge
      <4>4. QED
        BY <4>2, <4>3
    <3>2. [auth[p] EXCEPT !.clientID = id, !.shown = challenge] \in Auths
      BY DEF TypeOK, Auths
    <3>3. QED
      BY <3>1, <3>2 DEF TypeOK
  <2>3. Moves(p, "wait")
    BY <1>19 DEF PollPending, Moves, At, Places
  <2>4. QED
    BY <1>19, <2>1, <2>2, <2>3, MovesType DEF PollPending, TypeOK
<1>20. ASSUME NEW p \in Processes, Rotate(p)
       PROVE  TypeOK'
  <2>1. PICK id \in {steam[p].clientID, steam[p].clientID + 1},
             challenge \in {steam[p].challenge, steam[p].challenge + 1} :
          steam' = [steam EXCEPT ![p] = [@ EXCEPT !.clientID = id, !.challenge = challenge]]
    BY <1>20 DEF Rotate
  <2>2. id \in Nat /\ challenge \in Nat
    BY DEF TypeOK, AuthSessions
  <2>3. [steam[p] EXCEPT !.clientID = id, !.challenge = challenge] \in AuthSessions
    <3>1. steam[p] \in AuthSessions
      BY DEF TypeOK
    <3>2. QED
      BY <2>2, <3>1 DEF AuthSessions
  <2>4. steam' \in [Processes -> AuthSessions]
    BY <2>1, <2>3 DEF TypeOK
  <2>5. QED
    BY <1>20, <2>4 DEF Rotate, TypeOK, At
<1>10. ASSUME NEW p \in Processes, NEW key \in Keys, KeyVerified(p, key)
       PROVE  TypeOK'
  <2>1. got' \in [Processes -> Creds]
    BY <1>10 DEF KeyVerified, TypeOK, Creds
  <2>2. Moves(p, "load")
    BY <1>10 DEF KeyVerified, Moves, At, Places
  <2>3. QED
    BY <1>10, <2>1, <2>2, MovesType DEF KeyVerified, TypeOK
<1>11. ASSUME NEW p \in Processes, Load(p)
       PROVE  TypeOK'
  <2>1. Existing \in Creds
    BY <1>11, NoCredsType DEF Load, TypeOK, Existing
  <2>2. Updated(Existing, p) \in Creds
    BY <2>1, UpdatedType DEF TypeOK
  <2>3. Moves(p, "save")
    BY <1>11 DEF Load, Moves, At, Places
  <2>4. overlapped' \in BOOLEAN
    BY <1>11 DEF Load, TypeOK
  <2>5. QED
    BY <1>11, <2>2, <2>3, <2>4, MovesType DEF Load, TypeOK
<1>12. ASSUME NEW p \in Processes, Cut(p)
       PROVE  TypeOK'
  <2>1. Moves(p, "write")
    BY <1>12 DEF Cut, Moves, At, Places
  <2>2. QED
    BY <1>12, <2>1, MovesType DEF Cut, TypeOK
<1>13. ASSUME NEW p \in Processes, Write(p)
       PROVE  TypeOK'
  <2>1. file' \in Creds \cup {None, Empty, Torn}
    BY <1>13 DEF Write, WrittenOver, TypeOK
  <2>2. saved' \in Creds
    BY <1>13, UpdatedType DEF Write, TypeOK
  <2>3. QED
    BY <1>13, <2>1, <2>2, EndsType DEF Write, Closes
<1>14. ASSUME NEW p \in Processes, SaveFails(p)
       PROVE  TypeOK'
  <2>1. file' \in Creds \cup {None, Empty, Torn}
    BY <1>14 DEF SaveFails, TypeOK
  <2>2. QED
    BY <1>14, <2>1, EndsType DEF SaveFails, Closes, TypeOK
<1>15. ASSUME NEW p \in Processes, Logout(p)
       PROVE  TypeOK'
  BY <1>15, NoCredsType DEF Logout, TypeOK, At
<1>16. ASSUME NEW p \in Processes, Expire(p)
       PROVE  TypeOK'
  <2>1. steam' \in [Processes -> AuthSessions]
    BY <1>16 DEF Expire, TypeOK, AuthSessions, NoSession
  <2>2. QED
    BY <1>16, <2>1 DEF Expire, TypeOK, At
<1>17. ASSUME NEW p \in Processes, NEW a \in Accounts, Approve(p, a)
       PROVE  TypeOK'
  <2>1. steam' \in [Processes -> AuthSessions]
    BY <1>17 DEF Approve, TypeOK, AuthSessions
  <2>2. QED
    BY <1>17, <2>1 DEF Approve, TypeOK, At
<1>18. CASE UNCHANGED vars
  BY <1>18 DEF vars, TypeOK, At
<1> QED
  BY <1>1, <1>2, <1>3, <1>4, <1>5, <1>6, <1>7, <1>8, <1>9, <1>10, <1>11, <1>12, <1>13,
     <1>14, <1>15, <1>16, <1>17, <1>18, <1>19, <1>20
  DEF Next, Guard, Poll, SaveCreds, Outside

\* Every state is well typed.
THEOREM TypeCorrect == Spec => []TypeOK
BY TypeInit, TypeStep, PTL DEF Spec

----------------------------------------------------------------------------
(***************************************************************************)
(* The client id and the challenge.                                        *)
(***************************************************************************)
\* A login goes by what Steam last told it, or will once it took the answer under
\* way; 0 names no id and no challenge that is new.
Knows(where, l, s) ==
  s.status # "closed" =>
    /\ s.clientID = s.toldID \/ s.clientID # 0
    /\ s.challenge = s.toldChallenge \/ s.challenge # 0
    /\ where # "answered" => l.clientID = s.toldID /\ l.shown = s.toldChallenge
    /\ where = "answered" =>
         /\ s.toldID = IF s.newClientID # 0 THEN s.newClientID ELSE l.clientID
         /\ s.toldChallenge = IF s.newChallenge # 0 THEN s.newChallenge ELSE l.shown

Together == \A p \in Processes : Knows(pc[p], auth[p], steam[p])

\* A step of one process alone.
Only(p) ==
  \A q \in Processes \ {p} : /\ pc'[q] = pc[q] /\ command'[q] = command[q]
                            /\ auth'[q] = auth[q] /\ steam'[q] = steam[q]

LEMMA OnlyTogether ==
  ASSUME TypeOK, Together, NEW p \in Processes, Only(p), Knows(pc'[p], auth'[p], steam'[p])
  PROVE  Together'
BY DEF Together, Only

\* What reading a confirmation leaves alone, and what it does to the login.
LEMMA ReadConfirmationCases ==
  ASSUME TypeOK, NEW p \in Processes, NEW g \in GuardTypes, ReadConfirmation(p, g)
  PROVE  /\ \A q \in Processes \ {p} : auth'[q] = auth[q]
         /\ auth'[p].clientID = auth[p].clientID /\ auth'[p].shown = auth[p].shown
         /\ auth'[p].offered = auth[p].offered
         /\ \/ g = "none" /\ auth'[p] = auth[p]
            \/ g # "none" /\ auth'[p].unread = auth[p].unread \ {g}
         /\ auth'[p].codeKind = IF g \in Codes THEN PreferredCode(auth[p].codeKind, g)
                                ELSE auth[p].codeKind
         /\ auth'[p].canWait = (auth[p].canWait \/ g \in Confirmations)
<1>1. auth \in [Processes -> Auths]
  BY DEF TypeOK
<1>2. CASE g = "none"
  <2>1. UNCHANGED auth
    BY <1>2 DEF ReadConfirmation, Codes, Confirmations
  <2>2. QED
    BY <1>1, <1>2, <2>1 DEF Codes, Confirmations, Auths
<1>3. CASE g \in Codes
  <2>1. auth' = [auth EXCEPT ![p] = [auth[p] EXCEPT
                   !.unread = auth[p].unread \ {g},
                   !.codeKind = PreferredCode(auth[p].codeKind, g)]]
    BY <1>3 DEF ReadConfirmation, Codes, Confirmations
  <2>2. QED
    BY <1>1, <1>3, <2>1 DEF Codes, Confirmations, Auths
<1>4. CASE g \in Confirmations
  <2>1. auth' = [auth EXCEPT ![p] = [auth[p] EXCEPT !.unread = auth[p].unread \ {g},
                                                    !.canWait = TRUE]]
    BY <1>4 DEF ReadConfirmation, Codes, Confirmations
  <2>2. QED
    BY <1>1, <1>4, <2>1 DEF Codes, Confirmations, Auths
<1>5. CASE g = "other"
  <2>1. auth' = [auth EXCEPT ![p] = [auth[p] EXCEPT !.unread = auth[p].unread \ {g}]]
    BY <1>5 DEF ReadConfirmation, Codes, Confirmations
  <2>2. QED
    BY <1>1, <1>5, <2>1 DEF Codes, Confirmations, Auths
<1> QED
  BY <1>2, <1>3, <1>4, <1>5 DEF GuardTypes

\* A command that is over knows nothing, nor does Steam of it.
LEMMA EndsTogether ==
  ASSUME TypeOK, Together, NEW p \in Processes, Ends(p)
  PROVE  Together'
<1>1. Only(p) /\ pc'[p] = "idle" /\ auth'[p] = NoAuth /\ steam'[p] = NoSession
  BY DEF TypeOK, Ends, Goes, Only
<1> QED
  BY <1>1, OnlyTogether DEF Knows, NoAuth, NoSession

LEMMA TogetherStep == TypeOK /\ Together /\ [Next]_vars => Together'
<1> SUFFICES ASSUME TypeOK, Together, [Next]_vars PROVE Together'
  OBVIOUS
<1>1. ASSUME NEW p \in Processes,
             \/ \E name \in Names : Run(p, name)
             \/ Prompt(p) \/ CodeTyped(p) \/ EmptyCode(p) \/ IntervalEnds(p)
             \/ \E key \in Keys : KeyVerified(p, key)
             \/ Load(p) \/ Cut(p)
      PROVE  Together'
  <2>1. UNCHANGED <<auth, steam>>
    BY <1>1 DEF Run, Prompt, CodeTyped, EmptyCode, IntervalEnds, KeyVerified, Load, Cut
  <2>2. pc[p] # "answered" /\ pc'[p] # "answered" /\ \A q \in Processes \ {p} : pc'[q] = pc[q]
    BY <1>1 DEF Run, Prompt, CodeTyped, EmptyCode, IntervalEnds, KeyVerified, Load, Cut,
      At, Goes, TypeOK
  <2>3. Knows(pc'[p], auth'[p], steam'[p])
    BY <2>1, <2>2 DEF Together, Knows
  <2>4. QED
    BY <2>1, <2>2, <2>3 DEF Together
<1>2. ASSUME NEW p \in Processes,
             \/ RequestFails(p) \/ NothingSupported(p) \/ NoCodeTyped(p)
             \/ Cancelled(p) \/ LoadFails(p) \/ Kill(p) \/ Write(p) \/ SaveFails(p)
      PROVE  Together'
  BY <1>2, EndsTogether DEF RequestFails, NothingSupported, NoCodeTyped, Cancelled,
    LoadFails, Kill, Write, SaveFails
<1>3. ASSUME NEW p \in Processes, NEW a \in Accounts, NEW offer \in Offers,
             BegunWithPassword(p, a, offer)
      PROVE  Together'
  <2>1. pc[p] = "begin" /\ pc'[p] = "guard" /\ Only(p) /\ steam'[p] = Opened(a, 0)
    BY <1>3 DEF BegunWithPassword, At, Goes, TypeOK, Only
  <2>2. auth'[p].clientID = 1 /\ auth'[p].shown = 0
    BY <1>3 DEF BegunWithPassword, TypeOK, NoAuth
  <2>3. /\ steam'[p].clientID = 1 /\ steam'[p].toldID = 1
        /\ steam'[p].challenge = 0 /\ steam'[p].toldChallenge = 0
    BY <2>1 DEF Opened, NoSession
  <2>4. Knows("guard", auth'[p], steam'[p])
    BY <2>2, <2>3 DEF Knows
  <2>5. QED
    BY <2>1, <2>4, OnlyTogether
<1>4. ASSUME NEW p \in Processes, BegunWithQR(p)
      PROVE  Together'
  <2>1. pc'[p] = "poll" /\ Only(p) /\ steam'[p] = Opened(None, 1)
    BY <1>4 DEF BegunWithQR, Goes, TypeOK, Only
  <2>2. auth'[p].clientID = 1 /\ auth'[p].shown = 1
    BY <1>4 DEF BegunWithQR, TypeOK, NoAuth
  <2>3. QED
    BY <2>1, <2>2, OnlyTogether DEF Knows, Opened, NoSession
<1>5. ASSUME NEW p \in Processes, NEW g \in GuardTypes, ReadConfirmation(p, g)
      PROVE  Together'
  <2>1. /\ auth'[p].clientID = auth[p].clientID /\ auth'[p].shown = auth[p].shown
        /\ \A q \in Processes \ {p} : auth'[q] = auth[q]
    BY <1>5, ReadConfirmationCases
  <2>2. UNCHANGED <<steam, command>> /\ pc[p] = "guard"
    BY <1>5 DEF ReadConfirmation, At
  <2>3. pc'[p] \in {"guard", "poll"} /\ \A q \in Processes \ {p} : pc'[q] = pc[q]
    BY <1>5, <2>2 DEF ReadConfirmation, Goes, TypeOK
  <2>4. Knows(pc'[p], auth'[p], steam'[p])
    BY <2>1, <2>2, <2>3 DEF Together, Knows
  <2>5. QED
    BY <2>1, <2>2, <2>3, <2>4, OnlyTogether DEF Only
<1>6. ASSUME NEW p \in Processes, CodeAccepted(p) \/ \E a \in Accounts : Approve(p, a)
      PROVE  Together'
  <2>1. \E account \in Accounts \cup {None} :
          steam' = [steam EXCEPT ![p] = [@ EXCEPT !.status = "approved", !.account = account]]
    <3>1. CASE CodeAccepted(p)
      <4>1. steam[p].account \in Accounts \cup {None}
        BY DEF TypeOK, AuthSessions
      <4>2. steam' = [steam EXCEPT ![p] = [@ EXCEPT !.status = "approved",
                                                    !.account = steam[p].account]]
        BY <3>1 DEF CodeAccepted, TypeOK, AuthSessions
      <4>3. QED
        BY <4>1, <4>2
    <3>2. QED
      BY <1>6, <3>1 DEF Approve
  <2>2. steam[p].status # "closed" /\ UNCHANGED <<auth, command>>
    BY <1>6 DEF CodeAccepted, Approve
  <2>3. \/ pc' = pc
        \/ pc[p] # "answered" /\ pc'[p] # "answered" /\ \A q \in Processes \ {p} : pc'[q] = pc[q]
    BY <1>6 DEF CodeAccepted, Approve, At, Goes, TypeOK
  <2>4. Only(p) /\ Knows(pc'[p], auth'[p], steam'[p])
    BY <2>1, <2>2, <2>3 DEF Together, Knows, Only, TypeOK, AuthSessions
  <2>5. QED
    BY <2>4, OnlyTogether
<1>7. ASSUME NEW p \in Processes, PollApproved(p)
      PROVE  Together'
  <2>1. pc'[p] = "load" /\ Only(p) /\ auth'[p] = NoAuth /\ steam'[p] = NoSession
    BY <1>7 DEF PollApproved, Goes, TypeOK, Only
  <2>2. QED
    BY <2>1, OnlyTogether DEF Knows, NoAuth, NoSession
<1>8. ASSUME NEW p \in Processes, AnswersPending(p)
      PROVE  Together'
  <2>1. /\ pc[p] = "poll" /\ pc'[p] = "answered" /\ Only(p)
        /\ steam[p].status = "open" /\ auth'[p] = auth[p]
    BY <1>8 DEF AnswersPending, At, Goes, TypeOK, Only
  <2>2. /\ steam'[p].clientID = steam[p].clientID /\ steam'[p].challenge = steam[p].challenge
        /\ steam'[p].toldID = steam[p].clientID
        /\ steam'[p].toldChallenge = steam[p].challenge
        /\ steam'[p].newClientID = News(steam[p].toldID, steam[p].clientID)
        /\ steam'[p].newChallenge = News(steam[p].toldChallenge, steam[p].challenge)
    BY <1>8 DEF AnswersPending, TypeOK, AuthSessions
  <2>3. Knows("poll", auth[p], steam[p])
    BY <2>1 DEF Together
  <2>4. Knows("answered", auth'[p], steam'[p])
    BY <2>1, <2>2, <2>3 DEF Knows, News
  <2>5. QED
    BY <2>1, <2>4, OnlyTogether
<1>9. ASSUME NEW p \in Processes, PollPending(p)
      PROVE  Together'
  <2>1. pc[p] = "answered" /\ pc'[p] = "wait" /\ Only(p)
    BY <1>9 DEF PollPending, TakesNew, At, Goes, TypeOK, Only
  <2>2. /\ steam'[p].clientID = steam[p].clientID /\ steam'[p].challenge = steam[p].challenge
        /\ steam'[p].toldID = steam[p].toldID /\ steam'[p].status = steam[p].status
        /\ steam'[p].toldChallenge = steam[p].toldChallenge
    BY <1>9 DEF PollPending, TypeOK, AuthSessions
  <2>3. /\ auth'[p].clientID = IF steam[p].newClientID # 0 THEN steam[p].newClientID
                              ELSE auth[p].clientID
        /\ auth'[p].shown = IF steam[p].newChallenge # 0 THEN steam[p].newChallenge
                           ELSE auth[p].shown
    <3>1. auth[p] \in Auths /\ auth \in [Processes -> Auths]
      BY DEF TypeOK
    <3> DEFINE id == IF steam[p].newClientID # 0 THEN steam[p].newClientID
                     ELSE auth[p].clientID
               challenge == IF steam[p].newChallenge # 0 THEN steam[p].newChallenge
                            ELSE auth[p].shown
    <3>2. auth' = [auth EXCEPT ![p] = [auth[p] EXCEPT !.clientID = id, !.shown = challenge]]
      BY <1>9 DEF PollPending, TakesNew
    <3> HIDE DEF id, challenge
    <3>3. auth'[p].clientID = id /\ auth'[p].shown = challenge
      BY <3>1, <3>2 DEF Auths
    <3>4. QED
      BY <3>3 DEF id, challenge
  <2>4. Knows("answered", auth[p], steam[p])
    BY <2>1 DEF Together
  <2>5. Knows("wait", auth'[p], steam'[p])
    BY <2>2, <2>3, <2>4 DEF Knows
  <2>6. QED
    BY <2>1, <2>5, OnlyTogether
<1>10. ASSUME NEW p \in Processes, Rotate(p)
       PROVE  Together'
  <2>1. PICK id \in {steam[p].clientID, steam[p].clientID + 1},
             challenge \in {steam[p].challenge, steam[p].challenge + 1} :
          steam' = [steam EXCEPT ![p] = [@ EXCEPT !.clientID = id, !.challenge = challenge]]
    BY <1>10 DEF Rotate
  <2>2. UNCHANGED <<pc, command, auth>> /\ Only(p) /\ steam[p].status = "open"
    BY <1>10, <2>1 DEF Rotate, Only, TypeOK
  <2>3. /\ steam'[p].clientID = id /\ steam'[p].challenge = challenge
        /\ steam'[p].toldID = steam[p].toldID
        /\ steam'[p].toldChallenge = steam[p].toldChallenge
        /\ steam'[p].newClientID = steam[p].newClientID
        /\ steam'[p].newChallenge = steam[p].newChallenge
        /\ steam[p].clientID \in Nat /\ steam[p].challenge \in Nat
    BY <2>1 DEF TypeOK, AuthSessions
  <2>4. Knows(pc[p], auth[p], steam[p])
    BY DEF Together
  <2>5. Knows(pc'[p], auth'[p], steam'[p])
    BY <2>2, <2>3, <2>4 DEF Knows
  <2>6. QED
    BY <2>2, <2>5, OnlyTogether
<1>11. ASSUME NEW p \in Processes, Expire(p)
       PROVE  Together'
  <2>1. Only(p) /\ steam'[p].status = "closed"
    BY <1>11 DEF Expire, Only, TypeOK, NoSession
  <2>2. QED
    BY <2>1, OnlyTogether DEF Knows
<1>12. ASSUME NEW p \in Processes, Logout(p)
       PROVE  Together'
  BY <1>12 DEF Logout, procVars, Together
<1>13. CASE UNCHANGED vars
  BY <1>13 DEF vars, procVars, Together
<1> QED
  BY <1>1, <1>2, <1>3, <1>4, <1>5, <1>6, <1>7, <1>8, <1>9, <1>10, <1>11, <1>12, <1>13
  DEF Next, Guard, Poll, SaveCreds, Outside

\* Whenever ids and challenges change, and whatever answers tell of them: the id a
\* login sends is accepted, and the challenge it shows is the one Steam last told.
THEOREM InStepCorrect == Spec => []InStep
<1>1. Init => Together
  <2>1. Knows("idle", NoAuth, NoSession)
    BY DEF NoAuth, NoSession, Knows
  <2>2. QED
    BY <2>1 DEF Init, Together
<1>2. Together => InStep
  BY DEF Together, Knows, InStep, Accepts, Approvable
<1> QED
  BY TypeInit, TypeStep, TogetherStep, <1>1, <1>2, PTL DEF Spec

----------------------------------------------------------------------------
(***************************************************************************)
(* What a file holds is of one login.                                      *)
(***************************************************************************)
OfLogin(c) == /\ c.refreshToken = c.accountName
              /\ c.steamID \in {None, c.accountName}

OneInv ==
  /\ \A p \in Processes : OfLogin(got[p]) /\ OfLogin(creds[p])
  /\ Whole => OfLogin(file)

LEMMA NoCredsOfLogin == OfLogin(NoCreds)
BY DEF OfLogin, NoCreds

LEMMA UpdatedOfLogin ==
  ASSUME TypeOK, NEW p \in Processes, OfLogin(got[p]), NEW old \in Creds, OfLogin(old)
  PROVE  OfLogin(Updated(old, p))
BY DEF TypeOK, Updated, OfLogin, Creds

\* A command ends after it left the file alone or in pieces.
LEMMA EndsOfLogin ==
  ASSUME TypeOK, OneInv, NEW p \in Processes, Ends(p), file' \in {file, Torn}
  PROVE  OneInv'
<1>1. Torn \notin Creds
  BY ConstantsAssumption
<1>2. \A q \in Processes : OfLogin(got'[q]) /\ OfLogin(creds'[q])
  BY NoCredsOfLogin DEF Ends, OneInv, TypeOK
<1> QED
  BY <1>1, <1>2 DEF OneInv, Whole

LEMMA OneStep == TypeOK /\ OneInv /\ [Next]_vars => OneInv'
<1> SUFFICES ASSUME TypeOK, OneInv, [Next]_vars PROVE OneInv'
  OBVIOUS
<1>1. ASSUME NEW p \in Processes,
             \/ \E name \in Names : Run(p, name)
             \/ \E a \in Accounts, offer \in Offers : BegunWithPassword(p, a, offer)
             \/ BegunWithQR(p) \/ \E g \in GuardTypes : ReadConfirmation(p, g)
             \/ Prompt(p) \/ CodeTyped(p) \/ EmptyCode(p) \/ CodeAccepted(p)
             \/ AnswersPending(p) \/ PollPending(p) \/ IntervalEnds(p) \/ Outside(p)
      PROVE  OneInv'
  <2>1. UNCHANGED <<got, creds, file>>
    BY <1>1 DEF Run, BegunWithPassword, BegunWithQR, ReadConfirmation, Prompt, CodeTyped,
      EmptyCode, CodeAccepted, AnswersPending, PollPending, IntervalEnds, Outside, Rotate,
      Expire, Approve, diskVars
  <2>2. QED
    BY <2>1 DEF OneInv, Whole
<1>2. ASSUME NEW p \in Processes,
             \/ RequestFails(p) \/ NothingSupported(p) \/ NoCodeTyped(p)
             \/ Cancelled(p) \/ LoadFails(p) \/ Kill(p) \/ SaveFails(p)
      PROVE  OneInv'
  BY <1>2, EndsOfLogin DEF RequestFails, NothingSupported, NoCodeTyped, Cancelled,
    LoadFails, Kill, SaveFails, diskVars
<1>3. ASSUME NEW p \in Processes, PollApproved(p)
      PROVE  OneInv'
  <2>1. OfLogin(Obtained(p))
    BY DEF Obtained, OfLogin, NoCreds
  <2>2. QED
    BY <1>3, <2>1 DEF PollApproved, OneInv, Whole, TypeOK, diskVars
<1>4. ASSUME NEW p \in Processes, NEW key \in Keys, KeyVerified(p, key)
      PROVE  OneInv'
  <2>1. OfLogin([got[p] EXCEPT !.publisherKey = key])
    BY DEF OneInv, OfLogin, TypeOK, Creds
  <2>2. QED
    BY <1>4, <2>1 DEF KeyVerified, OneInv, Whole, TypeOK, diskVars
<1>5. ASSUME NEW p \in Processes, Load(p)
      PROVE  OneInv'
  <2>1. Existing \in Creds /\ OfLogin(Existing)
    BY <1>5, NoCredsType, NoCredsOfLogin DEF Load, Existing, OneInv, Whole, TypeOK
  <2>2. OfLogin(Updated(Existing, p))
    BY <2>1, UpdatedOfLogin DEF OneInv
  <2>3. QED
    BY <1>5, <2>2 DEF Load, OneInv, Whole, TypeOK, diskVars
<1>6. ASSUME NEW p \in Processes, Cut(p)
      PROVE  OneInv'
  BY <1>6, ConstantsAssumption DEF Cut, OneInv, Whole
<1>7. ASSUME NEW p \in Processes, Write(p)
      PROVE  OneInv'
  <2>1. \A q \in Processes : OfLogin(got'[q]) /\ OfLogin(creds'[q])
    BY <1>7, NoCredsOfLogin DEF Write, Ends, OneInv, TypeOK
  <2>2. file' \in {file, creds[p], Torn}
    BY <1>7 DEF Write, WrittenOver
  <2>3. QED
    BY <2>1, <2>2, ConstantsAssumption DEF OneInv, Whole
<1>8. ASSUME NEW p \in Processes, Logout(p)
      PROVE  OneInv'
  BY <1>8, ConstantsAssumption DEF Logout, procVars, OneInv, Whole
<1>9. CASE UNCHANGED vars
  BY <1>9 DEF vars, procVars, diskVars, OneInv, Whole
<1> QED
  BY <1>1, <1>2, <1>3, <1>4, <1>5, <1>6, <1>7, <1>8, <1>9
  DEF Next, Guard, Poll, SaveCreds

\* The account, the Steam id and the token in the file are of one login.
THEOREM OfOneLoginCorrect == Spec => []OfOneLogin
<1>1. Init => OneInv
  BY NoCredsOfLogin, ConstantsAssumption DEF Init, OneInv, Whole
<1>2. OneInv => OfOneLogin
  BY DEF OneInv, OfLogin, OfOneLogin
<1> QED
  BY TypeInit, TypeStep, OneStep, <1>1, <1>2, PTL DEF Spec

----------------------------------------------------------------------------
(***************************************************************************)
(* What is saved is not lost.                                              *)
(***************************************************************************)
\* While no two saves overlapped there is one at most; what it writes extends
\* what was last saved; and who writes has the empty file at its path open.
LostInv ==
  ~overlapped =>
    /\ \A p, q \in Processes : Saving(p) /\ Saving(q) => p = q
    /\ Whole => file = saved
    /\ file = None => saved = NoCreds
    /\ \A p \in Processes : Saving(p) => creds[p] = Updated(saved, p)
    /\ \A p \in Processes : At(p, "write") => linked[p] /\ file = Empty

\* A process that is not saving, before or after its step, disturbs nothing.
LEMMA AsideLost ==
  ASSUME TypeOK, LostInv, NEW p \in Processes, ~Saving(p), ~Saving(p)',
         \A q \in Processes \ {p} : /\ pc'[q] = pc[q] /\ command'[q] = command[q]
                                   /\ got'[q] = got[q] /\ creds'[q] = creds[q],
         UNCHANGED <<diskVars, saved, overlapped>>
  PROVE  LostInv'
<1> SUFFICES ASSUME ~overlapped' PROVE LostInv'
  BY DEF LostInv
<1>1. ~overlapped /\ file' = file /\ linked' = linked /\ saved' = saved
  BY DEF diskVars
<1>2. \A q \in Processes : /\ Saving(q)' => q # p /\ Saving(q)
                          /\ At(q, "write")' => q # p /\ At(q, "write")
  BY DEF Saving, At
<1>3. ASSUME NEW q \in Processes, Saving(q)'
      PROVE  creds'[q] = Updated(saved, q)'
  <2>1. q # p /\ creds[q] = Updated(saved, q)
    BY <1>1, <1>2, <1>3 DEF LostInv, Saving
  <2>2. QED
    BY <1>1, <2>1 DEF Updated
<1>4. \A q \in Processes : At(q, "write")' => linked'[q] /\ file' = Empty
  BY <1>1, <1>2 DEF LostInv, At
<1>5. \A q, r \in Processes : Saving(q)' /\ Saving(r)' => q = r
  BY <1>1, <1>2 DEF LostInv, Saving
<1>6. (Whole => file = saved)' /\ (file = None => saved = NoCreds)'
  BY <1>1 DEF LostInv, Whole
<1> QED
  BY <1>3, <1>4, <1>5, <1>6 DEF LostInv

\* So does one that ends without saving.
LEMMA EndsLost ==
  ASSUME TypeOK, LostInv, NEW p \in Processes, ~Saving(p), Ends(p),
         UNCHANGED <<diskVars, saved, overlapped>>
  PROVE  LostInv'
<1>1. ~Saving(p)'
  BY DEF Ends, Goes, Saving, TypeOK
<1>2. \A q \in Processes \ {p} : /\ pc'[q] = pc[q] /\ command'[q] = command[q]
                                /\ got'[q] = got[q] /\ creds'[q] = creds[q]
  BY DEF Ends, Goes, TypeOK
<1> QED
  BY <1>1, <1>2, AsideLost

LEMMA LostStep == TypeOK /\ LostInv /\ [Next]_vars => LostInv'
<1> SUFFICES ASSUME TypeOK, LostInv, [Next]_vars PROVE LostInv'
  OBVIOUS
<1>1. ASSUME NEW p \in Processes,
             \/ \E name \in Names : Run(p, name)
             \/ \E a \in Accounts, offer \in Offers : BegunWithPassword(p, a, offer)
             \/ BegunWithQR(p) \/ Prompt(p) \/ CodeTyped(p) \/ EmptyCode(p) \/ CodeAccepted(p)
             \/ PollApproved(p) \/ AnswersPending(p) \/ PollPending(p) \/ IntervalEnds(p)
             \/ \E key \in Keys : KeyVerified(p, key)
      PROVE  LostInv'
  <2>1. \E here \in Places \ {"save", "write"}, there \in Places \ {"save", "write"} :
          At(p, here) /\ Goes(p, there)
    BY <1>1 DEF Run, BegunWithPassword, BegunWithQR, Prompt, CodeTyped, EmptyCode,
      CodeAccepted, PollApproved, AnswersPending, PollPending, IntervalEnds, KeyVerified, Places, At
  <2>2. UNCHANGED <<creds, diskVars, saved, overlapped>>
    BY <1>1 DEF Run, BegunWithPassword, BegunWithQR, Prompt, CodeTyped, EmptyCode,
      CodeAccepted, PollApproved, AnswersPending, PollPending, IntervalEnds, KeyVerified
  <2>3. \A q \in Processes \ {p} : command'[q] = command[q] /\ got'[q] = got[q]
    BY <1>1 DEF Run, BegunWithPassword, BegunWithQR, Prompt, CodeTyped, EmptyCode,
      CodeAccepted, PollApproved, AnswersPending, PollPending, IntervalEnds, KeyVerified, TypeOK
  <2>4. ~Saving(p) /\ ~Saving(p)' /\ \A q \in Processes \ {p} : pc'[q] = pc[q]
    BY <2>1 DEF At, Goes, Saving, TypeOK
  <2>5. QED
    BY <2>2, <2>3, <2>4, AsideLost
<1>2. ASSUME NEW p \in Processes, NEW g \in GuardTypes, ReadConfirmation(p, g)
      PROVE  LostInv'
  <2>1. At(p, "guard") /\ (Goes(p, "poll") \/ UNCHANGED pc)
    BY <1>2 DEF ReadConfirmation
  <2>2. UNCHANGED <<command, got, creds, diskVars, saved, overlapped>>
    BY <1>2 DEF ReadConfirmation
  <2>3. ~Saving(p) /\ ~Saving(p)' /\ \A q \in Processes \ {p} : pc'[q] = pc[q]
    BY <2>1 DEF At, Goes, Saving, TypeOK
  <2>4. QED
    BY <2>2, <2>3, AsideLost
<1>3. ASSUME NEW p \in Processes,
             \/ RequestFails(p) \/ NothingSupported(p) \/ NoCodeTyped(p)
             \/ Cancelled(p) \/ LoadFails(p) \/ Kill(p)
      PROVE  LostInv'
  <2>1. ~Saving(p) /\ Ends(p) /\ UNCHANGED <<diskVars, saved, overlapped>>
    BY <1>3 DEF RequestFails, NothingSupported, NoCodeTyped, Cancelled, LoadFails, Kill,
      Requesting, Saving, At
  <2>2. QED
    BY <2>1, EndsLost
<1>4. ASSUME NEW p \in Processes, Outside(p)
      PROVE  LostInv'
  BY <1>4 DEF Outside, Rotate, Expire, Approve, LostInv, Saving, At, Whole, Updated, diskVars
<1>5. ASSUME NEW p \in Processes, Load(p)
      PROVE  LostInv'
  <2> SUFFICES ASSUME ~overlapped' PROVE LostInv'
    BY DEF LostInv
  <2>1. /\ ~overlapped /\ \A q \in Processes : ~Saving(q)
        /\ file' = file /\ linked' = linked /\ saved' = saved /\ command' = command /\ got' = got
    BY <1>5 DEF Load, diskVars
  <2>2. Existing = saved
    BY <1>5, <2>1 DEF Load, LostInv, Existing, Whole, TypeOK
  <2>3. creds'[p] = Updated(saved, p)'
    BY <1>5, <2>1, <2>2 DEF Load, Updated, TypeOK
  <2>4. \A q \in Processes : (Saving(q)' => q = p) /\ ~At(q, "write")'
    BY <1>5, <2>1 DEF Load, Goes, Saving, At, TypeOK
  <2>5. QED
    BY <2>1, <2>3, <2>4 DEF LostInv, Whole
<1>6. ASSUME NEW p \in Processes, Cut(p)
      PROVE  LostInv'
  <2> SUFFICES ASSUME ~overlapped' PROVE LostInv'
    BY DEF LostInv
  <2>1. /\ ~overlapped /\ saved' = saved /\ command' = command /\ got' = got /\ creds' = creds
        /\ file' = Empty /\ linked'[p]
    BY <1>6 DEF Cut, TypeOK
  <2>2. \A q \in Processes : Saving(q)' => Saving(q)
    BY <1>6 DEF Cut, Goes, Saving, At, TypeOK
  <2>3. Saving(p) /\ Saving(p)'
    BY <1>6 DEF Cut, Goes, Saving, At, TypeOK
  <2>4. \A q \in Processes : Saving(q)' => q = p
    BY <2>1, <2>2, <2>3 DEF LostInv
  <2>5. ~Whole' /\ file' # None
    BY <2>1, ConstantsAssumption DEF Whole
  <2>6. creds'[p] = Updated(saved, p)'
    BY <2>1, <2>3 DEF LostInv, Updated
  <2>7. \A q \in Processes : At(q, "write")' => Saving(q)'
    BY DEF At, Saving
  <2>8. QED
    BY <2>1, <2>4, <2>5, <2>6, <2>7 DEF LostInv
<1>7. ASSUME NEW p \in Processes, Write(p) \/ SaveFails(p)
      PROVE  LostInv'
  <2> SUFFICES ASSUME ~overlapped' PROVE LostInv'
    BY DEF LostInv
  <2>1. ~overlapped /\ Ends(p) /\ Saving(p)
    BY <1>7 DEF Write, SaveFails, Saving, At
  <2>2. \A q \in Processes : ~Saving(q)' /\ ~At(q, "write")'
    BY <2>1 DEF LostInv, Ends, Goes, Saving, At, TypeOK
  <2>3. (Whole => file = saved)' /\ (file = None => saved = NoCreds)'
    <3>1. CASE Write(p)
      <4>1. At(p, "write") /\ linked[p] /\ file = Empty /\ creds[p] = Updated(saved, p)
        BY <2>1, <3>1 DEF Write, LostInv
      <4>2. file' = creds[p] /\ saved' = creds[p]
        BY <3>1, <4>1 DEF Write, WrittenOver
      <4>3. file' # None
        BY <4>2, ConstantsAssumption DEF TypeOK
      <4>4. QED
        BY <4>2, <4>3
    <3>2. CASE SaveFails(p)
      <4>1. saved' = saved /\ file' \in {file, Torn}
        BY <3>2 DEF SaveFails
      <4>2. QED
        BY <2>1, <4>1, ConstantsAssumption DEF LostInv, Whole
    <3>3. QED
      BY <1>7, <3>1, <3>2
  <2>4. QED
    BY <2>2, <2>3 DEF LostInv
<1>8. ASSUME NEW p \in Processes, Logout(p)
      PROVE  LostInv'
  <2> SUFFICES ASSUME ~overlapped' PROVE LostInv'
    BY DEF LostInv
  <2>1. /\ \A q \in Processes : ~Saving(q)
        /\ pc' = pc /\ file' = None /\ saved' = NoCreds
    BY <1>8 DEF Logout, procVars
  <2>2. \A q \in Processes : ~Saving(q)' /\ ~At(q, "write")'
    BY <2>1 DEF Saving, At
  <2>3. ~Whole'
    BY <2>1, ConstantsAssumption DEF Whole
  <2>4. QED
    BY <2>1, <2>2, <2>3 DEF LostInv
<1>9. CASE UNCHANGED vars
  BY <1>9 DEF vars, procVars, diskVars, LostInv, Saving, At, Whole, Updated
<1> QED
  BY <1>1, <1>2, <1>3, <1>4, <1>5, <1>6, <1>7, <1>8, <1>9
  DEF Next, Guard, Poll, SaveCreds

\* Unless two saves were under way at once, a file that is whole holds the last
\* login and the last publisher key.
THEOREM NothingLostCorrect == Spec => []NothingLost
<1>1. Init => LostInv
  <2> SUFFICES ASSUME Init PROVE LostInv
    OBVIOUS
  <2>1. \A p \in Processes : ~Saving(p) /\ ~At(p, "write")
    BY DEF Init, Saving, At
  <2>2. ~Whole /\ saved = NoCreds
    BY ConstantsAssumption DEF Init, Whole
  <2>3. QED
    BY <2>1, <2>2 DEF LostInv
<1>2. LostInv => NothingLost
  BY DEF LostInv, NothingLost
<1> QED
  BY TypeInit, TypeStep, LostStep, <1>1, <1>2, PTL DEF Spec

----------------------------------------------------------------------------
(***************************************************************************)
(* What handleGuard asks for.                                              *)
(***************************************************************************)
BestOf(offered) ==
  IF "deviceCode" \in offered THEN "deviceCode"
  ELSE IF "emailCode" \in offered THEN "emailCode" ELSE None

\* What was read so far says which code is asked for and whether one may wait.
Reading(l) ==
  LET read == l.offered \ l.unread
  IN  /\ l.unread \subseteq l.offered
      /\ "none" \notin read
      /\ l.codeKind = BestOf(read)
      /\ l.canWait <=> read \cap Confirmations # {}

\* Where a process is, what its login is like.
Guarded(where, name, l, g) ==
  /\ where \in {"idle", "begin"} => l = NoAuth
  /\ where \in {"guard", "prompt", "submit"} => Reading(l)
  /\ where \in {"prompt", "submit"} => l.unread = {}
  /\ where \in {"poll", "answered", "wait"} /\ name = "password" /\ g.status = "open" =>
       l.offered \cap (Confirmations \cup {"none"}) # {}

GuardInv == \A p \in Processes : Guarded(pc[p], command[p], auth[p], steam[p])

LEMMA OnlyGuarded ==
  ASSUME TypeOK, GuardInv, NEW p \in Processes, Only(p),
         Guarded(pc'[p], command'[p], auth'[p], steam'[p])
  PROVE  GuardInv'
BY DEF GuardInv, Only

\* The code asked for stays the best of those read.
LEMMA BestOfMore ==
  ASSUME NEW read, NEW g \in Codes
  PROVE  PreferredCode(BestOf(read), g) = BestOf(read \cup {g})
BY ConstantsAssumption DEF PreferredCode, BestOf, Codes, GuardTypes

\* Reading one more confirmation.
LEMMA ReadsOn ==
  ASSUME NEW l \in Auths, NEW m \in Auths, NEW g \in l.unread, g # "none", Reading(l),
         m.offered = l.offered, m.unread = l.unread \ {g},
         m.codeKind = IF g \in Codes THEN PreferredCode(l.codeKind, g) ELSE l.codeKind,
         m.canWait = (l.canWait \/ g \in Confirmations)
  PROVE  Reading(m)
<1> DEFINE read == l.offered \ l.unread
<1>1. m.offered \ m.unread = read \cup {g}
  BY DEF Reading
<1>2. m.codeKind = BestOf(read \cup {g})
  <2>1. CASE g \in Codes
    BY <2>1, BestOfMore DEF Reading
  <2>2. CASE g \notin Codes
    BY <2>2 DEF Reading, BestOf, Codes
  <2>3. QED
    BY <2>1, <2>2
<1>3. m.canWait <=> (read \cup {g}) \cap Confirmations # {}
  BY DEF Reading
<1> QED
  BY <1>1, <1>2, <1>3 DEF Reading

\* A command that ended knows nothing.
LEMMA EndsGuarded ==
  ASSUME TypeOK, GuardInv, NEW p \in Processes, Ends(p)
  PROVE  GuardInv'
<1>1. Only(p) /\ pc'[p] = "idle" /\ auth'[p] = NoAuth
  BY DEF Ends, Goes, TypeOK, Only
<1> QED
  BY <1>1, OnlyGuarded DEF Guarded

LEMMA GuardStep == TypeOK /\ GuardInv /\ [Next]_vars => GuardInv'
<1> SUFFICES ASSUME TypeOK, GuardInv, [Next]_vars PROVE GuardInv'
  OBVIOUS
<1>1. ASSUME NEW p \in Processes, NEW name \in Names, Run(p, name)
      PROVE  GuardInv'
  <2>1. Only(p) /\ pc[p] = "idle" /\ auth'[p] = auth[p] /\ pc'[p] \in {"verify", "begin"}
    BY <1>1 DEF Run, At, Goes, TypeOK, Only
  <2>2. QED
    BY <2>1, OnlyGuarded DEF Guarded, GuardInv
<1>2. ASSUME NEW p \in Processes, NEW a \in Accounts, NEW offer \in Offers,
             BegunWithPassword(p, a, offer)
      PROVE  GuardInv'
  <2>1. Only(p) /\ pc'[p] = "guard" /\ pc[p] = "begin"
    BY <1>2 DEF BegunWithPassword, At, Goes, TypeOK, Only
  <2>2. auth[p] = NoAuth
    BY <2>1 DEF GuardInv, Guarded
  <2>3. auth'[p] = [NoAuth EXCEPT !.offered = offer, !.unread = offer, !.clientID = 1]
    BY <1>2 DEF BegunWithPassword, TypeOK
  <2>4. Reading(auth'[p])
    BY <2>3 DEF NoAuth, Reading, BestOf
  <2>5. QED
    BY <2>1, <2>4, OnlyGuarded DEF Guarded
<1>3. ASSUME NEW p \in Processes, BegunWithQR(p)
      PROVE  GuardInv'
  <2>1. Only(p) /\ pc'[p] = "poll" /\ command'[p] = "qr"
    BY <1>3 DEF BegunWithQR, Goes, TypeOK, Only
  <2>2. QED
    BY <2>1, OnlyGuarded DEF Guarded
<1>4. ASSUME NEW p \in Processes,
             \/ RequestFails(p) \/ NothingSupported(p) \/ NoCodeTyped(p) \/ Cancelled(p)
             \/ LoadFails(p) \/ Write(p) \/ SaveFails(p) \/ Kill(p)
      PROVE  GuardInv'
  BY <1>4, EndsGuarded DEF RequestFails, NothingSupported, NoCodeTyped, Cancelled,
    LoadFails, Write, SaveFails, Kill
<1>5. ASSUME NEW p \in Processes, NEW g \in GuardTypes, ReadConfirmation(p, g)
      PROVE  GuardInv'
  <2>1. /\ pc[p] = "guard" /\ g \in auth[p].unread
        /\ command' = command /\ steam' = steam
        /\ IF g = "none" THEN Goes(p, "poll") ELSE pc' = pc
    BY <1>5 DEF ReadConfirmation, At, Codes, Confirmations
  <2>2. Reading(auth[p])
    BY <2>1 DEF GuardInv, Guarded
  <2>3. Only(p)
    BY <1>5, <2>1, ReadConfirmationCases DEF Only, Goes, TypeOK
  <2>4. CASE g = "none"
    <3>1. pc'[p] = "poll" /\ auth'[p].offered = auth[p].offered
      BY <1>5, <2>1, <2>4, ReadConfirmationCases DEF Goes, TypeOK
    <3>2. "none" \in auth'[p].offered
      BY <2>1, <2>2, <2>4, <3>1 DEF Reading
    <3>3. QED
      BY <2>3, <3>1, <3>2, OnlyGuarded DEF Guarded
  <2>5. CASE g # "none"
    <3>1. auth'[p] \in Auths
      BY TypeStep DEF TypeOK
    <3>2. Reading(auth'[p])
      BY <1>5, <2>1, <2>2, <2>5, <3>1, ReadConfirmationCases, ReadsOn DEF TypeOK
    <3>3. QED
      BY <2>1, <2>3, <2>5, <3>2, OnlyGuarded DEF Guarded
  <2>6. QED
    BY <2>4, <2>5
<1>6. ASSUME NEW p \in Processes, Prompt(p) \/ CodeTyped(p)
      PROVE  GuardInv'
  <2>1. /\ Only(p) /\ auth' = auth /\ auth[p].unread = {} /\ pc'[p] \in {"prompt", "submit"}
        /\ pc[p] \in {"guard", "prompt"}
    BY <1>6 DEF Prompt, CodeTyped, At, Goes, TypeOK, Only, GuardInv, Guarded
  <2>2. QED
    BY <2>1, OnlyGuarded DEF Guarded, GuardInv
<1>7. ASSUME NEW p \in Processes, EmptyCode(p)
      PROVE  GuardInv'
  <2>1. /\ Only(p) /\ auth' = auth /\ auth[p].canWait /\ pc'[p] = "poll" /\ pc[p] = "prompt"
    BY <1>7 DEF EmptyCode, MayWait, At, Goes, TypeOK, Only
  <2>2. auth[p].offered \cap Confirmations # {}
    BY <2>1 DEF GuardInv, Guarded, Reading
  <2>3. QED
    BY <2>1, <2>2, OnlyGuarded DEF Guarded
<1>8. ASSUME NEW p \in Processes, CodeAccepted(p)
      PROVE  GuardInv'
  <2>1. Only(p) /\ pc'[p] = "poll" /\ steam'[p].status = "approved"
    BY <1>8 DEF CodeAccepted, Goes, TypeOK, AuthSessions, Only
  <2>2. QED
    BY <2>1, OnlyGuarded DEF Guarded
<1>9. ASSUME NEW p \in Processes, PollApproved(p)
      PROVE  GuardInv'
  <2>1. Only(p) /\ pc'[p] = "load"
    BY <1>9 DEF PollApproved, Goes, TypeOK, Only
  <2>2. QED
    BY <2>1, OnlyGuarded DEF Guarded
<1>10. ASSUME NEW p \in Processes, PollPending(p)
       PROVE  GuardInv'
  <2>1. Only(p) /\ pc[p] = "answered" /\ pc'[p] = "wait" /\ command' = command
    BY <1>10 DEF PollPending, TakesNew, At, Goes, TypeOK, Only
  <2>2. auth'[p].offered = auth[p].offered /\ steam'[p].status = steam[p].status
    BY <1>10 DEF PollPending, TakesNew, TypeOK, Auths, AuthSessions
  <2>3. QED
    BY <2>1, <2>2, OnlyGuarded DEF Guarded, GuardInv
<1>16. ASSUME NEW p \in Processes, AnswersPending(p)
       PROVE  GuardInv'
  <2>1. /\ Only(p) /\ pc[p] = "poll" /\ pc'[p] = "answered" /\ command' = command
        /\ auth' = auth /\ steam'[p].status = steam[p].status
    BY <1>16 DEF AnswersPending, At, Goes, TypeOK, AuthSessions, Only
  <2>2. QED
    BY <2>1, OnlyGuarded DEF Guarded, GuardInv
<1>11. ASSUME NEW p \in Processes, IntervalEnds(p)
       PROVE  GuardInv'
  <2>1. Only(p) /\ pc[p] = "wait" /\ pc'[p] = "poll" /\ UNCHANGED <<command, auth, steam>>
    BY <1>11 DEF IntervalEnds, At, Goes, TypeOK, Only
  <2>2. QED
    BY <2>1, OnlyGuarded DEF Guarded, GuardInv
<1>12. ASSUME NEW p \in Processes,
              (\E key \in Keys : KeyVerified(p, key)) \/ Load(p) \/ Cut(p)
       PROVE  GuardInv'
  <2>1. Only(p) /\ pc'[p] \in {"load", "save", "write"}
    BY <1>12 DEF KeyVerified, Load, Cut, Goes, TypeOK, Only
  <2>2. QED
    BY <2>1, OnlyGuarded DEF Guarded
<1>13. ASSUME NEW p \in Processes, Logout(p)
       PROVE  GuardInv'
  BY <1>13 DEF Logout, procVars, GuardInv
<1>14. ASSUME NEW p \in Processes, Outside(p)
       PROVE  GuardInv'
  <2>1. UNCHANGED <<pc, command, auth>> /\ steam[p].status = "open"
    BY <1>14 DEF Outside, Rotate, Expire, Approve
  <2>2. \A q \in Processes \ {p} : steam'[q] = steam[q]
    BY <1>14 DEF Outside, Rotate, Expire, Approve, TypeOK
  <2>3. Only(p)
    BY <2>1, <2>2 DEF Only
  <2>4. QED
    BY <2>1, <2>3, OnlyGuarded DEF Guarded, GuardInv
<1>15. CASE UNCHANGED vars
  BY <1>15 DEF vars, procVars, GuardInv
<1> QED
  BY <1>1, <1>2, <1>3, <1>4, <1>5, <1>6, <1>7, <1>8, <1>9, <1>10, <1>11, <1>12, <1>13,
     <1>14, <1>15, <1>16
  DEF Next, Guard, Poll, SaveCreds

LEMMA GuardInit == Init => GuardInv
<1> SUFFICES ASSUME Init, NEW p \in Processes
             PROVE  Guarded(pc[p], command[p], auth[p], steam[p])
  BY DEF GuardInv
<1>1. pc[p] = "idle" /\ auth[p] = NoAuth
  BY DEF Init
<1> QED
  BY <1>1 DEF Guarded

\* Whatever is offered and in whatever order it is read, the best code is asked for,
\* and a login never polls for an approval that nobody can give.
THEOREM GuardedCorrect == Spec => []GuardedRight
<1>1. GuardInv => AsksBestCode
  BY DEF GuardInv, Guarded, Reading, BestOf, AsksBestCode
<1>2. GuardInv => PollsApprovable
  BY DEF GuardInv, Guarded, PollsApprovable, Approvable
<1>3. GuardInv => GuardedRight
  BY <1>1, <1>2 DEF GuardedRight
<1> QED
  BY TypeInit, TypeStep, GuardInit, GuardStep, <1>3, PTL DEF Spec
=============================================================================
