--------------------------- MODULE Session_proofs ---------------------------
(***************************************************************************)
(* Proofs about Session, for any processes, goroutines, depots, branches,  *)
(* passwords and downloads, and whether or not saves fail.                 *)
(***************************************************************************)
EXTENDS Session, TLAPS

\* What can be read is a set of keys.
LEMMA StoredIsKeys ==
  ASSUME TypeOK, Readable(Stored)
  PROVE  Stored \in SUBSET Depots
BY DEF TypeOK, Readable, Stored

\* What a write can leave in a file.
LEMMA WriteType ==
  ASSUME NEW old, NEW new \in SUBSET Depots
  PROVE  WrittenOver(old, new) \subseteq {Empty, Garbled} \cup SUBSET Depots
BY DEF WrittenOver

LEMMA UnlocksType ==
  ASSUME NEW p
  PROVE  Unlocks(p) \in SUBSET Branches /\ Unlocks(p) # None
BY ConstantsAssumption DEF Unlocks

----------------------------------------------------------------------------
LEMMA TypeInit == Init => TypeOK
<1> SUFFICES ASSUME Init PROVE TypeOK
  OBVIOUS
<1>1. overlapped \in BOOLEAN
  BY Zenon DEF Init
<1>2. ASSUME NEW c \in Callers
      PROVE  pc[c] = "idle" /\ fd[c] = None
  BY DEF Init
<1> QED
  BY <1>1, <1>2 DEF Init, TypeOK, At, Places, NotAsked

\* One step keeps the types.
LEMMA TypeStep ==
  ASSUME TypeOK, [Next]_vars
  PROVE  TypeOK'
<1> USE DEF TypeOK, At, Goes, Places
<1>1. ASSUME NEW s \in Sessions, Open(s) PROVE TypeOK'
  <2>1. Stored \in SUBSET Depots
    BY <1>1, StoredIsKeys DEF Open
  <2>2. overlapped' \in BOOLEAN
    BY <1>1 DEF Open
  <2> QED
    BY <1>1, <2>1, <2>2 DEF Open, Loaded, callerVars, diskVars
<1>2. ASSUME NEW s \in Sessions, Exit(s) PROVE TypeOK'
  <2>1. ASSUME NEW c \in Callers PROVE
          /\ pc'[c] # "idle" => up'[Of[c]] /\ req'[c] # None
          /\ pc'[c] = "write" <=> fd'[c] # None
          /\ pc'[c] \in {"branchKey", "askPassword", "askSection"} =>
               req'[c].password # NoPassword
    BY <1>2, ConstantsAssumption DEF Exit
  <2>2. asks' \in [Callers -> [Passwords -> Nat]]
    BY <1>2 DEF Exit, NotAsked
  <2>3. built' \in [Sessions -> Nat] /\ branchKeys' \in [Sessions -> [Passwords -> {None} \cup SUBSET Branches]]
    BY <1>2 DEF Exit
  <2> QED
    BY <1>2, <2>1, <2>2, <2>3 DEF Exit, diskVars
<1>3. ASSUME NEW c \in Callers, NEW d \in Asked, Begin(c, d) PROVE TypeOK'
  <2>1. d \in Downloads /\ d # None
    BY ConstantsAssumption
  <2>2. merged' \in [Callers -> SUBSET Branches]
    BY <1>3 DEF Begin
  <2>3. /\ req' \in [Callers -> Downloads \cup {None}]
        /\ calls' \in [Callers -> Nat] /\ refused' \in [Callers -> BOOLEAN]
    BY <1>3, <2>1 DEF Begin
  <2> QED
    BY <1>3, <2>1, <2>2, <2>3 DEF Begin, sessionVars, diskVars
<1>4. ASSUME NEW c \in Callers, RequestFails(c) PROVE TypeOK'
  BY <1>4, ConstantsAssumption DEF RequestFails, Requesting, diskVars, history
<1>5. ASSUME NEW c \in Callers, Resolve(c) PROVE TypeOK'
  <2>1. PICK where \in {"depotKey", "branchKey", "idle"} :
          /\ Goes(c, where)
          /\ where = "branchKey" => req[c].password # NoPassword
    BY <1>5 DEF Resolve, NeedsKey
  <2>2. refused' \in [Callers -> BOOLEAN]
    BY <1>5 DEF Resolve
  <2> QED
    BY <1>5, <2>1, <2>2 DEF Resolve, sessionVars, diskVars
<1>6. ASSUME NEW c \in Callers, LookUpBranchKey(c) PROVE TypeOK'
  <2>1. PICK where \in {"askPassword", "idle", "depotKey", "askSection"} :
          Goes(c, where)
    BY <1>6 DEF LookUpBranchKey, UseKey
  <2>2. refused' \in [Callers -> BOOLEAN]
    BY <1>6 DEF LookUpBranchKey, UseKey
  <2> QED
    BY <1>6, <2>1, <2>2 DEF LookUpBranchKey, sessionVars, diskVars
<1>7. ASSUME NEW c \in Callers, PasswordAnswered(c) PROVE TypeOK'
  <2>1. req[c].password \in Passwords
    BY <1>7 DEF PasswordAnswered, Downloads
  <2>2. /\ branchKeys' \in [Sessions -> [Passwords -> {None} \cup SUBSET Branches]]
        /\ asks' \in [Callers -> [Passwords -> Nat]]
    <3>1. Unlocks(req[c].password) \in SUBSET Branches
      BY UnlocksType
    <3>2. branchKeys' \in [Sessions -> [Passwords -> {None} \cup SUBSET Branches]]
      BY <1>7, <2>1, <3>1 DEF PasswordAnswered, Remember
    <3> QED
      BY <1>7, <2>1, <3>2 DEF PasswordAnswered
  <2>3. PICK where \in {"idle", "depotKey", "askSection"} : Goes(c, where)
    BY <1>7 DEF PasswordAnswered, UseKey
  <2>4. refused' \in [Callers -> BOOLEAN]
    BY <1>7 DEF PasswordAnswered, UseKey
  <2> QED
    BY <1>7, <2>2, <2>3, <2>4 DEF PasswordAnswered, diskVars
<1>8. ASSUME NEW c \in Callers, SectionAnswered(c) PROVE TypeOK'
  <2>1. PICK where \in {"idle", "depotKey"} : Goes(c, where)
    BY <1>8 DEF SectionAnswered
  <2>2. refused' \in [Callers -> BOOLEAN]
    BY <1>8 DEF SectionAnswered
  <2>3. merged' \in [Callers -> SUBSET Branches]
    <3>1. Branch(c) \in Branches
      BY <1>8 DEF SectionAnswered, Downloads, Branch
    <3> QED
      BY <1>8, <3>1 DEF SectionAnswered
  <2> QED
    BY <1>8, <2>1, <2>2, <2>3 DEF SectionAnswered, sessionVars, diskVars
<1>9. ASSUME NEW c \in Callers, LookUpKey(c) PROVE TypeOK'
  BY <1>9 DEF LookUpKey, sessionVars, diskVars, history
<1>10. ASSUME NEW c \in Callers, KeyAnswered(c) PROVE TypeOK'
  <2>1. Depot(c) \in Depots /\ Of[c] \in Sessions
    BY <1>10, ConstantsAssumption DEF KeyAnswered, Downloads, Depot
  <2>2. overlapped' \in BOOLEAN
    BY <1>10 DEF KeyAnswered
  <2> QED
    BY <1>10, <2>1, <2>2 DEF KeyAnswered, diskVars
<1>11. ASSUME NEW c \in Callers, OpenTmp(c) PROVE TypeOK'
  BY <1>11, ConstantsAssumption DEF OpenTmp, NamedTmp, sessionVars, history
<1>12. ASSUME NEW c \in Callers, WriteTmp(c) PROVE TypeOK'
  <2>1. fd[c] \in Inodes /\ snapshot[c] \in SUBSET Depots
    BY <1>12 DEF WriteTmp
  <2>2. content' \in [Inodes -> {Empty, Garbled} \cup SUBSET Depots]
    <3>1. PICK new \in WrittenOver(content[fd[c]], snapshot[c]) :
            content' = [content EXCEPT ![fd[c]] = new]
      BY <1>12 DEF WriteTmp
    <3>2. new \in {Empty, Garbled} \cup SUBSET Depots
      BY <2>1, <3>1, WriteType
    <3> QED
      BY <3>1, <3>2
  <2> QED
    BY <1>12, <2>2 DEF WriteTmp, Closes, sessionVars, history
<1>13. ASSUME NEW c \in Callers, RenameTmp(c) PROVE TypeOK'
  BY <1>13 DEF RenameTmp, sessionVars, history
<1>14. ASSUME NEW c \in Callers, SaveFails(c) PROVE TypeOK'
  BY <1>14 DEF SaveFails, Closes, Saving, sessionVars, history
<1>15. ASSUME NEW c \in Callers, CodeAnswered(c) PROVE TypeOK'
  BY <1>15 DEF CodeAnswered, sessionVars, diskVars, history
<1>16. ASSUME NEW c \in Callers, AskServers(c) PROVE TypeOK'
  <2>1. PICK where \in {"idle", "askServers"} : Goes(c, where)
    BY <1>16 DEF AskServers
  <2>2. mu' \in [Sessions -> Callers \cup {None}]
    BY <1>16, ConstantsAssumption DEF AskServers, Holds
  <2> QED
    BY <1>16, <2>1, <2>2 DEF AskServers, diskVars, history
<1>17. ASSUME NEW c \in Callers, ServersAnswered(c) PROVE TypeOK'
  <2>1. mu' \in [Sessions -> Callers \cup {None}]
    BY <1>17 DEF ServersAnswered
  <2>2. client' \in [Sessions -> BOOLEAN]
    BY <1>17 DEF ServersAnswered
  <2>3. built' \in [Sessions -> Nat]
    <3>1. Of[c] \in Sessions
      BY ConstantsAssumption
    <3> QED
      BY <1>17, <3>1 DEF ServersAnswered
  <2> QED
    BY <1>17, <2>1, <2>2, <2>3 DEF ServersAnswered, diskVars
<1>18. CASE UNCHANGED vars
  BY <1>18 DEF vars, sessionVars, callerVars, diskVars, history
<1> QED
  BY <1>1, <1>2, <1>3, <1>4, <1>5, <1>6, <1>7, <1>8, <1>9, <1>10, <1>11, <1>12,
     <1>13, <1>14, <1>15, <1>16, <1>17, <1>18 DEF Next, Step

\* Every variable has its type in every state.
THEOREM TypeCorrect == Spec => []TypeOK
<1> QED
  BY TypeInit, TypeStep, PTL DEF Spec

----------------------------------------------------------------------------
\* The key file, as long as one process runs and one save is under way: the
\* process knows what the file holds, whoever saves knows it too, and the .tmp
\* is that save's own.
Alone ==
  /\ \A s, t \in Sessions : up[s] /\ up[t] => s = t
  /\ \A c, d \in Callers : Saving(c) /\ Saving(d) => c = d

Growing ==
  /\ Readable(Stored)
  /\ path = None \/ path # tmp
  /\ \A s \in Sessions : up[s] => Stored \subseteq keys[s]
  /\ \A c \in Callers : Saving(c) => /\ Stored \subseteq snapshot[c]
                                    /\ snapshot[c] \subseteq keys[Of[c]]

OwnTmp ==
  /\ \A c \in Callers : At(c, "write") => fd[c] = tmp /\ content[tmp] = Empty
  /\ \A c \in Callers : At(c, "rename") => tmp # None /\ content[tmp] = snapshot[c]

FileInv == ~overlapped => Alone /\ Growing /\ OwnTmp

\* A step of the rest of a process does not touch the file, nor what is saved.
ElseWhere == UNCHANGED <<up, keys, snapshot, fd, diskVars, overlapped>>

LEMMA FileUntouched ==
  ASSUME FileInv, NEW c \in Callers, NEW where \in Places,
         pc \in [Callers -> Places], Goes(c, where),
         ~Saving(c), where \notin {"save", "write", "rename"}, ElseWhere
  PROVE  FileInv' /\ Stored' = Stored
<1>1. Stored' = Stored /\ (Readable(Stored))' = Readable(Stored)
  BY DEF ElseWhere, diskVars, Stored, Readable
<1>2. \A d \in Callers : /\ Saving(d)' = Saving(d)
                         /\ At(d, "write")' = At(d, "write")
                         /\ At(d, "rename")' = At(d, "rename")
  BY DEF Goes, Saving, At
<1> QED
  BY <1>1, <1>2 DEF FileInv, Alone, Growing, OwnTmp, ElseWhere, diskVars

LEMMA FileInit == Init => FileInv
<1> SUFFICES ASSUME Init PROVE FileInv
  OBVIOUS
<1>1. Stored = {} /\ Readable(Stored) /\ path = None
  BY ConstantsAssumption DEF Init, Stored, Readable
<1>2. \A c \in Callers : ~Saving(c) /\ ~At(c, "write") /\ ~At(c, "rename")
  BY DEF Init, Saving, At
<1>3. \A s \in Sessions : ~up[s]
  BY DEF Init
<1> QED
  BY <1>1, <1>2, <1>3 DEF FileInv, Alone, Growing, OwnTmp

\* One step keeps the file readable, and what is in it.
LEMMA FileStep ==
  ASSUME TypeOK, TypeOK', FileInv, [Next]_vars
  PROVE  FileInv' /\ (~overlapped' => Stored \subseteq Stored')
<1> DEFINE Goal == FileInv' /\ (~overlapped' => Stored \subseteq Stored')
<1> SUFFICES Goal
  OBVIOUS
<1>t. pc \in [Callers -> Places]
  BY DEF TypeOK
<1>1. ASSUME NEW s \in Sessions, Open(s) PROVE Goal
  <2> SUFFICES ASSUME ~overlapped' PROVE FileInv' /\ Stored \subseteq Stored'
    BY DEF FileInv
  <2>1. ~overlapped /\ \A t \in Sessions : ~up[t]
    BY <1>1 DEF Open
  <2>2. Stored' = Stored /\ Readable(Stored)
    BY <1>1 DEF Open, diskVars, Stored
  <2>3. \A c \in Callers : ~Saving(c) /\ ~At(c, "write") /\ ~At(c, "rename")
    BY <2>1, ConstantsAssumption DEF TypeOK, Saving, At
  <2>4. Growing'
    BY <1>1, <2>1, <2>2, <2>3 DEF Open, Loaded, Growing, FileInv, Saving, At, Readable,
       callerVars, diskVars, TypeOK
  <2>5. Alone'
    BY <1>1, <2>1, <2>3 DEF Open, Alone, Saving, callerVars, TypeOK
  <2>6. OwnTmp'
    BY <1>1, <2>3 DEF Open, OwnTmp, At, callerVars
  <2> QED
    BY <2>2, <2>4, <2>5, <2>6 DEF FileInv
<1>2. ASSUME NEW s \in Sessions, Exit(s) PROVE Goal
  <2>1. Stored' = Stored /\ Readable(Stored)' = Readable(Stored)
    BY <1>2 DEF Exit, diskVars, Stored, Readable
  <2>2. \A t \in Sessions : up'[t] => up[t] /\ keys'[t] = keys[t]
    BY <1>2 DEF Exit, TypeOK
  <2>3. \A c \in Callers : pc'[c] # "idle" =>
          /\ pc'[c] = pc[c] /\ snapshot'[c] = snapshot[c] /\ fd'[c] = fd[c]
          /\ keys'[Of[c]] = keys[Of[c]]
    BY <1>2, ConstantsAssumption DEF Exit, TypeOK
  <2> QED
    BY <1>2, <2>1, <2>2, <2>3 DEF Exit, diskVars, FileInv, Alone, Growing, OwnTmp,
       Saving, At
<1>3. ASSUME NEW c \in Callers, NEW d \in Asked, Begin(c, d) PROVE Goal
  <2>1. ElseWhere /\ ~Saving(c)
    BY <1>3 DEF Begin, ElseWhere, sessionVars, Saving, At
  <2> QED
    BY <1>3, <1>t, <2>1, FileUntouched DEF Begin, Places
<1>4. ASSUME NEW c \in Callers, RequestFails(c) PROVE Goal
  <2>1. ElseWhere /\ ~Saving(c)
    BY <1>4 DEF RequestFails, ElseWhere, Requesting, Saving, history
  <2> QED
    BY <1>4, <1>t, <2>1, FileUntouched DEF RequestFails, Places
<1>5. ASSUME NEW c \in Callers, Resolve(c) PROVE Goal
  <2>1. ElseWhere /\ ~Saving(c)
    BY <1>5 DEF Resolve, ElseWhere, sessionVars, Saving, At
  <2>2. PICK where \in {"depotKey", "branchKey", "idle"} : Goes(c, where)
    BY <1>5 DEF Resolve
  <2> QED
    BY <1>t, <2>1, <2>2, FileUntouched DEF Places
<1>6. ASSUME NEW c \in Callers, LookUpBranchKey(c) PROVE Goal
  <2>1. ElseWhere /\ ~Saving(c)
    BY <1>6 DEF LookUpBranchKey, ElseWhere, sessionVars, Saving, At
  <2>2. PICK where \in {"askPassword", "idle", "depotKey", "askSection"} :
          Goes(c, where)
    BY <1>6 DEF LookUpBranchKey, UseKey
  <2> QED
    BY <1>t, <2>1, <2>2, FileUntouched DEF Places
<1>7. ASSUME NEW c \in Callers, PasswordAnswered(c) PROVE Goal
  <2>1. ElseWhere /\ ~Saving(c)
    BY <1>7 DEF PasswordAnswered, ElseWhere, Saving, At
  <2>2. PICK where \in {"idle", "depotKey", "askSection"} : Goes(c, where)
    BY <1>7 DEF PasswordAnswered, UseKey
  <2> QED
    BY <1>t, <2>1, <2>2, FileUntouched DEF Places
<1>8. ASSUME NEW c \in Callers, SectionAnswered(c) PROVE Goal
  <2>1. ElseWhere /\ ~Saving(c)
    BY <1>8 DEF SectionAnswered, ElseWhere, sessionVars, Saving, At
  <2>2. PICK where \in {"idle", "depotKey"} : Goes(c, where)
    BY <1>8 DEF SectionAnswered
  <2> QED
    BY <1>t, <2>1, <2>2, FileUntouched DEF Places
<1>9. ASSUME NEW c \in Callers, LookUpKey(c) PROVE Goal
  <2>1. ElseWhere /\ ~Saving(c)
    BY <1>9 DEF LookUpKey, ElseWhere, sessionVars, history, Saving, At
  <2>2. PICK where \in {"code", "askKey"} : Goes(c, where)
    BY <1>9 DEF LookUpKey
  <2> QED
    BY <1>t, <2>1, <2>2, FileUntouched DEF Places
<1>10. ASSUME NEW c \in Callers, KeyAnswered(c) PROVE Goal
  <2> SUFFICES ASSUME ~overlapped' PROVE FileInv' /\ Stored \subseteq Stored'
    BY DEF FileInv
  <2>1. ~overlapped /\ \A d \in Callers : ~Saving(d)
    BY <1>10 DEF KeyAnswered
  <2>2. Stored' = Stored /\ Readable(Stored)' = Readable(Stored)
    BY <1>10 DEF KeyAnswered, diskVars, Stored, Readable
  <2>3. \A d \in Callers : /\ Saving(d)' => d = c
                           /\ ~At(d, "write")' /\ ~At(d, "rename")'
    BY <1>10, <1>t, <2>1 DEF KeyAnswered, Goes, Saving, At
  <2>4. up[Of[c]] /\ Of[c] \in Sessions
    BY <1>10, ConstantsAssumption DEF KeyAnswered, TypeOK, At
  <2>5. snapshot'[c] = keys'[Of[c]] /\ \A s \in Sessions : keys[s] \subseteq keys'[s]
    BY <1>10, <2>4 DEF KeyAnswered, TypeOK
  <2>6. Growing'
    BY <1>10, <2>1, <2>2, <2>3, <2>4, <2>5 DEF KeyAnswered, FileInv, Growing, diskVars
  <2> QED
    BY <1>10, <2>1, <2>2, <2>3, <2>6 DEF KeyAnswered, FileInv, Alone, OwnTmp
<1>11. ASSUME NEW c \in Callers, OpenTmp(c) PROVE Goal
  <2> SUFFICES ASSUME ~overlapped' PROVE FileInv' /\ Stored \subseteq Stored'
    BY DEF FileInv
  <2>1. ~overlapped /\ Saving(c) /\ Alone /\ Growing
    BY <1>11 DEF OpenTmp, history, Saving, At, FileInv
  <2>2. PICK i \in Inodes : /\ IF tmp = None THEN i \notin InUse ELSE i = tmp
                            /\ fd' = [fd EXCEPT ![c] = i]
                            /\ tmp' = i /\ path' = path
                            /\ content' = [content EXCEPT ![i] = Empty]
    BY <1>11 DEF OpenTmp, NamedTmp
  <2>3. path # i
    BY <2>1, <2>2, ConstantsAssumption DEF InUse, Growing
  <2>4. Stored' = Stored /\ Readable(Stored)' = Readable(Stored)
    BY <2>2, <2>3 DEF Stored, Readable, TypeOK
  <2>5. \A d \in Callers : /\ Saving(d)' = Saving(d)
                           /\ At(d, "write")' => d = c
                           /\ ~At(d, "rename")'
    BY <1>11, <1>t, <2>1 DEF OpenTmp, Goes, Saving, At, Alone
  <2>6. fd'[c] = i /\ content'[i] = Empty
    BY <2>2 DEF TypeOK
  <2>7. UNCHANGED <<up, keys, snapshot>>
    BY <1>11 DEF OpenTmp, sessionVars
  <2> QED
    BY <2>1, <2>2, <2>3, <2>4, <2>5, <2>6, <2>7 DEF FileInv, Alone, Growing, OwnTmp
<1>12. ASSUME NEW c \in Callers, WriteTmp(c) PROVE Goal
  <2> SUFFICES ASSUME ~overlapped' PROVE FileInv' /\ Stored \subseteq Stored'
    BY DEF FileInv
  <2>1. ~overlapped /\ Saving(c) /\ Alone /\ Growing /\ OwnTmp
    BY <1>12 DEF WriteTmp, history, Saving, At, FileInv
  <2>2. fd[c] = tmp /\ content[tmp] = Empty /\ tmp \in Inodes
    BY <1>12, <2>1 DEF WriteTmp, OwnTmp, TypeOK
  <2>3. content' = [content EXCEPT ![tmp] = snapshot[c]]
    <3>1. WrittenOver(content[fd[c]], snapshot[c]) = {snapshot[c]}
      BY <2>2, ConstantsAssumption DEF WrittenOver
    <3> QED
      BY <1>12, <2>2, <3>1 DEF WriteTmp
  <2>4. UNCHANGED <<up, keys, snapshot, path, tmp>>
    BY <1>12 DEF WriteTmp, sessionVars
  <2>5. Stored' = Stored /\ Readable(Stored)' = Readable(Stored)
    BY <2>1, <2>3, <2>4 DEF Stored, Readable, TypeOK, Growing
  <2>6. \A d \in Callers : /\ Saving(d)' = Saving(d)
                           /\ ~At(d, "write")'
                           /\ At(d, "rename")' => d = c
    BY <1>12, <1>t, <2>1 DEF WriteTmp, Goes, Saving, At, Alone
  <2>7. content'[tmp'] = snapshot'[c] /\ tmp' # None
    BY <2>2, <2>3, <2>4, ConstantsAssumption DEF TypeOK
  <2> QED
    BY <2>1, <2>4, <2>5, <2>6, <2>7 DEF FileInv, Alone, Growing, OwnTmp
<1>13. ASSUME NEW c \in Callers, RenameTmp(c) PROVE Goal
  <2> SUFFICES ASSUME ~overlapped' PROVE FileInv' /\ Stored \subseteq Stored'
    BY DEF FileInv
  <2>1. ~overlapped /\ Saving(c) /\ Alone /\ Growing /\ OwnTmp
    BY <1>13 DEF RenameTmp, history, Saving, At, FileInv
  <2>2. tmp # None /\ content[tmp] = snapshot[c]
    BY <1>13, <2>1 DEF RenameTmp, OwnTmp
  <2>3. path' = tmp /\ tmp' = None /\ UNCHANGED <<up, keys, content>>
    BY <1>13, <2>2 DEF RenameTmp, sessionVars
  <2>4. Stored' = snapshot[c]
    BY <2>2, <2>3 DEF Stored
  <2>5. Readable(Stored)'
    BY <2>4, ConstantsAssumption DEF Readable, TypeOK
  <2>6. Stored \subseteq Stored' /\ Stored' \subseteq keys[Of[c]]
    BY <2>1, <2>4 DEF Growing
  <2>7. \A d \in Callers : ~Saving(d)' /\ ~At(d, "write")' /\ ~At(d, "rename")'
    BY <1>13, <1>t, <2>1 DEF RenameTmp, Goes, Saving, At, Alone
  <2>8. up[Of[c]] /\ Of[c] \in Sessions
    BY <1>13, ConstantsAssumption DEF RenameTmp, TypeOK, At
  <2> QED
    BY <2>1, <2>2, <2>3, <2>5, <2>6, <2>7, <2>8 DEF FileInv, Alone, Growing, OwnTmp
<1>14. ASSUME NEW c \in Callers, SaveFails(c) PROVE Goal
  <2> SUFFICES ASSUME ~overlapped' PROVE FileInv' /\ Stored \subseteq Stored'
    BY DEF FileInv
  <2>1. ~overlapped /\ Saving(c) /\ Alone /\ Growing /\ OwnTmp
    BY <1>14 DEF SaveFails, history, FileInv
  <2>2. UNCHANGED <<up, keys, path, tmp>>
    BY <1>14 DEF SaveFails, sessionVars
  <2>3. Stored' = Stored
    <3>1. CASE UNCHANGED content
      BY <2>2, <3>1 DEF Stored
    <3>2. CASE At(c, "write") /\ content' = [content EXCEPT ![fd[c]] = Garbled]
      <4>1. fd[c] = tmp
        BY <2>1, <3>2 DEF OwnTmp
      <4> QED
        BY <2>1, <2>2, <3>2, <4>1 DEF Stored, Growing, TypeOK
    <3> QED
      BY <1>14, <3>1, <3>2 DEF SaveFails
  <2>4. Readable(Stored)' = Readable(Stored)
    BY <2>3 DEF Readable
  <2>5. \A d \in Callers : ~Saving(d)' /\ ~At(d, "write")' /\ ~At(d, "rename")'
    BY <1>14, <1>t, <2>1 DEF SaveFails, Goes, Saving, At, Alone
  <2> QED
    BY <2>1, <2>2, <2>3, <2>4, <2>5 DEF FileInv, Alone, Growing, OwnTmp
<1>15. ASSUME NEW c \in Callers, CodeAnswered(c) PROVE Goal
  <2>1. ElseWhere /\ ~Saving(c)
    BY <1>15 DEF CodeAnswered, ElseWhere, sessionVars, history, Saving, At
  <2> QED
    BY <1>15, <1>t, <2>1, FileUntouched DEF CodeAnswered, Places
<1>16. ASSUME NEW c \in Callers, AskServers(c) PROVE Goal
  <2>1. ElseWhere /\ ~Saving(c)
    BY <1>16 DEF AskServers, ElseWhere, history, Saving, At
  <2>2. PICK where \in {"idle", "askServers"} : Goes(c, where)
    BY <1>16 DEF AskServers
  <2> QED
    BY <1>t, <2>1, <2>2, FileUntouched DEF Places
<1>17. ASSUME NEW c \in Callers, ServersAnswered(c) PROVE Goal
  <2>1. ElseWhere /\ ~Saving(c)
    BY <1>17 DEF ServersAnswered, ElseWhere, Saving, At
  <2> QED
    BY <1>17, <1>t, <2>1, FileUntouched DEF ServersAnswered, Places
<1>18. CASE UNCHANGED vars
  BY <1>18 DEF vars, sessionVars, callerVars, diskVars, history, FileInv, Alone,
     Growing, OwnTmp, Stored, Readable, Saving, At
<1> QED
  BY <1>1, <1>2, <1>3, <1>4, <1>5, <1>6, <1>7, <1>8, <1>9, <1>10, <1>11, <1>12,
     <1>13, <1>14, <1>15, <1>16, <1>17, <1>18 DEF Next, Step

\* The key file of one process that saves one key at a time can always be read.
THEOREM ReadableCorrect == Spec => []FileReadable
<1>1. FileInv => FileReadable
  BY DEF FileInv, FileReadable, Growing
<1> QED
  BY TypeInit, TypeStep, FileInit, FileStep, <1>1, PTL DEF Spec

\* As long as that is so, no step loses a key from the file.
THEOREM GrowsCorrect == Spec => FileGrows
<1>1. TypeOK /\ TypeOK' /\ FileInv /\ [Next]_vars =>
        [~overlapped' => Stored \subseteq Stored']_vars
  BY FileStep
<1> QED
  BY TypeInit, TypeStep, FileInit, FileStep, <1>1, PTL DEF Spec, FileGrows

----------------------------------------------------------------------------
\* What the processes have cached of Steam's answers, and who has asked for them.
CacheInv ==
  /\ \A s \in Sessions, p \in Passwords : branchKeys[s][p] \in {None, Unlocks(p)}
  /\ \A c \in Callers, p \in Passwords :
       /\ asks[c][p] <= 1
       /\ branchKeys[Of[c]][p] = None => asks[c][p] = 0
  /\ \A c \in Callers :
       At(c, "askPassword") => asks[c][req[c].password] = 0

LEMMA CacheInit == Init => CacheInv
BY ConstantsAssumption DEF Init, CacheInv, At, NotAsked

\* Where a caller goes that neither begins to ask for a password nor gets an answer.
LEMMA CacheUntouched ==
  ASSUME CacheInv, UNCHANGED <<branchKeys, asks>>, NEW c \in Callers, NEW where \in Places,
         pc \in [Callers -> Places], Goes(c, where), where # "askPassword",
         \A d \in Callers : d # c => req'[d] = req[d]
  PROVE  CacheInv'
BY DEF CacheInv, Goes, At

LEMMA CacheStep ==
  ASSUME TypeOK, CacheInv, [Next]_vars
  PROVE  CacheInv'
<1>t. pc \in [Callers -> Places] /\ Of \in [Callers -> Sessions]
  BY ConstantsAssumption DEF TypeOK
<1>1. ASSUME NEW s \in Sessions, Open(s) PROVE CacheInv'
  BY <1>1 DEF Open, CacheInv, At, callerVars
<1>2. ASSUME NEW s \in Sessions, Exit(s) PROVE CacheInv'
  BY <1>2, <1>t DEF Exit, CacheInv, At, NotAsked, TypeOK
<1>3. ASSUME NEW c \in Callers, NEW d \in Asked, Begin(c, d) PROVE CacheInv'
  BY <1>3, <1>t, CacheUntouched DEF Begin, sessionVars, Places, TypeOK
<1>4. ASSUME NEW c \in Callers, RequestFails(c) PROVE CacheInv'
  BY <1>4, <1>t, CacheUntouched DEF RequestFails, history, Places
<1>5. ASSUME NEW c \in Callers, Resolve(c) PROVE CacheInv'
  <2>1. PICK where \in {"depotKey", "branchKey", "idle"} : Goes(c, where)
    BY <1>5 DEF Resolve
  <2> QED
    BY <1>5, <1>t, <2>1, CacheUntouched DEF Resolve, sessionVars, Places
<1>6. ASSUME NEW c \in Callers, LookUpBranchKey(c) PROVE CacheInv'
  <2>1. CASE Cached(c) = None
    <3>1. req[c].password \in Passwords
      BY <1>6 DEF LookUpBranchKey, TypeOK, Downloads, At
    <3>2. asks[c][req[c].password] = 0
      BY <1>6, <2>1, <3>1 DEF CacheInv, Cached
    <3>3. Goes(c, "askPassword") /\ UNCHANGED <<branchKeys, asks, req>>
      BY <1>6, <2>1 DEF LookUpBranchKey, sessionVars
    <3> QED
      BY <1>t, <3>2, <3>3 DEF CacheInv, Goes, At
  <2>2. CASE Cached(c) # None
    <3>1. PICK where \in {"idle", "depotKey", "askSection"} : Goes(c, where)
      BY <1>6, <2>2 DEF LookUpBranchKey, UseKey
    <3> QED
      BY <1>6, <1>t, <3>1, CacheUntouched DEF LookUpBranchKey, sessionVars, Places
  <2> QED
    BY <2>1, <2>2
<1>7. ASSUME NEW c \in Callers, PasswordAnswered(c) PROVE CacheInv'
  <2> DEFINE p == req[c].password
             s == Of[c]
  <2>1. p \in Passwords /\ s \in Sessions /\ asks[c][p] = 0
    BY <1>7, <1>t DEF PasswordAnswered, TypeOK, Downloads, At, CacheInv
  <2>2. PICK where \in {"idle", "depotKey", "askSection"} : Goes(c, where)
    BY <1>7 DEF PasswordAnswered, UseKey
  <2>3. \A t \in Sessions, q \in Passwords :
          branchKeys'[t][q] = IF t = s /\ q = p THEN Unlocks(p) ELSE branchKeys[t][q]
    BY <1>7, <2>1 DEF PasswordAnswered, Remember, TypeOK
  <2>4. \A d \in Callers, q \in Passwords :
          asks'[d][q] = IF d = c /\ q = p THEN 1 ELSE asks[d][q]
    BY <1>7, <2>1 DEF PasswordAnswered, TypeOK
  <2>5. req' = req /\ \A d \in Callers : At(d, "askPassword")' => d # c /\ At(d, "askPassword")
    BY <1>7, <1>t, <2>2 DEF PasswordAnswered, Goes, At
  <2>6. Unlocks(p) # None
    BY UnlocksType
  <2>7. \A d \in Callers : At(d, "askPassword")' => asks'[d][req'[d].password] = 0
    <3> SUFFICES ASSUME NEW d \in Callers, At(d, "askPassword")'
                 PROVE  asks'[d][req'[d].password] = 0
      OBVIOUS
    <3>1. d # c /\ req[d].password \in Passwords /\ asks[d][req[d].password] = 0
      BY <2>5 DEF TypeOK, Downloads, At, CacheInv
    <3> QED
      BY <2>4, <2>5, <3>1
  <2> QED
    BY <1>t, <2>1, <2>3, <2>4, <2>6, <2>7 DEF CacheInv
<1>8. ASSUME NEW c \in Callers, SectionAnswered(c) PROVE CacheInv'
  <2>1. PICK where \in {"idle", "depotKey"} : Goes(c, where)
    BY <1>8 DEF SectionAnswered
  <2> QED
    BY <1>8, <1>t, <2>1, CacheUntouched DEF SectionAnswered, sessionVars, Places
<1>9. ASSUME NEW c \in Callers, LookUpKey(c) PROVE CacheInv'
  <2>1. PICK where \in {"code", "askKey"} : Goes(c, where)
    BY <1>9 DEF LookUpKey
  <2> QED
    BY <1>9, <1>t, <2>1, CacheUntouched DEF LookUpKey, sessionVars, history, Places
<1>10. ASSUME NEW c \in Callers, KeyAnswered(c) PROVE CacheInv'
  BY <1>10, <1>t, CacheUntouched DEF KeyAnswered, Places
<1>11. ASSUME NEW c \in Callers, OpenTmp(c) PROVE CacheInv'
  BY <1>11, <1>t, CacheUntouched DEF OpenTmp, sessionVars, history, Places
<1>12. ASSUME NEW c \in Callers, WriteTmp(c) PROVE CacheInv'
  BY <1>12, <1>t, CacheUntouched DEF WriteTmp, sessionVars, history, Places
<1>13. ASSUME NEW c \in Callers, RenameTmp(c) PROVE CacheInv'
  BY <1>13, <1>t, CacheUntouched DEF RenameTmp, sessionVars, history, Places
<1>14. ASSUME NEW c \in Callers, SaveFails(c) PROVE CacheInv'
  BY <1>14, <1>t, CacheUntouched DEF SaveFails, sessionVars, history, Places
<1>15. ASSUME NEW c \in Callers, CodeAnswered(c) PROVE CacheInv'
  BY <1>15, <1>t, CacheUntouched DEF CodeAnswered, sessionVars, history, Places
<1>16. ASSUME NEW c \in Callers, AskServers(c) PROVE CacheInv'
  <2>1. PICK where \in {"idle", "askServers"} : Goes(c, where)
    BY <1>16 DEF AskServers
  <2> QED
    BY <1>16, <1>t, <2>1, CacheUntouched DEF AskServers, history, Places
<1>17. ASSUME NEW c \in Callers, ServersAnswered(c) PROVE CacheInv'
  BY <1>17, <1>t, CacheUntouched DEF ServersAnswered, Places
<1>18. CASE UNCHANGED vars
  BY <1>18 DEF vars, sessionVars, callerVars, history, CacheInv, At
<1> QED
  BY <1>1, <1>2, <1>3, <1>4, <1>5, <1>6, <1>7, <1>8, <1>9, <1>10, <1>11, <1>12,
     <1>13, <1>14, <1>15, <1>16, <1>17, <1>18 DEF Next, Step

\* No goroutine is told twice what a password unlocks.
THEOREM AsksOnceCorrect == Spec => []AsksOnce
<1>1. CacheInv => AsksOnce
  BY DEF CacheInv, AsksOnce
<1> QED
  BY TypeInit, TypeStep, CacheInit, CacheStep, <1>1, PTL DEF Spec

----------------------------------------------------------------------------
\* Where a caller is tells what it has the right to, given the cached answers.
RightOf(c) ==
  /\ pc[c] \in {"branchKey", "askPassword", "askSection"} => ~HasManifest(c, merged[c])
  /\ At(c, "askSection") => HasRight(c) /\ ~IsEncrypted(c)
  /\ pc[c] \in {"depotKey", "askKey", "save", "write", "rename", "code", "cdn", "askServers"} =>
       HasManifest(c, merged[c]) \/ (IsEncrypted(c) /\ HasRight(c))
  /\ refused[c] => /\ At(c, "idle")
                   /\ ~HasManifest(c, merged[c])
                   /\ \/ req[c].password = NoPassword
                      \/ ~HasRight(c)
                      \/ Branch(c) \notin Encrypted[Depot(c)] \cup Private[Depot(c)]

RightInv == \A c \in Callers : RightOf(c)

\* A caller is not concerned by the steps of others.
LEMMA RightOfOthers ==
  ASSUME NEW c \in Callers, RightOf(c),
         pc'[c] = pc[c], req'[c] = req[c], merged'[c] = merged[c], refused'[c] = refused[c]
  PROVE  RightOf(c)'
BY DEF RightOf, HasManifest, IsEncrypted, HasRight, Branch, Depot, At

\* Who has its manifest and goes on, still has it.
LEMMA RightGoesOn ==
  ASSUME NEW c \in Callers, RightOf(c), pc \in [Callers -> Places],
         pc[c] \in {"depotKey", "askKey", "save", "write", "rename", "code", "cdn", "askServers"},
         NEW where \in {"askKey", "save", "write", "rename", "code", "cdn", "askServers", "idle"},
         Goes(c, where), UNCHANGED <<req, merged, refused>>
  PROVE  RightOf(c)'
BY DEF RightOf, HasManifest, IsEncrypted, HasRight, Branch, Depot, At, Goes, Places

\* What is done with the answer for a password.
LEMMA RightToUse ==
  ASSUME NEW c \in Callers, RightOf(c), pc \in [Callers -> Places],
         refused \in [Callers -> BOOLEAN], req[c] \in Downloads,
         pc[c] \in {"branchKey", "askPassword"},
         UseKey(c, Unlocks(req[c].password)), UNCHANGED <<req, merged>>
  PROVE  RightOf(c)'
<1>1. Branch(c) \in Branches
  BY DEF Branch, Downloads
<1>2. Branch(c) \in Unlocks(req[c].password) <=> HasRight(c)
  BY <1>1 DEF Unlocks, HasRight
<1>3. ~HasManifest(c, merged[c])
  BY DEF RightOf
<1>4. HasManifest(c, merged[c])' = HasManifest(c, merged[c])
      /\ HasRight(c)' = HasRight(c) /\ IsEncrypted(c)' = IsEncrypted(c)
  BY DEF HasManifest, HasRight, IsEncrypted, Branch, Depot
<1>5. CASE HasRight(c)
  <2>1. ~refused'[c] /\ pc'[c] = IF IsEncrypted(c) THEN "depotKey" ELSE "askSection"
    BY <1>2, <1>5 DEF UseKey, Goes, RightOf, At
  <2> QED
    BY <1>3, <1>4, <1>5, <2>1 DEF RightOf, At
<1>6. CASE ~HasRight(c)
  <2>1. pc'[c] = "idle"
    BY <1>2, <1>6 DEF UseKey, Goes
  <2> QED
    BY <1>3, <1>4, <1>6, <2>1 DEF RightOf, At
<1> QED
  BY <1>5, <1>6

LEMMA RightInit == Init => RightInv
BY DEF Init, RightInv, RightOf, At

LEMMA RightStep ==
  ASSUME TypeOK, CacheInv, RightInv, [Next]_vars
  PROVE  RightInv'
<1>t. /\ pc \in [Callers -> Places] /\ Of \in [Callers -> Sessions]
      /\ refused \in [Callers -> BOOLEAN]
  BY ConstantsAssumption DEF TypeOK
<1>a. ASSUME NEW c \in Callers, Step(c), RightOf(c)' PROVE RightInv'
  <2> SUFFICES ASSUME NEW d \in Callers, d # c PROVE RightOf(d)'
    BY <1>a DEF RightInv
  <2>1. pc'[d] = pc[d] /\ req'[d] = req[d] /\ merged'[d] = merged[d] /\ refused'[d] = refused[d]
    BY <1>a DEF Step, Begin, RequestFails, Resolve, LookUpBranchKey, PasswordAnswered,
       SectionAnswered, LookUpKey, KeyAnswered, OpenTmp, WriteTmp, RenameTmp, SaveFails,
       CodeAnswered, AskServers, ServersAnswered, UseKey, Goes, history, TypeOK
  <2> QED
    BY <2>1, RightOfOthers DEF RightInv
<1>1. ASSUME NEW s \in Sessions, Open(s) PROVE RightInv'
  BY <1>1, RightOfOthers DEF Open, RightInv, callerVars
<1>2. ASSUME NEW s \in Sessions, Exit(s) PROVE RightInv'
  <2> SUFFICES ASSUME NEW c \in Callers PROVE RightOf(c)'
    BY DEF RightInv
  <2>1. CASE Of[c] = s
    BY <1>2, <2>1 DEF Exit, RightOf, At
  <2>2. CASE Of[c] # s
    BY <1>2, <2>2, RightOfOthers DEF Exit, RightInv
  <2> QED
    BY <2>1, <2>2
<1>3. ASSUME NEW c \in Callers, NEW d \in Asked, Begin(c, d) PROVE RightInv'
  <2>1. pc'[c] = "resolve" /\ refused'[c] = FALSE
    BY <1>3, <1>t DEF Begin, Goes
  <2> QED
    BY <1>3, <1>a, <2>1 DEF Step, RightOf, At
<1>4. ASSUME NEW c \in Callers, RequestFails(c) PROVE RightInv'
  <2>1. pc'[c] = "idle" /\ ~refused'[c]
    BY <1>4, <1>t DEF RequestFails, Goes, Requesting, RightInv, RightOf, At, history
  <2> QED
    BY <1>4, <1>a, <2>1 DEF Step, RightOf, At
<1>5. ASSUME NEW c \in Callers, Resolve(c) PROVE RightInv'
  <2>1. UNCHANGED <<req, merged>> /\ ~refused[c]
    BY <1>5 DEF Resolve, RightInv, RightOf, At
  <2>2. /\ HasManifest(c, merged[c])' = HasManifest(c, merged[c])
        /\ HasRight(c)' = HasRight(c) /\ IsEncrypted(c)' = IsEncrypted(c)
    BY <2>1 DEF HasManifest, HasRight, IsEncrypted, Branch, Depot
  <2>3. CASE HasManifest(c, merged[c])
    <3>1. pc'[c] = "depotKey" /\ ~refused'[c]
      BY <1>5, <1>t, <2>1, <2>3 DEF Resolve, NeedsKey, Goes
    <3> QED
      BY <1>5, <1>a, <2>2, <2>3, <3>1 DEF Step, RightOf, At
  <2>4. CASE NeedsKey(c)
    <3>1. pc'[c] = "branchKey" /\ ~refused'[c] /\ ~HasManifest(c, merged[c])
      BY <1>5, <1>t, <2>1, <2>4 DEF Resolve, NeedsKey, Goes
    <3> QED
      BY <1>5, <1>a, <2>2, <3>1 DEF Step, RightOf, At
  <2>5. CASE ~HasManifest(c, merged[c]) /\ ~NeedsKey(c)
    <3>1. pc'[c] = "idle"
      BY <1>5, <1>t, <2>5 DEF Resolve, Goes
    <3>2. \/ req[c].password = NoPassword
          \/ Branch(c) \notin Encrypted[Depot(c)] \cup Private[Depot(c)]
      <4>1. Depot(c) \in Depots
        BY <1>5 DEF Resolve, Depot, Downloads, TypeOK, At
      <4>2. Private[Depot(c)] \subseteq Hidden
        BY <4>1, ConstantsAssumption
      <4> QED
        BY <2>5, <4>2 DEF NeedsKey, Known, IsEncrypted, HasManifest
    <3>3. (\/ req[c].password = NoPassword
           \/ Branch(c) \notin Encrypted[Depot(c)] \cup Private[Depot(c)])'
      BY <2>1, <3>2 DEF Branch, Depot
    <3> QED
      BY <1>5, <1>a, <2>2, <2>5, <3>1, <3>3 DEF Step, RightOf, At
  <2> QED
    BY <2>3, <2>4, <2>5
<1>6. ASSUME NEW c \in Callers, LookUpBranchKey(c) PROVE RightInv'
  <2>1. req[c] \in Downloads /\ req[c].password \in Passwords
    BY <1>6 DEF LookUpBranchKey, TypeOK, Downloads, At
  <2>2. CASE Cached(c) = None
    <3>1. pc'[c] = "askPassword" /\ pc[c] = "branchKey" /\ UNCHANGED <<req, merged, refused>>
      BY <1>6, <1>t, <2>2 DEF LookUpBranchKey, Goes, At
    <3>2. RightOf(c)'
      BY <3>1 DEF RightInv, RightOf, HasManifest, Branch, Depot, At
    <3> QED
      BY <1>6, <1>a, <3>2 DEF Step
  <2>3. CASE Cached(c) # None
    <3>1. Cached(c) = Unlocks(req[c].password)
      BY <1>t, <2>1, <2>3 DEF CacheInv, Cached
    <3>2. RightOf(c)'
      BY <1>6, <1>t, <2>1, <2>3, <3>1, RightToUse DEF LookUpBranchKey, RightInv, At
    <3> QED
      BY <1>6, <1>a, <3>2 DEF Step
  <2> QED
    BY <2>2, <2>3
<1>7. ASSUME NEW c \in Callers, PasswordAnswered(c) PROVE RightInv'
  <2>1. req[c] \in Downloads
    BY <1>7 DEF PasswordAnswered, TypeOK, At
  <2>2. RightOf(c)'
    BY <1>7, <1>t, <2>1, RightToUse DEF PasswordAnswered, RightInv, At
  <2> QED
    BY <1>7, <1>a, <2>2 DEF Step
<1>8. ASSUME NEW c \in Callers, SectionAnswered(c) PROVE RightInv'
  <2>1. /\ req' = req /\ Branch(c) \in merged'[c] /\ ~refused[c]
        /\ HasRight(c) /\ ~IsEncrypted(c)
    BY <1>8 DEF SectionAnswered, TypeOK, RightInv, RightOf, At
  <2>2. /\ HasRight(c)' /\ ~IsEncrypted(c)'
        /\ HasManifest(c, merged[c])' = HasManifest(c, merged'[c])
    BY <2>1 DEF HasRight, IsEncrypted, HasManifest, Branch, Depot
  <2>3. CASE HasManifest(c, merged'[c])
    <3>1. pc'[c] = "depotKey" /\ ~refused'[c]
      BY <1>8, <1>t, <2>1, <2>3 DEF SectionAnswered, Goes
    <3> QED
      BY <1>8, <1>a, <2>2, <2>3, <3>1 DEF Step, RightOf, At
  <2>4. CASE ~HasManifest(c, merged'[c])
    <3>1. pc'[c] = "idle"
      BY <1>8, <1>t, <2>4 DEF SectionAnswered, Goes
    <3>2. (Branch(c) \notin Encrypted[Depot(c)] \cup Private[Depot(c)])'
      BY <2>1, <2>4 DEF HasManifest, IsEncrypted, Branch, Depot
    <3> QED
      BY <1>8, <1>a, <2>2, <2>4, <3>1, <3>2 DEF Step, RightOf, At
  <2> QED
    BY <2>3, <2>4
<1>9. ASSUME NEW c \in Callers, LookUpKey(c) PROVE RightInv'
  <2>1. PICK where \in {"code", "askKey"} : Goes(c, where)
    BY <1>9 DEF LookUpKey
  <2>2. RightOf(c)'
    BY <1>9, <1>t, <2>1, RightGoesOn DEF LookUpKey, RightInv, At, history
  <2> QED
    BY <1>9, <1>a, <2>2 DEF Step
<1>10. ASSUME NEW c \in Callers, KeyAnswered(c) PROVE RightInv'
  <2>1. RightOf(c)'
    BY <1>10, <1>t, RightGoesOn DEF KeyAnswered, RightInv, At
  <2> QED
    BY <1>10, <1>a, <2>1 DEF Step
<1>11. ASSUME NEW c \in Callers, OpenTmp(c) PROVE RightInv'
  <2>1. RightOf(c)'
    BY <1>11, <1>t, RightGoesOn DEF OpenTmp, RightInv, At, history
  <2> QED
    BY <1>11, <1>a, <2>1 DEF Step
<1>12. ASSUME NEW c \in Callers, WriteTmp(c) PROVE RightInv'
  <2>1. RightOf(c)'
    BY <1>12, <1>t, RightGoesOn DEF WriteTmp, RightInv, At, history
  <2> QED
    BY <1>12, <1>a, <2>1 DEF Step
<1>13. ASSUME NEW c \in Callers, RenameTmp(c) PROVE RightInv'
  <2>1. RightOf(c)'
    BY <1>13, <1>t, RightGoesOn DEF RenameTmp, RightInv, At, history
  <2> QED
    BY <1>13, <1>a, <2>1 DEF Step
<1>14. ASSUME NEW c \in Callers, SaveFails(c) PROVE RightInv'
  <2>1. RightOf(c)'
    BY <1>14, <1>t, RightGoesOn DEF SaveFails, Saving, RightInv, history
  <2> QED
    BY <1>14, <1>a, <2>1 DEF Step
<1>15. ASSUME NEW c \in Callers, CodeAnswered(c) PROVE RightInv'
  <2>1. RightOf(c)'
    BY <1>15, <1>t, RightGoesOn DEF CodeAnswered, RightInv, At, history
  <2> QED
    BY <1>15, <1>a, <2>1 DEF Step
<1>16. ASSUME NEW c \in Callers, AskServers(c) PROVE RightInv'
  <2>1. PICK where \in {"idle", "askServers"} : Goes(c, where)
    BY <1>16 DEF AskServers
  <2>2. RightOf(c)'
    BY <1>16, <1>t, <2>1, RightGoesOn DEF AskServers, RightInv, At, history
  <2> QED
    BY <1>16, <1>a, <2>2 DEF Step
<1>17. ASSUME NEW c \in Callers, ServersAnswered(c) PROVE RightInv'
  <2>1. RightOf(c)'
    BY <1>17, <1>t, RightGoesOn DEF ServersAnswered, RightInv, At
  <2> QED
    BY <1>17, <1>a, <2>1 DEF Step
<1>18. CASE UNCHANGED vars
  BY <1>18, RightOfOthers DEF vars, callerVars, history, RightInv
<1> QED
  BY <1>1, <1>2, <1>3, <1>4, <1>5, <1>6, <1>7, <1>8, <1>9, <1>10, <1>11, <1>12,
     <1>13, <1>14, <1>15, <1>16, <1>17, <1>18 DEF Next, Step

\* No download goes on without the right to its manifest, and none that has the
\* right is refused it, whatever is cached.
THEOREM DecidedCorrect == Spec => []DecidedByRight
<1>1. RightInv => ResolvedWithRight
  BY DEF RightInv, RightOf, ResolvedWithRight
<1>2. RightInv => RefusedWithReason
  BY DEF RightInv, RightOf, RefusedWithReason
<1>3. RightInv => DecidedByRight
  BY <1>1, <1>2 DEF DecidedByRight
<1> QED
  BY TypeInit, TypeStep, CacheInit, CacheStep, RightInit, RightStep, <1>3, PTL DEF Spec

----------------------------------------------------------------------------
\* Who asks for the servers holds the lock and finds no client; a process that
\* built one has it.
ClientInv ==
  /\ \A s \in Sessions : built[s] \in {0, 1} /\ (built[s] = 1 => client[s])
  /\ \A c \in Callers :
       At(c, "askServers") => mu[Of[c]] = c /\ ~client[Of[c]]

LEMMA ClientInit == Init => ClientInv
BY DEF Init, ClientInv, At

\* Who does not come to ask for the servers changes nothing about them.
LEMMA ClientUntouched ==
  ASSUME ClientInv, UNCHANGED <<client, mu, built>>, pc \in [Callers -> Places],
         NEW c \in Callers, NEW where \in Places, Goes(c, where), where # "askServers"
  PROVE  ClientInv'
BY DEF ClientInv, Goes, At

LEMMA ClientStep ==
  ASSUME TypeOK, ClientInv, [Next]_vars
  PROVE  ClientInv'
<1>t. pc \in [Callers -> Places] /\ Of \in [Callers -> Sessions]
  BY ConstantsAssumption DEF TypeOK
<1>1. ASSUME NEW s \in Sessions, Open(s) PROVE ClientInv'
  BY <1>1 DEF Open, ClientInv, At, callerVars
<1>2. ASSUME NEW s \in Sessions, Exit(s) PROVE ClientInv'
  BY <1>2, <1>t DEF Exit, ClientInv, At, TypeOK
<1>3. ASSUME NEW c \in Callers, NEW d \in Asked, Begin(c, d) PROVE ClientInv'
  BY <1>3, <1>t, ClientUntouched DEF Begin, sessionVars, Places
<1>4. ASSUME NEW c \in Callers, RequestFails(c) PROVE ClientInv'
  <2>1. CASE At(c, "askServers")
    <3>1. \A d \in Callers : At(d, "askServers")' =>
            d # c /\ At(d, "askServers") /\ Of[d] # Of[c]
      BY <1>4, <1>t, <2>1 DEF RequestFails, Goes, At, ClientInv
    <3> QED
      BY <1>4, <1>t, <2>1, <3>1 DEF RequestFails, ClientInv, history, TypeOK
  <2>2. CASE ~At(c, "askServers")
    BY <1>4, <1>t, <2>2, ClientUntouched DEF RequestFails, history, Places
  <2> QED
    BY <2>1, <2>2
<1>5. ASSUME NEW c \in Callers, Resolve(c) PROVE ClientInv'
  <2>1. PICK where \in {"depotKey", "branchKey", "idle"} : Goes(c, where)
    BY <1>5 DEF Resolve
  <2> QED
    BY <1>5, <1>t, <2>1, ClientUntouched DEF Resolve, sessionVars, Places
<1>6. ASSUME NEW c \in Callers, LookUpBranchKey(c) PROVE ClientInv'
  <2>1. PICK where \in {"askPassword", "idle", "depotKey", "askSection"} :
          Goes(c, where)
    BY <1>6 DEF LookUpBranchKey, UseKey
  <2> QED
    BY <1>6, <1>t, <2>1, ClientUntouched DEF LookUpBranchKey, sessionVars, Places
<1>7. ASSUME NEW c \in Callers, PasswordAnswered(c) PROVE ClientInv'
  <2>1. PICK where \in {"idle", "depotKey", "askSection"} : Goes(c, where)
    BY <1>7 DEF PasswordAnswered, UseKey
  <2> QED
    BY <1>7, <1>t, <2>1, ClientUntouched DEF PasswordAnswered, Places
<1>8. ASSUME NEW c \in Callers, SectionAnswered(c) PROVE ClientInv'
  <2>1. PICK where \in {"idle", "depotKey"} : Goes(c, where)
    BY <1>8 DEF SectionAnswered
  <2> QED
    BY <1>8, <1>t, <2>1, ClientUntouched DEF SectionAnswered, sessionVars, Places
<1>9. ASSUME NEW c \in Callers, LookUpKey(c) PROVE ClientInv'
  <2>1. PICK where \in {"code", "askKey"} : Goes(c, where)
    BY <1>9 DEF LookUpKey
  <2> QED
    BY <1>9, <1>t, <2>1, ClientUntouched DEF LookUpKey, sessionVars, history, Places
<1>10. ASSUME NEW c \in Callers, KeyAnswered(c) PROVE ClientInv'
  BY <1>10, <1>t, ClientUntouched DEF KeyAnswered, Places
<1>11. ASSUME NEW c \in Callers, OpenTmp(c) PROVE ClientInv'
  BY <1>11, <1>t, ClientUntouched DEF OpenTmp, sessionVars, history, Places
<1>12. ASSUME NEW c \in Callers, WriteTmp(c) PROVE ClientInv'
  BY <1>12, <1>t, ClientUntouched DEF WriteTmp, sessionVars, history, Places
<1>13. ASSUME NEW c \in Callers, RenameTmp(c) PROVE ClientInv'
  BY <1>13, <1>t, ClientUntouched DEF RenameTmp, sessionVars, history, Places
<1>14. ASSUME NEW c \in Callers, SaveFails(c) PROVE ClientInv'
  BY <1>14, <1>t, ClientUntouched DEF SaveFails, sessionVars, history, Places
<1>15. ASSUME NEW c \in Callers, CodeAnswered(c) PROVE ClientInv'
  BY <1>15, <1>t, ClientUntouched DEF CodeAnswered, sessionVars, history, Places
<1>16. ASSUME NEW c \in Callers, AskServers(c) PROVE ClientInv'
  <2>1. CASE client[Of[c]]
    BY <1>16, <1>t, <2>1, ClientUntouched DEF AskServers, history, Places
  <2>2. CASE ~client[Of[c]]
    <3>1. mu' = [mu EXCEPT ![Of[c]] = c] /\ Goes(c, "askServers") /\ UNCHANGED <<client, built>>
      BY <1>16, <2>2 DEF AskServers, Holds, history
    <3>2. \A d \in Callers : At(d, "askServers")' => d = c \/ Of[d] # Of[c]
      BY <1>16, <1>t, <3>1, ConstantsAssumption DEF AskServers, Free, Goes, At, ClientInv
    <3> QED
      BY <1>t, <2>2, <3>1, <3>2 DEF ClientInv, Goes, At, TypeOK
  <2> QED
    BY <2>1, <2>2
<1>17. ASSUME NEW c \in Callers, ServersAnswered(c) PROVE ClientInv'
  <2>1. \A d \in Callers : At(d, "askServers")' =>
          d # c /\ At(d, "askServers") /\ Of[d] # Of[c]
    BY <1>17, <1>t DEF ServersAnswered, Goes, At, ClientInv
  <2>2. built[Of[c]] = 0 /\ Of[c] \in Sessions
    BY <1>17, <1>t DEF ServersAnswered, ClientInv
  <2> QED
    BY <1>17, <1>t, <2>1, <2>2 DEF ServersAnswered, ClientInv, TypeOK
<1>18. CASE UNCHANGED vars
  BY <1>18 DEF vars, sessionVars, callerVars, history, ClientInv, At
<1> QED
  BY <1>1, <1>2, <1>3, <1>4, <1>5, <1>6, <1>7, <1>8, <1>9, <1>10, <1>11, <1>12,
     <1>13, <1>14, <1>15, <1>16, <1>17, <1>18 DEF Next, Step

\* A process builds one CDN client.
THEOREM OneClientCorrect == Spec => []OneClient
<1>1. ClientInv => OneClient
  BY DEF ClientInv, OneClient
<1> QED
  BY TypeInit, TypeStep, ClientInit, ClientStep, <1>1, PTL DEF Spec
============================================================================
