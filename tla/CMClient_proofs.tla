-------------------------- MODULE CMClient_proofs --------------------------
(***************************************************************************)
(* Proofs about CMClient, for any callers, replies and queue bound.        *)
(***************************************************************************)
EXTENDS CMClient, TLAPS

LEMMA TypeInit == Init => TypeOK
<1> SUFFICES ASSUME Init PROVE TypeOK
  OBVIOUS
<1> USE DEF Init
<1>1. /\ failed \in [Callers -> BOOLEAN] /\ ready \in [Callers -> BOOLEAN]
      /\ beating \in BOOLEAN /\ wake \in BOOLEAN
      /\ err \in BOOLEAN /\ closed \in BOOLEAN
  BY Zenon
<1>2. /\ packet = None /\ reader = "read"
      /\ stash \in [EMsgs -> Packet \cup {None}]
      /\ logonCh \in Seq(Packet) /\ Len(logonCh) <= 1
  OBVIOUS
<1>3. /\ got \in [Callers -> Seq(Nat)] /\ queue \in [Callers -> Seq(Nat)]
      /\ replied \in [Callers -> Nat] /\ pushes \in Nat /\ batch \in Nat
      /\ jobs = {c \in Callers : call[c] \notin {"idle", "returned"}}
  OBVIOUS
<1> QED
  BY <1>1, <1>2, <1>3 DEF TypeOK

LEMMA FailType ==
  ASSUME TypeOK, Fail
  PROVE  /\ once' \in {"unused", "running", "done"}
         /\ err' \in BOOLEAN /\ closed' \in BOOLEAN
BY Zenon DEF TypeOK, Fail, failVars

LEMMA TypeCaller ==
  ASSUME TypeOK, NEW c \in Callers, Caller(c)
  PROVE  TypeOK'
<1> USE ConstantsAssumption
    DEF TypeOK, ConstantsAssumption, readVars, steamVars, logonVars, waitVars,
        failVars, jobVars, Return
<1>1. CASE NewJob(c) BY <1>1 DEF NewJob
<1>2. CASE Send(c) BY <1>2 DEF Send
<1>3. CASE SendFails(c) BY <1>3, FailType DEF SendFails
<1>4. CASE SendFailed(c) BY <1>4 DEF SendFailed
<1>5. CASE Pop(c)
  <2>1. Head(queue[c]) \in Nat /\ Tail(queue[c]) \in Seq(Nat)
    BY <1>5 DEF Pop
  <2>2. Append(got[c], Head(queue[c])) \in Seq(Nat)
    BY <2>1
  <2>3. got' \in [Callers -> Seq(Nat)] /\ queue' \in [Callers -> Seq(Nat)]
    BY <1>5, <2>1, <2>2 DEF Pop
  <2>4. /\ call' \in [Callers -> {"idle", "send", "failing", "pop", "parked", "returned"}]
        /\ result' \in [Callers -> {"none", "ok", "handler", "overflow", "timeout",
                                    "lost", "nothing"}]
        /\ jobs' = {d \in Callers : call'[d] \notin {"idle", "returned"}}
    BY <1>5 DEF Pop, AfterPacket
  <2>5. UNCHANGED <<failed, ready, replied, pushes, reader, batch, packet, logon,
                    logonCh, beating, stash, waiter, wake, once, err, closed>>
    BY <1>5 DEF Pop
  <2> QED BY <2>3, <2>4, <2>5
<1>6. CASE PopError(c) BY <1>6 DEF PopError
<1>7. CASE Park(c) BY <1>7 DEF Park
<1>8. CASE TakeToken(c) BY <1>8 DEF TakeToken
<1>9. CASE ContextDone(c) BY <1>9 DEF ContextDone
<1>10. CASE SeeClosed(c) BY <1>10 DEF SeeClosed
<1> QED
  BY <1>1, <1>2, <1>3, <1>4, <1>5, <1>6, <1>7, <1>8, <1>9, <1>10 DEF Caller

LEMMA TypeReader ==
  ASSUME TypeOK, Read \/ ReadFails \/ Steam \/ MessageEnds \/ Dispatch
  PROVE  TypeOK'
<1> USE ConstantsAssumption
    DEF TypeOK, ConstantsAssumption, callVars, jobVars, steamVars, logonVars,
        waitVars, failVars, Dispatched
<1>1. CASE Read BY <1>1 DEF Read
<1>2. CASE ReadFails BY <1>2, FailType DEF ReadFails
<1>3. CASE Steam
  <2>1. ASSUME NEW c \in Callers, ReplyArrives(c) PROVE TypeOK'
    <3>1. /\ packet' \in Packet /\ packet' # None
          /\ replied' \in [Callers -> Nat]
      BY <2>1 DEF ReplyArrives, Arrives, Packet, EMsgs
    <3>2. /\ batch' \in Nat /\ reader' = "dispatch" /\ pushes' \in Nat
          /\ UNCHANGED <<call, result, got, jobs, queue, failed, ready, logon,
                         logonCh, beating, stash, waiter, wake, once, err, closed>>
      BY <2>1 DEF ReplyArrives, Arrives
    <3> QED BY <3>1, <3>2
  <2>2. ASSUME NEW e \in {"logon", "push", "loggedOff"}, PushArrives(e) PROVE TypeOK'
    <3>1. packet' \in Packet /\ packet' # None
      BY <2>2 DEF PushArrives, Arrives, Packet, EMsgs
    <3>2. /\ batch' \in Nat /\ reader' = "dispatch"
          /\ replied' \in [Callers -> Nat] /\ pushes' \in Nat
          /\ UNCHANGED <<call, result, got, jobs, queue, failed, ready, logon,
                         logonCh, beating, stash, waiter, wake, once, err, closed>>
      BY <2>2 DEF PushArrives, Arrives
    <3> QED BY <3>1, <3>2
  <2> QED BY <1>3, <2>1, <2>2 DEF Steam
<1>4. CASE MessageEnds BY <1>4 DEF MessageEnds
<1>5. CASE DispatchLoggedOff BY <1>5, FailType DEF DispatchLoggedOff
<1>6. CASE LoggedOffDone BY <1>6 DEF LoggedOffDone
<1>7. CASE Lookup
  <2>1. packet.to \in jobs => packet.to \in Callers
    OBVIOUS
  <2>2. /\ packet.emsg \in EMsgs /\ packet # None
        /\ reader' \in {"push", "offer", "stash"}
        /\ reader' = "push" => packet.to \in Callers
    BY <1>7, <2>1 DEF Lookup
  <2> QED BY <1>7, <2>2 DEF Lookup
<1>8. CASE PushPacket
  <2>1. packet.to \in Callers /\ packet.n \in Nat
    BY <1>8 DEF PushPacket, Packet
  <2>2. Append(queue[packet.to], packet.n) \in Seq(Nat)
    BY <2>1
  <2>3. queue' \in [Callers -> Seq(Nat)]
    BY <1>8, <2>1, <2>2 DEF PushPacket, Push
  <2>5. failed' = failed \/ failed' = [failed EXCEPT ![packet.to] = TRUE]
    BY <1>8 DEF PushPacket, Push
  <2>6. failed' \in [Callers -> BOOLEAN]
    BY <2>1, <2>5
  <2>4. reader' = "signal" /\ reader = "push"
        /\ UNCHANGED <<call, result, got, jobs, ready, batch, packet, replied,
                       pushes, logon, logonCh, beating, stash, waiter, wake,
                       once, err, closed>>
    BY <1>8 DEF PushPacket
  <2> QED BY <2>1, <2>3, <2>4, <2>6
<1>9. CASE Signal BY <1>9 DEF Signal
<1>10. CASE Offer
  <2>1. packet \in Packet
    BY <1>10 DEF Offer
  <2>2. logonCh' \in Seq(Packet) /\ Len(logonCh') <= 1
    BY <1>10, <2>1 DEF Offer
  <2>3. reader' = "next" /\ packet' = None
        /\ UNCHANGED <<call, result, got, jobs, queue, failed, ready, batch,
                       replied, pushes, logon, beating, stash, waiter, wake,
                       once, err, closed>>
    BY <1>10 DEF Offer
  <2> QED BY <2>2, <2>3
<1>11. CASE Stash BY <1>11 DEF Stash
<1> QED
  BY <1>1, <1>2, <1>3, <1>4, <1>5, <1>6, <1>7, <1>8, <1>9, <1>10, <1>11 DEF Dispatch

LEMMA TypeRest ==
  ASSUME TypeOK,
         \/ Logon \/ HeartbeatFails \/ HeartbeatStops
         \/ CheckStash \/ Woken \/ WaitGivesUp \/ Close \/ FailEnds
         \/ UNCHANGED vars
  PROVE  TypeOK'
<1> USE ConstantsAssumption
    DEF TypeOK, ConstantsAssumption, callVars, jobVars, readVars, steamVars,
        logonVars, waitVars, failVars
<1>1. CASE WaitLogon BY <1>1 DEF WaitLogon
<1>2. CASE SendLogon BY <1>2 DEF SendLogon
<1>3. CASE SendLogonFails BY <1>3, FailType DEF SendLogonFails
<1>4. CASE LogonAccepted BY <1>4 DEF LogonAccepted
<1>5. CASE LogonDenied BY <1>5, FailType DEF LogonDenied
<1>6. CASE LogonGivesUp BY <1>6 DEF LogonGivesUp
<1>7. CASE HeartbeatFails
  <2>1. beating' \in BOOLEAN BY <1>7, Zenon DEF HeartbeatFails
  <2> QED BY <1>7, <2>1, FailType DEF HeartbeatFails
<1>8. CASE HeartbeatStops
  <2>1. beating' \in BOOLEAN BY <1>8, Zenon DEF HeartbeatStops
  <2> QED BY <1>8, <2>1 DEF HeartbeatStops
<1>9. CASE CheckStash BY <1>9 DEF CheckStash
<1>10. CASE Woken
  <2>1. wake' \in BOOLEAN BY <1>10, Zenon DEF Woken
  <2> QED BY <1>10, <2>1 DEF Woken
<1>11. CASE WaitGivesUp
  <2>1. wake' \in BOOLEAN BY <1>11, Zenon DEF WaitGivesUp
  <2> QED BY <1>11, <2>1 DEF WaitGivesUp
<1>12. CASE Close BY <1>12, FailType DEF Close
<1>13. CASE FailEnds BY <1>13 DEF FailEnds
<1>14. CASE UNCHANGED vars BY <1>14 DEF vars
<1> QED
  BY <1>1, <1>2, <1>3, <1>4, <1>5, <1>6, <1>7, <1>8, <1>9, <1>10, <1>11,
     <1>12, <1>13, <1>14 DEF Logon

\* Every variable keeps its kind, and the program counters of the read loop
\* and the callers agree with the packet in hand and the registered jobs.
THEOREM TypeCorrect == Spec => []TypeOK
<1>1. TypeOK /\ [Next]_vars => TypeOK'
  BY TypeCaller, TypeReader, TypeRest DEF Next
<1> QED
  BY TypeInit, <1>1, PTL DEF Spec

----------------------------------------------------------------------------
\* A consumer that waits while its job has something for it is woken: the
\* token is left after the packet is queued, and taken before the queue is
\* looked at, so no interleaving of the read loop and the consumer loses it.
THEOREM WakeupCorrect == Spec => []NoLostWakeup
<1>1. Init => NoLostWakeup
  BY DEF Init, NoLostWakeup
<1>2. TypeOK /\ NoLostWakeup /\ [Next]_vars => NoLostWakeup'
  <2> SUFFICES ASSUME TypeOK, NoLostWakeup, [Next]_vars PROVE NoLostWakeup'
    OBVIOUS
  <2> USE DEF NoLostWakeup
  <2>1. ASSUME NEW c \in Callers, Caller(c) PROVE NoLostWakeup'
    <3> USE DEF TypeOK, readVars, jobVars
    <3>1. CASE NewJob(c) BY <3>1 DEF NewJob
    <3>2. CASE Send(c) BY <3>2 DEF Send
    <3>3. CASE SendFails(c) BY <3>3 DEF SendFails
    <3>4. CASE SendFailed(c) BY <3>4 DEF SendFailed, Return
    <3>5. CASE Pop(c) BY <3>5 DEF Pop, Return, AfterPacket
    <3>6. CASE PopError(c) BY <3>6 DEF PopError, Return
    <3>7. CASE Park(c) BY <3>7 DEF Park
    <3>8. CASE TakeToken(c) BY <3>8 DEF TakeToken
    <3>9. CASE ContextDone(c) BY <3>9 DEF ContextDone, Return
    <3>10. CASE SeeClosed(c) BY <3>10 DEF SeeClosed, Return
    <3> QED
      BY <2>1, <3>1, <3>2, <3>3, <3>4, <3>5, <3>6, <3>7, <3>8, <3>9, <3>10
      DEF Caller
  <2>2. CASE PushPacket
    BY <2>2 DEF PushPacket, Push, callVars, TypeOK
  <2>3. CASE Signal
    BY <2>3 DEF Signal, callVars, TypeOK
  <2>4. ASSUME UNCHANGED <<call, queue, failed, ready>>,
               reader # "signal" \/ UNCHANGED <<reader, packet>>
        PROVE  NoLostWakeup'
    BY <2>4 DEF TypeOK
  <2>5. CASE Read \/ ReadFails \/ Steam \/ MessageEnds
    BY <2>4, <2>5
    DEF Read, ReadFails, Steam, ReplyArrives, PushArrives, Arrives, MessageEnds,
        callVars, jobVars
  <2>6. CASE DispatchLoggedOff \/ LoggedOffDone \/ Lookup \/ Offer \/ Stash
    BY <2>4, <2>6
    DEF DispatchLoggedOff, LoggedOffDone, Lookup, Offer, Stash, callVars, jobVars
  <2>7. CASE \/ Logon \/ HeartbeatFails \/ HeartbeatStops
             \/ CheckStash \/ Woken \/ WaitGivesUp \/ Close \/ FailEnds
             \/ UNCHANGED vars
    BY <2>4, <2>7
    DEF Logon, WaitLogon, SendLogon, SendLogonFails, LogonAccepted, LogonDenied,
        LogonGivesUp, HeartbeatFails, HeartbeatStops, CheckStash, Woken,
        WaitGivesUp, Close, FailEnds, vars, callVars, jobVars, readVars
  <2> QED
    BY <2>1, <2>2, <2>3, <2>5, <2>6, <2>7 DEF Next, Dispatch
<1> QED
  BY <1>1, <1>2, TypeCorrect, PTL DEF Spec

----------------------------------------------------------------------------
\* The error is set from the moment somebody is in fail, and the channel is
\* closed only by whoever set it.
ReasonFirst == (once # "unused" => err) /\ (closed => once = "done")

\* A closed connection has an error to report, whoever closed it and however
\* many tried at once.
THEOREM ReasonCorrect == Spec => []ClosedHasReason
<1>1. Init => ReasonFirst
  BY DEF Init, ReasonFirst
<1>2. ReasonFirst /\ [Next]_vars => ReasonFirst'
  <2> SUFFICES ASSUME ReasonFirst, [Next]_vars PROVE ReasonFirst'
    OBVIOUS
  <2>1. ASSUME Fail \/ UNCHANGED failVars PROVE ReasonFirst'
    BY <2>1 DEF Fail, ReasonFirst, failVars
  <2>2. CASE FailEnds
    BY <2>2 DEF FailEnds, ReasonFirst
  <2>3. ASSUME NEW c \in Callers, Caller(c) PROVE ReasonFirst'
    BY <2>1, <2>3
    DEF Caller, NewJob, Send, SendFails, SendFailed, Pop, PopError, Park,
        TakeToken, ContextDone, SeeClosed
  <2>4. CASE Read \/ ReadFails \/ Steam \/ MessageEnds \/ Dispatch
    BY <2>1, <2>4
    DEF Read, ReadFails, Steam, ReplyArrives, PushArrives, Arrives, MessageEnds,
        Dispatch, DispatchLoggedOff, LoggedOffDone, Lookup, PushPacket, Signal,
        Offer, Stash
  <2>5. CASE \/ Logon \/ HeartbeatFails \/ HeartbeatStops
             \/ CheckStash \/ Woken \/ WaitGivesUp \/ Close \/ UNCHANGED vars
    BY <2>1, <2>5
    DEF Logon, WaitLogon, SendLogon, SendLogonFails, LogonAccepted, LogonDenied,
        LogonGivesUp, HeartbeatFails, HeartbeatStops, CheckStash, Woken,
        WaitGivesUp, Close, vars
  <2> QED
    BY <2>2, <2>3, <2>4, <2>5 DEF Next
<1>3. ReasonFirst => ClosedHasReason
  BY DEF ReasonFirst, ClosedHasReason
<1> QED
  BY <1>1, <1>2, <1>3, PTL DEF Spec

\* WaitEMsg never waits for a packet that is already in the stash.
THEOREM PushCorrect == Spec => []NoLostPush
<1>1. Init => NoLostPush
  BY DEF Init, NoLostPush
<1>2. TypeOK /\ NoLostPush /\ [Next]_vars => NoLostPush'
  <2> SUFFICES ASSUME TypeOK, NoLostPush, [Next]_vars PROVE NoLostPush'
    OBVIOUS
  <2> USE DEF NoLostPush
  <2>1. CASE UNCHANGED waitVars
    BY <2>1 DEF waitVars
  <2>2. CASE Stash
    BY <2>2 DEF Stash, TypeOK
  <2>3. CASE CheckStash \/ Woken \/ WaitGivesUp
    BY <2>3 DEF CheckStash, Woken, WaitGivesUp
  <2>4. ASSUME NEW c \in Callers, Caller(c) PROVE NoLostPush'
    BY <2>1, <2>4
    DEF Caller, NewJob, Send, SendFails, SendFailed, Pop, PopError, Park,
        TakeToken, ContextDone, SeeClosed
  <2>5. CASE \/ Read \/ ReadFails \/ Steam \/ MessageEnds \/ DispatchLoggedOff
             \/ LoggedOffDone \/ Lookup \/ PushPacket \/ Signal \/ Offer
    BY <2>1, <2>5
    DEF Read, ReadFails, Steam, ReplyArrives, PushArrives, Arrives, MessageEnds,
        DispatchLoggedOff, LoggedOffDone, Lookup, PushPacket, Signal, Offer
  <2>6. CASE \/ Logon \/ HeartbeatFails \/ HeartbeatStops \/ Close \/ FailEnds
             \/ UNCHANGED vars
    BY <2>1, <2>6
    DEF Logon, WaitLogon, SendLogon, SendLogonFails, LogonAccepted, LogonDenied,
        LogonGivesUp, HeartbeatFails, HeartbeatStops, Close, FailEnds, vars
  <2> QED
    BY <2>2, <2>3, <2>4, <2>5, <2>6 DEF Next, Dispatch
<1> QED
  BY <1>1, <1>2, TypeCorrect, PTL DEF Spec

----------------------------------------------------------------------------
(***************************************************************************)
(* What a call was given and what its job holds continue one numbering.    *)
(* Until the call returned, and for the one push that may come after it,   *)
(* they are all of Steam's packets but the one in the read loop's hand.    *)
(***************************************************************************)
InHand(c) == IF reader \in {"dispatch", "push"} /\ packet.to = c THEN 1 ELSE 0

Numbered(c) ==
  /\ \A i \in 1..Len(got[c]) : got[c][i] = i
  /\ \A i \in 1..Len(queue[c]) : queue[c][i] = Len(got[c]) + i

Complete(c) ==
  /\ ~failed[c]
  /\ call[c] # "returned" \/ (reader = "push" /\ packet.to = c)
  => Len(got[c]) + Len(queue[c]) + InHand(c) = replied[c]

HandFits(c) ==
  reader \in {"dispatch", "push"} /\ packet.to = c =>
    /\ packet.n = replied[c]
    /\ call[c] # "idle"
    /\ packet.emsg = "reply"

Stream == \A c \in Callers : Numbered(c) /\ Complete(c) /\ HandFits(c)

LEMMA StreamFrame ==
  ASSUME Stream,
         UNCHANGED <<got, queue, failed, replied>>,
         \/ UNCHANGED <<reader, packet>>
         \/ /\ reader  \notin {"dispatch", "push"}
            /\ reader' \notin {"dispatch", "push"},
         \A c \in Callers : /\ call'[c] # "returned" => call[c] # "returned"
                            /\ call'[c] = "idle" => call[c] = "idle"
  PROVE  Stream'
<1> SUFFICES ASSUME NEW c \in Callers
             PROVE  Numbered(c)' /\ Complete(c)' /\ HandFits(c)'
  BY DEF Stream
<1>1. Numbered(c) /\ Complete(c) /\ HandFits(c)
  BY DEF Stream
<1>2. Numbered(c)'
  BY <1>1 DEF Numbered
<1>3. CASE UNCHANGED <<reader, packet>>
  BY <1>1, <1>2, <1>3 DEF Complete, InHand, HandFits
<1>4. CASE reader \notin {"dispatch", "push"} /\ reader' \notin {"dispatch", "push"}
  <2>1. InHand(c) = 0 /\ InHand(c)' = 0
    BY <1>4 DEF InHand
  <2>2. Complete(c)'
    BY <1>1, <1>4, <2>1 DEF Complete
  <2> QED BY <1>2, <1>4, <2>2 DEF HandFits
<1> QED
  BY <1>3, <1>4

LEMMA StreamPop ==
  ASSUME TypeOK, Stream, NEW c \in Callers, Pop(c)
  PROVE  Stream'
<1> USE DEF TypeOK
<1>1. /\ queue[c] \in Seq(Nat) /\ queue[c] # <<>> /\ got[c] \in Seq(Nat)
      /\ got' = [got EXCEPT ![c] = Append(got[c], Head(queue[c]))]
      /\ queue' = [queue EXCEPT ![c] = Tail(queue[c])]
      /\ call[c] = "pop" /\ UNCHANGED <<failed, replied, reader, packet>>
      /\ \A d \in Callers \ {c} : call'[d] = call[d]
      /\ call'[c] # "idle"
  BY DEF Pop, Return, AfterPacket, readVars, steamVars
<1>2. ASSUME NEW d \in Callers, d # c
      PROVE  Numbered(d)' /\ Complete(d)' /\ HandFits(d)'
  BY <1>1, <1>2 DEF Stream, Numbered, Complete, InHand, HandFits
<1> DEFINE m == Len(got[c])
           k == Len(queue[c])
<1>3. /\ m \in Nat /\ k \in Nat /\ k > 0
      /\ Len(got'[c]) = m + 1 /\ Len(queue'[c]) = k - 1
      /\ \A i \in 1..m : got'[c][i] = got[c][i]
      /\ got'[c][m + 1] = queue[c][1]
      /\ \A i \in 1..(k - 1) : queue'[c][i] = queue[c][i + 1]
  BY <1>1
<1>4. Numbered(c)'
  <2>1. /\ \A i \in 1..m : got[c][i] = i
        /\ \A i \in 1..k : queue[c][i] = m + i
    BY DEF Stream, Numbered
  <2>2. got'[c][m + 1] = m + 1
    <3>1. 1 \in 1..k
      BY <1>3
    <3> QED BY <1>3, <2>1, <3>1
  <2>3. ASSUME NEW i \in 1..(k - 1) PROVE queue'[c][i] = (m + 1) + i
    <3>1. i + 1 \in 1..k
      BY <1>3
    <3>2. queue[c][i + 1] = m + (i + 1)
      BY <2>1, <3>1
    <3> QED BY <1>3, <3>2
  <2>4. ASSUME NEW i \in 1..(m + 1) PROVE got'[c][i] = i
    <3>1. i \in 1..m \/ i = m + 1
      BY <1>3
    <3> QED BY <1>3, <2>1, <2>2, <3>1
  <2> QED BY <1>3, <2>3, <2>4 DEF Numbered
<1>5. Complete(c)' /\ HandFits(c)'
  BY <1>1, <1>3 DEF Stream, Complete, InHand, HandFits
<1> QED
  BY <1>2, <1>4, <1>5 DEF Stream

LEMMA StreamCaller ==
  ASSUME TypeOK, Stream, NEW c \in Callers, Caller(c)
  PROVE  Stream'
<1> USE StreamFrame DEF TypeOK, readVars, steamVars, jobVars, Return
<1>1. CASE NewJob(c) BY <1>1 DEF NewJob
<1>2. CASE Send(c) BY <1>2 DEF Send
<1>3. CASE SendFails(c) BY <1>3 DEF SendFails
<1>4. CASE SendFailed(c) BY <1>4 DEF SendFailed
<1>5. CASE Pop(c) BY <1>5, StreamPop
<1>6. CASE PopError(c) BY <1>6 DEF PopError
<1>7. CASE Park(c) BY <1>7 DEF Park
<1>8. CASE TakeToken(c) BY <1>8 DEF TakeToken
<1>9. CASE ContextDone(c) BY <1>9 DEF ContextDone
<1>10. CASE SeeClosed(c) BY <1>10 DEF SeeClosed
<1> QED
  BY <1>1, <1>2, <1>3, <1>4, <1>5, <1>6, <1>7, <1>8, <1>9, <1>10 DEF Caller

LEMMA StreamArrives ==
  ASSUME TypeOK, Stream, Steam
  PROVE  Stream'
<1> USE DEF TypeOK, Stream, Numbered, Complete, InHand, HandFits
<1>1. ASSUME NEW c \in Callers, ReplyArrives(c) PROVE Stream'
  <2>1. /\ reader = "next" /\ reader' = "dispatch"
        /\ packet'.to = c /\ packet'.n = replied[c] + 1
        /\ packet'.emsg = "reply"
        /\ replied' = [replied EXCEPT ![c] = replied[c] + 1]
        /\ call[c] # "idle" /\ UNCHANGED <<call, got, queue, failed>>
    BY <1>1 DEF ReplyArrives, Arrives, callVars, jobVars
  <2> QED BY <2>1
<1>2. ASSUME NEW e \in {"logon", "push", "loggedOff"}, PushArrives(e) PROVE Stream'
  <2>1. /\ reader = "next" /\ packet'.to = None
        /\ UNCHANGED <<call, got, queue, failed, replied>>
    BY <1>2 DEF PushArrives, Arrives, callVars, jobVars
  <2> QED BY <2>1, ConstantsAssumption DEF ConstantsAssumption
<1> QED
  BY <1>1, <1>2 DEF Steam

LEMMA StreamPush ==
  ASSUME TypeOK, Stream, PushPacket
  PROVE  Stream'
<1> PICK c \in Callers : c = packet.to
  BY DEF PushPacket, TypeOK
<1>1. /\ c = packet.to /\ reader = "push" /\ reader' = "signal"
      /\ queue[c] \in Seq(Nat) /\ packet.n \in Nat /\ replied[c] \in Nat
      /\ packet.n = replied[c]
      /\ UNCHANGED <<call, got, replied, packet>>
  BY DEF PushPacket, TypeOK, Packet, Stream, HandFits, callVars, steamVars
<1>2. ASSUME NEW d \in Callers, d # c
      PROVE  Numbered(d)' /\ Complete(d)' /\ HandFits(d)'
  <2>1. queue'[d] = queue[d] /\ failed'[d] = failed[d]
    BY <1>1, <1>2 DEF PushPacket, Push, TypeOK
  <2> QED BY <1>1, <1>2, <2>1 DEF Stream, Numbered, Complete, InHand, HandFits
<1>3. CASE failed'[c]
  <2>1. queue'[c] = queue[c]
    BY <1>1, <1>3 DEF PushPacket, Push, TypeOK
  <2>2. Numbered(c)' /\ Complete(c)' /\ HandFits(c)'
    <3>1. Numbered(c)'
      BY <1>1, <2>1 DEF Stream, Numbered
    <3>2. Complete(c)'
      BY <1>3, Zenon DEF Complete
    <3>3. HandFits(c)'
      BY <1>1 DEF HandFits
    <3> QED BY <3>1, <3>2, <3>3
  <2>3. ASSUME NEW d \in Callers PROVE Numbered(d)' /\ Complete(d)' /\ HandFits(d)'
    BY <1>2, <2>2, <2>3
  <2> QED BY <2>3 DEF Stream
<1>4. CASE ~failed'[c]
  <2>1. ~failed[c] /\ queue'[c] = Append(queue[c], packet.n)
    BY <1>1, <1>4 DEF PushPacket, Push, TypeOK
  <2>2. Len(got[c]) + Len(queue[c]) + 1 = packet.n /\ Len(got[c]) \in Nat
    <3>1. InHand(c) = 1
      BY <1>1 DEF InHand
    <3>2. Complete(c) /\ Len(got[c]) \in Nat
      BY <1>1 DEF Stream, TypeOK
    <3> QED BY <1>1, <2>1, <3>1, <3>2 DEF Complete
  <2>3. /\ Len(queue'[c]) = Len(queue[c]) + 1
        /\ \A i \in 1..Len(queue[c]) : queue'[c][i] = queue[c][i]
        /\ queue'[c][Len(queue[c]) + 1] = packet.n
    BY <1>1, <2>1
  <2>4. Numbered(c)'
    <3>1. \A i \in 1..Len(queue[c]) : queue[c][i] = Len(got[c]) + i
      BY <1>1 DEF Stream, Numbered
    <3>2. ASSUME NEW i \in 1..(Len(queue[c]) + 1)
          PROVE  queue'[c][i] = Len(got[c]) + i
      <4>1. Len(queue[c]) \in Nat /\ (i \in 1..Len(queue[c]) \/ i = Len(queue[c]) + 1)
        BY <1>1
      <4>2. CASE i \in 1..Len(queue[c])
        BY <2>3, <3>1, <4>2
      <4>3. CASE i = Len(queue[c]) + 1
        <5>1. queue'[c][i] = packet.n
          BY <2>3, <4>3
        <5>2. ASSUME NEW g \in Nat, NEW k \in Nat, NEW n \in Nat,
                     g + k + 1 = n, i = k + 1
              PROVE  n = g + i
          BY <5>2
        <5>3. packet.n = Len(got[c]) + i
          BY <1>1, <2>2, <4>1, <4>3, <5>2
        <5> QED BY <5>1, <5>3
      <4> QED BY <4>1, <4>2, <4>3
    <3> QED BY <1>1, <2>3, <3>2 DEF Stream, Numbered
  <2>5. InHand(c)' = 0
    BY <1>1 DEF InHand
  <2>6. Complete(c)' /\ HandFits(c)'
    <3>1. got'[c] = got[c] /\ replied'[c] = packet.n
      BY <1>1
    <3> PICK g \in Nat : g = Len(got[c])
      BY <2>2
    <3> PICK k \in Nat : k = Len(queue[c])
      BY <1>1
    <3>2. packet.n = g + k + 1
      BY <2>2
    <3>3. \A x, y \in Nat : x + y + 1 = x + (y + 1) + 0
      OBVIOUS
    <3>4. Len(got[c]) + (Len(queue[c]) + 1) + 0 = packet.n
      BY <3>2, <3>3, Zenon
    <3>5. Len(got'[c]) + Len(queue'[c]) + InHand(c)' = replied'[c]
      BY <2>3, <2>5, <3>1, <3>4
    <3>6. Complete(c)'
      BY <3>5 DEF Complete
    <3> QED BY <1>1, <3>6 DEF HandFits
  <2>7. ASSUME NEW d \in Callers PROVE Numbered(d)' /\ Complete(d)' /\ HandFits(d)'
    BY <1>2, <2>4, <2>6, <2>7
  <2> QED BY <2>7 DEF Stream
<1> QED
  BY <1>3, <1>4

LEMMA StreamLookup ==
  ASSUME TypeOK, Stream, Lookup
  PROVE  Stream'
<1>1. /\ reader = "dispatch" /\ UNCHANGED <<call, got, queue, failed, replied, packet>>
      /\ reader' \in {"push", "offer", "stash"}
      /\ \A c \in Callers : packet.to = c =>
           (reader' = "push" <=> call[c] \notin {"idle", "returned"})
  BY DEF Lookup, callVars, jobVars, steamVars, TypeOK
<1> QED
  BY <1>1 DEF Stream, Numbered, Complete, InHand, HandFits

LEMMA StreamReader ==
  ASSUME TypeOK, Stream, Read \/ ReadFails \/ MessageEnds \/ Dispatch
  PROVE  Stream'
<1> USE DEF callVars, jobVars, steamVars
<1>1. CASE Read \/ ReadFails \/ MessageEnds
  BY <1>1, StreamFrame DEF Read, ReadFails, MessageEnds
<1>2. CASE DispatchLoggedOff
  <2>1. /\ \A c \in Callers : packet.to # c
        /\ UNCHANGED <<call, got, queue, failed, replied, packet>>
    BY <1>2 DEF DispatchLoggedOff, Stream, HandFits
  <2> QED BY <2>1 DEF Stream, Numbered, Complete, InHand, HandFits
<1>3. CASE LoggedOffDone \/ Signal \/ Offer \/ Stash
  BY <1>3, StreamFrame DEF LoggedOffDone, Signal, Offer, Stash, Dispatched
<1> QED
  BY <1>1, <1>2, <1>3, StreamPush, StreamLookup DEF Dispatch

LEMMA StreamRest ==
  ASSUME Stream,
         \/ Logon \/ HeartbeatFails \/ HeartbeatStops
         \/ CheckStash \/ Woken \/ WaitGivesUp \/ Close \/ FailEnds
         \/ UNCHANGED vars
  PROVE  Stream'
<1>1. UNCHANGED <<call, got, queue, failed, replied, reader, packet>>
  BY DEF Logon, WaitLogon, SendLogon, SendLogonFails, LogonAccepted, LogonDenied,
         LogonGivesUp, HeartbeatFails, HeartbeatStops, CheckStash, Woken,
         WaitGivesUp, Close, FailEnds, vars, callVars, jobVars, readVars, steamVars
<1> QED
  BY <1>1, StreamFrame

\* Whatever the interleaving, a call is given Steam's packets in order with
\* none missing, up to where its job overflowed.
THEOREM StreamCorrect == Spec => []NoGap
<1>1. Init => Stream
  <2> SUFFICES ASSUME Init, NEW c \in Callers
               PROVE  Numbered(c) /\ Complete(c) /\ HandFits(c)
    BY DEF Stream
  <2>1. /\ got[c] = <<>> /\ queue[c] = <<>> /\ replied[c] = 0
        /\ reader = "read"
    BY DEF Init
  <2>2. InHand(c) = 0 /\ Len(got[c]) = 0 /\ Len(queue[c]) = 0
    BY <2>1 DEF InHand
  <2> QED BY <2>1, <2>2 DEF Numbered, Complete, HandFits
<1>2. TypeOK /\ Stream /\ [Next]_vars => Stream'
  BY StreamCaller, StreamArrives, StreamReader, StreamRest DEF Next
<1>3. TypeOK /\ Stream => NoGap
  <2> SUFFICES ASSUME TypeOK, Stream, NEW c \in Callers
               PROVE  got[c] = [i \in 1..Len(got[c]) |-> i]
    BY DEF NoGap
  <2>1. got[c] \in Seq(Nat) /\ \A i \in 1..Len(got[c]) : got[c][i] = i
    BY DEF TypeOK, Stream, Numbered
  <2> QED BY <2>1
<1> QED
  BY <1>1, <1>2, <1>3, TypeCorrect, PTL DEF Spec

(***************************************************************************)
(* A job fails when its queue is full, and what was queued then is either  *)
(* queued still or was given to the call since.                            *)
(***************************************************************************)
Enough(c) == Len(got[c]) + Len(queue[c]) >= MaxJobQueue

Drained(c) ==
  /\ failed[c] => Enough(c)
  /\ result[c] = "overflow" => failed[c] /\ queue[c] = <<>>

LEMMA DrainedFrame ==
  ASSUME NEW c \in Callers, Drained(c),
         got'[c] = got[c], queue'[c] = queue[c], failed'[c] = failed[c],
         result'[c] = result[c] \/ result'[c] # "overflow"
  PROVE  Drained(c)'
BY DEF Drained, Enough

LEMMA DrainedPop ==
  ASSUME TypeOK, NEW c \in Callers, Drained(c), Pop(c)
  PROVE  Drained(c)'
<1>1. /\ queue[c] \in Seq(Nat) /\ queue[c] # <<>> /\ got[c] \in Seq(Nat)
      /\ queue'[c] = Tail(queue[c]) /\ got'[c] = Append(got[c], Head(queue[c]))
      /\ failed'[c] = failed[c]
  BY DEF Pop, TypeOK
<1>2. result'[c] # "overflow"
  <2>1. result[c] # "overflow"
    BY <1>1 DEF Drained
  <2> QED
    BY <2>1 DEF Pop, Return, TypeOK
<1>3. Len(queue'[c]) = Len(queue[c]) - 1 /\ Len(got'[c]) = Len(got[c]) + 1
  BY <1>1
<1>4. failed'[c] => Enough(c)'
  <2> PICK g \in Nat : g = Len(got[c])
    BY <1>1
  <2> PICK k \in Nat : k = Len(queue[c])
    BY <1>1
  <2>1. \A x, y \in Nat : (x + 1) + (y - 1) = x + y
    OBVIOUS
  <2>2. Len(got'[c]) + Len(queue'[c]) = Len(got[c]) + Len(queue[c])
    BY <1>3, <2>1
  <2> QED
    BY <1>1, <2>2 DEF Drained, Enough
<1> QED
  BY <1>2, <1>4 DEF Drained

LEMMA DrainedCaller ==
  ASSUME TypeOK, NEW c \in Callers, Drained(c), NEW d \in Callers, Caller(d)
  PROVE  Drained(c)'
<1> USE DEF jobVars, callVars
<1>1. CASE d # c
  <2>1. /\ got'[c] = got[c] /\ queue'[c] = queue[c] /\ failed'[c] = failed[c]
        /\ result'[c] = result[c]
    BY <1>1 DEF TypeOK, Caller, NewJob, Send, SendFails, SendFailed, Pop, PopError, Park,
           TakeToken, ContextDone, SeeClosed, Return
  <2> QED
    BY <2>1, DrainedFrame
<1>2. CASE d = c /\ PopError(c)
  <2>1. /\ failed'[c] /\ queue'[c] = <<>> /\ failed[c] /\ UNCHANGED <<got, queue>>
    BY <1>2 DEF PopError, FailedAndDrained
  <2> QED
    BY <2>1 DEF Drained, Enough
<1>3. CASE /\ d = c
           /\ \/ NewJob(c) \/ Send(c) \/ SendFails(c) \/ SendFailed(c) \/ Park(c)
              \/ TakeToken(c) \/ ContextDone(c) \/ SeeClosed(c)
  <2>1. /\ got' = got /\ queue' = queue /\ failed' = failed
        /\ result'[c] = result[c] \/ result'[c] # "overflow"
    BY <1>3 DEF TypeOK, NewJob, Send, SendFails, SendFailed, Park, TakeToken,
           ContextDone, SeeClosed, Return
  <2> QED
    BY <2>1, DrainedFrame
<1>4. CASE d = c /\ Pop(c)
  BY <1>4, DrainedPop
<1> QED
  BY <1>1, <1>2, <1>3, <1>4 DEF Caller

LEMMA DrainedPush ==
  ASSUME TypeOK, NEW c \in Callers, Drained(c), PushPacket
  PROVE  Drained(c)'
<1>1. /\ UNCHANGED <<got, result>> /\ packet.to \in Callers /\ Push(packet.to)
      /\ queue[c] \in Seq(Nat) /\ got[c] \in Seq(Nat)
  BY DEF PushPacket, TypeOK, callVars
<1>2. CASE packet.to # c \/ failed[c]
  <2>1. queue'[c] = queue[c] /\ failed'[c] = failed[c]
    BY <1>1, <1>2 DEF Push, TypeOK
  <2> QED
    BY <1>1, <2>1, DrainedFrame
<1>3. CASE packet.to = c /\ ~failed[c] /\ Len(queue[c]) >= MaxJobQueue
  <2>1. queue' = queue /\ result'[c] # "overflow"
    BY <1>1, <1>3 DEF Push, Drained
  <2>2. \A g, k, m \in Nat : k >= m => g + k >= m
    OBVIOUS
  <2>3. Len(got[c]) + Len(queue[c]) >= MaxJobQueue
    <3> PICK g \in Nat : g = Len(got[c])
      BY <1>1
    <3> PICK k \in Nat : k = Len(queue[c])
      BY <1>1
    <3>1. MaxJobQueue \in Nat /\ k >= MaxJobQueue
      BY <1>3, ConstantsAssumption DEF ConstantsAssumption
    <3>2. g + k >= MaxJobQueue
      BY <2>2, <3>1
    <3> QED
      BY <3>2
  <2> QED
    BY <1>1, <2>1, <2>3 DEF Drained, Enough
<1>4. CASE packet.to = c /\ ~failed[c] /\ ~(Len(queue[c]) >= MaxJobQueue)
  <2>1. failed' = failed /\ result'[c] # "overflow"
    BY <1>1, <1>4 DEF Push, Drained
  <2> QED
    BY <1>4, <2>1 DEF Drained
<1> QED
  BY <1>2, <1>3, <1>4

\* A call that fails on an overflow was given at least a full queue of packets,
\* all that were queued when its job failed (client.go:336-361).
THEOREM DrainCorrect == Spec => []FailsAfterDraining
<1> DEFINE AllDrained == \A c \in Callers : Drained(c)
<1>1. Init => AllDrained
  BY DEF Init, Drained
<1>2. TypeOK /\ AllDrained /\ [Next]_vars => AllDrained'
  <2> SUFFICES ASSUME TypeOK, [Next]_vars, NEW c \in Callers, Drained(c)
               PROVE  Drained(c)'
    OBVIOUS
  <2>1. CASE \E d \in Callers : Caller(d)
    BY <2>1, DrainedCaller
  <2>2. CASE PushPacket
    BY <2>2, DrainedPush
  <2>3. ASSUME UNCHANGED <<got, queue, failed, result>> PROVE Drained(c)'
    BY <2>3, DrainedFrame
  <2>4. CASE Read \/ ReadFails \/ Steam \/ MessageEnds
    BY <2>3, <2>4 DEF Read, ReadFails, Steam, ReplyArrives, PushArrives, Arrives,
           MessageEnds, callVars, jobVars
  <2>5. CASE Dispatch
    BY <2>2, <2>3, <2>5 DEF Dispatch, DispatchLoggedOff, LoggedOffDone, Lookup, Signal,
           Offer, Stash, callVars, jobVars
  <2>6. CASE \/ Logon \/ HeartbeatFails \/ HeartbeatStops
             \/ CheckStash \/ Woken \/ WaitGivesUp \/ Close \/ FailEnds
             \/ UNCHANGED vars
    BY <2>3, <2>6 DEF Logon, WaitLogon, SendLogon, SendLogonFails, LogonAccepted,
           LogonDenied, LogonGivesUp, HeartbeatFails, HeartbeatStops, CheckStash,
           Woken, WaitGivesUp, Close, FailEnds, vars, callVars, jobVars
  <2> QED
    BY <2>1, <2>4, <2>5, <2>6 DEF Next
<1>3. TypeOK /\ AllDrained => FailsAfterDraining
  <2> SUFFICES ASSUME TypeOK, NEW c \in Callers, Drained(c), result[c] = "overflow"
               PROVE  queue[c] = <<>> /\ Len(got[c]) >= MaxJobQueue
    BY DEF FailsAfterDraining
  <2>1. queue[c] = <<>> /\ Len(got[c]) + Len(queue[c]) >= MaxJobQueue
    BY DEF Drained, Enough
  <2>2. Len(queue[c]) = 0
    BY <2>1
  <2> PICK g \in Nat : g = Len(got[c])
    BY DEF TypeOK
  <2>3. g + 0 >= MaxJobQueue
    BY <2>1, <2>2
  <2> QED
    BY <2>1, <2>3, ConstantsAssumption DEF ConstantsAssumption
<1> QED
  BY <1>1, <1>2, <1>3, TypeCorrect, PTL DEF Spec
=============================================================================
