------------------------------ MODULE CMClient ------------------------------
(***************************************************************************)
(* cm.Client (src/cm/client.go): one websocket to a connection manager,    *)
(* shared by the goroutines that make calls, the one that logs on, one     *)
(* that waits for something Steam pushes, the heartbeat and the read loop. *)
(*                                                                         *)
(* Every step is what a goroutine does under one lock, or between two: the *)
(* read loop looks a packet's job up, lets the lock go, pushes the packet  *)
(* under the job's lock and signals the consumer with neither.             *)
(*                                                                         *)
(* Steam is external: it answers a call with Replies[c] packets, in order, *)
(* also when nobody waits for them any more, and pushes packets of its own.*)
(***************************************************************************)
EXTENDS Naturals, Sequences

CONSTANTS
  Callers,      \* goroutines that make one call each
  Replies,      \* Replies[c]: how many packets answer the call of c
  MaxJobQueue,  \* maxJobQueue
  MaxFrame,     \* bound: packets in one websocket message (EMsgMulti)
  MaxPushes,    \* bound: unsolicited packets, and logon responses
  None

EMsgs == {"reply", "logon", "push"}

Packet == [emsg : EMsgs \cup {"loggedOff"}, to : Callers \cup {None}, n : Nat]

ASSUME ConstantsAssumption ==
  /\ Replies \in [Callers -> Nat \ {0}]
  /\ MaxJobQueue \in Nat \ {0} /\ MaxFrame \in Nat \ {0} /\ MaxPushes \in Nat
  /\ None \notin Callers \cup Packet

VARIABLES
  call,     \* call[c]: where c is in RequestMulti or Unified
  result,   \* how its call ended
  got,      \* the packets its handler was given
  jobs,     \* c.jobs: callers whose job is registered
  queue,    \* queue[c]: job.queue
  failed,   \* failed[c]: job.err is set
  ready,    \* ready[c]: job.ready holds a token
  replied,  \* how many packets Steam sent to c
  reader,   \* where the read loop is
  batch,    \* packets of the message it is in that are still to come
  packet,   \* the packet in hand
  pushes,   \* how many packets Steam pushed
  logon,    \* where Logon is
  logonCh,  \* the channel in c.byEMsg, empty or with one packet
  stash,    \* stash[e]: c.stash
  waiter,   \* where WaitEMsg is
  wake,     \* the channel it captured has been closed
  beating,  \* the heartbeat goroutine runs
  once,     \* closeMu: "unused", "running" or "done"
  err,      \* c.err is set
  closed    \* c.closed is closed

callVars  == <<call, result, got>>
jobVars   == <<jobs, queue, failed, ready>>
readVars  == <<reader, batch, packet>>
steamVars == <<replied, pushes>>
logonVars == <<logon, logonCh, beating>>
waitVars  == <<stash, waiter, wake>>
failVars  == <<once, err, closed>>
vars == <<callVars, jobVars, readVars, steamVars, logonVars, waitVars, failVars>>

Init ==
  /\ call = [c \in Callers |-> "idle"]
  /\ result = [c \in Callers |-> "none"]
  /\ got = [c \in Callers |-> <<>>]
  /\ jobs = {}
  /\ queue = [c \in Callers |-> <<>>]
  /\ failed = [c \in Callers |-> FALSE]
  /\ ready = [c \in Callers |-> FALSE]
  /\ replied = [c \in Callers |-> 0]
  /\ reader = "read" /\ batch = 0 /\ packet = None
  /\ pushes = 0
  /\ logon = "off" /\ logonCh = <<>> /\ beating = FALSE
  /\ stash = [e \in EMsgs |-> None] /\ waiter = "off" /\ wake = FALSE
  /\ once = "unused" /\ err = FALSE /\ closed = FALSE

----------------------------------------------------------------------------
(***************************************************************************)
(* fail, under closeMu: the first caller sets the error and then closes    *)
(* the channel; the others wait for it to be done.                         *)
(***************************************************************************)
\* Mutant: the channel is closed before the error is set.
FailClosingFirst ==
  IF once = "unused"
  THEN once' = "running" /\ closed' = TRUE /\ UNCHANGED err
  ELSE UNCHANGED failVars

Fail ==
  IF once = "unused"
  THEN once' = "running" /\ err' = TRUE /\ UNCHANGED closed
  ELSE UNCHANGED failVars

\* Mutant: the one that fails waits for the read loop to be gone.
FailEndsAfterReader ==
  /\ once = "running" /\ reader = "gone"
  /\ once' = "done"
  /\ closed' = TRUE
  /\ UNCHANGED err
  /\ UNCHANGED <<callVars, jobVars, readVars, steamVars, logonVars, waitVars>>

FailEnds ==
  /\ once = "running"
  /\ once' = "done"
  /\ closed' = TRUE
  /\ UNCHANGED err
  /\ UNCHANGED <<callVars, jobVars, readVars, steamVars, logonVars, waitVars>>

Close ==
  /\ once = "unused"
  /\ Fail
  /\ UNCHANGED <<callVars, jobVars, readVars, steamVars, logonVars, waitVars>>

----------------------------------------------------------------------------
(***************************************************************************)
(* A call: newJob, send, then recv until the handler has its last packet.  *)
(***************************************************************************)
NewJob(c) ==
  /\ call[c] = "idle"
  /\ call' = [call EXCEPT ![c] = "send"]
  /\ jobs' = jobs \cup {c}
  /\ UNCHANGED <<result, got, queue, failed, ready, readVars, steamVars,
                 logonVars, waitVars, failVars>>

Send(c) ==
  /\ call[c] = "send" /\ ~closed
  /\ call' = [call EXCEPT ![c] = "pop"]
  /\ UNCHANGED <<result, got, jobVars, readVars, steamVars, logonVars,
                 waitVars, failVars>>

SendFails(c) ==
  /\ call[c] = "send"
  /\ Fail
  /\ call' = [call EXCEPT ![c] = "failing"]
  /\ UNCHANGED <<result, got, jobVars, readVars, steamVars, logonVars, waitVars>>

\* Mutant: a call that returns leaves its job in the table.
ReturnLeavingJob(c, how) ==
  /\ call' = [call EXCEPT ![c] = "returned"]
  /\ result' = [result EXCEPT ![c] = how]
  /\ UNCHANGED jobs

\* endJob, on the way out.
Return(c, how) ==
  /\ call' = [call EXCEPT ![c] = "returned"]
  /\ result' = [result EXCEPT ![c] = how]
  /\ jobs' = jobs \ {c}

SendFailed(c) ==
  /\ call[c] = "failing" /\ once = "done"
  /\ Return(c, "lost")
  /\ UNCHANGED <<got, queue, failed, ready, readVars, steamVars, logonVars,
                 waitVars, failVars>>

\* Mutant: a token is waited for before each packet.
AfterPacketWaits == "parked"

AfterPacket == "pop"

\* pop finds a packet; the handler says whether it is the last, or fails.
Pop(c) ==
  /\ call[c] = "pop" /\ queue[c] # <<>>
  /\ queue' = [queue EXCEPT ![c] = Tail(@)]
  /\ got' = [got EXCEPT ![c] = Append(@, Head(queue[c]))]
  /\ \/ Head(queue[c]) = Replies[c] /\ Return(c, "ok")
     \/ /\ Head(queue[c]) # Replies[c]
        /\ call' = [call EXCEPT ![c] = AfterPacket]
        /\ UNCHANGED <<result, jobs>>
     \/ Return(c, "handler")
  /\ UNCHANGED <<failed, ready, readVars, steamVars, logonVars, waitVars,
                 failVars>>

\* Mutant: the error of a job is returned ahead of what is queued.
FailedSeen(c) == failed[c]

FailedAndDrained(c) == failed[c] /\ queue[c] = <<>>

PopError(c) ==
  /\ call[c] = "pop" /\ FailedAndDrained(c)
  /\ Return(c, "overflow")
  /\ UNCHANGED <<got, queue, failed, ready, readVars, steamVars, logonVars,
                 waitVars, failVars>>

\* pop finds nothing: recv waits on three channels.
Park(c) ==
  /\ call[c] = "pop" /\ queue[c] = <<>> /\ ~failed[c]
  /\ call' = [call EXCEPT ![c] = "parked"]
  /\ UNCHANGED <<result, got, jobVars, readVars, steamVars, logonVars,
                 waitVars, failVars>>

TakeToken(c) ==
  /\ call[c] = "parked" /\ ready[c]
  /\ ready' = [ready EXCEPT ![c] = FALSE]
  /\ call' = [call EXCEPT ![c] = "pop"]
  /\ UNCHANGED <<result, got, jobs, queue, failed, readVars, steamVars,
                 logonVars, waitVars, failVars>>

ContextDone(c) ==
  /\ call[c] = "parked"
  /\ Return(c, "timeout")
  /\ UNCHANGED <<got, queue, failed, ready, readVars, steamVars, logonVars,
                 waitVars, failVars>>

\* c.Err() is what the call returns: no packet and no error, if it is not set.
SeeClosed(c) ==
  /\ call[c] = "parked" /\ closed
  /\ Return(c, IF err THEN "lost" ELSE "nothing")
  /\ UNCHANGED <<got, queue, failed, ready, readVars, steamVars, logonVars,
                 waitVars, failVars>>

----------------------------------------------------------------------------
(***************************************************************************)
(* The read loop.  A message holds one packet, or several (handleMulti),   *)
(* which are dispatched one after the other, also when one of them closed  *)
(* the connection.                                                         *)
(***************************************************************************)
Read ==
  /\ reader = "read" /\ ~closed
  /\ \E k \in 1..MaxFrame : batch' = k
  /\ reader' = "next"
  /\ UNCHANGED <<callVars, jobVars, packet, steamVars, logonVars, waitVars,
                 failVars>>

\* conn.Read returns an error, as it does once the connection is closed.
ReadFails ==
  /\ reader = "read"
  /\ Fail
  /\ reader' = "gone"
  /\ UNCHANGED <<callVars, jobVars, batch, packet, steamVars, logonVars,
                 waitVars>>

Arrives(p) ==
  /\ reader = "next" /\ batch > 0
  /\ packet' = p
  /\ batch' = batch - 1
  /\ reader' = "dispatch"
  /\ UNCHANGED <<callVars, jobVars, logonVars, waitVars, failVars>>

\* Steam's next packet for a call it was sent.
ReplyArrives(c) ==
  /\ call[c] \in {"pop", "parked", "returned"} /\ replied[c] < Replies[c]
  /\ Arrives([emsg |-> "reply", to |-> c, n |-> replied[c] + 1])
  /\ replied' = [replied EXCEPT ![c] = @ + 1]
  /\ UNCHANGED pushes

\* Something addressed to no job.
PushArrives(e) ==
  /\ pushes < MaxPushes
  /\ e = "logon" => logon \notin {"off", "registered"}
  /\ Arrives([emsg |-> e, to |-> None, n |-> pushes + 1])
  /\ pushes' = pushes + 1
  /\ UNCHANGED replied

\* The rest of the message is nothing the client looks at.
MessageEnds ==
  /\ reader = "next"
  /\ batch' = 0
  /\ reader' = "read"
  /\ UNCHANGED <<callVars, jobVars, packet, steamVars, logonVars, waitVars,
                 failVars>>

Dispatched ==
  /\ packet' = None
  /\ reader' = "next"

DispatchLoggedOff ==
  /\ reader = "dispatch" /\ packet.emsg = "loggedOff"
  /\ Fail
  /\ reader' = "failing"
  /\ UNCHANGED <<callVars, jobVars, batch, packet, steamVars, logonVars,
                 waitVars>>

LoggedOffDone ==
  /\ reader = "failing" /\ once = "done"
  /\ Dispatched
  /\ UNCHANGED <<callVars, jobVars, batch, steamVars, logonVars, waitVars,
                 failVars>>

\* The maps are consulted under c.mu: the job first, then the message type.
Waiting(e) == e = "logon" /\ logon \in {"registered", "waiting"}

Lookup ==
  /\ reader = "dispatch" /\ packet.emsg \in EMsgs
  /\ reader' = IF packet.to \in jobs THEN "push"
               ELSE IF Waiting(packet.emsg) THEN "offer" ELSE "stash"
  /\ UNCHANGED <<callVars, jobVars, batch, packet, steamVars, logonVars,
                 waitVars, failVars>>

\* Mutant: past the bound the oldest packet makes room and the job goes on.
PushDropping(c) ==
  /\ queue' = [queue EXCEPT ![c] =
                 Append(IF Len(@) >= MaxJobQueue THEN Tail(@) ELSE @, packet.n)]
  /\ UNCHANGED failed

\* push, under job.mu.
Push(c) ==
  IF failed[c] THEN UNCHANGED <<queue, failed>>
  ELSE IF Len(queue[c]) >= MaxJobQueue
       THEN failed' = [failed EXCEPT ![c] = TRUE] /\ UNCHANGED queue
       ELSE queue' = [queue EXCEPT ![c] = Append(@, packet.n)] /\ UNCHANGED failed

PushPacket ==
  /\ reader = "push"
  /\ Push(packet.to)
  /\ reader' = "signal"
  /\ UNCHANGED <<callVars, jobs, ready, batch, packet, steamVars, logonVars,
                 waitVars, failVars>>

\* A token is left unless there is one.
Signal ==
  /\ reader = "signal"
  /\ ready' = [ready EXCEPT ![packet.to] = TRUE]
  /\ Dispatched
  /\ UNCHANGED <<callVars, jobs, queue, failed, batch, steamVars, logonVars,
                 waitVars, failVars>>

\* The channel Logon waits on; a second packet is dropped.
Offer ==
  /\ reader = "offer"
  /\ logonCh' = IF logonCh = <<>> THEN <<packet>> ELSE logonCh
  /\ Dispatched
  /\ UNCHANGED <<callVars, jobVars, batch, steamVars, logon, beating, waitVars,
                 failVars>>

\* Mutant: the channel is not closed.
StashSilently ==
  /\ reader = "stash"
  /\ stash' = [stash EXCEPT ![packet.emsg] = packet]
  /\ Dispatched
  /\ UNCHANGED <<callVars, jobVars, batch, steamVars, logonVars, waiter, wake,
                 failVars>>

\* Nobody asked: kept for WaitEMsg, whose channel is closed and replaced.
Stash ==
  /\ reader = "stash"
  /\ stash' = [stash EXCEPT ![packet.emsg] = packet]
  /\ wake' = (waiter = "parked")
  /\ Dispatched
  /\ UNCHANGED <<callVars, jobVars, batch, steamVars, logonVars, waiter,
                 failVars>>

----------------------------------------------------------------------------
(***************************************************************************)
(* Logon, and the heartbeat it starts.                                     *)
(***************************************************************************)
WaitLogon ==
  /\ logon = "off"
  /\ logon' = "registered"
  /\ UNCHANGED <<callVars, jobVars, readVars, steamVars, logonCh, beating,
                 waitVars, failVars>>

SendLogon ==
  /\ logon = "registered" /\ ~closed
  /\ logon' = "waiting"
  /\ UNCHANGED <<callVars, jobVars, readVars, steamVars, logonCh, beating,
                 waitVars, failVars>>

SendLogonFails ==
  /\ logon = "registered"
  /\ Fail
  /\ logon' = "failing"
  /\ UNCHANGED <<callVars, jobVars, readVars, steamVars, logonCh, beating,
                 waitVars>>

LogonAccepted ==
  /\ logon = "waiting" /\ logonCh # <<>>
  /\ logon' = "on"
  /\ logonCh' = <<>>
  /\ beating' = TRUE
  /\ UNCHANGED <<callVars, jobVars, readVars, steamVars, waitVars, failVars>>

LogonDenied ==
  /\ logon = "waiting" /\ logonCh # <<>>
  /\ Fail
  /\ logonCh' = <<>>
  /\ logon' = "failing"
  /\ UNCHANGED <<callVars, jobVars, readVars, steamVars, beating, waitVars>>

\* The context ended, or the connection.
LogonGivesUp ==
  /\ \/ logon = "waiting"
     \/ logon = "failing" /\ once = "done"
  /\ logon' = "gone"
  /\ UNCHANGED <<callVars, jobVars, readVars, steamVars, logonCh, beating,
                 waitVars, failVars>>

HeartbeatFails ==
  /\ beating /\ Fail
  /\ beating' = FALSE
  /\ UNCHANGED <<callVars, jobVars, readVars, steamVars, logon, logonCh,
                 waitVars>>

HeartbeatStops ==
  /\ beating /\ closed
  /\ beating' = FALSE
  /\ UNCHANGED <<callVars, jobVars, readVars, steamVars, logon, logonCh,
                 waitVars, failVars>>

----------------------------------------------------------------------------
(***************************************************************************)
(* WaitEMsg for what Steam pushes: the stash is looked at and the channel  *)
(* that announces the next packet captured in one critical section.        *)
(***************************************************************************)
CheckStash ==
  /\ waiter \in {"off", "check"}
  /\ waiter' = IF stash["push"] # None THEN "found" ELSE "parked"
  /\ UNCHANGED <<callVars, jobVars, readVars, steamVars, logonVars, stash, wake,
                 failVars>>

Woken ==
  /\ waiter = "parked" /\ wake
  /\ waiter' = "check" /\ wake' = FALSE
  /\ UNCHANGED <<callVars, jobVars, readVars, steamVars, logonVars, stash,
                 failVars>>

WaitGivesUp ==
  /\ waiter = "parked"
  /\ waiter' = "gone" /\ wake' = FALSE
  /\ UNCHANGED <<callVars, jobVars, readVars, steamVars, logonVars, stash,
                 failVars>>

----------------------------------------------------------------------------
Caller(c) ==
  \/ NewJob(c) \/ Send(c) \/ SendFails(c) \/ SendFailed(c)
  \/ Pop(c) \/ PopError(c) \/ Park(c)
  \/ TakeToken(c) \/ ContextDone(c) \/ SeeClosed(c)

Steam ==
  \/ \E c \in Callers : ReplyArrives(c)
  \/ \E e \in {"logon", "push", "loggedOff"} : PushArrives(e)

Dispatch ==
  \/ DispatchLoggedOff \/ LoggedOffDone
  \/ Lookup \/ PushPacket \/ Signal \/ Offer \/ Stash

Logon ==
  \/ WaitLogon \/ SendLogon \/ SendLogonFails
  \/ LogonAccepted \/ LogonDenied \/ LogonGivesUp

Next ==
  \/ \E c \in Callers : Caller(c)
  \/ Read \/ ReadFails \/ Steam \/ MessageEnds \/ Dispatch
  \/ Logon \/ HeartbeatFails \/ HeartbeatStops
  \/ CheckStash \/ Woken \/ WaitGivesUp
  \/ Close \/ FailEnds

Spec == Init /\ [][Next]_vars

(***************************************************************************)
(* Goroutines are scheduled; a write ends within 30 seconds; a Read on a   *)
(* closed connection fails.  Nothing is asked of Steam, of callers'        *)
(* contexts, or of select's choice among several ready channels.           *)
(***************************************************************************)
Fairness ==
  /\ \A c \in Callers :
       /\ WF_vars(Send(c) \/ SendFails(c)) /\ WF_vars(SendFailed(c))
       /\ WF_vars(Pop(c) \/ PopError(c) \/ Park(c))
       /\ WF_vars(TakeToken(c) \/ SeeClosed(c))
  /\ WF_vars(Dispatch) /\ WF_vars(MessageEnds) /\ WF_vars(closed /\ ReadFails)
  /\ WF_vars(SendLogon \/ SendLogonFails) /\ WF_vars(closed /\ LogonGivesUp)
  /\ WF_vars(HeartbeatStops)
  /\ WF_vars(Woken) /\ WF_vars(waiter = "check" /\ CheckStash)
  /\ WF_vars(closed /\ WaitGivesUp)
  /\ WF_vars(FailEnds)

FairSpec == Spec /\ Fairness

----------------------------------------------------------------------------
(***************************************************************************)
(* Properties.                                                             *)
(***************************************************************************)
\* Every variable holds a value of its kind.
TypeOK ==
  /\ call \in [Callers -> {"idle", "send", "failing", "pop", "parked", "returned"}]
  /\ result \in [Callers -> {"none", "ok", "handler", "overflow", "timeout",
                             "lost", "nothing"}]
  /\ got \in [Callers -> Seq(Nat)] /\ queue \in [Callers -> Seq(Nat)]
  /\ jobs = {c \in Callers : call[c] \notin {"idle", "returned"}}
  /\ failed \in [Callers -> BOOLEAN] /\ ready \in [Callers -> BOOLEAN]
  /\ replied \in [Callers -> Nat] /\ pushes \in Nat /\ batch \in Nat
  /\ reader \in {"read", "next", "dispatch", "failing", "push", "signal",
                 "offer", "stash", "gone"}
  /\ packet \in Packet \cup {None}
  /\ (packet # None) <=> (reader \notin {"read", "next", "gone"})
  /\ reader \in {"push", "signal"} => packet.to \in Callers
  /\ reader \in {"offer", "stash"} => packet.emsg \in EMsgs
  /\ logon \in {"off", "registered", "waiting", "failing", "on", "gone"}
  /\ logonCh \in Seq(Packet) /\ Len(logonCh) <= 1
  /\ beating \in BOOLEAN /\ wake \in BOOLEAN
  /\ stash \in [EMsgs -> Packet \cup {None}]
  /\ waiter \in {"off", "check", "parked", "found", "gone"}
  /\ once \in {"unused", "running", "done"}
  /\ err \in BOOLEAN /\ closed \in BOOLEAN

\* A consumer that waits while its job has something for it has a token, or
\* the read loop is about to leave one (client.go:336-361, 378-392).
NoLostWakeup ==
  \A c \in Callers :
    call[c] = "parked" /\ (queue[c] # <<>> \/ failed[c]) =>
      ready[c] \/ (reader = "signal" /\ packet.to = c)

\* A call gets its packets in the order Steam sent them, none twice and none
\* left out, so one that succeeds has them all (client.go:325-328).
NoGap == \A c \in Callers : got[c] = [i \in 1..Len(got[c]) |-> i]

\* A job that overflowed fails its call, once the call has been given all that
\* was queued before (client.go:352-361).
FailsAfterDraining ==
  \A c \in Callers :
    result[c] = "overflow" => queue[c] = <<>> /\ Len(got[c]) >= MaxJobQueue

\* Whoever sees the connection closed is given a reason: recv never returns
\* neither a packet nor an error (client.go:178-186, 388-389).
ClosedHasReason == closed => err

\* WaitEMsg does not wait for a packet that is already there, on a channel no
\* later packet will close (client.go:514-518, 525-533).
NoLostPush == waiter = "parked" /\ ~wake => stash["push"] = None

\* A call with an answer in its queue does not go on waiting.
AnswerWakes ==
  \A c \in Callers :
    (call[c] = "parked" /\ queue[c] # <<>>) ~> (call[c] # "parked")

\* Once somebody fails the connection, every goroutine of the client comes to
\* its end, although the one that fails it may be the read loop itself.
EndsAfterFail ==
  (once # "unused") ~>
    /\ closed /\ reader = "gone" /\ ~beating
    /\ \A c \in Callers : call[c] \in {"idle", "returned"}
    /\ waiter # "parked" /\ logon \in {"off", "on", "gone"}
=============================================================================
