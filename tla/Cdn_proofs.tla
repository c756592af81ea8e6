----------------------------- MODULE Cdn_proofs -----------------------------
(***************************************************************************)
(* Proofs about Cdn, for any requests, servers and budget.                 *)
(***************************************************************************)
EXTENDS Cdn, TLAPS

Inv == TypeOK /\ PermanentEnds

\* A sweep stays within the list of servers.
LEMMA ServerInList ==
  ASSUME TypeOK, NEW r \in Requests
  PROVE  Server(r) \in Servers
<1>1. start[r] + i[r] \in Nat
  BY DEF TypeOK, Servers
<1>2. \A a \in Nat : a % N \in 0 .. N - 1
  BY ConstantsAssumption
<1> QED
  BY <1>1, <1>2 DEF Server, Servers

LEMMA Initially == Init => Inv
<1> SUFFICES ASSUME Init PROVE Inv
  OBVIOUS
<1>1. TypeOK
  <2>1. 0 \in Servers /\ 0 \in 0 .. WordSize - 1 /\ 0 \in 0 .. Retries
    BY ConstantsAssumption DEF Servers
  <2>2. cancelled \in BOOLEAN
    BY Zenon DEF Init
  <2> QED
    BY <2>1, <2>2 DEF Init, TypeOK
<1>2. PermanentEnds
  BY DEF Init, PermanentEnds
<1> QED
  BY <1>1, <1>2 DEF Inv

\* One step of one request keeps the types.
LEMMA TypeStep ==
  ASSUME TypeOK, [Next]_vars
  PROVE  TypeOK'
<1> USE DEF TypeOK
<1>1. ASSUME NEW r \in Requests, Begin(r) PROVE TypeOK'
  BY <1>1 DEF Begin
<1>2. ASSUME NEW r \in Requests, Sweep(r) PROVE TypeOK'
  <2>1. next % N \in Servers /\ (next + 1) % WordSize \in 0 .. WordSize - 1
    BY ConstantsAssumption DEF Servers
  <2>2. 0 \in Servers
    BY ConstantsAssumption DEF Servers
  <2> QED
    BY <1>2, <2>1, <2>2 DEF Sweep
<1>3. ASSUME NEW r \in Requests, Ask(r) PROVE TypeOK'
  <2>1. hits[r][Server(r)] \in Nat
    BY ServerInList
  <2> QED
    BY <1>3, <2>1, ServerInList DEF Ask
<1>4. ASSUME NEW r \in Requests, MoveOn(r),
             UNCHANGED <<serves, next, cancelled, attempt, start, hits>>
      PROVE  TypeOK'
  <2>1. Another(r) => i[r] + 1 \in Servers
    BY ConstantsAssumption DEF Another, Servers
  <2> QED
    BY <1>4, <2>1 DEF MoveOn
<1>5. ASSUME NEW r \in Requests,
             End(r, "ok") \/ End(r, "permanent") \/ End(r, "cancelled") \/ End(r, "failed"),
             UNCHANGED <<serves, next, cancelled, attempt, start, i, hits>>
      PROVE  TypeOK'
  BY <1>5 DEF End
<1>6. ASSUME NEW r \in Requests, BadStatus(r) PROVE TypeOK'
  BY <1>4, <1>6 DEF BadStatus
<1>7. ASSUME NEW r \in Requests, Broken(r) PROVE TypeOK'
  BY <1>4, <1>5, <1>7 DEF Broken
<1>8. ASSUME NEW r \in Requests,
             BadRequest(r) \/ RightBody(r) \/ GiveUp(r) \/ BackoffCancelled(r)
      PROVE  TypeOK'
  BY <1>5, <1>8 DEF BadRequest, Refused, RightBody, GiveUp, BackoffCancelled
<1>9. ASSUME NEW r \in Requests, WrongBody(r) \/ BackoffEnds(r) PROVE TypeOK'
  BY <1>9 DEF WrongBody, BackoffEnds
<1>10. ASSUME NEW r \in Requests, Retry(r) PROVE TypeOK'
  BY <1>10, ConstantsAssumption DEF Retry
<1>11. ASSUME Cancel PROVE TypeOK'
  BY <1>11 DEF Cancel
<1>12. ASSUME UNCHANGED vars PROVE TypeOK'
  BY <1>12 DEF vars
<1> QED
  BY <1>1, <1>2, <1>3, <1>6, <1>7, <1>8, <1>9, <1>10, <1>11, <1>12 DEF Next, Request

\* A request that asks a missing server has not asked one before.
LEMMA PermanentStep ==
  ASSUME TypeOK, PermanentEnds, [Next]_vars
  PROVE  PermanentEnds'
<1> SUFFICES ASSUME NEW r \in Requests, NEW s \in Servers,
                    serves'[s] = "missing", hits'[r][s] > 0
             PROVE  /\ hits'[r][s] = 1
                    /\ Server(r)' = s
                    /\ \/ pc'[r] = "asking"
                       \/ pc'[r] = "done" /\ result'[r] \in {"permanent", "cancelled"}
  BY DEF PermanentEnds, Servers
<1> DEFINE Met == /\ hits[r][s] = 1
                  /\ Server(r) = s
                  /\ \/ pc[r] = "asking"
                     \/ pc[r] = "done" /\ result[r] \in {"permanent", "cancelled"}
<1>0. serves[s] = "missing" /\ hits[r][s] \in Nat
  <2>1. serves' = serves
    BY DEF Next, Cancel, Begin, Request, Sweep, Ask, BadStatus, Broken, BadRequest,
           RightBody, WrongBody, GiveUp, Retry, BackoffEnds, BackoffCancelled, vars
  <2> QED
    BY <2>1 DEF TypeOK
<1>1. hits[r][s] > 0 => Met
  BY <1>0 DEF PermanentEnds
<1>2. ASSUME NEW q \in Requests, Ask(q), q = r, Server(r) = s
      PROVE  hits'[r][s] = 1 /\ Server(r)' = s /\ pc'[r] = "asking"
  <2>1. hits[r][s] = 0
    BY <1>0, <1>1, <1>2 DEF Ask
  <2>2. hits'[r][s] = 1 /\ pc'[r] = "asking"
    BY <1>2, <2>1 DEF Ask, TypeOK
  <2>3. Server(r)' = s
    BY <1>2 DEF Ask, Server
  <2> QED
    BY <2>2, <2>3
<1>3. ASSUME ~ \E q \in Requests : Ask(q) /\ q = r /\ Server(r) = s
      PROVE  hits'[r][s] = hits[r][s]
  BY <1>3 DEF TypeOK, Next, Cancel, Begin, Request, Sweep, Ask, BadStatus, Broken,
         BadRequest, RightBody, WrongBody, GiveUp, Retry, BackoffEnds,
         BackoffCancelled, vars
<1>4. CASE \E q \in Requests : Ask(q) /\ q = r /\ Server(r) = s
  BY <1>2, <1>4
<1>5. CASE ~ \E q \in Requests : Ask(q) /\ q = r /\ Server(r) = s
  <2>1. Met
    BY <1>0, <1>1, <1>3, <1>5
  <2>2. ASSUME NEW q \in Requests, q # r, Begin(q) \/ Request(q)
        PROVE  pc'[r] = pc[r] /\ result'[r] = result[r] /\ Server(r)' = Server(r)
    BY <2>2 DEF TypeOK, Begin, Request, Sweep, Ask, BadStatus, Broken, BadRequest,
           RightBody, WrongBody, GiveUp, Retry, BackoffEnds, BackoffCancelled,
           MoveOn, End, Refused, Server
  <2>3. ASSUME Begin(r) \/ Request(r)
        PROVE  /\ pc'[r] = "done" /\ result'[r] \in {"permanent", "cancelled"}
               /\ Server(r)' = Server(r)
    <3>1. BadRequest(r) \/ (Broken(r) /\ cancelled)
      BY <1>0, <2>1, <2>3 DEF Begin, Request, Sweep, Ask, BadStatus, Broken, RequestFails,
             RightBody, WrongBody, GiveUp, Retry, BackoffEnds, BackoffCancelled
    <3> QED
      BY <3>1 DEF TypeOK, BadRequest, Refused, Broken, End, Server
  <2>4. ASSUME Cancel \/ UNCHANGED vars
        PROVE  pc' = pc /\ result' = result /\ Server(r)' = Server(r)
    BY <2>4 DEF Cancel, vars, Server
  <2>5. hits'[r][s] = 1
    BY <1>3, <1>5, <2>1
  <2> QED
    BY <2>1, <2>2, <2>3, <2>4, <2>5 DEF Next
<1> QED
  BY <1>4, <1>5

\* Every state of the client is well typed; no sweep leaves the list.
THEOREM TypeCorrect == Spec => []TypeOK
<1>1. Init => TypeOK
  BY Initially DEF Inv
<1>2. TypeOK /\ [Next]_vars => TypeOK'
  BY TypeStep
<1> QED
  BY <1>1, <1>2, PTL DEF Spec

\* A request that met a permanent error asks no server again
\* (servers.go:124-125, 149-152).
THEOREM PermanentCorrect == Spec => []PermanentEnds
<1>1. Init => Inv
  BY Initially
<1>2. Inv /\ [Next]_vars => Inv'
  BY TypeStep, PermanentStep DEF Inv
<1>3. Inv => PermanentEnds
  BY DEF Inv
<1> QED
  BY <1>1, <1>2, <1>3, PTL DEF Spec

(***************************************************************************)
(* The budget.  Off(r, s) is how many turns after its start the sweep of r *)
(* comes to server s; Counted says how often r asked s so far, sweep by    *)
(* sweep and, in the one under way, up to the turn it is in.               *)
(***************************************************************************)
Off(r, s) == IF s >= start[r] THEN s - start[r] ELSE s - start[r] + N

NoneCorrupt == \A s \in Servers : serves[s] # "corrupt"

Counted(r, s) ==
  /\ pc[r] \in {"idle", "sweep", "backoff"} => hits[r][s] = attempt[r]
  /\ pc[r] = "connect" =>
       hits[r][s] = IF Off(r, s) < i[r] THEN attempt[r] + 1 ELSE attempt[r]
  /\ pc[r] = "asking" =>
       hits[r][s] = IF Off(r, s) <= i[r] THEN attempt[r] + 1 ELSE attempt[r]
  /\ pc[r] = "swept" => hits[r][s] = attempt[r] + 1
  /\ result[r] = "failed" => hits[r][s] = Retries + 1
  /\ result[r] # "none" <=> pc[r] = "done"

Counts == NoneCorrupt => \A r \in Requests, s \in Servers : Counted(r, s)

\* The sweep comes to a server in one turn, which is below N.
LEMMA Turns ==
  ASSUME TypeOK, NEW r \in Requests, NEW s \in Servers
  PROVE  /\ Off(r, s) \in Servers
         /\ Server(r) = s <=> Off(r, s) = i[r]
<1>1. N \in Nat \ {0} /\ start[r] \in 0 .. N - 1 /\ i[r] \in 0 .. N - 1 /\ s \in 0 .. N - 1
  BY ConstantsAssumption DEF TypeOK, Servers
<1>2. \A a, b \in 0 .. N - 1 : (a + b) % N = IF a + b < N THEN a + b ELSE a + b - N
  BY <1>1, SMTT(30)
<1>3. (start[r] + i[r]) % N =
        IF start[r] + i[r] < N THEN start[r] + i[r] ELSE start[r] + i[r] - N
  BY <1>1, <1>2
<1> QED
  BY <1>1, <1>3 DEF Off, Server, Servers

LEMMA CountsInitially == Init => Counts
<1> SUFFICES ASSUME Init, NEW r \in Requests, NEW s \in Servers PROVE Counted(r, s)
  BY DEF Counts
<1> QED
  BY DEF Init, Counted

\* What another request does is nothing to this one's count.
LEMMA CountedApart ==
  ASSUME TypeOK, NEW r \in Requests, NEW s \in Servers, Counted(r, s),
         NEW q \in Requests, q # r, Begin(q) \/ Request(q)
  PROVE  Counted(r, s)'
<1>1. /\ pc'[r] = pc[r] /\ attempt'[r] = attempt[r] /\ start'[r] = start[r]
      /\ i'[r] = i[r] /\ result'[r] = result[r] /\ hits'[r] = hits[r]
  BY DEF TypeOK, Begin, Request, Sweep, Ask, BadStatus, Broken, BadRequest, RightBody,
         WrongBody, GiveUp, Retry, BackoffEnds, BackoffCancelled, MoveOn, End, Refused
<1> QED
  BY <1>1 DEF Counted, Off

\* Each step of a request keeps its count.
LEMMA CountedStep ==
  ASSUME TypeOK, NoneCorrupt, NEW r \in Requests, NEW s \in Servers, Counted(r, s),
         Begin(r) \/ Request(r)
  PROVE  Counted(r, s)'
<1> DEFINE Asked == Off(r, s) <= i[r]
<1>a. /\ Off(r, s) \in 0 .. N - 1 /\ i[r] \in 0 .. N - 1
      /\ Server(r) = s <=> Off(r, s) = i[r]
      /\ Server(r) \in Servers
      /\ attempt[r] \in Nat /\ N \in Nat /\ hits[r][s] \in Nat
  <2>1. Off(r, s) \in Servers /\ (Server(r) = s <=> Off(r, s) = i[r])
    BY Turns
  <2>2. attempt[r] \in Nat /\ hits[r][s] \in Nat /\ i[r] \in Servers
    BY DEF TypeOK
  <2> QED
    BY <2>1, <2>2, ServerInList, ConstantsAssumption DEF Servers
<1>b. ASSUME start'[r] = start[r] PROVE Off(r, s)' = Off(r, s)
  BY <1>b DEF Off
<1>1. CASE Begin(r)
  BY <1>1 DEF Begin, Counted, TypeOK
<1>2. CASE Sweep(r)
  <2>1. s \in 0 .. N - 1 /\ start'[r] \in 0 .. N - 1
    BY <1>2, ConstantsAssumption DEF Sweep, TypeOK, Servers
  <2>2. ~ (Off(r, s)' < 0)
    BY <2>1, <1>a DEF Off
  <2>3. /\ pc'[r] = "connect" /\ i'[r] = 0 /\ attempt' = attempt /\ hits' = hits
        /\ result' = result
    BY <1>2 DEF Sweep, TypeOK
  <2> QED
    BY <1>2, <2>2, <2>3 DEF Sweep, Counted
<1>3. CASE Ask(r)
  <2>1. /\ pc'[r] = "asking" /\ i' = i /\ attempt' = attempt /\ result' = result
        /\ start' = start
        /\ hits'[r][s] = IF Server(r) = s THEN hits[r][s] + 1 ELSE hits[r][s]
    BY <1>3 DEF Ask, TypeOK
  <2>2. hits[r][s] = IF Off(r, s) < i[r] THEN attempt[r] + 1 ELSE attempt[r]
    BY <1>3 DEF Ask, Counted
  <2>3. Off(r, s)' = Off(r, s)
    BY <1>b, <2>1
  <2>4. hits'[r][s] = IF Off(r, s) <= i[r] THEN attempt[r] + 1 ELSE attempt[r]
    BY <1>a, <2>1, <2>2
  <2>5. result[r] = "none"
    BY <1>3 DEF Ask, Counted
  <2> QED
    BY <2>1, <2>3, <2>4, <2>5 DEF Counted
<1>4. ASSUME pc[r] = "asking", MoveOn(r), UNCHANGED <<attempt, start, hits>>
      PROVE  Counted(r, s)'
  <2>1. /\ attempt' = attempt /\ result' = result /\ start' = start /\ hits' = hits
        /\ hits[r][s] = IF Off(r, s) <= i[r] THEN attempt[r] + 1 ELSE attempt[r]
        /\ result[r] = "none"
    BY <1>4 DEF MoveOn, Counted
  <2>2. Off(r, s)' = Off(r, s)
    BY <1>b, <2>1
  <2>3. CASE Another(r)
    <3>1. i'[r] = i[r] + 1 /\ pc'[r] = "connect"
      BY <1>4, <2>3 DEF MoveOn, TypeOK
    <3>2. Off(r, s) <= i[r] <=> Off(r, s) < i[r] + 1
      BY <1>a
    <3> QED
      BY <2>1, <2>2, <3>1, <3>2 DEF Counted
  <2>4. CASE ~Another(r)
    <3>1. pc'[r] = "swept"
      BY <1>4, <2>4 DEF MoveOn, TypeOK
    <3>2. Off(r, s) <= i[r]
      BY <1>a, <2>4 DEF Another
    <3> QED
      BY <2>1, <3>1, <3>2 DEF Counted
  <2> QED
    BY <2>3, <2>4
<1>5. ASSUME End(r, "ok") \/ End(r, "permanent") \/ End(r, "cancelled")
      PROVE  Counted(r, s)'
  BY <1>5 DEF End, Counted, TypeOK
<1>6. CASE BadStatus(r)
  BY <1>4, <1>6 DEF BadStatus
<1>7. CASE Broken(r)
  BY <1>4, <1>5, <1>7 DEF Broken
<1>8. CASE BadRequest(r) \/ RightBody(r) \/ BackoffCancelled(r)
  BY <1>5, <1>8 DEF BadRequest, Refused, RightBody, BackoffCancelled
<1>9. CASE WrongBody(r)
  BY <1>9, <1>a DEF WrongBody, NoneCorrupt
<1>10. CASE GiveUp(r)
  <2>1. CASE cancelled
    BY <1>5, <1>10, <2>1 DEF GiveUp
  <2>2. CASE ~cancelled
    BY <1>10, <2>2 DEF GiveUp, End, Counted, TypeOK
  <2> QED
    BY <2>1, <2>2
<1>11. CASE Retry(r)
  BY <1>11 DEF Retry, Counted, TypeOK
<1>12. CASE BackoffEnds(r)
  BY <1>12 DEF BackoffEnds, Counted, TypeOK
<1> QED
  BY <1>1, <1>2, <1>3, <1>6, <1>7, <1>8, <1>9, <1>10, <1>11, <1>12 DEF Request

LEMMA CountsStep ==
  ASSUME TypeOK, Counts, [Next]_vars
  PROVE  Counts'
<1> SUFFICES ASSUME NoneCorrupt', NEW r \in Requests, NEW s \in Servers
             PROVE  Counted(r, s)'
  BY DEF Counts, Servers
<1>1. serves' = serves
  BY DEF Next, Cancel, Begin, Request, Sweep, Ask, BadStatus, Broken, BadRequest,
         RightBody, WrongBody, GiveUp, Retry, BackoffEnds, BackoffCancelled, vars
<1>2. NoneCorrupt /\ Counted(r, s)
  BY <1>1 DEF NoneCorrupt, Counts, Servers
<1>3. ASSUME Cancel \/ UNCHANGED vars PROVE Counted(r, s)'
  BY <1>2, <1>3 DEF Cancel, vars, Counted, Off
<1>4. ASSUME NEW q \in Requests, Begin(q) \/ Request(q) PROVE Counted(r, s)'
  BY <1>2, <1>4, CountedApart, CountedStep
<1> QED
  BY <1>3, <1>4 DEF Next

\* However many requests share the counter and wherever it wraps, one that gives
\* up has asked every server once per sweep (servers.go:73-75, 80-81).
THEOREM BudgetCorrect == Spec => []BudgetSpent
<1>1. Init => TypeOK /\ Counts
  BY Initially, CountsInitially DEF Inv
<1>2. TypeOK /\ Counts /\ [Next]_vars => TypeOK' /\ Counts'
  BY TypeStep, CountsStep
<1>3. Counts => BudgetSpent
  BY DEF Counts, Counted, NoneCorrupt, BudgetSpent
<1> QED
  BY <1>1, <1>2, <1>3, PTL DEF Spec
=============================================================================
