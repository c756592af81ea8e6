-------------------------------- MODULE Cdn --------------------------------
(***************************************************************************)
(* cdn.Client (src/cdn/servers.go, chunk.go, manifest.go): requests for    *)
(* chunks and manifests, made by several goroutines that share one client  *)
(* and one context.  A request sweeps over the servers, starting where a   *)
(* shared counter says, until one has an answer; the sweep is retried.     *)
(*                                                                         *)
(* Servers are external: each has a way to answer.  How long a backoff     *)
(* takes and what is in a body are left out; a body is right or it is not. *)
(***************************************************************************)
EXTENDS Naturals

CONSTANTS
  Requests,   \* calls of FetchChunk or FetchManifest, one per goroutine
  N,          \* len(c.Servers)
  Retries,    \* c.retries()
  WordSize,   \* c.next counts modulo this
  Kinds       \* the ways a server may answer that are looked at

ASSUME ConstantsAssumption ==
  /\ N \in Nat \ {0} /\ Retries \in Nat /\ WordSize \in Nat \ {0}
  /\ Kinds \subseteq {"good", "corrupt", "down", "flaky", "hangs", "missing"}

VARIABLES
  serves,     \* serves[s]: how server s answers, as long as the requests last
  next,       \* c.next
  cancelled,  \* the context the requests share is done
  pc,         \* pc[r]: where request r is
  attempt,    \* attempt[r]: the retry it is in
  start,      \* start[r]: the server its sweep began with
  i,          \* i[r]: how many servers of the sweep failed
  result,     \* result[r]: how it ended
  hits        \* hits[r][s]: how often it asked server s

vars == <<serves, next, cancelled, pc, attempt, start, i, result, hits>>

Servers == 0 .. N - 1

\* Mutant: the server that failed is asked again.
SameServer(r) == start[r]

Server(r) == (start[r] + i[r]) % N

Init ==
  /\ serves \in [Servers -> Kinds]
  /\ next = 0 /\ cancelled = FALSE
  /\ pc = [r \in Requests |-> "idle"]
  /\ attempt = [r \in Requests |-> 0]
  /\ start = [r \in Requests |-> 0] /\ i = [r \in Requests |-> 0]
  /\ result = [r \in Requests |-> "none"]
  /\ hits = [r \in Requests |-> [s \in Servers |-> 0]]

End(r, how) ==
  /\ pc' = [pc EXCEPT ![r] = "done"]
  /\ result' = [result EXCEPT ![r] = how]

Begin(r) ==
  /\ pc[r] = "idle"
  /\ pc' = [pc EXCEPT ![r] = "sweep"]
  /\ UNCHANGED <<serves, next, cancelled, attempt, start, i, result, hits>>

\* get: the counter is taken and moved on in one step.
Sweep(r) ==
  /\ pc[r] = "sweep"
  /\ start' = [start EXCEPT ![r] = next % N]
  /\ next' = (next + 1) % WordSize
  /\ i' = [i EXCEPT ![r] = 0]
  /\ pc' = [pc EXCEPT ![r] = "connect"]
  /\ UNCHANGED <<serves, cancelled, attempt, result, hits>>

\* getOnce, with its stall timer running from here on.
Ask(r) ==
  /\ pc[r] = "connect"
  /\ hits' = [hits EXCEPT ![r][Server(r)] = @ + 1]
  /\ pc' = [pc EXCEPT ![r] = "asking"]
  /\ UNCHANGED <<serves, next, cancelled, attempt, start, i, result>>

\* Mutant: one server too many.
AnotherTurn(r) == i[r] < N

Another(r) == i[r] + 1 < N

\* On to the next server, or to the end of the sweep.
MoveOn(r) ==
  /\ IF Another(r)
     THEN i' = [i EXCEPT ![r] = @ + 1] /\ pc' = [pc EXCEPT ![r] = "connect"]
     ELSE UNCHANGED i /\ pc' = [pc EXCEPT ![r] = "swept"]
  /\ UNCHANGED result

\* A status that is neither 200 nor permanent; the context is not looked at.
BadStatus(r) ==
  /\ pc[r] = "asking" /\ serves[Server(r)] \in {"down", "flaky"}
  /\ MoveOn(r)
  /\ UNCHANGED <<serves, next, cancelled, attempt, start, hits>>

\* Mutant: there is no stall timer.
ConnectionFails(r) == serves[Server(r)] \in {"down", "flaky"} \/ cancelled

\* No connection, a connection that broke, or one that made no progress until
\* the stall timer ended it; or the context did, and with it the request.
RequestFails(r) == serves[Server(r)] \in {"down", "flaky", "hangs"} \/ cancelled

Broken(r) ==
  /\ pc[r] = "asking" /\ RequestFails(r)
  /\ IF cancelled THEN End(r, "cancelled") /\ UNCHANGED i ELSE MoveOn(r)
  /\ UNCHANGED <<serves, next, cancelled, attempt, start, hits>>

\* Mutant: a permanent error is an error like the others.
RefusedLikeDown(r) == MoveOn(r)

\* 401, 403, 404: the error is permanent, and retry returns it.
Refused(r) == End(r, "permanent") /\ UNCHANGED i

BadRequest(r) ==
  /\ pc[r] = "asking" /\ serves[Server(r)] = "missing"
  /\ Refused(r)
  /\ UNCHANGED <<serves, next, cancelled, attempt, start, hits>>

\* A whole body, that decodes and hashes to the chunk asked for ...
RightBody(r) ==
  /\ pc[r] = "asking" /\ serves[Server(r)] \in {"good", "flaky"}
  /\ End(r, "ok")
  /\ UNCHANGED <<serves, next, cancelled, attempt, start, i, hits>>

\* ... or does not: the sweep has failed, the servers after it are not asked.
WrongBody(r) ==
  /\ pc[r] = "asking" /\ serves[Server(r)] = "corrupt"
  /\ pc' = [pc EXCEPT ![r] = "swept"]
  /\ UNCHANGED <<serves, next, cancelled, attempt, start, i, result, hits>>

\* retry, after its function failed.
GiveUp(r) ==
  /\ pc[r] = "swept" /\ (cancelled \/ attempt[r] = Retries)
  /\ End(r, IF cancelled THEN "cancelled" ELSE "failed")
  /\ UNCHANGED <<serves, next, cancelled, attempt, start, i, hits>>

Retry(r) ==
  /\ pc[r] = "swept" /\ ~cancelled /\ attempt[r] < Retries
  /\ attempt' = [attempt EXCEPT ![r] = @ + 1]
  /\ pc' = [pc EXCEPT ![r] = "backoff"]
  /\ UNCHANGED <<serves, next, cancelled, start, i, result, hits>>

BackoffEnds(r) ==
  /\ pc[r] = "backoff"
  /\ pc' = [pc EXCEPT ![r] = "sweep"]
  /\ UNCHANGED <<serves, next, cancelled, attempt, start, i, result, hits>>

BackoffCancelled(r) ==
  /\ pc[r] = "backoff" /\ cancelled
  /\ End(r, "cancelled")
  /\ UNCHANGED <<serves, next, cancelled, attempt, start, i, hits>>

\* The user's signal, or the errgroup of depot.Download after a failure.
Cancel ==
  /\ ~cancelled
  /\ cancelled' = TRUE
  /\ UNCHANGED <<serves, next, pc, attempt, start, i, result, hits>>

Request(r) ==
  \/ Sweep(r) \/ Ask(r)
  \/ BadStatus(r) \/ Broken(r) \/ BadRequest(r) \/ RightBody(r) \/ WrongBody(r)
  \/ GiveUp(r) \/ Retry(r) \/ BackoffEnds(r) \/ BackoffCancelled(r)

Next ==
  \/ Cancel
  \/ \E r \in Requests : Begin(r) \/ Request(r)

Spec == Init /\ [][Next]_vars

\* Goroutines are scheduled and timers fire.  A server that sends a byte now
\* and then keeps its request for ever, and is not one of the Kinds.
FairSpec == Spec /\ \A r \in Requests : WF_vars(Request(r))

----------------------------------------------------------------------------
\* Every variable holds a value of its kind.
TypeOK ==
  /\ serves \in [Servers -> Kinds]
  /\ next \in 0 .. WordSize - 1 /\ cancelled \in BOOLEAN
  /\ pc \in [Requests -> {"idle", "sweep", "connect", "asking", "swept",
                          "backoff", "done"}]
  /\ attempt \in [Requests -> 0 .. Retries]
  /\ start \in [Requests -> Servers] /\ i \in [Requests -> Servers]
  /\ result \in [Requests -> {"none", "ok", "permanent", "cancelled", "failed"}]
  /\ hits \in [Requests -> [Servers -> Nat]]

\* A request that gives up has asked every server once in every sweep, however
\* requests share the counter and wherever it wraps; only a server that sent a
\* wrong body spares those after it (servers.go:73-75, 80-81).
BudgetSpent ==
  \A r \in Requests :
    result[r] = "failed" /\ (\A s \in Servers : serves[s] # "corrupt") =>
      \A s \in Servers : hits[r][s] = Retries + 1

\* A permanent error ends the request that met it: it asks nobody after, in
\* this sweep or another (servers.go:124-125).
PermanentEnds ==
  \A r \in Requests, s \in Servers :
    serves[s] = "missing" /\ hits[r][s] > 0 =>
      /\ hits[r][s] = 1
      /\ \/ Server(r) = s /\ pc[r] = "asking"
         \/ Server(r) = s /\ pc[r] = "done" /\ result[r] \in {"permanent", "cancelled"}

\* Every request ends, whatever the servers do (servers.go:86-88).
RequestEnds == \A r \in Requests : (pc[r] # "idle") ~> (pc[r] = "done")
============================================================================
