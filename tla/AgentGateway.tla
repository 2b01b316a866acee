----------------------------- MODULE AgentGateway -----------------------------
(***************************************************************************)
(* llm_agent/gateway/gateway.py: every entry to the agent passes here.     *)
(* A request that has been answered is answered from a cache; the requests *)
(* of one session run one after another under the session's lock.  _guard  *)
(* is held for single steps only, and the answer is stored after the lock  *)
(* of the session has been released.                                       *)
(***************************************************************************)
EXTENDS Naturals, Sequences

CONSTANTS
  Callers,     \* threads that enter run(), each once: retries are callers too
  Requests,    \* request_id values
  RequestOf,   \* the request of each caller
  Sessions,
  SessionOf,   \* the session each caller names: a retry may name another one
  Nobody,
  CacheSize

ASSUME GatewayAssumption ==
  /\ RequestOf \in [Callers -> Requests] /\ SessionOf \in [Callers -> Sessions]
  /\ Nobody \notin Callers /\ CacheSize \in Nat

VARIABLES
  pc,         \* where each caller is
  holder,     \* holder of each session's lock
  responses,  \* the cache, least recently used first: request and who ran it
  reply       \* who ran the request whose response the caller returned

gatewayVars == <<pc, holder, responses, reply>>

Answers == [request : Requests, by : Callers]

TypeOK ==
  /\ pc \in [Callers -> {"idle", "locking", "checking", "running", "storing", "failed", "done"}]
  /\ holder \in [Sessions -> Callers \cup {Nobody}]
  /\ responses \in Seq(Answers)
  /\ reply \in [Callers -> Callers \cup {Nobody}]

Init ==
  /\ pc = [c \in Callers |-> "idle"]
  /\ holder = [s \in Sessions |-> Nobody]
  /\ responses = <<>>
  /\ reply = [c \in Callers |-> Nobody]

-----------------------------------------------------------------------------
\* Slips a revision could make; no action uses them.
Untrimmed(q)  == q
KeptLock(c)   == holder
NeverTaken(c) == TRUE

-----------------------------------------------------------------------------
(* The cache.                                                              *)

Cached(r)   == \E i \in DOMAIN responses : responses[i].request = r
PlaceOf(r)  == CHOOSE i \in DOMAIN responses : responses[i].request = r
AnswerTo(r) == responses[PlaceOf(r)]

Without(i)   == SubSeq(responses, 1, i - 1) \o SubSeq(responses, i + 1, Len(responses))
Others(r)    == IF Cached(r) THEN Without(PlaceOf(r)) ELSE responses
MoveToEnd(r) == Append(Others(r), AnswerTo(r))

\* Only the entries used last are kept.
Trimmed(q)  == IF Len(q) > CacheSize THEN SubSeq(q, Len(q) - CacheSize + 1, Len(q)) ELSE q

-----------------------------------------------------------------------------
(* run().                                                                  *)

Goes(c, from, to) == pc[c] = from /\ pc' = [pc EXCEPT ![c] = to]

Replies(c) ==
  /\ Cached(RequestOf[c])
  /\ responses' = MoveToEnd(RequestOf[c])
  /\ reply' = [reply EXCEPT ![c] = AnswerTo(RequestOf[c]).by]
  /\ pc' = [pc EXCEPT ![c] = "done"]

LockOf(c)   == SessionOf[c]
Free(c)     == holder[LockOf(c)] = Nobody
Released(c) == [holder EXCEPT ![LockOf(c)] = Nobody]

Enter(c) ==
  /\ pc[c] = "idle"
  /\ \/ Replies(c)
     \/ ~Cached(RequestOf[c]) /\ Goes(c, "idle", "locking") /\ UNCHANGED <<responses, reply>>
  /\ UNCHANGED holder

Acquire(c) ==
  /\ Goes(c, "locking", "checking")
  /\ Free(c)
  /\ holder' = [holder EXCEPT ![LockOf(c)] = c]
  /\ UNCHANGED <<responses, reply>>

\* The second look at the cache; the lock is released on the way out.
Check(c) ==
  /\ pc[c] = "checking"
  /\ \/ Replies(c) /\ holder' = Released(c)
     \/ /\ ~Cached(RequestOf[c]) /\ Goes(c, "checking", "running")
        /\ UNCHANGED <<holder, responses, reply>>

\* The runtime returns a response or raises.
RunEnds(c) ==
  /\ Goes(c, "running", "storing") \/ Goes(c, "running", "failed")
  /\ holder' = Released(c)
  /\ UNCHANGED <<responses, reply>>

Entry(c) == [request |-> RequestOf[c], by |-> c]

Store(c) ==
  /\ Goes(c, "storing", "done")
  /\ responses' = Trimmed(Append(Others(RequestOf[c]), Entry(c)))
  /\ reply' = [reply EXCEPT ![c] = c]
  /\ UNCHANGED holder

Step(c) == Enter(c) \/ Acquire(c) \/ Check(c) \/ RunEnds(c) \/ Store(c)
Next == \E c \in Callers : Step(c)
Spec == Init /\ [][Next]_gatewayVars
\* Threads are scheduled and the runtime returns; nobody has to call.
FairSpec == Spec /\ \A c \in Callers :
  WF_gatewayVars(pc[c] # "idle" /\ Step(c))

-----------------------------------------------------------------------------
(* Properties.                                                             *)

\* The requests of one session never run at the same time.
SessionsAreSerial ==
  \A c, d \in Callers :
    c # d /\ LockOf(c) = LockOf(d) => ~(pc[c] = "running" /\ pc[d] = "running")

\* The cache keeps one response for each request, within its size, and a caller
\* gets a response to its own request, run once by somebody at least.
CacheIsSound ==
  /\ Len(responses) <= CacheSize
  /\ \A i, j \in DOMAIN responses : responses[i].request = responses[j].request => i = j
  /\ \A c \in Callers : reply[c] # Nobody => RequestOf[reply[c]] = RequestOf[c]

\* A caller that waits for its session gets in and out again, whoever fails.
EveryCallReturns == \A c \in Callers : pc[c] = "locking" ~> pc[c] \in {"done", "failed"}

\* llm_agent/docs/architecture.md lines 110-111: a completed request is answered from
\* the cache, so that a client's retry causes no second action: nobody enters the
\* runtime for a request that the runtime has answered and nothing has evicted.
AnsweredIsNotRunAgain ==
  [][\A c \in Callers :
       pc[c] = "checking" /\ pc'[c] = "running" =>
         \A d \in Callers : RequestOf[d] = RequestOf[c] => pc[d] # "storing"]_gatewayVars

=============================================================================
