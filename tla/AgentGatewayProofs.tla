--------------------------- MODULE AgentGatewayProofs ---------------------------
(* For any callers, requests, sessions and cache sizes: the requests of one *)
(* session never run at the same time, and the cache stays sound.           *)
EXTENDS AgentGateway, TLAPS

HolderTypeOK ==
  /\ pc \in [Callers -> {"idle", "locking", "checking", "running", "storing", "failed", "done"}]
  /\ holder \in [Sessions -> Callers \cup {Nobody}]

\* Whoever is between the acquisition and the release holds the lock.
LockInv ==
  /\ HolderTypeOK
  /\ \A c \in Callers : pc[c] \in {"checking", "running"} => holder[LockOf(c)] = c

\* Every caller has a lock, that of the session it names.
LEMMA LockOfType == \A c \in Callers : LockOf(c) \in Sessions
  BY GatewayAssumption DEF LockOf

LEMMA LockInit == Init => LockInv
  BY DEF Init, LockInv, HolderTypeOK

\* No step takes a lock away from its holder.
LEMMA LockStep == LockInv /\ [Next]_gatewayVars => LockInv'
<1> SUFFICES ASSUME LockInv, [Next]_gatewayVars PROVE LockInv'
  OBVIOUS
<1> USE LockOfType
<1>1. ASSUME NEW c \in Callers, Enter(c) PROVE LockInv'
  BY <1>1 DEF LockInv, HolderTypeOK, Enter, Replies, Goes, LockOf
<1>2. ASSUME NEW c \in Callers, Acquire(c) PROVE LockInv'
  <2>1. /\ pc' = [pc EXCEPT ![c] = "checking"]
        /\ holder[LockOf(c)] = Nobody
        /\ holder' = [holder EXCEPT ![LockOf(c)] = c]
    BY <1>2 DEF Acquire, Goes, Free
  <2>2. HolderTypeOK'
    BY <2>1 DEF LockInv, HolderTypeOK
  <2>3. ASSUME NEW d \in Callers, pc'[d] \in {"checking", "running"}
        PROVE  holder'[LockOf(d)] = d
    BY <2>1, <2>3, GatewayAssumption DEF LockInv, HolderTypeOK
  <2>4. \A d \in Callers : LockOf(d)' = LockOf(d)
    BY DEF LockOf
  <2> QED
    BY <2>2, <2>3, <2>4 DEF LockInv
<1>3. ASSUME NEW c \in Callers, pc[c] \in {"checking", "running"},
             \/ /\ pc' = [pc EXCEPT ![c] = "done"] \/ pc' = [pc EXCEPT ![c] = "storing"]
                   \/ pc' = [pc EXCEPT ![c] = "failed"]
                /\ holder' = Released(c)
      PROVE  LockInv'
  <2>1. HolderTypeOK'
    BY <1>3 DEF LockInv, HolderTypeOK, Released
  <2>2. ASSUME NEW d \in Callers, pc'[d] \in {"checking", "running"}
        PROVE  holder'[LockOf(d)] = d
    <3>1. d # c /\ pc[d] = pc'[d]
      BY <1>3, <2>2 DEF LockInv, HolderTypeOK
    <3>2. holder[LockOf(d)] = d /\ holder[LockOf(c)] = c
      BY <1>3, <2>2, <3>1 DEF LockInv
    <3> QED
      BY <1>3, <3>1, <3>2 DEF Released, LockInv, HolderTypeOK
  <2>3. \A d \in Callers : LockOf(d)' = LockOf(d)
    BY DEF LockOf
  <2> QED
    BY <2>1, <2>2, <2>3 DEF LockInv
<1>4. ASSUME NEW c \in Callers, Check(c) PROVE LockInv'
  <2>1. CASE Replies(c) /\ holder' = Released(c)
    BY <1>3, <1>4, <2>1 DEF Check, Replies
  <2>2. CASE Goes(c, "checking", "running") /\ UNCHANGED holder
    BY <2>2 DEF Goes, LockInv, HolderTypeOK, LockOf
  <2> QED
    BY <1>4, <2>1, <2>2 DEF Check
<1>5. ASSUME NEW c \in Callers, RunEnds(c) PROVE LockInv'
  BY <1>3, <1>5 DEF RunEnds, Goes
<1>6. ASSUME NEW c \in Callers, Store(c) PROVE LockInv'
  BY <1>6 DEF Store, Goes, LockInv, HolderTypeOK, LockOf
<1>7. CASE UNCHANGED gatewayVars
  BY <1>7 DEF gatewayVars, LockInv, HolderTypeOK, LockOf
<1> QED
  BY <1>1, <1>2, <1>4, <1>5, <1>6, <1>7 DEF Next, Step

\* run() under the lock of the session, gateway.py line 39: two requests of one
\* session are never in the runtime at the same time.
THEOREM SessionsSerial == Spec => []SessionsAreSerial
<1>1. LockInv => SessionsAreSerial
  BY DEF LockInv, SessionsAreSerial
<1> QED
  BY <1>1, LockInit, LockStep, PTL DEF Spec
-----------------------------------------------------------------------------
(* The cache.  A response is moved or replaced by taking its request out of *)
(* the cache and putting it back at the end, where the room it left, or the *)
(* trimming, keeps the size; that a caller gets a response to its own       *)
(* request needs that every entry in the cache answers the request it is    *)
(* kept under, whoever ran it.                                              *)

\* One entry for each request, each with an answer to it.
Keyed(q)    == \A i, j \in DOMAIN q : q[i].request = q[j].request => i = j
Answered(q) == \A i \in DOMAIN q : RequestOf[q[i].by] = q[i].request
Sound(q)    == q \in Seq(Answers) /\ Keyed(q) /\ Answered(q)

CacheInv ==
  /\ TypeOK
  /\ Sound(responses)
  /\ Len(responses) <= CacheSize
  /\ \A c \in Callers : reply[c] # Nobody => RequestOf[reply[c]] = RequestOf[c]

\* Taking one entry out moves the later ones one place forward.
LEMMA WithoutEntries ==
  ASSUME responses \in Seq(Answers), NEW i \in DOMAIN responses
  PROVE  /\ Without(i) \in Seq(Answers)
         /\ Len(Without(i)) = Len(responses) - 1
         /\ \A j \in DOMAIN Without(i) :
              /\ IF j < i THEN j \in DOMAIN responses ELSE j + 1 \in DOMAIN responses
              /\ Without(i)[j] = responses[IF j < i THEN j ELSE j + 1]
<1> DEFINE front == SubSeq(responses, 1, i - 1)
           back  == SubSeq(responses, i + 1, Len(responses))
<1>1. i \in 1 .. Len(responses) /\ Len(responses) \in Nat
  OBVIOUS
<1>2. /\ front \in Seq(Answers) /\ Len(front) = i - 1
      /\ \A j \in 1 .. i - 1 : front[j] = responses[j]
  BY <1>1
<1>3. /\ back \in Seq(Answers) /\ Len(back) = Len(responses) - i
      /\ \A j \in 1 .. Len(responses) - i : back[j] = responses[i + j]
  BY <1>1
<1>4. Without(i) = front \o back
  BY DEF Without
<1> HIDE DEF front, back
<1>5. Without(i) \in Seq(Answers) /\ Len(Without(i)) = Len(responses) - 1
  BY <1>1, <1>2, <1>3, <1>4
<1>6. ASSUME NEW j \in DOMAIN Without(i)
      PROVE  /\ IF j < i THEN j \in DOMAIN responses ELSE j + 1 \in DOMAIN responses
             /\ Without(i)[j] = responses[IF j < i THEN j ELSE j + 1]
  <2>1. j \in 1 .. Len(responses) - 1
    BY <1>1, <1>5, <1>6
  <2>2. CASE j < i
    <3>1. Without(i)[j] = front[j] /\ j \in 1 .. i - 1
      BY <1>1, <1>2, <1>3, <1>4, <2>1, <2>2
    <3> QED
      BY <1>1, <1>2, <2>1, <2>2, <3>1
  <2>3. CASE ~(j < i)
    <3>1. Without(i)[j] = back[j - (i - 1)] /\ j - (i - 1) \in 1 .. Len(responses) - i
      BY <1>1, <1>2, <1>3, <1>4, <2>1, <2>3
    <3>2. back[j - (i - 1)] = responses[i + (j - (i - 1))]
      BY <1>3, <3>1
    <3>3. i + (j - (i - 1)) = j + 1
      BY <1>1, <2>1
    <3> QED
      BY <1>1, <2>1, <2>3, <3>1, <3>2, <3>3
  <2> QED
    BY <2>2, <2>3
<1> QED
  BY <1>5, <1>6

\* A cached request has a place, and its answer is that of a caller with it.
LEMMA AnswerOfPlace ==
  ASSUME Sound(responses), NEW r \in Requests, Cached(r)
  PROVE  /\ PlaceOf(r) \in DOMAIN responses /\ AnswerTo(r) \in Answers
         /\ AnswerTo(r).request = r /\ RequestOf[AnswerTo(r).by] = r
<1>1. PlaceOf(r) \in DOMAIN responses /\ responses[PlaceOf(r)].request = r
  BY DEF Cached, PlaceOf
<1> QED
  BY <1>1 DEF Sound, Answered, AnswerTo

\* Without a request the cache is as sound as before and has room for it.
LEMMA OthersSound ==
  ASSUME Sound(responses), NEW r \in Requests
  PROVE  /\ Sound(Others(r))
         /\ \A i \in DOMAIN Others(r) : Others(r)[i].request # r
         /\ Len(Others(r)) = IF Cached(r) THEN Len(responses) - 1 ELSE Len(responses)
<1>1. CASE ~Cached(r)
  BY <1>1 DEF Others, Cached
<1>2. CASE Cached(r)
  <2> DEFINE p == PlaceOf(r)
             At(j) == IF j < p THEN j ELSE j + 1
  <2>1. p \in DOMAIN responses /\ responses[p].request = r
    BY <1>2 DEF Cached, PlaceOf
  <2>2. Others(r) = Without(p)
    BY <1>2 DEF Others
  <2> HIDE DEF p
  <2>3. responses \in Seq(Answers) /\ Keyed(responses) /\ Answered(responses)
    BY DEF Sound
  <2>4. /\ Without(p) \in Seq(Answers)
        /\ Len(Without(p)) = Len(responses) - 1
        /\ \A j \in DOMAIN Without(p) :
             At(j) \in DOMAIN responses /\ Without(p)[j] = responses[At(j)]
    BY <2>1, <2>3, WithoutEntries
  <2>5. \A j \in DOMAIN Without(p) : j \in Nat /\ At(j) # p /\ p \in Nat
    BY <2>1, <2>3, <2>4
  <2>6. \A j, k \in DOMAIN Without(p) : At(j) = At(k) => j = k
    BY <2>5
  <2> HIDE DEF At
  <2>7. \A j \in DOMAIN Without(p) : Without(p)[j].request # r
    BY <2>1, <2>3, <2>4, <2>5 DEF Keyed
  <2>8. Keyed(Without(p)) /\ Answered(Without(p))
    BY <2>3, <2>4, <2>6 DEF Keyed, Answered
  <2> QED
    BY <1>2, <2>2, <2>4, <2>7, <2>8 DEF Sound
<1> QED
  BY <1>1, <1>2

\* A new entry at the end, under a request the others do not have.
LEMMA AppendSound ==
  ASSUME NEW q, Sound(q), NEW a \in Answers, RequestOf[a.by] = a.request,
         \A i \in DOMAIN q : q[i].request # a.request
  PROVE  Sound(Append(q, a)) /\ Len(Append(q, a)) = Len(q) + 1
<1>1. q \in Seq(Answers) /\ Keyed(q) /\ Answered(q)
  BY DEF Sound
<1>2. /\ Append(q, a) \in Seq(Answers) /\ Len(Append(q, a)) = Len(q) + 1
      /\ DOMAIN Append(q, a) = 1 .. Len(q) + 1 /\ Len(q) \in Nat /\ DOMAIN q = 1 .. Len(q)
      /\ \A i \in DOMAIN q : Append(q, a)[i] = q[i]
      /\ Append(q, a)[Len(q) + 1] = a
  BY <1>1
<1>3. \A i \in DOMAIN Append(q, a) : i \in DOMAIN q \/ i = Len(q) + 1
  BY <1>2
<1>4. Keyed(Append(q, a))
  BY <1>1, <1>2, <1>3 DEF Keyed
<1>5. Answered(Append(q, a))
  BY <1>1, <1>2, <1>3 DEF Answered
<1> QED
  BY <1>2, <1>4, <1>5 DEF Sound

\* The entries used last are as sound as all of them and fit the size.
LEMMA TrimmedSound ==
  ASSUME NEW q, Sound(q)
  PROVE  Sound(Trimmed(q)) /\ Len(Trimmed(q)) <= CacheSize
<1>1. q \in Seq(Answers) /\ Keyed(q) /\ Answered(q) /\ Len(q) \in Nat /\ CacheSize \in Nat
  BY GatewayAssumption DEF Sound
<1>2. CASE Len(q) > CacheSize
  <2> DEFINE d == Len(q) - CacheSize
  <2>1. Trimmed(q) = SubSeq(q, d + 1, Len(q)) /\ d \in 1 .. Len(q)
    BY <1>1, <1>2 DEF Trimmed
  <2> HIDE DEF d
  <2>2. /\ Trimmed(q) \in Seq(Answers) /\ Len(Trimmed(q)) = Len(q) - d
        /\ \A i \in DOMAIN Trimmed(q) :
             i \in Nat /\ d + i \in DOMAIN q /\ Trimmed(q)[i] = q[d + i]
    BY <1>1, <2>1
  <2>3. Len(Trimmed(q)) = CacheSize
    BY <1>1, <2>2 DEF d
  <2>4. \A i, j \in DOMAIN Trimmed(q) : d + i = d + j => i = j
    BY <2>1, <2>2
  <2>5. Keyed(Trimmed(q)) /\ Answered(Trimmed(q))
    BY <1>1, <2>2, <2>4 DEF Keyed, Answered
  <2> QED
    BY <1>1, <2>2, <2>3, <2>5 DEF Sound
<1>3. CASE ~(Len(q) > CacheSize)
  BY <1>1, <1>3 DEF Trimmed
<1> QED
  BY <1>2, <1>3

LEMMA CacheInit == Init => CacheInv
<1> SUFFICES ASSUME Init PROVE CacheInv
  OBVIOUS
<1>1. responses = <<>> /\ <<>> \in Seq(Answers) /\ DOMAIN responses = {} /\ Len(responses) = 0
  BY DEF Init
<1>2. TypeOK
  BY <1>1, GatewayAssumption DEF Init, TypeOK
<1> QED
  BY <1>1, <1>2, GatewayAssumption DEF Init, CacheInv, Sound, Keyed, Answered
\* An answer from the cache: the entry goes to the end, the caller gets it.
LEMMA RepliesKeep ==
  ASSUME CacheInv, NEW c \in Callers, Replies(c),
         holder' \in [Sessions -> Callers \cup {Nobody}]
  PROVE  CacheInv'
<1> DEFINE r == RequestOf[c]
           a == AnswerTo(r)
<1>1. r \in Requests /\ Cached(r) /\ Sound(responses) /\ TypeOK
  BY GatewayAssumption DEF Replies, CacheInv
<1>2. a \in Answers /\ a.request = r /\ RequestOf[a.by] = r /\ a.by \in Callers
  BY <1>1, AnswerOfPlace DEF Answers
<1>3. /\ responses' = Append(Others(r), a)
      /\ reply' = [reply EXCEPT ![c] = a.by]
      /\ pc' = [pc EXCEPT ![c] = "done"]
  BY DEF Replies, MoveToEnd
<1> HIDE DEF a
<1>4. /\ Sound(Others(r)) /\ Len(Others(r)) = Len(responses) - 1
      /\ \A i \in DOMAIN Others(r) : Others(r)[i].request # a.request
  BY <1>1, <1>2, OthersSound
<1>5. Sound(responses') /\ Len(responses') = Len(Others(r)) + 1
  BY <1>2, <1>3, <1>4, AppendSound
<1>6. Len(responses') <= CacheSize
  <2>1. Len(responses) \in Nat /\ Len(responses) <= CacheSize
    BY DEF CacheInv, Sound
  <2>2. Len(responses') = Len(responses)
    BY <1>4, <1>5, <2>1
  <2> QED
    BY <2>1, <2>2
<1>7. TypeOK'
  BY <1>1, <1>2, <1>3, <1>5 DEF TypeOK, Sound
<1>8. \A d \in Callers : reply'[d] # Nobody => RequestOf[reply'[d]] = RequestOf[d]
  BY <1>1, <1>2, <1>3 DEF CacheInv, TypeOK
<1> QED
  BY <1>5, <1>6, <1>7, <1>8 DEF CacheInv, Sound, Keyed, Answered

\* A step that looks at the cache or leaves it alone.
LEMMA RestKeeps ==
  ASSUME CacheInv, UNCHANGED <<responses, reply>>,
         pc' \in [Callers -> {"idle", "locking", "checking", "running", "storing", "failed", "done"}],
         holder' \in [Sessions -> Callers \cup {Nobody}]
  PROVE  CacheInv'
BY DEF CacheInv, TypeOK, Sound, Keyed, Answered

LEMMA StoreKeeps ==
  ASSUME CacheInv, NEW c \in Callers, Store(c)
  PROVE  CacheInv'
<1> DEFINE r == RequestOf[c]
           q == Append(Others(r), Entry(c))
<1>1. r \in Requests /\ Sound(responses) /\ TypeOK
  BY GatewayAssumption DEF CacheInv
<1>2. Entry(c) \in Answers /\ Entry(c).request = r /\ RequestOf[Entry(c).by] = r
  BY <1>1 DEF Entry, Answers
<1>3. Sound(Others(r)) /\ \A i \in DOMAIN Others(r) : Others(r)[i].request # Entry(c).request
  BY <1>1, <1>2, OthersSound
<1>4. Sound(q)
  BY <1>2, <1>3, AppendSound
<1>5. responses' = Trimmed(q)
  BY DEF Store
<1>6. /\ reply' = [reply EXCEPT ![c] = c] /\ pc' = [pc EXCEPT ![c] = "done"]
      /\ holder' = holder
  BY DEF Store, Goes
<1> HIDE DEF q
<1>7. Sound(responses') /\ Len(responses') <= CacheSize
  BY <1>4, <1>5, TrimmedSound
<1>8. TypeOK'
  BY <1>1, <1>6, <1>7 DEF TypeOK, Sound
<1>9. \A d \in Callers : reply'[d] # Nobody => RequestOf[reply'[d]] = RequestOf[d]
  BY <1>1, <1>6 DEF CacheInv, TypeOK
<1> QED
  BY <1>7, <1>8, <1>9 DEF CacheInv, Sound, Keyed, Answered

LEMMA CacheStep == CacheInv /\ [Next]_gatewayVars => CacheInv'
<1> SUFFICES ASSUME CacheInv, [Next]_gatewayVars PROVE CacheInv'
  OBVIOUS
<1> USE LockOfType
<1>1. TypeOK
  BY DEF CacheInv
<1>2. ASSUME NEW c \in Callers, Enter(c) PROVE CacheInv'
  <2>1. holder' \in [Sessions -> Callers \cup {Nobody}]
    BY <1>1, <1>2 DEF Enter, TypeOK
  <2>2. CASE Replies(c)
    BY <2>1, <2>2, RepliesKeep
  <2>3. CASE Goes(c, "idle", "locking") /\ UNCHANGED <<responses, reply>>
    BY <1>1, <2>1, <2>3, RestKeeps DEF Goes, TypeOK
  <2> QED
    BY <1>2, <2>2, <2>3 DEF Enter
<1>3. ASSUME NEW c \in Callers, Acquire(c) PROVE CacheInv'
  BY <1>1, <1>3, RestKeeps DEF Acquire, Goes, TypeOK
<1>4. ASSUME NEW c \in Callers, Check(c) PROVE CacheInv'
  <2>1. CASE Replies(c) /\ holder' = Released(c)
    BY <1>1, <2>1, RepliesKeep DEF Released, TypeOK
  <2>2. CASE Goes(c, "checking", "running") /\ UNCHANGED <<holder, responses, reply>>
    BY <1>1, <2>2, RestKeeps DEF Goes, TypeOK
  <2> QED
    BY <1>4, <2>1, <2>2 DEF Check
<1>5. ASSUME NEW c \in Callers, RunEnds(c) PROVE CacheInv'
  BY <1>1, <1>5, RestKeeps DEF RunEnds, Goes, Released, TypeOK
<1>6. ASSUME NEW c \in Callers, Store(c) PROVE CacheInv'
  BY <1>6, StoreKeeps
<1>7. CASE UNCHANGED gatewayVars
  BY <1>1, <1>7, RestKeeps DEF gatewayVars, TypeOK
<1> QED
  BY <1>2, <1>3, <1>4, <1>5, <1>6, <1>7 DEF Next, Step

\* Every variable stays in its type.
THEOREM GatewayTypeCorrect == Spec => []TypeOK
<1>1. CacheInv => TypeOK
  BY DEF CacheInv
<1> QED
  BY <1>1, CacheInit, CacheStep, PTL DEF Spec

\* The responses kept by run(), gateway.py lines 32-55: however callers
\* interleave between the lock of a session and the store after it, the cache
\* keeps one response for each request within its size, and no caller returns
\* the response of another request.
THEOREM CacheCorrect == Spec => []CacheIsSound
<1>1. CacheInv => CacheIsSound
  BY DEF CacheInv, CacheIsSound, Sound, Keyed
<1> QED
  BY <1>1, CacheInit, CacheStep, PTL DEF Spec
=============================================================================
