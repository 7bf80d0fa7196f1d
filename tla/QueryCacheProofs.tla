-------------------------- MODULE QueryCacheProofs --------------------------
(* Proofs about the response cache, for every set of documents, keys,       *)
(* requests and sweepers, whichever backend, with failures and restarts.    *)
EXTENDS QueryCache, TLAPS

CacheOK == /\ cache \in [Keys -> Entry]
           /\ backend = "redis" => \A k \in Keys : cache[k].left = 0 => cache[k] = Empty

ReqOK == req \in [Requests -> Request]

SweepOK == /\ sweep \in [Sweepers -> Sweep]
           /\ \A s \in Sweepers : sweep[s].pc = "idle" => sweep[s] = Rested

PlainOK == /\ backend \in Backends
           /\ docs \in [Docs -> {"absent", "stored", "deleted"}]
           /\ reply \in [Requests -> {"none", "answer", "TypeError"}]
           /\ unswept \subseteq Docs

\* TypeOK in the parts that the proofs treat one at a time.
LEMMA TypeParts == TypeOK <=> CacheOK /\ ReqOK /\ SweepOK /\ PlainOK
  BY DEF TypeOK, CacheOK, ReqOK, SweepOK, PlainOK

\* What the assumption says of the time to live.
LEMMA TTLIsPositive == TTL \in Nat /\ TTL > 0
  BY QueryCacheAssumption

\* The empty entry has the type of an entry.
LEMMA EmptyIsEntry == Empty \in Entry
  BY TTLIsPositive DEF Empty, Entry

\* A request keeps its shape: every handler of a query writes one record.
LEMMA RequestTypes ==
    ASSUME TypeOK, [Next]_vars
    PROVE  ReqOK'
<1>0. ReqOK /\ PlainOK
  BY TypeParts
<1>1. ASSUME NEW r \in Requests, NEW q \in Request, req' = [req EXCEPT ![r] = q]
      PROVE  ReqOK'
  BY <1>0, <1>1 DEF ReqOK
<1>2. ASSUME NEW r \in Requests PROVE Idle(r) \in Request
  BY <1>0 DEF ReqOK, Request, Idle
<1>3. ASSUME UNCHANGED req PROVE ReqOK'
  BY <1>0, <1>3 DEF ReqOK
<1>4. ASSUME NEW r \in Requests, NEW k \in Keys, LookupMiss(r, k) PROVE ReqOK'
  <2>1. [pc |-> "working", key |-> k, cites |-> {}, overtaken |-> FALSE] \in Request
    BY DEF Request
  <2>2. QED BY <1>1, <1>4, <2>1 DEF LookupMiss
<1>5. ASSUME NEW r \in Requests, Retrieve(r) PROVE ReqOK'
  <2>1. PICK found \in SUBSET Stored, next \in {"working", "generated"} :
             req' = [req EXCEPT ![r] = [pc |-> next, key |-> req[r].key,
                                        cites |-> req[r].cites \cup found,
                                        overtaken |-> req[r].overtaken]]
    BY <1>5 DEF Retrieve
  <2>2. [pc |-> next, key |-> req[r].key, cites |-> req[r].cites \cup found,
         overtaken |-> req[r].overtaken] \in Request
    BY <1>0, <2>1 DEF ReqOK, Request, Stored
  <2>3. QED BY <1>1, <2>1, <2>2
<1>6. ASSUME NEW r \in Requests, StoreAnswer(r) \/ AnswerUncached(r) \/ PipelineRaises(r)
      PROVE  ReqOK'
  BY <1>1, <1>2, <1>6 DEF StoreAnswer, AnswerUncached, PipelineRaises
<1>7. ASSUME NEW s \in Sweepers, DeleteDocuments(s) PROVE ReqOK'
  <2>1. PICK gone : req' = [r \in Requests |->
                [req[r] EXCEPT !.overtaken = @ \/ req[r].cites \cap gone # {}]]
    BY <1>7 DEF DeleteDocuments
  <2>2. ASSUME NEW q \in Request, NEW b \in BOOLEAN
        PROVE  [q EXCEPT !.overtaken = b] \in Request
    BY DEF Request
  <2>3. ASSUME NEW r \in Requests
        PROVE  (req[r].overtaken \/ req[r].cites \cap gone # {}) \in BOOLEAN
    BY <1>0 DEF ReqOK, Request
  <2>4. QED BY <1>0, <2>1, <2>2, <2>3 DEF ReqOK
<1>8. CASE Restart
  BY <1>2, <1>8 DEF Restart, ReqOK
<1>9. QED
  BY <1>3, <1>4, <1>5, <1>6, <1>7, <1>8
     DEF Next, Ask, Invalidate, LookupHit, InvalidateEndpoint, SweepMemory, SweepStart,
         SweepBatch, SweepEnd, SweepRaises, Ingest, Elapse, vars

\* An entry keeps its shape, and one without time left is the empty one.
LEMMA CacheTypes ==
    ASSUME TypeOK, [Next]_vars
    PROVE  CacheOK'
<1>0. CacheOK /\ ReqOK
  BY TypeParts
<1> backend' = backend
  BY DEF Next, Ask, Invalidate, LookupHit, LookupMiss, Retrieve, StoreAnswer, AnswerUncached,
         PipelineRaises, DeleteDocuments, InvalidateEndpoint, SweepMemory, SweepStart,
         SweepBatch, SweepEnd, SweepRaises, Ingest, Restart, Elapse, vars
<1>1. ASSUME UNCHANGED cache PROVE CacheOK'
  BY <1>0, <1>1 DEF CacheOK
<1>2. ASSUME \A k \in Keys : cache'[k] \in {cache[k], Empty},
             DOMAIN cache' = Keys, cache' = [k \in Keys |-> cache'[k]]
      PROVE  CacheOK'
  BY <1>0, <1>2, EmptyIsEntry DEF CacheOK
<1>3. ASSUME NEW r \in Requests, StoreAnswer(r) PROVE CacheOK'
  <2> DEFINE e == [cites |-> req[r].cites, left |-> TTL, overtaken |-> req[r].overtaken]
  <2>1. e \in Entry /\ e.left # 0
    BY <1>0, TTLIsPositive DEF Entry, ReqOK, Request
  <2>2. cache' = [cache EXCEPT ![req[r].key] = e]
    BY <1>3 DEF StoreAnswer
  <2> HIDE DEF e
  <2>3. QED BY <1>0, <2>1, <2>2 DEF CacheOK
<1>4. CASE Elapse
  <2>1. ASSUME NEW k \in Keys
        PROVE  /\ Aged(k) \in Entry
               /\ backend = "redis" => (Aged(k).left = 0 => Aged(k) = Empty)
    <3> DEFINE older == [cache[k] EXCEPT !.left = IF Present(k) THEN @ - 1 ELSE 0]
    <3>1. older \in Entry
      BY <1>0, TTLIsPositive DEF CacheOK, Entry, Present
    <3>2. Aged(k) = IF backend = "redis" /\ older.left = 0 THEN Empty ELSE older
      BY DEF Aged
    <3> HIDE DEF older
    <3> QED BY <3>1, <3>2, EmptyIsEntry
  <2>2. cache' = [k \in Keys |-> Aged(k)]
    BY <1>4 DEF Elapse
  <2>3. QED BY <2>1, <2>2 DEF CacheOK
<1>5. ASSUME NEW s \in Sweepers, SweepMemory(s) PROVE CacheOK'
  BY <1>2, <1>5 DEF SweepMemory
<1>6. ASSUME NEW s \in Sweepers, SweepBatch(s) PROVE CacheOK'
  <2>1. PICK batch : cache' = [k \in Keys |-> IF k \in batch THEN Empty ELSE cache[k]]
    BY <1>6 DEF SweepBatch
  <2>2. QED BY <1>2, <2>1
<1>7. CASE Restart
  <2>1. cache' = cache \/ cache' = [k \in Keys |-> Empty]
    BY <1>7 DEF Restart
  <2>2. QED BY <1>1, <1>2, <2>1
<1>8. ASSUME NEW r \in Requests, NEW k \in Keys, LookupMiss(r, k) PROVE CacheOK'
  <2>1. cache' = cache \/ cache' = [cache EXCEPT ![k] = Empty]
    BY <1>8 DEF LookupMiss
  <2>2. QED BY <1>0, <1>1, <2>1, EmptyIsEntry DEF CacheOK
<1>9. QED
  BY <1>1, <1>3, <1>4, <1>5, <1>6, <1>7, <1>8
     DEF Next, Ask, Invalidate, LookupHit, Retrieve, AnswerUncached,
         PipelineRaises, DeleteDocuments, InvalidateEndpoint, SweepStart, SweepEnd,
         SweepRaises, Ingest, vars

\* A delete request keeps its shape, and an idle one has nothing to sweep.
LEMMA SweepTypes ==
    ASSUME TypeOK, [Next]_vars
    PROVE  SweepOK'
<1>0. SweepOK /\ CacheOK
  BY TypeParts
<1>1. ASSUME NEW s \in Sweepers, NEW w \in Sweep, w.pc = "idle" => w = Rested,
             sweep' = [sweep EXCEPT ![s] = w]
      PROVE  SweepOK'
  BY <1>0, <1>1 DEF SweepOK
<1>2. Rested \in Sweep
  BY DEF Rested, Sweep
<1>3. ASSUME UNCHANGED sweep PROVE SweepOK'
  BY <1>0, <1>3 DEF SweepOK
<1>4. ASSUME NEW s \in Sweepers, DeleteDocuments(s) PROVE SweepOK'
  <2>1. PICK gone \in {Stored} \cup {{d} \cap Stored : d \in Docs} :
             sweep' = [sweep EXCEPT ![s] = [pc |-> "deleted", docs |-> gone, left |-> {}]]
    BY <1>4 DEF DeleteDocuments
  <2>2. [pc |-> "deleted", docs |-> gone, left |-> {}] \in Sweep
    BY <2>1 DEF Sweep, Stored
  <2>3. QED BY <1>1, <2>1, <2>2
<1>5. ASSUME NEW s \in Sweepers, InvalidateEndpoint(s) PROVE SweepOK'
  <2>1. [pc |-> "deleted", docs |-> {}, left |-> {}] \in Sweep
    BY DEF Sweep
  <2>2. QED BY <1>1, <1>5, <2>1 DEF InvalidateEndpoint
<1>6. ASSUME NEW s \in Sweepers, SweepStart(s) PROVE SweepOK'
  <2>1. [pc |-> "sweeping", docs |-> sweep[s].docs, left |-> {k \in Keys : Present(k)}]
           \in Sweep
    BY <1>0 DEF Sweep, SweepOK
  <2>2. QED BY <1>1, <1>6, <2>1 DEF SweepStart
<1>7. ASSUME NEW s \in Sweepers, SweepBatch(s) PROVE SweepOK'
  <2>1. PICK batch : sweep' = [sweep EXCEPT ![s].left = @ \ batch]
    BY <1>7 DEF SweepBatch
  <2>2. [sweep[s] EXCEPT !.left = @ \ batch] \in Sweep
    BY <1>0 DEF Sweep, SweepOK
  <2>3. [sweep[s] EXCEPT !.left = @ \ batch].pc = "sweeping"
    BY <1>0, <1>7 DEF SweepBatch, SweepOK, Sweep
  <2>4. QED BY <1>1, <2>1, <2>2, <2>3
<1>8. ASSUME NEW s \in Sweepers, SweepMemory(s) \/ SweepEnd(s) \/ SweepRaises(s)
      PROVE  SweepOK'
  BY <1>1, <1>2, <1>8 DEF SweepMemory, SweepEnd, SweepRaises
<1>9. CASE Restart
  BY <1>2, <1>9 DEF Restart, SweepOK
<1>10. QED
  BY <1>3, <1>4, <1>5, <1>6, <1>7, <1>8, <1>9
     DEF Next, Ask, Invalidate, LookupHit, LookupMiss, Retrieve, StoreAnswer,
         AnswerUncached, PipelineRaises, Ingest, Elapse, vars

\* Backend, documents, replies and the history stay in their ranges.
LEMMA PlainTypes ==
    ASSUME TypeOK, [Next]_vars
    PROVE  PlainOK'
<1>0. PlainOK /\ SweepOK
  BY TypeParts
<1>1. ASSUME UNCHANGED <<backend, docs, reply, unswept>> PROVE PlainOK'
  BY <1>0, <1>1 DEF PlainOK
<1>2. ASSUME NEW r \in Requests, NEW k \in Keys, LookupHit(r, k) \/ LookupMiss(r, k)
      PROVE  PlainOK'
  BY <1>0, <1>2 DEF PlainOK, LookupHit, LookupMiss
<1>3. ASSUME NEW r \in Requests, StoreAnswer(r) \/ AnswerUncached(r) PROVE PlainOK'
  BY <1>0, <1>3 DEF PlainOK, StoreAnswer, AnswerUncached
<1>4. ASSUME NEW d \in Docs, Ingest(d) PROVE PlainOK'
  BY <1>0, <1>4 DEF PlainOK, Ingest
<1>5. ASSUME NEW s \in Sweepers, DeleteDocuments(s) PROVE PlainOK'
  <2>1. PICK gone : docs' = [d \in Docs |-> IF d \in gone THEN "deleted" ELSE docs[d]]
    BY <1>5 DEF DeleteDocuments
  <2>2. docs' \in [Docs -> {"absent", "stored", "deleted"}]
    BY <1>0, <2>1 DEF PlainOK
  <2>3. UNCHANGED <<backend, reply, unswept>>
    BY <1>5 DEF DeleteDocuments
  <2>4. QED BY <1>0, <2>2, <2>3 DEF PlainOK
<1>6. ASSUME NEW s \in Sweepers, SweepRaises(s) PROVE PlainOK'
  <2>1. sweep[s].docs \subseteq Docs
    BY <1>0 DEF SweepOK, Sweep
  <2>2. QED BY <1>0, <1>6, <2>1 DEF PlainOK, SweepRaises
<1>7. CASE Restart
  <2>1. \A s \in Sweepers : sweep[s].docs \subseteq Docs
    BY <1>0 DEF SweepOK, Sweep
  <2>2. QED BY <1>0, <1>7, <2>1 DEF PlainOK, Restart
<1>8. QED
  BY <1>1, <1>2, <1>3, <1>4, <1>5, <1>6, <1>7
     DEF Next, Ask, Invalidate, Retrieve, PipelineRaises, InvalidateEndpoint,
         SweepMemory, SweepStart, SweepBatch, SweepEnd, Elapse, vars

\* Every variable of the cache and its endpoints stays in its range.
THEOREM TypeCorrect == Spec => []TypeOK
<1>1. Init => TypeOK
  <2> SUFFICES ASSUME Init PROVE TypeOK
    OBVIOUS
  <2>1. CacheOK
    BY EmptyIsEntry DEF Init, CacheOK
  <2>2. ReqOK
    <3> DEFINE Fresh == {[pc |-> "idle", key |-> k, cites |-> {},
                          overtaken |-> FALSE] : k \in Keys}
    <3>0. ASSUME NEW k \in Keys
          PROVE  [pc |-> "idle", key |-> k, cites |-> {}, overtaken |-> FALSE] \in Request
      BY DEF Request
    <3>1. Fresh \subseteq Request
      BY <3>0
    <3>2. req \in [Requests -> Fresh]
      BY DEF Init
    <3> HIDE DEF Fresh
    <3>3. QED BY <3>1, <3>2 DEF ReqOK
  <2>3. SweepOK
    BY DEF Init, SweepOK, Sweep, Rested
  <2>4. PlainOK
    BY DEF Init, PlainOK
  <2>5. QED BY <2>1, <2>2, <2>3, <2>4, TypeParts
<1>2. TypeOK /\ [Next]_vars => TypeOK'
  <2> SUFFICES ASSUME TypeOK, [Next]_vars PROVE TypeOK'
    OBVIOUS
  <2>1. CacheOK' /\ ReqOK' /\ SweepOK' /\ PlainOK'
    BY CacheTypes, RequestTypes, SweepTypes, PlainTypes
  <2>2. QED BY <2>1 DEF TypeOK, CacheOK, ReqOK, SweepOK, PlainOK
<1>3. QED BY <1>1, <1>2, PTL DEF Spec

-----------------------------------------------------------------------------
(* Stale entries.                                                           *)

Behind == \A k \in Keys, d \in Docs :
             Tainted(k, d) => \E s \in Sweepers :
                                /\ d \in sweep[s].docs
                                /\ sweep[s].pc = "deleted" \/ k \in sweep[s].left

Marked == \A r \in Requests : \A d \in req[r].cites : Deleted(d) => req[r].overtaken

\* The inductive invariant, split into its part on entries and its part on requests.
LEMMA SweepAheadParts == SweepAhead <=> Behind /\ Marked
  BY DEF SweepAhead, Behind, Marked

\* A request that cites a deleted document stays marked as overtaken.
LEMMA MarkedStep ==
    ASSUME TypeOK, Marked, [Next]_vars
    PROVE  Marked'
<1>0. ReqOK /\ PlainOK
  BY TypeParts
<1>1. ASSUME UNCHANGED <<docs, req>> PROVE Marked'
  BY <1>1 DEF Marked, Deleted
<1>2. ASSUME NEW r \in Requests, UNCHANGED docs,
             req' = [req EXCEPT ![r] = req'[r]],
             \A d \in req'[r].cites : Deleted(d) => req'[r].overtaken
      PROVE  Marked'
  BY <1>0, <1>2 DEF Marked, Deleted, ReqOK
<1>3. ASSUME NEW r \in Requests PROVE Idle(r).cites = {}
  BY DEF Idle
<1>4. ASSUME NEW r \in Requests, NEW k \in Keys, LookupMiss(r, k) PROVE Marked'
  <2>1. req'[r].cites = {} /\ UNCHANGED docs /\ req' = [req EXCEPT ![r] = req'[r]]
    BY <1>0, <1>4 DEF LookupMiss, ReqOK
  <2>2. QED BY <1>2, <2>1
<1>5. ASSUME NEW r \in Requests, Retrieve(r) PROVE Marked'
  <2>1. PICK found \in SUBSET Stored, next \in {"working", "generated"} :
             req' = [req EXCEPT ![r] = [pc |-> next, key |-> req[r].key,
                                        cites |-> req[r].cites \cup found,
                                        overtaken |-> req[r].overtaken]]
    BY <1>5 DEF Retrieve
  <2>2. /\ req'[r].cites = req[r].cites \cup found
        /\ req'[r].overtaken = req[r].overtaken
        /\ req' = [req EXCEPT ![r] = req'[r]]
    BY <1>0, <2>1 DEF ReqOK
  <2>3. \A d \in found : ~Deleted(d)
    BY <2>1 DEF Stored, Deleted
  <2>4. UNCHANGED docs
    BY <1>5 DEF Retrieve
  <2>5. \A d \in req'[r].cites : Deleted(d) => req'[r].overtaken
    BY <2>2, <2>3 DEF Marked
  <2>6. QED BY <1>2, <2>2, <2>4, <2>5
<1>6. ASSUME NEW r \in Requests, StoreAnswer(r) \/ AnswerUncached(r) \/ PipelineRaises(r)
      PROVE  Marked'
  <2>1. req' = [req EXCEPT ![r] = Idle(r)] /\ UNCHANGED docs
    BY <1>6 DEF StoreAnswer, AnswerUncached, PipelineRaises
  <2>2. req'[r] = Idle(r)
    BY <1>0, <2>1 DEF ReqOK
  <2>3. QED BY <1>2, <1>3, <2>1, <2>2
<1>7. ASSUME NEW s \in Sweepers, DeleteDocuments(s) PROVE Marked'
  <2>1. PICK gone : /\ docs' = [d \in Docs |-> IF d \in gone THEN "deleted" ELSE docs[d]]
                    /\ req' = [r \in Requests |->
                         [req[r] EXCEPT !.overtaken = @ \/ req[r].cites \cap gone # {}]]
    BY <1>7 DEF DeleteDocuments
  <2>2. SUFFICES ASSUME NEW r \in Requests, NEW d \in req'[r].cites, Deleted(d)'
                 PROVE  req'[r].overtaken
    BY DEF Marked
  <2> DEFINE b == (req[r].overtaken \/ req[r].cites \cap gone # {})
  <2>3. req'[r] = [req[r] EXCEPT !.overtaken = b]
    BY <2>1
  <2> HIDE DEF b
  <2>4. req'[r].cites = req[r].cites /\ req'[r].overtaken = b
    BY <1>0, <2>3 DEF ReqOK, Request
  <2>5. d \in Docs /\ d \in req[r].cites
    BY <1>0, <2>4 DEF ReqOK, Request
  <2>6. d \in gone \/ Deleted(d)
    BY <2>1, <2>2, <2>5 DEF Deleted
  <2>7. b
    BY <2>5, <2>6 DEF Marked, b
  <2>8. QED BY <2>4, <2>7
<1>8. ASSUME NEW d \in Docs, Ingest(d) PROVE Marked'
  BY <1>0, <1>8 DEF Ingest, Marked, Deleted, PlainOK
<1>9. CASE Restart
  BY <1>3, <1>9 DEF Restart, Marked
<1>10. QED
  BY <1>1, <1>4, <1>5, <1>6, <1>7, <1>8, <1>9
     DEF Next, Ask, Invalidate, LookupHit, InvalidateEndpoint, SweepMemory, SweepStart,
         SweepBatch, SweepEnd, SweepRaises, Elapse, vars

Covers(s, k, d) == /\ d \in sweep[s].docs
                   /\ sweep[s].pc = "deleted" \/ k \in sweep[s].left

\* Whoever removes a tainted entry from a sweep's obligations removes it from
\* the cache too, and whoever taints an entry is a sweep that starts.
LEMMA BehindStep ==
    ASSUME TypeOK, Behind, Marked, [Next]_vars
    PROVE  Behind'
<1>0. CacheOK /\ ReqOK /\ SweepOK /\ PlainOK
  BY TypeParts
<1> SUFFICES ASSUME NEW k \in Keys, NEW d \in Docs, Tainted(k, d)'
             PROVE  \E s \in Sweepers : Covers(s, k, d)'
  BY DEF Behind, Covers
<1>1. ASSUME Tainted(k, d) PROVE \E s \in Sweepers : Covers(s, k, d)
  BY <1>1 DEF Behind, Covers
<1>2. ASSUME Tainted(k, d), UNCHANGED sweep PROVE \E s \in Sweepers : Covers(s, k, d)'
  BY <1>1, <1>2 DEF Covers
<1>3. ASSUME UNCHANGED <<docs, unswept>>,
             cache'[k].cites = cache[k].cites,
             cache'[k].overtaken = cache[k].overtaken
      PROVE  Tainted(k, d)
  BY <1>3 DEF Tainted, Deleted
<1>4. cache'[k].cites # {}
  BY DEF Tainted
<1>5. ASSUME cache'[k] = Empty PROVE FALSE
  BY <1>4, <1>5 DEF Empty
<1>6. ASSUME NEW s \in Sweepers, Tainted(k, d), sweep' = [sweep EXCEPT ![s] = sweep'[s]],
             Covers(s, k, d) => Covers(s, k, d)'
      PROVE  \E u \in Sweepers : Covers(u, k, d)'
  <2>1. PICK u \in Sweepers : Covers(u, k, d)
    BY <1>1, <1>6
  <2>2. CASE u = s
    BY <1>6, <2>1, <2>2
  <2>3. CASE u # s
    BY <1>0, <1>6, <2>1, <2>3 DEF Covers, SweepOK
  <2>4. QED BY <2>2, <2>3
<1>7. ASSUME UNCHANGED <<docs, unswept, cache, sweep>>
      PROVE  \E s \in Sweepers : Covers(s, k, d)'
  BY <1>2, <1>3, <1>7
<1>8. ASSUME NEW r \in Requests, StoreAnswer(r)
      PROVE  \E s \in Sweepers : Covers(s, k, d)'
  <2> DEFINE e == [cites |-> req[r].cites, left |-> TTL, overtaken |-> req[r].overtaken]
  <2>1. cache' = [cache EXCEPT ![req[r].key] = e] /\ UNCHANGED <<docs, unswept, sweep>>
    BY <1>8 DEF StoreAnswer
  <2>2. e.cites = req[r].cites /\ e.overtaken = req[r].overtaken
    OBVIOUS
  <2> HIDE DEF e
  <2>3. CASE k = req[r].key
    <3>1. cache'[k] = e
      BY <1>0, <2>1, <2>3 DEF CacheOK
    <3>2. d \in req[r].cites /\ ~req[r].overtaken /\ Deleted(d)
      BY <2>1, <2>2, <3>1 DEF Tainted, Deleted
    <3>3. QED BY <3>2 DEF Marked
  <2>4. CASE k # req[r].key
    <3>1. cache'[k] = cache[k]
      BY <1>0, <2>1, <2>4 DEF CacheOK
    <3>2. QED BY <1>2, <1>3, <2>1, <3>1
  <2>5. QED BY <2>3, <2>4
<1>9. ASSUME NEW e \in Docs, Ingest(e) PROVE \E s \in Sweepers : Covers(s, k, d)'
  <2>1. Deleted(d)' => Deleted(d)
    BY <1>0, <1>9 DEF Ingest, Deleted, PlainOK
  <2>2. Tainted(k, d)
    BY <1>9, <2>1 DEF Ingest, Tainted
  <2>3. QED BY <1>2, <1>9, <2>2 DEF Ingest
<1>10. ASSUME NEW s \in Sweepers, DeleteDocuments(s)
       PROVE  \E u \in Sweepers : Covers(u, k, d)'
  <2>1. PICK gone :
          /\ docs' = [x \in Docs |-> IF x \in gone THEN "deleted" ELSE docs[x]]
          /\ sweep' = [sweep EXCEPT ![s] = [pc |-> "deleted", docs |-> gone, left |-> {}]]
    BY <1>10 DEF DeleteDocuments
  <2>2. UNCHANGED <<cache, unswept>> /\ sweep[s] = Rested
    BY <1>0, <1>10 DEF DeleteDocuments, SweepOK
  <2>3. sweep'[s] = [pc |-> "deleted", docs |-> gone, left |-> {}]
    BY <1>0, <2>1 DEF SweepOK
  <2>4. CASE d \in gone
    BY <2>3, <2>4 DEF Covers
  <2>5. CASE d \notin gone
    <3>1. Tainted(k, d)
      BY <2>1, <2>2, <2>5 DEF Tainted, Deleted
    <3>2. ~Covers(s, k, d)
      BY <2>2 DEF Covers, Rested
    <3>3. sweep' = [sweep EXCEPT ![s] = sweep'[s]]
      BY <2>1, <2>3
    <3>4. QED BY <1>6, <3>1, <3>2, <3>3
  <2>6. QED BY <2>4, <2>5
<1>11. ASSUME NEW s \in Sweepers, InvalidateEndpoint(s)
       PROVE  \E u \in Sweepers : Covers(u, k, d)'
  <2>1. Tainted(k, d)
    BY <1>3, <1>11 DEF InvalidateEndpoint
  <2>2. ~Covers(s, k, d)
    BY <1>0, <1>11 DEF InvalidateEndpoint, SweepOK, Covers, Rested
  <2>3. sweep' = [sweep EXCEPT ![s] = sweep'[s]]
    BY <1>0, <1>11 DEF InvalidateEndpoint, SweepOK
  <2>4. QED BY <1>6, <2>1, <2>2, <2>3
<1>12. ASSUME NEW s \in Sweepers, SweepMemory(s) PROVE FALSE
  BY <1>5, <1>12 DEF SweepMemory
<1>13. ASSUME NEW s \in Sweepers, SweepStart(s)
       PROVE  \E u \in Sweepers : Covers(u, k, d)'
  <2> DEFINE w == [pc |-> "sweeping", docs |-> sweep[s].docs,
                   left |-> {x \in Keys : Present(x)}]
  <2>1. Tainted(k, d)
    BY <1>3, <1>13 DEF SweepStart
  <2>2. sweep' = [sweep EXCEPT ![s] = w]
    BY <1>13 DEF SweepStart
  <2>3. sweep'[s] = w
    BY <1>0, <2>2 DEF SweepOK
  <2>4. cache[k] # Empty
    BY <2>1 DEF Tainted, Empty
  <2>5. Present(k)
    BY <1>0, <1>13, <2>4 DEF CacheOK, Present, Entry, SweepStart
  <2>6. Covers(s, k, d) => Covers(s, k, d)'
    BY <2>3, <2>5 DEF Covers
  <2>7. QED BY <1>6, <2>1, <2>2, <2>3, <2>6
<1>14. ASSUME NEW s \in Sweepers, SweepBatch(s)
       PROVE  \E u \in Sweepers : Covers(u, k, d)'
  <2>1. PICK batch \in SUBSET Keys :
          /\ cache' = [x \in Keys |-> IF x \in batch THEN Empty ELSE cache[x]]
          /\ sweep' = [sweep EXCEPT ![s].left = @ \ batch]
    BY <1>14 DEF SweepBatch
  <2>2. k \notin batch /\ cache'[k] = cache[k]
    BY <1>5, <2>1
  <2>3. Tainted(k, d)
    BY <1>3, <1>14, <2>2 DEF SweepBatch
  <2>4. sweep'[s] = [sweep[s] EXCEPT !.left = @ \ batch]
    BY <1>0, <2>1 DEF SweepOK
  <2>5. /\ sweep'[s].docs = sweep[s].docs
        /\ sweep'[s].pc = sweep[s].pc
        /\ sweep'[s].left = sweep[s].left \ batch
    BY <1>0, <2>4 DEF SweepOK, Sweep
  <2>6. Covers(s, k, d) => Covers(s, k, d)'
    BY <2>2, <2>5 DEF Covers
  <2>7. sweep' = [sweep EXCEPT ![s] = sweep'[s]]
    BY <2>1, <2>4
  <2>8. QED BY <1>6, <2>3, <2>6, <2>7
<1>15. ASSUME NEW s \in Sweepers, SweepEnd(s)
       PROVE  \E u \in Sweepers : Covers(u, k, d)'
  <2>1. Tainted(k, d)
    BY <1>3, <1>15 DEF SweepEnd
  <2>2. ~Covers(s, k, d)
    BY <1>15 DEF SweepEnd, Covers
  <2>3. sweep' = [sweep EXCEPT ![s] = sweep'[s]]
    BY <1>0, <1>15 DEF SweepEnd, SweepOK
  <2>4. QED BY <1>6, <2>1, <2>2, <2>3
<1>16. ASSUME NEW s \in Sweepers, SweepRaises(s)
       PROVE  \E u \in Sweepers : Covers(u, k, d)'
  <2>1. d \notin unswept /\ d \notin sweep[s].docs
    BY <1>16 DEF SweepRaises, Tainted
  <2>2. Tainted(k, d)
    BY <1>16, <2>1 DEF SweepRaises, Tainted, Deleted
  <2>3. ~Covers(s, k, d)
    BY <2>1 DEF Covers
  <2>4. sweep' = [sweep EXCEPT ![s] = sweep'[s]]
    BY <1>0, <1>16 DEF SweepRaises, SweepOK
  <2>5. QED BY <1>6, <2>2, <2>3, <2>4
<1>17. CASE Restart
  <2>1. d \notin unswept /\ \A s \in Sweepers : d \notin sweep[s].docs
    BY <1>17 DEF Restart, Tainted
  <2>2. cache' = cache
    BY <1>5, <1>17 DEF Restart
  <2>3. Tainted(k, d)
    BY <1>17, <2>1, <2>2 DEF Restart, Tainted, Deleted
  <2>4. QED BY <1>1, <2>1, <2>3 DEF Covers
<1>18. CASE Elapse
  <2> DEFINE older == [cache[k] EXCEPT !.left = IF Present(k) THEN @ - 1 ELSE 0]
  <2>1. cache'[k] = Aged(k) /\ UNCHANGED <<docs, unswept, sweep>>
    BY <1>18 DEF Elapse
  <2>2. cache'[k] = older
    BY <1>5, <2>1 DEF Aged
  <2>3. older.cites = cache[k].cites /\ older.overtaken = cache[k].overtaken
    BY <1>0 DEF CacheOK, Entry
  <2> HIDE DEF older
  <2>4. QED BY <1>2, <1>3, <2>1, <2>2, <2>3
<1>19. ASSUME NEW r \in Requests, NEW x \in Keys, LookupMiss(r, x)
       PROVE  \E s \in Sweepers : Covers(s, k, d)'
  <2>1. UNCHANGED <<docs, unswept, sweep>>
    BY <1>19 DEF LookupMiss
  <2>2. cache'[k] = cache[k] \/ cache'[k] = Empty
    BY <1>0, <1>19 DEF LookupMiss, CacheOK
  <2>3. QED BY <1>2, <1>3, <1>5, <2>1, <2>2
<1>20. QED
  BY <1>7, <1>8, <1>9, <1>10, <1>11, <1>12, <1>13, <1>14, <1>15, <1>16, <1>17, <1>18, <1>19
     DEF Next, Ask, Invalidate, LookupHit, Retrieve, AnswerUncached,
         PipelineRaises, vars

\* Whatever happens, every tainted entry is still ahead of some sweep.
THEOREM SweepAheadHolds == Spec => []SweepAhead
<1>1. Init => SweepAhead
  <2> SUFFICES ASSUME Init PROVE SweepAhead
    OBVIOUS
  <2>1. Behind
    BY DEF Init, Behind, Tainted, Deleted
  <2>2. Marked
    <3> DEFINE Fresh == {[pc |-> "idle", key |-> k, cites |-> {},
                          overtaken |-> FALSE] : k \in Keys}
    <3>1. \A q \in Fresh : q.cites = {}
      OBVIOUS
    <3>2. req \in [Requests -> Fresh]
      BY DEF Init
    <3> HIDE DEF Fresh
    <3>3. QED BY <3>1, <3>2 DEF Marked
  <2>3. QED BY <2>1, <2>2, SweepAheadParts
<1>2. TypeOK /\ SweepAhead /\ [Next]_vars => SweepAhead'
  <2> SUFFICES ASSUME TypeOK, SweepAhead, [Next]_vars PROVE SweepAhead'
    OBVIOUS
  <2>1. Behind' /\ Marked'
    BY BehindStep, MarkedStep, SweepAheadParts
  <2>2. QED BY <2>1 DEF SweepAhead, Behind, Marked
<1>3. QED BY <1>1, <1>2, TypeCorrect, PTL DEF Spec

\* A finished deletion leaves a stale entry only to an overtaken request or to
\* an invalidation that was cut short.
THEOREM StaleOnlyByRaceHolds == Spec => []StaleOnlyByRace
<1>1. TypeOK /\ SweepAhead => StaleOnlyByRace
  <2> SUFFICES ASSUME TypeOK, SweepAhead, NEW k \in Keys, NEW d \in cache[k].cites,
                      Deleted(d), ~cache[k].overtaken, d \notin unswept
               PROVE  BeingSwept(d)
    BY DEF StaleOnlyByRace
  <2>1. d \in Docs
    BY TypeParts DEF CacheOK, Entry
  <2>2. Tainted(k, d)
    BY DEF Tainted
  <2>3. QED BY <2>1, <2>2 DEF SweepAhead, BeingSwept
<1>2. QED BY <1>1, TypeCorrect, SweepAheadHolds, PTL
=============================================================================
