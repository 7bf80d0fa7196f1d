----------------------------- MODULE QueryCache -----------------------------
(***************************************************************************)
(* The response cache and the endpoints around it: /v1/retrieve and        *)
(* /v1/query look a question up, run the pipeline on a miss and store the  *)
(* answer; deleting documents and /v1/cache/invalidate sweep the entries.  *)
(* The retrieval pipeline is seen only through the documents its reads     *)
(* return, a key through the question it stands for.                       *)
(***************************************************************************)
EXTENDS Naturals, FiniteSets

CONSTANTS
    Docs,      \* document ids; an id is ingested and deleted at most once
    Keys,      \* cache keys (rag:ask and rag:retrieve questions)
    Requests,  \* concurrent query requests
    Sweepers,  \* concurrent delete and invalidate requests
    TTL,       \* settings.cache_default_ttl in ticks of the clock
    Backends,  \* the backends CACHE_URL may select: "redis", "memory"
    CanFail,   \* calls of the Redis backend may raise
    CanCrash   \* the server process may stop and be started again

ASSUME QueryCacheAssumption ==
    /\ TTL \in Nat \ {0}
    /\ Backends \subseteq {"redis", "memory"}
    /\ CanFail \in BOOLEAN
    /\ CanCrash \in BOOLEAN

VARIABLES
    backend, \* the backend _resolve_backend settled on
    docs,    \* docs[d]: "absent", "stored" or "deleted"
    cache,   \* cache[k]: the entry under k, Empty if there is none; one without
             \* time left has expired and is not returned
    req,     \* req[r]: where the handler of request r is
    reply,   \* reply[r]: what the last request of r was answered
    sweep,   \* sweep[s]: where the handler of delete request s is
    unswept  \* history: deleted documents whose invalidation was cut short

vars == <<backend, docs, cache, req, reply, sweep, unswept>>

\* `overtaken' is history: a cited document was deleted after it was read.
Entry == [cites : SUBSET Docs, left : 0..TTL, overtaken : BOOLEAN]
Empty == [cites |-> {}, left |-> 0, overtaken |-> FALSE]

Request == [pc : {"idle", "working", "generated"}, key : Keys,
            cites : SUBSET Docs, overtaken : BOOLEAN]

Sweep == [pc : {"idle", "deleted", "sweeping"}, docs : SUBSET Docs, left : SUBSET Keys]
Rested == [pc |-> "idle", docs |-> {}, left |-> {}]

Stored == {d \in Docs : docs[d] = "stored"}
Present(k) == cache[k].left > 0

\* Dictionary operations do not raise.
CanRaise == CanFail /\ backend = "redis"

Init == /\ backend \in Backends
        /\ docs = [d \in Docs |-> "absent"]
        /\ cache = [k \in Keys |-> Empty]
        /\ req \in [Requests -> {[pc |-> "idle", key |-> k, cites |-> {},
                                  overtaken |-> FALSE] : k \in Keys}]
        /\ \A r, q \in Requests : req[r] = req[q]
        /\ reply = [r \in Requests |-> "none"]
        /\ sweep = [s \in Sweepers |-> Rested]
        /\ unswept = {}

-----------------------------------------------------------------------------
(* The query endpoints.                                                    *)

Idle(r) == [pc |-> "idle", key |-> req[r].key, cites |-> {}, overtaken |-> FALSE]

\* Defect variant: a hit extends the life of its entry.
LookupHitRefreshes(r, k) ==
    /\ req[r].pc = "idle"
    /\ Present(k)
    /\ reply' = [reply EXCEPT ![r] = "TypeError"]
    /\ cache' = [cache EXCEPT ![k].left = TTL]
    /\ UNCHANGED <<backend, docs, req, sweep, unswept>>

\* The dumped response already holds cache_hit, which the handler passes a
\* second time: the constructor raises and the request is answered by a 500.
LookupHit(r, k) ==
    /\ req[r].pc = "idle"
    /\ Present(k)
    /\ reply' = [reply EXCEPT ![r] = "TypeError"]
    /\ UNCHANGED <<backend, docs, cache, req, sweep, unswept>>

\* No entry, an expired one, which the dictionary drops now, or get raised and
\* counts as a miss.
LookupMiss(r, k) ==
    /\ req[r].pc = "idle"
    /\ ~Present(k) \/ CanRaise
    /\ cache' = IF Present(k) THEN cache ELSE [cache EXCEPT ![k] = Empty]
    /\ req' = [req EXCEPT ![r] = [pc |-> "working", key |-> k, cites |-> {},
                                  overtaken |-> FALSE]]
    /\ reply' = [reply EXCEPT ![r] = "none"]
    /\ UNCHANGED <<backend, docs, sweep, unswept>>

\* One read of the corpus by the pipeline; there may be several (retries,
\* hops, sub-questions) before the answer is generated.
Retrieve(r) ==
    /\ req[r].pc = "working"
    /\ \E found \in SUBSET Stored, next \in {"working", "generated"} :
         req' = [req EXCEPT ![r] = [pc |-> next, key |-> req[r].key,
                                    cites |-> req[r].cites \cup found,
                                    overtaken |-> req[r].overtaken]]
    /\ UNCHANGED <<backend, docs, cache, reply, sweep, unswept>>

\* Defect variant: an answer is set without a time to live.
StoreAnswerNoTTL(r) ==
    /\ req[r].pc = "generated"
    /\ cache' = [cache EXCEPT ![req[r].key] =
                   [cites |-> req[r].cites, left |-> 0,
                    overtaken |-> req[r].overtaken]]
    /\ req' = [req EXCEPT ![r] = Idle(r)]
    /\ reply' = [reply EXCEPT ![r] = "answer"]
    /\ UNCHANGED <<backend, docs, sweep, unswept>>

\* A sufficient result or a supported answer is cached.
StoreAnswer(r) ==
    /\ req[r].pc = "generated"
    /\ cache' = [cache EXCEPT ![req[r].key] =
                   [cites |-> req[r].cites, left |-> TTL,
                    overtaken |-> req[r].overtaken]]
    /\ req' = [req EXCEPT ![r] = Idle(r)]
    /\ reply' = [reply EXCEPT ![r] = "answer"]
    /\ UNCHANGED <<backend, docs, sweep, unswept>>

\* Insufficient, unsupported or empty answers are not, nor is anything when
\* the backend's set raises.
AnswerUncached(r) ==
    /\ req[r].pc = "generated"
    /\ req' = [req EXCEPT ![r] = Idle(r)]
    /\ reply' = [reply EXCEPT ![r] = "answer"]
    /\ UNCHANGED <<backend, docs, cache, sweep, unswept>>

PipelineRaises(r) ==
    /\ req[r].pc # "idle"
    /\ req' = [req EXCEPT ![r] = Idle(r)]
    /\ UNCHANGED <<backend, docs, cache, reply, sweep, unswept>>

-----------------------------------------------------------------------------
(* Ingestion, deletion and invalidation.                                   *)

\* No ingestion path touches the cache.
Ingest(d) ==
    /\ docs[d] = "absent"
    /\ docs' = [docs EXCEPT ![d] = "stored"]
    /\ UNCHANGED <<backend, cache, req, reply, sweep, unswept>>

\* storage.delete_document or delete_all_documents commits; an id that is
\* not stored is answered like any other.
DeleteDocuments(s) ==
    /\ sweep[s].pc = "idle"
    /\ \E gone \in {Stored} \cup {{d} \cap Stored : d \in Docs} :
         /\ docs' = [d \in Docs |-> IF d \in gone THEN "deleted" ELSE docs[d]]
         /\ req' = [r \in Requests |->
                      [req[r] EXCEPT !.overtaken = @ \/ req[r].cites \cap gone # {}]]
         /\ sweep' = [sweep EXCEPT ![s] = [pc |-> "deleted", docs |-> gone, left |-> {}]]
    /\ UNCHANGED <<backend, cache, reply, unswept>>

InvalidateEndpoint(s) ==
    /\ sweep[s].pc = "idle"
    /\ sweep' = [sweep EXCEPT ![s] = [pc |-> "deleted", docs |-> {}, left |-> {}]]
    /\ UNCHANGED <<backend, docs, cache, req, reply, unswept>>

\* InMemoryCacheBackend.delete_prefix: one step of the event loop.
SweepMemory(s) ==
    /\ backend = "memory"
    /\ sweep[s].pc = "deleted"
    /\ cache' = [k \in Keys |-> Empty]
    /\ sweep' = [sweep EXCEPT ![s] = Rested]
    /\ UNCHANGED <<backend, docs, req, reply, unswept>>

\* RedisCacheBackend.delete_prefix: SCAN is bound to return the keys that
\* are there when the iteration starts, and may return later ones.
SweepStart(s) ==
    /\ backend = "redis"
    /\ sweep[s].pc = "deleted"
    /\ sweep' = [sweep EXCEPT ![s] =
                   [pc |-> "sweeping", docs |-> sweep[s].docs,
                    left |-> {k \in Keys : Present(k)}]]
    /\ UNCHANGED <<backend, docs, cache, req, reply, unswept>>

SweepBatch(s) ==
    /\ sweep[s].pc = "sweeping"
    /\ \E batch \in SUBSET Keys :
         /\ batch \cap sweep[s].left # {}
         /\ cache' = [k \in Keys |-> IF k \in batch THEN Empty ELSE cache[k]]
         /\ sweep' = [sweep EXCEPT ![s].left = @ \ batch]
    /\ UNCHANGED <<backend, docs, req, reply, unswept>>

\* Defect variant: the iteration stops after its first batch.
SweepEndEarly(s) ==
    /\ sweep[s].pc = "sweeping"
    /\ sweep' = [sweep EXCEPT ![s] = Rested]
    /\ UNCHANGED <<backend, docs, cache, req, reply, unswept>>

SweepEnd(s) ==
    /\ sweep[s].pc = "sweeping"
    /\ sweep[s].left = {}
    /\ sweep' = [sweep EXCEPT ![s] = Rested]
    /\ UNCHANGED <<backend, docs, cache, req, reply, unswept>>

\* The exception of the backend is logged and swallowed.
SweepRaises(s) ==
    /\ CanRaise
    /\ sweep[s].pc # "idle"
    /\ unswept' = unswept \cup sweep[s].docs
    /\ sweep' = [sweep EXCEPT ![s] = Rested]
    /\ UNCHANGED <<backend, docs, cache, req, reply>>

Restart ==
    /\ CanCrash
    /\ cache' = IF backend = "redis" THEN cache ELSE [k \in Keys |-> Empty]
    /\ req' = [r \in Requests |-> Idle(r)]
    /\ unswept' = unswept \cup UNION {sweep[s].docs : s \in Sweepers}
    /\ sweep' = [s \in Sweepers |-> Rested]
    /\ UNCHANGED <<backend, docs, reply>>

\* The entry under k one tick later: Redis removes an entry that expires, the
\* dictionary keeps it until it is looked up or swept.
Aged(k) ==
    LET older == [cache[k] EXCEPT !.left = IF Present(k) THEN @ - 1 ELSE 0]
    IN IF backend = "redis" /\ older.left = 0 THEN Empty ELSE older

Elapse ==
    /\ cache' = [k \in Keys |-> Aged(k)]
    /\ UNCHANGED <<backend, docs, req, reply, sweep, unswept>>

-----------------------------------------------------------------------------

Ask(r) == \/ \E k \in Keys : LookupHit(r, k) \/ LookupMiss(r, k)
          \/ Retrieve(r) \/ StoreAnswer(r) \/ AnswerUncached(r) \/ PipelineRaises(r)

Invalidate(s) == \/ DeleteDocuments(s) \/ InvalidateEndpoint(s)
                 \/ SweepMemory(s) \/ SweepStart(s) \/ SweepBatch(s)
                 \/ SweepEnd(s) \/ SweepRaises(s)

Next == \/ \E r \in Requests : Ask(r)
        \/ \E s \in Sweepers : Invalidate(s)
        \/ \E d \in Docs : Ingest(d)
        \/ Restart
        \/ Elapse

Spec == Init /\ [][Next]_vars

\* Only the clock is bound to advance.
FairSpec == Spec /\ WF_vars(Elapse)

-----------------------------------------------------------------------------
(* Properties.                                                             *)

\* Every variable stays in its range; Redis holds no entry without a time to
\* live (RedisCacheBackend.set).
TypeOK ==
    /\ backend \in Backends
    /\ docs \in [Docs -> {"absent", "stored", "deleted"}]
    /\ cache \in [Keys -> Entry]
    /\ backend = "redis" => \A k \in Keys : cache[k].left = 0 => cache[k] = Empty
    /\ req \in [Requests -> Request]
    /\ reply \in [Requests -> {"none", "answer", "TypeError"}]
    /\ sweep \in [Sweepers -> Sweep]
    /\ \A s \in Sweepers : sweep[s].pc = "idle" => sweep[s] = Rested
    /\ unswept \subseteq Docs

Deleted(d) == docs[d] = "deleted"

BeingSwept(d) == \E s \in Sweepers : d \in sweep[s].docs

\* After a delete request has finished, an entry can still cite the deleted
\* document only because a request that had read it before the deletion
\* stored its answer afterwards, or because the invalidation was cut short.
StaleOnlyByRace ==
    \A k \in Keys : \A d \in cache[k].cites :
       Deleted(d) => \/ BeingSwept(d)
                     \/ cache[k].overtaken
                     \/ d \in unswept

\* The inductive strengthening: a sweep still has every tainted entry before
\* it, and a request that cites a deleted document is marked as overtaken.
Tainted(k, d) == /\ d \in cache[k].cites
                 /\ Deleted(d)
                 /\ ~cache[k].overtaken
                 /\ d \notin unswept

SweepAhead ==
    /\ \A k \in Keys, d \in Docs :
         Tainted(k, d) => \E s \in Sweepers :
                            /\ d \in sweep[s].docs
                            /\ sweep[s].pc = "deleted" \/ k \in sweep[s].left
    /\ \A r \in Requests : \A d \in req[r].cites :
         Deleted(d) => req[r].overtaken

\* An entry that cites a deleted document is answered with no more after a
\* while, however it came to survive the deletion: no lookup and no racing
\* request keeps renewing it.
Stale(k) == Present(k) /\ \E d \in cache[k].cites : Deleted(d)

StaleExpires == \A k \in Keys : Stale(k) ~> ~Stale(k)

-----------------------------------------------------------------------------
(* What the documentation says and the code does not do.                   *)

\* A repeated question is answered from the cache.
RepeatedQuestionsAnswered == \A r \in Requests : reply[r] # "TypeError"
=============================================================================
