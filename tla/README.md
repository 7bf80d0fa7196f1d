# DeepContext: a TLA+ model of the platform

DeepContext is a FastAPI service that ingests documents, answers questions from
them and keeps a typed long-term memory. Everything runs in one asyncio event
loop: request handlers, streaming responses, background tasks and the job
scheduler are coroutines that lose control at every `await` and share the
store, the cache and the model. That is where the program is hard to test, and
what the modules here are about. PROJECT.json lists the components, the runs,
the line of the source each definition stands for, and the hazards the
properties are aimed at.

Paths below are relative to `src/deep_context/` in the repository.

## Inventory

| Component | State | Operations | Talks to |
|---|---|---|---|
| Job scheduler (`scheduler.py`, `api/routes_ops.py`) | rows of `jobs`: status, retries, schedule, max_retries, next_run_at | one tick (`run_due_jobs_once`), the loop, manual tick, upsert, default installation | store; its tasks maintain the corpus |
| Response cache (`cache.py`) | entries with a TTL, in a dictionary or in Redis | get, set, invalidate a namespace | read and written by `/v1/retrieve` and `/v1/query`, swept by deletions |
| Promotion gate (`memory/promotion_gate.py`) | rows of `memory_fact`, `memory_preference`, `memory_policy` | classify, check scope, compare with visible facts, write, supersede | store, embedding client; called by `/v1/memory/observe` and by the extraction that chat starts in the background |
| Document corpus (`storage/*_store.py`, `storage/base.py`, `ingestion/*pipeline.py`) | documents, chunks with summaries and embeddings, tree nodes, full-text index; one SQLite connection or a pool of PostgreSQL ones | three ingestion pipelines, delete, resume of embeddings, rebuild, clean-up | summarizer, embedding client; read by retrieval |
| Storage life cycle (`storage/__init__.py`, `api/app.py`) | the global store | `get_storage`, `close_storage`, start and shutdown | everything |
| PostgreSQL store (`storage/postgres_store.py`) | the same tables, transactional | the same interface | everything |
| Chunk summarizer (`ingestion/summarizer.py`) | model, tokenizer, a lock | lazy load, generate in an executor, unload | pipelines, `/v1/models/unload` |
| LLM client (`core/llm_client.py`) | provider clients, the Groq key in use, the rate-limit notice | embed, complete, stream, back off, fall back, reset | external providers; called by everything that asks a model |
| Agentic graph, planner, router (`agentic/`) | one `RAGState`, one plan per question | retrieve, grade, rewrite, generate, abstain; plan, search, synthesize | retrieval, generation |
| Retrieval (`retrieval/`) | the filter of the request, a retry count | classify, rewrite, search, fuse, rerank, second hop, resolve parents, retry | store, LLM client |
| Generation and verification (`generation/`, `verification/`) | none | extract, write, check, strip, fall back | LLM client |
| Parser, cleaner, chunker (`ingestion/`) | the tree under construction, the buffer of a chunk | read an item, a line, a statement, a page; group, split, flush | pipelines |
| Memory stores, prompt assembler, enricher, configuration, CLI, web page, migrations, scripts | none that others share | wrappers, formatting, front ends | - |

What is hard, and what makes each component correct:

- **Scheduler.** Ticks overlap (the loop, the manual endpoint, several
  processes on one database), work from a snapshot of the rows, and can be
  cancelled in the middle of a task. Correct: a job is never lost, one outcome
  per start, failures counted exactly, retries bounded, no two executions at once.
- **Cache.** Answers are stored long after the documents were read; a
  namespace is swept in batches; backends fail silently. Correct: an answer
  never cites a deleted document for longer than a nameable cause explains, and
  a hit is usable.
- **Promotion gate.** It checks, awaits an embedding, and then acts. Correct:
  `superseded_by` goes from weaker to stronger facts, without cycles, and what
  lasts gives way only to what lasts.
- **Summarizer.** The model is loaded under a lock and dropped without one, the
  lock is held across batches, storage calls and yields to a client, and a
  thread reads the model while the event loop goes on and starts over behind what
  it has. Correct: a chunk gets its own summary or its own first words, another
  chunk's or none for a nameable cause only,
  the memory is freed in the end, everybody gets a turn.
- **LLM client.** One object serves all requests; a call hands over from
  provider to provider, streams may fail after what they have sent, and a key may
  be replaced under a request. Correct: the reader of a stream gets one answer,
  the vectors of one request come from one model, the shared notice is about the
  key in use, and back-off inside fallbacks stays bounded.
- **Answering.** Retries, second hops, rewrites and plan steps each retrieve
  again while documents are deleted; ranks are merged and cut several times.
  Correct: what the two searches agree on is not lost in the pool, the sources
  shown are the evidence given, a verdict is about the text that is returned, and
  every question ends.
- **Parser and chunker.** Loops with a stack, a fence flag and a buffer, whose
  order of flushing decides what a chunk holds. Correct: nothing is lost or put
  under a wrong heading, parts share a table or a text out exactly, chunks keep
  their limit and their own pages.
- **Corpus.** Statements of different coroutines interleave inside one open
  SQLite transaction, and any commit publishes all of them. Correct: what was
  acknowledged survives, what was deleted stays deleted, no chunk outlives its
  document, the full-text index matches the chunks, an embedding is made from
  the summary the chunk has.

## Modules

| Module | What it is |
|---|---|
| `JobLifecycle` | abstract: the life of one job as the jobs table promises it |
| `Scheduler` | the scheduler, one action per await |
| `QueryCache` | the response cache with the query, delete and invalidate handlers |
| `PromotionGate` | the promotion gate, one action per await |
| `Corpus` | the corpus, one action per SQL statement on SQLite and per transaction on PostgreSQL |
| `Summarizer` | the chunk summarizer, its thread and the ingestions that share it |
| `DocumentParser` | the readers that build the section tree of a document |
| `Chunker` | the parents and child chunks made of that tree; extends `DocumentParser` |
| `DocumentText` | both in sequence, with what may be lost on the way |
| `LlmClient` | the client and its chains of providers, one action per await |
| `Answering` | retrieval and the four ways from a question to an answer |
| `SchedulerProofs`, `QueryCacheProofs`, `PromotionGateProofs`, `CorpusProofs`, `SummarizerProofs`, `LlmClientProofs`, `AnsweringProofs`, `DocumentTextProofs` | theorems, for all values of the constants |
| `MCScheduler`, `MCQueryCache`, `MCPromotionGate`, `MCCorpus`, `MCSummarizer`, `MCDocumentText`, `MCLlmClient`, `MCAnswering` | the constants of the TLC runs |

Definitions called "Defect variant" in the comments are plausible bugs of the
definition that follows them. Nothing uses them; swapping one in breaks the
property that PROJECT.json names for it, which shows the property depends on
that line of the code.

### Scheduler

`table[j]` is a row of `jobs`. A ticker is a coroutine inside
`run_due_jobs_once`; `Loop` is the one of `scheduler_loop`, any other a call of
the manual tick endpoint. `StartTick` is the SELECT of `get_due_jobs`, which
also fills `snap`: the code decides about retries, schedules and the next run
from this snapshot, not from the row. `MarkJobRunning`, `TaskSucceeds`,
`TaskFails`, `RetrySoon` and `SkipUnknownTask` are the awaits of the loop body
in their order; the due jobs of a tick are taken in any order, as the SELECT has
no ORDER BY. `Stop` is the end of a coroutine (shutdown, crash, client gone),
`StorageFault` a storage call that raises where no handler catches it.
`UpsertSchedulerJob`, `ListMissingDefaults` and `InstallDefault` are the
endpoint and `register_default_jobs`.

Time is relative: a row keeps the time until `next_run_at`, a ticker the age of
its `current`. Both saturate (`RetryCap`, `AgeCap`) where no comparison of the
code can change any more; `BoundsLoseNothing` states that as an assumption TLC
evaluates. A cron expression is the set of delays after which it may fire.

### QueryCache

A request looks its key up (`LookupHit`, `LookupMiss`), reads the corpus any
number of times (`Retrieve`: retries, hops and sub-questions all read), and
stores its answer or not (`StoreAnswer`, `AnswerUncached`). A hit ends in an
error, as the code does. Deletion commits first (`DeleteDocuments`) and sweeps
later: in one step for the dictionary (`SweepMemory`), by a SCAN in batches for
Redis (`SweepStart`, `SweepBatch`, `SweepEnd`), where entries stored during the
iteration may or may not be met. `SweepRaises` is the swallowed exception.
`Elapse` is the clock: Redis drops an expired entry, the dictionary keeps it
until the next lookup of its key or the next sweep, which is why a lookup looks
at the age. `Restart` empties the dictionary and keeps Redis. `overtaken` and
`unswept` are history variables: nothing reads them but the properties. The
pipeline between lookup and store is abstracted to the documents its reads
return. The invalidate endpoint is modelled with the namespace it defaults to.

### PromotionGate

`Observe` is the part of `evaluate_and_promote` before its first await,
`ReadFacts` the read with the contradiction check that follows it without an
await, then `InsertFact` (after the embedding), `SupersedeFact`,
`SetPreference`, `SetPolicy`. Between any two, other promotions run, and
`Interrupt` may end this one. Confidences are thousandths; `Weakened` keeps the
one place where binary floating point differs from the decimal value. Which
texts are facts, hedged or contradictory is a constant, as it depends on word
lists only. `Expire` is the passing of `expires_at`. Preferences and
policies are written as the code writes them, for the sake of the whole handler;
no property depends on these two tables.

### Corpus

A coroutine is `todo[w]`, the sequence of calls of the store it has yet to make
(`PlainIngest`, `SummaryIngest`, `StreamIngest` and the tasks are such
sequences); the first call is under way, and `line[w]` is the statement of its
method (`Statements`) that is awaited next. `Execute` takes that statement,
`CommitOwn`/`CommitDelete`/`CommitForeign` publish `live` (the
connection's view) to `disk`. `CommitForeign` stands for every other method of
the store that commits on the same connection (jobs, memory, event traces).
`Raise` is a foreign-key error, `PauseEmbedding` the embedding call that fails
and is caught, `Interrupt` a coroutine that ends where it is with the
transaction left open, `Crash` a restart from `disk`.

Ids of documents are fresh for every ingestion. The child chunks of a document
form `Batches` batches (of 32 for embeddings, of `batch_size` for summaries; one
size here); parents have neither summary, embedding nor index entry and are part
of `chunks`. The two reads of `resume_document_embeddings` are one step: a
deletion between them only makes the second empty. `refresh_embeddings` is left
out on SQLite as it cannot write there (its first `execute` call has an argument
too many), and so never commits anything either. The command line opens a
connection of its own and is not modelled on SQLite.

`backend` is `settings.database_type`. On PostgreSQL a method is one transaction
(`conn.transaction()`, a single statement, or `executemany`, which asyncpg makes
atomic), so `Transact` takes the statements up to the commit in one step, and
workers may as well be coroutines of several processes. Deletion by cascade and
the trigger on `chunks` have the effect of the delete and index statements of
SQLite. Only `insert_document_and_chunks` (`Checkpoint`), the rebuild, which has
nothing to do, and the backfill (`Refresh`), which works there, differ.

`raced`, `half` and `early` are history. `raced` holds the documents whose index
or chunks two coroutines wrote at once, or one left half-written; it is what
`IndexExact` excuses, and emptying the index (rebuild, delete) clears it again.

### Summarizer

`loaded` is `_is_loaded` with `_model` and `_tokenizer`; `lock` and `queue` are
`_load_lock`, which serves its waiters in order and lets a newcomer pass only
when nobody waits. `pc[c]` is the await the ingestion `c` is at and `thread[c]`
the call of `_generate_batch_sync` it awaits. `Begin`, `Grant`, `LoadSucceeds`
and `LoadFails` are `_ensure_model_loaded` with the lock taken again for the
generation. `GenerateBatch` and `DecodeNext` are the vectorised path, `TryNext`
the sequential fallback that `GenerateRaises` and `DecodeRaises` lead to;
between any two of them the model may go, as the thread looks the attributes up
each time. A result is the number of the prompt it was made from, and 0 a blank,
which `Received` turns into the first words of the chunk. `out` keeps what was
decoded before the failure, as the code does, and the i-th chunk receives the
i-th of `out`: after `DecodeRaises` with results at hand they no longer match.

A caller runs one of three methods: `"summary"`
(`SummaryIngestionPipeline.ingest`) stores after it has left the lock,
`"stream"` (`ingest_stream`) inside it, and `"plain"`
(`IngestionPipeline.ingest`) unloads without another await and has a summarizer
of its own, so a behaviour has plain callers only or none. `Unload` takes no
lock, whoever calls it. `Interrupt` is a cancelled request or a raising load or
storage call: the lock is given back, the model stays. Its thread goes on for a
while but only reads, so it is not followed. `spoiled`, `shifted` and `cut` are
history.

What the model makes plain: an ingestion that waits while another one generates
finds the model dropped when its turn comes, as `unload` follows every
generation and nobody checks again after acquiring the lock. All its chunks then
hold their first 25 words under the name of the model. `WordsOnlyIfSpoiled`
counts this among the causes. And after a cancellation two threads may use the
model at once. When decoding fails part-way while the model is at hand, the
sequential results line up behind those already there, and chunks receive the
summaries of others: `shifted` marks the callers it happened to, and
`OwnSummaries` says that nothing else has that effect, in particular not an
unload in the middle, after which only blanks can follow.

### DocumentParser, Chunker, DocumentText

A document is read piece by piece: `pieces` is what has been read, so that the
run enumerates the documents while it reads them. `reader` is the method of
`DocumentParser` that is at work. `ParseTree` chooses it by type,
`FallBack` is Docling raising or finding nothing, after which a native reader
starts over on the same content (the pieces are forgotten, the content is any).
There is one action for each kind of piece and for the end of each loop;
`PushHeading` is the stack of headings. The PDF reader reads all pages
(`ReadPage`), learns which lines repeat in the margins, and then builds page by
page. Its paragraphs are one line each, and items of Docling that are blank, or
captions it has attached itself, are left out. Whether a table of Docling has a
header row is a property of its item.

A node keeps the pieces it `holds` and its text as a sequence of sentences
`<<words, characters>>`, as the chunker asks only for lengths. `GroupNode` and
`EndGrouping` are the loop over the nodes that makes parents; `StartParent`,
`SplitTable`, `SplitFigure`, `SplitLongText`, `BufferText` and `EndParent` the
one that makes children, with `buffer`, `bufferTok` and `span` as its local
variables. What `TextCleaner.clean` does to characters is left out.

`NothingElseLost` takes four gaps of the source as they are, each told from the
document alone: lines of a code block that is never closed, lines below an image
in one paragraph, Python statements and decorators outside definitions, and
lines that repeat in page margins. Anything else that is lost breaks it.

### LlmClient

`calls[c]` is a `complete`, `stream_complete` or `get_embeddings` and the await
it is at. `Candidates` is the table of `_get_gemini_candidates`; `TryFrom`
takes the first candidate from a place on for which there is, or can be made, a
client. `ToGroq` is `_refresh_groq_client`, which reads `.env` on every call,
with the call that follows it without an await; `EvidenceFor` the end of the
chain. `GeminiLimited` and `BackOffEnds` are `_call_gemini_with_backoff`,
`GivesUpOn` the handlers around the candidates: only a model that is not found
leads to the next one. `Sends` is one piece of a stream.

The notice is represented by the key whose quota it is about; the two copies in
the code are always written together. `said`, `source`, `broke` and `spliced`
tell what the reader of a stream has got; `late` and the request counter `asked`
are history. `ThinkingRefused` repeats a request without its thinking
configuration, inside the same attempt, for the models that may have one;
`EmbedsEach` sends the texts of a batch one by one when gemini-embedding-2 takes
no more, all side by side and without a timeout. `asked` counts requests as they
are handed to the SDKs, whose own retries are not seen.

`content` says whether a stream has sent any of its answer. A stream of Groq
that was all reasoning gets its end repeated as content (`GroqEnds`), unless the
reasoning stops at a marker of the answer with nothing behind it (`"marked"`):
the stream then ends without an answer, as one of Gemini does whose tokens went
into reasoning. `StreamsAreWhole` names both. `Abandon` is a reader that goes
away or a cancelled task. `SetKey` is the edit of `.env`, `ResetQuota` the
endpoint.

### Answering

`q` is one question, `docs` the documents that are stored; `Delete` may come
between any two awaits. `Search` is everything from rewriting to the reranked
pool, because only the searches in it read what others write; `Found` are the
candidate lists that the searches, fusion, the boosts of named chunks (of any
sizes, so in any order) and deduplication can produce, `Reranked` the pools that
the rerankers and `protect_consensus` can make of them. `Resolve`, `Hop`,
`HopResolve` and `Judge` are the parent resolution, the second hop and the
evidence gate with its retry. Then the paths part: `ToGeneration` (`/v1/query`),
`ToStream`, `NextStep` and `ToSynthesis` (`execute_plan`), `Grade`, `Rewrite`
and `Abstain` (the graph; a question refused as an anachronism still cites what
was relevant). `Extract`, `AnswerDirectly` and `Write` are
`generate_grounded_answer`; the verdict of `check_support` on each text is a
free but fixed choice (`Verdicts`), so that an answer that is checked twice gets
the same verdict twice. `Fail` is an exception that reaches the endpoint: of the
store, of an embedding, or of facts that are null; what the language model
raises ends in a canned answer.

One text list and one dense list stand for the best ranks over several
sub-queries, and the second hop uses the same limit as the first pass. The guard
is applied twice on the first pass in the code, which changes nothing the second
time. Preferences of the user for a model or a reranker, and the streamed
planner, are not modelled.

## What the runs show

| Run | Shows |
|---|---|
| `scheduler_one_ticker` | with one ticker, 13 thousand states: snapshot and row agree on every job the tick has yet to finish (`SnapshotAgrees`), and the scheduler implements `JobLifecycle` (`ImplementsLifecycle`) |
| `scheduler_tickers` | loop and manual tick together: only stops and storage faults strand a job; every job that is not stranded is executed again and again |
| `scheduler_retries` | *finding*: after `max_retries` failures the job is still due and is executed on every poll |
| `query_cache` | 152 thousand states: stale entries have a nameable cause (`StaleOnlyByRace`) and disappear (`StaleExpires`) |
| `cache_hit` | *finding*: a cache hit is answered by an exception |
| `promotion_gate` | 982 thousand states: supersession goes to stronger facts within what the author may see (`SupersededByStronger`), in chains of at most two, and a lasting fact gives way only to a lasting one (`LastingYieldsToLasting`) |
| `corpus` | three coroutines on each backend: foreign keys hold, index exact, checkpoint survives, deletions final, summarised chunks embedded with their summary; on PostgreSQL the excuses of `IndexExact` never apply, as nothing is ever raced |
| `summarizer` | three ingestions, 619 thousand states: causes of a missing summary and of another chunk's, the model dropped, turns for everybody |
| `document_text` | every document of up to four pieces in every format, 1.2 million states: the section tree is the one of the headings, nothing is lost but for four gaps, chunks follow the reading order, keep their limit and name their own pages |
| `llm_client` | a call of any kind down the longest chain beside one that goes to Groq, with all failures, 782 thousand states: whole streams, vectors of one model, a notice about the key in use, bounded requests |
| `answering` | the four paths, 47 thousand states: consensus kept in the pool, evidence cited in order, verdict about the returned text, every question ends |
| `answers_unchecked` | *finding*: planner answers are cached without a check |

Bounds, and why they are enough:

- *Scheduler*: one job with a task and one whose task is gone; two tickers, as
  every property is about one job and at most two coroutines at its row (the
  theorems lift the invariants to any number); retry limits 1 and 2 give both
  the last and a retried failure; schedules with one and with several delays.
- *QueryCache*: one document, two keys (so that a sweep can be between them),
  two requests, one sweeper, both backends, TTL 2 (so that an entry can age
  before it is met). Ids are not reused by the code (`uuid4`), so a document is
  ingested and deleted once.
- *PromotionGate*: four rows, two promotions at a time, six observations chosen
  to contain every source level that outweighs another, a hedged claim, its
  denial, a preference and a policy, two users and the tenant. Chains of two
  need three rows. One row is spare for the races.
- *DocumentText*: four pieces, so that two headings can enclose two texts, a
  fence can close around a line, and a caption can follow a figure behind a
  heading; two pages; limits of three and five tokens, which a short, a full and
  a long text and a table of six rows, with and without a header, stay under,
  meet and exceed. Documents are
  read and chunked to the end, where the system really stops: deadlock is not
  checked here.
- *LlmClient*: two calls, as the notice, the key and the clients are all that
  calls share: one of any kind, down the longest chain (four candidates, two of
  which may think), and one that goes straight to Groq, where notice and key are;
  two keys, so that one can replace the other; two deployments; two attempts, two
  batches and two texts in a batch, so that a failure can come at the first and at
  the last.
- *Answering*: three children of two parents in two sections, two of them alike
  in their first 120 characters; pools and limits of two, so that a candidate is
  dropped and the guard has to make room; one retry, one rewrite, two plan
  steps. The finding has a fourth child, so that two children share a parent.
- *Corpus*: one document (the properties are per document, and a statement that
  concerns several treats them alike) of one batch, three coroutines so that
  ingestion, deletion, resume and a rebuild can meet; `FtsCap` 2 tells exact
  from too many.
- *Summarizer*: three ingestions, as a caller that loads may find a second one
  generating and a third one waiting; two batches, so that the model can go
  between them; two prompts, so that it can go between two results.
- Symmetry is used for identical promoters, rows and coroutines, in runs with
  invariants only.

Fairness. The scheduler's liveness assumes that clocks advance, that the loop's
sleep ends (`WF` of `StartTick(Loop)`), and that a tick that has begun goes on
(`WF` of its steps): tasks are awaited without a timeout in the code, so this
says that they return or raise. Nobody has to call the endpoints. The property
excuses runs in which an administrator re-schedules the job for ever or the
processes never stop failing. The cache's liveness needs the clock only. The
summarizer's assumes of each caller that what it awaits answers: loads and
generations end, storage returns, and the client of a stream reads on or goes
away (which frees the lock as well, `Interrupt`). `QuestionsEnd` assumes that a
handler that has begun goes on (`WF` of `Proceed`). Of completions and of the
embedding of a query's texts as a whole the code makes sure with a timeout; that
a stream of a provider, or a request for a single text, ends or breaks off is an
assumption, as these have none, and so is that the store answers or raises.

## What is proved

All theorems are about `Spec`, without fairness, for every value of the
constants that satisfies the modules' assumptions.

- `SchedulerProofs`: `TypeCorrect`; `StrandedOnlyByDisturbanceHolds`, an action
  property that follows from type correctness by cases on the action, as every
  row set to `running` has its executor's `pc` set in the same step and every
  step that gives up a job writes its row first. With `OneTicker` (only the loop
  ticks): `SnapshotAgreesHolds`, where `SnapshotAgrees` with `TypeOK` is
  inductive - what a tick still has to do is neither running nor counted
  differently since its SELECT, because an upsert of an existing row leaves
  status and retries alone - and from it `ImplementsLifecycleHolds`, the
  refinement: each action maps to an action of `JobLifecycle` or a stutter.
- `QueryCacheProofs`: `TypeCorrect`, `SweepAheadHolds`, `StaleOnlyByRaceHolds`.
  `StaleOnlyByRace` is not inductive: it does not say that a sweep in progress
  will still meet the entry it is responsible for. `SweepAhead` does (`Behind`),
  and that every request citing a deleted document is marked (`Marked`), which is
  what `StoreAnswer` needs.
- `PromotionGateProofs`: `TypeCorrect`, `SupersededByStrongerHolds`,
  `ShortChainsHolds`, `LastingYieldsToLastingHolds`. `SupersededByStronger` already
  covers the promotions under way: what a promotion holds as `target` will still
  be outweighed when it acts, since a row keeps its confidence and its scope for
  ever (`RowsAreKept`). Short chains follow from it by arithmetic: every
  supersession gains more than 150, and a superseding row has one of six
  confidences. `LastingYieldsToLasting` adds what confidences say about the time
  to live (`Lasting`): what lasts was worth 700 or more even if it was weakened,
  what outweighs that is worth 900 or more, and whatever is lasts as well. One
  step of the margin less and tool output would put a user's weakened statement
  out of force and then expire itself.
- `CorpusProofs`: `TypeCorrect`, `IndexIsExact`, `CheckpointIsDurable`,
  `DeletionIsFinal`, `SummariesAreEmbedded`, all from one inductive invariant
  (`CorpusInvariant`), on both stores. None of the five is inductive alone, as
  none says what the pending calls may still do:
  - `OnUsed`: whatever writes rows of a document is a call of its one ingestion;
    documents not given to an ingestion have no rows. This rests on fresh ids.
  - `FreshInsert`: chunks are inserted only where there are none, so an insert
    adds the first index entry and not a second one. It needs that a program
    inserts a document in its first call and chunks once (`Tidy`).
  - `IndexInv`: a coroutine between its first and its last write to a document
    that is not in `raced` is the only one there, and finds the index empty; one
    that has yet to fill it finds the chunks there, one about to delete the
    document finds none (`Relies`). Which statement can follow which is `Follows`.
  - `SavedInv`: at the last statement of `insert_document_and_chunks`, chunks
    the connection sees are on disk, as the statement before was the commit and
    every other commit publishes what it did not undo.
  - `DeletedInv`: no worker is about to insert a document that is deleted; a
    later insert of chunks or tree nodes meets the foreign key.
  - `EmbedInv`: a batch that a pending call will embed without a summary has no
    summary and no pending call will give it one, unless it is in `early`; where
    a summary is pending, nothing plain has been stored.
  - `AtOnce`: on PostgreSQL nobody is ever inside a method.

  The steps of workers share one description (`Going`): calls are dropped from
  the front, and a row changes only as the call under way may change it
  (`Writes`). `TransactionIs` shows it for the methods on PostgreSQL, from
  what their statements do one after the other (`AfterAllIs`).
- `SummarizerProofs`: `TypeCorrect`, `OwnSummariesHolds`, `ModelIsDroppedHolds`,
  `WordsOnlyIfSpoiledHolds`. `OwnSummaries` rests on the lock: nobody can load
  while a thread runs, so a thread that started over behind some results because
  the model was gone will not find it again, and appends blanks only (`Lined`);
  one that started over with the model at hand is marked in `shifted`.
  That only the holder of the lock has a thread is `Quiet`. `ModelIsDropped`
  needs that a caller that loads does so because there is no model
  (`LoadingNeeded`), `WordsOnlyIfSpoiled` that a caller past its check without a
  model, or with a blank, has been disturbed (`Blamed`).

- `LlmClientProofs`: `TypeCorrect`, `StreamsAreWholeHolds`,
  `VectorsFromOneModelHolds`, `RequestsAreBoundedHolds`, from one invariant
  about one call at a time (`CallInv`), as every action replaces one call: where
  it may be (`Placed`), what its reader has heard (`Hearing`), how many requests
  it has made on its way there (`Counted`), which vectors it has (`Collected`).
  None of the properties is inductive: a bound on requests needs how far down
  the chain the call is (`Before`: the attempts at the candidates passed, some
  of them two requests each; `PerBatch`: the attempts at a batch, text by text
  at worst), a whole stream that a call between two providers has said nothing
  or was broken off (`Between`), and the vectors that a model on NIM starts over
  with an empty list. `NoticeOfKeyInUseHolds`: this one is inductive as it
  stands.
- `AnsweringProofs`: `AnsweringTypeOK`, `ConsensusKeptHolds`,
  `EvidenceIsCitedHolds` from `AnsweringInvariant`, for any finite set of children
  (the one assumption beyond what the limits are; a corpus is finite).
  - `ConsensusKept` is about one reranking: `Protected` admits the late
    consensus candidates one by one, each at the end or in the place of the last
    candidate that is none. What carries over from one admission to the next is
    that the pool holds every consensus candidate met so far, or is full of them
    (`WithLateIs`, `RerankedIs`). It needs candidates that come once (`Distinct`),
    without which a reranked list may be shorter than the one it orders, through
    fusion, boosting and deduplication (`FoundIs`) and the merging of a second
    hop (`MergedIs`).
  - `EvidenceIsCited` speaks of finished questions. `Sources` says what each
    stage has on its way there: outside the planner nothing is gathered before
    generation, parents come once (`ResolvedIs`), the planner's synthesis drops
    repetitions and cites all it gathered, the graph grades with an order kept.
  - `TypeOK` needs `Sources` in the one place where a count may go beyond its
    bound: a question waits to be rewritten only with a rewrite left.

  The lists of the module are folds, and the facts about them are inductions over
  a list. `Induction` is derived from well-founded induction on a set of numbers,
  which is first order; `FoldSteps` turns a fold into the function of its values
  after each element; what each element keeps (`KeptSteps`, `InsertSteps`,
  `AdmitSteps`, `FirstsSteps`) then holds of the whole.

  `AnswerIsTheCheckedOneHolds` has an invariant of its own, `Inv`. The property is
  about finished questions only, and says nothing of the writers on the way to
  one. `Grounded` does: a writer whose answer is checked has evidence, and nobody
  but the planner synthesizes. `Shaped` says that a question keeps its fields,
  which the updates of `q` need. Deletions between the steps do not touch a
  question.
- `DocumentTextProofs`: `HeadingTreeHolds`, `DocumentTypeOK`, `ReadingOrderHolds`,
  `TextChunksBoundedHolds`, `PagesAreOwnHolds`, `NothingElseLostHolds`, for any
  document and any limits, from an invariant in four parts that build on each other.
  - `PInv`, of the readers: the heading stack holds exactly the headings that are
    still open (`Stack`), which is what a new node needs to hang where
    `HeadingTree` says; every reader has its own account of what it has built and
    of the lines or pages that wait (`Built`).
  - `CInv`, of the chunker's variables: the groups cut `1..n` into runs, so a
    parent names nodes that exist, and the buffer holds nodes already passed.
    Concatenations are inductions over the list of groups (`FlattenIs`).
  - `SInv`, of the chunks: where the groups end and how far they are split
    (`Placed`), that the buffer rises behind the chunks and its counter is the sum
    of its texts (`Held`), and that no node with content before `at` is in neither
    (`Complete`). `Listed` says of the chunks what their order, parts, pages and
    sizes must be; it holds of a list and of what is put behind it (`ConcatListed`)
    and so of every flush.
  - `Accounted`, of the pieces: each one read so far is in a node that has content,
    waits for one, or is of a kind its reader drops. The markdown reader is the
    hard one: it holds back the lines of a paragraph and of a code block, and
    what it drops is told from the lines alone, so the account relates `fence` to
    the parity of the fences read (`InBlock`), `pending` to the last lines
    (`AtHand`), and a line below an image to where its paragraph began and ended
    (`BelowImage`, `ClosedImage`). With `ReadingOrder`, which brings every such
    node into a chunk, `NothingElseLost` follows. The one assumption on the data
    is that a line that is not blank has a word.

  Why the bound of `TextChunksBounded` is `(5k - 2) div 4` for k texts is
  `NodesBounded`: a token count is at least a word count and at least a quarter of
  the characters less three quarters, and k - 1 breaks have two characters each.
  `PackBounded` does the same for sentences, which are one character apart.

Only model-checked: the liveness properties `JobsKeepRunning`, `StaleExpires`,
`IngestionsEnd` and `QuestionsEnd`, as the prover does not reason under fairness.

## Disagreements between documentation and code

The three runs marked *finding* each refute a sentence of the documentation or of
a comment, quoted in PROJECT.json. The models made others plain, which their
properties take as they are and name as the excuse:

- Two ticks that overlap execute the same job twice, as nothing looks at the
  status again after the SELECT (`CACHE_SCHEDULER_AGENTIC.md:84` of the
  repository, `storage/base.py:312`).
- An answer that cites a deleted document may be stored after the namespace was
  invalidated (`CACHE_SCHEDULER_AGENTIC.md:44`).
- `insert_document_and_chunks` says "in a single transaction" (`storage/base.py:41`,
  `README.md:39`); on SQLite these are two commits, on PostgreSQL one, and tree
  nodes and summaries come later on both (`README.md:446`).
- Chunk i of a batch is given the i-th result of `_generate_batch_sync`
  (`ingestion/summarizer.py:422`), but a batch whose decoding fails part-way has
  results at the wrong places.
- The maintenance task `refresh_embeddings` cannot work on SQLite; on PostgreSQL
  it embeds the text without the summary and overwrites what an ingestion may
  have embedded meanwhile.

Differences met while reading, which no property is about:

- *Corpus and scheduler.* `README.md` describes a `pending_embeddings` status
  that no code sets; `_find_contradiction` resolves the first match only; a
  rebuild drops the summaries from the full-text index; `cleanup_orphaned_chunks`
  looks for orphans that the foreign keys exclude, and so never removes orphaned
  index rows; cron's day of the week is counted from Monday; run on its own, the
  scheduler opens the store in one event loop and uses it in another, which the
  pool of PostgreSQL does not allow; `summarize_batch` says that batches run
  "sequentially and safely on MPS/GPU", which a cancelled caller's thread does
  not heed.
- *Parser and chunker.* Lines of a code block that is never closed, text below an
  image in its paragraph, statements and decorators outside Python definitions
  are not kept; repeated margin lines are suppressed although `cleaner.py:8`
  says never to discard semantic content. The HTML fallback flattens headings; a
  DOCX that Docling cannot read is decoded as text; tables of native readers have
  no rows and so are never split. `child_min_tokens` is never used; a chunk names
  the section of its last node; the OCR text of a figure is in the child only.
- *LLM client.* The notice stays when the key is removed, or comes back when a
  request with a replaced key fails late. Streams have neither timeout nor
  back-off. A Gemini stream of nothing but reasoning ends without an answer, and
  so does one of Groq whose reasoning ends at the marker of the answer; one
  that is refused as not found after it has sent something is followed by
  another model's. The vectors of the embedding fallback go into the index of
  the first model; a short list from NIM is not tried again with the second model.
- *Answering.* Answers of the planner count as supported without a check, with
  nothing retrieved too, and cite chunks twice that the prompt numbers once; a
  streamed aggregation is always reported as unsupported. A section named by one
  query stays in the filter of the request for later rewrites and plan steps. What
  `protect_consensus` guarantees for the pool ("Guarantee retention",
  `quality_gates.py:66`) is lost again when the parents are cut to `top_k`.
  Chunks that begin with the same 120 characters count as one. Insufficient
  evidence is answered all the same. A stripped answer that becomes the refusal
  passes with `refused=False`.

## Plan

Done: `JobLifecycle`, `Scheduler`, `QueryCache`, `PromotionGate`, `Corpus`,
`Summarizer`, `LlmClient`, `Answering`, `DocumentParser`, `Chunker` and
`DocumentText`, modelled and proved.

Left, in this order:

1. An abstract corpus whose methods are atomic, which the PostgreSQL backend
   implements step by step and SQLite with one coroutine.
2. `next_run_from_cron` against a reference definition.
3. The preferences of a user in `Answering` and in the cache key of `QueryCache`.

`QueryCache` takes the pipeline between lookup and store as any number of reads;
`Answering` is what happens there. `Corpus` takes the summaries an ingestion has
as given; `Summarizer` is how they come about. `Answering` takes the answers of
the model as given; `LlmClient` is where they come from, and `DocumentText` where
the chunks do.

## Not modelled

Texts and numbers a property does not distinguish (prompts, embeddings, scores,
the characters `TextCleaner` changes), HTTP, logging, the SQL of searches, schema
set-up and migrations, `chunk_sections` (the old path of `parse()`), the streamed
planner, the choice of models and rerankers by preferences, the start and end of
the process (`storage/__init__.py`, `api/app.py`: nothing is served before the
store is open or after it is closed), the web page, the command line and the
scripts. PROJECT.json gives the reason for each component.
