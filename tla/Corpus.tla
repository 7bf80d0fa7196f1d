------------------------------- MODULE Corpus -------------------------------
(***************************************************************************)
(* The document corpus: ingestion by the three pipelines, deletion,        *)
(* resumed embedding and the maintenance tasks.  On SQLite each is a       *)
(* coroutine that awaits one SQL statement after the other on the one      *)
(* connection of the store, so statements of different coroutines          *)
(* interleave inside the same open transaction, and any commit publishes   *)
(* whatever the others have executed so far.  On PostgreSQL every method   *)
(* is a transaction of its own on a connection of the pool, and coroutines *)
(* of several processes may use the same database.                         *)
(*                                                                         *)
(* A coroutine is the sequence of calls of the store it has yet to make;   *)
(* the first is under way, at the statement `line' of its method.  The     *)
(* child chunks of a document come in batches 1..Batches; parents follow   *)
(* their children.                                                         *)
(***************************************************************************)
EXTENDS Naturals, Sequences, FiniteSets, Functions

CONSTANTS
    Docs,      \* document ids; a fresh one for every ingestion
    Batches,   \* batches of child chunks of a document
    Workers,   \* coroutines that may use the store at the same time
    FtsCap,    \* bound: copies of a document in chunks_fts are counted up to here
    Backends   \* what settings.database_type may be

ASSUME CorpusAssumption == /\ Batches \in Nat \ {0} /\ FtsCap \in Nat \ {0, 1}
                           /\ Backends \subseteq {"sqlite", "postgres"}

VARIABLES
    live,    \* live[d]: the rows of d as the connection sees them
    disk,    \* disk[d]: the rows of d as of the last commit
    todo,    \* todo[w]: the calls of worker w, from the one under way on
    line,    \* line[w]: the statement worker w awaits next in that call
    used,    \* documents that have been given to an ingestion
    saved,   \* insert_document_and_chunks returned, and no delete since
    deleted, \* documents whose deletion was acknowledged
    raced,   \* history: documents whose index two coroutines wrote at once
    half,    \* history: as `raced', for the rows on disk
    early,   \* history: <<d, p>> read by a resume before its summary was stored,
             \* or by a backfill, which never reads summaries
    backend  \* settings.database_type

vars == <<live, disk, todo, line, used, saved, deleted, raced, half, early, backend>>

Parts == 1..Batches
Embedding == {"none", "plain", "contextual"}

\* `fts' counts the entries of each child chunk in the full-text index.
Rows == [doc : BOOLEAN, tree : BOOLEAN, chunks : BOOLEAN, sum : SUBSET Parts,
         emb : [Parts -> Embedding], fts : 0..FtsCap, ftsSum : SUBSET Parts]

Unembedded == [p \in Parts |-> "none"]

Absent == [doc |-> FALSE, tree |-> FALSE, chunks |-> FALSE, sum |-> {},
           emb |-> Unembedded, fts |-> 0, ftsSum |-> {}]

-----------------------------------------------------------------------------
(* The methods of the stores, as the statements they await on SQLite.      *)

InsertDocument == <<"insert-document", "commit">>
InsertChunks == <<"insert-chunks", "insert-fts", "commit">>

\* Defect variant: the store leaves the commit to its caller.
InsertDocumentAndChunksUncommitted ==
    <<"insert-document", "commit", "insert-chunks", "insert-fts", "saved">>

\* The other two, one after the other.
InsertDocumentAndChunks ==
    <<"insert-document", "commit", "insert-chunks", "insert-fts", "commit", "saved">>

\* PostgresStore has its own: the document and its chunks in one transaction.
InsertDocumentAndChunksAtOnce ==
    <<"insert-document", "insert-chunks", "insert-fts", "commit", "saved">>

Checkpoint == IF backend = "sqlite" THEN InsertDocumentAndChunks
              ELSE InsertDocumentAndChunksAtOnce

InsertTreeNodes == <<"insert-tree", "commit">>
UpdateChunkSummaries == <<"summarize-chunks", "summarize-fts", "commit">>
UpdateChunkEmbeddings == <<"embed", "commit">>

\* Defect variant: the index rows are left to the foreign keys.
DeleteRowsByCascade ==
    <<"delete-tree", "delete-chunks", "delete-chunks", "delete-document", "commit-delete">>

DeleteRows ==
    <<"delete-tree", "delete-fts", "delete-chunks", "delete-chunks",
      "delete-document", "commit-delete">>

RebuildFtsIndex == <<"delete-fts", "fill-fts", "commit">>
CleanupOrphanedChunks == <<"delete-fts", "delete-chunks", "commit">>

Methods == {"insert_document", "insert_chunks", "insert_document_and_chunks",
            "insert_tree_nodes", "update_chunk_summaries", "update_chunk_embeddings",
            "delete", "rebuild_fts_index", "cleanup_orphaned_chunks"}

Statements(method) ==
    CASE method = "insert_document" -> InsertDocument
      [] method = "insert_chunks" -> InsertChunks
      [] method = "insert_document_and_chunks" -> Checkpoint
      [] method = "insert_tree_nodes" -> InsertTreeNodes
      [] method = "update_chunk_summaries" -> UpdateChunkSummaries
      [] method = "update_chunk_embeddings" -> UpdateChunkEmbeddings
      [] method = "delete" -> DeleteRows
      [] method = "rebuild_fts_index" -> RebuildFtsIndex
      [] method = "cleanup_orphaned_chunks" -> CleanupOrphanedChunks

\* `parts' are the batches a call writes (an insert of chunks: those that come
\* embedded), `ctx' those whose summary the coroutine holds.
Calls == [method : Methods, docs : SUBSET Docs, parts : SUBSET Parts, ctx : SUBSET Parts]

Call(method, D, ps, ctx) == [method |-> method, docs |-> D, parts |-> ps, ctx |-> ctx]

-----------------------------------------------------------------------------
(* What a statement makes of the rows of one of its documents.             *)

Embedded(emb, ps, ctx) ==
    [p \in Parts |-> IF p \notin ps THEN emb[p]
                     ELSE IF p \in ctx THEN "contextual" ELSE "plain"]

WithoutChunks(r) == [doc |-> r.doc, tree |-> r.tree, chunks |-> FALSE, sum |-> {},
                     emb |-> Unembedded, fts |-> r.fts, ftsSum |-> r.ftsSum]

\* One more entry per child chunk: FTS5 tables have no key to conflict on.
Indexed(r) == [r EXCEPT !.fts = IF @ < FtsCap THEN @ + 1 ELSE @]

\* Foreign keys cascade to chunks and tree nodes; the full-text index of SQLite
\* has none.  On PostgreSQL it is a column of the chunks that a trigger keeps,
\* to the same effect as the index statements of the method.
Effect(op, c, r) ==
    CASE op = "insert-document" -> [r EXCEPT !.doc = TRUE]
      [] op = "insert-tree" -> [r EXCEPT !.tree = TRUE]
      [] op = "insert-chunks" ->
           [doc |-> r.doc, tree |-> r.tree, chunks |-> TRUE, sum |-> c.ctx,
            emb |-> Embedded(Unembedded, c.parts, c.ctx),
            fts |-> r.fts, ftsSum |-> r.ftsSum]
      [] op = "insert-fts" -> [Indexed(r) EXCEPT !.ftsSum = @ \cup c.ctx]
      [] op = "summarize-chunks" /\ r.chunks -> [r EXCEPT !.sum = @ \cup c.parts]
      [] op = "summarize-fts" /\ r.fts > 0 -> [r EXCEPT !.ftsSum = @ \cup c.parts]
      [] op = "embed" /\ r.chunks -> [r EXCEPT !.emb = Embedded(@, c.parts, c.ctx)]
      [] op = "delete-tree" -> [r EXCEPT !.tree = FALSE]
      [] op = "delete-fts" -> [r EXCEPT !.fts = 0, !.ftsSum = {}]
      [] op = "delete-chunks" -> WithoutChunks(r)
      [] op = "delete-document" ->
           [WithoutChunks(r) EXCEPT !.doc = FALSE, !.tree = FALSE]
      [] op = "fill-fts" /\ r.chunks -> Indexed(r)
      [] OTHER -> r

After(op, c, rows) ==
    [d \in Docs |-> IF d \in c.docs THEN Effect(op, c, rows[d]) ELSE rows[d]]

\* What the first n statements of a method make of the rows.
AfterAll(stmts, n, c, rows) ==
    LET after[i \in 0..Len(stmts)] == IF i = 0 THEN rows ELSE After(stmts[i], c, after[i - 1])
    IN after[n]

-----------------------------------------------------------------------------
(* The pipelines, and the tasks of the scheduler, as the calls they make.  *)

\* IngestionPipeline: summaries and embeddings first, in memory.
PlainIngest(d, sums) ==
    <<Call("insert_document", {d}, {}, {}), Call("insert_tree_nodes", {d}, {}, {}),
      Call("insert_chunks", {d}, Parts, sums)>>

EmbedEach(d, ctx) == [p \in Parts |-> Call("update_chunk_embeddings", {d}, {p}, ctx)]

Preserve(d) ==
    <<Call("insert_document_and_chunks", {d}, {}, {}),
      Call("insert_tree_nodes", {d}, {}, {})>>

\* SummaryIngestionPipeline.ingest: the summaries in one batch.
SummaryIngest(d, sums) ==
    Preserve(d)
      \o (IF sums = {} THEN <<>> ELSE <<Call("update_chunk_summaries", {d}, sums, {})>>)
      \o EmbedEach(d, sums)

SummarizeEach(d, sums) ==
    IF sums = {} THEN <<>>
    ELSE [p \in Parts |-> Call("update_chunk_summaries", {d}, {p}, {})]

\* Defect variant: the embeddings do not wait for the summaries.
StreamIngestEmbedsFirst(d, sums) ==
    Preserve(d) \o EmbedEach(d, {}) \o SummarizeEach(d, sums)

\* SummaryIngestionPipeline.ingest_stream: the summaries batch by batch.
StreamIngest(d, sums) == Preserve(d) \o SummarizeEach(d, sums) \o EmbedEach(d, sums)

UnembeddedChunks(d) ==
    {p \in Parts : live[d].chunks /\ live[d].emb[p] = "none"}

\* The batches of ps in order.
InOrder(ps) == {order \in [1..Cardinality(ps) -> ps] :
                  \A i, j \in DOMAIN order : i < j => order[i] < order[j]}

EmbedMissing(d, order, ctx) ==
    [i \in DOMAIN order |-> Call("update_chunk_embeddings", {d}, {order[i]}, ctx)]

Unembeddeds == {dp \in Docs \X Parts : dp[2] \in UnembeddedChunks(dp[1])}

\* The embeddings that are missing, up to a limit and in no order, of the texts
\* without their summaries.
BackfillMissingEmbeddings(found) ==
    [i \in DOMAIN found |->
       Call("update_chunk_embeddings", {found[i][1]}, {found[i][2]}, {})]

Orphans == {d \in Docs : ~live[d].doc}

-----------------------------------------------------------------------------
(* Requests and scheduled tasks.                                           *)

Init == /\ backend \in Backends
        /\ live = [d \in Docs |-> Absent]
        /\ disk = live
        /\ todo = [w \in Workers |-> <<>>]
        /\ line = [w \in Workers |-> 1]
        /\ used = {} /\ saved = {} /\ deleted = {}
        /\ raced = {} /\ half = {} /\ early = {}

Run(w, program) ==
    /\ todo[w] = <<>>
    /\ todo' = [todo EXCEPT ![w] = program]
    /\ UNCHANGED line

Ingest(w, d) ==
    /\ d \notin used
    /\ used' = used \cup {d}
    /\ \E sums \in {{}, Parts} :
         \E program \in {PlainIngest(d, sums), SummaryIngest(d, sums), StreamIngest(d, sums)} :
            Run(w, program)
    /\ UNCHANGED <<live, disk, saved, deleted, raced, half, early, backend>>

Delete(w) ==
    /\ \E D \in {{d} : d \in Docs} \cup {Docs} : Run(w, <<Call("delete", D, {}, {})>>)
    /\ UNCHANGED <<live, disk, used, saved, deleted, raced, half, early, backend>>

\* resume_document_embeddings: the chunks are read once, with their summaries.
ResumeEmbeddings(w, d) ==
    /\ live[d].doc
    /\ \E order \in InOrder(UnembeddedChunks(d)) :
          Run(w, EmbedMissing(d, order, live[d].sum))
    /\ early' = early \cup {<<d, p>> : p \in UnembeddedChunks(d) \ live[d].sum}
    /\ UNCHANGED <<live, disk, used, saved, deleted, raced, half, backend>>

\* The tasks reindex_corpus and cleanup_orphaned_docs.  On PostgreSQL there is
\* no index to rebuild.  Only orphaned chunks are looked for; orphaned index
\* rows go with them.
Maintain(w) ==
    /\ \/ backend = "sqlite" /\ Run(w, <<Call("rebuild_fts_index", Docs, {}, {})>>)
       \/ /\ \E d \in Orphans : live[d].chunks
          /\ Run(w, <<Call("cleanup_orphaned_chunks", Orphans, {}, {})>>)
    /\ UNCHANGED <<live, disk, used, saved, deleted, raced, half, early, backend>>

\* The task refresh_embeddings.  On SQLite it writes nothing: its first execute
\* call has an argument too many.
Refresh(w) ==
    /\ backend = "postgres"
    /\ \E n \in 0..Cardinality(Unembeddeds) : \E found \in Injection(1..n, Unembeddeds) :
         /\ Run(w, BackfillMissingEmbeddings(found))
         /\ early' = early \cup {found[i] : i \in 1..n}
    /\ UNCHANGED <<live, disk, used, saved, deleted, raced, half, backend>>

-----------------------------------------------------------------------------
(* One await of a coroutine.                                               *)

Busy(w) == todo[w] # <<>>
Current(w) == Head(todo[w])
Script(w) == Statements(Current(w).method)
Op(w) == Script(w)[line[w]]

At(w, op) == Busy(w) /\ Op(w) = op

\* The call is done when its n-th statement is, if that is its last.
AdvanceTo(w, n) ==
    IF n < Len(Script(w))
    THEN todo' = todo /\ line' = [line EXCEPT ![w] = n + 1]
    ELSE /\ todo' = [todo EXCEPT ![w] = Tail(@)]
         /\ line' = [line EXCEPT ![w] = 1]

Advance(w) == AdvanceTo(w, line[w])

Stop(w) == /\ todo' = [todo EXCEPT ![w] = <<>>]
           /\ line' = [line EXCEPT ![w] = 1]

\* Between its first and its last write to the index or to the chunks of d,
\* a coroutine relies on no other writing them.
Inside(w, d) ==
    /\ Busy(w)
    /\ Op(w) \in {"insert-fts", "delete-chunks", "delete-document", "fill-fts"}
    /\ d \in Current(w).docs

Disputed(w, d) == \E v \in Workers \ {w} : Inside(v, d)

IndexOps == {"insert-chunks", "insert-fts", "delete-fts", "delete-chunks",
             "delete-document", "fill-fts"}

\* Emptying the index of a document that nobody else is writing makes up for
\* earlier races.
RacedBy(w, op, D) ==
    LET disputes == {d \in D : Disputed(w, d)} IN
    CASE op = "delete-fts" -> (raced \ D) \cup disputes
      [] op \in IndexOps \ {"delete-fts"} -> raced \cup disputes
      [] OTHER -> raced

\* Defect variant: the connection does not enforce foreign keys.
ViolatesForeignKeyNever(op, D) == FALSE

ViolatesForeignKey(op, D) == /\ op \in {"insert-chunks", "insert-tree"}
                             /\ \E d \in D : ~live[d].doc

Deletes(op) == op \in {"delete-chunks", "delete-document"}
Commits(op) == op \in {"commit", "commit-delete"}

Execute(w) ==
    /\ backend = "sqlite"
    /\ Busy(w)
    /\ LET op == Op(w)
           c == Current(w)
       IN /\ ~Commits(op) /\ op # "saved"
          /\ ~ViolatesForeignKey(op, c.docs)
          /\ live' = After(op, c, live)
          /\ raced' = RacedBy(w, op, c.docs)
          /\ saved' = IF Deletes(op) THEN saved \ c.docs ELSE saved
    /\ Advance(w)
    /\ UNCHANGED <<disk, used, deleted, half, early, backend>>

\* The ingestion fails; on SQLite its open transaction stays.
Raise(w) ==
    /\ Busy(w)
    /\ ViolatesForeignKey(Op(w), Current(w).docs)
    /\ Stop(w)
    /\ UNCHANGED <<live, disk, used, saved, deleted, raced, half, early, backend>>

Publish == /\ disk' = live
           /\ half' = raced \cup {d \in Docs : \E w \in Workers : Inside(w, d)}

CommitOwn(w) ==
    /\ At(w, "commit")
    /\ Publish
    /\ Advance(w)
    /\ UNCHANGED <<live, used, saved, deleted, raced, early, backend>>

ToBeInserted(d) == \E w \in Workers : At(w, "insert-document") /\ d \in Current(w).docs

\* A document counts as deleted if it had been inserted when it was deleted.
Gone(D, rows) == {d \in D \cap used : ~rows[d].doc /\ ~ToBeInserted(d)}

CommitDelete(w) ==
    /\ At(w, "commit-delete")
    /\ Publish
    /\ deleted' = deleted \cup Gone(Current(w).docs, live)
    /\ Advance(w)
    /\ UNCHANGED <<live, used, saved, raced, early, backend>>

\* A method on PostgreSQL: its statements up to the commit, at once.
Transact(w) ==
    /\ backend = "postgres"
    /\ Busy(w) /\ Op(w) # "saved"
    /\ ~ViolatesForeignKey(Op(w), Current(w).docs)
    /\ LET c == Current(w)
           stmts == Script(w)
           n == CHOOSE i \in DOMAIN stmts : Commits(stmts[i])
       IN /\ live' = AfterAll(stmts, n - 1, c, live)
          /\ disk' = live'
          /\ saved' = IF \E i \in DOMAIN stmts : Deletes(stmts[i])
                      THEN saved \ c.docs ELSE saved
          /\ deleted' = IF stmts[n] = "commit-delete"
                        THEN deleted \cup Gone(c.docs, live') ELSE deleted
          /\ AdvanceTo(w, n)
    /\ UNCHANGED <<used, raced, half, early, backend>>

\* Any other method of the store commits on the same connection: jobs,
\* memory, event traces.
CommitForeign ==
    /\ live # disk
    /\ Publish
    /\ UNCHANGED <<live, todo, line, used, saved, deleted, raced, early, backend>>

\* The awaiting caller learns that its method is done.
ReturnSaved(w) ==
    /\ At(w, "saved")
    /\ saved' = saved \cup {d \in Current(w).docs : live[d].chunks}
    /\ Advance(w)
    /\ UNCHANGED <<live, disk, used, deleted, raced, half, early, backend>>

\* The embedding call raises: the rest of the batches is left for later.
PauseEmbedding(w) ==
    /\ At(w, "embed")
    /\ Stop(w)
    /\ UNCHANGED <<live, disk, used, saved, deleted, raced, half, early, backend>>

\* The parser, the model or the store raises, or the client of a stream goes
\* away: the coroutine ends where it is, and on SQLite its statements are not
\* undone.
Interrupt(w) ==
    /\ Busy(w)
    /\ raced' = raced \cup {d \in Docs : Inside(w, d)}
    /\ Stop(w)
    /\ UNCHANGED <<live, disk, used, saved, deleted, half, early, backend>>

\* The process stops and starts again on the same file.
Crash ==
    /\ live' = disk
    /\ raced' = half
    /\ todo' = [w \in Workers |-> <<>>]
    /\ line' = [w \in Workers |-> 1]
    /\ UNCHANGED <<disk, used, saved, deleted, half, early, backend>>

-----------------------------------------------------------------------------

Await(w) == \/ Execute(w) \/ Transact(w) \/ Raise(w) \/ CommitOwn(w) \/ ReturnSaved(w)
            \/ CommitDelete(w) \/ PauseEmbedding(w) \/ Interrupt(w)

Next == \/ \E w \in Workers, d \in Docs : Ingest(w, d) \/ ResumeEmbeddings(w, d)
        \/ \E w \in Workers : Delete(w) \/ Maintain(w) \/ Refresh(w) \/ Await(w)
        \/ CommitForeign
        \/ Crash

Spec == Init /\ [][Next]_vars

-----------------------------------------------------------------------------
(* Properties.                                                             *)

RespectsKeys(r) == /\ r.chunks \/ r.tree => r.doc
                   /\ ~r.chunks => r.sum = {} /\ r.emb = Unembedded

\* Every variable stays in its range, and no chunk or tree node outlives its
\* document, whatever overlaps an ingestion (the schema's foreign keys).
TypeOK ==
    /\ live \in [Docs -> Rows]
    /\ disk \in [Docs -> Rows]
    /\ \A d \in Docs : RespectsKeys(live[d]) /\ RespectsKeys(disk[d])
    /\ todo \in [Workers -> Seq(Calls)]
    /\ line \in [Workers -> Nat]
    /\ \A w \in Workers : line[w] \in 1..(IF Busy(w) THEN Len(Script(w)) ELSE 1)
    /\ saved \subseteq used /\ deleted \subseteq used /\ used \subseteq Docs
    /\ raced \subseteq Docs /\ half \subseteq Docs
    /\ early \subseteq Docs \X Parts
    /\ backend \in Backends
    /\ backend = "postgres" => live = disk

IndexMatches(r) == r.fts = IF r.chunks THEN 1 ELSE 0

\* The full-text index holds every child chunk of a document exactly once,
\* in the connection's view and on disk, unless two coroutines wrote its
\* chunks or its index at the same time or one was cut short while it did -
\* and emptying the index (a rebuild, a delete) makes up for that.
IndexExact ==
    \A d \in Docs :
       /\ d \notin raced /\ (\A w \in Workers : ~Inside(w, d)) => IndexMatches(live[d])
       /\ d \notin half => IndexMatches(disk[d])

\* What insert_document_and_chunks has returned survives everything but a
\* delete: the document and its chunks are on disk.
CheckpointSurvives == \A d \in saved : disk[d].doc /\ disk[d].chunks

\* A document whose deletion was acknowledged never comes back, neither
\* through an ingestion still under way nor through a crash.
DeletedStaysDeleted ==
    \A d \in deleted : \A r \in {live[d], disk[d]} : ~(r.doc \/ r.chunks \/ r.tree)

\* A chunk with a summary is embedded with it, unless a resume read the
\* chunk before the summary was there, or a backfill embedded it.
EmbeddedInContext ==
    \A d \in Docs, p \in Parts :
       p \in live[d].sum /\ live[d].emb[p] = "plain" => <<d, p>> \in early
=============================================================================
