---------------------------- MODULE CorpusProofs ----------------------------
(* Proofs about the document corpus, for any documents, batches and workers. *)
EXTENDS Corpus, SequenceTheorems, FiniteSetTheorems, TLAPS

-----------------------------------------------------------------------------
(* The methods.                                                            *)

\* The statements a method may begin with.
Starts == {"insert-document", "insert-chunks", "insert-tree", "summarize-chunks",
           "embed", "delete-tree", "delete-fts"}

\* What a statement says of the one before it in the method, and that one of it.
Follows(a, b) ==
    /\ b # "insert-document"
    /\ b = "insert-fts" <=> a = "insert-chunks"
    /\ b \in {"delete-chunks", "fill-fts"} => a \in {"delete-fts", "delete-chunks"}
    /\ b = "fill-fts" => a = "delete-fts"
    /\ b = "delete-document" => a = "delete-chunks"
    /\ b = "saved" => a = "commit"
    /\ a = "delete-fts" => b \in {"delete-chunks", "fill-fts"}

\* The shape of every method on SQLite.
LEMMA ScriptsFollow ==
    ASSUME NEW m \in Methods, backend = "sqlite", NEW i \in 1..Len(Statements(m)),
           i < Len(Statements(m))
    PROVE  Follows(Statements(m)[i], Statements(m)[i + 1])
<1>1. CASE m = "insert_document"
  <2>1. Statements(m) = InsertDocument /\ Len(InsertDocument) = 2
    BY <1>1 DEF Statements, InsertDocument
  <2>2. /\ Follows(InsertDocument[1], InsertDocument[2])
    BY DEF Follows, InsertDocument
  <2>3. i = 1
    BY <2>1
  <2> QED BY <2>1, <2>2, <2>3
<1>2. CASE m = "insert_chunks"
  <2>1. Statements(m) = InsertChunks /\ Len(InsertChunks) = 3
    BY <1>2 DEF Statements, InsertChunks
  <2>2. /\ Follows(InsertChunks[1], InsertChunks[2])
        /\ Follows(InsertChunks[2], InsertChunks[3])
    BY DEF Follows, InsertChunks
  <2>3. i = 1 \/ i = 2
    BY <2>1
  <2> QED BY <2>1, <2>2, <2>3
<1>3. CASE m = "insert_document_and_chunks"
  <2>1. Statements(m) = InsertDocumentAndChunks /\ Len(InsertDocumentAndChunks) = 6
    BY <1>3 DEF Statements, InsertDocumentAndChunks, Checkpoint
  <2>2. /\ Follows(InsertDocumentAndChunks[1], InsertDocumentAndChunks[2])
        /\ Follows(InsertDocumentAndChunks[2], InsertDocumentAndChunks[3])
        /\ Follows(InsertDocumentAndChunks[3], InsertDocumentAndChunks[4])
        /\ Follows(InsertDocumentAndChunks[4], InsertDocumentAndChunks[5])
        /\ Follows(InsertDocumentAndChunks[5], InsertDocumentAndChunks[6])
    BY DEF Follows, InsertDocumentAndChunks
  <2>3. i = 1 \/ i = 2 \/ i = 3 \/ i = 4 \/ i = 5
    BY <2>1
  <2> QED BY <2>1, <2>2, <2>3
<1>4. CASE m = "insert_tree_nodes"
  <2>1. Statements(m) = InsertTreeNodes /\ Len(InsertTreeNodes) = 2
    BY <1>4 DEF Statements, InsertTreeNodes
  <2>2. /\ Follows(InsertTreeNodes[1], InsertTreeNodes[2])
    BY DEF Follows, InsertTreeNodes
  <2>3. i = 1
    BY <2>1
  <2> QED BY <2>1, <2>2, <2>3
<1>5. CASE m = "update_chunk_summaries"
  <2>1. Statements(m) = UpdateChunkSummaries /\ Len(UpdateChunkSummaries) = 3
    BY <1>5 DEF Statements, UpdateChunkSummaries
  <2>2. /\ Follows(UpdateChunkSummaries[1], UpdateChunkSummaries[2])
        /\ Follows(UpdateChunkSummaries[2], UpdateChunkSummaries[3])
    BY DEF Follows, UpdateChunkSummaries
  <2>3. i = 1 \/ i = 2
    BY <2>1
  <2> QED BY <2>1, <2>2, <2>3
<1>6. CASE m = "update_chunk_embeddings"
  <2>1. Statements(m) = UpdateChunkEmbeddings /\ Len(UpdateChunkEmbeddings) = 2
    BY <1>6 DEF Statements, UpdateChunkEmbeddings
  <2>2. /\ Follows(UpdateChunkEmbeddings[1], UpdateChunkEmbeddings[2])
    BY DEF Follows, UpdateChunkEmbeddings
  <2>3. i = 1
    BY <2>1
  <2> QED BY <2>1, <2>2, <2>3
<1>7. CASE m = "delete"
  <2>1. Statements(m) = DeleteRows /\ Len(DeleteRows) = 6
    BY <1>7 DEF Statements, DeleteRows
  <2>2. /\ Follows(DeleteRows[1], DeleteRows[2])
        /\ Follows(DeleteRows[2], DeleteRows[3])
        /\ Follows(DeleteRows[3], DeleteRows[4])
        /\ Follows(DeleteRows[4], DeleteRows[5])
        /\ Follows(DeleteRows[5], DeleteRows[6])
    BY DEF Follows, DeleteRows
  <2>3. i = 1 \/ i = 2 \/ i = 3 \/ i = 4 \/ i = 5
    BY <2>1
  <2> QED BY <2>1, <2>2, <2>3
<1>8. CASE m = "rebuild_fts_index"
  <2>1. Statements(m) = RebuildFtsIndex /\ Len(RebuildFtsIndex) = 3
    BY <1>8 DEF Statements, RebuildFtsIndex
  <2>2. /\ Follows(RebuildFtsIndex[1], RebuildFtsIndex[2])
        /\ Follows(RebuildFtsIndex[2], RebuildFtsIndex[3])
    BY DEF Follows, RebuildFtsIndex
  <2>3. i = 1 \/ i = 2
    BY <2>1
  <2> QED BY <2>1, <2>2, <2>3
<1>9. CASE m = "cleanup_orphaned_chunks"
  <2>1. Statements(m) = CleanupOrphanedChunks /\ Len(CleanupOrphanedChunks) = 3
    BY <1>9 DEF Statements, CleanupOrphanedChunks
  <2>2. /\ Follows(CleanupOrphanedChunks[1], CleanupOrphanedChunks[2])
        /\ Follows(CleanupOrphanedChunks[2], CleanupOrphanedChunks[3])
    BY DEF Follows, CleanupOrphanedChunks
  <2>3. i = 1 \/ i = 2
    BY <2>1
  <2> QED BY <2>1, <2>2, <2>3
<1> QED BY <1>1, <1>2, <1>3, <1>4, <1>5, <1>6, <1>7, <1>8, <1>9 DEF Methods

\* Every method has at least two statements, and how it begins and ends.
LEMMA ScriptsAre ==
    ASSUME NEW m \in Methods
    PROVE  /\ Len(Statements(m)) \in 2..6
           /\ DOMAIN Statements(m) = 1..Len(Statements(m))
           /\ Statements(m)[1] \in Starts
           /\ Statements(m)[Len(Statements(m))] \in {"commit", "commit-delete", "saved"}
<1>1. CASE m = "insert_document"
  BY <1>1 DEF Statements, InsertDocument, Starts
<1>2. CASE m = "insert_chunks"
  BY <1>2 DEF Statements, InsertChunks, Starts
<1>3. CASE m = "insert_document_and_chunks" /\ backend = "sqlite"
  BY <1>3 DEF Statements, Checkpoint, InsertDocumentAndChunks, Starts
<1>10. CASE m = "insert_document_and_chunks" /\ backend # "sqlite"
  BY <1>10 DEF Statements, Checkpoint, InsertDocumentAndChunksAtOnce, Starts
<1>4. CASE m = "insert_tree_nodes"
  BY <1>4 DEF Statements, InsertTreeNodes, Starts
<1>5. CASE m = "update_chunk_summaries"
  BY <1>5 DEF Statements, UpdateChunkSummaries, Starts
<1>6. CASE m = "update_chunk_embeddings"
  BY <1>6 DEF Statements, UpdateChunkEmbeddings, Starts
<1>7. CASE m = "delete"
  BY <1>7 DEF Statements, DeleteRows, Starts
<1>8. CASE m = "rebuild_fts_index"
  BY <1>8 DEF Statements, RebuildFtsIndex, Starts
<1>9. CASE m = "cleanup_orphaned_chunks"
  BY <1>9 DEF Statements, CleanupOrphanedChunks, Starts
<1> QED BY <1>1, <1>2, <1>3, <1>4, <1>5, <1>6, <1>7, <1>8, <1>9, <1>10 DEF Methods

-----------------------------------------------------------------------------
(* The calls that workers have yet to make.                                *)

Pending(w) == {todo[w][i] : i \in 1..Len(todo[w])}

\* What order the calls of a pipeline have: a document is inserted by the first
\* call only, and chunks once.
Tidy(calls) ==
    \A i \in 1..Len(calls) :
       /\ i > 1 => calls[i].method \notin {"insert_document", "insert_document_and_chunks"}
       /\ calls[i].method = "insert_chunks" =>
            /\ i = Len(calls)
            /\ \A j \in 1..Len(calls) : calls[j].method # "insert_document_and_chunks"

\* Typing of the workers, which TypeOK has of every state.
Workable ==
    /\ todo \in [Workers -> Seq(Calls)]
    /\ line \in [Workers -> Nat]
    /\ \A w \in Workers : line[w] \in 1..(IF Busy(w) THEN Len(Script(w)) ELSE 1)
    /\ \A w \in Workers : Tidy(todo[w])

\* No worker has more to do than before.
Shrinks ==
    \A w \in Workers : \/ todo'[w] \in {todo[w], <<>>}
                       \/ Busy(w) /\ todo'[w] = Tail(todo[w])

\* The call under way.
LEMMA CurrentIs ==
    ASSUME Workable, NEW w \in Workers, Busy(w)
    PROVE  /\ Current(w) \in Calls
           /\ Current(w).method \in Methods
           /\ Current(w).docs \subseteq Docs
           /\ Current(w) \in Pending(w)
           /\ Current(w) = todo[w][1]
           /\ Len(todo[w]) \in Nat \ {0}
           /\ line[w] \in 1..Len(Script(w))
           /\ Len(Script(w)) \in 2..6
<1>1. todo[w] \in Seq(Calls) /\ todo[w] # <<>>
  BY DEF Workable, Busy
<1>2. Len(todo[w]) \in Nat \ {0}
  BY <1>1, EmptySeq
<1>3. Current(w) = todo[w][1]
  BY <1>1, <1>2 DEF Current
<1>4. Current(w) \in Calls
  BY <1>1, HeadTailProperties DEF Current
<1>5. Current(w) \in Pending(w)
  BY <1>2, <1>3 DEF Pending
<1>6. Current(w).method \in Methods /\ Current(w).docs \subseteq Docs
  BY <1>4 DEF Calls
<1>7. Len(Script(w)) \in 2..6
  BY <1>6, ScriptsAre DEF Script
<1> QED BY <1>2, <1>3, <1>4, <1>5, <1>6, <1>7 DEF Workable

\* Calls are only dropped from the front.
LEMMA Shrunk ==
    ASSUME Workable, Shrinks, NEW w \in Workers
    PROVE  /\ todo'[w] \in Seq(Calls)
           /\ Pending(w)' \subseteq Pending(w)
           /\ Tidy(todo'[w])
<1>1. todo[w] \in Seq(Calls)
  BY DEF Workable
<1>2. CASE todo'[w] = todo[w]
  BY <1>1, <1>2 DEF Workable, Pending
<1>3. CASE todo'[w] = <<>>
  BY <1>3, EmptySeq DEF Pending, Tidy
<1>4. CASE Busy(w) /\ todo'[w] = Tail(todo[w])
  <2>1. /\ Tail(todo[w]) \in Seq(Calls)
        /\ Len(todo[w]) \in Nat \ {0}
        /\ Len(Tail(todo[w])) = Len(todo[w]) - 1
        /\ \A i \in 1..Len(Tail(todo[w])) : Tail(todo[w])[i] = todo[w][i + 1]
    BY <1>1, <1>4, HeadTailProperties, EmptySeq DEF Busy
  <2>2. \A i \in 1..Len(Tail(todo[w])) : i + 1 \in 1..Len(todo[w]) /\ i + 1 > 1
    BY <2>1
  <2>3. Tidy(todo[w])
    BY DEF Workable
  <2>4. Tidy(Tail(todo[w]))
    <3> SUFFICES ASSUME NEW i \in 1..Len(Tail(todo[w]))
                 PROVE  /\ Tail(todo[w])[i].method \notin
                             {"insert_document", "insert_document_and_chunks"}
                        /\ Tail(todo[w])[i].method = "insert_chunks" =>
                             /\ i = Len(Tail(todo[w]))
                             /\ \A j \in 1..Len(Tail(todo[w])) :
                                   Tail(todo[w])[j].method # "insert_document_and_chunks"
      BY DEF Tidy
    <3> QED BY <2>1, <2>2, <2>3 DEF Tidy
  <2>5. Pending(w)' \subseteq Pending(w)
    BY <1>4, <2>1, <2>2 DEF Pending
  <2> QED BY <1>4, <2>1, <2>4, <2>5
<1> QED BY <1>2, <1>3, <1>4 DEF Shrinks

\* The methods stay what they are.
LEMMA SameScripts ==
    ASSUME backend' = backend
    PROVE  \A m : Statements(m)' = Statements(m)
BY DEF Statements, Checkpoint

\* A worker that does nothing stays where it is.
LEMMA Same ==
    ASSUME NEW v, todo'[v] = todo[v], line'[v] = line[v], backend' = backend
    PROVE  /\ Busy(v)' = Busy(v) /\ Current(v)' = Current(v)
           /\ Script(v)' = Script(v) /\ Op(v)' = Op(v)
           /\ Pending(v)' = Pending(v)
           /\ \A op : At(v, op)' = At(v, op)
           /\ \A d : Inside(v, d)' = Inside(v, d)
<1>1. Current(v)' = Current(v) /\ Busy(v)' = Busy(v) /\ Pending(v)' = Pending(v)
  BY DEF Current, Busy, Pending
<1>2. Script(v)' = Script(v)
  BY <1>1, SameScripts DEF Script
<1>3. Op(v)' = Op(v)
  BY <1>2 DEF Op
<1> QED BY <1>1, <1>2, <1>3 DEF At, Inside

\* A method has a first statement.
LEMMA FirstIn == ASSUME NEW n \in 2..6 PROVE 1 \in 1..n
OBVIOUS

\* A worker at the first statement of a call.
LEMMA Lined ==
    ASSUME NEW calls \in Seq(Calls), calls # <<>>
    PROVE  1 \in 1..Len(Statements(Head(calls).method))
<1>1. Head(calls) \in Calls
  BY HeadTailProperties
<1>2. Head(calls).method \in Methods
  BY <1>1 DEF Calls
<1>3. Len(Statements(Head(calls).method)) \in 2..6
  BY <1>2, ScriptsAre
<1> QED BY <1>3, FirstIn

\* What AdvanceTo changes.
LEMMA Advanced ==
    ASSUME Workable, NEW w \in Workers, Busy(w), NEW n \in 1..Len(Script(w)),
           AdvanceTo(w, n), backend' = backend
    PROVE  /\ Shrinks
           /\ Workable'
           /\ \A v \in Workers \ {w} : todo'[v] = todo[v] /\ line'[v] = line[v]
           /\ \/ n < Len(Script(w)) /\ todo'[w] = todo[w] /\ line'[w] = n + 1
              \/ n = Len(Script(w)) /\ todo'[w] = Tail(todo[w]) /\ line'[w] = 1
<1>1. Len(Script(w)) \in 2..6 /\ n \in Nat
  BY CurrentIs
<1>2. todo \in [Workers -> Seq(Calls)] /\ line \in [Workers -> Nat]
  BY DEF Workable
<1>3. \/ n < Len(Script(w)) /\ todo' = todo /\ line' = [line EXCEPT ![w] = n + 1]
      \/ /\ n = Len(Script(w))
         /\ todo' = [todo EXCEPT ![w] = Tail(todo[w])]
         /\ line' = [line EXCEPT ![w] = 1]
  BY <1>1 DEF AdvanceTo
<1>4. /\ \A v \in Workers \ {w} : todo'[v] = todo[v] /\ line'[v] = line[v]
      /\ \/ n < Len(Script(w)) /\ todo'[w] = todo[w] /\ line'[w] = n + 1
         \/ n = Len(Script(w)) /\ todo'[w] = Tail(todo[w]) /\ line'[w] = 1
  BY <1>2, <1>3
<1>5. Shrinks
  BY <1>4 DEF Shrinks
<1>6. todo' \in [Workers -> Seq(Calls)] /\ \A v \in Workers : Tidy(todo'[v])
  <2>1. \A v \in Workers : todo'[v] \in Seq(Calls) /\ Tidy(todo'[v])
    BY <1>5, Shrunk
  <2>2. todo' = [v \in Workers |-> todo'[v]]
    BY <1>2, <1>3
  <2> QED BY <2>1, <2>2
<1>7. line' \in [Workers -> Nat]
  <2>1. n + 1 \in Nat /\ 1 \in Nat
    BY <1>1
  <2> QED BY <1>2, <1>3, <2>1
<1>8. ASSUME NEW v \in Workers
      PROVE  line'[v] \in 1..(IF Busy(v)' THEN Len(Script(v)') ELSE 1)
  <2>1. CASE v # w
    BY <1>4, <2>1, Same DEF Workable
  <2>2. CASE v = w /\ n < Len(Script(w)) /\ todo'[w] = todo[w] /\ line'[w] = n + 1
    <3>1. Busy(w)' /\ Script(w)' = Script(w)
      BY <2>2, SameScripts DEF Busy, Script, Current
    <3> QED BY <1>1, <2>2, <3>1
  <2>3. CASE v = w /\ line'[w] = 1
    <3>1. CASE todo'[w] = <<>>
      BY <2>3, <3>1 DEF Busy
    <3>2. CASE todo'[w] # <<>>
      <4>1. todo'[w] \in Seq(Calls)
        BY <1>6
      <4>2. 1 \in 1..Len(Statements(Head(todo'[w]).method))
        BY <3>2, <4>1, Lined
      <4>3. Script(w)' = Statements(Head(todo'[w]).method)
        BY SameScripts DEF Script, Current
      <4> QED BY <2>3, <3>2, <4>2, <4>3 DEF Busy
    <3> QED BY <3>1, <3>2
  <2> QED BY <1>4, <2>1, <2>2, <2>3
<1> QED BY <1>4, <1>5, <1>6, <1>7, <1>8 DEF Workable

\* What Stop changes.
LEMMA Stopped ==
    ASSUME Workable, NEW w \in Workers, Stop(w), backend' = backend
    PROVE  /\ Shrinks
           /\ Workable'
           /\ \A v \in Workers \ {w} : todo'[v] = todo[v] /\ line'[v] = line[v]
           /\ ~Busy(w)'
<1>1. todo \in [Workers -> Seq(Calls)] /\ line \in [Workers -> Nat]
  BY DEF Workable
<1>2. /\ \A v \in Workers \ {w} : todo'[v] = todo[v] /\ line'[v] = line[v]
      /\ todo'[w] = <<>> /\ line'[w] = 1
      /\ line' \in [Workers -> Nat]
  BY <1>1 DEF Stop
<1>3. Shrinks
  BY <1>2 DEF Shrinks
<1>4. todo' \in [Workers -> Seq(Calls)] /\ \A v \in Workers : Tidy(todo'[v])
  <2>1. \A v \in Workers : todo'[v] \in Seq(Calls) /\ Tidy(todo'[v])
    BY <1>3, Shrunk
  <2>2. todo' = [v \in Workers |-> todo'[v]]
    BY <1>1 DEF Stop
  <2> QED BY <2>1, <2>2
<1>5. ~Busy(w)'
  BY <1>2 DEF Busy
<1>6. ASSUME NEW v \in Workers
      PROVE  line'[v] \in 1..(IF Busy(v)' THEN Len(Script(v)') ELSE 1)
  <2>1. CASE v # w
    BY <1>2, <2>1, Same DEF Workable
  <2> QED BY <1>2, <1>5, <2>1
<1> QED BY <1>2, <1>3, <1>4, <1>5, <1>6 DEF Workable

-----------------------------------------------------------------------------
(* Statements.                                                             *)

Ops == {"insert-document", "insert-tree", "insert-chunks", "insert-fts",
        "summarize-chunks", "summarize-fts", "embed", "delete-tree", "delete-fts",
        "delete-chunks", "delete-document", "fill-fts"}

\* Embeddings are embeddings.
LEMMA EmbeddedTyped ==
    ASSUME NEW emb \in [Parts -> Embedding], NEW ps, NEW ctx
    PROVE  Embedded(emb, ps, ctx) \in [Parts -> Embedding]
BY DEF Embedded, Embedding

\* An entry more is an entry more, up to the bound.
LEMMA IndexedIs ==
    ASSUME NEW r \in Rows
    PROVE  /\ Indexed(r) \in Rows
           /\ Indexed(r).doc = r.doc /\ Indexed(r).tree = r.tree
           /\ Indexed(r).chunks = r.chunks /\ Indexed(r).sum = r.sum
           /\ Indexed(r).emb = r.emb /\ Indexed(r).ftsSum = r.ftsSum
           /\ r.fts = 0 => Indexed(r).fts = 1
BY CorpusAssumption DEF Indexed, Rows

\* What a statement op of the call c makes of the rows r: the rows e.
Makes(op, c, r, e) ==
    /\ e.doc = IF op = "insert-document" THEN TRUE
               ELSE IF op = "delete-document" THEN FALSE ELSE r.doc
    /\ e.tree = IF op = "insert-tree" THEN TRUE
                ELSE IF op \in {"delete-tree", "delete-document"} THEN FALSE ELSE r.tree
    /\ e.chunks = IF op = "insert-chunks" THEN TRUE
                  ELSE IF op \in {"delete-chunks", "delete-document"} THEN FALSE
                  ELSE r.chunks
    /\ e.sum = IF op = "insert-chunks" THEN c.ctx
               ELSE IF op \in {"delete-chunks", "delete-document"} THEN {}
               ELSE IF op = "summarize-chunks" /\ r.chunks THEN r.sum \cup c.parts
               ELSE r.sum
    /\ e.emb = IF op = "insert-chunks" THEN Embedded(Unembedded, c.parts, c.ctx)
               ELSE IF op \in {"delete-chunks", "delete-document"} THEN Unembedded
               ELSE IF op = "embed" /\ r.chunks THEN Embedded(r.emb, c.parts, c.ctx)
               ELSE r.emb
    /\ op = "delete-fts" => e.fts = 0
    /\ op = "insert-fts" /\ r.fts = 0 => e.fts = 1
    /\ op = "fill-fts" /\ r.fts = 0 /\ r.chunks => e.fts = 1
    /\ op = "fill-fts" /\ ~r.chunks => e.fts = r.fts
    /\ op \notin {"insert-fts", "fill-fts", "delete-fts"} => e.fts = r.fts

\* What each statement makes of the rows of a document.
LEMMA EffectIs ==
    ASSUME NEW r \in Rows, NEW c \in Calls, NEW op
    PROVE  /\ Effect(op, c, r) \in Rows
           /\ Makes(op, c, r, Effect(op, c, r))
<1>1. /\ r.doc \in BOOLEAN /\ r.tree \in BOOLEAN /\ r.chunks \in BOOLEAN
      /\ r.sum \subseteq Parts /\ r.emb \in [Parts -> Embedding]
      /\ r.fts \in 0..FtsCap /\ r.ftsSum \subseteq Parts
      /\ c.ctx \subseteq Parts /\ c.parts \subseteq Parts
  BY DEF Rows, Calls
<1>2. Unembedded \in [Parts -> Embedding]
  BY DEF Unembedded, Embedding
<1>3. /\ Embedded(Unembedded, c.parts, c.ctx) \in [Parts -> Embedding]
      /\ Embedded(r.emb, c.parts, c.ctx) \in [Parts -> Embedding]
  BY <1>1, <1>2, EmbeddedTyped
<1>4. 0 \in 0..FtsCap
  BY CorpusAssumption
<1>5. CASE op = "insert-document"
  BY <1>5, <1>1, <1>2, <1>3, <1>4 DEF Effect, Makes, Rows
<1>6. CASE op = "insert-tree"
  BY <1>6, <1>1, <1>2, <1>3, <1>4 DEF Effect, Makes, Rows
<1>7. CASE op = "insert-chunks"
  BY <1>7, <1>1, <1>2, <1>3, <1>4 DEF Effect, Makes, Rows
<1>8. CASE op = "insert-fts"
  BY <1>8, <1>1, <1>2, <1>3, <1>4, IndexedIs DEF Effect, Makes, Rows
<1>9. CASE op = "summarize-chunks"
  BY <1>9, <1>1, <1>2, <1>3, <1>4 DEF Effect, Makes, Rows
<1>10. CASE op = "summarize-fts"
  BY <1>10, <1>1, <1>2, <1>3, <1>4 DEF Effect, Makes, Rows
<1>11. CASE op = "embed"
  BY <1>11, <1>1, <1>2, <1>3, <1>4 DEF Effect, Makes, Rows
<1>12. CASE op = "delete-tree"
  BY <1>12, <1>1, <1>2, <1>3, <1>4 DEF Effect, Makes, Rows
<1>13. CASE op = "delete-fts"
  BY <1>13, <1>1, <1>2, <1>3, <1>4 DEF Effect, Makes, Rows
<1>14. CASE op = "delete-chunks"
  BY <1>14, <1>1, <1>2, <1>3, <1>4 DEF Effect, Makes, Rows, WithoutChunks
<1>15. CASE op = "delete-document"
  BY <1>15, <1>1, <1>2, <1>3, <1>4 DEF Effect, Makes, Rows, WithoutChunks
<1>16. CASE op = "fill-fts"
  BY <1>16, <1>1, <1>2, <1>3, <1>4, IndexedIs DEF Effect, Makes, Rows
<1>17. CASE op \notin Ops
  BY <1>17 DEF Effect, Makes, Ops
<1> QED BY <1>5, <1>6, <1>7, <1>8, <1>9, <1>10, <1>11, <1>12, <1>13, <1>14, <1>15, <1>16,
           <1>17 DEF Ops

\* A statement concerns the rows of the documents of its call.
LEMMA AfterIs ==
    ASSUME NEW rows \in [Docs -> Rows], NEW c \in Calls, NEW op
    PROVE  /\ After(op, c, rows) \in [Docs -> Rows]
           /\ \A d \in Docs : After(op, c, rows)[d] =
                 IF d \in c.docs THEN Effect(op, c, rows[d]) ELSE rows[d]
<1>1. ASSUME NEW d \in Docs
      PROVE  Effect(op, c, rows[d]) \in Rows
  <2>1. rows[d] \in Rows
    OBVIOUS
  <2> QED BY <2>1, EffectIs
<1> QED BY <1>1 DEF After

\* The numbers up to six.
LEMMA UpToSix ==
    ASSUME NEW n \in 2..6, NEW i \in 0..n
    PROVE  i = 0 \/ i = 1 \/ i = 2 \/ i = 3 \/ i = 4 \/ i = 5 \/ i = 6
OBVIOUS

OneByOne(stmts, c, rows) ==
    /\ AfterAll(stmts, 0, c, rows) = rows
    /\ \A k \in 1..Len(stmts) :
          AfterAll(stmts, k, c, rows)
              = After(stmts[k], c, AfterAll(stmts, k - 1, c, rows))

\* The statements of a transaction take effect one after the other.
LEMMA AfterAllIs ==
    ASSUME NEW stmts, NEW c, NEW rows, Len(stmts) \in 2..6
    PROVE  OneByOne(stmts, c, rows)
<1> DEFINE next(k, r) == After(stmts[k], c, r)
           r1 == next(1, rows)
           r2 == next(2, r1)
           r3 == next(3, r2)
           r4 == next(4, r3)
           r5 == next(5, r4)
           r6 == next(6, r5)
           f == [i \in 0..Len(stmts) |-> IF i = 0 THEN rows ELSE IF i = 1 THEN r1
                    ELSE IF i = 2 THEN r2 ELSE IF i = 3 THEN r3 ELSE IF i = 4 THEN r4
                    ELSE IF i = 5 THEN r5 ELSE r6]
           Steps(g) == g = [i \in 0..Len(stmts) |->
                              IF i = 0 THEN rows ELSE next(i, g[i - 1])]
           after == CHOOSE g : Steps(g)
<1> HIDE DEF next
<1>1. Steps(f)
  <2>1. \A i \in 0..Len(stmts) : f[i] = IF i = 0 THEN rows ELSE next(i, f[i - 1])
    <3> SUFFICES ASSUME NEW i \in 0..Len(stmts)
                 PROVE  f[i] = IF i = 0 THEN rows ELSE next(i, f[i - 1])
      OBVIOUS
    <3>1. i = 0 \/ i = 1 \/ i = 2 \/ i = 3 \/ i = 4 \/ i = 5 \/ i = 6
      BY UpToSix
    <3> QED BY <3>1
  <2> QED BY <2>1
<1>2. Steps(after)
  <2> HIDE DEF Steps
  <2> QED BY <1>1
<1> HIDE DEF f, r1, r2, r3, r4, r5, r6
<1>3. \A i \in 0..Len(stmts) : after[i] = IF i = 0 THEN rows ELSE next(i, after[i - 1])
  BY <1>2
<1>4. \A k : AfterAll(stmts, k, c, rows) = after[k]
  BY DEF AfterAll, next
<1> HIDE DEF after, Steps
<1>5. \A k \in 1..Len(stmts) : k \in 0..Len(stmts) /\ k # 0
  OBVIOUS
<1>6. 0 \in 0..Len(stmts)
  OBVIOUS
<1>7. \A k \in 1..Len(stmts) : after[k] = next(k, after[k - 1])
  BY <1>3, <1>5
<1> QED BY <1>3, <1>4, <1>6, <1>7 DEF next, OneByOne

\* A statement takes the rows `before' to the rows `after'.
Takes(op, c, before, after) ==
    /\ after \in [Docs -> Rows]
    /\ \A d \in Docs : IF d \in c.docs THEN before[d] \in Rows /\ Makes(op, c, before[d], after[d])
                      ELSE after[d] = before[d]

\* What After does.
LEMMA AfterTakes ==
    ASSUME NEW rows \in [Docs -> Rows], NEW c \in Calls, NEW op
    PROVE  Takes(op, c, rows, After(op, c, rows))
<1>1. ASSUME NEW d \in Docs, d \in c.docs
      PROVE  /\ rows[d] \in Rows
             /\ Makes(op, c, rows[d], After(op, c, rows)[d])
  <2>1. rows[d] \in Rows
    OBVIOUS
  <2>2. After(op, c, rows)[d] = Effect(op, c, rows[d])
    BY <1>1, AfterIs
  <2> QED BY <2>1, <2>2, EffectIs
<1> QED BY <1>1, AfterIs DEF Takes

\* A statement of a transaction finds what the one before it left.
LEMMA NextTakes ==
    ASSUME NEW stmts, Len(stmts) \in 2..6, NEW c \in Calls, NEW rows,
           NEW k \in 1..Len(stmts), NEW j, k = j + 1, j \in Nat, NEW op, stmts[k] = op,
           AfterAll(stmts, j, c, rows) \in [Docs -> Rows]
    PROVE  Takes(op, c, AfterAll(stmts, j, c, rows), AfterAll(stmts, k, c, rows))
<1>1. OneByOne(stmts, c, rows)
  BY AfterAllIs, Zenon
<1>2. AfterAll(stmts, k, c, rows) = After(stmts[k], c, AfterAll(stmts, k - 1, c, rows))
  BY <1>1, Zenon DEF OneByOne
<1>3. k - 1 = j
  OBVIOUS
<1> QED BY <1>2, <1>3, AfterTakes, Zenon

\* The only commit of a script is the one found.
LEMMA TheOnly ==
    ASSUME NEW s, NEW n \in DOMAIN s, \A i \in DOMAIN s : Commits(s[i]) <=> i = n
    PROVE  (CHOOSE i \in DOMAIN s : Commits(s[i])) = n
<1> DEFINE P(i) == i \in DOMAIN s /\ Commits(s[i])
           x == CHOOSE i : P(i)
<1>1. P(n)
  OBVIOUS
<1>2. P(x)
  <2> HIDE DEF P
  <2> QED BY <1>1
<1>3. x = n
  <2> HIDE DEF x
  <2> QED BY <1>2
<1>4. x = CHOOSE i \in DOMAIN s : Commits(s[i])
  OBVIOUS
<1> HIDE DEF x
<1> QED BY <1>3, <1>4


\* What a method makes of the rows r of a document of its call, if it is one
\* transaction: the rows e.
Transacts(m, c, r, e) ==
    /\ e.doc = IF m \in {"insert_document", "insert_document_and_chunks"} THEN TRUE
               ELSE IF m = "delete" THEN FALSE ELSE r.doc
    /\ e.tree = IF m = "insert_tree_nodes" THEN TRUE
                ELSE IF m = "delete" THEN FALSE ELSE r.tree
    /\ e.chunks = IF m \in {"insert_chunks", "insert_document_and_chunks"} THEN TRUE
                  ELSE IF m \in {"delete", "cleanup_orphaned_chunks"} THEN FALSE
                  ELSE r.chunks
    /\ e.sum = IF m \in {"insert_chunks", "insert_document_and_chunks"} THEN c.ctx
               ELSE IF m \in {"delete", "cleanup_orphaned_chunks"} THEN {}
               ELSE IF m = "update_chunk_summaries" /\ r.chunks THEN r.sum \cup c.parts
               ELSE r.sum
    /\ e.emb = IF m \in {"insert_chunks", "insert_document_and_chunks"}
               THEN Embedded(Unembedded, c.parts, c.ctx)
               ELSE IF m \in {"delete", "cleanup_orphaned_chunks"} THEN Unembedded
               ELSE IF m = "update_chunk_embeddings" /\ r.chunks
               THEN Embedded(r.emb, c.parts, c.ctx)
               ELSE r.emb
    /\ m \in {"insert_chunks", "insert_document_and_chunks"} /\ r.fts = 0 => e.fts = 1
    /\ m \in {"delete", "cleanup_orphaned_chunks"} => e.fts = 0
    /\ m = "rebuild_fts_index" => e.fts = IF r.chunks THEN 1 ELSE 0
    /\ m \in {"insert_document", "insert_tree_nodes", "update_chunk_summaries",
              "update_chunk_embeddings"} => e.fts = r.fts

\* Where the transaction of a method ends.
LastOf(m) == CHOOSE i \in DOMAIN Statements(m) : Commits(Statements(m)[i])

\* A transaction of the method m, whose commit is its n-th statement, takes the
\* rows to those it makes of them, and is followed by nothing, or by the return to
\* the caller.
Committed(m, n, c, rows, after) ==
    /\ n \in 2..Len(Statements(m))
    /\ n = Len(Statements(m)) \/ Statements(m)[n + 1] = "saved"
    /\ m = "insert_document_and_chunks" => n >= 3
    /\ after \in [Docs -> Rows]
    /\ \A d \in Docs : IF d \in c.docs THEN Transacts(m, c, rows[d], after[d])
                      ELSE after[d] = rows[d]
    /\ Statements(m)[n] = "commit-delete" <=> m = "delete"
    /\ (\E i \in DOMAIN Statements(m) : Deletes(Statements(m)[i]))
          <=> m \in {"delete", "cleanup_orphaned_chunks"}

Outcome(m, c, rows) ==
    LET n == LastOf(m)
    IN Committed(m, n, c, rows, AfterAll(Statements(m), n - 1, c, rows))

\* The transaction of insert_document.
LEMMA InsertDocumentTransacts ==
    ASSUME backend = "postgres", NEW c \in Calls, NEW rows \in [Docs -> Rows]
    PROVE  Outcome("insert_document", c, rows)
<1> DEFINE R(k) == AfterAll(InsertDocument, k, c, rows)
<1>1. Statements("insert_document") = InsertDocument
  BY DEF Statements
<1>2. /\ Len(InsertDocument) = 2 /\ DOMAIN InsertDocument = 1..2
      /\ InsertDocument[1] = "insert-document"
      /\ InsertDocument[2] = "commit"
  BY DEF InsertDocument
<1>3. \A i \in 1..2 : i = 1 \/ i = 2
  OBVIOUS
<1>4. LastOf("insert_document") = 2
  <2>1. \A i \in 1..2 : Commits(InsertDocument[i]) <=> i = 2
    BY <1>2, <1>3 DEF Commits
  <2>2. 2 \in 1..2
    OBVIOUS
  <2> QED BY <1>1, <1>2, <2>1, <2>2, TheOnly, Zenon DEF LastOf
<1>5. Len(InsertDocument) \in 2..6 /\ 1 \in 1..Len(InsertDocument)
  BY <1>2
<1>6. R(0) = rows
  <2>1. OneByOne(InsertDocument, c, rows)
    BY <1>5, AfterAllIs, Zenon
  <2> QED BY <2>1, Zenon DEF OneByOne
<1>7. Takes("insert-document", c, R(0), R(1))
  <2>1. R(0) \in [Docs -> Rows]
    BY <1>6
  <2>2. 1 = 0 + 1 /\ 0 \in Nat
    OBVIOUS
  <2> QED BY <1>2, <1>5, <2>1, <2>2, NextTakes, Zenon
<1> HIDE DEF R
<1>8. ASSUME NEW d \in Docs
      PROVE  IF d \in c.docs THEN Transacts("insert_document", c, rows[d], R(1)[d])
             ELSE R(1)[d] = rows[d]
  <2>1. CASE d \notin c.docs
    BY <1>6, <1>7, <2>1, Zenon DEF Takes
  <2>2. CASE d \in c.docs
    <3>1. Makes("insert-document", c, R(0)[d], R(1)[d])
      BY <1>7, <2>2, Zenon DEF Takes
    <3> QED BY <1>6, <2>2, <3>1 DEF Makes, Transacts
  <2> QED BY <2>1, <2>2
<1>9. (\E i \in 1..2 : Deletes(InsertDocument[i]))
          <=> "insert_document" \in {"delete", "cleanup_orphaned_chunks"}
  BY <1>2, <1>3 DEF Deletes
<1>10. R(1) \in [Docs -> Rows]
  BY <1>7, Zenon DEF Takes
<1>11. Committed("insert_document", 2, c, rows, R(1))
  <2>1. /\ 2 \in 2..Len(InsertDocument)
        /\ 2 = Len(InsertDocument) \/ InsertDocument[2 + 1] = "saved"
    BY <1>2
  <2>2. /\ InsertDocument[2] = "commit-delete" <=> "insert_document" = "delete"
        /\ "insert_document" = "insert_document_and_chunks" => 2 >= 3
    BY <1>2
  <2> QED BY <1>1, <1>8, <1>9, <1>10, <1>2, <2>1, <2>2, Zenon DEF Committed
<1>12. 2 - 1 = 1
  OBVIOUS
<1> QED BY <1>1, <1>4, <1>11, <1>12, Zenon DEF Outcome, R

\* The transaction of insert_chunks.
LEMMA InsertChunksTransacts ==
    ASSUME backend = "postgres", NEW c \in Calls, NEW rows \in [Docs -> Rows]
    PROVE  Outcome("insert_chunks", c, rows)
<1> DEFINE R(k) == AfterAll(InsertChunks, k, c, rows)
<1>1. Statements("insert_chunks") = InsertChunks
  BY DEF Statements
<1>2. /\ Len(InsertChunks) = 3 /\ DOMAIN InsertChunks = 1..3
      /\ InsertChunks[1] = "insert-chunks"
      /\ InsertChunks[2] = "insert-fts"
      /\ InsertChunks[3] = "commit"
  BY DEF InsertChunks
<1>3. \A i \in 1..3 : i = 1 \/ i = 2 \/ i = 3
  OBVIOUS
<1>4. LastOf("insert_chunks") = 3
  <2>1. \A i \in 1..3 : Commits(InsertChunks[i]) <=> i = 3
    BY <1>2, <1>3 DEF Commits
  <2>2. 3 \in 1..3
    OBVIOUS
  <2> QED BY <1>1, <1>2, <2>1, <2>2, TheOnly, Zenon DEF LastOf
<1>5. Len(InsertChunks) \in 2..6 /\ 1 \in 1..Len(InsertChunks) /\ 2 \in 1..Len(InsertChunks)
  BY <1>2
<1>6. R(0) = rows
  <2>1. OneByOne(InsertChunks, c, rows)
    BY <1>5, AfterAllIs, Zenon
  <2> QED BY <2>1, Zenon DEF OneByOne
<1>7. Takes("insert-chunks", c, R(0), R(1))
  <2>1. R(0) \in [Docs -> Rows]
    BY <1>6
  <2>2. 1 = 0 + 1 /\ 0 \in Nat
    OBVIOUS
  <2> QED BY <1>2, <1>5, <2>1, <2>2, NextTakes, Zenon
<1>8. Takes("insert-fts", c, R(1), R(2))
  <2>1. R(1) \in [Docs -> Rows]
    BY <1>7, Zenon DEF Takes
  <2>2. 2 = 1 + 1 /\ 1 \in Nat
    OBVIOUS
  <2> QED BY <1>2, <1>5, <2>1, <2>2, NextTakes, Zenon
<1> HIDE DEF R
<1>9. ASSUME NEW d \in Docs
      PROVE  IF d \in c.docs THEN Transacts("insert_chunks", c, rows[d], R(2)[d])
             ELSE R(2)[d] = rows[d]
  <2>1. CASE d \notin c.docs
    BY <1>6, <1>7, <1>8, <2>1, Zenon DEF Takes
  <2>2. CASE d \in c.docs
    <3>1. Makes("insert-chunks", c, R(0)[d], R(1)[d])
      BY <1>7, <2>2, Zenon DEF Takes
    <3>2. Makes("insert-fts", c, R(1)[d], R(2)[d])
      BY <1>8, <2>2, Zenon DEF Takes
    <3> QED BY <1>6, <2>2, <3>1, <3>2 DEF Makes, Transacts
  <2> QED BY <2>1, <2>2
<1>10. (\E i \in 1..3 : Deletes(InsertChunks[i]))
          <=> "insert_chunks" \in {"delete", "cleanup_orphaned_chunks"}
  BY <1>2, <1>3 DEF Deletes
<1>11. R(2) \in [Docs -> Rows]
  BY <1>8, Zenon DEF Takes
<1>12. Committed("insert_chunks", 3, c, rows, R(2))
  <2>1. /\ 3 \in 2..Len(InsertChunks)
        /\ 3 = Len(InsertChunks) \/ InsertChunks[3 + 1] = "saved"
    BY <1>2
  <2>2. /\ InsertChunks[3] = "commit-delete" <=> "insert_chunks" = "delete"
        /\ "insert_chunks" = "insert_document_and_chunks" => 3 >= 3
    BY <1>2
  <2> QED BY <1>1, <1>9, <1>10, <1>11, <1>2, <2>1, <2>2, Zenon DEF Committed
<1>13. 3 - 1 = 2
  OBVIOUS
<1> QED BY <1>1, <1>4, <1>12, <1>13, Zenon DEF Outcome, R

\* The transaction of insert_document_and_chunks.
LEMMA InsertDocumentAndChunksAtOnceTransacts ==
    ASSUME backend = "postgres", NEW c \in Calls, NEW rows \in [Docs -> Rows]
    PROVE  Outcome("insert_document_and_chunks", c, rows)
<1> DEFINE R(k) == AfterAll(InsertDocumentAndChunksAtOnce, k, c, rows)
<1>1. Statements("insert_document_and_chunks") = InsertDocumentAndChunksAtOnce
  BY DEF Statements, Checkpoint
<1>2. /\ Len(InsertDocumentAndChunksAtOnce) = 5 /\ DOMAIN InsertDocumentAndChunksAtOnce = 1..5
      /\ InsertDocumentAndChunksAtOnce[1] = "insert-document"
      /\ InsertDocumentAndChunksAtOnce[2] = "insert-chunks"
      /\ InsertDocumentAndChunksAtOnce[3] = "insert-fts"
      /\ InsertDocumentAndChunksAtOnce[4] = "commit"
      /\ InsertDocumentAndChunksAtOnce[5] = "saved"
  BY DEF InsertDocumentAndChunksAtOnce
<1>3. \A i \in 1..5 : i = 1 \/ i = 2 \/ i = 3 \/ i = 4 \/ i = 5
  OBVIOUS
<1>4. LastOf("insert_document_and_chunks") = 4
  <2>1. \A i \in 1..5 : Commits(InsertDocumentAndChunksAtOnce[i]) <=> i = 4
    BY <1>2, <1>3 DEF Commits
  <2>2. 4 \in 1..5
    OBVIOUS
  <2> QED BY <1>1, <1>2, <2>1, <2>2, TheOnly, Zenon DEF LastOf
<1>5. /\ Len(InsertDocumentAndChunksAtOnce) \in 2..6
      /\ 1 \in 1..Len(InsertDocumentAndChunksAtOnce)
      /\ 2 \in 1..Len(InsertDocumentAndChunksAtOnce)
      /\ 3 \in 1..Len(InsertDocumentAndChunksAtOnce)
  BY <1>2
<1>6. R(0) = rows
  <2>1. OneByOne(InsertDocumentAndChunksAtOnce, c, rows)
    BY <1>5, AfterAllIs, Zenon
  <2> QED BY <2>1, Zenon DEF OneByOne
<1>7. Takes("insert-document", c, R(0), R(1))
  <2>1. R(0) \in [Docs -> Rows]
    BY <1>6
  <2>2. 1 = 0 + 1 /\ 0 \in Nat
    OBVIOUS
  <2> QED BY <1>2, <1>5, <2>1, <2>2, NextTakes, Zenon
<1>8. Takes("insert-chunks", c, R(1), R(2))
  <2>1. R(1) \in [Docs -> Rows]
    BY <1>7, Zenon DEF Takes
  <2>2. 2 = 1 + 1 /\ 1 \in Nat
    OBVIOUS
  <2> QED BY <1>2, <1>5, <2>1, <2>2, NextTakes, Zenon
<1>9. Takes("insert-fts", c, R(2), R(3))
  <2>1. R(2) \in [Docs -> Rows]
    BY <1>8, Zenon DEF Takes
  <2>2. 3 = 2 + 1 /\ 2 \in Nat
    OBVIOUS
  <2> QED BY <1>2, <1>5, <2>1, <2>2, NextTakes, Zenon
<1> HIDE DEF R
<1>10. ASSUME NEW d \in Docs
      PROVE  IF d \in c.docs THEN Transacts("insert_document_and_chunks", c, rows[d], R(3)[d])
             ELSE R(3)[d] = rows[d]
  <2>1. CASE d \notin c.docs
    BY <1>6, <1>7, <1>8, <1>9, <2>1, Zenon DEF Takes
  <2>2. CASE d \in c.docs
    <3>1. Makes("insert-document", c, R(0)[d], R(1)[d])
      BY <1>7, <2>2, Zenon DEF Takes
    <3>2. Makes("insert-chunks", c, R(1)[d], R(2)[d])
      BY <1>8, <2>2, Zenon DEF Takes
    <3>3. Makes("insert-fts", c, R(2)[d], R(3)[d])
      BY <1>9, <2>2, Zenon DEF Takes
    <3> QED BY <1>6, <2>2, <3>1, <3>2, <3>3 DEF Makes, Transacts
  <2> QED BY <2>1, <2>2
<1>11. (\E i \in 1..5 : Deletes(InsertDocumentAndChunksAtOnce[i]))
          <=> "insert_document_and_chunks" \in {"delete", "cleanup_orphaned_chunks"}
  BY <1>2, <1>3 DEF Deletes
<1>12. R(3) \in [Docs -> Rows]
  BY <1>9, Zenon DEF Takes
<1>13. Committed("insert_document_and_chunks", 4, c, rows, R(3))
  <2>1. /\ 4 \in 2..Len(InsertDocumentAndChunksAtOnce)
        /\ 4 = Len(InsertDocumentAndChunksAtOnce) \/ InsertDocumentAndChunksAtOnce[4 + 1] = "saved"
    BY <1>2
  <2>2. /\ InsertDocumentAndChunksAtOnce[4] = "commit-delete" <=> "insert_document_and_chunks" = "delete"
        /\ "insert_document_and_chunks" = "insert_document_and_chunks" => 4 >= 3
    BY <1>2
  <2> QED BY <1>1, <1>10, <1>11, <1>12, <1>2, <2>1, <2>2, Zenon DEF Committed
<1>14. 4 - 1 = 3
  OBVIOUS
<1> QED BY <1>1, <1>4, <1>13, <1>14, Zenon DEF Outcome, R

\* The transaction of insert_tree_nodes.
LEMMA InsertTreeNodesTransacts ==
    ASSUME backend = "postgres", NEW c \in Calls, NEW rows \in [Docs -> Rows]
    PROVE  Outcome("insert_tree_nodes", c, rows)
<1> DEFINE R(k) == AfterAll(InsertTreeNodes, k, c, rows)
<1>1. Statements("insert_tree_nodes") = InsertTreeNodes
  BY DEF Statements
<1>2. /\ Len(InsertTreeNodes) = 2 /\ DOMAIN InsertTreeNodes = 1..2
      /\ InsertTreeNodes[1] = "insert-tree"
      /\ InsertTreeNodes[2] = "commit"
  BY DEF InsertTreeNodes
<1>3. \A i \in 1..2 : i = 1 \/ i = 2
  OBVIOUS
<1>4. LastOf("insert_tree_nodes") = 2
  <2>1. \A i \in 1..2 : Commits(InsertTreeNodes[i]) <=> i = 2
    BY <1>2, <1>3 DEF Commits
  <2>2. 2 \in 1..2
    OBVIOUS
  <2> QED BY <1>1, <1>2, <2>1, <2>2, TheOnly, Zenon DEF LastOf
<1>5. Len(InsertTreeNodes) \in 2..6 /\ 1 \in 1..Len(InsertTreeNodes)
  BY <1>2
<1>6. R(0) = rows
  <2>1. OneByOne(InsertTreeNodes, c, rows)
    BY <1>5, AfterAllIs, Zenon
  <2> QED BY <2>1, Zenon DEF OneByOne
<1>7. Takes("insert-tree", c, R(0), R(1))
  <2>1. R(0) \in [Docs -> Rows]
    BY <1>6
  <2>2. 1 = 0 + 1 /\ 0 \in Nat
    OBVIOUS
  <2> QED BY <1>2, <1>5, <2>1, <2>2, NextTakes, Zenon
<1> HIDE DEF R
<1>8. ASSUME NEW d \in Docs
      PROVE  IF d \in c.docs THEN Transacts("insert_tree_nodes", c, rows[d], R(1)[d])
             ELSE R(1)[d] = rows[d]
  <2>1. CASE d \notin c.docs
    BY <1>6, <1>7, <2>1, Zenon DEF Takes
  <2>2. CASE d \in c.docs
    <3>1. Makes("insert-tree", c, R(0)[d], R(1)[d])
      BY <1>7, <2>2, Zenon DEF Takes
    <3> QED BY <1>6, <2>2, <3>1 DEF Makes, Transacts
  <2> QED BY <2>1, <2>2
<1>9. (\E i \in 1..2 : Deletes(InsertTreeNodes[i]))
          <=> "insert_tree_nodes" \in {"delete", "cleanup_orphaned_chunks"}
  BY <1>2, <1>3 DEF Deletes
<1>10. R(1) \in [Docs -> Rows]
  BY <1>7, Zenon DEF Takes
<1>11. Committed("insert_tree_nodes", 2, c, rows, R(1))
  <2>1. /\ 2 \in 2..Len(InsertTreeNodes)
        /\ 2 = Len(InsertTreeNodes) \/ InsertTreeNodes[2 + 1] = "saved"
    BY <1>2
  <2>2. /\ InsertTreeNodes[2] = "commit-delete" <=> "insert_tree_nodes" = "delete"
        /\ "insert_tree_nodes" = "insert_document_and_chunks" => 2 >= 3
    BY <1>2
  <2> QED BY <1>1, <1>8, <1>9, <1>10, <1>2, <2>1, <2>2, Zenon DEF Committed
<1>12. 2 - 1 = 1
  OBVIOUS
<1> QED BY <1>1, <1>4, <1>11, <1>12, Zenon DEF Outcome, R

\* The transaction of update_chunk_summaries.
LEMMA UpdateChunkSummariesTransacts ==
    ASSUME backend = "postgres", NEW c \in Calls, NEW rows \in [Docs -> Rows]
    PROVE  Outcome("update_chunk_summaries", c, rows)
<1> DEFINE R(k) == AfterAll(UpdateChunkSummaries, k, c, rows)
<1>1. Statements("update_chunk_summaries") = UpdateChunkSummaries
  BY DEF Statements
<1>2. /\ Len(UpdateChunkSummaries) = 3 /\ DOMAIN UpdateChunkSummaries = 1..3
      /\ UpdateChunkSummaries[1] = "summarize-chunks"
      /\ UpdateChunkSummaries[2] = "summarize-fts"
      /\ UpdateChunkSummaries[3] = "commit"
  BY DEF UpdateChunkSummaries
<1>3. \A i \in 1..3 : i = 1 \/ i = 2 \/ i = 3
  OBVIOUS
<1>4. LastOf("update_chunk_summaries") = 3
  <2>1. \A i \in 1..3 : Commits(UpdateChunkSummaries[i]) <=> i = 3
    BY <1>2, <1>3 DEF Commits
  <2>2. 3 \in 1..3
    OBVIOUS
  <2> QED BY <1>1, <1>2, <2>1, <2>2, TheOnly, Zenon DEF LastOf
<1>5. /\ Len(UpdateChunkSummaries) \in 2..6
      /\ 1 \in 1..Len(UpdateChunkSummaries)
      /\ 2 \in 1..Len(UpdateChunkSummaries)
  BY <1>2
<1>6. R(0) = rows
  <2>1. OneByOne(UpdateChunkSummaries, c, rows)
    BY <1>5, AfterAllIs, Zenon
  <2> QED BY <2>1, Zenon DEF OneByOne
<1>7. Takes("summarize-chunks", c, R(0), R(1))
  <2>1. R(0) \in [Docs -> Rows]
    BY <1>6
  <2>2. 1 = 0 + 1 /\ 0 \in Nat
    OBVIOUS
  <2> QED BY <1>2, <1>5, <2>1, <2>2, NextTakes, Zenon
<1>8. Takes("summarize-fts", c, R(1), R(2))
  <2>1. R(1) \in [Docs -> Rows]
    BY <1>7, Zenon DEF Takes
  <2>2. 2 = 1 + 1 /\ 1 \in Nat
    OBVIOUS
  <2> QED BY <1>2, <1>5, <2>1, <2>2, NextTakes, Zenon
<1> HIDE DEF R
<1>9. ASSUME NEW d \in Docs
      PROVE  IF d \in c.docs THEN Transacts("update_chunk_summaries", c, rows[d], R(2)[d])
             ELSE R(2)[d] = rows[d]
  <2>1. CASE d \notin c.docs
    BY <1>6, <1>7, <1>8, <2>1, Zenon DEF Takes
  <2>2. CASE d \in c.docs
    <3>1. Makes("summarize-chunks", c, R(0)[d], R(1)[d])
      BY <1>7, <2>2, Zenon DEF Takes
    <3>2. Makes("summarize-fts", c, R(1)[d], R(2)[d])
      BY <1>8, <2>2, Zenon DEF Takes
    <3> QED BY <1>6, <2>2, <3>1, <3>2 DEF Makes, Transacts
  <2> QED BY <2>1, <2>2
<1>10. (\E i \in 1..3 : Deletes(UpdateChunkSummaries[i]))
          <=> "update_chunk_summaries" \in {"delete", "cleanup_orphaned_chunks"}
  BY <1>2, <1>3 DEF Deletes
<1>11. R(2) \in [Docs -> Rows]
  BY <1>8, Zenon DEF Takes
<1>12. Committed("update_chunk_summaries", 3, c, rows, R(2))
  <2>1. /\ 3 \in 2..Len(UpdateChunkSummaries)
        /\ 3 = Len(UpdateChunkSummaries) \/ UpdateChunkSummaries[3 + 1] = "saved"
    BY <1>2
  <2>2. /\ UpdateChunkSummaries[3] = "commit-delete" <=> "update_chunk_summaries" = "delete"
        /\ "update_chunk_summaries" = "insert_document_and_chunks" => 3 >= 3
    BY <1>2
  <2> QED BY <1>1, <1>9, <1>10, <1>11, <1>2, <2>1, <2>2, Zenon DEF Committed
<1>13. 3 - 1 = 2
  OBVIOUS
<1> QED BY <1>1, <1>4, <1>12, <1>13, Zenon DEF Outcome, R

\* The transaction of update_chunk_embeddings.
LEMMA UpdateChunkEmbeddingsTransacts ==
    ASSUME backend = "postgres", NEW c \in Calls, NEW rows \in [Docs -> Rows]
    PROVE  Outcome("update_chunk_embeddings", c, rows)
<1> DEFINE R(k) == AfterAll(UpdateChunkEmbeddings, k, c, rows)
<1>1. Statements("update_chunk_embeddings") = UpdateChunkEmbeddings
  BY DEF Statements
<1>2. /\ Len(UpdateChunkEmbeddings) = 2 /\ DOMAIN UpdateChunkEmbeddings = 1..2
      /\ UpdateChunkEmbeddings[1] = "embed"
      /\ UpdateChunkEmbeddings[2] = "commit"
  BY DEF UpdateChunkEmbeddings
<1>3. \A i \in 1..2 : i = 1 \/ i = 2
  OBVIOUS
<1>4. LastOf("update_chunk_embeddings") = 2
  <2>1. \A i \in 1..2 : Commits(UpdateChunkEmbeddings[i]) <=> i = 2
    BY <1>2, <1>3 DEF Commits
  <2>2. 2 \in 1..2
    OBVIOUS
  <2> QED BY <1>1, <1>2, <2>1, <2>2, TheOnly, Zenon DEF LastOf
<1>5. Len(UpdateChunkEmbeddings) \in 2..6 /\ 1 \in 1..Len(UpdateChunkEmbeddings)
  BY <1>2
<1>6. R(0) = rows
  <2>1. OneByOne(UpdateChunkEmbeddings, c, rows)
    BY <1>5, AfterAllIs, Zenon
  <2> QED BY <2>1, Zenon DEF OneByOne
<1>7. Takes("embed", c, R(0), R(1))
  <2>1. R(0) \in [Docs -> Rows]
    BY <1>6
  <2>2. 1 = 0 + 1 /\ 0 \in Nat
    OBVIOUS
  <2> QED BY <1>2, <1>5, <2>1, <2>2, NextTakes, Zenon
<1> HIDE DEF R
<1>8. ASSUME NEW d \in Docs
      PROVE  IF d \in c.docs THEN Transacts("update_chunk_embeddings", c, rows[d], R(1)[d])
             ELSE R(1)[d] = rows[d]
  <2>1. CASE d \notin c.docs
    BY <1>6, <1>7, <2>1, Zenon DEF Takes
  <2>2. CASE d \in c.docs
    <3>1. Makes("embed", c, R(0)[d], R(1)[d])
      BY <1>7, <2>2, Zenon DEF Takes
    <3> QED BY <1>6, <2>2, <3>1 DEF Makes, Transacts
  <2> QED BY <2>1, <2>2
<1>9. (\E i \in 1..2 : Deletes(UpdateChunkEmbeddings[i]))
          <=> "update_chunk_embeddings" \in {"delete", "cleanup_orphaned_chunks"}
  BY <1>2, <1>3 DEF Deletes
<1>10. R(1) \in [Docs -> Rows]
  BY <1>7, Zenon DEF Takes
<1>11. Committed("update_chunk_embeddings", 2, c, rows, R(1))
  <2>1. /\ 2 \in 2..Len(UpdateChunkEmbeddings)
        /\ 2 = Len(UpdateChunkEmbeddings) \/ UpdateChunkEmbeddings[2 + 1] = "saved"
    BY <1>2
  <2>2. /\ UpdateChunkEmbeddings[2] = "commit-delete" <=> "update_chunk_embeddings" = "delete"
        /\ "update_chunk_embeddings" = "insert_document_and_chunks" => 2 >= 3
    BY <1>2
  <2> QED BY <1>1, <1>8, <1>9, <1>10, <1>2, <2>1, <2>2, Zenon DEF Committed
<1>12. 2 - 1 = 1
  OBVIOUS
<1> QED BY <1>1, <1>4, <1>11, <1>12, Zenon DEF Outcome, R

\* The transaction of delete.
LEMMA DeleteRowsTransacts ==
    ASSUME backend = "postgres", NEW c \in Calls, NEW rows \in [Docs -> Rows]
    PROVE  Outcome("delete", c, rows)
<1> DEFINE R(k) == AfterAll(DeleteRows, k, c, rows)
<1>1. Statements("delete") = DeleteRows
  BY DEF Statements
<1>2. /\ Len(DeleteRows) = 6 /\ DOMAIN DeleteRows = 1..6
      /\ DeleteRows[1] = "delete-tree"
      /\ DeleteRows[2] = "delete-fts"
      /\ DeleteRows[3] = "delete-chunks"
      /\ DeleteRows[4] = "delete-chunks"
      /\ DeleteRows[5] = "delete-document"
      /\ DeleteRows[6] = "commit-delete"
  BY DEF DeleteRows
<1>3. \A i \in 1..6 : i = 1 \/ i = 2 \/ i = 3 \/ i = 4 \/ i = 5 \/ i = 6
  OBVIOUS
<1>4. LastOf("delete") = 6
  <2>1. \A i \in 1..6 : Commits(DeleteRows[i]) <=> i = 6
    BY <1>2, <1>3 DEF Commits
  <2>2. 6 \in 1..6
    OBVIOUS
  <2> QED BY <1>1, <1>2, <2>1, <2>2, TheOnly, Zenon DEF LastOf
<1>5. /\ Len(DeleteRows) \in 2..6
      /\ 1 \in 1..Len(DeleteRows)
      /\ 2 \in 1..Len(DeleteRows)
      /\ 3 \in 1..Len(DeleteRows)
      /\ 4 \in 1..Len(DeleteRows)
      /\ 5 \in 1..Len(DeleteRows)
  BY <1>2
<1>6. R(0) = rows
  <2>1. OneByOne(DeleteRows, c, rows)
    BY <1>5, AfterAllIs, Zenon
  <2> QED BY <2>1, Zenon DEF OneByOne
<1>7. Takes("delete-tree", c, R(0), R(1))
  <2>1. R(0) \in [Docs -> Rows]
    BY <1>6
  <2>2. 1 = 0 + 1 /\ 0 \in Nat
    OBVIOUS
  <2> QED BY <1>2, <1>5, <2>1, <2>2, NextTakes, Zenon
<1>8. Takes("delete-fts", c, R(1), R(2))
  <2>1. R(1) \in [Docs -> Rows]
    BY <1>7, Zenon DEF Takes
  <2>2. 2 = 1 + 1 /\ 1 \in Nat
    OBVIOUS
  <2> QED BY <1>2, <1>5, <2>1, <2>2, NextTakes, Zenon
<1>9. Takes("delete-chunks", c, R(2), R(3))
  <2>1. R(2) \in [Docs -> Rows]
    BY <1>8, Zenon DEF Takes
  <2>2. 3 = 2 + 1 /\ 2 \in Nat
    OBVIOUS
  <2> QED BY <1>2, <1>5, <2>1, <2>2, NextTakes, Zenon
<1>10. Takes("delete-chunks", c, R(3), R(4))
  <2>1. R(3) \in [Docs -> Rows]
    BY <1>9, Zenon DEF Takes
  <2>2. 4 = 3 + 1 /\ 3 \in Nat
    OBVIOUS
  <2> QED BY <1>2, <1>5, <2>1, <2>2, NextTakes, Zenon
<1>11. Takes("delete-document", c, R(4), R(5))
  <2>1. R(4) \in [Docs -> Rows]
    BY <1>10, Zenon DEF Takes
  <2>2. 5 = 4 + 1 /\ 4 \in Nat
    OBVIOUS
  <2> QED BY <1>2, <1>5, <2>1, <2>2, NextTakes, Zenon
<1> HIDE DEF R
<1>12. ASSUME NEW d \in Docs
      PROVE  IF d \in c.docs THEN Transacts("delete", c, rows[d], R(5)[d])
             ELSE R(5)[d] = rows[d]
  <2>1. CASE d \notin c.docs
    BY <1>6, <1>7, <1>8, <1>9, <1>10, <1>11, <2>1, Zenon DEF Takes
  <2>2. CASE d \in c.docs
    <3>1. Makes("delete-tree", c, R(0)[d], R(1)[d])
      BY <1>7, <2>2, Zenon DEF Takes
    <3>2. Makes("delete-fts", c, R(1)[d], R(2)[d])
      BY <1>8, <2>2, Zenon DEF Takes
    <3>3. Makes("delete-chunks", c, R(2)[d], R(3)[d])
      BY <1>9, <2>2, Zenon DEF Takes
    <3>4. Makes("delete-chunks", c, R(3)[d], R(4)[d])
      BY <1>10, <2>2, Zenon DEF Takes
    <3>5. Makes("delete-document", c, R(4)[d], R(5)[d])
      BY <1>11, <2>2, Zenon DEF Takes
    <3> QED BY <1>6, <2>2, <3>1, <3>2, <3>3, <3>4, <3>5 DEF Makes, Transacts
  <2> QED BY <2>1, <2>2
<1>13. (\E i \in 1..6 : Deletes(DeleteRows[i]))
          <=> "delete" \in {"delete", "cleanup_orphaned_chunks"}
  BY <1>2, <1>3 DEF Deletes
<1>14. R(5) \in [Docs -> Rows]
  BY <1>11, Zenon DEF Takes
<1>15. Committed("delete", 6, c, rows, R(5))
  <2>1. /\ 6 \in 2..Len(DeleteRows)
        /\ 6 = Len(DeleteRows) \/ DeleteRows[6 + 1] = "saved"
    BY <1>2
  <2>2. /\ DeleteRows[6] = "commit-delete" <=> "delete" = "delete"
        /\ "delete" = "insert_document_and_chunks" => 6 >= 3
    BY <1>2
  <2> QED BY <1>1, <1>12, <1>13, <1>14, <1>2, <2>1, <2>2, Zenon DEF Committed
<1>16. 6 - 1 = 5
  OBVIOUS
<1> QED BY <1>1, <1>4, <1>15, <1>16, Zenon DEF Outcome, R

\* The transaction of rebuild_fts_index.
LEMMA RebuildFtsIndexTransacts ==
    ASSUME backend = "postgres", NEW c \in Calls, NEW rows \in [Docs -> Rows]
    PROVE  Outcome("rebuild_fts_index", c, rows)
<1> DEFINE R(k) == AfterAll(RebuildFtsIndex, k, c, rows)
<1>1. Statements("rebuild_fts_index") = RebuildFtsIndex
  BY DEF Statements
<1>2. /\ Len(RebuildFtsIndex) = 3 /\ DOMAIN RebuildFtsIndex = 1..3
      /\ RebuildFtsIndex[1] = "delete-fts"
      /\ RebuildFtsIndex[2] = "fill-fts"
      /\ RebuildFtsIndex[3] = "commit"
  BY DEF RebuildFtsIndex
<1>3. \A i \in 1..3 : i = 1 \/ i = 2 \/ i = 3
  OBVIOUS
<1>4. LastOf("rebuild_fts_index") = 3
  <2>1. \A i \in 1..3 : Commits(RebuildFtsIndex[i]) <=> i = 3
    BY <1>2, <1>3 DEF Commits
  <2>2. 3 \in 1..3
    OBVIOUS
  <2> QED BY <1>1, <1>2, <2>1, <2>2, TheOnly, Zenon DEF LastOf
<1>5. /\ Len(RebuildFtsIndex) \in 2..6
      /\ 1 \in 1..Len(RebuildFtsIndex)
      /\ 2 \in 1..Len(RebuildFtsIndex)
  BY <1>2
<1>6. R(0) = rows
  <2>1. OneByOne(RebuildFtsIndex, c, rows)
    BY <1>5, AfterAllIs, Zenon
  <2> QED BY <2>1, Zenon DEF OneByOne
<1>7. Takes("delete-fts", c, R(0), R(1))
  <2>1. R(0) \in [Docs -> Rows]
    BY <1>6
  <2>2. 1 = 0 + 1 /\ 0 \in Nat
    OBVIOUS
  <2> QED BY <1>2, <1>5, <2>1, <2>2, NextTakes, Zenon
<1>8. Takes("fill-fts", c, R(1), R(2))
  <2>1. R(1) \in [Docs -> Rows]
    BY <1>7, Zenon DEF Takes
  <2>2. 2 = 1 + 1 /\ 1 \in Nat
    OBVIOUS
  <2> QED BY <1>2, <1>5, <2>1, <2>2, NextTakes, Zenon
<1> HIDE DEF R
<1>9. ASSUME NEW d \in Docs
      PROVE  IF d \in c.docs THEN Transacts("rebuild_fts_index", c, rows[d], R(2)[d])
             ELSE R(2)[d] = rows[d]
  <2>1. CASE d \notin c.docs
    BY <1>6, <1>7, <1>8, <2>1, Zenon DEF Takes
  <2>2. CASE d \in c.docs
    <3>1. Makes("delete-fts", c, R(0)[d], R(1)[d])
      BY <1>7, <2>2, Zenon DEF Takes
    <3>2. Makes("fill-fts", c, R(1)[d], R(2)[d])
      BY <1>8, <2>2, Zenon DEF Takes
    <3> QED BY <1>6, <2>2, <3>1, <3>2 DEF Makes, Transacts
  <2> QED BY <2>1, <2>2
<1>10. (\E i \in 1..3 : Deletes(RebuildFtsIndex[i]))
          <=> "rebuild_fts_index" \in {"delete", "cleanup_orphaned_chunks"}
  BY <1>2, <1>3 DEF Deletes
<1>11. R(2) \in [Docs -> Rows]
  BY <1>8, Zenon DEF Takes
<1>12. Committed("rebuild_fts_index", 3, c, rows, R(2))
  <2>1. /\ 3 \in 2..Len(RebuildFtsIndex)
        /\ 3 = Len(RebuildFtsIndex) \/ RebuildFtsIndex[3 + 1] = "saved"
    BY <1>2
  <2>2. /\ RebuildFtsIndex[3] = "commit-delete" <=> "rebuild_fts_index" = "delete"
        /\ "rebuild_fts_index" = "insert_document_and_chunks" => 3 >= 3
    BY <1>2
  <2> QED BY <1>1, <1>9, <1>10, <1>11, <1>2, <2>1, <2>2, Zenon DEF Committed
<1>13. 3 - 1 = 2
  OBVIOUS
<1> QED BY <1>1, <1>4, <1>12, <1>13, Zenon DEF Outcome, R

\* The transaction of cleanup_orphaned_chunks.
LEMMA CleanupOrphanedChunksTransacts ==
    ASSUME backend = "postgres", NEW c \in Calls, NEW rows \in [Docs -> Rows]
    PROVE  Outcome("cleanup_orphaned_chunks", c, rows)
<1> DEFINE R(k) == AfterAll(CleanupOrphanedChunks, k, c, rows)
<1>1. Statements("cleanup_orphaned_chunks") = CleanupOrphanedChunks
  BY DEF Statements
<1>2. /\ Len(CleanupOrphanedChunks) = 3 /\ DOMAIN CleanupOrphanedChunks = 1..3
      /\ CleanupOrphanedChunks[1] = "delete-fts"
      /\ CleanupOrphanedChunks[2] = "delete-chunks"
      /\ CleanupOrphanedChunks[3] = "commit"
  BY DEF CleanupOrphanedChunks
<1>3. \A i \in 1..3 : i = 1 \/ i = 2 \/ i = 3
  OBVIOUS
<1>4. LastOf("cleanup_orphaned_chunks") = 3
  <2>1. \A i \in 1..3 : Commits(CleanupOrphanedChunks[i]) <=> i = 3
    BY <1>2, <1>3 DEF Commits
  <2>2. 3 \in 1..3
    OBVIOUS
  <2> QED BY <1>1, <1>2, <2>1, <2>2, TheOnly, Zenon DEF LastOf
<1>5. /\ Len(CleanupOrphanedChunks) \in 2..6
      /\ 1 \in 1..Len(CleanupOrphanedChunks)
      /\ 2 \in 1..Len(CleanupOrphanedChunks)
  BY <1>2
<1>6. R(0) = rows
  <2>1. OneByOne(CleanupOrphanedChunks, c, rows)
    BY <1>5, AfterAllIs, Zenon
  <2> QED BY <2>1, Zenon DEF OneByOne
<1>7. Takes("delete-fts", c, R(0), R(1))
  <2>1. R(0) \in [Docs -> Rows]
    BY <1>6
  <2>2. 1 = 0 + 1 /\ 0 \in Nat
    OBVIOUS
  <2> QED BY <1>2, <1>5, <2>1, <2>2, NextTakes, Zenon
<1>8. Takes("delete-chunks", c, R(1), R(2))
  <2>1. R(1) \in [Docs -> Rows]
    BY <1>7, Zenon DEF Takes
  <2>2. 2 = 1 + 1 /\ 1 \in Nat
    OBVIOUS
  <2> QED BY <1>2, <1>5, <2>1, <2>2, NextTakes, Zenon
<1> HIDE DEF R
<1>9. ASSUME NEW d \in Docs
      PROVE  IF d \in c.docs THEN Transacts("cleanup_orphaned_chunks", c, rows[d], R(2)[d])
             ELSE R(2)[d] = rows[d]
  <2>1. CASE d \notin c.docs
    BY <1>6, <1>7, <1>8, <2>1, Zenon DEF Takes
  <2>2. CASE d \in c.docs
    <3>1. Makes("delete-fts", c, R(0)[d], R(1)[d])
      BY <1>7, <2>2, Zenon DEF Takes
    <3>2. Makes("delete-chunks", c, R(1)[d], R(2)[d])
      BY <1>8, <2>2, Zenon DEF Takes
    <3> QED BY <1>6, <2>2, <3>1, <3>2 DEF Makes, Transacts
  <2> QED BY <2>1, <2>2
<1>10. (\E i \in 1..3 : Deletes(CleanupOrphanedChunks[i]))
          <=> "cleanup_orphaned_chunks" \in {"delete", "cleanup_orphaned_chunks"}
  BY <1>2, <1>3 DEF Deletes
<1>11. R(2) \in [Docs -> Rows]
  BY <1>8, Zenon DEF Takes
<1>12. Committed("cleanup_orphaned_chunks", 3, c, rows, R(2))
  <2>1. /\ 3 \in 2..Len(CleanupOrphanedChunks)
        /\ 3 = Len(CleanupOrphanedChunks) \/ CleanupOrphanedChunks[3 + 1] = "saved"
    BY <1>2
  <2>2. /\ CleanupOrphanedChunks[3] = "commit-delete" <=> "cleanup_orphaned_chunks" = "delete"
        /\ "cleanup_orphaned_chunks" = "insert_document_and_chunks" => 3 >= 3
    BY <1>2
  <2> QED BY <1>1, <1>9, <1>10, <1>11, <1>2, <2>1, <2>2, Zenon DEF Committed
<1>13. 3 - 1 = 2
  OBVIOUS
<1> QED BY <1>1, <1>4, <1>12, <1>13, Zenon DEF Outcome, R

\* A transaction of a method.
LEMMA TransactionIs ==
    ASSUME backend = "postgres", NEW c \in Calls, NEW rows \in [Docs -> Rows]
    PROVE  Outcome(c.method, c, rows)
<1>1. c.method \in Methods
  BY DEF Calls
<1> QED BY <1>1, InsertDocumentTransacts, InsertChunksTransacts,
           InsertDocumentAndChunksAtOnceTransacts, InsertTreeNodesTransacts,
           UpdateChunkSummariesTransacts, UpdateChunkEmbeddingsTransacts,
           DeleteRowsTransacts, RebuildFtsIndexTransacts,
           CleanupOrphanedChunksTransacts DEF Methods

-----------------------------------------------------------------------------
(* What a statement says of the method it is in.                           *)

Inserts == {"insert_chunks", "insert_document_and_chunks"}

RoleOf(m, i, n, op) ==
    /\ op = "insert-document" =>
         i = 1 /\ m \in {"insert_document", "insert_document_and_chunks"}
    /\ op = "saved" => i = n /\ m = "insert_document_and_chunks"
    /\ op = "insert-chunks" => m \in Inserts /\ i <= 3
    /\ op = "insert-chunks" /\ m = "insert_chunks" => i = 1
    /\ op = "insert-chunks" /\ m # "insert_chunks" /\ backend = "sqlite" => i = 3
    /\ op = "insert-tree" => i = 1 /\ m = "insert_tree_nodes"
    /\ op \in {"summarize-chunks", "summarize-fts"} => m = "update_chunk_summaries"
    /\ op = "embed" => m = "update_chunk_embeddings"
    /\ Deletes(op) => m \in {"delete", "cleanup_orphaned_chunks"}

\* Each statement is found in its methods only, at its place.
LEMMA Roles ==
    ASSUME NEW m \in Methods, NEW i \in 1..Len(Statements(m))
    PROVE  RoleOf(m, i, Len(Statements(m)), Statements(m)[i])
<1>1. CASE m = "insert_document"
  <2>1. Statements(m) = InsertDocument
    BY <1>1 DEF Statements
  <2>2. /\ Len(InsertDocument) = 2
        /\ InsertDocument[1] = "insert-document"
        /\ InsertDocument[2] = "commit"
    BY DEF InsertDocument
  <2>3. i = 1 \/ i = 2
    BY <2>1, <2>2
  <2>4. /\ RoleOf(m, 1, 2, InsertDocument[1])
        /\ RoleOf(m, 2, 2, InsertDocument[2])
    BY <1>1, <2>2 DEF RoleOf, Deletes, Inserts
  <2> QED BY <2>1, <2>2, <2>3, <2>4, Zenon
<1>2. CASE m = "insert_chunks"
  <2>1. Statements(m) = InsertChunks
    BY <1>2 DEF Statements
  <2>2. /\ Len(InsertChunks) = 3
        /\ InsertChunks[1] = "insert-chunks"
        /\ InsertChunks[2] = "insert-fts"
        /\ InsertChunks[3] = "commit"
    BY DEF InsertChunks
  <2>3. i = 1 \/ i = 2 \/ i = 3
    BY <2>1, <2>2
  <2>4. RoleOf(m, 1, 3, InsertChunks[1])
    BY <1>2, <2>2 DEF RoleOf, Deletes, Inserts
  <2>5. RoleOf(m, 2, 3, InsertChunks[2])
    BY <1>2, <2>2 DEF RoleOf, Deletes, Inserts
  <2>6. RoleOf(m, 3, 3, InsertChunks[3])
    BY <1>2, <2>2 DEF RoleOf, Deletes, Inserts
  <2> QED BY <2>1, <2>2, <2>3, <2>4, <2>5, <2>6, Zenon
<1>3. CASE m = "insert_document_and_chunks" /\ backend # "sqlite"
  <2>1. Statements(m) = InsertDocumentAndChunksAtOnce
    BY <1>3 DEF Statements, Checkpoint
  <2>2. /\ Len(InsertDocumentAndChunksAtOnce) = 5
        /\ InsertDocumentAndChunksAtOnce[1] = "insert-document"
        /\ InsertDocumentAndChunksAtOnce[2] = "insert-chunks"
        /\ InsertDocumentAndChunksAtOnce[3] = "insert-fts"
        /\ InsertDocumentAndChunksAtOnce[4] = "commit"
        /\ InsertDocumentAndChunksAtOnce[5] = "saved"
    BY DEF InsertDocumentAndChunksAtOnce
  <2>3. i = 1 \/ i = 2 \/ i = 3 \/ i = 4 \/ i = 5
    BY <2>1, <2>2
  <2>4. RoleOf(m, 1, 5, InsertDocumentAndChunksAtOnce[1])
    BY <1>3, <2>2 DEF RoleOf, Deletes, Inserts
  <2>5. RoleOf(m, 2, 5, InsertDocumentAndChunksAtOnce[2])
    BY <1>3, <2>2 DEF RoleOf, Deletes, Inserts
  <2>6. RoleOf(m, 3, 5, InsertDocumentAndChunksAtOnce[3])
    BY <1>3, <2>2 DEF RoleOf, Deletes, Inserts
  <2>7. RoleOf(m, 4, 5, InsertDocumentAndChunksAtOnce[4])
    BY <1>3, <2>2 DEF RoleOf, Deletes, Inserts
  <2>8. RoleOf(m, 5, 5, InsertDocumentAndChunksAtOnce[5])
    BY <1>3, <2>2 DEF RoleOf, Deletes, Inserts
  <2> QED BY <2>1, <2>2, <2>3, <2>4, <2>5, <2>6, <2>7, <2>8, Zenon
<1>4. CASE m = "insert_tree_nodes"
  <2>1. Statements(m) = InsertTreeNodes
    BY <1>4 DEF Statements
  <2>2. /\ Len(InsertTreeNodes) = 2
        /\ InsertTreeNodes[1] = "insert-tree"
        /\ InsertTreeNodes[2] = "commit"
    BY DEF InsertTreeNodes
  <2>3. i = 1 \/ i = 2
    BY <2>1, <2>2
  <2>4. /\ RoleOf(m, 1, 2, InsertTreeNodes[1])
        /\ RoleOf(m, 2, 2, InsertTreeNodes[2])
    BY <1>4, <2>2 DEF RoleOf, Deletes, Inserts
  <2> QED BY <2>1, <2>2, <2>3, <2>4, Zenon
<1>5. CASE m = "update_chunk_summaries"
  <2>1. Statements(m) = UpdateChunkSummaries
    BY <1>5 DEF Statements
  <2>2. /\ Len(UpdateChunkSummaries) = 3
        /\ UpdateChunkSummaries[1] = "summarize-chunks"
        /\ UpdateChunkSummaries[2] = "summarize-fts"
        /\ UpdateChunkSummaries[3] = "commit"
    BY DEF UpdateChunkSummaries
  <2>3. i = 1 \/ i = 2 \/ i = 3
    BY <2>1, <2>2
  <2>4. RoleOf(m, 1, 3, UpdateChunkSummaries[1])
    BY <1>5, <2>2 DEF RoleOf, Deletes, Inserts
  <2>5. RoleOf(m, 2, 3, UpdateChunkSummaries[2])
    BY <1>5, <2>2 DEF RoleOf, Deletes, Inserts
  <2>6. RoleOf(m, 3, 3, UpdateChunkSummaries[3])
    BY <1>5, <2>2 DEF RoleOf, Deletes, Inserts
  <2> QED BY <2>1, <2>2, <2>3, <2>4, <2>5, <2>6, Zenon
<1>6. CASE m = "update_chunk_embeddings"
  <2>1. Statements(m) = UpdateChunkEmbeddings
    BY <1>6 DEF Statements
  <2>2. /\ Len(UpdateChunkEmbeddings) = 2
        /\ UpdateChunkEmbeddings[1] = "embed"
        /\ UpdateChunkEmbeddings[2] = "commit"
    BY DEF UpdateChunkEmbeddings
  <2>3. i = 1 \/ i = 2
    BY <2>1, <2>2
  <2>4. /\ RoleOf(m, 1, 2, UpdateChunkEmbeddings[1])
        /\ RoleOf(m, 2, 2, UpdateChunkEmbeddings[2])
    BY <1>6, <2>2 DEF RoleOf, Deletes, Inserts
  <2> QED BY <2>1, <2>2, <2>3, <2>4, Zenon
<1>7. CASE m = "delete"
  <2>1. Statements(m) = DeleteRows
    BY <1>7 DEF Statements
  <2>2. /\ Len(DeleteRows) = 6
        /\ DeleteRows[1] = "delete-tree"
        /\ DeleteRows[2] = "delete-fts"
        /\ DeleteRows[3] = "delete-chunks"
        /\ DeleteRows[4] = "delete-chunks"
        /\ DeleteRows[5] = "delete-document"
        /\ DeleteRows[6] = "commit-delete"
    BY DEF DeleteRows
  <2>3. i = 1 \/ i = 2 \/ i = 3 \/ i = 4 \/ i = 5 \/ i = 6
    BY <2>1, <2>2
  <2>4. RoleOf(m, 1, 6, DeleteRows[1])
    BY <1>7, <2>2 DEF RoleOf, Deletes, Inserts
  <2>5. RoleOf(m, 2, 6, DeleteRows[2])
    BY <1>7, <2>2 DEF RoleOf, Deletes, Inserts
  <2>6. RoleOf(m, 3, 6, DeleteRows[3])
    BY <1>7, <2>2 DEF RoleOf, Deletes, Inserts
  <2>7. RoleOf(m, 4, 6, DeleteRows[4])
    BY <1>7, <2>2 DEF RoleOf, Deletes, Inserts
  <2>8. RoleOf(m, 5, 6, DeleteRows[5])
    BY <1>7, <2>2 DEF RoleOf, Deletes, Inserts
  <2>9. RoleOf(m, 6, 6, DeleteRows[6])
    BY <1>7, <2>2 DEF RoleOf, Deletes, Inserts
  <2> QED BY <2>1, <2>2, <2>3, <2>4, <2>5, <2>6, <2>7, <2>8, <2>9, Zenon
<1>8. CASE m = "rebuild_fts_index"
  <2>1. Statements(m) = RebuildFtsIndex
    BY <1>8 DEF Statements
  <2>2. /\ Len(RebuildFtsIndex) = 3
        /\ RebuildFtsIndex[1] = "delete-fts"
        /\ RebuildFtsIndex[2] = "fill-fts"
        /\ RebuildFtsIndex[3] = "commit"
    BY DEF RebuildFtsIndex
  <2>3. i = 1 \/ i = 2 \/ i = 3
    BY <2>1, <2>2
  <2>4. RoleOf(m, 1, 3, RebuildFtsIndex[1])
    BY <1>8, <2>2 DEF RoleOf, Deletes, Inserts
  <2>5. RoleOf(m, 2, 3, RebuildFtsIndex[2])
    BY <1>8, <2>2 DEF RoleOf, Deletes, Inserts
  <2>6. RoleOf(m, 3, 3, RebuildFtsIndex[3])
    BY <1>8, <2>2 DEF RoleOf, Deletes, Inserts
  <2> QED BY <2>1, <2>2, <2>3, <2>4, <2>5, <2>6, Zenon
<1>9. CASE m = "cleanup_orphaned_chunks"
  <2>1. Statements(m) = CleanupOrphanedChunks
    BY <1>9 DEF Statements
  <2>2. /\ Len(CleanupOrphanedChunks) = 3
        /\ CleanupOrphanedChunks[1] = "delete-fts"
        /\ CleanupOrphanedChunks[2] = "delete-chunks"
        /\ CleanupOrphanedChunks[3] = "commit"
    BY DEF CleanupOrphanedChunks
  <2>3. i = 1 \/ i = 2 \/ i = 3
    BY <2>1, <2>2
  <2>4. RoleOf(m, 1, 3, CleanupOrphanedChunks[1])
    BY <1>9, <2>2 DEF RoleOf, Deletes, Inserts
  <2>5. RoleOf(m, 2, 3, CleanupOrphanedChunks[2])
    BY <1>9, <2>2 DEF RoleOf, Deletes, Inserts
  <2>6. RoleOf(m, 3, 3, CleanupOrphanedChunks[3])
    BY <1>9, <2>2 DEF RoleOf, Deletes, Inserts
  <2> QED BY <2>1, <2>2, <2>3, <2>4, <2>5, <2>6, Zenon
<1>10. CASE m = "insert_document_and_chunks" /\ backend = "sqlite"
  <2>1. Statements(m) = InsertDocumentAndChunks
    BY <1>10 DEF Statements, Checkpoint
  <2>2. /\ Len(InsertDocumentAndChunks) = 6
        /\ InsertDocumentAndChunks[1] = "insert-document"
        /\ InsertDocumentAndChunks[2] = "commit"
        /\ InsertDocumentAndChunks[3] = "insert-chunks"
        /\ InsertDocumentAndChunks[4] = "insert-fts"
        /\ InsertDocumentAndChunks[5] = "commit"
        /\ InsertDocumentAndChunks[6] = "saved"
    BY DEF InsertDocumentAndChunks
  <2>3. i = 1 \/ i = 2 \/ i = 3 \/ i = 4 \/ i = 5 \/ i = 6
    BY <2>1, <2>2
  <2>4. RoleOf(m, 1, 6, InsertDocumentAndChunks[1])
    BY <1>10, <2>2 DEF RoleOf, Deletes, Inserts
  <2>5. RoleOf(m, 2, 6, InsertDocumentAndChunks[2])
    BY <1>10, <2>2 DEF RoleOf, Deletes, Inserts
  <2>6. RoleOf(m, 3, 6, InsertDocumentAndChunks[3])
    BY <1>10, <2>2 DEF RoleOf, Deletes, Inserts
  <2>7. RoleOf(m, 4, 6, InsertDocumentAndChunks[4])
    BY <1>10, <2>2 DEF RoleOf, Deletes, Inserts
  <2>8. RoleOf(m, 5, 6, InsertDocumentAndChunks[5])
    BY <1>10, <2>2 DEF RoleOf, Deletes, Inserts
  <2>9. RoleOf(m, 6, 6, InsertDocumentAndChunks[6])
    BY <1>10, <2>2 DEF RoleOf, Deletes, Inserts
  <2> QED BY <2>1, <2>2, <2>3, <2>4, <2>5, <2>6, <2>7, <2>8, <2>9, Zenon
<1> QED BY <1>1, <1>2, <1>3, <1>4, <1>5, <1>6, <1>7, <1>8, <1>9, <1>10 DEF Methods

-----------------------------------------------------------------------------
(* Workers that go on.                                                     *)

\* w stays, goes on in its call, goes on to its next call, or ends.
Goes(w) ==
    \/ todo'[w] = todo[w] /\ line'[w] = line[w]
    \/ Busy(w) /\ todo'[w] = todo[w] /\ line'[w] > line[w]
    \/ Busy(w) /\ todo'[w] = Tail(todo[w]) /\ line'[w] = 1
    \/ todo'[w] = <<>> /\ line'[w] = 1

GoOn == Workable' /\ backend' = backend /\ \A w \in Workers : Goes(w)

\* w will insert the chunks of d.
WillInsert(w, d) ==
    \E i \in 1..Len(todo[w]) :
       /\ d \in todo[w][i].docs
       /\ \/ todo[w][i].method = "insert_chunks" /\ (i = 1 => line[w] = 1)
          \/ todo[w][i].method = "insert_document_and_chunks" /\ (i = 1 => line[w] <= 3)

\* A call that is left was there before, at its place or at the next.
LEMMA CallsLeft ==
    ASSUME Workable, NEW w \in Workers, Goes(w), line'[w] \in Nat,
           NEW i \in 1..Len(todo'[w])
    PROVE  \/ todo'[w] = todo[w] /\ line'[w] >= line[w] /\ i \in 1..Len(todo[w])
           \/ /\ i + 1 \in 1..Len(todo[w]) /\ i + 1 > 1
              /\ todo'[w][i] = todo[w][i + 1]
              /\ todo'[w] = Tail(todo[w]) /\ line'[w] = 1
<1>1. todo[w] \in Seq(Calls) /\ line[w] \in Nat
  BY DEF Workable
<1>2. CASE todo'[w] = todo[w] /\ line'[w] = line[w]
  BY <1>1, <1>2
<1>3. CASE Busy(w) /\ todo'[w] = todo[w] /\ line'[w] > line[w]
  BY <1>1, <1>3
<1>4. CASE Busy(w) /\ todo'[w] = Tail(todo[w]) /\ line'[w] = 1
  <2>1. /\ Len(todo[w]) \in Nat \ {0}
        /\ Len(Tail(todo[w])) = Len(todo[w]) - 1
        /\ \A j \in 1..Len(Tail(todo[w])) : Tail(todo[w])[j] = todo[w][j + 1]
    BY <1>1, <1>4, HeadTailProperties, EmptySeq DEF Busy
  <2> QED BY <1>4, <2>1
<1>5. CASE todo'[w] = <<>> /\ line'[w] = 1
  BY <1>5
<1> QED BY <1>2, <1>3, <1>4, <1>5 DEF Goes

\* Nothing is planned that was not.
LEMMA PlansShrink ==
    ASSUME Workable, GoOn, NEW w \in Workers
    PROVE  /\ Pending(w)' \subseteq Pending(w)
           /\ \A d : WillInsert(w, d)' => WillInsert(w, d)
<1>1. Goes(w) /\ line'[w] \in Nat
  BY DEF GoOn, Workable
<1>2. Pending(w)' \subseteq Pending(w)
  <2> SUFFICES ASSUME NEW i \in 1..Len(todo'[w])
               PROVE  todo'[w][i] \in Pending(w)
    BY DEF Pending
  <2> QED BY <1>1, CallsLeft DEF Pending
<1>3. ASSUME NEW d, WillInsert(w, d)'
      PROVE  WillInsert(w, d)
  <2>1. PICK i \in 1..Len(todo'[w]) :
           /\ d \in todo'[w][i].docs
           /\ \/ todo'[w][i].method = "insert_chunks" /\ (i = 1 => line'[w] = 1)
              \/ /\ todo'[w][i].method = "insert_document_and_chunks"
                 /\ i = 1 => line'[w] <= 3
    BY <1>3 DEF WillInsert
  <2>2. todo[w] \in Seq(Calls) /\ line[w] \in Nat \ {0} /\ line'[w] \in Nat /\ Tidy(todo[w])
    <3>1. Len(Script(w)) \in Nat \/ ~Busy(w)
      BY CurrentIs
    <3> QED BY <3>1 DEF Workable, GoOn
  <2>3. CASE todo'[w] = todo[w] /\ line'[w] >= line[w] /\ i \in 1..Len(todo[w])
    <3>1. /\ i = 1 /\ line'[w] = 1 => line[w] = 1
          /\ i = 1 /\ line'[w] <= 3 => line[w] <= 3
      BY <2>2, <2>3
    <3> QED BY <2>1, <2>3, <3>1 DEF WillInsert
  <2>4. CASE /\ i + 1 \in 1..Len(todo[w]) /\ i + 1 > 1
             /\ todo'[w][i] = todo[w][i + 1]
    <3>1. i + 1 # 1
      OBVIOUS
    <3>2. todo'[w][i].method # "insert_document_and_chunks"
      BY <2>2, <2>4 DEF Tidy
    <3> QED BY <2>1, <2>4, <3>1, <3>2, Zenon DEF WillInsert
  <2> QED BY <1>1, <2>3, <2>4, CallsLeft
<1> QED BY <1>2, <1>3

\* The statement a worker that is not idle awaits.
LEMMA OpIs ==
    ASSUME Workable, NEW w \in Workers, Busy(w)
    PROVE  RoleOf(Current(w).method, line[w], Len(Script(w)), Op(w))
BY CurrentIs, Roles, Zenon DEF Script, Op

\* No document gets to be inserted that was not to be.
LEMMA InsertedOnce ==
    ASSUME Workable, GoOn, NEW d, ToBeInserted(d)'
    PROVE  ToBeInserted(d)
<1>1. PICK w \in Workers : At(w, "insert-document")' /\ d \in Current(w)'.docs
  BY DEF ToBeInserted
<1>2. Goes(w) /\ backend' = backend /\ line'[w] \in Nat
  BY DEF GoOn, Workable
<1>3. todo'[w] \in Seq(Calls) /\ todo'[w] # <<>> /\ todo[w] \in Seq(Calls) /\ Tidy(todo[w])
  BY <1>1 DEF GoOn, Workable, At, Busy
<1>4. Len(todo'[w]) \in Nat \ {0} /\ 1 \in 1..Len(todo'[w])
  BY <1>3, EmptySeq
<1>5. Current(w)' = todo'[w][1] /\ todo'[w][1] \in Calls
  BY <1>3, <1>4 DEF Current
<1>6. Script(w)' = Statements(todo'[w][1].method)
  BY <1>2, <1>5, SameScripts DEF Script
<1>7. line'[w] = 1 /\ todo'[w][1].method \in {"insert_document", "insert_document_and_chunks"}
  <2>1. todo'[w][1].method \in Methods
    BY <1>5 DEF Calls
  <2>2. line'[w] \in 1..Len(Statements(todo'[w][1].method))
    BY <1>1, <1>6 DEF GoOn, Workable, At
  <2>3. Statements(todo'[w][1].method)[line'[w]] = "insert-document"
    BY <1>1, <1>6 DEF At, Op
  <2> QED BY <2>1, <2>2, <2>3, Roles DEF RoleOf
<1>8. CASE todo'[w] = todo[w] /\ line'[w] >= line[w]
  <2>1. Busy(w) /\ Current(w) = todo[w][1]
    BY <1>3, <1>8, CurrentIs DEF Busy
  <2>2. line[w] \in Nat \ {0}
    BY <2>1, CurrentIs
  <2>3. line'[w] = line[w]
    BY <1>7, <1>8, <2>2
  <2> QED BY <1>1, <1>2, <1>8, <2>3, Same DEF ToBeInserted
<1>9. CASE 1 + 1 \in 1..Len(todo[w]) /\ 1 + 1 > 1 /\ todo'[w][1] = todo[w][1 + 1]
  BY <1>3, <1>7, <1>9 DEF Tidy
<1> QED BY <1>2, <1>4, <1>8, <1>9, CallsLeft

\* A worker that advances goes on, and the others stay.
LEMMA AdvancesOn ==
    ASSUME Workable, NEW w \in Workers, Busy(w), NEW n \in 1..Len(Script(w)), line[w] <= n,
           AdvanceTo(w, n), backend' = backend
    PROVE  /\ GoOn
           /\ \A v \in Workers \ {w} : todo'[v] = todo[v] /\ line'[v] = line[v]
           /\ \/ n < Len(Script(w)) /\ todo'[w] = todo[w] /\ line'[w] = n + 1
              \/ n = Len(Script(w)) /\ todo'[w] = Tail(todo[w]) /\ line'[w] = 1
<1>1. line[w] \in Nat /\ Len(Script(w)) \in 2..6
  BY CurrentIs
<1>2. /\ Workable'
      /\ \A v \in Workers \ {w} : todo'[v] = todo[v] /\ line'[v] = line[v]
      /\ \/ n < Len(Script(w)) /\ todo'[w] = todo[w] /\ line'[w] = n + 1
         \/ n = Len(Script(w)) /\ todo'[w] = Tail(todo[w]) /\ line'[w] = 1
  BY Advanced
<1>3. n + 1 > line[w]
  BY <1>1
<1>4. Goes(w)
  BY <1>2, <1>3 DEF Goes
<1> QED BY <1>2, <1>4 DEF GoOn, Goes

\* So do they when one stops.
LEMMA StopsOn ==
    ASSUME Workable, NEW w \in Workers, Stop(w), backend' = backend
    PROVE  /\ GoOn
           /\ \A v \in Workers \ {w} : todo'[v] = todo[v] /\ line'[v] = line[v]
           /\ ~Busy(w)'
<1>1. /\ Workable'
      /\ \A v \in Workers \ {w} : todo'[v] = todo[v] /\ line'[v] = line[v]
      /\ ~Busy(w)'
  BY Stopped
<1>2. Goes(w)
  BY DEF Goes, Stop, Workable
<1> QED BY <1>1, <1>2 DEF GoOn, Goes

-----------------------------------------------------------------------------
(* The inductive invariant.                                                *)

\* The methods of an ingestion that write rows of its document.
Writers == {"insert_document", "insert_chunks", "insert_document_and_chunks",
            "insert_tree_nodes", "update_chunk_summaries"}

Typed ==
    /\ live \in [Docs -> Rows]
    /\ disk \in [Docs -> Rows]
    /\ Workable
    /\ saved \subseteq used /\ deleted \subseteq used /\ used \subseteq Docs
    /\ raced \subseteq Docs /\ half \subseteq Docs
    /\ early \subseteq Docs \X Parts
    /\ backend \in Backends

Keyed == \A d \in Docs : RespectsKeys(live[d]) /\ RespectsKeys(disk[d])

\* On PostgreSQL nothing is ever half done.
AtOnce ==
    backend = "postgres" =>
       /\ live = disk
       /\ raced = {} /\ half = {}
       /\ \A w \in Workers : Busy(w) => line[w] = 1 \/ Op(w) = "saved"

\* Only documents that were given to an ingestion are written or embedded, each
\* by the calls of one ingestion.
OnUsed ==
    /\ \A w \in Workers : \A c \in Pending(w) :
          c.method \in Writers \cup {"update_chunk_embeddings"} => c.docs \subseteq used
    /\ \A d \in Docs \ used : ~live[d].doc /\ ~disk[d].doc
    /\ \A v, w \in Workers : \A c \in Pending(v), e \in Pending(w) :
          c.method \in Writers /\ e.method \in Writers /\ c.docs \cap e.docs # {} => v = w

\* Chunks are inserted where there are none.
FreshInsert == \A w \in Workers, d \in Docs : WillInsert(w, d) => ~live[d].chunks

\* What a worker that is inside a document relies on.
Relies(w, r) ==
    /\ Op(w) = "insert-fts" => r.chunks
    /\ r.fts = 0
    /\ Op(w) = "delete-document" => ~r.chunks

IndexInv ==
    /\ \A d \in Docs \ raced :
          /\ (\A w \in Workers : ~Inside(w, d)) => IndexMatches(live[d])
          /\ \A w \in Workers : Inside(w, d) => ~Disputed(w, d) /\ Relies(w, live[d])
    /\ \A d \in Docs \ half : IndexMatches(disk[d])

SavedInv ==
    /\ \A d \in saved : live[d].chunks /\ disk[d].chunks
    /\ \A w \in Workers : At(w, "saved") =>
          \A d \in Current(w).docs : live[d].chunks => disk[d].chunks

DeletedInv == \A d \in deleted : ~live[d].doc /\ ~disk[d].doc /\ ~ToBeInserted(d)

EmbedsPlain(c, d, p) ==
    /\ c.method \in Inserts \cup {"update_chunk_embeddings"}
    /\ d \in c.docs /\ p \in c.parts \ c.ctx

Summarizes(c, d, p) ==
    /\ d \in c.docs
    /\ \/ c.method = "update_chunk_summaries" /\ p \in c.parts
       \/ c.method \in Inserts /\ p \in c.ctx

EmbedInv ==
    \A d \in Docs, p \in Parts : <<d, p>> \notin early =>
       /\ \A r \in {live[d], disk[d]} : p \in r.sum => r.emb[p] # "plain"
       /\ \A w \in Workers : \A c \in Pending(w) :
             EmbedsPlain(c, d, p) =>
                /\ p \notin live[d].sum
                /\ \A v \in Workers : \A e \in Pending(v) : ~Summarizes(e, d, p)
       /\ \A w \in Workers : \A c \in Pending(w) :
             Summarizes(c, d, p) => live[d].emb[p] # "plain"

IInv == /\ Typed /\ Keyed /\ AtOnce /\ OnUsed /\ FreshInsert
        /\ IndexInv /\ SavedInv /\ DeletedInv /\ EmbedInv

-----------------------------------------------------------------------------
(* A step of a worker that has begun, and of the store.                    *)

\* What becomes of the summary and the embedding of the batch p when the call c
\* makes e of the rows r of d.
Blends(c, d, r, e, p) ==
    /\ p \in e.sum => p \in r.sum \/ Summarizes(c, d, p)
    /\ e.emb[p] = "plain" => r.emb[p] = "plain" \/ EmbedsPlain(c, d, p)
    /\ p \in e.sum /\ e.emb[p] = "plain" =>
         \/ p \in r.sum /\ (r.emb[p] = "plain" \/ EmbedsPlain(c, d, p))
         \/ r.emb[p] = "plain" /\ Summarizes(c, d, p)

\* w makes live'[d] of live[d], which is one of the documents of its call.
Writes(w, d) ==
    LET c == Current(w)
        r == live[d]
        e == live'[d]
    IN /\ Busy(w) /\ d \in c.docs /\ Op(w) # "saved"
       /\ RespectsKeys(e)
       /\ e.doc => r.doc \/ Op(w) = "insert-document"
       /\ e.chunks => r.chunks \/ (c.method \in Inserts /\ WillInsert(w, d) /\ ~WillInsert(w, d)')
       /\ \A p \in Parts : Blends(c, d, r, e, p)

\* What every step but a beginning and a crash does.
Going ==
    /\ GoOn
    /\ used' = used /\ early' = early
    /\ live' \in [Docs -> Rows]
    /\ \A d \in Docs : live'[d] = live[d] \/ \E w \in Workers : Writes(w, d)
    /\ \/ disk' = live'
       \/ /\ disk' = disk
          /\ \A w \in Workers :
                At(w, "saved")' => At(w, "saved") /\ Current(w)' = Current(w)
    /\ \A d \in saved' :
          \/ d \in saved /\ (live[d].chunks => live'[d].chunks)
          \/ d \in used /\ live'[d].chunks /\ disk'[d].chunks
    /\ \A d \in deleted' :
          \/ d \in deleted
          \/ d \in used /\ ~live'[d].doc /\ disk' = live' /\ ~ToBeInserted(d)
    /\ raced' \subseteq Docs /\ half' \subseteq Docs

\* The types.
LEMMA GoingTyped ==
    ASSUME Typed, Going
    PROVE  Typed'
<1>1. disk' \in [Docs -> Rows]
  BY DEF Typed, Going
<1>2. saved' \subseteq used' /\ deleted' \subseteq used'
  BY DEF Typed, Going
<1> QED BY <1>1, <1>2 DEF Typed, Going, GoOn

\* The keys.
LEMMA GoingKeyed ==
    ASSUME Typed, Keyed, Going
    PROVE  Keyed'
<1>1. \A d \in Docs : RespectsKeys(live'[d])
  BY DEF Keyed, Going, Writes
<1> QED BY <1>1 DEF Keyed, Going

\* The documents in use.
LEMMA GoingOnUsed ==
    ASSUME Typed, OnUsed, Going
    PROVE  OnUsed'
<1>1. \A w \in Workers : Pending(w)' \subseteq Pending(w)
  BY PlansShrink DEF Typed, Going
<1>2. ASSUME NEW d \in Docs \ used
      PROVE  ~live'[d].doc
  <2>1. CASE live'[d] = live[d]
    BY <2>1 DEF OnUsed
  <2>2. CASE \E w \in Workers : Writes(w, d)
    <3>1. PICK w \in Workers : Writes(w, d)
      BY <2>2
    <3>2. Current(w) \in Pending(w)
      BY <3>1, CurrentIs DEF Writes, Typed
    <3>3. Op(w) # "insert-document"
      <4>1. RoleOf(Current(w).method, line[w], Len(Script(w)), Op(w))
        BY <3>1, OpIs DEF Typed, Writes
      <4> QED BY <3>1, <3>2, <4>1 DEF RoleOf, OnUsed, Writers, Writes
    <3> QED BY <3>1, <3>3 DEF OnUsed, Writes
  <2> QED BY <2>1, <2>2 DEF Going
<1>3. \A d \in Docs \ used : ~disk'[d].doc
  BY <1>2 DEF Going, OnUsed
<1>4. used' = used
  BY DEF Going
<1>5. \A w \in Workers : \A c \in Pending(w)' :
         c.method \in Writers \cup {"update_chunk_embeddings"} => c.docs \subseteq used'
  BY <1>1, <1>4 DEF OnUsed
<1>6. \A v, w \in Workers : \A c \in Pending(v)', e \in Pending(w)' :
         c.method \in Writers /\ e.method \in Writers /\ c.docs \cap e.docs # {} => v = w
  BY <1>1 DEF OnUsed
<1> QED BY <1>2, <1>3, <1>4, <1>5, <1>6 DEF OnUsed

\* A worker that will insert chunks has a call to do it with.
LEMMA InsertsByCall ==
    ASSUME NEW w \in Workers, NEW d, WillInsert(w, d)
    PROVE  \E c \in Pending(w) : c.method \in Inserts /\ d \in c.docs
BY DEF WillInsert, Pending, Inserts

\* Chunks are inserted where there are none.
LEMMA GoingFresh ==
    ASSUME Typed, OnUsed, FreshInsert, Going
    PROVE  FreshInsert'
<1> SUFFICES ASSUME NEW w \in Workers, NEW d \in Docs, WillInsert(w, d)'
             PROVE  ~live'[d].chunks
  BY DEF FreshInsert
<1>1. WillInsert(w, d)
  BY PlansShrink DEF Typed, Going
<1>2. ~live[d].chunks
  BY <1>1 DEF FreshInsert
<1>3. CASE \E v \in Workers : Writes(v, d)
  <2>1. PICK v \in Workers : Writes(v, d)
    BY <1>3
  <2>2. ASSUME live'[d].chunks
        PROVE  FALSE
    <3>1. Current(v).method \in Inserts /\ ~WillInsert(v, d)' /\ d \in Current(v).docs
      BY <1>2, <2>1, <2>2 DEF Writes
    <3>2. Current(v) \in Pending(v)
      BY <2>1, CurrentIs DEF Writes, Typed
    <3>3. PICK c \in Pending(w) : c.method \in Inserts /\ d \in c.docs
      BY <1>1, InsertsByCall
    <3>4. v = w
      BY <3>1, <3>2, <3>3 DEF OnUsed, Inserts, Writers
    <3> QED BY <3>1, <3>4
  <2> QED BY <2>2
<1> QED BY <1>2, <1>3 DEF Going

\* What was saved is on disk.
LEMMA GoingSaved ==
    ASSUME Typed, OnUsed, SavedInv, Going
    PROVE  SavedInv'
<1>1. ASSUME NEW d \in saved'
      PROVE  live'[d].chunks /\ disk'[d].chunks
  BY <1>1 DEF SavedInv, Going
<1>2. ASSUME NEW w \in Workers, At(w, "saved")', NEW d \in Current(w)'.docs, live'[d].chunks
      PROVE  disk'[d].chunks
  <2>1. CASE disk' = live'
    BY <1>2, <2>1
  <2>2. CASE disk' = disk /\ At(w, "saved") /\ Current(w)' = Current(w)
    <3>1. Busy(w) /\ Op(w) = "saved"
      BY <2>2 DEF At
    <3>2. /\ Current(w) \in Pending(w) /\ d \in Current(w).docs /\ d \in Docs
          /\ Current(w).method = "insert_document_and_chunks"
      <4>1. RoleOf(Current(w).method, line[w], Len(Script(w)), Op(w))
        BY <3>1, OpIs DEF Typed
      <4> QED BY <1>2, <2>2, <3>1, <4>1, CurrentIs DEF RoleOf, Typed
    <3>3. live[d].chunks => disk[d].chunks
      BY <2>2, <3>2 DEF SavedInv
    <3>4. ASSUME NEW v \in Workers, Writes(v, d), ~live[d].chunks
          PROVE  FALSE
      <4>1. Current(v) \in Pending(v) /\ Current(v).method \in Inserts /\ d \in Current(v).docs
        BY <1>2, <3>4, CurrentIs DEF Writes, Typed
      <4>2. v = w
        BY <3>2, <4>1 DEF OnUsed, Inserts, Writers
      <4> QED BY <3>1, <3>4, <4>2 DEF Writes
    <3> QED BY <1>2, <2>2, <3>2, <3>3, <3>4 DEF Going
  <2> QED BY <1>2, <2>1, <2>2 DEF Going
<1> QED BY <1>1, <1>2 DEF SavedInv

\* What was deleted stays so.
LEMMA GoingDeleted ==
    ASSUME Typed, DeletedInv, Going
    PROVE  DeletedInv'
<1> SUFFICES ASSUME NEW d \in deleted'
             PROVE  ~live'[d].doc /\ ~disk'[d].doc /\ ~ToBeInserted(d)'
  BY DEF DeletedInv
<1>1. ~ToBeInserted(d)' /\ d \in Docs
  BY InsertedOnce DEF Typed, Going, DeletedInv
<1>2. CASE d \in deleted
  <2>1. ~live[d].doc /\ ~disk[d].doc /\ ~ToBeInserted(d)
    BY <1>2 DEF DeletedInv
  <2>2. ~live'[d].doc
    <3>1. \A w \in Workers : Writes(w, d) => Op(w) # "insert-document"
      BY <2>1 DEF ToBeInserted, At, Writes
    <3> QED BY <1>1, <2>1, <3>1 DEF Writes, Going
  <2> QED BY <1>1, <2>1, <2>2 DEF Going
<1> QED BY <1>1, <1>2 DEF Going

\* Embeddings and summaries.
LEMMA GoingEmbed ==
    ASSUME Typed, EmbedInv, Going
    PROVE  EmbedInv'
<1> SUFFICES ASSUME NEW d \in Docs, NEW p \in Parts, <<d, p>> \notin early'
             PROVE  /\ \A r \in {live'[d], disk'[d]} : p \in r.sum => r.emb[p] # "plain"
                    /\ \A w \in Workers : \A c \in Pending(w)' :
                          EmbedsPlain(c, d, p) =>
                             /\ p \notin live'[d].sum
                             /\ \A v \in Workers : \A e \in Pending(v)' : ~Summarizes(e, d, p)
                    /\ \A w \in Workers : \A c \in Pending(w)' :
                          Summarizes(c, d, p) => live'[d].emb[p] # "plain"
  BY DEF EmbedInv, EmbedsPlain, Summarizes
<1>1. \A w \in Workers : Pending(w)' \subseteq Pending(w)
  BY PlansShrink DEF Typed, Going
<1>2. <<d, p>> \notin early
  BY DEF Going
<1>3. /\ p \in live[d].sum => live[d].emb[p] # "plain"
      /\ p \in disk[d].sum => disk[d].emb[p] # "plain"
  BY <1>2 DEF EmbedInv
<1>4. \A w \in Workers : \A c \in Pending(w) :
         EmbedsPlain(c, d, p) =>
            /\ p \notin live[d].sum
            /\ \A v \in Workers : \A e \in Pending(v) : ~Summarizes(e, d, p)
  BY <1>2 DEF EmbedInv
<1>5. \A w \in Workers : \A c \in Pending(w) :
         Summarizes(c, d, p) => live[d].emb[p] # "plain"
  BY <1>2 DEF EmbedInv
<1>6. live'[d] = live[d] \/ \E w \in Workers : Writes(w, d)
  BY DEF Going
<1>7. \A w \in Workers : Writes(w, d) => Current(w) \in Pending(w)
  BY CurrentIs DEF Writes, Typed
<1>8. p \in live'[d].sum => live'[d].emb[p] # "plain"
  BY <1>3, <1>4, <1>5, <1>6, <1>7 DEF Writes, Blends
<1>9. \A r \in {live'[d], disk'[d]} : p \in r.sum => r.emb[p] # "plain"
  BY <1>3, <1>8 DEF Going
<1>10. ASSUME NEW w \in Workers, NEW c \in Pending(w)', EmbedsPlain(c, d, p)
       PROVE  /\ p \notin live'[d].sum
              /\ \A v \in Workers : \A e \in Pending(v)' : ~Summarizes(e, d, p)
  BY <1>1, <1>4, <1>6, <1>7, <1>10 DEF Writes, Blends
<1>11. ASSUME NEW w \in Workers, NEW c \in Pending(w)', Summarizes(c, d, p)
       PROVE  live'[d].emb[p] # "plain"
  BY <1>1, <1>4, <1>5, <1>6, <1>7, <1>11 DEF Writes, Blends
<1> QED BY <1>9, <1>10, <1>11

-----------------------------------------------------------------------------
(* The steps of workers.                                                   *)

\* Where a worker is that has advanced.
LEMMA NextOp ==
    ASSUME Workable, NEW w \in Workers, Busy(w), NEW n \in 1..Len(Script(w)), line[w] <= n,
           AdvanceTo(w, n), backend' = backend, Busy(w)'
    PROVE  \/ /\ n < Len(Script(w)) /\ Current(w)' = Current(w)
              /\ line'[w] = n + 1 /\ Op(w)' = Script(w)[n + 1]
           \/ line'[w] = 1 /\ Op(w)' \in Starts
<1>1. /\ Workable'
      /\ \/ n < Len(Script(w)) /\ todo'[w] = todo[w] /\ line'[w] = n + 1
         \/ n = Len(Script(w)) /\ todo'[w] = Tail(todo[w]) /\ line'[w] = 1
  BY Advanced
<1>2. Script(w)' = Statements(Head(todo'[w]).method)
  BY SameScripts DEF Script, Current
<1>3. CASE n < Len(Script(w)) /\ todo'[w] = todo[w] /\ line'[w] = n + 1
  <2>1. Current(w)' = Current(w)
    BY <1>3 DEF Current
  <2>2. Script(w)' = Script(w)
    BY <1>2, <1>3 DEF Script, Current
  <2> QED BY <1>3, <2>1, <2>2 DEF Op
<1>4. CASE line'[w] = 1
  <2>1. todo'[w] \in Seq(Calls) /\ todo'[w] # <<>>
    BY <1>1 DEF Workable, Busy
  <2>2. Head(todo'[w]).method \in Methods
    <3>1. Head(todo'[w]) \in Calls
      BY <2>1, HeadTailProperties
    <3> QED BY <3>1 DEF Calls
  <2>3. Op(w)' = Statements(Head(todo'[w]).method)[1]
    BY <1>2, <1>4 DEF Op
  <2> QED BY <1>4, <2>2, <2>3, ScriptsAre
<1> QED BY <1>1, <1>3, <1>4

\* The chunks of a document are inserted once.
LEMMA InsertedNow ==
    ASSUME Workable, NEW w \in Workers, Busy(w), NEW n \in 1..Len(Script(w)), line[w] <= n,
           AdvanceTo(w, n), backend' = backend, Current(w).method \in Inserts,
           Current(w).method = "insert_document_and_chunks" => n >= 3,
           NEW d
    PROVE  ~WillInsert(w, d)'
<1>1. /\ Workable'
      /\ \/ n < Len(Script(w)) /\ todo'[w] = todo[w] /\ line'[w] = n + 1
         \/ n = Len(Script(w)) /\ todo'[w] = Tail(todo[w]) /\ line'[w] = 1
  BY Advanced
<1>2. /\ Tidy(todo[w]) /\ Current(w) = todo[w][1] /\ Len(todo[w]) \in Nat \ {0}
      /\ line[w] \in Nat /\ n \in Nat /\ 1 \in 1..Len(todo[w])
  BY CurrentIs DEF Workable
<1>3. Goes(w) /\ line'[w] \in Nat
  BY <1>1, AdvancesOn DEF GoOn, Workable
<1>4. ASSUME NEW i \in 1..Len(todo[w]), i > 1
      PROVE  todo[w][i].method \notin Inserts
  <2>1. todo[w][i].method # "insert_document_and_chunks"
    BY <1>2, <1>4 DEF Tidy
  <2>2. ASSUME todo[w][i].method = "insert_chunks"
        PROVE  FALSE
    <3>1. todo[w][1].method # "insert_document_and_chunks" /\ i = Len(todo[w])
      BY <1>2, <2>2 DEF Tidy
    <3>2. todo[w][1].method = "insert_chunks"
      BY <1>2, <3>1 DEF Inserts
    <3>3. 1 = Len(todo[w])
      BY <1>2, <3>2 DEF Tidy
    <3>4. i = 1
      BY <3>1, <3>3
    <3> QED BY <1>4, <3>4
  <2> QED BY <2>1, <2>2 DEF Inserts
<1> SUFFICES ASSUME NEW i \in 1..Len(todo'[w]), todo'[w][i].method \in Inserts
             PROVE  ~(\/ todo'[w][i].method = "insert_chunks" /\ (i = 1 => line'[w] = 1)
                      \/ /\ todo'[w][i].method = "insert_document_and_chunks"
                         /\ i = 1 => line'[w] <= 3)
  BY DEF WillInsert, Inserts
<1>5. CASE i + 1 \in 1..Len(todo[w]) /\ i + 1 > 1 /\ todo'[w][i] = todo[w][i + 1]
  BY <1>4, <1>5
<1>6. CASE todo'[w] = todo[w] /\ i \in 1..Len(todo[w]) /\ line'[w] = n + 1
  <2>1. i = 1
    BY <1>4, <1>6
  <2>2. line'[w] # 1 /\ (n >= 3 => ~(line'[w] <= 3))
    BY <1>2, <1>6
  <2> QED BY <1>2, <1>6, <2>1, <2>2
<1>7. CASE todo'[w] = Tail(todo[w]) /\ todo'[w] = todo[w]
  <2>1. Len(Tail(todo[w])) = Len(todo[w]) - 1
    BY <1>2, HeadTailProperties, EmptySeq DEF Workable
  <2>2. Len(todo[w]) - 1 # Len(todo[w])
    BY <1>2
  <2> QED BY <1>7, <2>1, <2>2
<1> QED BY <1>1, <1>3, <1>5, <1>6, <1>7, CallsLeft

\* An embedding is plain where it was or where it is made so.
LEMMA EmbeddedIs ==
    ASSUME NEW emb, NEW ps, NEW ctx, NEW p \in Parts
    PROVE  /\ Embedded(emb, ps, ctx)[p] = "plain" =>
                (p \in ps \ ctx) \/ (p \notin ps /\ emb[p] = "plain")
           /\ Unembedded[p] # "plain"
<1>1. Embedded(emb, ps, ctx)[p] = IF p \notin ps THEN emb[p]
                                  ELSE IF p \in ctx THEN "contextual" ELSE "plain"
  BY DEF Embedded
<1>2. Unembedded[p] = "none"
  BY DEF Unembedded
<1> QED BY <1>1, <1>2

\* What is written to the rows of a document.
LEMMA MadeBy ==
    ASSUME NEW c \in Calls, NEW op, NEW i, NEW n, RoleOf(c.method, i, n, op),
           NEW r \in Rows, NEW e, Makes(op, c, r, e), RespectsKeys(r), NEW d \in c.docs,
           op \in {"insert-chunks", "insert-tree"} => r.doc
    PROVE  /\ RespectsKeys(e)
           /\ e.doc => r.doc \/ op = "insert-document"
           /\ e.chunks => r.chunks \/ op = "insert-chunks"
           /\ r.chunks /\ ~e.chunks => Deletes(op)
           /\ \A p \in Parts : Blends(c, d, r, e, p)
<1>1. RespectsKeys(e)
  BY DEF Makes, RespectsKeys
<1>2. /\ e.doc => r.doc \/ op = "insert-document"
      /\ e.chunks => r.chunks \/ op = "insert-chunks"
      /\ r.chunks /\ ~e.chunks => Deletes(op)
  BY DEF Makes, Deletes
<1>3. ASSUME NEW p \in Parts
      PROVE  Blends(c, d, r, e, p)
  <2>1. CASE op = "insert-chunks"
    <3>1. e.sum = c.ctx /\ e.emb = Embedded(Unembedded, c.parts, c.ctx)
      BY <2>1 DEF Makes
    <3>2. c.method \in Inserts
      BY <2>1 DEF RoleOf, Inserts
    <3>3. e.emb[p] = "plain" => p \in c.parts \ c.ctx
      BY <3>1, EmbeddedIs
    <3> QED BY <3>1, <3>2, <3>3 DEF Summarizes, EmbedsPlain, Blends
  <2>2. CASE Deletes(op)
    <3>1. e.sum = {} /\ e.emb = Unembedded
      BY <2>2 DEF Makes, Deletes
    <3> QED BY <3>1, EmbeddedIs DEF Blends
  <2>3. CASE op = "summarize-chunks"
    <3>1. /\ p \in e.sum => p \in r.sum \/ p \in c.parts
          /\ e.emb[p] = r.emb[p]
      BY <2>3 DEF Makes
    <3>2. p \in c.parts => Summarizes(c, d, p)
      BY <2>3 DEF RoleOf, Summarizes
    <3> QED BY <3>1, <3>2 DEF Blends
  <2>4. CASE op = "embed"
    <3>1. /\ p \in e.sum <=> p \in r.sum
          /\ e.emb = r.emb \/ e.emb = Embedded(r.emb, c.parts, c.ctx)
      BY <2>4 DEF Makes
    <3>2. p \in c.parts \ c.ctx => EmbedsPlain(c, d, p)
      BY <2>4 DEF RoleOf, EmbedsPlain
    <3>3. e.emb[p] = "plain" => p \in c.parts \ c.ctx \/ r.emb[p] = "plain"
      BY <3>1, EmbeddedIs
    <3> QED BY <3>1, <3>2, <3>3 DEF Blends
  <2>5. CASE op \notin {"insert-chunks", "summarize-chunks", "embed"} /\ ~Deletes(op)
    <3>1. (p \in e.sum <=> p \in r.sum) /\ e.emb[p] = r.emb[p]
      BY <2>5 DEF Makes, Deletes
    <3> QED BY <3>1 DEF Blends
  <2> QED BY <2>1, <2>2, <2>3, <2>4, <2>5
<1> QED BY <1>1, <1>2, <1>3

\* The same of a transaction.
LEMMA TransactedBy ==
    ASSUME NEW c \in Calls, NEW r \in Rows, NEW e, Transacts(c.method, c, r, e),
           RespectsKeys(r), NEW d \in c.docs,
           c.method \in {"insert_chunks", "insert_tree_nodes"} => r.doc
    PROVE  /\ RespectsKeys(e)
           /\ e.doc => \/ r.doc
                       \/ c.method \in {"insert_document", "insert_document_and_chunks"}
           /\ e.chunks => r.chunks \/ c.method \in Inserts
           /\ r.chunks /\ ~e.chunks => c.method \in {"delete", "cleanup_orphaned_chunks"}
           /\ \A p \in Parts : Blends(c, d, r, e, p)
<1> DEFINE m == c.method
<1>1. RespectsKeys(e)
  BY DEF Transacts, RespectsKeys
<1>2. /\ e.doc => r.doc \/ m \in {"insert_document", "insert_document_and_chunks"}
      /\ e.chunks => r.chunks \/ m \in Inserts
      /\ r.chunks /\ ~e.chunks => m \in {"delete", "cleanup_orphaned_chunks"}
  BY DEF Transacts, Inserts
<1>3. ASSUME NEW p \in Parts
      PROVE  Blends(c, d, r, e, p)
  <2>1. CASE m \in Inserts
    <3>1. e.sum = c.ctx /\ e.emb = Embedded(Unembedded, c.parts, c.ctx)
      BY <2>1 DEF Transacts, Inserts
    <3>2. e.emb[p] = "plain" => p \in c.parts \ c.ctx
      BY <3>1, EmbeddedIs
    <3> QED BY <2>1, <3>1, <3>2 DEF Summarizes, EmbedsPlain, Blends
  <2>2. CASE m \in {"delete", "cleanup_orphaned_chunks"}
    <3>1. e.sum = {} /\ e.emb = Unembedded
      BY <2>2 DEF Transacts
    <3> QED BY <3>1, EmbeddedIs DEF Blends
  <2>3. CASE m = "update_chunk_summaries"
    <3>1. /\ p \in e.sum => p \in r.sum \/ p \in c.parts
          /\ e.emb[p] = r.emb[p]
      BY <2>3 DEF Transacts
    <3>2. p \in c.parts => Summarizes(c, d, p)
      BY <2>3 DEF Summarizes
    <3> QED BY <3>1, <3>2 DEF Blends
  <2>4. CASE m = "update_chunk_embeddings"
    <3>1. /\ p \in e.sum <=> p \in r.sum
          /\ e.emb = r.emb \/ e.emb = Embedded(r.emb, c.parts, c.ctx)
      BY <2>4 DEF Transacts
    <3>2. p \in c.parts \ c.ctx => EmbedsPlain(c, d, p)
      BY <2>4 DEF EmbedsPlain
    <3>3. e.emb[p] = "plain" => p \in c.parts \ c.ctx \/ r.emb[p] = "plain"
      BY <3>1, EmbeddedIs
    <3> QED BY <3>1, <3>2, <3>3 DEF Blends
  <2>5. CASE m \notin Inserts \cup {"update_chunk_summaries", "update_chunk_embeddings",
                                   "delete", "cleanup_orphaned_chunks"}
    <3>1. (p \in e.sum <=> p \in r.sum) /\ e.emb[p] = r.emb[p]
      BY <2>5 DEF Transacts, Inserts
    <3> QED BY <3>1 DEF Blends
  <2> QED BY <2>1, <2>2, <2>3, <2>4, <2>5
<1> QED BY <1>1, <1>2, <1>3

\* How the methods that insert begin.
LEMMA FirstOps ==
    /\ Statements("insert_document")[1] = "insert-document"
    /\ Statements("insert_chunks")[1] = "insert-chunks"
    /\ Statements("insert_document_and_chunks")[1] = "insert-document"
    /\ Statements("insert_tree_nodes")[1] = "insert-tree"
<1>1. Statements("insert_document")[1] = "insert-document"
  BY DEF Statements, InsertDocument
<1>2. Statements("insert_chunks")[1] = "insert-chunks"
  BY DEF Statements, InsertChunks
<1>3. Statements("insert_document_and_chunks")[1] = "insert-document"
  <2>1. Statements("insert_document_and_chunks") = Checkpoint
    BY DEF Statements
  <2>2. Checkpoint[1] = "insert-document"
    BY DEF Checkpoint, InsertDocumentAndChunks, InsertDocumentAndChunksAtOnce
  <2> QED BY <2>1, <2>2
<1>4. Statements("insert_tree_nodes")[1] = "insert-tree"
  BY DEF Statements, InsertTreeNodes
<1> QED BY <1>1, <1>2, <1>3, <1>4

\* A worker that inserts chunks was to do so.
LEMMA InsertsAsPlanned ==
    ASSUME Workable, NEW w \in Workers, Busy(w), Current(w).method \in Inserts,
           Current(w).method = "insert_chunks" => line[w] = 1,
           line[w] <= 3, NEW d \in Current(w).docs
    PROVE  WillInsert(w, d)
<1>1. Current(w) = todo[w][1] /\ 1 \in 1..Len(todo[w])
  BY CurrentIs
<1> QED BY <1>1, Zenon DEF WillInsert, Inserts

\* The return to the caller of insert_document_and_chunks is awaited after a commit.
LEMMA SavedAfterCommit ==
    ASSUME Workable, backend = "sqlite", NEW w \in Workers, Busy(w), Op(w) # "commit",
           Advance(w), backend' = backend
    PROVE  ~At(w, "saved")'
<1> SUFFICES ASSUME At(w, "saved")'
             PROVE  FALSE
  OBVIOUS
<1>1. /\ line[w] \in 1..Len(Script(w)) /\ line[w] <= line[w]
      /\ Current(w).method \in Methods /\ Script(w) = Statements(Current(w).method)
      /\ AdvanceTo(w, line[w])
  BY CurrentIs DEF Script, Advance
<1>2. Busy(w)' /\ Op(w)' = "saved"
  BY DEF At
<1>3. \/ line[w] < Len(Script(w)) /\ Op(w)' = Script(w)[line[w] + 1]
      \/ Op(w)' \in Starts
  BY <1>1, <1>2, NextOp
<1>4. line[w] < Len(Script(w)) => Follows(Op(w), Script(w)[line[w] + 1])
  BY <1>1, ScriptsFollow DEF Op
<1> QED BY <1>2, <1>3, <1>4 DEF Follows, Starts

\* A statement on SQLite.
LEMMA ExecuteGoing ==
    ASSUME Typed, Keyed, NEW w \in Workers, Execute(w)
    PROVE  Going
<1> DEFINE c == Current(w)
<1>1. /\ backend = "sqlite" /\ Busy(w) /\ Advance(w)
      /\ ~Commits(Op(w)) /\ Op(w) # "saved" /\ ~ViolatesForeignKey(Op(w), c.docs)
      /\ live' = After(Op(w), c, live)
      /\ raced' = RacedBy(w, Op(w), c.docs)
      /\ saved' = IF Deletes(Op(w)) THEN saved \ c.docs ELSE saved
      /\ disk' = disk /\ used' = used /\ deleted' = deleted /\ half' = half
      /\ early' = early /\ backend' = backend
  BY DEF Execute
<1>2. /\ Workable /\ live \in [Docs -> Rows] /\ saved \subseteq used /\ used \subseteq Docs
      /\ raced \subseteq Docs /\ half \subseteq Docs
  BY DEF Typed
<1>3. /\ c \in Calls /\ c.docs \subseteq Docs /\ line[w] \in 1..Len(Script(w))
      /\ line[w] <= line[w] /\ line[w] \in Nat
  BY <1>1, <1>2, CurrentIs
<1>4. RoleOf(c.method, line[w], Len(Script(w)), Op(w))
  BY <1>1, <1>2, OpIs
<1>5. GoOn /\ \A v \in Workers \ {w} : todo'[v] = todo[v] /\ line'[v] = line[v]
  BY <1>1, <1>2, <1>3, AdvancesOn DEF Advance
<1>6. /\ live' \in [Docs -> Rows]
      /\ \A d \in Docs : IF d \in c.docs THEN Makes(Op(w), c, live[d], live'[d])
                        ELSE live'[d] = live[d]
  <2>1. Takes(Op(w), c, live, live')
    BY <1>1, <1>2, <1>3, AfterTakes
  <2> QED BY <2>1 DEF Takes
<1>7. ASSUME NEW d \in Docs, d \in c.docs
      PROVE  Writes(w, d) /\ (live[d].chunks /\ ~live'[d].chunks => Deletes(Op(w)))
  <2>1. /\ live[d] \in Rows /\ RespectsKeys(live[d])
        /\ Op(w) \in {"insert-chunks", "insert-tree"} => live[d].doc
    BY <1>1, <1>2, <1>7 DEF Keyed, ViolatesForeignKey
  <2>2. Makes(Op(w), c, live[d], live'[d])
    BY <1>6, <1>7
  <2>3. /\ RespectsKeys(live'[d])
        /\ live'[d].doc => live[d].doc \/ Op(w) = "insert-document"
        /\ live'[d].chunks => live[d].chunks \/ Op(w) = "insert-chunks"
        /\ live[d].chunks /\ ~live'[d].chunks => Deletes(Op(w))
        /\ \A p \in Parts : Blends(c, d, live[d], live'[d], p)
    <3> HIDE DEF c
    <3> QED BY <1>3, <1>4, <1>7, <2>1, <2>2, MadeBy
  <2>4. ASSUME Op(w) = "insert-chunks"
        PROVE  c.method \in Inserts /\ WillInsert(w, d) /\ ~WillInsert(w, d)'
    <3>1. /\ c.method \in Inserts /\ line[w] <= 3
          /\ c.method = "insert_chunks" => line[w] = 1
          /\ c.method = "insert_document_and_chunks" => line[w] >= 3
      BY <1>1, <1>3, <1>4, <2>4 DEF RoleOf
    <3>2. WillInsert(w, d)
      BY <1>1, <1>2, <1>7, <3>1, InsertsAsPlanned
    <3>3. ~WillInsert(w, d)'
      BY <1>1, <1>2, <1>3, <3>1, InsertedNow DEF Advance
    <3> QED BY <3>1, <3>2, <3>3
  <2> QED BY <1>1, <1>7, <2>3, <2>4 DEF Writes
<1>8. ASSUME NEW v \in Workers, At(v, "saved")'
      PROVE  At(v, "saved") /\ Current(v)' = Current(v)
  <2>1. v # w
    BY <1>1, <1>2, <1>8, SavedAfterCommit DEF Commits
  <2> QED BY <1>1, <1>5, <1>8, <2>1, Same
<1>9. raced' \subseteq Docs
  BY <1>1, <1>2, <1>3 DEF RacedBy
<1>10. ASSUME NEW d \in saved'
       PROVE  d \in saved /\ (live[d].chunks => live'[d].chunks)
  <2>1. d \in saved /\ d \in Docs /\ (Deletes(Op(w)) => d \notin c.docs)
    BY <1>1, <1>2, <1>10
  <2> QED BY <1>6, <1>7, <2>1
<1> QED BY <1>1, <1>2, <1>5, <1>6, <1>7, <1>8, <1>9, <1>10 DEF Going

\* What a transaction does.
LEMMA TransactIs ==
    ASSUME Typed, NEW w \in Workers, Transact(w)
    PROVE  LET c == Current(w)
               n == LastOf(c.method)
           IN /\ backend = "postgres" /\ Busy(w) /\ Op(w) # "saved"
              /\ ~ViolatesForeignKey(Op(w), c.docs)
              /\ Committed(c.method, n, c, live, live')
              /\ disk' = live'
              /\ saved' = IF c.method \in {"delete", "cleanup_orphaned_chunks"}
                          THEN saved \ c.docs ELSE saved
              /\ deleted' = IF c.method = "delete"
                            THEN deleted \cup Gone(c.docs, live') ELSE deleted
              /\ n \in 2..Len(Script(w)) /\ AdvanceTo(w, n)
              /\ used' = used /\ raced' = raced /\ half' = half
              /\ early' = early /\ backend' = backend
<1> DEFINE c == Current(w)
           n == LastOf(c.method)
<1>1. n = CHOOSE i \in DOMAIN Script(w) : Commits(Script(w)[i])
  BY DEF LastOf, Script
<1>2. /\ backend = "postgres" /\ Busy(w) /\ Op(w) # "saved"
      /\ ~ViolatesForeignKey(Op(w), c.docs)
      /\ live' = AfterAll(Script(w), n - 1, c, live)
      /\ disk' = live'
      /\ saved' = IF \E i \in DOMAIN Script(w) : Deletes(Script(w)[i])
                  THEN saved \ c.docs ELSE saved
      /\ deleted' = IF Script(w)[n] = "commit-delete"
                    THEN deleted \cup Gone(c.docs, live') ELSE deleted
      /\ AdvanceTo(w, n)
      /\ used' = used /\ raced' = raced /\ half' = half
      /\ early' = early /\ backend' = backend
  <2> HIDE DEF n
  <2> QED BY <1>1, Zenon DEF Transact
<1> HIDE DEF n
<1>3. Committed(c.method, n, c, live, live')
  <2>1. c \in Calls /\ live \in [Docs -> Rows]
    BY <1>2, CurrentIs DEF Typed
  <2>2. Outcome(c.method, c, live)
    BY <1>2, <2>1, TransactionIs
  <2> QED BY <1>2, <2>2, Zenon DEF Outcome, Script, n
<1>4. Script(w) = Statements(c.method)
  BY DEF Script
<1>5. /\ n \in 2..Len(Script(w))
      /\ Script(w)[n] = "commit-delete" <=> c.method = "delete"
      /\ (\E i \in DOMAIN Script(w) : Deletes(Script(w)[i]))
            <=> c.method \in {"delete", "cleanup_orphaned_chunks"}
  BY <1>3, <1>4, Zenon DEF Committed
<1> HIDE DEF c
<1>6. /\ saved' = IF c.method \in {"delete", "cleanup_orphaned_chunks"}
                  THEN saved \ c.docs ELSE saved
      /\ deleted' = IF c.method = "delete"
                    THEN deleted \cup Gone(c.docs, live') ELSE deleted
  BY <1>2, <1>5
<1> QED BY <1>2, <1>3, <1>5, <1>6 DEF n, c

\* A method on PostgreSQL.
LEMMA TransactGoing ==
    ASSUME Typed, Keyed, AtOnce, NEW w \in Workers, Transact(w)
    PROVE  Going
<1> DEFINE c == Current(w)
           n == LastOf(c.method)
<1>1. /\ backend = "postgres" /\ Busy(w) /\ Op(w) # "saved"
      /\ ~ViolatesForeignKey(Op(w), c.docs)
      /\ Committed(c.method, n, c, live, live')
      /\ disk' = live'
      /\ saved' = IF c.method \in {"delete", "cleanup_orphaned_chunks"}
                  THEN saved \ c.docs ELSE saved
      /\ deleted' = IF c.method = "delete"
                    THEN deleted \cup Gone(c.docs, live') ELSE deleted
      /\ n \in 2..Len(Script(w)) /\ AdvanceTo(w, n)
      /\ used' = used /\ raced' = raced /\ half' = half
      /\ early' = early /\ backend' = backend
  BY TransactIs
<1> HIDE DEF n
<1>2. /\ Workable /\ live \in [Docs -> Rows] /\ saved \subseteq used /\ used \subseteq Docs
      /\ raced \subseteq Docs /\ half \subseteq Docs /\ deleted \subseteq used
  BY DEF Typed
<1>3. /\ c \in Calls /\ c.docs \subseteq Docs /\ c.method \in Methods
      /\ Len(Script(w)) \in 2..6
  BY <1>1, <1>2, CurrentIs
<1>4. line[w] = 1 /\ Op(w) = Statements(c.method)[1]
  BY <1>1 DEF AtOnce, Op, Script
<1>5. /\ n \in 1..Len(Script(w)) /\ line[w] <= n
      /\ c.method = "insert_document_and_chunks" => n >= 3
      /\ live' \in [Docs -> Rows]
      /\ \A d \in Docs : IF d \in c.docs THEN Transacts(c.method, c, live[d], live'[d])
                        ELSE live'[d] = live[d]
  BY <1>1, <1>3, <1>4 DEF Committed
<1>6. GoOn
  BY <1>1, <1>2, <1>5, AdvancesOn
<1>7. ASSUME NEW d \in Docs, d \in c.docs
      PROVE  /\ Writes(w, d)
             /\ live[d].chunks /\ ~live'[d].chunks =>
                  c.method \in {"delete", "cleanup_orphaned_chunks"}
  <2>1. /\ live[d] \in Rows /\ RespectsKeys(live[d])
        /\ c.method \in {"insert_chunks", "insert_tree_nodes"} => live[d].doc
    BY <1>1, <1>2, <1>4, <1>7, FirstOps DEF Keyed, ViolatesForeignKey
  <2>2. Transacts(c.method, c, live[d], live'[d])
    BY <1>5, <1>7
  <2>3. /\ RespectsKeys(live'[d])
        /\ live'[d].doc => \/ live[d].doc
                           \/ c.method \in {"insert_document", "insert_document_and_chunks"}
        /\ live'[d].chunks => live[d].chunks \/ c.method \in Inserts
        /\ live[d].chunks /\ ~live'[d].chunks =>
             c.method \in {"delete", "cleanup_orphaned_chunks"}
        /\ \A p \in Parts : Blends(c, d, live[d], live'[d], p)
    <3> HIDE DEF c
    <3> QED BY <1>3, <1>7, <2>1, <2>2, TransactedBy
  <2>4. c.method \in {"insert_document", "insert_document_and_chunks"} =>
          Op(w) = "insert-document"
    BY <1>4, FirstOps
  <2>5. ASSUME c.method \in Inserts
        PROVE  WillInsert(w, d) /\ ~WillInsert(w, d)'
    <3>1. line[w] <= 3
      BY <1>4
    <3>2. WillInsert(w, d)
      BY <1>1, <1>2, <1>4, <1>7, <2>5, <3>1, InsertsAsPlanned
    <3>3. ~WillInsert(w, d)'
      BY <1>1, <1>2, <1>5, <2>5, InsertedNow
    <3> QED BY <3>2, <3>3
  <2> QED BY <1>1, <1>7, <2>3, <2>4, <2>5 DEF Writes
<1>8. ASSUME NEW d \in saved'
      PROVE  d \in saved /\ (live[d].chunks => live'[d].chunks)
  <2>1. /\ d \in saved /\ d \in Docs
        /\ c.method \in {"delete", "cleanup_orphaned_chunks"} => d \notin c.docs
    BY <1>1, <1>2, <1>8
  <2> QED BY <1>5, <1>7, <2>1
<1>9. ASSUME NEW d \in deleted', d \notin deleted
      PROVE  d \in used /\ ~live'[d].doc /\ ~ToBeInserted(d)
  BY <1>1, <1>9 DEF Gone
<1> QED BY <1>1, <1>2, <1>5, <1>6, <1>7, <1>8, <1>9 DEF Going

\* A commit.
LEMMA CommitGoing ==
    ASSUME Typed, NEW w \in Workers, CommitOwn(w) \/ CommitDelete(w)
    PROVE  Going
<1>1. /\ Busy(w) /\ Advance(w) /\ disk' = live /\ live' = live
      /\ half' = raced \cup {d \in Docs : \E v \in Workers : Inside(v, d)}
      /\ used' = used /\ saved' = saved /\ raced' = raced /\ early' = early
      /\ backend' = backend
      /\ \/ deleted' = deleted
         \/ deleted' = deleted \cup Gone(Current(w).docs, live)
  BY DEF CommitOwn, CommitDelete, Publish, At
<1>2. /\ Workable /\ line[w] \in 1..Len(Script(w)) /\ line[w] <= line[w]
  BY <1>1, CurrentIs DEF Typed
<1>3. GoOn
  BY <1>1, <1>2, AdvancesOn DEF Advance
<1>4. ASSUME NEW d \in deleted', d \notin deleted
      PROVE  d \in used /\ ~live'[d].doc /\ ~ToBeInserted(d)
  BY <1>1, <1>4 DEF Gone
<1> QED BY <1>1, <1>3, <1>4 DEF Going, Typed

\* A commit of somebody else.
LEMMA CommitForeignGoing ==
    ASSUME Typed, CommitForeign
    PROVE  Going
<1>1. /\ disk' = live /\ live' = live /\ todo' = todo /\ line' = line
      /\ half' = raced \cup {d \in Docs : \E v \in Workers : Inside(v, d)}
      /\ used' = used /\ saved' = saved /\ raced' = raced /\ early' = early
      /\ deleted' = deleted /\ backend' = backend
  BY DEF CommitForeign, Publish
<1>2. Workable'
  BY <1>1, Same DEF Typed, Workable
<1>3. GoOn
  BY <1>1, <1>2 DEF GoOn, Goes
<1> QED BY <1>1, <1>3 DEF Going, Typed

\* The return of insert_document_and_chunks.
LEMMA ReturnGoing ==
    ASSUME Typed, Keyed, OnUsed, SavedInv, NEW w \in Workers, ReturnSaved(w)
    PROVE  Going
<1>1. /\ Busy(w) /\ Op(w) = "saved" /\ Advance(w) /\ disk' = disk /\ live' = live
      /\ saved' = saved \cup {d \in Current(w).docs : live[d].chunks}
      /\ used' = used /\ raced' = raced /\ early' = early /\ half' = half
      /\ deleted' = deleted /\ backend' = backend
  BY DEF ReturnSaved, At
<1>2. /\ Workable /\ line[w] \in 1..Len(Script(w)) /\ line[w] <= line[w]
      /\ line[w] \in Nat /\ Current(w).docs \subseteq Docs
  BY <1>1, CurrentIs DEF Typed
<1>3. GoOn /\ \A v \in Workers \ {w} : todo'[v] = todo[v] /\ line'[v] = line[v]
  BY <1>1, <1>2, AdvancesOn DEF Advance
<1>4. line[w] = Len(Script(w))
  <2>1. RoleOf(Current(w).method, line[w], Len(Script(w)), Op(w))
    BY <1>1, <1>2, OpIs
  <2> QED BY <1>1, <2>1 DEF RoleOf
<1>5. ASSUME NEW v \in Workers, At(v, "saved")'
      PROVE  At(v, "saved") /\ Current(v)' = Current(v)
  <2>1. v # w
    <3>1. Busy(w)' => Op(w)' \in Starts
      BY <1>1, <1>2, <1>4, NextOp DEF Advance
    <3> QED BY <1>5, <3>1 DEF At, Starts
  <2> QED BY <1>1, <1>3, <1>5, <2>1, Same
<1>6. ASSUME NEW d \in saved', d \notin saved
      PROVE  d \in used /\ live'[d].chunks /\ disk'[d].chunks
  <2>1. d \in Current(w).docs /\ live[d].chunks /\ d \in Docs
    BY <1>1, <1>2, <1>6
  <2>2. disk[d].chunks
    BY <1>1, <2>1 DEF SavedInv, At
  <2>3. d \in used
    BY <2>1 DEF OnUsed, Keyed, RespectsKeys
  <2> QED BY <1>1, <2>1, <2>2, <2>3
<1> QED BY <1>1, <1>3, <1>5, <1>6 DEF Going, Typed

\* The end of a coroutine before its time.
LEMMA StopGoing ==
    ASSUME Typed, NEW w \in Workers, Raise(w) \/ PauseEmbedding(w) \/ Interrupt(w)
    PROVE  Going
<1>1. /\ Stop(w) /\ disk' = disk /\ live' = live /\ saved' = saved
      /\ used' = used /\ early' = early /\ half' = half
      /\ deleted' = deleted /\ backend' = backend
      /\ raced' = raced \/ raced' = raced \cup {d \in Docs : Inside(w, d)}
  BY DEF Raise, PauseEmbedding, Interrupt
<1>2. /\ GoOn /\ ~Busy(w)'
      /\ \A v \in Workers \ {w} : todo'[v] = todo[v] /\ line'[v] = line[v]
  BY <1>1, StopsOn DEF Typed
<1>3. ASSUME NEW v \in Workers, At(v, "saved")'
      PROVE  At(v, "saved") /\ Current(v)' = Current(v)
  <2>1. v # w
    BY <1>2, <1>3 DEF At
  <2> QED BY <1>1, <1>2, <1>3, <2>1, Same
<1>4. raced' \subseteq Docs
  BY <1>1 DEF Typed
<1> QED BY <1>1, <1>2, <1>3, <1>4 DEF Going, Typed

-----------------------------------------------------------------------------
(* The index.                                                              *)

InsideOps == {"insert-fts", "delete-chunks", "delete-document", "fill-fts"}

\* On PostgreSQL nobody is ever inside a document.
LEMMA NobodyInside ==
    ASSUME Typed, AtOnce, backend = "postgres", NEW w \in Workers
    PROVE  /\ \A d : ~Inside(w, d)
           /\ ~At(w, "commit") /\ ~At(w, "commit-delete")
<1>1. ASSUME Busy(w)
      PROVE  Op(w) \in Starts \cup {"saved"}
  <2>1. CASE line[w] = 1
    <3>1. Current(w).method \in Methods
      BY <1>1, CurrentIs DEF Typed
    <3> QED BY <2>1, <3>1, ScriptsAre DEF Op, Script
  <2> QED BY <1>1, <2>1 DEF AtOnce
<1> QED BY <1>1 DEF Inside, At, Starts

\* Where a worker on SQLite is that has advanced.
LEMMA NextFollows ==
    ASSUME Workable, backend = "sqlite", NEW w \in Workers, Busy(w), Advance(w),
           backend' = backend, Busy(w)'
    PROVE  \/ Current(w)' = Current(w) /\ Follows(Op(w), Op(w)')
           \/ Op(w) \in {"commit", "commit-delete", "saved"} /\ Op(w)' \in Starts
<1>1. /\ line[w] \in 1..Len(Script(w)) /\ line[w] <= line[w]
      /\ Current(w).method \in Methods /\ Script(w) = Statements(Current(w).method)
      /\ AdvanceTo(w, line[w]) /\ Len(Script(w)) \in 2..6
  BY CurrentIs DEF Script, Advance
<1>2. CASE line[w] < Len(Script(w))
  <2>1. Follows(Op(w), Script(w)[line[w] + 1])
    BY <1>1, <1>2, ScriptsFollow DEF Op
  <2>2. todo'[w] = todo[w] /\ line'[w] = line[w] + 1
    BY <1>1, <1>2, AdvancesOn
  <2>3. Current(w)' = Current(w)
    BY <2>2 DEF Current
  <2>4. Op(w)' = Script(w)[line[w] + 1]
    BY <2>2, <2>3, SameScripts DEF Op, Script
  <2> QED BY <2>1, <2>3, <2>4
<1>3. CASE line[w] = Len(Script(w))
  <2>1. Op(w) \in {"commit", "commit-delete", "saved"}
    BY <1>1, <1>3, ScriptsAre DEF Op
  <2>2. Op(w)' \in Starts
    BY <1>1, <1>3, NextOp
  <2> QED BY <2>1, <2>2
<1> QED BY <1>1, <1>2, <1>3

\* A step that writes no rows and leaves w outside of the documents that matter.
LEMMA IndexKept ==
    ASSUME IndexInv, NEW w \in Workers, live' = live, raced \subseteq raced',
           backend' = backend,
           \A v \in Workers \ {w} : todo'[v] = todo[v] /\ line'[v] = line[v],
           \A d \in Docs \ raced' : ~Inside(w, d) /\ ~Inside(w, d)',
           \/ disk' = disk /\ half' = half
           \/ /\ disk' = live
              /\ half' = raced \cup {d \in Docs : \E v \in Workers : Inside(v, d)}
    PROVE  IndexInv'
<1>1. ASSUME NEW v \in Workers, NEW d \in Docs \ raced'
      PROVE  /\ Inside(v, d)' <=> Inside(v, d)
             /\ v # w => Op(v)' = Op(v)
  <2>1. CASE v = w
    BY <2>1
  <2>2. CASE v # w
    <3>1. todo'[v] = todo[v] /\ line'[v] = line[v]
      BY <2>2
    <3>2. Inside(v, d)' = Inside(v, d) /\ Op(v)' = Op(v)
      BY <3>1, Same
    <3> QED BY <3>2
  <2> QED BY <2>1, <2>2
<1>2. ASSUME NEW d \in Docs \ raced'
      PROVE  /\ (\A v \in Workers : ~Inside(v, d)') => IndexMatches(live'[d])
             /\ \A v \in Workers : Inside(v, d)' => ~Disputed(v, d)' /\ Relies(v, live[d])'
  <2>1. (\A v \in Workers : ~Inside(v, d)') => IndexMatches(live'[d])
    BY <1>1 DEF IndexInv
  <2>2. ASSUME NEW v \in Workers, Inside(v, d)'
        PROVE  ~Disputed(v, d)' /\ Relies(v, live[d])'
    <3>1. Inside(v, d) /\ v # w /\ Op(v)' = Op(v)
      BY <1>1, <2>2
    <3>2. ~Disputed(v, d) /\ Relies(v, live[d])
      BY <3>1 DEF IndexInv
    <3>3. ~Disputed(v, d)'
      BY <1>1, <3>2 DEF Disputed
    <3> QED BY <3>1, <3>2, <3>3 DEF Relies
  <2> QED BY <2>1, <2>2
<1>3. \A d \in Docs \ half' : IndexMatches(disk'[d])
  BY DEF IndexInv
<1> QED BY <1>2, <1>3 DEF IndexInv

\* A statement on SQLite.
LEMMA ExecuteIndex ==
    ASSUME Typed, FreshInsert, IndexInv, NEW w \in Workers, Execute(w)
    PROVE  IndexInv'
<1> DEFINE c == Current(w)
           op == Op(w)
<1>1. /\ backend = "sqlite" /\ Busy(w) /\ Advance(w)
      /\ ~Commits(op) /\ op # "saved"
      /\ live' = After(op, c, live)
      /\ raced' = RacedBy(w, op, c.docs)
      /\ disk' = disk /\ half' = half /\ backend' = backend
  BY DEF Execute
<1>2. /\ Workable /\ live \in [Docs -> Rows]
      /\ c \in Calls /\ c.docs \subseteq Docs /\ line[w] \in 1..Len(Script(w))
      /\ line[w] <= line[w] /\ AdvanceTo(w, line[w]) /\ line[w] \in Nat
  BY <1>1, CurrentIs DEF Typed, Advance
<1>3. /\ \A d \in Docs : IF d \in c.docs THEN Makes(op, c, live[d], live'[d])
                        ELSE live'[d] = live[d]
  <2>1. Takes(op, c, live, live')
    BY <1>1, <1>2, AfterTakes
  <2> QED BY <2>1 DEF Takes
<1>4. \A v \in Workers \ {w} : /\ Op(v)' = Op(v)
                               /\ \A d : Inside(v, d)' = Inside(v, d)
  <2>1. \A v \in Workers \ {w} : todo'[v] = todo[v] /\ line'[v] = line[v]
    BY <1>1, <1>2, AdvancesOn
  <2> QED BY <1>1, <2>1, Same
<1>5. Busy(w)' => Current(w)' = c /\ Follows(op, Op(w)')
  BY <1>1, <1>2, NextFollows DEF Commits
<1>6. op \in {"delete-fts", "insert-chunks"} => Busy(w)'
  <2>1. line[w] # Len(Script(w)) \/ op \in {"commit", "commit-delete", "saved"}
    BY <1>1, <1>2, ScriptsAre, CurrentIs DEF Op, Script
  <2>2. line[w] < Len(Script(w)) => Busy(w)'
    <3>1. line[w] < Len(Script(w)) => todo'[w] = todo[w]
      BY <1>1, <1>2, AdvancesOn
    <3> QED BY <1>1, <3>1 DEF Busy
  <2> QED BY <1>1, <1>2, <2>1, <2>2, CurrentIs
<1>7. \A d : /\ Inside(w, d) <=> op \in InsideOps /\ d \in c.docs
             /\ Inside(w, d)' <=> Busy(w)' /\ Op(w)' \in InsideOps /\ d \in c.docs
  BY <1>1, <1>5 DEF Inside, InsideOps
<1> HIDE DEF c, op
<1>8. ASSUME NEW d \in Docs \ raced', op \in IndexOps, d \in c.docs
      PROVE  /\ \A v \in Workers \ {w} : ~Inside(v, d)
             /\ op # "delete-fts" => d \notin raced
             /\ ~Inside(w, d)' => IndexMatches(live'[d])
             /\ Inside(w, d)' => Relies(w, live[d])'
  <2>1. /\ ~Disputed(w, d)
        /\ op # "delete-fts" => d \notin raced
    BY <1>1, <1>8 DEF RacedBy, IndexOps
  <2>2. \A v \in Workers \ {w} : ~Inside(v, d)
    BY <2>1 DEF Disputed
  <2>3. Makes(op, c, live[d], live'[d]) /\ live[d] \in Rows
    BY <1>2, <1>3, <1>8
  <2>4. CASE op = "delete-fts"
    <3>1. live'[d].fts = 0
      BY <2>3, <2>4 DEF Makes
    <3>2. Op(w)' \in {"delete-chunks", "fill-fts"} /\ Inside(w, d)'
      BY <1>5, <1>6, <1>7, <1>8, <2>4 DEF Follows, InsideOps
    <3>3. Relies(w, live[d])'
      BY <3>1, <3>2 DEF Relies
    <3> QED BY <2>1, <2>2, <3>2, <3>3
  <2>5. CASE op = "insert-chunks"
    <3>1. WillInsert(w, d)
      <4>1. RoleOf(Current(w).method, line[w], Len(Script(w)), Op(w))
        BY <1>1, <1>2, OpIs
      <4>2. /\ Current(w).method \in Inserts /\ line[w] <= 3
            /\ Current(w).method = "insert_chunks" => line[w] = 1
            /\ d \in Current(w).docs
        BY <1>8, <2>5, <4>1 DEF RoleOf, op, c
      <4> QED BY <1>1, <1>2, <4>2, InsertsAsPlanned
    <3>2. ~live[d].chunks /\ live[d].fts = 0
      <4>1. ~live[d].chunks
        BY <3>1 DEF FreshInsert
      <4>2. \A v \in Workers : ~Inside(v, d)
        BY <1>7, <2>2, <2>5 DEF InsideOps
      <4> QED BY <2>1, <2>5, <4>1, <4>2 DEF IndexInv, IndexMatches
    <3>3. live'[d].chunks /\ live'[d].fts = 0
      BY <2>3, <2>5, <3>2 DEF Makes
    <3>4. Op(w)' = "insert-fts" /\ Inside(w, d)'
      BY <1>5, <1>6, <1>7, <1>8, <2>5 DEF Follows, InsideOps
    <3>5. Relies(w, live[d])'
      BY <3>3, <3>4 DEF Relies
    <3> QED BY <2>1, <2>2, <3>4, <3>5
  <2>6. CASE op \in InsideOps
    <3>1. d \notin raced /\ Inside(w, d)
      BY <1>7, <1>8, <2>1, <2>6 DEF InsideOps
    <3>2. /\ op = "insert-fts" => live[d].chunks
          /\ live[d].fts = 0
          /\ op = "delete-document" => ~live[d].chunks
      BY <3>1 DEF IndexInv, Relies, op
    <3>3. IndexMatches(live'[d])
      BY <2>3, <2>6, <3>2 DEF Makes, IndexMatches, InsideOps
    <3>4. Inside(w, d)' =>
             /\ op = "delete-chunks"
             /\ Op(w)' \in {"delete-chunks", "delete-document"}
      BY <1>5, <1>7, <2>6 DEF Follows, InsideOps
    <3>5. op = "delete-chunks" => ~live'[d].chunks /\ live'[d].fts = 0
      BY <2>3, <3>2 DEF Makes
    <3>6. Inside(w, d)' => Relies(w, live[d])'
      BY <3>4, <3>5 DEF Relies
    <3> QED BY <2>1, <2>2, <3>3, <3>6
  <2> QED BY <1>8, <2>4, <2>5, <2>6 DEF IndexOps, InsideOps
<1>9. ASSUME NEW d \in Docs \ raced', op \notin IndexOps \/ d \notin c.docs
      PROVE  /\ d \notin raced
             /\ ~Inside(w, d) /\ ~Inside(w, d)'
             /\ live'[d].chunks = live[d].chunks /\ live'[d].fts = live[d].fts
  <2>1. d \notin raced
    BY <1>1, <1>9 DEF RacedBy, IndexOps
  <2>2. ~Inside(w, d) /\ ~Inside(w, d)'
    BY <1>5, <1>7, <1>9 DEF InsideOps, IndexOps, Follows
  <2>3. live'[d].chunks = live[d].chunks /\ live'[d].fts = live[d].fts
    BY <1>3, <1>9 DEF Makes, IndexOps
  <2> QED BY <2>1, <2>2, <2>3
<1>10. ASSUME NEW d \in Docs \ raced'
       PROVE  /\ (\A v \in Workers : ~Inside(v, d)') => IndexMatches(live'[d])
              /\ \A v \in Workers : Inside(v, d)' => ~Disputed(v, d)' /\ Relies(v, live[d])'
  <2>1. CASE op \in IndexOps /\ d \in c.docs
    BY <1>4, <1>8, <2>1 DEF Disputed
  <2>2. CASE op \notin IndexOps \/ d \notin c.docs
    <3>1. /\ d \notin raced /\ ~Inside(w, d) /\ ~Inside(w, d)'
          /\ live'[d].chunks = live[d].chunks /\ live'[d].fts = live[d].fts
      BY <1>9, <2>2
    <3>2. (\A v \in Workers : ~Inside(v, d)') => IndexMatches(live'[d])
      BY <1>4, <3>1 DEF IndexInv, IndexMatches
    <3>3. ASSUME NEW v \in Workers, Inside(v, d)'
          PROVE  ~Disputed(v, d)' /\ Relies(v, live[d])'
      <4>1. v # w /\ Inside(v, d) /\ Op(v)' = Op(v)
        BY <1>4, <3>1, <3>3
      <4>2. ~Disputed(v, d) /\ Relies(v, live[d])
        BY <3>1, <4>1 DEF IndexInv
      <4>3. ~Disputed(v, d)'
        BY <1>4, <3>1, <4>2 DEF Disputed
      <4> QED BY <3>1, <4>1, <4>2, <4>3 DEF Relies
    <3> QED BY <3>2, <3>3
  <2> QED BY <2>1, <2>2
<1>11. \A d \in Docs \ half' : IndexMatches(disk'[d])
  BY <1>1 DEF IndexInv
<1> QED BY <1>10, <1>11 DEF IndexInv

\* A method on PostgreSQL.
LEMMA TransactIndex ==
    ASSUME Typed, AtOnce, FreshInsert, IndexInv, NEW w \in Workers, Transact(w)
    PROVE  AtOnce' /\ IndexInv'
<1> DEFINE c == Current(w)
           n == LastOf(c.method)
<1>1. /\ backend = "postgres" /\ Busy(w) /\ Op(w) # "saved"
      /\ Committed(c.method, n, c, live, live')
      /\ disk' = live'
      /\ n \in 2..Len(Script(w)) /\ AdvanceTo(w, n)
      /\ raced' = raced /\ half' = half /\ backend' = backend
  BY TransactIs
<1> HIDE DEF n
<1>2. /\ Workable /\ live \in [Docs -> Rows] /\ c \in Calls /\ c.docs \subseteq Docs
      /\ Len(Script(w)) \in 2..6 /\ line[w] = 1 /\ raced = {} /\ half = {}
      /\ Script(w) = Statements(c.method)
  BY <1>1, CurrentIs DEF Typed, AtOnce, Script
<1>3. /\ n \in 1..Len(Script(w)) /\ line[w] <= n
      /\ n = Len(Script(w)) \/ Script(w)[n + 1] = "saved"
      /\ \A d \in Docs : IF d \in c.docs THEN Transacts(c.method, c, live[d], live'[d])
                        ELSE live'[d] = live[d]
  BY <1>1, <1>2 DEF Committed
<1>4. /\ Workable'
      /\ \A v \in Workers \ {w} : todo'[v] = todo[v] /\ line'[v] = line[v]
  BY <1>1, <1>2, <1>3, AdvancesOn DEF GoOn
<1>5. ASSUME NEW v \in Workers, Busy(v)'
      PROVE  line'[v] = 1 \/ Op(v)' = "saved"
  <2>1. CASE v = w
    BY <1>1, <1>2, <1>3, <1>5, <2>1, NextOp
  <2>2. CASE v # w
    <3>1. Busy(v)' = Busy(v) /\ Op(v)' = Op(v) /\ line'[v] = line[v]
      BY <1>1, <1>4, <2>2, Same
    <3> QED BY <1>1, <1>5, <3>1 DEF AtOnce
  <2> QED BY <2>1, <2>2
<1>6. AtOnce'
  BY <1>1, <1>2, <1>5 DEF AtOnce
<1>7. \A v \in Workers, d \in Docs : ~Inside(v, d) /\ ~Inside(v, d)'
  <2>1. \A v \in Workers, d \in Docs : ~Inside(v, d)
    BY <1>1, NobodyInside
  <2>2. ASSUME NEW v \in Workers, NEW d \in Docs, Inside(v, d)'
        PROVE  FALSE
    <3>1. Busy(v)' /\ Op(v)' \in InsideOps
      BY <2>2 DEF Inside, InsideOps
    <3>2. line'[v] = 1 /\ v = w
      <4>1. v = w
        BY <1>1, <1>4, <2>1, <2>2, Same
      <4> QED BY <1>5, <3>1, <4>1 DEF InsideOps
    <3>3. Op(w)' \in Starts \/ Op(w)' = "saved"
      BY <1>1, <1>2, <1>3, <3>1, <3>2, NextOp
    <3> QED BY <3>1, <3>2, <3>3 DEF InsideOps, Starts
  <2> QED BY <2>1, <2>2
<1>8. ASSUME NEW d \in Docs
      PROVE  IndexMatches(live'[d])
  <2>1. IndexMatches(live[d])
    BY <1>2, <1>7 DEF IndexInv
  <2>2. CASE d \notin c.docs
    BY <1>3, <2>1, <2>2
  <2>3. CASE d \in c.docs
    <3>1. Transacts(c.method, c, live[d], live'[d]) /\ c.method \in Methods
      BY <1>1, <1>2, <1>3, <2>3, CurrentIs
    <3>2. c.method \in Inserts => ~live[d].chunks
      <4>1. ASSUME c.method \in Inserts
            PROVE  WillInsert(w, d)
        BY <1>1, <1>2, <2>3, <4>1, InsertsAsPlanned
      <4> QED BY <4>1 DEF FreshInsert
    <3> HIDE DEF c
    <3> QED BY <2>1, <3>1, <3>2 DEF Transacts, IndexMatches, Inserts, Methods
  <2> QED BY <2>2, <2>3
<1>9. IndexInv'
  BY <1>1, <1>7, <1>8 DEF IndexInv
<1> QED BY <1>6, <1>9

\* A commit.
LEMMA CommitIndex ==
    ASSUME Typed, AtOnce, IndexInv, NEW w \in Workers, CommitOwn(w) \/ CommitDelete(w)
    PROVE  AtOnce' /\ IndexInv'
<1>1. /\ Busy(w) /\ Advance(w) /\ disk' = live /\ live' = live
      /\ half' = raced \cup {d \in Docs : \E v \in Workers : Inside(v, d)}
      /\ raced' = raced /\ backend' = backend
      /\ Op(w) \in {"commit", "commit-delete"}
      /\ At(w, "commit") \/ At(w, "commit-delete")
  BY DEF CommitOwn, CommitDelete, Publish, At
<1>2. /\ Workable /\ line[w] \in 1..Len(Script(w)) /\ line[w] <= line[w]
      /\ backend = "sqlite"
  BY <1>1, CurrentIs, NobodyInside, CorpusAssumption DEF Typed
<1>3. \A v \in Workers \ {w} : todo'[v] = todo[v] /\ line'[v] = line[v]
  BY <1>1, <1>2, AdvancesOn DEF Advance
<1>4. Busy(w)' => Op(w)' \notin InsideOps
  BY <1>1, <1>2, NextFollows DEF Follows, Starts, InsideOps
<1>5. \A d \in Docs : ~Inside(w, d) /\ ~Inside(w, d)'
  BY <1>1, <1>4 DEF Inside, InsideOps
<1>6. IndexInv'
  BY <1>1, <1>3, <1>5, IndexKept
<1>7. AtOnce'
  BY <1>1, <1>2 DEF AtOnce
<1> QED BY <1>6, <1>7

\* A commit of somebody else.
LEMMA CommitForeignIndex ==
    ASSUME Typed, AtOnce, IndexInv, CommitForeign
    PROVE  AtOnce' /\ IndexInv'
<1>1. /\ disk' = live /\ live' = live /\ todo' = todo /\ line' = line /\ live # disk
      /\ half' = raced \cup {d \in Docs : \E v \in Workers : Inside(v, d)}
      /\ raced' = raced /\ backend' = backend
  BY DEF CommitForeign, Publish
<1>2. backend = "sqlite"
  BY <1>1, CorpusAssumption DEF Typed, AtOnce
<1>3. AtOnce'
  BY <1>1, <1>2 DEF AtOnce
<1>4. ASSUME NEW v \in Workers
      PROVE  Op(v)' = Op(v) /\ \A d : Inside(v, d)' = Inside(v, d)
  BY <1>1, Same
<1>5. \A d \in Docs \ half' : IndexMatches(disk'[d])
  BY <1>1 DEF IndexInv
<1>6. ASSUME NEW d \in Docs \ raced'
      PROVE  /\ (\A v \in Workers : ~Inside(v, d)') => IndexMatches(live'[d])
             /\ \A v \in Workers : Inside(v, d)' => ~Disputed(v, d)' /\ Relies(v, live[d])'
  BY <1>1, <1>4 DEF IndexInv, Disputed, Relies
<1> QED BY <1>3, <1>5, <1>6 DEF IndexInv

\* The return of insert_document_and_chunks.
LEMMA ReturnIndex ==
    ASSUME Typed, AtOnce, IndexInv, NEW w \in Workers, ReturnSaved(w)
    PROVE  AtOnce' /\ IndexInv'
<1>1. /\ Busy(w) /\ Op(w) = "saved" /\ Advance(w) /\ disk' = disk /\ live' = live
      /\ raced' = raced /\ half' = half /\ backend' = backend
  BY DEF ReturnSaved, At
<1>2. /\ Workable /\ line[w] \in 1..Len(Script(w)) /\ line[w] <= line[w]
      /\ line[w] \in Nat
  BY <1>1, CurrentIs DEF Typed
<1>3. \A v \in Workers \ {w} : todo'[v] = todo[v] /\ line'[v] = line[v]
  BY <1>1, <1>2, AdvancesOn DEF Advance
<1>4. line[w] = Len(Script(w))
  <2>1. RoleOf(Current(w).method, line[w], Len(Script(w)), Op(w))
    BY <1>1, <1>2, OpIs
  <2> QED BY <1>1, <2>1 DEF RoleOf
<1>5. Busy(w)' => line'[w] = 1 /\ Op(w)' \in Starts
  BY <1>1, <1>2, <1>4, NextOp DEF Advance
<1>6. \A d \in Docs : ~Inside(w, d) /\ ~Inside(w, d)'
  BY <1>1, <1>5 DEF Inside, Starts
<1>7. IndexInv'
  BY <1>1, <1>3, <1>6, IndexKept
<1>8. ASSUME backend = "postgres", NEW v \in Workers, Busy(v)'
      PROVE  line'[v] = 1 \/ Op(v)' = "saved"
  <2>1. CASE v = w
    BY <1>5, <1>8, <2>1
  <2>2. CASE v # w
    <3>1. Busy(v)' = Busy(v) /\ Op(v)' = Op(v) /\ line'[v] = line[v]
      BY <1>1, <1>3, <2>2, Same
    <3> QED BY <1>8, <3>1 DEF AtOnce
  <2> QED BY <2>1, <2>2
<1>9. AtOnce'
  BY <1>1, <1>8 DEF AtOnce
<1> QED BY <1>7, <1>9

\* The end of a coroutine before its time.
LEMMA StopIndex ==
    ASSUME Typed, AtOnce, IndexInv, NEW w \in Workers,
           Raise(w) \/ PauseEmbedding(w) \/ Interrupt(w)
    PROVE  AtOnce' /\ IndexInv'
<1>1. /\ Stop(w) /\ disk' = disk /\ live' = live /\ half' = half /\ backend' = backend
      /\ \/ /\ raced' = raced
            /\ Op(w) \in {"insert-chunks", "insert-tree", "embed"}
         \/ raced' = raced \cup {d \in Docs : Inside(w, d)}
  BY DEF Raise, PauseEmbedding, Interrupt, ViolatesForeignKey, At
<1>2. /\ ~Busy(w)'
      /\ \A v \in Workers \ {w} : todo'[v] = todo[v] /\ line'[v] = line[v]
  BY <1>1, StopsOn DEF Typed
<1>3. raced \subseteq raced' /\ \A d \in Docs \ raced' : ~Inside(w, d) /\ ~Inside(w, d)'
  BY <1>1, <1>2 DEF Inside
<1>4. IndexInv'
  BY <1>1, <1>2, <1>3, IndexKept
<1>5. ASSUME backend = "postgres"
      PROVE  raced' = {}
  <2>1. \A d : ~Inside(w, d)
    BY <1>5, NobodyInside
  <2> QED BY <1>1, <1>5, <2>1 DEF AtOnce
<1>6. ASSUME backend = "postgres", NEW v \in Workers, Busy(v)'
      PROVE  line'[v] = 1 \/ Op(v)' = "saved"
  <2>1. v # w
    BY <1>2, <1>6
  <2>2. Busy(v)' = Busy(v) /\ Op(v)' = Op(v) /\ line'[v] = line[v]
    BY <1>1, <1>2, <2>1, Same
  <2> QED BY <1>6, <2>2 DEF AtOnce
<1>7. AtOnce'
  BY <1>1, <1>5, <1>6 DEF AtOnce
<1> QED BY <1>4, <1>7

-----------------------------------------------------------------------------
(* The invariant is inductive.                                             *)

\* A step of a worker, or the commit of somebody else.
LEMMA AwaitKeeps ==
    ASSUME IInv, (\E w \in Workers : Await(w)) \/ CommitForeign
    PROVE  IInv'
<1>1. Going /\ AtOnce' /\ IndexInv'
  <2>1. CASE \E w \in Workers : Execute(w)
    <3>1. PICK w \in Workers : Execute(w)
      BY <2>1
    <3>2. AtOnce'
      BY <3>1 DEF Execute, AtOnce
    <3> QED BY <3>1, <3>2, ExecuteGoing, ExecuteIndex DEF IInv
  <2>2. CASE \E w \in Workers : Transact(w)
    BY <2>2, TransactGoing, TransactIndex DEF IInv
  <2>3. CASE \E w \in Workers : CommitOwn(w) \/ CommitDelete(w)
    BY <2>3, CommitGoing, CommitIndex DEF IInv
  <2>4. CASE \E w \in Workers : ReturnSaved(w)
    BY <2>4, ReturnGoing, ReturnIndex DEF IInv
  <2>5. CASE \E w \in Workers : Raise(w) \/ PauseEmbedding(w) \/ Interrupt(w)
    BY <2>5, StopGoing, StopIndex DEF IInv
  <2>6. CASE CommitForeign
    BY <2>6, CommitForeignGoing, CommitForeignIndex DEF IInv
  <2> QED BY <2>1, <2>2, <2>3, <2>4, <2>5, <2>6 DEF Await
<1> QED BY <1>1, GoingTyped, GoingKeyed, GoingOnUsed, GoingFresh, GoingSaved, GoingDeleted,
           GoingEmbed DEF IInv

\* A crash.
LEMMA CrashKeeps ==
    ASSUME IInv, Crash
    PROVE  IInv'
<1>1. /\ live' = disk /\ raced' = half /\ todo' = [w \in Workers |-> <<>>]
      /\ line' = [w \in Workers |-> 1] /\ disk' = disk /\ used' = used /\ saved' = saved
      /\ deleted' = deleted /\ half' = half /\ early' = early /\ backend' = backend
  BY DEF Crash
<1>2. \A w \in Workers : todo'[w] = <<>> /\ line'[w] = 1 /\ ~Busy(w)' /\ Pending(w)' = {}
  BY <1>1 DEF Busy, Pending
<1>3. Workable'
  <2>1. \A w \in Workers : Tidy(todo'[w])
    BY <1>2 DEF Tidy
  <2>2. todo' \in [Workers -> Seq(Calls)]
    BY <1>1, EmptySeq
  <2> QED BY <1>1, <1>2, <2>1, <2>2 DEF Workable
<1>4. Typed'
  BY <1>1, <1>3 DEF IInv, Typed
<1>5. Keyed' /\ AtOnce'
  BY <1>1, <1>2 DEF IInv, Keyed, AtOnce
<1>6. OnUsed'
  BY <1>1, <1>2 DEF IInv, OnUsed
<1>7. FreshInsert'
  BY <1>2 DEF FreshInsert, WillInsert
<1>8. \A w \in Workers : \A d, op : ~Inside(w, d)' /\ ~At(w, op)'
  BY <1>2 DEF Inside, At
<1>9. IndexInv'
  BY <1>1, <1>8 DEF IInv, IndexInv
<1>10. SavedInv'
  BY <1>1, <1>8 DEF IInv, SavedInv
<1>11. DeletedInv'
  BY <1>1, <1>8 DEF IInv, DeletedInv, ToBeInserted
<1>12. EmbedInv'
  BY <1>1, <1>2 DEF IInv, EmbedInv
<1> QED BY <1>4, <1>5, <1>6, <1>7, <1>9, <1>10, <1>11, <1>12 DEF IInv

\* A worker that begins.
Begins(w, program) ==
    /\ todo[w] = <<>> /\ todo' = [todo EXCEPT ![w] = program] /\ line' = line
    /\ program \in Seq(Calls) /\ Tidy(program)
    /\ live' = live /\ disk' = disk /\ saved' = saved /\ deleted' = deleted
    /\ raced' = raced /\ half' = half /\ backend' = backend
    /\ used \subseteq used' /\ used' \subseteq Docs
    /\ early \subseteq early' /\ early' \subseteq Docs \X Parts
    /\ \A i \in 1..Len(program) :
          /\ program[i].method \in Writers => program[i].docs \subseteq used' \ used
          /\ program[i].method = "update_chunk_embeddings" => program[i].docs \subseteq used'
          /\ \A d \in Docs, p \in Parts :
                EmbedsPlain(program[i], d, p) =>
                   \/ <<d, p>> \in early'
                   \/ d \notin used /\ \A j \in 1..Len(program) : ~Summarizes(program[j], d, p)

\* A beginning.
LEMMA BeginKeeps ==
    ASSUME IInv, NEW w \in Workers, NEW program, Begins(w, program)
    PROVE  IInv'
<1>1. /\ Typed /\ Keyed /\ AtOnce /\ OnUsed /\ FreshInsert
      /\ IndexInv /\ SavedInv /\ DeletedInv /\ EmbedInv /\ Workable
  BY DEF IInv, Typed
<1>2. /\ todo[w] = <<>> /\ todo' = [todo EXCEPT ![w] = program] /\ line' = line
      /\ live' = live /\ disk' = disk /\ saved' = saved /\ deleted' = deleted
      /\ raced' = raced /\ half' = half /\ backend' = backend
      /\ used \subseteq used' /\ early \subseteq early'
      /\ program \in Seq(Calls) /\ Tidy(program)
  BY DEF Begins
<1>3. /\ todo \in [Workers -> Seq(Calls)] /\ line \in [Workers -> Nat]
      /\ todo'[w] = program /\ line'[w] = 1
      /\ \A v \in Workers \ {w} : todo'[v] = todo[v] /\ line'[v] = line[v]
  BY <1>1, <1>2 DEF Workable, Busy
<1>4. \A v \in Workers \ {w} :
         /\ Busy(v)' = Busy(v) /\ Current(v)' = Current(v) /\ Pending(v)' = Pending(v)
         /\ Script(v)' = Script(v) /\ Op(v)' = Op(v)
         /\ \A op : At(v, op)' = At(v, op)
         /\ \A d : Inside(v, d)' = Inside(v, d)
  BY <1>2, <1>3, Same
<1>5. Busy(w)' => /\ Current(w)' \in Calls /\ Current(w)' = program[1]
                  /\ 1 \in 1..Len(program)
                  /\ line'[w] \in 1..Len(Script(w)') /\ Op(w)' \in Starts
                  /\ Op(w)' = Statements(program[1].method)[1]
                  /\ program[1].method \in Methods
  <2> SUFFICES ASSUME program # <<>>
               PROVE  /\ Current(w)' \in Calls /\ Current(w)' = program[1]
                      /\ 1 \in 1..Len(program)
                      /\ line'[w] \in 1..Len(Script(w)') /\ Op(w)' \in Starts
                      /\ Op(w)' = Statements(program[1].method)[1]
                      /\ program[1].method \in Methods
    BY <1>3 DEF Busy
  <2>1. Head(program) \in Calls /\ Head(program) = program[1] /\ 1 \in 1..Len(program)
    <3>1. Len(program) \in Nat \ {0}
      BY <1>2, EmptySeq
    <3> QED BY <1>2, <3>1, HeadTailProperties
  <2>2. Current(w)' = program[1]
    BY <1>3, <2>1 DEF Current
  <2>3. Script(w)' = Statements(program[1].method)
    BY <1>2, <2>2, SameScripts DEF Script
  <2>4. program[1].method \in Methods
    BY <2>1 DEF Calls
  <2>5. 1 \in 1..Len(Statements(program[1].method))
    BY <1>2, <2>1, Lined
  <2> QED BY <1>3, <2>1, <2>2, <2>3, <2>4, <2>5, ScriptsAre DEF Op
<1>6. Pending(w)' = {program[i] : i \in 1..Len(program)} /\ Pending(w) = {}
  BY <1>2, <1>3 DEF Pending
<1>7. \A c \in Pending(w)' :
         /\ c.method \in Writers => c.docs \subseteq used' \ used
         /\ c.method = "update_chunk_embeddings" => c.docs \subseteq used'
         /\ \A d \in Docs, p \in Parts :
               EmbedsPlain(c, d, p) =>
                  \/ <<d, p>> \in early'
                  \/ d \notin used /\ \A e \in Pending(w)' : ~Summarizes(e, d, p)
  BY <1>6 DEF Begins
<1>8. \A d \in Docs \ used : ~live[d].chunks /\ live[d].sum = {} /\ live[d].emb = Unembedded
  BY <1>1 DEF OnUsed, Keyed, RespectsKeys
<1>9. Typed'
  <2>1. ASSUME NEW v \in Workers
        PROVE  /\ line'[v] \in 1..(IF Busy(v)' THEN Len(Script(v)') ELSE 1)
               /\ Tidy(todo'[v]) /\ todo'[v] \in Seq(Calls)
    <3>1. CASE v = w
      BY <1>2, <1>3, <1>5, <3>1
    <3>2. CASE v # w
      BY <1>1, <1>3, <1>4, <3>2 DEF Workable
    <3> QED BY <3>1, <3>2
  <2>2. todo' \in [Workers -> Seq(Calls)]
    BY <1>2, <1>3
  <2>3. Workable'
    BY <1>2, <1>3, <2>1, <2>2 DEF Workable
  <2> QED BY <1>1, <1>2, <2>3 DEF Typed, Begins
<1>10. Keyed' /\ AtOnce'
  BY <1>1, <1>2, <1>3, <1>4 DEF Keyed, AtOnce
<1>11. OnUsed'
  <2>1. \A v \in Workers : \A c \in Pending(v)' :
           c.method \in Writers \cup {"update_chunk_embeddings"} => c.docs \subseteq used'
    BY <1>1, <1>2, <1>4, <1>7 DEF OnUsed
  <2>2. \A d \in Docs \ used' : ~live'[d].doc /\ ~disk'[d].doc
    BY <1>1, <1>2 DEF OnUsed
  <2>3. ASSUME NEW u \in Workers, NEW v \in Workers, NEW c \in Pending(u)', NEW e \in Pending(v)',
               c.method \in Writers, e.method \in Writers, c.docs \cap e.docs # {}
        PROVE  u = v
    <3>1. CASE u # w /\ v # w
      BY <1>1, <1>4, <2>3, <3>1 DEF OnUsed
    <3>2. CASE u = w /\ v # w
      <4>1. c.docs \cap used = {} /\ e.docs \subseteq used
        BY <1>1, <1>4, <1>7, <2>3, <3>2 DEF OnUsed
      <4> QED BY <2>3, <4>1
    <3>3. CASE u # w /\ v = w
      <4>1. e.docs \cap used = {} /\ c.docs \subseteq used
        BY <1>1, <1>4, <1>7, <2>3, <3>3 DEF OnUsed
      <4> QED BY <2>3, <4>1
    <3> QED BY <3>1, <3>2, <3>3
  <2> QED BY <2>1, <2>2, <2>3 DEF OnUsed
<1>12. FreshInsert'
  <2> SUFFICES ASSUME NEW v \in Workers, NEW d \in Docs, WillInsert(v, d)'
               PROVE  ~live'[d].chunks
    BY DEF FreshInsert
  <2>1. CASE v = w
    <3>1. PICK i \in 1..Len(program) : d \in program[i].docs /\ program[i].method \in Inserts
      BY <1>3, <2>1 DEF WillInsert, Inserts
    <3>2. d \notin used
      BY <1>6, <1>7, <3>1 DEF Inserts, Writers
    <3> QED BY <1>2, <1>8, <3>2
  <2>2. CASE v # w
    <3>1. WillInsert(v, d)
      BY <1>3, <2>2 DEF WillInsert
    <3> QED BY <1>1, <1>2, <3>1 DEF FreshInsert
  <2> QED BY <2>1, <2>2
<1>13. IndexInv'
  <2>1. \A d \in Docs \ raced' : ~Inside(w, d) /\ ~Inside(w, d)'
    BY <1>2, <1>5 DEF Inside, Busy, Starts
  <2> QED BY <1>1, <1>2, <1>3, <2>1, IndexKept
<1>14. SavedInv'
  <2>1. ~At(w, "saved")'
    BY <1>5 DEF At, Starts
  <2> QED BY <1>1, <1>2, <1>4, <2>1 DEF SavedInv
<1>15. DeletedInv'
  <2> SUFFICES ASSUME NEW d \in deleted, ToBeInserted(d)'
               PROVE  FALSE
    BY <1>1, <1>2 DEF DeletedInv
  <2>1. PICK v \in Workers : At(v, "insert-document")' /\ d \in Current(v)'.docs
    BY DEF ToBeInserted
  <2>2. v = w
    BY <1>1, <1>4, <2>1 DEF DeletedInv, ToBeInserted
  <2>3. /\ Busy(w)' /\ Op(w)' = "insert-document" /\ 1 \in 1..Len(program)
        /\ d \in program[1].docs /\ program[1].method \in Methods
    BY <1>5, <2>1, <2>2 DEF At
  <2>4. program[1].method \in Writers
    <3>1. Len(Statements(program[1].method)) \in 2..6
      BY <2>3, ScriptsAre
    <3>2. 1 \in 1..Len(Statements(program[1].method))
      BY <3>1, FirstIn
    <3>3. RoleOf(program[1].method, 1, Len(Statements(program[1].method)),
                 Statements(program[1].method)[1])
      BY <2>3, <3>2, Roles
    <3> QED BY <1>5, <2>3, <3>3 DEF RoleOf, Writers
  <2>5. d \notin used
    BY <1>6, <1>7, <2>3, <2>4
  <2> QED BY <1>1, <2>5 DEF Typed
<1>16. EmbedInv'
  <2> SUFFICES ASSUME NEW d \in Docs, NEW p \in Parts, <<d, p>> \notin early'
               PROVE  /\ \A r \in {live'[d], disk'[d]} : p \in r.sum => r.emb[p] # "plain"
                      /\ \A v \in Workers : \A c \in Pending(v)' :
                            EmbedsPlain(c, d, p) =>
                               /\ p \notin live'[d].sum
                               /\ \A u \in Workers : \A e \in Pending(u)' : ~Summarizes(e, d, p)
                      /\ \A v \in Workers : \A c \in Pending(v)' :
                            Summarizes(c, d, p) => live'[d].emb[p] # "plain"
    BY DEF EmbedInv, EmbedsPlain, Summarizes
  <2>1. <<d, p>> \notin early
    BY <1>2
  <2>2. \A r \in {live'[d], disk'[d]} : p \in r.sum => r.emb[p] # "plain"
    BY <1>1, <1>2, <2>1 DEF EmbedInv
  <2>3. \A v \in Workers : \A c \in Pending(v) :
           /\ Summarizes(c, d, p) => d \in used
           /\ EmbedsPlain(c, d, p) => d \in used
    BY <1>1 DEF OnUsed, Summarizes, EmbedsPlain, Writers, Inserts
  <2>4. \A c \in Pending(w)' : Summarizes(c, d, p) => d \notin used
    BY <1>7 DEF Summarizes, Writers, Inserts
  <2>5. ASSUME NEW v \in Workers, NEW c \in Pending(v)', EmbedsPlain(c, d, p)
        PROVE  /\ p \notin live'[d].sum
               /\ \A u \in Workers : \A e \in Pending(u)' : ~Summarizes(e, d, p)
    <3>1. CASE v = w
      <4>1. d \notin used /\ \A e \in Pending(w)' : ~Summarizes(e, d, p)
        BY <1>7, <2>5, <3>1
      <4>2. p \notin live'[d].sum
        BY <1>2, <1>8, <4>1
      <4>3. \A u \in Workers \ {w} : \A e \in Pending(u)' : ~Summarizes(e, d, p)
        BY <1>4, <2>3, <4>1
      <4> QED BY <4>1, <4>2, <4>3
    <3>2. CASE v # w
      <4>1. c \in Pending(v)
        BY <1>4, <3>2
      <4>2. /\ p \notin live[d].sum /\ d \in used
            /\ \A u \in Workers : \A e \in Pending(u) : ~Summarizes(e, d, p)
        BY <1>1, <2>1, <2>3, <2>5, <4>1 DEF EmbedInv
      <4> QED BY <1>2, <1>4, <2>4, <4>2
    <3> QED BY <3>1, <3>2
  <2>6. ASSUME NEW v \in Workers, NEW c \in Pending(v)', Summarizes(c, d, p)
        PROVE  live'[d].emb[p] # "plain"
    <3>1. CASE v = w
      <4>1. live'[d].emb = Unembedded
        BY <1>2, <1>8, <2>4, <2>6, <3>1
      <4> QED BY <4>1, EmbeddedIs
    <3>2. CASE v # w
      <4>1. c \in Pending(v)
        BY <1>4, <3>2
      <4> QED BY <1>1, <1>2, <2>1, <2>6, <4>1 DEF EmbedInv
    <3> QED BY <3>1, <3>2
  <2> QED BY <2>2, <2>5, <2>6
<1> QED BY <1>9, <1>10, <1>11, <1>12, <1>13, <1>14, <1>15, <1>16 DEF IInv

-----------------------------------------------------------------------------
(* The programs.                                                           *)

\* A call of the ingestion of d whose summaries are sums: no batch is both
\* embedded without its summary and summarized.
OfIngestion(c, d, sums) ==
    /\ c \in Calls /\ c.docs = {d}
    /\ c.method \in Inserts => c.ctx \subseteq sums
    /\ c.method = "update_chunk_summaries" => c.parts \subseteq sums
    /\ c.method \in Inserts \cup {"update_chunk_embeddings"} => c.parts = {} \/ c.ctx = sums

PartOf(s, d, sums) == s \in Seq(Calls) /\ \A i \in 1..Len(s) : OfIngestion(s[i], d, sums)

Firsts == {"insert_document", "insert_chunks", "insert_document_and_chunks"}

Later(s) == \A i \in 1..Len(s) : s[i].method \notin Firsts

\* The first call may insert the document, none the chunks alone.
Preserved(s) ==
    \A i \in 1..Len(s) : /\ i > 1 => s[i].method \notin Firsts
                         /\ s[i].method # "insert_chunks"

\* Such programs are in order.
LEMMA PreservedTidy ==
    ASSUME NEW s \in Seq(Calls), Preserved(s)
    PROVE  Tidy(s)
BY DEF Preserved, Tidy, Firsts

\* Programs after one another.
LEMMA Joined ==
    ASSUME NEW d, NEW sums, NEW s, NEW t, PartOf(s, d, sums), PartOf(t, d, sums)
    PROVE  /\ PartOf(s \o t, d, sums)
           /\ Len(s \o t) = Len(s) + Len(t)
           /\ s # <<>> /\ Preserved(s) /\ Later(t) => s \o t # <<>> /\ Preserved(s \o t)
<1>1. s \in Seq(Calls) /\ t \in Seq(Calls)
  BY DEF PartOf
<1>2. /\ s \o t \in Seq(Calls) /\ Len(s \o t) = Len(s) + Len(t)
      /\ \A i \in 1..Len(s) + Len(t) :
            (s \o t)[i] = IF i <= Len(s) THEN s[i] ELSE t[i - Len(s)]
  BY <1>1, ConcatProperties
<1>3. Len(s) \in Nat /\ Len(t) \in Nat
  BY <1>1, LenProperties
<1>4. ASSUME NEW i \in 1..Len(s \o t)
      PROVE  \/ i \in 1..Len(s) /\ (s \o t)[i] = s[i]
             \/ i - Len(s) \in 1..Len(t) /\ i > Len(s) /\ (s \o t)[i] = t[i - Len(s)]
  <2>1. i \in 1..Len(s) + Len(t)
    BY <1>2
  <2>2. CASE i <= Len(s)
    <3>1. i \in 1..Len(s)
      BY <1>3, <2>1, <2>2
    <3> QED BY <1>2, <2>1, <2>2, <3>1
  <2>3. CASE ~(i <= Len(s))
    <3>1. i - Len(s) \in 1..Len(t) /\ i > Len(s)
      BY <1>3, <2>1, <2>3
    <3> QED BY <1>2, <2>1, <2>3, <3>1
  <2> QED BY <2>2, <2>3
<1>5. PartOf(s \o t, d, sums)
  BY <1>2, <1>4 DEF PartOf
<1>6. ASSUME s # <<>>, Preserved(s), Later(t)
      PROVE  s \o t # <<>> /\ Preserved(s \o t)
  <2>1. Len(s) > 0 /\ Len(s \o t) > 0
    BY <1>1, <1>2, <1>3, <1>6, EmptySeq
  <2>2. s \o t # <<>>
    BY <2>1
  <2>3. ASSUME NEW i \in 1..Len(s \o t)
        PROVE  /\ i > 1 => (s \o t)[i].method \notin Firsts
               /\ (s \o t)[i].method # "insert_chunks"
    BY <1>4, <1>6 DEF Preserved, Later, Firsts
  <2> QED BY <2>2, <2>3 DEF Preserved
<1> QED BY <1>2, <1>5, <1>6

\* One call for each batch.
LEMMA ForEach ==
    ASSUME NEW n \in Nat, NEW f \in [1..n -> Calls]
    PROVE  f \in Seq(Calls) /\ Len(f) = n
BY SeqDef, LenProperties

\* A call is a call.
LEMMA CallIs ==
    ASSUME NEW m \in Methods, NEW D \in SUBSET Docs, NEW ps \in SUBSET Parts,
           NEW ctx \in SUBSET Parts
    PROVE  /\ Call(m, D, ps, ctx) \in Calls
           /\ Call(m, D, ps, ctx).method = m /\ Call(m, D, ps, ctx).docs = D
           /\ Call(m, D, ps, ctx).parts = ps /\ Call(m, D, ps, ctx).ctx = ctx
BY DEF Call, Calls

\* The embeddings of a document.
LEMMA EmbedEachIs ==
    ASSUME NEW d \in Docs, NEW sums \in SUBSET Parts
    PROVE  PartOf(EmbedEach(d, sums), d, sums) /\ Later(EmbedEach(d, sums))
<1>1. \A p \in Parts : LET c == Call("update_chunk_embeddings", {d}, {p}, sums) IN
         c \in Calls /\ OfIngestion(c, d, sums) /\ c.method \notin Firsts
  <2> TAKE p \in Parts
  <2> DEFINE c == Call("update_chunk_embeddings", {d}, {p}, sums)
  <2>1. /\ c \in Calls /\ c.method = "update_chunk_embeddings" /\ c.docs = {d}
        /\ c.parts = {p} /\ c.ctx = sums
    BY CallIs DEF Methods
  <2> QED BY <2>1 DEF OfIngestion, Inserts, Firsts
<1>2. EmbedEach(d, sums) \in [1..Batches -> Calls]
  BY <1>1 DEF EmbedEach, Parts
<1>3. EmbedEach(d, sums) \in Seq(Calls) /\ Len(EmbedEach(d, sums)) = Batches
  BY <1>2, ForEach, CorpusAssumption
<1>4. \A i \in 1..Batches :
         EmbedEach(d, sums)[i] = Call("update_chunk_embeddings", {d}, {i}, sums)
  BY DEF EmbedEach, Parts
<1>5. \A i \in 1..Batches : OfIngestion(EmbedEach(d, sums)[i], d, sums)
                              /\ EmbedEach(d, sums)[i].method \notin Firsts
  BY <1>1, <1>4 DEF Parts
<1> QED BY <1>3, <1>5 DEF PartOf, Later

\* The summaries of a document, batch by batch.
LEMMA SummarizeEachIs ==
    ASSUME NEW d \in Docs, NEW sums \in {{}, Parts}
    PROVE  PartOf(SummarizeEach(d, sums), d, sums) /\ Later(SummarizeEach(d, sums))
<1>1. CASE sums = {}
  BY <1>1, EmptySeq DEF SummarizeEach, PartOf, Later
<1>2. CASE sums # {}
  <2>0. sums = Parts
    BY <1>2
  <2>1. \A p \in Parts : LET c == Call("update_chunk_summaries", {d}, {p}, {}) IN
           c \in Calls /\ OfIngestion(c, d, sums) /\ c.method \notin Firsts
    <3> TAKE p \in Parts
    <3> DEFINE c == Call("update_chunk_summaries", {d}, {p}, {})
    <3>1. /\ c \in Calls /\ c.method = "update_chunk_summaries" /\ c.docs = {d}
          /\ c.parts = {p} /\ c.ctx = {}
      BY CallIs DEF Methods
    <3> QED BY <2>0, <3>1 DEF OfIngestion, Inserts, Firsts
  <2>2. /\ SummarizeEach(d, sums) \in [1..Batches -> Calls]
        /\ \A i \in 1..Batches :
              SummarizeEach(d, sums)[i] = Call("update_chunk_summaries", {d}, {i}, {})
    BY <1>2, <2>1 DEF SummarizeEach, Parts
  <2>3. SummarizeEach(d, sums) \in Seq(Calls) /\ Len(SummarizeEach(d, sums)) = Batches
    BY <2>2, ForEach, CorpusAssumption
  <2>5. \A i \in 1..Batches : OfIngestion(SummarizeEach(d, sums)[i], d, sums)
                                /\ SummarizeEach(d, sums)[i].method \notin Firsts
    BY <2>1, <2>2 DEF Parts
  <2> QED BY <2>3, <2>5 DEF PartOf, Later
<1> QED BY <1>1, <1>2

\* The first calls of an ingestion with summaries.
LEMMA PreserveIs ==
    ASSUME NEW d \in Docs, NEW sums \in SUBSET Parts
    PROVE  PartOf(Preserve(d), d, sums) /\ Preserve(d) # <<>> /\ Preserved(Preserve(d))
<1> DEFINE a == Call("insert_document_and_chunks", {d}, {}, {})
           b == Call("insert_tree_nodes", {d}, {}, {})
<1>1. /\ a \in Calls /\ a.method = "insert_document_and_chunks" /\ a.docs = {d}
      /\ a.parts = {} /\ a.ctx = {}
      /\ b \in Calls /\ b.method = "insert_tree_nodes" /\ b.docs = {d}
  BY CallIs DEF Methods
<1>2. OfIngestion(a, d, sums) /\ OfIngestion(b, d, sums)
  BY <1>1 DEF OfIngestion, Inserts
<1>3. Preserve(d) = <<a, b>>
  BY DEF Preserve
<1> HIDE DEF a, b
<1>4. /\ Preserve(d) \in Seq(Calls) /\ Len(Preserve(d)) = 2
      /\ Preserve(d)[1] = a /\ Preserve(d)[2] = b
  BY <1>1, <1>3
<1>5. \A i \in 1..2 : i = 1 \/ i = 2
  OBVIOUS
<1>6. PartOf(Preserve(d), d, sums)
  BY <1>2, <1>4, <1>5 DEF PartOf
<1>7. Preserved(Preserve(d))
  BY <1>1, <1>4, <1>5 DEF Preserved, Firsts
<1> QED BY <1>4, <1>6, <1>7

\* The ingestion that inserts everything at its end.
LEMMA PlainIngestIs ==
    ASSUME NEW d \in Docs, NEW sums \in SUBSET Parts
    PROVE  PartOf(PlainIngest(d, sums), d, sums) /\ Tidy(PlainIngest(d, sums))
<1> DEFINE a == Call("insert_document", {d}, {}, {})
           b == Call("insert_tree_nodes", {d}, {}, {})
           c == Call("insert_chunks", {d}, Parts, sums)
<1>1. /\ a \in Calls /\ a.method = "insert_document" /\ a.docs = {d}
      /\ b \in Calls /\ b.method = "insert_tree_nodes" /\ b.docs = {d}
      /\ c \in Calls /\ c.method = "insert_chunks" /\ c.docs = {d} /\ c.ctx = sums
  BY CallIs DEF Methods
<1>2. OfIngestion(a, d, sums) /\ OfIngestion(b, d, sums) /\ OfIngestion(c, d, sums)
  BY <1>1 DEF OfIngestion, Inserts
<1>3. PlainIngest(d, sums) = <<a, b, c>>
  BY DEF PlainIngest
<1> HIDE DEF a, b, c
<1>4. /\ PlainIngest(d, sums) \in Seq(Calls) /\ Len(PlainIngest(d, sums)) = 3
      /\ PlainIngest(d, sums)[1] = a /\ PlainIngest(d, sums)[2] = b
      /\ PlainIngest(d, sums)[3] = c
  BY <1>1, <1>3
<1>5. \A i \in 1..3 : i = 1 \/ i = 2 \/ i = 3
  OBVIOUS
<1>6. PartOf(PlainIngest(d, sums), d, sums)
  BY <1>2, <1>4, <1>5 DEF PartOf
<1>7. Tidy(PlainIngest(d, sums))
  BY <1>1, <1>4, <1>5 DEF Tidy
<1> QED BY <1>6, <1>7

\* The ingestion that preserves the document first, with all summaries at once.
LEMMA SummaryIngestIs ==
    ASSUME NEW d \in Docs, NEW sums \in {{}, Parts}
    PROVE  PartOf(SummaryIngest(d, sums), d, sums) /\ Tidy(SummaryIngest(d, sums))
<1> DEFINE s == IF sums = {} THEN <<>>
                ELSE <<Call("update_chunk_summaries", {d}, sums, {})>>
<1>0. sums \in SUBSET Parts
  OBVIOUS
<1>1. PartOf(s, d, sums) /\ Later(s)
  <2>1. CASE sums = {}
    BY <2>1, EmptySeq DEF PartOf, Later
  <2>2. CASE sums # {}
    <3> DEFINE c == Call("update_chunk_summaries", {d}, sums, {})
    <3>1. /\ c \in Calls /\ c.method = "update_chunk_summaries" /\ c.docs = {d}
          /\ c.parts = sums
      BY <1>0, CallIs DEF Methods
    <3>2. OfIngestion(c, d, sums) /\ c.method \notin Firsts
      BY <3>1 DEF OfIngestion, Inserts, Firsts
    <3>3. s = <<c>>
      BY <2>2
    <3> HIDE DEF c, s
    <3>4. s \in Seq(Calls) /\ Len(s) = 1 /\ s[1] = c
      BY <3>1, <3>3
    <3>5. \A i \in 1..1 : i = 1
      OBVIOUS
    <3> QED BY <3>2, <3>4, <3>5 DEF PartOf, Later
  <2> QED BY <2>1, <2>2
<1>2. SummaryIngest(d, sums) = (Preserve(d) \o s) \o EmbedEach(d, sums)
  BY DEF SummaryIngest
<1> HIDE DEF s
<1>3. PartOf(Preserve(d), d, sums) /\ Preserve(d) # <<>> /\ Preserved(Preserve(d))
  BY <1>0, PreserveIs
<1>4. /\ PartOf(Preserve(d) \o s, d, sums) /\ Preserve(d) \o s # <<>>
      /\ Preserved(Preserve(d) \o s)
  BY <1>1, <1>3, Joined
<1>5. PartOf(EmbedEach(d, sums), d, sums) /\ Later(EmbedEach(d, sums))
  BY <1>0, EmbedEachIs
<1>6. /\ PartOf(SummaryIngest(d, sums), d, sums)
      /\ Preserved(SummaryIngest(d, sums))
  BY <1>2, <1>4, <1>5, Joined
<1> QED BY <1>6, PreservedTidy DEF PartOf

\* The same with the summaries batch by batch.
LEMMA StreamIngestIs ==
    ASSUME NEW d \in Docs, NEW sums \in {{}, Parts}
    PROVE  PartOf(StreamIngest(d, sums), d, sums) /\ Tidy(StreamIngest(d, sums))
<1>0. sums \in SUBSET Parts
  OBVIOUS
<1> DEFINE s == SummarizeEach(d, sums)
<1>1. PartOf(s, d, sums) /\ Later(s)
  BY SummarizeEachIs
<1>2. StreamIngest(d, sums) = (Preserve(d) \o s) \o EmbedEach(d, sums)
  BY DEF StreamIngest
<1> HIDE DEF s
<1>3. PartOf(Preserve(d), d, sums) /\ Preserve(d) # <<>> /\ Preserved(Preserve(d))
  BY <1>0, PreserveIs
<1>4. /\ PartOf(Preserve(d) \o s, d, sums) /\ Preserve(d) \o s # <<>>
      /\ Preserved(Preserve(d) \o s)
  BY <1>1, <1>3, Joined
<1>5. PartOf(EmbedEach(d, sums), d, sums) /\ Later(EmbedEach(d, sums))
  BY <1>0, EmbedEachIs
<1>6. /\ PartOf(StreamIngest(d, sums), d, sums)
      /\ Preserved(StreamIngest(d, sums))
  BY <1>2, <1>4, <1>5, Joined
<1> QED BY <1>6, PreservedTidy DEF PartOf

\* An ingestion.
LEMMA IngestBegins ==
    ASSUME IInv, NEW w \in Workers, NEW d \in Docs, Ingest(w, d)
    PROVE  \E program : Begins(w, program)
<1>1. PICK sums \in {{}, Parts} :
         \E program \in {PlainIngest(d, sums), SummaryIngest(d, sums), StreamIngest(d, sums)} :
            Run(w, program)
  BY DEF Ingest
<1>2. PICK program \in {PlainIngest(d, sums), SummaryIngest(d, sums), StreamIngest(d, sums)} :
         Run(w, program)
  BY <1>1
<1>3. PartOf(program, d, sums) /\ Tidy(program)
  <2>1. sums \in SUBSET Parts
    OBVIOUS
  <2>2. program = PlainIngest(d, sums) \/ program = SummaryIngest(d, sums)
          \/ program = StreamIngest(d, sums)
    OBVIOUS
  <2> QED BY <2>1, <2>2, PlainIngestIs, SummaryIngestIs, StreamIngestIs, Zenon
<1>4. ASSUME NEW i \in 1..Len(program)
      PROVE  /\ program[i].docs = {d}
             /\ \A e, p : EmbedsPlain(program[i], e, p) => e = d /\ p \notin sums
             /\ \A e, p : Summarizes(program[i], e, p) => p \in sums
  <2>1. OfIngestion(program[i], d, sums)
    BY <1>3 DEF PartOf
  <2> QED BY <2>1 DEF OfIngestion, EmbedsPlain, Summarizes
<1>5. /\ d \notin used /\ used' = used \cup {d} /\ early' = early
      /\ used \subseteq Docs /\ early \subseteq Docs \X Parts
  BY DEF Ingest, IInv, Typed
<1>6. Begins(w, program)
  <2>1. /\ todo[w] = <<>> /\ todo' = [todo EXCEPT ![w] = program] /\ line' = line
        /\ live' = live /\ disk' = disk /\ saved' = saved /\ deleted' = deleted
        /\ raced' = raced /\ half' = half /\ backend' = backend
    BY <1>2 DEF Run, Ingest
  <2>2. program \in Seq(Calls)
    BY <1>3 DEF PartOf
  <2>3. /\ used \subseteq used' /\ used' \subseteq Docs
        /\ early \subseteq early' /\ early' \subseteq Docs \X Parts
    BY <1>5
  <2>4. ASSUME NEW i \in 1..Len(program)
        PROVE  /\ program[i].docs \subseteq used' \ used
               /\ \A e \in Docs, p \in Parts :
                     EmbedsPlain(program[i], e, p) =>
                        e \notin used /\ \A j \in 1..Len(program) : ~Summarizes(program[j], e, p)
    <3>1. program[i].docs = {d} /\ {d} \subseteq used' \ used
      BY <1>4, <1>5
    <3>2. ASSUME NEW e \in Docs, NEW p \in Parts, EmbedsPlain(program[i], e, p)
          PROVE  e \notin used /\ \A j \in 1..Len(program) : ~Summarizes(program[j], e, p)
      <4>1. e = d /\ p \notin sums
        BY <1>4, <3>2, Zenon
      <4>2. \A j \in 1..Len(program) : ~Summarizes(program[j], e, p)
        BY <1>4, <4>1, Zenon
      <4> QED BY <1>5, <4>1, <4>2
    <3> QED BY <3>1, <3>2, Zenon
  <2> QED BY <1>3, <2>1, <2>2, <2>3, <2>4 DEF Begins
<1> QED BY <1>6

\* A program that only embeds, or does nothing an ingestion does.
LEMMA TaskBegins ==
    ASSUME IInv, NEW w \in Workers, NEW program \in Seq(Calls), Run(w, program),
           live' = live, disk' = disk, used' = used, saved' = saved, deleted' = deleted,
           raced' = raced, half' = half, backend' = backend,
           early \subseteq early', early' \subseteq Docs \X Parts,
           \A i \in 1..Len(program) :
              /\ program[i].method \notin Writers
              /\ program[i].method = "update_chunk_embeddings" => program[i].docs \subseteq used
              /\ \A d \in Docs, p \in Parts :
                    EmbedsPlain(program[i], d, p) => <<d, p>> \in early'
    PROVE  Begins(w, program)
<1>1. Tidy(program)
  BY DEF Tidy, Writers
<1>2. used \subseteq Docs
  BY DEF IInv, Typed
<1> QED BY <1>1, <1>2 DEF Begins, Run

\* A deletion, or another task of one call.
LEMMA OneCallBegins ==
    ASSUME IInv, NEW w \in Workers, NEW c \in Calls, Run(w, <<c>>),
           c.method \in {"delete", "rebuild_fts_index", "cleanup_orphaned_chunks"},
           live' = live, disk' = disk, used' = used, saved' = saved, deleted' = deleted,
           raced' = raced, half' = half, early' = early, backend' = backend
    PROVE  Begins(w, <<c>>)
<1> DEFINE program == <<c>>
<1>1. program \in Seq(Calls) /\ Len(program) = 1 /\ program[1] = c
  OBVIOUS
<1>2. c.method \notin Writers /\ c.method # "update_chunk_embeddings"
        /\ \A d, p : ~EmbedsPlain(c, d, p)
  BY DEF Writers, EmbedsPlain, Inserts
<1>3. early \subseteq Docs \X Parts
  BY DEF IInv, Typed
<1>4. Run(w, program)
  OBVIOUS
<1> HIDE DEF program
<1>5. \A i \in 1..Len(program) : program[i] = c
  BY <1>1
<1>6. Begins(w, program)
  BY <1>1, <1>2, <1>3, <1>4, <1>5, TaskBegins
<1> QED BY <1>6 DEF program

\* A deletion.
LEMMA DeleteBegins ==
    ASSUME IInv, NEW w \in Workers, Delete(w)
    PROVE  \E program : Begins(w, program)
<1>1. PICK D \in SUBSET Docs : Run(w, <<Call("delete", D, {}, {})>>)
  BY DEF Delete
<1>2. /\ Call("delete", D, {}, {}) \in Calls
      /\ Call("delete", D, {}, {}).method = "delete"
  BY CallIs DEF Methods
<1>3. /\ live' = live /\ disk' = disk /\ used' = used /\ saved' = saved
      /\ deleted' = deleted /\ raced' = raced /\ half' = half /\ early' = early
      /\ backend' = backend
  BY DEF Delete
<1> QED BY <1>1, <1>2, <1>3, OneCallBegins

\* A rebuild of the index, or a clean-up.
LEMMA MaintainBegins ==
    ASSUME IInv, NEW w \in Workers, Maintain(w)
    PROVE  \E program : Begins(w, program)
<1>1. /\ live' = live /\ disk' = disk /\ used' = used /\ saved' = saved
      /\ deleted' = deleted /\ raced' = raced /\ half' = half /\ early' = early
      /\ backend' = backend
  BY DEF Maintain
<1>2. CASE Run(w, <<Call("rebuild_fts_index", Docs, {}, {})>>)
  <2>1. /\ Call("rebuild_fts_index", Docs, {}, {}) \in Calls
        /\ Call("rebuild_fts_index", Docs, {}, {}).method = "rebuild_fts_index"
    BY CallIs DEF Methods
  <2> QED BY <1>1, <1>2, <2>1, OneCallBegins
<1>3. CASE Run(w, <<Call("cleanup_orphaned_chunks", Orphans, {}, {})>>)
  <2>1. /\ Call("cleanup_orphaned_chunks", Orphans, {}, {}) \in Calls
        /\ Call("cleanup_orphaned_chunks", Orphans, {}, {}).method = "cleanup_orphaned_chunks"
    <3>1. Orphans \in SUBSET Docs
      BY DEF Orphans
    <3> QED BY <3>1, CallIs DEF Methods
  <2> QED BY <1>1, <1>3, <2>1, OneCallBegins
<1> QED BY <1>2, <1>3 DEF Maintain

\* Rows without an embedding are of documents that were ingested.
LEMMA UnembeddedUsed ==
    ASSUME IInv, NEW d \in Docs, NEW p \in UnembeddedChunks(d)
    PROVE  d \in used /\ p \in Parts
BY DEF IInv, OnUsed, Keyed, RespectsKeys, UnembeddedChunks

\* How many batches are left.
LEMMA PartsFinite ==
    ASSUME NEW ps \in SUBSET Parts
    PROVE  Cardinality(ps) \in Nat
<1>1. IsFiniteSet(1..Batches)
  BY FS_Interval, CorpusAssumption
<1>2. IsFiniteSet(ps)
  BY <1>1, FS_Subset DEF Parts
<1> QED BY <1>2, FS_CardinalityType

\* A resumed embedding.
LEMMA ResumeBegins ==
    ASSUME IInv, NEW w \in Workers, NEW d \in Docs, ResumeEmbeddings(w, d)
    PROVE  \E program : Begins(w, program)
<1> DEFINE us == UnembeddedChunks(d)
           n == Cardinality(us)
           ctx == live[d].sum
<1>1. PICK order \in InOrder(us) : Run(w, EmbedMissing(d, order, ctx))
  BY DEF ResumeEmbeddings
<1>2. us \in SUBSET Parts
  BY DEF UnembeddedChunks
<1>3. n \in Nat
  BY <1>2, PartsFinite
<1>4. order \in [1..n -> us]
  BY DEF InOrder
<1>5. ctx \in SUBSET Parts /\ d \in used
  BY DEF IInv, Typed, Rows, OnUsed, ResumeEmbeddings
<1>6. /\ live' = live /\ disk' = disk /\ used' = used /\ saved' = saved
      /\ deleted' = deleted /\ raced' = raced /\ half' = half /\ backend' = backend
      /\ early' = early \cup {<<d, p>> : p \in us \ ctx}
  BY DEF ResumeEmbeddings
<1>7. early \subseteq Docs \X Parts
  BY DEF IInv, Typed
<1> DEFINE program == EmbedMissing(d, order, ctx)
<1>8. \A i \in 1..n : program[i] = Call("update_chunk_embeddings", {d}, {order[i]}, ctx)
  BY <1>4 DEF EmbedMissing
<1> HIDE DEF n, us, ctx
<1>9. ASSUME NEW i \in 1..n
      PROVE  /\ program[i] \in Calls /\ program[i].docs = {d}
             /\ program[i].method = "update_chunk_embeddings"
             /\ program[i].parts = {order[i]} /\ program[i].ctx = ctx /\ order[i] \in us
  <2>1. order[i] \in us
    BY <1>4
  <2>2. {order[i]} \in SUBSET Parts /\ {d} \in SUBSET Docs
    BY <1>2, <2>1
  <2>3. program[i] = Call("update_chunk_embeddings", {d}, {order[i]}, ctx)
    BY <1>8
  <2> HIDE DEF program
  <2> QED BY <1>5, <2>1, <2>2, <2>3, CallIs DEF Methods
<1>10. program \in [1..n -> Calls]
  <2>1. program = [i \in 1..n |-> Call("update_chunk_embeddings", {d}, {order[i]}, ctx)]
    BY <1>4 DEF EmbedMissing
  <2> HIDE DEF program
  <2> QED BY <1>9, <2>1
<1>11. Run(w, program)
  BY <1>1
<1> HIDE DEF program
<1>12. program \in Seq(Calls) /\ Len(program) = n
  BY <1>3, <1>10, ForEach
<1>13. ASSUME NEW i \in 1..Len(program)
       PROVE  /\ program[i].method \notin Writers
              /\ program[i].docs \subseteq used
              /\ \A e \in Docs, p \in Parts :
                    EmbedsPlain(program[i], e, p) => <<e, p>> \in early'
  <2>1. i \in 1..n
    BY <1>12
  <2>2. program[i].method \notin Writers /\ program[i].docs \subseteq used
    BY <1>5, <1>9, <2>1 DEF Writers
  <2>3. ASSUME NEW e \in Docs, NEW p \in Parts, EmbedsPlain(program[i], e, p)
        PROVE  <<e, p>> \in early'
    <3>1. e = d /\ p \in us \ ctx
      BY <1>9, <2>1, <2>3 DEF EmbedsPlain
    <3> QED BY <1>6, <3>1
  <2> QED BY <2>2, <2>3
<1>14. early \subseteq early' /\ early' \subseteq Docs \X Parts
  BY <1>2, <1>6, <1>7
<1>15. Begins(w, program)
  BY <1>6, <1>11, <1>12, <1>13, <1>14, TaskBegins
<1> QED BY <1>15

\* A backfill.
LEMMA RefreshBegins ==
    ASSUME IInv, NEW w \in Workers, Refresh(w)
    PROVE  \E program : Begins(w, program)
<1>1. PICK n \in 0..Cardinality(Unembeddeds) :
         \E found \in Injection(1..n, Unembeddeds) :
            /\ Run(w, BackfillMissingEmbeddings(found))
            /\ early' = early \cup {found[i] : i \in 1..n}
  BY DEF Refresh
<1>2. PICK found \in Injection(1..n, Unembeddeds) :
         /\ Run(w, BackfillMissingEmbeddings(found))
         /\ early' = early \cup {found[i] : i \in 1..n}
  BY <1>1
<1>3. n \in Nat
  OBVIOUS
<1>4. found \in [1..n -> Unembeddeds]
  BY DEF Injection
<1>5. /\ live' = live /\ disk' = disk /\ used' = used /\ saved' = saved
      /\ deleted' = deleted /\ raced' = raced /\ half' = half /\ backend' = backend
  BY DEF Refresh
<1>6. early \subseteq Docs \X Parts
  BY DEF IInv, Typed
<1>7. ASSUME NEW i \in 1..n
      PROVE  /\ found[i] \in Docs \X Parts /\ found[i][1] \in used
             /\ found[i] = <<found[i][1], found[i][2]>>
             /\ found[i][1] \in Docs /\ found[i][2] \in Parts
  <2>1. found[i] \in Unembeddeds
    BY <1>4
  <2>2. found[i] \in Docs \X Parts /\ found[i][2] \in UnembeddedChunks(found[i][1])
    BY <2>1 DEF Unembeddeds
  <2>3. found[i][1] \in Docs /\ found[i][2] \in Parts /\ found[i] = <<found[i][1], found[i][2]>>
    BY <2>2
  <2> QED BY <2>2, <2>3, UnembeddedUsed
<1> DEFINE program == BackfillMissingEmbeddings(found)
<1>8. program = [i \in 1..n |->
                   Call("update_chunk_embeddings", {found[i][1]}, {found[i][2]}, {})]
  BY <1>4 DEF BackfillMissingEmbeddings
<1>9. Run(w, program)
  BY <1>2
<1> HIDE DEF program
<1>10. ASSUME NEW i \in 1..n
       PROVE  /\ program[i] \in Calls /\ program[i].docs = {found[i][1]}
              /\ program[i].method = "update_chunk_embeddings"
              /\ program[i].parts = {found[i][2]}
  <2>1. program[i] = Call("update_chunk_embeddings", {found[i][1]}, {found[i][2]}, {})
    BY <1>8
  <2>2. {found[i][1]} \in SUBSET Docs /\ {found[i][2]} \in SUBSET Parts
    BY <1>7
  <2> QED BY <2>1, <2>2, CallIs DEF Methods
<1>11. program \in [1..n -> Calls]
  <2>1. \A i \in 1..n :
           Call("update_chunk_embeddings", {found[i][1]}, {found[i][2]}, {}) \in Calls
    BY <1>8, <1>10
  <2> QED BY <1>8, <2>1
<1>12. program \in Seq(Calls) /\ Len(program) = n
  BY <1>3, <1>11, ForEach
<1>13. ASSUME NEW i \in 1..Len(program)
       PROVE  /\ program[i].method \notin Writers
              /\ program[i].docs \subseteq used
              /\ \A e \in Docs, p \in Parts :
                    EmbedsPlain(program[i], e, p) => <<e, p>> \in early'
  <2>1. i \in 1..n
    BY <1>12
  <2>2. program[i].method \notin Writers /\ program[i].docs \subseteq used
    BY <1>7, <1>10, <2>1 DEF Writers
  <2>3. ASSUME NEW e \in Docs, NEW p \in Parts, EmbedsPlain(program[i], e, p)
        PROVE  <<e, p>> \in early'
    <3>1. e = found[i][1] /\ p = found[i][2]
      BY <1>10, <2>1, <2>3 DEF EmbedsPlain
    <3>2. <<e, p>> = found[i]
      BY <1>7, <2>1, <3>1
    <3> QED BY <1>2, <2>1, <3>2
  <2> QED BY <2>2, <2>3
<1>14. early \subseteq early' /\ early' \subseteq Docs \X Parts
  BY <1>2, <1>6, <1>7
<1>15. Begins(w, program)
  BY <1>5, <1>9, <1>12, <1>13, <1>14, TaskBegins
<1> QED BY <1>15

\* The initial states.
LEMMA InitKeeps == Init => IInv
<1> SUFFICES ASSUME Init
             PROVE  IInv
  OBVIOUS
<1>1. /\ live = [d \in Docs |-> Absent] /\ disk = live /\ backend \in Backends
      /\ todo = [w \in Workers |-> <<>>] /\ line = [w \in Workers |-> 1]
      /\ used = {} /\ saved = {} /\ deleted = {} /\ raced = {} /\ half = {} /\ early = {}
  BY DEF Init
<1>2. \A w \in Workers : todo[w] = <<>> /\ line[w] = 1 /\ ~Busy(w) /\ Pending(w) = {}
  BY <1>1 DEF Busy, Pending
<1>3. /\ Absent \in Rows /\ RespectsKeys(Absent) /\ IndexMatches(Absent)
      /\ ~Absent.doc /\ ~Absent.chunks /\ Absent.sum = {}
  BY CorpusAssumption DEF Absent, Rows, RespectsKeys, IndexMatches, Unembedded, Embedding
<1>4. \A d \in Docs : live[d] = Absent /\ disk[d] = Absent
  BY <1>1
<1>5. live \in [Docs -> Rows] /\ disk \in [Docs -> Rows]
  BY <1>1, <1>3
<1>6. Workable
  <2>1. \A w \in Workers : Tidy(todo[w])
    BY <1>2 DEF Tidy
  <2>2. todo \in [Workers -> Seq(Calls)]
    BY <1>1, EmptySeq
  <2> QED BY <1>1, <1>2, <2>1, <2>2 DEF Workable
<1>7. Typed
  BY <1>1, <1>5, <1>6 DEF Typed
<1>8. Keyed /\ AtOnce
  BY <1>1, <1>2, <1>3, <1>4 DEF Keyed, AtOnce
<1>9. OnUsed
  BY <1>2, <1>3, <1>4 DEF OnUsed
<1>10. FreshInsert
  BY <1>2 DEF FreshInsert, WillInsert
<1>11. \A w \in Workers : \A d, op : ~Inside(w, d) /\ ~At(w, op)
  BY <1>2 DEF Inside, At
<1>12. IndexInv
  BY <1>3, <1>4, <1>11 DEF IndexInv
<1>13. SavedInv /\ DeletedInv
  BY <1>1, <1>11 DEF SavedInv, DeletedInv
<1>14. EmbedInv
  BY <1>2, <1>3, <1>4 DEF EmbedInv
<1> QED BY <1>7, <1>8, <1>9, <1>10, <1>12, <1>13, <1>14 DEF IInv

\* Nothing happens.
LEMMA StutterKeeps ==
    ASSUME IInv, UNCHANGED vars
    PROVE  IInv'
<1>1. /\ live' = live /\ disk' = disk /\ todo' = todo /\ line' = line /\ used' = used
      /\ saved' = saved /\ deleted' = deleted /\ raced' = raced /\ half' = half
      /\ early' = early /\ backend' = backend
  BY DEF vars
<1>2. /\ \A w : Busy(w)' = Busy(w) /\ Current(w)' = Current(w)
                  /\ Script(w)' = Script(w) /\ Op(w)' = Op(w) /\ Pending(w)' = Pending(w)
      /\ \A w, op : At(w, op)' = At(w, op)
      /\ \A w, d : Inside(w, d)' = Inside(w, d)
  BY <1>1, Same
<1>3. Workable' = Workable
  BY <1>1, <1>2 DEF Workable
<1>4. /\ Typed' /\ Keyed' /\ AtOnce'
  BY <1>1, <1>2, <1>3 DEF IInv, Typed, Keyed, AtOnce
<1>5. OnUsed'
  BY <1>1, <1>2 DEF IInv, OnUsed
<1>6. FreshInsert'
  BY <1>1 DEF IInv, FreshInsert, WillInsert
<1>7. IndexInv'
  BY <1>1, <1>2 DEF IInv, IndexInv, Disputed, Relies
<1>8. SavedInv' /\ DeletedInv'
  BY <1>1, <1>2 DEF IInv, SavedInv, DeletedInv, ToBeInserted
<1>9. EmbedInv'
  BY <1>1, <1>2 DEF IInv, EmbedInv
<1> QED BY <1>4, <1>5, <1>6, <1>7, <1>8, <1>9 DEF IInv

\* Every step.
LEMMA NextKeeps == IInv /\ [Next]_vars => IInv'
<1> SUFFICES ASSUME IInv, [Next]_vars
             PROVE  IInv'
  OBVIOUS
<1>1. ASSUME NEW w \in Workers, NEW d \in Docs, Ingest(w, d) \/ ResumeEmbeddings(w, d)
      PROVE  IInv'
  BY <1>1, IngestBegins, ResumeBegins, BeginKeeps
<1>2. ASSUME NEW w \in Workers, Delete(w) \/ Maintain(w) \/ Refresh(w)
      PROVE  IInv'
  BY <1>2, DeleteBegins, MaintainBegins, RefreshBegins, BeginKeeps
<1>3. ASSUME NEW w \in Workers, Await(w)
      PROVE  IInv'
  BY <1>3, AwaitKeeps
<1>4. CASE CommitForeign
  BY <1>4, AwaitKeeps
<1>5. CASE Crash
  BY <1>5, CrashKeeps
<1>6. CASE UNCHANGED vars
  BY <1>6, StutterKeeps
<1> QED BY <1>1, <1>2, <1>3, <1>4, <1>5, <1>6 DEF Next

\* The invariant of the corpus: the statements of several coroutines may
\* interleave, a crash come between any two, on either store.
THEOREM CorpusInvariant == Spec => []IInv
BY InitKeeps, NextKeeps, PTL DEF Spec

\* Every variable stays in its range, and no chunk or tree node outlives its
\* document, whatever overlaps an ingestion: storage/schemas/sqlite_schema.sql
\* and _execute of the stores.
THEOREM TypeCorrect == Spec => []TypeOK
<1>1. IInv => TypeOK
  BY DEF IInv, Typed, Workable, Keyed, AtOnce, TypeOK
<1> QED BY <1>1, CorpusInvariant, PTL

\* The full-text index holds each chunk exactly once unless two coroutines wrote
\* the same document at once (insert_chunks and _fts_insert, rebuild_fts_index).
THEOREM IndexIsExact == Spec => []IndexExact
<1>1. IInv => IndexExact
  BY DEF IInv, IndexInv, Typed, IndexExact
<1> QED BY <1>1, CorpusInvariant, PTL

\* A document and chunks that insert_document_and_chunks has returned for are on
\* disk until they are deleted, whatever crashes.
THEOREM CheckpointIsDurable == Spec => []CheckpointSurvives
<1>1. IInv => CheckpointSurvives
  BY DEF IInv, SavedInv, Typed, Keyed, RespectsKeys, CheckpointSurvives
<1> QED BY <1>1, CorpusInvariant, PTL

\* delete_document and delete_all_documents are for good: no ingestion under way
\* and no crash brings rows of the document back.
THEOREM DeletionIsFinal == Spec => []DeletedStaysDeleted
<1>1. IInv => DeletedStaysDeleted
  BY DEF IInv, DeletedInv, Typed, Keyed, RespectsKeys, DeletedStaysDeleted
<1> QED BY <1>1, CorpusInvariant, PTL

\* A chunk that has its summary is embedded with it, in all three pipelines, but
\* for what a resume read too early or a backfill embedded.
THEOREM SummariesAreEmbedded == Spec => []EmbeddedInContext
<1>1. IInv => EmbeddedInContext
  BY DEF IInv, EmbedInv, EmbeddedInContext
<1> QED BY <1>1, CorpusInvariant, PTL
=============================================================================
