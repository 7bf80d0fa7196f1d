---------------------------- MODULE DocumentText ----------------------------
(***************************************************************************)
(* From the content of a document to the chunks that are indexed: the      *)
(* parser builds the DocumentTree, then the chunker splits it.             *)
(***************************************************************************)
EXTENDS Chunker

vars == <<parserVars, chunkerVars>>

Init == ParserInit /\ ChunkerInit

Parse == ParserNext /\ UNCHANGED chunkerVars
Chunk == ChunkerNext /\ UNCHANGED parserVars

Next == Parse \/ Chunk

Spec == Init /\ [][Next]_vars

-----------------------------------------------------------------------------
(* Properties.                                                             *)

Indexes(s) == \A n \in ToSet(s) : n \in DOMAIN nodes

\* Every variable stays in its range: a node hangs under an earlier one, the
\* groups cut the nodes into consecutive runs, and chunks name nodes and
\* parents that exist.
TypeOK ==
    /\ docType \in DocTypes \cup {"none"} /\ reader \in Readers /\ parsed \in BOOLEAN
    /\ Len(pieces) <= MaxPieces
    /\ Indexes(heads) /\ lastFig \in 0..Len(nodes)
    /\ \A n \in DOMAIN nodes : nodes[n].up \in 0..n-1 /\ Indexes(nodes[n].path)
    /\ stage \in {"wait", "group", "parent", "split", "done"}
    /\ FlattenSeq(groups) = [n \in 1..Len(FlattenSeq(groups)) |-> n]
    /\ Len(FlattenSeq(groups)) = IF stage = "wait" THEN 0
                                 ELSE IF stage = "group" THEN at - 1 ELSE Len(nodes)
    /\ Indexes(buffer) /\ bufferTok <= ChildMax
    /\ \A c \in ToSet(children) : c.parent \in DOMAIN parents /\ Indexes(c.nodes)

-----------------------------------------------------------------------------
(* What never reaches a chunk, told from the document alone.               *)

Fences == {i \in DOMAIN pieces : pieces[i] = "fence"}

\* Lines of a code block that the document never closes.
InOpenFence(i) == Cardinality(Fences) % 2 = 1 /\ i >= Max(Fences)

Fenced(i) == Cardinality({j \in Fences : j < i}) % 2 = 1

\* Lines under an image, in a paragraph that does not read as a table.
UnderImage(i) ==
    \E first \in 1..i-1, last \in i..Len(pieces) :
       /\ pieces[first] = "image" /\ ~Fenced(first)
       /\ first = 1 \/ pieces[first - 1] \in {"blank", "h1", "h2", "fence"}
       /\ \A j \in first..last : pieces[j] \in {"text", "image"}
       /\ last = Len(pieces) \/ pieces[last + 1] \in {"blank", "h1", "h2", "fence"}

HasContent(i) ==
    CASE reader = "docling" -> \E s \in ToSet(pieces[i].text) : s[1] > 0
      [] reader = "markdown" -> pieces[i] # "blank"
      [] OTHER -> TRUE

\* A line that repeats at the top or the bottom of pages counts as a header or
\* footer, wherever near the margin it stands.
IsRunning(id) == pieces[id[1]][id[2]] = "running"

HasDefinition == \E i \in DOMAIN pieces : pieces[i] \in {"docstring", "def", "class"}

ToBeFound ==
    IF reader = "pages"
    THEN {id \in (DOMAIN pieces) \X (1..MaxPieces) :
            id[2] \in DOMAIN pieces[id[1]] /\ ~IsRunning(id)}
    ELSE {i \in DOMAIN pieces :
            /\ HasContent(i)
            /\ reader = "markdown" => ~InOpenFence(i) /\ ~UnderImage(i)
            /\ reader = "code" /\ HasDefinition => pieces[i] \notin {"statement", "decorator"}}

Found == UNION {nodes[n].holds : n \in ToSet(ChunkedNodes)}

\* Whatever the reader, every piece of the document is in a chunk, and can be
\* retrieved, but for four kinds the source itself shows: the lines of a code
\* block left open, the lines below an image, statements and decorators of
\* Python code outside definitions, and lines that repeat in page margins.
NothingElseLost == stage = "done" => ToBeFound \subseteq Found
=============================================================================
