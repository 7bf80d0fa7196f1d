------------------------------ MODULE Chunker ------------------------------
(***************************************************************************)
(* ParentChildChunker.chunk_tree: the nodes of a parsed document, in       *)
(* reading order, are grouped into parents, and each group is split into   *)
(* child chunks: tables and figures alone, long texts by sentences, the    *)
(* other texts collected in a buffer up to child_max_tokens.               *)
(*                                                                         *)
(* A text is a sequence of sentences <<words, characters>>, empty if there *)
(* is no text; a text of blanks is one of no words.  `range' is what a     *)
(* chunk holds of a table's data rows or of a long text's sentences.       *)
(***************************************************************************)
EXTENDS DocumentParser

CONSTANTS
    ChildMax,   \* child_max_tokens
    ParentMin,  \* parent_min_tokens
    ParentMax   \* parent_max_tokens

ASSUME ChunkerAssumption ==
    /\ ChildMax \in Nat \ {0} /\ ParentMin \in Nat /\ ParentMax \in Nat \ {0}

VARIABLES
    stage,     \* "wait", "group", "parent", "split" or "done"
    at,        \* the next node to group, or to split
    groups,    \* parent_node_groups; the last one is current_group
    groupTok,  \* current_tokens of the grouping
    parents,   \* parent_chunks
    children,  \* child_chunks
    buffer,    \* nodes in curr_text_buffer
    bufferTok, \* curr_tokens of the buffer
    span       \* <<curr_start_page, curr_end_page>>, 0 for None

chunkerVars == <<stage, at, groups, groupTok, parents, children, buffer, bufferTok, span>>

-----------------------------------------------------------------------------
(* Lengths: count_approx_tokens.                                           *)

Total(numbers) == FoldLeft(LAMBDA sum, number : sum + number, 0, numbers)

Words(text) == Total([i \in DOMAIN text |-> text[i][1]])
Chars(text) == Total([i \in DOMAIN text |-> text[i][2]])

\* The sentences of a text are a character apart.
Length(text) == IF text = <<>> THEN 0 ELSE Chars(text) + Len(text) - 1

Tokens(words, chars) == Max({words, chars \div 4})

TokensOf(text) == Tokens(Words(text), Length(text))

HasText(n) == nodes[n].text # <<>>

Blank(n) == Words(nodes[n].text) = 0

\* The texts of several nodes joined by empty lines and stripped.
Stripped(ns) ==
    LET HasWords(n) == ~Blank(n)
    IN  SubSeq(ns, SelectInSeq(ns, HasWords), SelectLastInSeq(ns, HasWords))

TokensOfNodes(ns) ==
    LET stripped == Stripped(ns)
    IN  Tokens(Total([i \in DOMAIN stripped |-> Words(nodes[stripped[i]].text)]),
               2 * (Len(stripped) - 1)
                 + Total([i \in DOMAIN stripped |-> Length(nodes[stripped[i]].text)]))

-----------------------------------------------------------------------------
(* Grouping into parents.                                                  *)

ChunkerInit ==
    /\ stage = "wait" /\ at = 1
    /\ groups = <<>> /\ groupTok = 0 /\ parents = <<>> /\ children = <<>>
    /\ buffer = <<>> /\ bufferTok = 0 /\ span = <<0, 0>>

IsHeadingType(type) == type \in {"title", "heading", "section"}

\* A document without content: one parent and one child that hold its title.
EmptyDocument ==
    /\ stage = "wait" /\ parsed /\ nodes = <<>>
    /\ stage' = "done"
    /\ parents' = <<[nodes |-> <<>>, path |-> <<>>, pages |-> <<0, 0>>]>>
    /\ children' = <<[parent |-> 1, kind |-> "title", nodes |-> <<>>, path |-> <<>>,
                      pages |-> <<0, 0>>, tokens |-> 0, part |-> 1, parts |-> 1,
                      range |-> <<0, 0>>]>>
    /\ UNCHANGED <<at, groups, groupTok, buffer, bufferTok, span>>

StartGrouping ==
    /\ stage = "wait" /\ parsed /\ nodes # <<>>
    /\ stage' = "group"
    /\ UNCHANGED <<at, groups, groupTok, parents, children, buffer, bufferTok, span>>

\* A heading closes a group that is long enough, any node one that it would
\* make too long.
ClosesGroup(n) ==
    \/ IsHeadingType(nodes[n].type) /\ groupTok >= ParentMin
    \/ groupTok + TokensOf(nodes[n].text) > ParentMax

GroupNode ==
    /\ stage = "group" /\ at <= Len(nodes)
    /\ IF groups = <<>> \/ ClosesGroup(at)
       THEN /\ groups' = Append(groups, <<at>>)
            /\ groupTok' = TokensOf(nodes[at].text)
       ELSE /\ groups' = [groups EXCEPT ![Len(groups)] = Append(@, at)]
            /\ groupTok' = groupTok + TokensOf(nodes[at].text)
    /\ at' = at + 1
    /\ UNCHANGED <<stage, parents, children, buffer, bufferTok, span>>

EndGrouping ==
    /\ stage = "group" /\ at > Len(nodes)
    /\ stage' = "parent" /\ at' = 1
    /\ UNCHANGED <<groups, groupTok, parents, children, buffer, bufferTok, span>>

-----------------------------------------------------------------------------
(* Parents.                                                                *)

PagesOf(ns) == {nodes[n].page : n \in ToSet(ns)} \ {0}

PageSpan(ns) == IF PagesOf(ns) = {} THEN <<0, 0>> ELSE <<Min(PagesOf(ns)), Max(PagesOf(ns))>>

\* The path of the first heading; without one, the pages stand for it.
ParentPath(ns) ==
    LET headings == SelectSeq(ns, LAMBDA n : IsHeadingType(nodes[n].type))
    IN  IF headings # <<>> THEN nodes[headings[1]].path
        ELSE IF PagesOf(ns) # {} THEN <<>> ELSE nodes[ns[1]].path

StartParent ==
    /\ stage = "parent" /\ Len(parents) < Len(groups)
    /\ LET ns == groups[Len(parents) + 1]
       IN  parents' = Append(parents, [nodes |-> ns, path |-> ParentPath(ns),
                                       pages |-> PageSpan(ns)])
    /\ stage' = "split"
    /\ UNCHANGED <<at, groups, groupTok, children, buffer, bufferTok, span>>

Finish ==
    /\ stage = "parent" /\ Len(parents) = Len(groups)
    /\ stage' = "done"
    /\ UNCHANGED <<at, groups, groupTok, parents, children, buffer, bufferTok, span>>

-----------------------------------------------------------------------------
(* Children of the last parent: _split_nodes_into_children.                *)

Child(kind, ns, path, pages, tokens) ==
    [parent |-> Len(parents), kind |-> kind, nodes |-> ns, path |-> path, pages |-> pages,
     tokens |-> tokens, part |-> 1, parts |-> 1, range |-> <<0, 0>>]

\* A buffer of blanks is emptied without a chunk, and without the pages.
BufferIsBlank == \A n \in ToSet(buffer) : Blank(n)

\* flush_buffer: the section is the one of the last text.
FlushedChildren ==
    IF BufferIsBlank THEN children
    ELSE Append(children, Child("text", buffer, nodes[Last(buffer)].path, span,
                                TokensOfNodes(buffer)))

\* Defect variant: the pages of the last chunk are kept for the next one.
FlushedSpanKept == span

FlushedSpan == IF BufferIsBlank THEN span ELSE <<0, 0>>

FlushAnd(more) ==
    /\ children' = FlushedChildren \o more
    /\ buffer' = <<>> /\ bufferTok' = 0
    /\ span' = FlushedSpan

Splitting == stage = "split" /\ at \in ToSet(Last(parents).nodes)

Here == nodes[at]

OwnPages == <<Here.page, Here.page>>

TableTokens == Tokens(Words(Here.caption) + Words(Here.text),
                      Length(Here.caption) + Length(Here.text))

DataRows == IF Here.header THEN Here.rows - 1 ELSE Here.rows

RowBatch == Max({2, DataRows \div Max({2, TableTokens \div ChildMax + 1})})

\* Defect variant: the last, shorter part is not counted.
TotalSplitsFloor == Max({1, DataRows \div RowBatch})

TotalSplits == (DataRows + RowBatch - 1) \div RowBatch

TableParts ==
    [i \in 1..TotalSplits |->
       [Child("table", <<at>>, Here.path, OwnPages, 0)
          EXCEPT !.part = i, !.parts = TotalSplits,
                 !.range = <<(i - 1) * RowBatch + 1, Min({i * RowBatch, DataRows})>>]]

WholeTable == [Child("table", <<at>>, Here.path, OwnPages, 0)
                 EXCEPT !.range = <<1, DataRows>>]

Onward == at' = at + 1 /\ UNCHANGED <<stage, groups, groupTok, parents>>

SplitTable ==
    /\ Splitting /\ Here.data = "table"
    /\ FlushAnd(IF TableTokens > ChildMax /\ Here.rows > 3 THEN TableParts ELSE <<WholeTable>>)
    /\ Onward

SplitFigure ==
    /\ Splitting /\ Here.data = "figure"
    /\ FlushAnd(<<Child("figure", <<at>>, Here.path, OwnPages, 0)>>)
    /\ Onward

SkipEmptyText ==
    /\ Splitting /\ Here.data = "none" /\ ~HasText(at)
    /\ Onward
    /\ UNCHANGED <<children, buffer, bufferTok, span>>

SumOfTokens(text) == Total([i \in DOMAIN text |-> TokensOf(<<text[i]>>)])

\* Ranges of sentences, each as long as its sum stays within the limit.
Packs(text) ==
    LET Put(packs, i) ==
          IF packs # <<>> /\ SumOfTokens(SubSeq(text, Last(packs)[1], i)) <= ChildMax
          THEN [packs EXCEPT ![Len(packs)] = <<@[1], i>>]
          ELSE Append(packs, <<i, i>>)
    IN  FoldLeft(Put, <<>>, [i \in DOMAIN text |-> i])

SplitLongText ==
    /\ Splitting /\ Here.data = "none" /\ TokensOf(Here.text) > ChildMax
    /\ LET packs == Packs(Here.text)
           Part(i) ==
             [Child("split", <<at>>, Here.path, OwnPages,
                    TokensOf(SubSeq(Here.text, packs[i][1], packs[i][2])))
                EXCEPT !.part = i, !.parts = Len(packs), !.range = packs[i]]
       IN  FlushAnd([i \in DOMAIN packs |-> Part(i)])
    /\ Onward

\* Defect variant: the text at hand is not counted.
OverflowsWithoutIt == buffer # <<>> /\ bufferTok > ChildMax

Overflows == buffer # <<>> /\ bufferTok + TokensOf(Here.text) > ChildMax

SpanWith(pages) == IF Here.page = 0 THEN pages
                   ELSE <<IF pages[1] = 0 THEN Here.page ELSE pages[1], Here.page>>

BufferText ==
    /\ Splitting /\ Here.data = "none" /\ HasText(at) /\ TokensOf(Here.text) <= ChildMax
    /\ IF Overflows
       THEN /\ children' = FlushedChildren
            /\ buffer' = <<at>> /\ bufferTok' = TokensOf(Here.text)
            /\ span' = SpanWith(FlushedSpan)
       ELSE /\ UNCHANGED children
            /\ buffer' = Append(buffer, at) /\ bufferTok' = bufferTok + TokensOf(Here.text)
            /\ span' = SpanWith(span)
    /\ Onward

\* The end of a group: the buffer is flushed; the next group starts afresh.
EndParent ==
    /\ stage = "split" /\ at \notin ToSet(Last(parents).nodes)
    /\ children' = FlushedChildren
    /\ buffer' = <<>> /\ bufferTok' = 0 /\ span' = <<0, 0>>
    /\ stage' = "parent"
    /\ UNCHANGED <<at, groups, groupTok, parents>>

-----------------------------------------------------------------------------

ChunkerNext ==
    \/ EmptyDocument \/ StartGrouping \/ GroupNode \/ EndGrouping
    \/ StartParent \/ Finish
    \/ SplitTable \/ SplitFigure \/ SkipEmptyText \/ SplitLongText \/ BufferText
    \/ EndParent

-----------------------------------------------------------------------------
(* Properties.                                                             *)

Chunkable(n) == nodes[n].data # "none" \/ ~Blank(n)

\* The nodes in the order in which their content stands in the chunks.
ChunkedNodes == FlattenSeq([i \in DOMAIN children |-> children[i].nodes])

\* What there is to share out among the parts of a table or of a long text.
Whole(c) == CASE c.kind = "split" -> Len(nodes[c.nodes[1]].text)
              [] c.kind = "table" -> nodes[c.nodes[1]].rows
                                       - (IF nodes[c.nodes[1]].header THEN 1 ELSE 0)
              [] OTHER -> 0

\* The part before it, if there is one, ends where part i begins.
Continues(i) ==
    LET c == children[i]
        previous == children[i - 1]
    IN  IF c.part = 1 THEN c.range[1] <= 1
        ELSE /\ previous.nodes = c.nodes /\ previous.parts = c.parts
             /\ c.part = previous.part + 1 /\ c.range[1] = previous.range[2] + 1

\* Every node with content stands in the child chunks, in reading order and
\* under the parent that holds the node: whole, or in parts that are numbered
\* up to their number and share its rows or sentences out without a gap.
ReadingOrder ==
    stage = "done" /\ nodes # <<>> =>
      /\ \A n \in DOMAIN nodes : Chunkable(n) => n \in ToSet(ChunkedNodes)
      /\ \A i, j \in DOMAIN ChunkedNodes : i < j => ChunkedNodes[i] <= ChunkedNodes[j]
      /\ \A i \in DOMAIN children :
           LET c == children[i] IN
           /\ ToSet(c.nodes) \subseteq ToSet(parents[c.parent].nodes)
           /\ Continues(i)
           /\ IF c.part < c.parts THEN i + 1 \in DOMAIN children /\ children[i + 1].part > 1
              ELSE c.part = c.parts /\ c.range[2] = Whole(c)

\* How far a chunk of several texts may exceed child_max_tokens: the texts are
\* counted one by one, rounded down, and the breaks between them not at all,
\* which hides up to five quarters of a token for each, less for sentences.
TextChunksBounded ==
    \A c \in ToSet(children) :
       LET sentences == c.range[2] - c.range[1] + 1 IN
       /\ c.kind = "text" => c.tokens <= ChildMax + (5 * Len(c.nodes) - 2) \div 4
       /\ c.kind = "split" /\ sentences > 1 => c.tokens <= ChildMax + sentences - 1

\* The pages a chunk is cited with are pages of its own nodes, or those of a
\* blank text that was dropped before it.
PagesAreOwn ==
    \A c \in ToSet(children) :
       \A p \in ToSet(c.pages) \ {0} :
          \/ p \in PagesOf(c.nodes)
          \/ \E n \in DOMAIN nodes : Blank(n) /\ n < c.nodes[1] /\ nodes[n].page = p
=============================================================================
