--------------------------- MODULE DocumentParser ---------------------------
(***************************************************************************)
(* DocumentParser.parse_tree: a document is read piece by piece (an item   *)
(* of Docling, a line, a statement, a page) into the flat list of nodes of *)
(* a DocumentTree.  Docling comes first where it applies; when it raises   *)
(* or finds nothing, a native reader starts over on the same content.      *)
(*                                                                         *)
(* A text is abstracted to the pieces it holds and to its length, a        *)
(* sequence of sentences <<words, characters>>.  The root node is left     *)
(* out: parent 0 stands for it, an empty path for the document's title,    *)
(* and the position in `nodes' for the reading order.                      *)
(***************************************************************************)
EXTENDS Naturals, Sequences, FiniteSets, SequencesExt

CONSTANTS
    DocTypes,   \* formats that are ingested
    Items,      \* what Docling may yield: records of a label, a level, a page, a text, a
                \* number of rows, and whether the first row is that of the headers
    Lines,      \* kinds of lines of a markdown or HTML document
    Statements, \* kinds of top-level statements of a source file
    Pages,      \* what a page may hold: sequences of kinds of paragraphs
    LineText,   \* words and characters of a line, statement or paragraph; none is blank
    MaxPieces   \* bound: pieces of a document

Labels == {"title", "section_header", "table", "figure", "chart", "caption", "figure_text",
           "footnote", "list_item", "code", "paragraph"}

ASSUME ParserAssumption ==
    /\ DocTypes \subseteq {"pdf", "markdown", "html", "docx", "code", "text"}
    /\ Lines \subseteq {"h1", "h2", "text", "pipe", "image", "blank", "fence"}
    /\ Statements \subseteq {"docstring", "def", "class", "statement", "decorator"}
    /\ Items \subseteq [label : Labels, level : Nat, page : Nat,
                       text : Seq(Nat \X Nat), rows : Nat, header : BOOLEAN]
    /\ \A item \in Items : item.label = "section_header" => item.level > 0
    /\ \A item \in Items : item.header => item.rows > 0
    /\ Pages \subseteq Seq({"text", "pipe", "running"})
    /\ LineText \in Nat \X Nat /\ LineText[1] > 0
    /\ MaxPieces \in Nat

VARIABLES
    docType,  \* the format; "none" before parse_tree is called
    reader,   \* which reader is at work
    parsed,   \* parse_tree has returned
    pieces,   \* what the reader has read
    pending,  \* read but not yet in a node: lines of a paragraph, or pages
    fence,    \* code_block_lines; empty outside a code block
    nodes,    \* the nodes built so far
    heads,    \* heading_stack, as indexes into nodes
    lastFig   \* last_fig_or_table_node; 0 if none

parserVars == <<docType, reader, parsed, pieces, pending, fence, nodes, heads, lastFig>>

Readers == {"none", "docling", "pdf", "pages", "markdown", "code", "blocks", "text",
            "failed"}

Reading(r) == reader = r /\ ~parsed

-----------------------------------------------------------------------------
(* Nodes.                                                                  *)

This == Len(pieces) + 1

LastOf(s) == IF s = <<>> THEN 0 ELSE Last(s)

NodeUnder(path, type, level, holds, text, page) ==
    [type |-> type, level |-> level, holds |-> holds, text |-> text,
     up |-> LastOf(path), path |-> path, page |-> page,
     data |-> "none", caption |-> <<>>, rows |-> 0, header |-> FALSE]

Node(type, holds, text, page) == NodeUnder(heads, type, 0, holds, text, page)

TableNode(holds, text, page, rows, header) ==
    [Node("table", holds, text, page)
       EXCEPT !.data = "table", !.rows = rows, !.header = header]

FigureNode(type, holds, text, caption, page) ==
    [Node(type, holds, text, page) EXCEPT !.data = "figure", !.caption = caption]

\* Defect variant: a heading does not close its siblings.
PoppedDeeperOnly(level) ==
    SubSeq(heads, 1, SelectLastInSeq(heads, LAMBDA h : nodes[h].level <= level))

\* The heading stack without the headings that one of this level closes.
Popped(level) ==
    SubSeq(heads, 1, SelectLastInSeq(heads, LAMBDA h : nodes[h].level < level))

Heading(type, level, holds, text, page) ==
    LET n == Len(nodes) + 1
        heading == NodeUnder(Popped(level), type, level, holds, text, page)
    IN  [heading EXCEPT !.path = Append(@, n)]

PushHeading(type, level, holds, text, page) ==
    /\ nodes' = Append(nodes, Heading(type, level, holds, text, page))
    /\ heads' = Append(Popped(level), Len(nodes) + 1)

Read(piece) == /\ Len(pieces) < MaxPieces
               /\ pieces' = Append(pieces, piece)

Return == parsed' = TRUE /\ UNCHANGED <<docType, reader, pieces, fence, heads, lastFig>>

-----------------------------------------------------------------------------
(* parse_tree: which reader, and when another one takes over.              *)

ParserInit ==
    /\ docType = "none" /\ reader = "none" /\ parsed = FALSE
    /\ pieces = <<>> /\ pending = <<>> /\ fence = <<>>
    /\ nodes = <<>> /\ heads = <<>> /\ lastFig = 0

\* A .docx that Docling cannot read is decoded and read as plain text.
NativeReader(t) == CASE t = "pdf" -> "pdf"
                     [] t \in {"markdown", "html"} -> "markdown"
                     [] OTHER -> "text"

\* Code is parsed as Python where it looks like Python and ast accepts it.
ReadersOf(t) == CASE t = "code" -> {"code", "blocks"}
                  [] t \in {"pdf", "markdown", "html", "docx"} -> {"docling"}
                  [] OTHER -> {NativeReader(t)}

ParseTree(t) ==
    /\ docType = "none"
    /\ docType' = t
    /\ reader' \in ReadersOf(t)
    /\ UNCHANGED <<parsed, pieces, pending, fence, nodes, heads, lastFig>>

\* Defect variant: the native reader goes on with Docling's headings.
FallBackWithHeadings ==
    /\ Reading("docling")
    /\ reader' = NativeReader(docType)
    /\ pieces' = <<>> /\ nodes' = <<>> /\ lastFig' = 0
    /\ UNCHANGED <<docType, parsed, pending, fence, heads>>

\* Docling raises, or its tree has nothing beside the root.
FallBack ==
    /\ Reading("docling")
    /\ reader' = NativeReader(docType)
    /\ pieces' = <<>> /\ nodes' = <<>> /\ heads' = <<>> /\ lastFig' = 0
    /\ UNCHANGED <<docType, parsed, pending, fence>>

FinishDocling ==
    /\ Reading("docling") /\ nodes # <<>>
    /\ Return /\ UNCHANGED <<pending, nodes>>

-----------------------------------------------------------------------------
(* _parse_with_docling: one step per item of iterate_items.                *)

ReadTitle(item) ==
    /\ item.label = "title"
    /\ PushHeading("title", 1, {This}, item.text, item.page)
    /\ lastFig' = 0

ReadSectionHeader(item) ==
    /\ item.label = "section_header"
    /\ PushHeading("heading", item.level, {This}, item.text, item.page)
    /\ lastFig' = 0

ReadTable(item) ==
    /\ item.label = "table"
    /\ nodes' = Append(nodes, TableNode({This}, item.text, item.page, item.rows,
                                     item.header))
    /\ lastFig' = Len(nodes) + 1
    /\ UNCHANGED heads

ReadPicture(item) ==
    /\ item.label \in {"figure", "chart"}
    /\ nodes' = Append(nodes, FigureNode(item.label, {This}, item.text, <<>>, item.page))
    /\ lastFig' = Len(nodes) + 1
    /\ UNCHANGED heads

\* A caption, or a paragraph that begins like one, also becomes the caption
\* of the last table or figure, if that has none.
Captioned(text) ==
    IF lastFig # 0 /\ nodes[lastFig].caption = <<>>
    THEN [nodes EXCEPT ![lastFig].caption = text] ELSE nodes

ReadCaption(item) ==
    /\ item.label \in {"caption", "figure_text"}
    /\ nodes' = Append(Captioned(item.text),
                       Node(IF item.label = "caption" THEN "caption" ELSE "paragraph",
                            {This}, item.text, item.page))
    /\ UNCHANGED <<heads, lastFig>>

\* Only code keeps a text that is blank.
ReadText(item) ==
    /\ item.label \in {"footnote", "list_item", "code", "paragraph"}
    /\ nodes' = Append(nodes, Node(item.label, {This}, item.text, item.page))
    /\ UNCHANGED <<heads, lastFig>>

ReadItem(item) ==
    /\ Reading("docling")
    /\ Read(item)
    /\ \/ ReadTitle(item) \/ ReadSectionHeader(item) \/ ReadTable(item)
       \/ ReadPicture(item) \/ ReadCaption(item) \/ ReadText(item)
    /\ UNCHANGED <<docType, reader, parsed, pending, fence>>

-----------------------------------------------------------------------------
(* _parse_markdown_tree_native: one step per line.                         *)

\* n lines joined by line breaks.
Joined(n) == IF n = 0 THEN <<>> ELSE <<<<n * LineText[1], n * LineText[2] + n - 1>>>>

\* Lines under an image are not in the caption, which is all a figure keeps.
ParagraphNode ==
    LET lines == ToSet(pending)
        text == Joined(Len(pending))
    IN  IF Len(pending) > 1 /\ \E i \in lines : pieces[i] = "pipe"
        THEN TableNode(lines, text, 0, 0, FALSE)
        ELSE IF pieces[pending[1]] = "image"
        THEN FigureNode("figure", {pending[1]}, Joined(1), Joined(1), 0)
        ELSE Node("paragraph", lines, text, 0)

Flushed == IF pending = <<>> THEN nodes ELSE Append(nodes, ParagraphNode)

\* HTML is turned into markdown first, with every heading at level 1.
LevelOf(line) == IF docType # "html" /\ line = "h2" THEN 2 ELSE 1

\* The paragraph before a heading goes first, under the old stack.
ReadHeadingLine(line) ==
    /\ fence = <<>> /\ line \in {"h1", "h2"}
    /\ LET level == LevelOf(line)
           n == Len(Flushed) + 1
           heading == NodeUnder(Popped(level), "heading", level, {This}, Joined(1), 0)
       IN  /\ nodes' = Append(Flushed, [heading EXCEPT !.path = Append(@, n)])
           /\ heads' = Append(Popped(level), n)
    /\ pending' = <<>>
    /\ UNCHANGED fence

ReadBlankLine(line) ==
    /\ fence = <<>> /\ line = "blank"
    /\ nodes' = Flushed /\ pending' = <<>>
    /\ UNCHANGED <<heads, fence>>

ReadOtherLine(line) ==
    /\ fence = <<>> /\ line \in {"text", "pipe", "image"}
    /\ pending' = Append(pending, This)
    /\ UNCHANGED <<heads, fence, nodes>>

OpenFence(line) ==
    /\ fence = <<>> /\ line = "fence"
    /\ nodes' = Flushed /\ pending' = <<>>
    /\ fence' = <<This>>
    /\ UNCHANGED heads

\* Defect variant: the lines of the block are not taken over.
CloseFenceEmpty(line) ==
    /\ fence # <<>> /\ line = "fence"
    /\ nodes' = Append(nodes, Node("code", {fence[1], This}, Joined(2), 0))
    /\ fence' = <<>>
    /\ UNCHANGED <<heads, pending>>

CloseFence(line) ==
    /\ fence # <<>> /\ line = "fence"
    /\ nodes' = Append(nodes, Node("code", ToSet(fence) \cup {This}, Joined(Len(fence) + 1), 0))
    /\ fence' = <<>>
    /\ UNCHANGED <<heads, pending>>

ReadFencedLine(line) ==
    /\ fence # <<>> /\ line # "fence"
    /\ fence' = Append(fence, This)
    /\ UNCHANGED <<heads, pending, nodes>>

ReadLine(line) ==
    /\ Reading("markdown")
    /\ Read(line)
    /\ \/ ReadHeadingLine(line) \/ ReadBlankLine(line) \/ ReadOtherLine(line)
       \/ OpenFence(line) \/ CloseFence(line) \/ ReadFencedLine(line)
    /\ UNCHANGED <<docType, reader, parsed, lastFig>>

\* A block that is still open is dropped with its lines.
FinishMarkdown ==
    /\ Reading("markdown")
    /\ nodes' = Flushed /\ pending' = <<>>
    /\ Return

-----------------------------------------------------------------------------
(* _parse_code_tree: one step per top-level statement.                     *)

CodeNode(type, holds, lines) == Node(type, holds, Joined(lines), 1)

\* The body of a class is a node, and each of its methods is one more.
ClassNodes ==
    <<CodeNode("code", {This}, 2),
      [CodeNode("code", {This}, 1) EXCEPT !.up = Len(nodes) + 1]>>

\* A decorator stands before the line at which ast says a definition begins;
\* statements that are no definitions are not taken at all.
ReadStatement(s) ==
    /\ Reading("code")
    /\ Read(s)
    /\ s = "docstring" => pieces = <<>>
    /\ nodes' = CASE s = "docstring" -> Append(nodes, CodeNode("paragraph", {This}, 1))
                  [] s = "def" -> Append(nodes, CodeNode("code", {This}, 1))
                  [] s = "class" -> nodes \o ClassNodes
                  [] OTHER -> nodes
    /\ UNCHANGED <<docType, reader, parsed, pending, fence, heads, lastFig>>

\* Without any definition the file becomes one block.
FinishCode ==
    /\ Reading("code")
    /\ nodes' = IF nodes # <<>> THEN nodes
                ELSE <<Node("code", DOMAIN pieces, Joined(Len(pieces)), 0)>>
    /\ UNCHANGED pending
    /\ Return

\* Other languages: a block begins at every definition.
ReadBlockLine(s) ==
    /\ Reading("blocks")
    /\ Read(s)
    /\ nodes' = IF nodes = <<>> \/ s \in {"def", "class"}
                THEN Append(nodes, Node("code", {This}, Joined(1), 0))
                ELSE LET last == Last(nodes)
                         lines == last.holds \cup {This}
                     IN  [nodes EXCEPT ![Len(nodes)] =
                            Node("code", lines, Joined(Cardinality(lines)), 0)]
    /\ UNCHANGED <<docType, reader, parsed, pending, fence, heads, lastFig>>

FinishBlocks ==
    /\ Reading("blocks")
    /\ nodes' = IF nodes # <<>> THEN nodes ELSE <<Node("code", {}, <<>>, 0)>>
    /\ UNCHANGED pending
    /\ Return

-----------------------------------------------------------------------------
(* _parse_pdf_tree_native: all pages are read, running headers and footers *)
(* are removed, then each page becomes a section.  A paragraph is one line *)
(* here; `running' ones read the same wherever they stand.                 *)

ReadPage(page) ==
    /\ Reading("pdf")
    /\ Read(page)
    /\ UNCHANGED <<docType, reader, parsed, pending, fence, nodes, heads, lastFig>>

FinishPages ==
    /\ Reading("pdf")
    /\ reader' = "pages"
    /\ pending' = [k \in DOMAIN pieces |-> k]
    /\ UNCHANGED <<docType, parsed, pieces, fence, nodes, heads, lastFig>>

PdfFails ==
    /\ Reading("pdf")
    /\ reader' = "failed"
    /\ UNCHANGED <<docType, parsed, pieces, pending, fence, nodes, heads, lastFig>>

InMargin(margin, page, i) == IF margin = "top" THEN i <= 2 ELSE i > Len(page) - 2

\* suppress_headers_footers: repeated among the first or the last two lines.
Repeats(margin) ==
    LET found == {id \in (DOMAIN pieces) \X (1..MaxPieces) :
                    /\ id[2] \in DOMAIN pieces[id[1]]
                    /\ InMargin(margin, pieces[id[1]], id[2])
                    /\ pieces[id[1]][id[2]] = "running"}
    IN  Len(pieces) > 1 /\ Cardinality(found) >= Max({2, Len(pieces) \div 2})

Suppressed(page, i) ==
    \E margin \in {"top", "bottom"} :
       page[i] = "running" /\ InMargin(margin, page, i) /\ Repeats(margin)

\* The paragraphs of page k that stay, as indexes.
Kept(k) ==
    FoldLeft(LAMBDA kept, i : IF Suppressed(pieces[k], i) THEN kept ELSE Append(kept, i),
             <<>>, [i \in DOMAIN pieces[k] |-> i])

PageNodes(k) ==
    LET n == Len(nodes) + 1
        section == NodeUnder(<<>>, "section", 1, {}, <<<<2, 6>>>>, k)
        Paragraph(i) ==
            LET p == NodeUnder(<<n>>, "paragraph", 0, {<<k, i>>}, Joined(1), k)
            IN  IF pieces[k][i] = "pipe" THEN [p EXCEPT !.type = "table", !.data = "table"]
                ELSE p
    IN  <<[section EXCEPT !.path = <<n>>]>> \o [j \in DOMAIN Kept(k) |-> Paragraph(Kept(k)[j])]

BuildPage ==
    /\ Reading("pages") /\ pending # <<>>
    /\ nodes' = IF Kept(Head(pending)) = <<>> THEN nodes
                ELSE nodes \o PageNodes(Head(pending))
    /\ pending' = Tail(pending)
    /\ UNCHANGED <<docType, reader, parsed, pieces, fence, heads, lastFig>>

\* An empty PDF gets a paragraph that says so.
FinishPdf ==
    /\ Reading("pages") /\ pending = <<>>
    /\ nodes' = IF nodes # <<>> THEN nodes ELSE <<Node("paragraph", {}, <<<<3, 20>>>>, 1)>>
    /\ UNCHANGED pending
    /\ Return

-----------------------------------------------------------------------------
(* _parse_text_tree_native: one step per paragraph.                        *)

ReadParagraph ==
    /\ Reading("text")
    /\ Read("text")
    /\ nodes' = Append(nodes, Node("paragraph", {This}, Joined(1), 0))
    /\ UNCHANGED <<docType, reader, parsed, pending, fence, heads, lastFig>>

FinishText ==
    /\ Reading("text")
    /\ Return /\ UNCHANGED <<pending, nodes>>

-----------------------------------------------------------------------------

ParserNext ==
    \/ \E t \in DocTypes : ParseTree(t)
    \/ \E item \in Items : ReadItem(item)
    \/ \E line \in Lines : ReadLine(line)
    \/ \E s \in Statements : ReadStatement(s) \/ ReadBlockLine(s)
    \/ \E page \in Pages : ReadPage(page)
    \/ ReadParagraph \/ BuildPage
    \/ FallBack \/ PdfFails \/ FinishPages
    \/ FinishDocling \/ FinishMarkdown \/ FinishCode \/ FinishBlocks
    \/ FinishPdf \/ FinishText

-----------------------------------------------------------------------------
(* Properties.                                                             *)

IsHeading(n) == nodes[n].level > 0

\* Heading h is open at node n: what lies between is deeper than h.
Encloses(h, n) ==
    /\ h < n /\ IsHeading(h)
    /\ IsHeading(n) => nodes[h].level < nodes[n].level
    /\ \A g \in h+1..n-1 : IsHeading(g) => nodes[g].level > nodes[h].level

\* A node hangs under the nearest heading that encloses it, and its section
\* path names all of them from the outside in: the section a citation of the
\* node shows.  HTML read without Docling has headings of level 1 only.
HeadingTree ==
    reader \in {"docling", "markdown", "pages"} =>
      \A n \in DOMAIN nodes :
         LET around == {h \in DOMAIN nodes : Encloses(h, n)}
             path == IF IsHeading(n) THEN around \cup {n} ELSE around
         IN  /\ nodes[n].up = Max(around \cup {0})
             /\ ToSet(nodes[n].path) = path
             /\ \A i, j \in DOMAIN nodes[n].path :
                  i < j => nodes[n].path[i] < nodes[n].path[j]
=============================================================================
