--------------------------- MODULE MCDocumentText ---------------------------
(* Small documents: up to four pieces of any kind, on up to two pages, with *)
(* limits of three tokens for a child and five for a parent.                 *)
EXTENDS DocumentText

Short == <<1, 7>>
Full == <<2, 9>>

Item(label, level, page, text) ==
    [label |-> label, level |-> level, page |-> page, text |-> text, rows |-> 0,
     header |-> FALSE]

Table(header) == [Item("table", 0, 2, <<<<8, 40>>>>) EXCEPT !.rows = 6, !.header = header]

MCItems ==
    {Item("title", 1, 1, <<Short>>)}
    \cup {Item("section_header", l, 1, <<Short>>) : l \in {2, 3}}
    \cup {Table(TRUE), Table(FALSE),
          Item("figure", 0, 1, <<Short>>), Item("caption", 0, 1, <<Short>>)}
    \cup {Item("paragraph", 0, p, <<Short>>) : p \in {1, 2}}
    \cup {Item("paragraph", 0, 1, <<Short, Full, Short>>), Item("code", 0, 1, <<<<0, 3>>>>)}

MCPages == {<<>>, <<"running">>, <<"running", "text">>, <<"text", "pipe", "running">>}
MCLineText == <<1, 7>>
=============================================================================
