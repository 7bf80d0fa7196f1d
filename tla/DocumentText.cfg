CONSTANTS
    DocTypes = {"pdf", "markdown", "html", "docx", "code", "text"}
    Items <- MCItems
    Lines = {"h1", "h2", "text", "pipe", "image", "blank", "fence"}
    Statements = {"docstring", "def", "class", "statement", "decorator"}
    Pages <- MCPages
    LineText <- MCLineText
    MaxPieces = 4
    ChildMax = 3
    ParentMin = 2
    ParentMax = 5
SPECIFICATION Spec
INVARIANTS TypeOK HeadingTree NothingElseLost ReadingOrder TextChunksBounded PagesAreOwn
CHECK_DEADLOCK FALSE
