\* Two parsers, three calls, four frames on the stack, two pieces of output; files
\* are parsed with one flag or the other, strings with or without markdown.
SPECIFICATION Spec
CONSTANTS
    Parsers = {p1, p2}
    FileFlags <- OneFlagEach
    MaxCalls = 3
    MaxDepth = 4
    MaxPieces = 2
SYMMETRY ParserSymmetry
INVARIANTS
    TypeOK
    ContextFollowsParse
    EndedContextsPointNowhere
    ParsedAsAsked
    ResultIsWhatWasProduced
PROPERTY
    ReturnedResultsAreFinal
\* MaxCalls, MaxDepth and MaxPieces stop the program.
CHECK_DEADLOCK FALSE
