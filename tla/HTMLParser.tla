------------------------------ MODULE HTMLParser ------------------------------
(***************************************************************************)
(* HTMLParser objects (HTMLParserWrapper.h).  A parser has one native      *)
(* context, which every context object made by createContext shares.  The  *)
(* context points into the stack frame of the call that parses: at its     *)
(* result, at the user data its handlers are given, and, through the names *)
(* of the open tags, at its source.  Handlers run JavaScript, which may    *)
(* parse again, also with the same parser.                                 *)
(*                                                                         *)
(* The parsing library is not part of the repository.  What it reads is    *)
(* left open; of the pieces of a result only the way they came is kept:    *)
(* appended to the buffer the library hands out, or written by JavaScript  *)
(* through a context object; and the call they were meant for.             *)
(***************************************************************************)
EXTENDS Naturals, Sequences
LOCAL INSTANCE FiniteSetsExt

CONSTANTS
    Parsers,    \* parser objects JavaScript may construct
    FileFlags,  \* flags files are parsed with
    MaxCalls,   \* bound: calls of fromString, fromFile and their markdown variants
    MaxDepth,   \* bound: length of the stack
    MaxPieces   \* bound: pieces of output all calls have together

Flags   == [markdown : BOOLEAN, sanitize : BOOLEAN]
NoFlags == [markdown |-> FALSE, sanitize |-> FALSE]

ASSUME FlagsAssumption  == FileFlags \subseteq Flags
ASSUME CallsAssumption  == MaxCalls \in Nat
ASSUME DepthAssumption  == MaxDepth \in Nat
ASSUME PiecesAssumption == MaxPieces \in Nat

Calls    == 1 .. MaxCalls
NoCall   == 0
Pieces   == [how : {"appended", "written"}, of : Calls \union {NoCall}]

VARIABLES
    parsers,   \* parsers that have been constructed
    output,    \* the call the native context of each parser points into
    flags,     \* in_markdown, sanitize_html and template_enabled of each context
    calls,     \* number of calls so far
    status,    \* how far each call has come
    result,    \* what is in the result string of each call
    produced,  \* what belongs there, in the order it was produced (history)
    disturbed, \* calls during which their parser was used for another (history)
    stack      \* native calls and the JavaScript functions they run

callVars == <<calls, status, disturbed>>
textVars == <<result, produced>>
vars == <<parsers, output, flags, callVars, textVars, stack>>

(* What is running: a fromFile that reads ctx.data.path, through getters of     *)
(* JavaScript; the library, on a string or file of a call or on an imported     *)
(* file; or a handler it called.                                                *)
Parses == {"parsesString", "parsesFile"}
Native == Parses \union {"imports"}
Frames == [doing : {"reads", "handles"} \union Native,
           call : Calls, parser : Parsers, asked : Flags]

\* Every variable has its type.
TypeOK ==
    /\ parsers \in SUBSET Parsers
    /\ output \in [Parsers -> Calls \union {NoCall}]
    /\ flags \in [Parsers -> Flags]
    /\ calls \in 0 .. MaxCalls
    /\ status \in [Calls -> {"none", "running", "returned", "exported", "failed"}]
    /\ result \in [Calls -> Seq(Pieces)]
    /\ produced \in [Calls -> Seq(Pieces)]
    /\ disturbed \in SUBSET Calls
    /\ stack \in Seq(Frames)

Init ==
    /\ parsers   = {}
    /\ output    = [p \in Parsers |-> NoCall]
    /\ flags     = [p \in Parsers |-> NoFlags]
    /\ calls     = 0
    /\ status    = [k \in Calls |-> "none"]
    /\ result    = [k \in Calls |-> <<>>]
    /\ produced  = [k \in Calls |-> <<>>]
    /\ disturbed = {}
    /\ stack     = <<>>

-------------------------------------------------------------------------------
(* The one thread. *)
Top  == stack[Len(stack)]
Rest == SubSeq(stack, 1, Len(stack) - 1)

JsRuns     == stack # <<>> => Top.doing \notin Native
NativeRuns == stack # <<>> /\ Top.doing \in Native

Push(f) == Len(stack) < MaxDepth /\ stack' = Append(stack, f)
Pop     == stack' = Rest

(* Calls of p that are being parsed, and the one that began last. *)
Parsing(p) == {i \in 1 .. Len(stack) : stack[i].parser = p /\ stack[i].doing \in Native}
Innermost(p) == stack[CHOOSE i \in Parsing(p) : \A j \in Parsing(p) : j <= i].call

PieceIsLeft == MapThenSumSet(LAMBDA k : Len(result[k]), Calls) < MaxPieces

Piece(way, k) == [how |-> way, of |-> k]

Appends_inFront(k) ==
    /\ PieceIsLeft
    /\ result'   = [result   EXCEPT ![k] = <<Piece("appended", k)>> \o @]
    /\ produced' = [produced EXCEPT ![k] = Append(@, Piece("appended", k))]

(* The buffer a handler appends to is the one the library gave it. *)
Appends(k) ==
    /\ PieceIsLeft
    /\ result'   = [result   EXCEPT ![k] = Append(@, Piece("appended", k))]
    /\ produced' = [produced EXCEPT ![k] = Append(@, Piece("appended", k))]

(* The context is set up for a call, whatever it was used for until now. *)
SetFlags(p, asked) ==
    /\ flags' = [flags EXCEPT ![p] = asked]
    /\ disturbed' = disturbed \union {stack[i].call : i \in Parsing(p)}

PointsInto(p, k) == output' = [output EXCEPT ![p] = k]

Finishes(k, how) == status' = [status EXCEPT ![k] = how] /\ Pop

-------------------------------------------------------------------------------
(* Construction. *)

Construct(p) ==
    /\ JsRuns
    /\ p \notin parsers
    /\ parsers' = parsers \union {p}
    /\ UNCHANGED <<output, flags, callVars, textVars, stack>>

-------------------------------------------------------------------------------
(* Parsing.  A definition whose name ends in an underscore and a word is a    *)
(* mistake.                                                                   *)

NewCall_offByOne(p, doing, asked) ==
    /\ JsRuns
    /\ p \in parsers
    /\ calls < MaxCalls
    /\ calls' = calls + 1
    /\ status' = [status EXCEPT ![calls + 1] = "running"]
    /\ Push([doing |-> doing, call |-> calls, parser |-> p, asked |-> asked])
    /\ UNCHANGED <<parsers, textVars>>

NewCall(p, doing, asked) ==
    /\ JsRuns
    /\ p \in parsers
    /\ calls < MaxCalls
    /\ calls' = calls + 1
    /\ status' = [status EXCEPT ![calls + 1] = "running"]
    /\ Push([doing |-> doing, call |-> calls + 1, parser |-> p, asked |-> asked])
    /\ UNCHANGED <<parsers, textVars>>

FromString_sticky(p, markdown) ==
    /\ NewCall(p, "parsesString", [flags[p] EXCEPT !.markdown = markdown])
    /\ SetFlags(p, flags[p])
    /\ PointsInto(p, calls + 1)

(* A string or markdown string: sanitize_html and template_enabled remain what *)
(* the parser's last file asked for.                                           *)
FromString(p, markdown) ==
    LET asked == [flags[p] EXCEPT !.markdown = markdown] IN
    /\ NewCall(p, "parsesString", asked)
    /\ SetFlags(p, asked)
    /\ PointsInto(p, calls + 1)

(* A file: ctx.data.path is read first, and may be a getter. *)
FromFile(p, asked) ==
    /\ NewCall(p, "reads", asked)
    /\ UNCHANGED <<output, flags, disturbed>>

HasRead == stack # <<>> /\ Top.doing = "reads"

(* The flags are set when no JavaScript is left to run before the parse. *)
StartFile ==
    /\ HasRead
    /\ SetFlags(Top.parser, Top.asked)
    /\ PointsInto(Top.parser, Top.call)
    /\ stack' = Append(Rest, [Top EXCEPT !.doing = "parsesFile"])
    /\ UNCHANGED <<parsers, calls, status, textVars>>

(* A file that cannot be read, or that need not be parsed again. *)
SkipFile ==
    /\ HasRead
    /\ SetFlags(Top.parser, Top.asked)
    /\ \E how \in {"exported", "failed"} : Finishes(Top.call, how)
    /\ UNCHANGED <<parsers, output, calls, textVars>>

(* Text without @, outside of scripts and styles, is kept as it is; without   *)
(* onText the library keeps the rest as well.                                 *)
PlainText ==
    /\ NativeRuns
    /\ Appends(Top.call)
    /\ UNCHANGED <<parsers, output, flags, callVars, stack>>

(* Other text, tags and the end are given to their handler, if the options    *)
(* of the parser had a function for it.                                       *)
CallHandler ==
    /\ NativeRuns
    /\ Push([Top EXCEPT !.doing = "handles"])
    /\ UNCHANGED <<parsers, output, flags, callVars, textVars>>

(* The string or buffer a handler returns is appended, or, if onText returns  *)
(* TRUE, its text; anything else adds nothing, nor does what onEnd returns.   *)
HandlerReturns ==
    /\ stack # <<>>
    /\ Top.doing = "handles"
    /\ Pop
    /\ \/ Appends(Top.call)
       \/ UNCHANGED textVars
    /\ UNCHANGED <<parsers, output, flags, callVars>>

ParseEnds_withoutEnd ==
    /\ NativeRuns
    /\ Top.doing = "parsesString"
    /\ Finishes(Top.call, "returned")
    /\ UNCHANGED <<parsers, output, flags, calls, disturbed, textVars>>

(* A string: ctx.end(), the context points nowhere.  The result is copied, and  *)
(* given to JavaScript.                                                         *)
ParseEnds ==
    /\ NativeRuns
    /\ Top.doing = "parsesString"
    /\ PointsInto(Top.parser, NoCall)
    /\ Finishes(Top.call, "returned")
    /\ UNCHANGED <<parsers, flags, calls, disturbed, textVars>>

(* Whether the library has cleared the context by itself is not known. *)
PointsMaybe(p) == PointsInto(p, NoCall) \/ UNCHANGED output

(* A file: the result is in the library's cache, JavaScript is given a copy.    *)
(* ctx.end() is not called.                                                     *)
FileEnds ==
    /\ NativeRuns
    /\ Top.doing = "parsesFile"
    /\ PointsMaybe(Top.parser)
    /\ Finishes(Top.call, "exported")
    /\ UNCHANGED <<parsers, flags, calls, disturbed, textVars>>

(* The call throws, and ctx.end() is not called. *)
ParseFails ==
    /\ NativeRuns
    /\ Top.doing \in Parses
    /\ PointsMaybe(Top.parser)
    /\ Finishes(Top.call, "failed")
    /\ UNCHANGED <<parsers, flags, calls, disturbed, textVars>>

-------------------------------------------------------------------------------
(* Calls on a context object, at any time. *)

(* write throws unless the context points somewhere. *)
write(p) ==
    LET meantFor == IF Parsing(p) = {} THEN NoCall ELSE Innermost(p)
        piece    == Piece("written", meantFor) IN
    /\ JsRuns
    /\ output[p] # NoCall
    /\ PieceIsLeft
    /\ result' = [result EXCEPT ![output[p]] = Append(@, piece)]
    /\ produced' = IF meantFor = NoCall THEN produced
                   ELSE [produced EXCEPT ![meantFor] = Append(@, piece)]
    /\ UNCHANGED <<parsers, output, flags, callVars, stack>>

(* import parses a file into the result the context points at.  Unlike write,  *)
(* it does not look whether there is one: outside of a parse, what it does is   *)
(* the library's affair and JavaScript is taken to leave it alone.              *)
import(p) ==
    /\ JsRuns
    /\ output[p] # NoCall
    /\ Push([doing |-> "imports", call |-> output[p], parser |-> p, asked |-> NoFlags])
    /\ UNCHANGED <<parsers, output, flags, callVars, textVars>>

ImportEnds_endsContext ==
    /\ NativeRuns
    /\ Top.doing = "imports"
    /\ PointsInto(Top.parser, NoCall)
    /\ Pop
    /\ UNCHANGED <<parsers, flags, callVars, textVars>>

(* The import has ended, with an exception or without. *)
ImportEnds ==
    /\ NativeRuns
    /\ Top.doing = "imports"
    /\ Pop
    /\ UNCHANGED <<parsers, output, flags, callVars, textVars>>

-------------------------------------------------------------------------------
Next ==
    \/ \E p \in Parsers :
        \/ Construct(p)
        \/ \E markdown \in BOOLEAN : FromString(p, markdown)
        \/ \E asked \in FileFlags : FromFile(p, asked)
        \/ write(p)
        \/ import(p)
    \/ CallHandler
    \/ StartFile
    \/ SkipFile
    \/ PlainText
    \/ HandlerReturns
    \/ ParseEnds
    \/ FileEnds
    \/ ParseFails
    \/ ImportEnds

Spec == Init /\ [][Next]_vars

-------------------------------------------------------------------------------
(* What must hold. *)

\* While a call is being parsed, or imported into, whose parser is not used for another
\* call meanwhile, the context points at its result and at no other: what its handlers write and
\* import through any context object of the parser lands in there.
\* (Akeno_HTMLParser_fromStringInternal, Akeno_HTMLParser_context_write)
ContextFollowsParse ==
    \A i \in 1 .. Len(stack) :
        stack[i].doing \in Native /\ stack[i].call \notin disturbed
            => output[stack[i].parser] = stack[i].call

\* A context points into a call only while that call is being parsed with its own
\* parser, unless nobody called ctx.end(): nothing is written to the result, and no
\* tag name read from the source, of a string that has returned.
\* (Akeno_HTMLParser_fromStringInternal, Akeno_HTMLParser_context_getTagName)
EndedContextsPointNowhere ==
    \A p \in Parsers : output[p] # NoCall =>
        \/ status[output[p]] \in {"failed", "exported"}
        \/ \E i \in Parsing(p) : stack[i].doing \in Parses /\ stack[i].call = output[p]

\* A file is parsed with the flags of its own call, whatever JavaScript the getter of
\* its path has run in between, and a string as markdown or not as its own call has
\* it, unless its handlers use its parser for another call.  Of the other flags of a
\* string, which are not arguments of its call, nothing is said.
\* (Akeno_HTMLParser_fromFileInternal, Akeno_HTMLParser_fromStringInternal)
ParsedAsAsked ==
    \A i \in 1 .. Len(stack) : stack[i].call \notin disturbed =>
        LET now == flags[stack[i].parser] IN
        /\ stack[i].doing = "parsesFile"   => now = stack[i].asked
        /\ stack[i].doing = "parsesString" => now.markdown = stack[i].asked.markdown

\* The result of a call, until it returns, and that of a string afterwards, has
\* nothing in it that was meant for another call, also if one of them is in the middle
\* of the other and uses the same parser.  If its parser is not used for another call
\* meanwhile, the result is what the library kept and its own handlers replied and
\* wrote, complete and in order.  (appendResultToBuffer, context_write)
ResultIsWhatWasProduced ==
    \A k \in Calls : status[k] \in {"running", "returned"} =>
        /\ \A i \in 1 .. Len(result[k]) : result[k][i].of = k
        /\ k \notin disturbed => result[k] = produced[k]

\* What a string has been parsed to is final: no handler, write or import of a later
\* call changes it.
ReturnedResultsAreFinal ==
    [][\A k \in Calls : status[k] = "returned" => result'[k] = result[k]]_vars
===============================================================================
