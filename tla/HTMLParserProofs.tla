--------------------------- MODULE HTMLParserProofs ---------------------------
(***************************************************************************)
(* Theorems about HTMLParser, for any parsers, any number of calls and any *)
(* depth of the stack.                                                     *)
(***************************************************************************)
EXTENDS HTMLParser, SequenceTheorems, WellFoundedInduction, TLAPS

USE FlagsAssumption, CallsAssumption, DepthAssumption, PiecesAssumption

(* The frame a call begins with. *)
Home == {"reads"} \union Parses

Depth == 1 .. Len(stack)

(* A call has one frame it begins with, below all its others; while getters of  *)
(* JavaScript run, it has no other.                                             *)
HomeComesFirst ==
    \A i, j \in Depth : stack[i].doing \in Home /\ stack[i].call = stack[j].call =>
        /\ i <= j
        /\ stack[j].doing \in Home \/ stack[i].doing = "reads" => i = j

(* Calls that have not begun are nowhere. *)
CallsBegin ==
    /\ \A i \in Depth : stack[i].call <= calls
    /\ \A p \in Parsers : output[p] <= calls
    /\ \A k \in Calls : k > calls => /\ status[k] = "none"
                                     /\ k \notin disturbed
                                     /\ result[k] = produced[k]

(* A call belongs to one parser, and so does what points to it. *)
OneParser ==
    /\ \A i, j \in Depth : stack[i].call = stack[j].call => stack[i].parser = stack[j].parser
    /\ \A i \in Depth, p \in Parsers : stack[i].call = output[p] => stack[i].parser = p
    /\ \A p, q \in Parsers : output[p] = output[q] /\ output[p] # NoCall => p = q

(* A call runs while its first frame is there; no frame is of a string that     *)
(* has returned.                                                                *)
FramesRun ==
    /\ \A i \in Depth : stack[i].doing \in Home => status[stack[i].call] = "running"
    /\ \A i \in Depth : status[stack[i].call] # "returned"

(* No context points to a call whose parse has not begun. *)
ReadsPointNowhere ==
    \A i \in Depth, p \in Parsers : stack[i].doing = "reads" => output[p] # stack[i].call

(* A parser that goes on with another call disturbs the one it leaves, and its   *)
(* context does not point back to it while the other is there.                   *)
LeavingDisturbs ==
    \A i, j \in Depth :
        /\ i < j
        /\ stack[i].doing \in Native
        /\ stack[j].doing \in Native
        /\ stack[i].parser = stack[j].parser
        /\ stack[i].call # stack[j].call
        => stack[i].call \in disturbed /\ output[stack[i].parser] # stack[i].call

StackInv ==
    /\ TypeOK
    /\ HomeComesFirst
    /\ CallsBegin
    /\ OneParser
    /\ FramesRun
    /\ ReadsPointNowhere
    /\ LeavingDisturbs
    /\ ContextFollowsParse
    /\ EndedContextsPointNowhere
    /\ ParsedAsAsked

(* The same without the types. *)
StackLinks ==
    /\ HomeComesFirst /\ CallsBegin /\ OneParser /\ FramesRun /\ ReadsPointNowhere
    /\ LeavingDisturbs /\ ContextFollowsParse /\ EndedContextsPointNowhere /\ ParsedAsAsked

(* Undisturbed calls have what was produced for them ... *)
ResultsComplete ==
    \A k \in Calls \ disturbed :
        status[k] \in {"running", "returned"} => result[k] = produced[k]

(* ... and no call, before it fails or is given to the cache of files, anything   *)
(* that was meant for another.                                                    *)
ResultsOwn ==
    \A k \in Calls : status[k] \notin {"failed", "exported"} =>
        \A i \in 1 .. Len(result[k]) : result[k][i].of = k

TextsInv == ResultsComplete /\ ResultsOwn

ParserInv == StackInv /\ TextsInv

-------------------------------------------------------------------------------
(* The stack. *)

LEMMA SequenceLength ==
    ASSUME NEW S, NEW s \in Seq(S), s # <<>>
    PROVE  /\ Len(s) \in Nat \ {0}
           /\ s[Len(s)] \in S
  OBVIOUS

LEMMA SequenceFront ==
    ASSUME NEW S, NEW s \in Seq(S), s # <<>>
    PROVE  /\ SubSeq(s, 1, Len(s) - 1) \in Seq(S)
           /\ Len(SubSeq(s, 1, Len(s) - 1)) = Len(s) - 1
           /\ \A i \in 1 .. Len(s) - 1 : SubSeq(s, 1, Len(s) - 1)[i] = s[i]
  <1>1. Len(s) \in Nat \ {0}
    BY SequenceLength
  <1>2. \A i \in 1 .. Len(s) - 1 : s[i] \in S
    BY <1>1
  <1>3. /\ SubSeq(s, 1, Len(s) - 1) \in Seq(S)
        /\ Len(SubSeq(s, 1, Len(s) - 1))
               = IF 1 <= Len(s) - 1 THEN (Len(s) - 1) - 1 + 1 ELSE 0
        /\ \A i \in 1 .. (Len(s) - 1) - 1 + 1 :
               SubSeq(s, 1, Len(s) - 1)[i] = s[1 + i - 1]
    <2>1. 1 \in Int /\ Len(s) - 1 \in Int
      BY <1>1
    <2> QED
      BY <1>2, <2>1, SubSeqProperties
  <1>4. (Len(s) - 1) - 1 + 1 = Len(s) - 1
    BY <1>1
  <1> QED
    BY <1>1, <1>3, <1>4

LEMMA TopType ==
    ASSUME TypeOK, stack # <<>>
    PROVE  /\ Len(stack) \in Nat \ {0}
           /\ Top \in Frames
           /\ Top = stack[Len(stack)]
  <1>1. stack \in Seq(Frames)
    BY DEF TypeOK
  <1> QED
    BY <1>1, SequenceLength DEF Top

LEMMA PushType ==
    ASSUME TypeOK, NEW f \in Frames, stack' = Append(stack, f)
    PROVE  /\ stack' \in Seq(Frames)
           /\ Len(stack) \in Nat
           /\ Len(stack') = Len(stack) + 1
           /\ stack'[Len(stack) + 1] = f
           /\ \A i \in Depth : stack'[i] = stack[i]
  BY DEF TypeOK, Depth

LEMMA PopType ==
    ASSUME TypeOK, stack # <<>>, stack' = Rest
    PROVE  /\ stack' \in Seq(Frames)
           /\ Len(stack') = Len(stack) - 1
           /\ \A i \in 1 .. Len(stack) - 1 : stack'[i] = stack[i]
  <1>1. stack \in Seq(Frames)
    BY DEF TypeOK
  <1> QED
    BY <1>1, SequenceFront DEF Rest

LEMMA ReplaceType ==
    ASSUME TypeOK, stack # <<>>, NEW f \in Frames, stack' = Append(Rest, f)
    PROVE  /\ stack' \in Seq(Frames)
           /\ Len(stack') = Len(stack)
           /\ stack'[Len(stack)] = f
           /\ \A i \in 1 .. Len(stack) - 1 : stack'[i] = stack[i]
  <1>1. /\ Rest \in Seq(Frames) /\ Len(Rest) = Len(stack) - 1
        /\ \A i \in 1 .. Len(stack) - 1 : Rest[i] = stack[i]
    BY SequenceFront DEF TypeOK, Rest
  <1>2. Len(stack) \in Nat \ {0}
    BY TopType
  <1> QED
    BY <1>1, <1>2

LEMMA FrameType ==
    ASSUME TypeOK, NEW i \in Depth
    PROVE  /\ stack[i] \in Frames
           /\ stack[i].call \in Calls
           /\ stack[i].parser \in Parsers
           /\ stack[i].asked \in Flags
  <1>1. stack[i] \in Frames
    BY DEF TypeOK, Depth
  <1> QED
    BY <1>1 DEF Frames

LEMMA NumberTypes ==
    ASSUME TypeOK
    PROVE  /\ calls \in Nat
           /\ \A q \in Parsers : output[q] \in Nat
           /\ \A i \in Depth : stack[i].call \in Nat
  <1>1. \A i \in Depth : stack[i].call \in Nat
    BY FrameType DEF Calls
  <1>2. \A q \in Parsers : output[q] \in Nat
    BY DEF TypeOK, Calls, NoCall
  <1>3. calls \in Nat
    BY DEF TypeOK
  <1> QED
    BY <1>1, <1>2, <1>3

LEMMA ParserInit == Init => ParserInv
  BY DEF Init, ParserInv, StackInv, TypeOK, HomeComesFirst, CallsBegin, OneParser,
     FramesRun, ReadsPointNowhere, LeavingDisturbs, ContextFollowsParse,
     EndedContextsPointNowhere, ParsedAsAsked, TextsInv, ResultsComplete, ResultsOwn,
     Depth, Parsing,
     Flags, NoFlags, NoCall, Calls

-------------------------------------------------------------------------------
(* One lemma for each way a step changes the stack and what belongs to it. *)

linkVars == <<output, flags, callVars, stack>>

(* Texts change, or a parser is constructed. *)
LEMMA QuietLinks ==
    ASSUME StackInv, UNCHANGED linkVars,
           \A k \in Calls : k > calls => result'[k] = produced'[k]
    PROVE  StackLinks'
  BY DEF StackInv, StackLinks, linkVars, callVars, HomeComesFirst, CallsBegin, OneParser,
     FramesRun, ReadsPointNowhere, LeavingDisturbs, ContextFollowsParse,
     EndedContextsPointNowhere, ParsedAsAsked, Depth, Parsing

(* A handler or an import returns. *)
LEMMA PopLinks ==
    ASSUME StackInv, stack # <<>>, stack' = Rest, Top.doing \notin Home,
           UNCHANGED <<output, flags, callVars>>,
           \A k \in Calls : k > calls => result'[k] = produced'[k]
    PROVE  StackLinks'
  <1> DEFINE n == Len(stack)
  <1>1. /\ n \in Nat \ {0} /\ Len(stack') = n - 1
        /\ \A i \in 1 .. n - 1 : stack'[i] = stack[i]
    BY PopType, TopType DEF StackInv
  <1>2. Top = stack[n]
    BY TopType DEF StackInv
  <1> HIDE DEF n
  <1>3. HomeComesFirst' /\ FramesRun' /\ LeavingDisturbs'
    BY <1>1 DEF StackInv, HomeComesFirst, FramesRun, LeavingDisturbs, Depth, callVars, n
  <1>4. CallsBegin' /\ OneParser' /\ ReadsPointNowhere'
    BY <1>1 DEF StackInv, CallsBegin, OneParser, ReadsPointNowhere, Depth, callVars, n
  <1>5. ContextFollowsParse' /\ ParsedAsAsked'
    BY <1>1 DEF StackInv, ContextFollowsParse, ParsedAsAsked, callVars, n
  <1>6. EndedContextsPointNowhere'
    BY <1>1, <1>2 DEF StackInv, EndedContextsPointNowhere, Parsing, Home, callVars, n
  <1> QED
    BY <1>3, <1>4, <1>5, <1>6 DEF StackLinks

(* A handler or an import is called: the frame belongs to a call that has begun. *)
LEMMA PushLinks ==
    ASSUME StackInv, NEW f \in Frames, stack' = Append(stack, f),
           f.doing \notin Home, f.call <= calls, status[f.call] # "returned",
           f.doing \in Native => output[f.parser] = f.call,
           \A i \in Depth : stack[i].call = f.call =>
                stack[i].doing # "reads" /\ stack[i].parser = f.parser,
           \A p \in Parsers : output[p] = f.call => f.parser = p,
           UNCHANGED <<output, flags, callVars, textVars>>
    PROVE  StackLinks'
  <1> DEFINE n == Len(stack)
  <1>1. /\ n \in Nat /\ Len(stack') = n + 1 /\ stack'[n + 1] = f
        /\ \A i \in Depth : stack'[i] = stack[i]
    BY PushType DEF StackInv
  <1>2. Depth = 1 .. n /\ Depth' = 1 .. n + 1
    BY <1>1 DEF Depth
  <1> HIDE DEF n
  <1>3. HomeComesFirst'
    BY <1>1, <1>2 DEF StackInv, HomeComesFirst, Home
  <1>4. CallsBegin' /\ FramesRun'
    BY <1>1, <1>2 DEF StackInv, CallsBegin, FramesRun, callVars, textVars
  <1>5. OneParser'
    BY <1>1, <1>2 DEF StackInv, OneParser, callVars
  <1>6. ReadsPointNowhere'
    BY <1>1, <1>2 DEF StackInv, ReadsPointNowhere, Home
  <1>7. ContextFollowsParse'
    BY <1>1, <1>2 DEF StackInv, ContextFollowsParse, Depth, callVars
  <1>8. ParsedAsAsked'
    BY <1>1, <1>2 DEF StackInv, ParsedAsAsked, Depth, callVars, Home, Parses
  <1>9. LeavingDisturbs'
    BY <1>1, <1>2 DEF StackInv, LeavingDisturbs, ContextFollowsParse, Depth, callVars
  <1>10. EndedContextsPointNowhere'
    BY <1>1, <1>2 DEF StackInv, EndedContextsPointNowhere, Parsing, Depth, callVars
  <1> QED
    BY <1>3, <1>4, <1>5, <1>6, <1>7, <1>8, <1>9, <1>10 DEF StackLinks

LEMMA CallHandlerLinks ==
    ASSUME StackInv, CallHandler
    PROVE  StackLinks'
  <1> DEFINE n == Len(stack)
             f == [Top EXCEPT !.doing = "handles"]
  <1>1. stack # <<>> /\ Top.doing \in Native /\ stack' = Append(stack, f)
    BY DEF CallHandler, NativeRuns, Push
  <1>2. n \in Depth /\ Top = stack[n] /\ Top \in Frames
    BY <1>1, TopType DEF StackInv, Depth
  <1>3. /\ f \in Frames /\ f.doing = "handles"
        /\ f.call = stack[n].call /\ f.parser = stack[n].parser
    BY <1>2 DEF Frames
  <1>4. f.doing \notin Home \union Native
    BY <1>3 DEF Home, Native, Parses
  <1>5. stack[n].doing # "reads"
    BY <1>1, <1>2 DEF Native, Parses
  <1> HIDE DEF n, f
  <1>6. f.call <= calls /\ status[f.call] # "returned"
    BY <1>2, <1>3 DEF StackInv, CallsBegin, FramesRun
  <1>7. \A i \in Depth : stack[i].call = f.call =>
            stack[i].doing # "reads" /\ stack[i].parser = f.parser
    BY <1>2, <1>3, <1>5 DEF StackInv, HomeComesFirst, OneParser, Home
  <1>8. \A p \in Parsers : output[p] = f.call => f.parser = p
    BY <1>2, <1>3 DEF StackInv, OneParser
  <1>9. UNCHANGED <<output, flags, callVars, textVars>>
    BY DEF CallHandler
  <1> QED
    BY <1>1, <1>3, <1>4, <1>6, <1>7, <1>8, <1>9, PushLinks

LEMMA ImportLinks ==
    ASSUME StackInv, NEW p \in Parsers, import(p)
    PROVE  StackLinks'
  <1> DEFINE f == [doing |-> "imports", call |-> output[p], parser |-> p, asked |-> NoFlags]
  <1>1. output[p] \in Calls
    BY DEF StackInv, TypeOK, import
  <1>2. /\ f \in Frames /\ f.doing = "imports" /\ f.doing \notin Home
        /\ f.call = output[p] /\ f.parser = p
    BY <1>1 DEF Frames, Native, NoFlags, Flags, Home, Parses
  <1>3. stack' = Append(stack, f) /\ output[p] # NoCall
        /\ UNCHANGED <<output, flags, callVars, textVars>>
    BY DEF import, Push
  <1> HIDE DEF f
  <1>4. f.call <= calls
    BY <1>2 DEF StackInv, CallsBegin
  <1>5. status[f.call] # "returned"
    <2>1. CASE status[f.call] \in {"failed", "exported"}
      BY <2>1
    <2>2. CASE \E i \in Parsing(p) : stack[i].doing \in Parses /\ stack[i].call = f.call
      BY <2>2 DEF StackInv, FramesRun, Parsing, Depth
    <2> QED
      BY <1>2, <1>3, <2>1, <2>2 DEF StackInv, EndedContextsPointNowhere
  <1>6. \A i \in Depth : stack[i].call = f.call =>
            stack[i].doing # "reads" /\ stack[i].parser = f.parser
    BY <1>2 DEF StackInv, ReadsPointNowhere, OneParser
  <1>7. \A q \in Parsers : output[q] = f.call => f.parser = q
    BY <1>2, <1>3 DEF StackInv, OneParser
  <1> QED
    BY <1>2, <1>3, <1>4, <1>5, <1>6, <1>7, PushLinks

LEMMA FromFileLinks ==
    ASSUME StackInv, NEW p \in Parsers, NEW asked \in Flags, FromFile(p, asked)
    PROVE  StackLinks'
  <1> DEFINE n == Len(stack)
             k == calls + 1
             f == [doing |-> "reads", call |-> k, parser |-> p, asked |-> asked]
  <1>1. /\ k \in Calls /\ stack' = Append(stack, f) /\ calls' = k /\ calls \in Nat
        /\ status' = [status EXCEPT ![k] = "running"]
        /\ UNCHANGED <<output, flags, disturbed, textVars>>
    BY DEF FromFile, NewCall, Push, StackInv, TypeOK, Calls
  <1>2. /\ f \in Frames /\ f.doing = "reads" /\ f.doing \notin Native \union Parses
        /\ f.call = k /\ f.parser = p
    BY <1>1 DEF Frames, Native, Parses
  <1> HIDE DEF f
  <1>3. /\ n \in Nat /\ Len(stack') = n + 1 /\ stack'[n + 1] = f
        /\ \A i \in Depth : stack'[i] = stack[i]
    BY <1>1, <1>2, PushType DEF StackInv
  <1>4. Depth = 1 .. n /\ Depth' = 1 .. n + 1
    BY <1>3 DEF Depth
  <1>5. \A i \in Depth : stack[i].call \in Calls /\ stack[i].call # k
    BY <1>1, FrameType DEF StackInv, CallsBegin, Calls
  <1>6. \A q \in Parsers : output[q] # k
    BY <1>1 DEF StackInv, CallsBegin, TypeOK, Calls, NoCall
  <1>7. \A j \in Calls : status'[j] = IF j = k THEN "running" ELSE status[j]
    BY <1>1 DEF StackInv, TypeOK
  <1> HIDE DEF n, k
  <1>8. HomeComesFirst' /\ ReadsPointNowhere'
    BY <1>1, <1>2, <1>3, <1>4, <1>5, <1>6 DEF StackInv, HomeComesFirst, ReadsPointNowhere
  <1>9. OneParser'
    BY <1>1, <1>2, <1>3, <1>4, <1>5, <1>6 DEF StackInv, OneParser
  <1>10. FramesRun'
    BY <1>1, <1>2, <1>3, <1>4, <1>5, <1>7 DEF StackInv, FramesRun
  <1>11. CallsBegin'
    <2>1. \A i \in Depth' : stack'[i].call <= calls'
      BY <1>1, <1>2, <1>3, <1>4, <1>5 DEF StackInv, CallsBegin, k, Calls
    <2>2. \A q \in Parsers : output'[q] <= calls'
      <3>1. \A q \in Parsers : output[q] \in Nat /\ output[q] <= calls
        BY NumberTypes DEF StackInv, CallsBegin
      <3> QED
        BY <1>1, <3>1 DEF k
    <2>3. \A j \in Calls : j > calls' => /\ status'[j] = "none"
                                         /\ j \notin disturbed'
                                         /\ result'[j] = produced'[j]
      BY <1>1, <1>7 DEF StackInv, CallsBegin, k, Calls, textVars
    <2> QED
      BY <2>1, <2>2, <2>3 DEF CallsBegin
  <1>12. ContextFollowsParse' /\ ParsedAsAsked'
    <2>1. \A i \in Depth' : stack'[i].doing \in Native \union Parses
              => i \in Depth /\ stack'[i] = stack[i]
      BY <1>2, <1>3, <1>4
    <2>2. ContextFollowsParse'
      BY <1>1, <2>1 DEF StackInv, ContextFollowsParse, Depth
    <2>3. \A i \in Depth : stack[i].call \notin disturbed =>
              /\ stack[i].doing = "parsesFile" => flags[stack[i].parser] = stack[i].asked
              /\ stack[i].doing = "parsesString"
                     => flags[stack[i].parser].markdown = stack[i].asked.markdown
      BY DEF StackInv, ParsedAsAsked, Depth
    <2>4. \A i \in Depth' : stack'[i].call \notin disturbed' =>
              /\ stack'[i].doing = "parsesFile" => flags'[stack'[i].parser] = stack'[i].asked
              /\ stack'[i].doing = "parsesString"
                     => flags'[stack'[i].parser].markdown = stack'[i].asked.markdown
      BY <1>1, <2>1, <2>3 DEF Parses
    <2>5. ParsedAsAsked'
      BY <2>4 DEF ParsedAsAsked, Depth
    <2> QED
      BY <2>2, <2>5
  <1>13. LeavingDisturbs'
    <2>1. \A i \in Depth' : stack'[i].doing \in Native => i \in Depth /\ stack'[i] = stack[i]
      BY <1>2, <1>3, <1>4
    <2> QED
      BY <1>1, <2>1 DEF StackInv, LeavingDisturbs
  <1>14. EndedContextsPointNowhere'
    <2> SUFFICES ASSUME NEW q \in Parsers, output[q] # NoCall
                 PROVE  \/ status'[output[q]] \in {"failed", "exported"}
                        \/ \E i \in Parsing(q)' : /\ stack'[i].doing \in Parses
                                                  /\ stack'[i].call = output[q]
      BY <1>1 DEF EndedContextsPointNowhere
    <2>1. output[q] \in Calls /\ output[q] # k
      BY <1>6 DEF StackInv, TypeOK
    <2>2. CASE status[output[q]] \in {"failed", "exported"}
      BY <1>7, <2>1, <2>2
    <2>3. CASE \E i \in Parsing(q) : stack[i].doing \in Parses /\ stack[i].call = output[q]
      BY <1>3, <1>4, <2>3 DEF Parsing, Depth
    <2> QED
      BY <2>2, <2>3 DEF StackInv, EndedContextsPointNowhere
  <1> QED
    BY <1>8, <1>9, <1>10, <1>11, <1>12, <1>13, <1>14 DEF StackLinks

(* A parse begins: the new top frame is of a call no context points to yet, and the *)
(* context of its parser is set up for it.                                          *)
LEMMA SetFlagsDisturbs ==
    ASSUME StackInv, NEW p \in Parsers, NEW asked \in Flags, SetFlags(p, asked)
    PROVE  /\ \A q \in Parsers : flags'[q] = IF q = p THEN asked ELSE flags[q]
           /\ \A i \in Depth : stack[i].doing \in Native /\ stack[i].parser = p
                  => stack[i].call \in disturbed'
           /\ disturbed \subseteq disturbed'
           /\ \A j \in Calls : j > calls /\ j \notin disturbed => j \notin disturbed'
  <1>1. \A q \in Parsers : flags'[q] = IF q = p THEN asked ELSE flags[q]
    BY DEF SetFlags, StackInv, TypeOK
  <1>2. disturbed' = disturbed \union {stack[i].call : i \in Parsing(p)}
    BY DEF SetFlags
  <1>3. \A i \in Depth : stack[i].doing \in Native /\ stack[i].parser = p
            => stack[i].call \in disturbed'
    BY <1>2 DEF Parsing, Depth
  <1>4. \A j \in Calls : j > calls /\ j \notin disturbed => j \notin disturbed'
    <2>1. \A i \in Depth : stack[i].call \in Nat /\ stack[i].call <= calls /\ calls \in Nat
      BY NumberTypes DEF StackInv, CallsBegin
    <2>2. \A j \in Calls, i \in Parsing(p) : j > calls => j # stack[i].call
      BY <2>1 DEF Parsing, Depth, Calls
    <2> QED
      BY <1>2, <2>2
  <1> QED
    BY <1>1, <1>2, <1>3, <1>4

LEMMA FromStringLinks ==
    ASSUME StackInv, NEW p \in Parsers, NEW markdown \in BOOLEAN, FromString(p, markdown)
    PROVE  StackLinks'
  <1> DEFINE n == Len(stack)
             k == calls + 1
             asked == [flags[p] EXCEPT !.markdown = markdown]
             f == [doing |-> "parsesString", call |-> k, parser |-> p, asked |-> asked]
  <1>1. /\ k \in Calls /\ stack' = Append(stack, f) /\ calls' = k /\ calls \in Nat
        /\ status' = [status EXCEPT ![k] = "running"]
        /\ output' = [output EXCEPT ![p] = k]
        /\ SetFlags(p, asked)
        /\ UNCHANGED textVars
    BY DEF FromString, NewCall, Push, PointsInto, StackInv, TypeOK, Calls
  <1>2. asked \in Flags
    BY DEF StackInv, TypeOK, Flags
  <1> HIDE DEF asked
  <1>3. /\ f \in Frames /\ f.doing = "parsesString"
        /\ f.call = k /\ f.parser = p /\ f.asked = asked
    BY <1>1, <1>2 DEF Frames, Native, Parses
  <1> HIDE DEF f
  <1>4. /\ n \in Nat /\ Len(stack') = n + 1 /\ stack'[n + 1] = f
        /\ \A i \in Depth : stack'[i] = stack[i]
    BY <1>1, <1>3, PushType DEF StackInv
  <1>5. Depth = 1 .. n /\ Depth' = 1 .. n + 1
    BY <1>4 DEF Depth
  <1>6. \A i \in Depth : stack[i].call \in Calls /\ stack[i].call # k
    BY <1>1, FrameType DEF StackInv, CallsBegin, Calls
  <1>7. \A q \in Parsers : output[q] # k
    BY <1>1 DEF StackInv, CallsBegin, TypeOK, Calls, NoCall
  <1>8. \A j \in Calls : status'[j] = IF j = k THEN "running" ELSE status[j]
    BY <1>1 DEF StackInv, TypeOK
  <1>9. \A q \in Parsers : output'[q] = IF q = p THEN k ELSE output[q]
    BY <1>1 DEF StackInv, TypeOK
  <1>10. /\ \A q \in Parsers : flags'[q] = IF q = p THEN asked ELSE flags[q]
         /\ \A i \in Depth : stack[i].doing \in Native /\ stack[i].parser = p
                => stack[i].call \in disturbed'
         /\ disturbed \subseteq disturbed'
         /\ \A j \in Calls : j > calls /\ j \notin disturbed => j \notin disturbed'
    BY <1>1, <1>2, SetFlagsDisturbs
  <1>11. f.doing \in Home /\ f.doing \in Native /\ f.doing \in Parses /\ f.doing # "reads"
    BY <1>3 DEF Home, Native, Parses
  <1>12. k # NoCall
    BY <1>1 DEF Calls, NoCall
  <1> HIDE DEF n, k
  <1>13. HomeComesFirst' /\ ReadsPointNowhere'
    BY <1>3, <1>4, <1>5, <1>6, <1>9, <1>11 DEF StackInv, HomeComesFirst, ReadsPointNowhere
  <1>14. OneParser'
    BY <1>3, <1>4, <1>5, <1>6, <1>7, <1>9 DEF StackInv, OneParser
  <1>15. FramesRun'
    BY <1>1, <1>3, <1>4, <1>5, <1>6, <1>8 DEF StackInv, FramesRun
  <1>16. CallsBegin'
    <2>1. \A i \in Depth' : stack'[i].call <= calls'
      BY <1>1, <1>3, <1>4, <1>5, <1>6 DEF StackInv, CallsBegin, k, Calls
    <2>2. \A q \in Parsers : output'[q] <= calls'
      <3>1. \A q \in Parsers : output[q] \in Nat /\ output[q] <= calls
        BY NumberTypes DEF StackInv, CallsBegin
      <3> QED
        BY <1>1, <1>9, <3>1 DEF k
    <2>3. \A j \in Calls : j > calls' => /\ status'[j] = "none"
                                         /\ j \notin disturbed'
                                         /\ result'[j] = produced'[j]
      <3>1. \A j \in Calls : j > calls' => j > calls /\ j # k
        BY <1>1 DEF k, Calls
      <3> QED
        BY <1>1, <1>8, <1>10, <3>1 DEF StackInv, CallsBegin, textVars
    <2> QED
      BY <2>1, <2>2, <2>3 DEF CallsBegin
  <1>17. ContextFollowsParse'
    BY <1>3, <1>4, <1>5, <1>9, <1>10, FrameType DEF StackInv, ContextFollowsParse, Depth
  <1>18. ParsedAsAsked'
    BY <1>3, <1>4, <1>5, <1>10, FrameType DEF StackInv, ParsedAsAsked, Depth, Native, Parses
  <1>19. LeavingDisturbs'
    <2> SUFFICES ASSUME NEW i \in Depth', NEW j \in Depth', i < j,
                        stack'[i].doing \in Native, stack'[j].doing \in Native,
                        stack'[i].parser = stack'[j].parser,
                        stack'[i].call # stack'[j].call
                 PROVE  /\ stack'[i].call \in disturbed'
                        /\ output'[stack'[i].parser] # stack'[i].call
      BY DEF LeavingDisturbs
    <2>1. i \in Depth /\ stack'[i] = stack[i] /\ stack[i].parser \in Parsers
      BY <1>4, <1>5, FrameType DEF StackInv
    <2>2. CASE j \in Depth
      <3>1. /\ stack[i].call \in disturbed
            /\ output[stack[i].parser] # stack[i].call
        BY <1>4, <2>1, <2>2 DEF StackInv, LeavingDisturbs
      <3> QED
        BY <1>6, <1>9, <1>10, <2>1, <3>1
    <2>3. CASE j \notin Depth
      <3>1. stack'[j] = f
        BY <1>4, <1>5, <2>3
      <3> QED
        BY <1>3, <1>6, <1>9, <1>10, <2>1, <3>1
    <2> QED
      BY <2>2, <2>3
  <1>20. EndedContextsPointNowhere'
    <2> SUFFICES ASSUME NEW q \in Parsers, output'[q] # NoCall
                 PROVE  \/ status'[output'[q]] \in {"failed", "exported"}
                        \/ \E i \in Parsing(q)' : /\ stack'[i].doing \in Parses
                                                  /\ stack'[i].call = output'[q]
      BY DEF EndedContextsPointNowhere
    <2>1. CASE q = p
      <3>1. n + 1 \in Parsing(q)'
        BY <1>3, <1>4, <1>11, <2>1 DEF Parsing
      <3> QED
        BY <1>3, <1>4, <1>9, <1>11, <2>1, <3>1
    <2>2. CASE q # p
      <3>1. output'[q] = output[q] /\ output[q] \in Calls /\ output[q] # k
        BY <1>7, <1>9, <2>2 DEF StackInv, TypeOK
      <3>2. CASE status[output[q]] \in {"failed", "exported"}
        BY <1>8, <3>1, <3>2
      <3>3. CASE \E i \in Parsing(q) : stack[i].doing \in Parses /\ stack[i].call = output[q]
        BY <1>4, <1>5, <3>1, <3>3 DEF Parsing, Depth
      <3> QED
        BY <3>1, <3>2, <3>3 DEF StackInv, EndedContextsPointNowhere
    <2> QED
      BY <2>1, <2>2
  <1> QED
    BY <1>13, <1>14, <1>15, <1>16, <1>17, <1>18, <1>19, <1>20 DEF StackLinks

(* What a fromFile reads is about to be parsed, or skipped: no other frame is of its *)
(* call.                                                                             *)
LEMMA ReadsAlone ==
    ASSUME StackInv, HasRead
    PROVE  /\ Len(stack) \in Nat \ {0}
           /\ Top = stack[Len(stack)]
           /\ Top \in Frames
           /\ Top.call \in Calls
           /\ Top.parser \in Parsers
           /\ Top.asked \in Flags
           /\ Top.call <= calls
           /\ status[Top.call] = "running"
           /\ \A i \in 1 .. Len(stack) - 1 : i \in Depth /\ stack[i].call # Top.call
           /\ \A q \in Parsers : output[q] # Top.call
  <1> DEFINE n == Len(stack)
  <1>1. n \in Nat \ {0} /\ Top = stack[n] /\ Top \in Frames /\ Top.doing = "reads"
    BY TopType DEF HasRead, StackInv
  <1>2. n \in Depth /\ \A i \in 1 .. n - 1 : i \in Depth /\ ~ (n <= i)
    BY <1>1 DEF Depth
  <1> HIDE DEF n
  <1>3. Top.call \in Calls /\ Top.parser \in Parsers /\ Top.asked \in Flags
    BY <1>1 DEF Frames
  <1>4. \A i \in 1 .. n - 1 : i \in Depth /\ stack[i].call # Top.call
    BY <1>1, <1>2 DEF StackInv, HomeComesFirst, Home
  <1>5. Top.call <= calls /\ status[Top.call] = "running"
    BY <1>1, <1>2 DEF StackInv, CallsBegin, FramesRun, Home
  <1>6. \A q \in Parsers : output[q] # Top.call
    BY <1>1, <1>2 DEF StackInv, ReadsPointNowhere
  <1> QED
    BY <1>1, <1>3, <1>4, <1>5, <1>6 DEF n

LEMMA StartFileLinks ==
    ASSUME StackInv, StartFile
    PROVE  StackLinks'
  <1> DEFINE n == Len(stack)
             k == Top.call
             p == Top.parser
             asked == Top.asked
             f == [Top EXCEPT !.doing = "parsesFile"]
  <1>1. /\ HasRead /\ stack # <<>> /\ Top.doing = "reads"
        /\ stack' = Append(Rest, f)
        /\ output' = [output EXCEPT ![p] = k]
        /\ SetFlags(p, asked)
        /\ UNCHANGED <<calls, status, textVars>>
    BY DEF StartFile, HasRead, PointsInto
  <1>2. /\ n \in Nat \ {0} /\ Top = stack[n] /\ Top \in Frames
        /\ k \in Calls /\ p \in Parsers /\ asked \in Flags
        /\ k <= calls /\ status[k] = "running"
        /\ \A i \in 1 .. n - 1 : i \in Depth /\ stack[i].call # k
        /\ \A q \in Parsers : output[q] # k
    BY <1>1, ReadsAlone
  <1>3. /\ f \in Frames /\ f.doing = "parsesFile"
        /\ f.call = k /\ f.parser = p /\ f.asked = asked
    BY <1>2 DEF Frames, Native, Parses
  <1> HIDE DEF f
  <1>4. /\ Len(stack') = n /\ stack'[n] = f
        /\ \A i \in 1 .. n - 1 : stack'[i] = stack[i]
    BY <1>1, <1>3, ReplaceType DEF StackInv
  <1>5. /\ Depth' = Depth /\ n \in Depth
        /\ \A i \in Depth : i \in Nat /\ i <= n
        /\ \A i \in Depth : i # n => /\ stack'[i] = stack[i]
                                     /\ stack[i].call # k
                                     /\ ~ (n < i)
    BY <1>2, <1>4 DEF Depth
  <1>6. \A q \in Parsers : output'[q] = IF q = p THEN k ELSE output[q]
    BY <1>1 DEF StackInv, TypeOK
  <1>7. /\ \A q \in Parsers : flags'[q] = IF q = p THEN asked ELSE flags[q]
        /\ \A i \in Depth : stack[i].doing \in Native /\ stack[i].parser = p
               => stack[i].call \in disturbed'
        /\ disturbed \subseteq disturbed'
        /\ \A j \in Calls : j > calls /\ j \notin disturbed => j \notin disturbed'
    BY <1>1, <1>2, SetFlagsDisturbs
  <1>8. /\ f.doing \in Home /\ f.doing \in Native /\ f.doing \in Parses /\ f.doing # "reads"
        /\ Top.doing \notin Native /\ Top.doing \in Home
    BY <1>1, <1>3 DEF Home, Native, Parses
  <1>9. k # NoCall
    BY <1>2 DEF Calls, NoCall
  <1> HIDE DEF n, k, p, asked
  <1>10. /\ \A i \in Depth : /\ stack'[i].call = stack[i].call
                             /\ stack'[i].parser = stack[i].parser
                             /\ stack'[i].doing \in Home <=> stack[i].doing \in Home
                             /\ stack'[i].doing = "reads" => stack[i].doing = "reads" /\ i # n
         /\ \A i \in Depth : stack[i].call = k => i = n
    <2>1. /\ stack'[n].call = stack[n].call /\ stack[n].call = k
          /\ stack'[n].parser = stack[n].parser /\ stack[n].parser = p
          /\ stack'[n].doing \in Home /\ stack[n].doing \in Home
          /\ stack'[n].doing # "reads"
      BY <1>2, <1>3, <1>4, <1>8 DEF k, p
    <2> QED
      BY <1>5, <2>1
  <1>11. HomeComesFirst' /\ ReadsPointNowhere' /\ OneParser'
    <2>1. HomeComesFirst'
      <3> SUFFICES ASSUME NEW i \in Depth, NEW j \in Depth,
                          stack'[i].doing \in Home, stack'[i].call = stack'[j].call
                   PROVE  /\ i <= j
                          /\ stack'[j].doing \in Home \/ stack'[i].doing = "reads" => i = j
        BY <1>5 DEF HomeComesFirst
      <3> QED
        BY <1>5, <1>10 DEF StackInv, HomeComesFirst
    <2>2. ReadsPointNowhere'
      BY <1>3, <1>5, <1>6, <1>10 DEF StackInv, ReadsPointNowhere
    <2>3. OneParser'
      <3>1. \A i, j \in Depth' : stack'[i].call = stack'[j].call
                => stack'[i].parser = stack'[j].parser
        BY <1>5, <1>10 DEF StackInv, OneParser
      <3>2. \A i \in Depth', q \in Parsers : stack'[i].call = output'[q]
                => stack'[i].parser = q
        <4>1. \A i \in Depth, q \in Parsers : stack[i].call = output[q]
                  => stack[i].parser = q
          BY DEF StackInv, OneParser
        <4>2. stack[n].parser = p
          BY <1>2 DEF p
        <4> QED
          BY <1>5, <1>6, <1>10, <4>1, <4>2
      <3>3. \A q, r \in Parsers : output'[q] = output'[r] /\ output'[q] # NoCall => q = r
        BY <1>2, <1>6 DEF StackInv, OneParser
      <3> QED
        BY <3>1, <3>2, <3>3 DEF OneParser
    <2> QED
      BY <2>1, <2>2, <2>3
  <1>12. FramesRun'
    <2>1. \A i \in Depth : /\ stack[i].doing \in Home => status[stack[i].call] = "running"
                           /\ status[stack[i].call] # "returned"
      BY DEF StackInv, FramesRun
    <2>2. \A i \in Depth : /\ stack'[i].call = stack[i].call
                           /\ stack'[i].doing \in Home => stack[i].doing \in Home
      BY <1>10
    <2>3. Depth' = Depth /\ status' = status
      BY <1>1, <1>5
    <2> QED
      BY <2>1, <2>2, <2>3 DEF FramesRun
  <1>13. CallsBegin'
    <2>1. \A i \in Depth' : stack'[i].call <= calls'
      BY <1>1, <1>5, <1>10 DEF StackInv, CallsBegin
    <2>2. \A q \in Parsers : output'[q] <= calls'
      BY <1>1, <1>2, <1>6 DEF StackInv, CallsBegin
    <2>3. \A j \in Calls : j > calls' => /\ status'[j] = "none"
                                         /\ j \notin disturbed'
                                         /\ result'[j] = produced'[j]
      BY <1>1, <1>7 DEF StackInv, CallsBegin, textVars
    <2> QED
      BY <2>1, <2>2, <2>3 DEF CallsBegin
  <1>14. ContextFollowsParse'
    BY <1>2, <1>3, <1>4, <1>5, <1>6, <1>7, FrameType DEF StackInv, ContextFollowsParse, Depth
  <1>15. ParsedAsAsked'
    BY <1>2, <1>3, <1>4, <1>5, <1>7, FrameType DEF StackInv, ParsedAsAsked, Depth, Native,
       Parses
  <1>16. LeavingDisturbs'
    BY <1>2, <1>3, <1>4, <1>5, <1>6, <1>7, FrameType DEF StackInv, LeavingDisturbs, Depth
  <1>17. EndedContextsPointNowhere'
    <2> SUFFICES ASSUME NEW q \in Parsers, output'[q] # NoCall
                 PROVE  \/ status'[output'[q]] \in {"failed", "exported"}
                        \/ \E i \in Parsing(q)' : /\ stack'[i].doing \in Parses
                                                  /\ stack'[i].call = output'[q]
      BY DEF EndedContextsPointNowhere
    <2>1. CASE q = p
      <3>1. n \in Parsing(q)'
        BY <1>3, <1>4, <1>5, <1>8, <2>1 DEF Parsing, Depth
      <3> QED
        BY <1>3, <1>4, <1>6, <1>8, <2>1, <3>1
    <2>2. CASE q # p
      <3>1. output'[q] = output[q]
        BY <1>6, <2>2
      <3>2. CASE status[output[q]] \in {"failed", "exported"}
        BY <1>1, <3>1, <3>2
      <3>3. CASE \E i \in Parsing(q) : stack[i].doing \in Parses /\ stack[i].call = output[q]
        BY <1>2, <1>4, <1>5, <1>8, <3>1, <3>3 DEF Parsing, Depth
      <3> QED
        BY <3>1, <3>2, <3>3 DEF StackInv, EndedContextsPointNowhere
    <2> QED
      BY <2>1, <2>2
  <1> QED
    BY <1>11, <1>12, <1>13, <1>14, <1>15, <1>16, <1>17 DEF StackLinks

(* A call that began has ended: its first frame leaves, with what its parser points *)
(* to or without, and with the flags of a file that was not parsed.                 *)
LEMMA SkipFileLinks ==
    ASSUME StackInv, SkipFile
    PROVE  StackLinks'
  <1> DEFINE n == Len(stack)
             k == Top.call
             p == Top.parser
             asked == Top.asked
  <1>1. PICK how \in {"exported", "failed"} : status' = [status EXCEPT ![k] = how]
    BY DEF SkipFile, Finishes
  <1>2. /\ HasRead /\ stack # <<>> /\ Top.doing = "reads"
        /\ stack' = Rest
        /\ SetFlags(p, asked)
        /\ UNCHANGED <<output, calls, textVars>>
    BY DEF SkipFile, HasRead, Finishes, Pop
  <1>3. /\ n \in Nat \ {0} /\ Top = stack[n]
        /\ k \in Calls /\ p \in Parsers /\ asked \in Flags
        /\ k <= calls
        /\ \A i \in 1 .. n - 1 : i \in Depth /\ stack[i].call # k
        /\ \A q \in Parsers : output[q] # k
    BY <1>2, ReadsAlone
  <1>4. /\ Len(stack') = n - 1
        /\ \A i \in 1 .. n - 1 : stack'[i] = stack[i]
    BY <1>2, PopType DEF StackInv
  <1>5. /\ Depth = 1 .. n /\ Depth' = 1 .. n - 1
        /\ \A i \in 1 .. n : i \in 1 .. n - 1 \/ i = n
    BY <1>3, <1>4 DEF Depth
  <1>6. /\ \A q \in Parsers : flags'[q] = IF q = p THEN asked ELSE flags[q]
        /\ \A i \in Depth : stack[i].doing \in Native /\ stack[i].parser = p
               => stack[i].call \in disturbed'
        /\ disturbed \subseteq disturbed'
        /\ \A j \in Calls : j > calls /\ j \notin disturbed => j \notin disturbed'
    BY <1>2, <1>3, SetFlagsDisturbs
  <1>7. \A j \in Calls : status'[j] = IF j = k THEN how ELSE status[j]
    BY <1>1 DEF StackInv, TypeOK
  <1>8. Top.doing \notin Native
    BY <1>2 DEF Native, Parses
  <1>9. \A j \in Calls : j > calls => j # k
    BY <1>3, NumberTypes DEF StackInv, Calls
  <1> HIDE DEF n, k, p, asked
  <1>10. HomeComesFirst' /\ ReadsPointNowhere' /\ OneParser'
    BY <1>2, <1>3, <1>4, <1>5 DEF StackInv, HomeComesFirst, ReadsPointNowhere, OneParser
  <1>11. FramesRun'
    BY SMTT(30), <1>3, <1>4, <1>5, <1>7, FrameType DEF StackInv, FramesRun
  <1>12. CallsBegin'
    BY <1>2, <1>3, <1>4, <1>5, <1>6, <1>7, <1>9 DEF StackInv, CallsBegin, textVars
  <1>13. ContextFollowsParse'
    BY <1>2, <1>3, <1>4, <1>5, <1>6 DEF StackInv, ContextFollowsParse, Depth
  <1>14. ParsedAsAsked'
    BY <1>3, <1>4, <1>5, <1>6, FrameType DEF StackInv, ParsedAsAsked, Depth, Native, Parses
  <1>15. LeavingDisturbs'
    BY <1>2, <1>3, <1>4, <1>5, <1>6 DEF StackInv, LeavingDisturbs, Depth
  <1>16. EndedContextsPointNowhere'
    <2> SUFFICES ASSUME NEW q \in Parsers, output[q] # NoCall
                 PROVE  \/ status'[output[q]] \in {"failed", "exported"}
                        \/ \E i \in Parsing(q)' : /\ stack'[i].doing \in Parses
                                                  /\ stack'[i].call = output[q]
      BY <1>2 DEF EndedContextsPointNowhere
    <2>1. output[q] \in Calls /\ output[q] # k
      BY <1>3 DEF StackInv, TypeOK
    <2>2. CASE status[output[q]] \in {"failed", "exported"}
      BY <1>7, <2>1, <2>2
    <2>3. CASE \E i \in Parsing(q) : stack[i].doing \in Parses /\ stack[i].call = output[q]
      BY <1>3, <1>4, <1>5, <1>8, <2>3 DEF Parsing, Depth
    <2> QED
      BY <2>2, <2>3 DEF StackInv, EndedContextsPointNowhere
  <1> QED
    BY <1>10, <1>11, <1>12, <1>13, <1>14, <1>15, <1>16 DEF StackLinks

LEMMA FinishLinks ==
    ASSUME StackInv, stack # <<>>, Top.doing \in Parses,
           NEW how \in {"returned", "exported", "failed"},
           stack' = Rest, status' = [status EXCEPT ![Top.call] = how],
           \/ output' = [output EXCEPT ![Top.parser] = NoCall]
           \/ how # "returned" /\ output' = output,
           UNCHANGED <<flags, calls, disturbed, textVars>>
    PROVE  StackLinks'
  <1> DEFINE n == Len(stack)
             k == Top.call
             p == Top.parser
  <1>1. /\ stack # <<>> /\ Top.doing \in Parses
        /\ stack' = Rest
        /\ status' = [status EXCEPT ![k] = how]
        /\ UNCHANGED <<flags, calls, disturbed, textVars>>
    OBVIOUS
  <1>2. /\ n \in Nat \ {0} /\ Top = stack[n] /\ Top \in Frames
        /\ Top.doing \in Native /\ Top.doing \in Home
    BY <1>1, TopType DEF StackInv, Native, Home
  <1>3. k \in Calls /\ p \in Parsers /\ n \in Depth
    BY <1>2 DEF Frames, Depth
  <1>4. k <= calls /\ status[k] = "running"
    BY <1>2, <1>3 DEF StackInv, CallsBegin, FramesRun
  <1>5. /\ Len(stack') = n - 1
        /\ \A i \in 1 .. n - 1 : stack'[i] = stack[i]
    BY <1>1, PopType DEF StackInv
  <1>6. Depth' \subseteq Depth /\ \A i \in Depth' : i \in Depth /\ i < n /\ ~ (n <= i)
    BY <1>2, <1>5 DEF Depth
  <1>7. /\ \A i \in Depth' : stack'[i] = stack[i]
        /\ \A i \in Depth : i # n => i \in Depth'
    BY <1>2, <1>5 DEF Depth
  <1> HIDE DEF n
  <1>8. \A i \in Depth' : stack[i].call # k
    BY <1>2, <1>3, <1>6 DEF StackInv, HomeComesFirst
  <1>9. \A i \in Depth : stack[i].call \in Calls /\ stack[i].call # NoCall
    BY FrameType DEF StackInv, Calls, NoCall
  <1>10. \A j \in Calls : status'[j] = IF j = k THEN how ELSE status[j]
    BY <1>1 DEF StackInv, TypeOK
  <1>11. \A q \in Parsers : \/ output'[q] = output[q] /\ (how # "returned" \/ q # p)
                            \/ output'[q] = NoCall /\ q = p
    BY <1>3 DEF StackInv, TypeOK
  <1>12. \A q \in Parsers : output'[q] = output[q] \/ output'[q] = NoCall
    BY <1>11
  <1> HIDE DEF k, p
  <1>13. HomeComesFirst' /\ LeavingDisturbs'
    <2>1. HomeComesFirst'
      BY <1>1, <1>6, <1>7 DEF StackInv, HomeComesFirst
    <2>2. \A i \in Depth' : output[stack[i].parser] # stack[i].call
                               => output'[stack[i].parser] # stack[i].call
      BY <1>6, <1>9, <1>12, FrameType DEF StackInv
    <2>3. LeavingDisturbs'
      BY <1>1, <1>6, <1>7, <2>2 DEF StackInv, LeavingDisturbs
    <2> QED
      BY <2>1, <2>3
  <1>14. ReadsPointNowhere' /\ OneParser'
    BY <1>6, <1>7, <1>9, <1>12 DEF StackInv, ReadsPointNowhere, OneParser
  <1>15. FramesRun'
    BY <1>6, <1>7, <1>8, <1>9, <1>10 DEF StackInv, FramesRun
  <1>16. CallsBegin'
    <2>1. \A i \in Depth' : stack'[i].call <= calls'
      BY <1>1, <1>6, <1>7 DEF StackInv, CallsBegin
    <2>2. \A q \in Parsers : output'[q] <= calls'
      <3>1. NoCall <= calls
        BY NumberTypes DEF StackInv, NoCall
      <3> QED
        BY <1>1, <1>12, <3>1 DEF StackInv, CallsBegin
    <2>3. \A j \in Calls : j > calls => j # k
      BY <1>3, <1>4, NumberTypes DEF StackInv, Calls
    <2>4. \A j \in Calls : j > calls' => /\ status'[j] = "none"
                                         /\ j \notin disturbed'
                                         /\ result'[j] = produced'[j]
      BY <1>1, <1>10, <2>3 DEF StackInv, CallsBegin, textVars
    <2> QED
      BY <2>1, <2>2, <2>4 DEF CallsBegin
  <1>17. ContextFollowsParse'
    <2> SUFFICES ASSUME NEW i \in Depth', stack'[i].doing \in Native,
                        stack'[i].call \notin disturbed'
                 PROVE  output'[stack'[i].parser] = stack'[i].call
      BY DEF ContextFollowsParse, Depth
    <2>1. /\ i \in Depth /\ i < n /\ stack[i].doing \in Native
          /\ stack[i].call \notin disturbed /\ stack'[i] = stack[i]
      BY <1>1, <1>6, <1>7
    <2>2. stack[i].parser # p
      BY <1>2, <1>3, <1>8, <2>1 DEF StackInv, LeavingDisturbs, k, p
    <2>3. stack[i].parser \in Parsers
      BY <2>1, FrameType DEF StackInv
    <2>4. output[stack[i].parser] = stack[i].call
      BY <2>1 DEF StackInv, ContextFollowsParse, Depth
    <2> QED
      BY <1>11, <2>1, <2>2, <2>3, <2>4
  <1>18. ParsedAsAsked'
    BY <1>1, <1>6, <1>7 DEF StackInv, ParsedAsAsked, Depth
  <1>19. EndedContextsPointNowhere'
    <2> SUFFICES ASSUME NEW q \in Parsers, output'[q] # NoCall
                 PROVE  \/ status'[output'[q]] \in {"failed", "exported"}
                        \/ \E i \in Parsing(q)' : /\ stack'[i].doing \in Parses
                                                  /\ stack'[i].call = output'[q]
      BY DEF EndedContextsPointNowhere
    <2>1. output'[q] = output[q] /\ (how # "returned" \/ q # p) /\ output[q] \in Calls
      BY <1>11 DEF StackInv, TypeOK
    <2>2. CASE status[output[q]] \in {"failed", "exported"}
      BY <1>4, <1>10, <2>1, <2>2
    <2>3. CASE \E i \in Parsing(q) : stack[i].doing \in Parses /\ stack[i].call = output[q]
      <3>1. PICK i \in Depth : /\ stack[i].parser = q /\ stack[i].doing \in Native
                               /\ stack[i].doing \in Parses /\ stack[i].call = output[q]
        BY <2>3 DEF Parsing, Depth
      <3>2. CASE i = n
        <4>1. q = p /\ output[q] = k
          BY <1>2, <3>1, <3>2 DEF k, p
        <4> QED
          BY <1>10, <2>1, <4>1
      <3>3. CASE i # n
        <4>1. i \in Depth' /\ stack'[i] = stack[i]
          BY <1>7, <3>3
        <4>2. i \in Parsing(q)'
          BY <3>1, <4>1 DEF Parsing, Depth
        <4> QED
          BY <2>1, <3>1, <4>1, <4>2
      <3> QED
        BY <3>2, <3>3
    <2> QED
      BY <2>1, <2>2, <2>3 DEF StackInv, EndedContextsPointNowhere
  <1> QED
    BY <1>13, <1>14, <1>15, <1>16, <1>17, <1>18, <1>19 DEF StackLinks

-------------------------------------------------------------------------------
(* Texts. *)

(* The call of a parser that began last is there. *)
LEMMA GreatestExists ==
    ASSUME NEW n \in Nat, NEW S, S \subseteq 1 .. n, S # {}
    PROVE  \E m \in S : \A j \in S : j <= m
  <1> DEFINE T == {n - i : i \in S}
             R == OpToRel(<, Nat)
  <1>1. T \subseteq Nat /\ T # {}
    <2>1. \A i \in S : n - i \in Nat
      OBVIOUS
    <2>2. T \subseteq Nat
      BY <2>1
    <2>3. T # {}
      OBVIOUS
    <2> QED
      BY <2>2, <2>3
  <1>2. IsWellFoundedOn(R, Nat)
    BY NatLessThanWellFounded
  <1> HIDE DEF T
  <1>3. PICK x \in T : \A y \in T : <<y, x>> \notin R
    <2> HIDE DEF R
    <2> QED
      BY <1>1, <1>2, WFMin
  <1>4. \A y \in T : ~ (y < x)
    BY <1>1, <1>3 DEF OpToRel
  <1>5. PICK m \in S : x = n - m
    BY <1>3 DEF T
  <1>6. \A j \in S : n - j \in T
    BY DEF T
  <1>7. \A j \in S : ~ (n - j < n - m) /\ j \in 1 .. n /\ m \in 1 .. n
    BY <1>4, <1>5, <1>6
  <1>8. \A j \in S : j <= m
    BY <1>7
  <1> QED
    BY <1>8

LEMMA InnermostIsLast ==
    ASSUME TypeOK, NEW p \in Parsers, Parsing(p) # {}
    PROVE  \E m \in Depth : /\ stack[m].parser = p /\ stack[m].doing \in Native
                            /\ Innermost(p) = stack[m].call
                            /\ \A j \in Parsing(p) : j <= m
  <1> DEFINE last == CHOOSE i \in Parsing(p) : \A j \in Parsing(p) : j <= i
  <1>1. Len(stack) \in Nat
    BY DEF TypeOK
  <1>2. \E m \in Parsing(p) : \A j \in Parsing(p) : j <= m
    BY <1>1, GreatestExists DEF Parsing
  <1>3. last \in Parsing(p) /\ \A j \in Parsing(p) : j <= last
    BY <1>2
  <1>4. Innermost(p) = stack[last].call
    BY DEF Innermost
  <1> HIDE DEF last
  <1> QED
    BY <1>3, <1>4 DEF Parsing, Depth

(* What is written lands where it belongs, unless the call it belongs to is       *)
(* disturbed.                                                                     *)
LEMMA WritesLand ==
    ASSUME StackInv, NEW p \in Parsers, output[p] # NoCall,
           NEW k \in Calls \ disturbed, status[k] \in {"running", "returned"}
    PROVE  output[p] = k <=> Parsing(p) # {} /\ Innermost(p) = k
  <1>1. ASSUME output[p] = k
        PROVE  Parsing(p) # {} /\ Innermost(p) = k
    <2>1. PICK i \in Parsing(p) : stack[i].doing \in Parses /\ stack[i].call = k
      BY <1>1 DEF StackInv, EndedContextsPointNowhere
    <2>2. PICK m \in Depth : /\ stack[m].parser = p /\ stack[m].doing \in Native
                             /\ Innermost(p) = stack[m].call
                             /\ \A j \in Parsing(p) : j <= m
      BY <2>1, InnermostIsLast DEF StackInv
    <2>3. /\ i \in Depth /\ i <= m /\ (i = m \/ i < m)
          /\ stack[i].parser = p /\ stack[i].doing \in Native
      BY <2>1, <2>2 DEF Parsing, Depth
    <2>4. stack[m].call = k
      BY <2>1, <2>2, <2>3 DEF StackInv, LeavingDisturbs
    <2> QED
      BY <2>1, <2>2, <2>4
  <1>2. ASSUME Parsing(p) # {}, Innermost(p) = k
        PROVE  output[p] = k
    <2>1. PICK m \in Depth : /\ stack[m].parser = p /\ stack[m].doing \in Native
                             /\ Innermost(p) = stack[m].call
      BY <1>2, InnermostIsLast DEF StackInv
    <2> QED
      BY <1>2, <2>1 DEF StackInv, ContextFollowsParse, Depth
  <1> QED
    BY <1>1, <1>2

(* A result JavaScript can still write to, before its call has failed or been      *)
(* given to the cache of files, is that of the call its parser parses innermost.   *)
LEMMA OwnWritesLand ==
    ASSUME StackInv, NEW p \in Parsers, output[p] # NoCall,
           status[output[p]] \notin {"failed", "exported"}
    PROVE  Parsing(p) # {} /\ Innermost(p) = output[p]
  <1>1. PICK i \in Parsing(p) : stack[i].doing \in Parses /\ stack[i].call = output[p]
    BY DEF StackInv, EndedContextsPointNowhere
  <1>2. PICK m \in Depth : /\ stack[m].parser = p /\ stack[m].doing \in Native
                           /\ Innermost(p) = stack[m].call
                           /\ \A j \in Parsing(p) : j <= m
    BY <1>1, InnermostIsLast DEF StackInv
  <1>3. /\ i \in Depth /\ i <= m /\ (i = m \/ i < m)
        /\ stack[i].parser = p /\ stack[i].doing \in Native
    BY <1>1, <1>2 DEF Parsing, Depth
  <1>4. stack[m].call = output[p]
    BY <1>1, <1>2, <1>3 DEF StackInv, LeavingDisturbs
  <1> QED
    BY <1>1, <1>2, <1>4

LEMMA InnermostType ==
    ASSUME StackInv, NEW p \in Parsers, Parsing(p) # {}
    PROVE  Innermost(p) \in Calls /\ Innermost(p) <= calls
  BY InnermostIsLast, FrameType DEF StackInv, CallsBegin

(* One piece more. *)
OnlyFor(k, s) == \A i \in 1 .. Len(s) : s[i].of = k

LEMMA OneMore ==
    ASSUME NEW f \in [Calls -> Seq(Pieces)], NEW k \in Calls, NEW piece \in Pieces,
           NEW g, g = [f EXCEPT ![k] = Append(f[k], piece)]
    PROVE  /\ g \in [Calls -> Seq(Pieces)]
           /\ g[k] = Append(f[k], piece)
           /\ \A j \in Calls : j # k => g[j] = f[j]
           /\ OnlyFor(k, f[k]) /\ piece.of = k => OnlyFor(k, g[k])
  <1>1. f[k] \in Seq(Pieces) /\ Append(f[k], piece) \in Seq(Pieces)
    OBVIOUS
  <1>2. /\ g \in [Calls -> Seq(Pieces)]
        /\ g[k] = Append(f[k], piece)
        /\ \A j \in Calls : j # k => g[j] = f[j]
    BY <1>1
  <1>3. ASSUME OnlyFor(k, f[k]), piece.of = k
        PROVE  OnlyFor(k, g[k])
    <2>1. /\ Len(g[k]) = Len(f[k]) + 1 /\ Len(f[k]) \in Nat
          /\ g[k][Len(f[k]) + 1] = piece
          /\ \A i \in 1 .. Len(f[k]) : g[k][i] = f[k][i]
      BY <1>1, <1>2
    <2> SUFFICES ASSUME NEW i \in 1 .. Len(g[k])
                 PROVE  g[k][i].of = k
      BY DEF OnlyFor
    <2>2. i \in 1 .. Len(f[k]) \/ i = Len(f[k]) + 1
      BY <2>1
    <2> QED
      BY <1>3, <2>1, <2>2 DEF OnlyFor
  <1> QED
    BY <1>2, <1>3

LEMMA AppendsType ==
    ASSUME TypeOK, NEW k \in Calls, Appends(k)
    PROVE  /\ result' \in [Calls -> Seq(Pieces)] /\ produced' \in [Calls -> Seq(Pieces)]
           /\ \A j \in Calls : result[j] = produced[j] => result'[j] = produced'[j]
           /\ \A j \in Calls : OnlyFor(j, result[j]) => OnlyFor(j, result'[j])
  <1> DEFINE piece == Piece("appended", k)
  <1>1. piece \in Pieces /\ piece.of = k
    BY DEF Pieces, Piece
  <1>2. result \in [Calls -> Seq(Pieces)] /\ produced \in [Calls -> Seq(Pieces)]
    BY DEF TypeOK
  <1>3. result' = [result EXCEPT ![k] = Append(result[k], piece)]
    BY DEF Appends
  <1>4. produced' = [produced EXCEPT ![k] = Append(produced[k], piece)]
    BY DEF Appends
  <1> HIDE DEF piece
  <1>5. /\ result' \in [Calls -> Seq(Pieces)]
        /\ result'[k] = Append(result[k], piece)
        /\ \A j \in Calls : j # k => result'[j] = result[j]
        /\ OnlyFor(k, result[k]) /\ piece.of = k => OnlyFor(k, result'[k])
    <2>1. result \in [Calls -> Seq(Pieces)] /\ piece \in Pieces
      BY <1>1, <1>2
    <2> QED
      BY <1>3, <2>1, OneMore, ZenonT(60)
  <1>6. /\ produced' \in [Calls -> Seq(Pieces)]
        /\ produced'[k] = Append(produced[k], piece)
        /\ \A j \in Calls : j # k => produced'[j] = produced[j]
    BY <1>1, <1>2, <1>4, OneMore
  <1>7. \A j \in Calls : result[j] = produced[j] => result'[j] = produced'[j]
    BY <1>5, <1>6
  <1>8. \A j \in Calls : OnlyFor(j, result[j]) => OnlyFor(j, result'[j])
    BY <1>1, <1>5
  <1> QED
    BY <1>5, <1>6, <1>7, <1>8

LEMMA WriteTexts ==
    ASSUME StackInv, NEW p \in Parsers, write(p)
    PROVE  /\ result' \in [Calls -> Seq(Pieces)] /\ produced' \in [Calls -> Seq(Pieces)]
           /\ \A k \in Calls : k > calls => result'[k] = produced'[k]
           /\ \A k \in Calls \ disturbed :
                  status[k] \in {"running", "returned"} /\ result[k] = produced[k]
                      => result'[k] = produced'[k]
           /\ \A k \in Calls : status[k] \notin {"failed", "exported"} /\ OnlyFor(k, result[k])
                  => OnlyFor(k, result'[k])
  <1> DEFINE into == output[p]
             meantFor == IF Parsing(p) = {} THEN NoCall ELSE Innermost(p)
             piece == Piece("written", meantFor)
  <1>1. /\ into # NoCall /\ into \in Calls
        /\ result' = [result EXCEPT ![into] = Append(result[into], piece)]
        /\ produced' = IF meantFor = NoCall THEN produced
                       ELSE [produced EXCEPT ![meantFor] = Append(produced[meantFor], piece)]
    BY DEF write, StackInv, TypeOK
  <1>2. Parsing(p) # {} => Innermost(p) \in Calls /\ Innermost(p) <= calls
    BY InnermostType
  <1>3. /\ Parsing(p) # {} => /\ meantFor = Innermost(p) /\ meantFor # NoCall
                              /\ meantFor \in Calls /\ meantFor <= calls
        /\ Parsing(p) = {} => meantFor = NoCall
        /\ meantFor # NoCall => Parsing(p) # {}
    BY <1>2 DEF Calls, NoCall
  <1>4. piece \in Pieces /\ piece.of = meantFor
    <2>1. meantFor \in Calls \union {NoCall}
      BY <1>3
    <2> HIDE DEF meantFor
    <2> QED
      BY <2>1 DEF Pieces, Piece
  <1>5. result \in [Calls -> Seq(Pieces)] /\ produced \in [Calls -> Seq(Pieces)]
    BY DEF StackInv, TypeOK
  <1>6. into <= calls
    BY DEF StackInv, CallsBegin
  <1>7. \A k \in Calls \ disturbed : status[k] \in {"running", "returned"}
            => (into = k <=> meantFor = k)
    <2>1. \A k \in Calls \ disturbed : status[k] \in {"running", "returned"}
              => (into = k <=> Parsing(p) # {} /\ Innermost(p) = k)
      BY <1>1, WritesLand
    <2>2. \A k \in Calls : k # NoCall
      BY DEF Calls, NoCall
    <2> QED
      BY <1>3, <2>1, <2>2
  <1>8. status[into] \notin {"failed", "exported"} => meantFor = into
    BY <1>1, <1>3, OwnWritesLand
  <1> HIDE DEF into, meantFor, piece
  <1>9. /\ result' \in [Calls -> Seq(Pieces)]
        /\ result'[into] = Append(result[into], piece)
        /\ \A j \in Calls : j # into => result'[j] = result[j]
        /\ OnlyFor(into, result[into]) /\ piece.of = into => OnlyFor(into, result'[into])
    BY <1>1, <1>4, <1>5, OneMore
  <1>10. /\ produced' \in [Calls -> Seq(Pieces)]
         /\ meantFor # NoCall => produced'[meantFor] = Append(produced[meantFor], piece)
         /\ \A j \in Calls : j # meantFor => produced'[j] = produced[j]
    <2>1. CASE meantFor = NoCall
      BY <1>1, <1>5, <2>1
    <2>2. CASE meantFor # NoCall
      <3>1. /\ meantFor \in Calls
            /\ produced' = [produced EXCEPT ![meantFor] = Append(produced[meantFor], piece)]
        BY <1>1, <1>3, <2>2
      <3> QED
        BY <1>4, <1>5, <3>1, OneMore
    <2> QED
      BY <2>1, <2>2
  <1>11. \A k \in Calls : k > calls => result'[k] = produced'[k]
    <2>1. \A k \in Calls : k > calls => k # into /\ k # meantFor
      BY <1>1, <1>3, <1>6, NumberTypes DEF StackInv, Calls, NoCall
    <2> QED
      BY <1>9, <1>10, <2>1 DEF StackInv, CallsBegin
  <1>12. \A k \in Calls \ disturbed :
             status[k] \in {"running", "returned"} /\ result[k] = produced[k]
                 => result'[k] = produced'[k]
    <2>1. \A k \in Calls : k # NoCall
      BY DEF Calls, NoCall
    <2> QED
      BY <1>7, <1>9, <1>10, <2>1
  <1>13. \A k \in Calls : status[k] \notin {"failed", "exported"} /\ OnlyFor(k, result[k])
             => OnlyFor(k, result'[k])
    BY <1>4, <1>8, <1>9
  <1> QED
    BY <1>9, <1>10, <1>11, <1>12, <1>13

-------------------------------------------------------------------------------
(* Every step keeps the invariant. *)

(* A step is good if it links, keeps the types and breaks no text. *)
LEMMA Assembled ==
    ASSUME TypeOK', StackLinks', TextsInv'
    PROVE  ParserInv'
  BY DEF ParserInv, StackInv, StackLinks

LEMMA ConstructKeeps ==
    ASSUME ParserInv, NEW p \in Parsers, Construct(p)
    PROVE  ParserInv'
  <1>1. StackInv /\ TextsInv
    BY DEF ParserInv
  <1>2. UNCHANGED <<output, flags, callVars, textVars, stack>>
    BY DEF Construct
  <1>3. TypeOK'
    BY <1>1, <1>2 DEF Construct, StackInv, TypeOK, callVars, textVars
  <1>4. StackLinks'
    <2>1. \A k \in Calls : k > calls => result'[k] = produced'[k]
      BY <1>1, <1>2 DEF StackInv, CallsBegin, textVars
    <2> QED
      BY <1>1, <1>2, <2>1, QuietLinks DEF linkVars
  <1>5. TextsInv'
    BY <1>1, <1>2 DEF TextsInv, ResultsComplete, ResultsOwn, callVars, textVars
  <1> QED
    BY <1>3, <1>4, <1>5, Assembled

(* A call begins, with a result that is empty so far. *)
LEMMA NewCallKeeps ==
    ASSUME ParserInv, NEW p \in Parsers, NEW doing \in {"reads", "parsesString"},
           NEW asked \in Flags, NewCall(p, doing, asked),
           \/ UNCHANGED <<output, flags, disturbed>>
           \/ SetFlags(p, asked) /\ PointsInto(p, calls + 1)
    PROVE  TypeOK' /\ TextsInv'
  <1> DEFINE k == calls + 1
             f == [doing |-> doing, call |-> k, parser |-> p, asked |-> asked]
  <1>1. StackInv /\ TypeOK /\ TextsInv
    BY DEF ParserInv, StackInv
  <1>2. /\ k \in Calls /\ stack' = Append(stack, f) /\ calls' = k
        /\ status' = [status EXCEPT ![k] = "running"]
        /\ UNCHANGED <<parsers, textVars>>
    BY <1>1 DEF NewCall, Push, TypeOK, Calls
  <1>3. f \in Frames
    BY <1>2 DEF Frames, Native, Parses
  <1> HIDE DEF f
  <1>4. stack' \in Seq(Frames)
    BY <1>1, <1>2, <1>3, PushType
  <1>5. disturbed \subseteq disturbed' /\ disturbed' \subseteq Calls
    <2>1. CASE UNCHANGED <<output, flags, disturbed>>
      BY <1>1, <2>1 DEF TypeOK
    <2>2. CASE SetFlags(p, asked)
      BY <1>1, <2>2, FrameType DEF SetFlags, Parsing, Depth, TypeOK
    <2> QED
      BY <2>1, <2>2
  <1>6. /\ output' \in [Parsers -> Calls \union {NoCall}]
        /\ flags' \in [Parsers -> Flags]
    BY <1>1, <1>2 DEF SetFlags, PointsInto, TypeOK
  <1>7. calls' \in 0 .. MaxCalls
    BY <1>2 DEF Calls
  <1>8. status' \in [Calls -> {"none", "running", "returned", "exported", "failed"}]
    BY <1>1, <1>2 DEF TypeOK
  <1>9. TypeOK'
    BY <1>1, <1>2, <1>4, <1>5, <1>6, <1>7, <1>8 DEF TypeOK, textVars
  <1>10. result[k] = produced[k]
    <2>1. k \in Calls /\ k > calls
      BY <1>1, <1>2 DEF TypeOK
    <2> QED
      BY <1>1, <2>1 DEF StackInv, CallsBegin
  <1>11. \A j \in Calls : status'[j] = IF j = k THEN "running" ELSE status[j]
    BY <1>1, <1>2 DEF TypeOK
  <1> HIDE DEF k
  <1>12. ResultsComplete'
    BY <1>1, <1>2, <1>5, <1>10, <1>11 DEF TextsInv, ResultsComplete, textVars
  <1>13. ResultsOwn'
    <2>1. k > calls
      BY <1>1 DEF k, TypeOK
    <2>2. status[k] = "none"
      BY <1>1, <1>2, <2>1 DEF StackInv, CallsBegin
    <2> QED
      BY <1>1, <1>2, <1>11, <2>2 DEF TextsInv, ResultsOwn, textVars
  <1> QED
    BY <1>9, <1>12, <1>13 DEF TextsInv

LEMMA FromStringKeeps ==
    ASSUME ParserInv, NEW p \in Parsers, NEW markdown \in BOOLEAN, FromString(p, markdown)
    PROVE  ParserInv'
  <1> DEFINE asked == [flags[p] EXCEPT !.markdown = markdown]
  <1>1. asked \in Flags
    BY DEF ParserInv, StackInv, TypeOK, Flags
  <1>2. /\ NewCall(p, "parsesString", asked)
        /\ SetFlags(p, asked) /\ PointsInto(p, calls + 1)
    BY DEF FromString
  <1> HIDE DEF asked
  <1>3. TypeOK' /\ TextsInv'
    BY <1>1, <1>2, NewCallKeeps
  <1>4. StackLinks'
    BY FromStringLinks DEF ParserInv
  <1> QED
    BY <1>3, <1>4, Assembled

LEMMA FromFileKeeps ==
    ASSUME ParserInv, NEW p \in Parsers, NEW asked \in Flags, FromFile(p, asked)
    PROVE  ParserInv'
  <1>1. NewCall(p, "reads", asked) /\ UNCHANGED <<output, flags, disturbed>>
    BY DEF FromFile
  <1>2. TypeOK' /\ TextsInv'
    BY <1>1, NewCallKeeps
  <1>3. StackLinks'
    BY FromFileLinks DEF ParserInv
  <1> QED
    BY <1>2, <1>3, Assembled

LEMMA StartFileKeeps ==
    ASSUME ParserInv, StartFile
    PROVE  ParserInv'
  <1> DEFINE f == [Top EXCEPT !.doing = "parsesFile"]
  <1>1. StackInv /\ TypeOK /\ TextsInv
    BY DEF ParserInv, StackInv
  <1>2. /\ HasRead /\ stack # <<>> /\ SetFlags(Top.parser, Top.asked)
        /\ PointsInto(Top.parser, Top.call) /\ stack' = Append(Rest, f)
        /\ UNCHANGED <<parsers, calls, status, textVars>>
    BY DEF StartFile, HasRead
  <1>3. /\ Top \in Frames /\ Top.call \in Calls /\ Top.parser \in Parsers
        /\ Top.asked \in Flags
    BY <1>1, <1>2, ReadsAlone
  <1>4. f \in Frames
    BY <1>3 DEF Frames, Native, Parses
  <1> HIDE DEF f
  <1>5. stack' \in Seq(Frames)
    BY <1>1, <1>2, <1>4, ReplaceType
  <1>6. disturbed \subseteq disturbed' /\ disturbed' \subseteq Calls
    BY <1>1, <1>2, FrameType DEF SetFlags, Parsing, Depth, TypeOK
  <1>7. /\ output' \in [Parsers -> Calls \union {NoCall}]
        /\ flags' \in [Parsers -> Flags]
    BY <1>1, <1>2, <1>3 DEF SetFlags, PointsInto, TypeOK
  <1>8. TypeOK'
    BY <1>1, <1>2, <1>5, <1>6, <1>7 DEF TypeOK, textVars
  <1>9. TextsInv'
    BY <1>1, <1>2, <1>6 DEF TextsInv, ResultsComplete, ResultsOwn, textVars
  <1>10. StackLinks'
    BY <1>1, StartFileLinks
  <1> QED
    BY <1>8, <1>9, <1>10, Assembled

LEMMA SkipFileKeeps ==
    ASSUME ParserInv, SkipFile
    PROVE  ParserInv'
  <1>1. StackInv /\ TypeOK /\ TextsInv
    BY DEF ParserInv, StackInv
  <1>2. PICK how \in {"exported", "failed"} : Finishes(Top.call, how)
    BY DEF SkipFile
  <1>3. /\ HasRead /\ stack # <<>> /\ SetFlags(Top.parser, Top.asked)
        /\ stack' = Rest /\ status' = [status EXCEPT ![Top.call] = how]
        /\ UNCHANGED <<parsers, output, calls, textVars>>
    BY <1>2 DEF SkipFile, HasRead, Finishes, Pop
  <1>4. Top.call \in Calls /\ Top.parser \in Parsers /\ Top.asked \in Flags
    BY <1>1, <1>3, ReadsAlone
  <1>5. stack' \in Seq(Frames)
    BY <1>1, <1>3, PopType
  <1>6. disturbed \subseteq disturbed' /\ disturbed' \subseteq Calls
    BY <1>1, <1>3, FrameType DEF SetFlags, Parsing, Depth, TypeOK
  <1>7. flags' \in [Parsers -> Flags]
    BY <1>1, <1>3, <1>4 DEF SetFlags, TypeOK
  <1>8. status' \in [Calls -> {"none", "running", "returned", "exported", "failed"}]
    BY <1>1, <1>3 DEF TypeOK
  <1>9. TypeOK'
    BY <1>1, <1>3, <1>5, <1>6, <1>7, <1>8 DEF TypeOK, textVars
  <1>10. TextsInv'
    BY <1>1, <1>3, <1>6 DEF TextsInv, ResultsComplete, ResultsOwn, TypeOK, textVars
  <1>11. StackLinks'
    BY <1>1, SkipFileLinks
  <1> QED
    BY <1>9, <1>10, <1>11, Assembled

(* Parsing and handlers, while no call begins or ends. *)
LEMMA AppendsKeeps ==
    ASSUME StackInv, TextsInv, NEW k \in Calls, k <= calls,
           Appends(k) \/ UNCHANGED textVars,
           UNCHANGED callVars
    PROVE  /\ result' \in [Calls -> Seq(Pieces)] /\ produced' \in [Calls -> Seq(Pieces)]
           /\ \A j \in Calls : j > calls => result'[j] = produced'[j]
           /\ TextsInv'
  <1>1. CASE Appends(k)
    <2>1. /\ result' \in [Calls -> Seq(Pieces)] /\ produced' \in [Calls -> Seq(Pieces)]
          /\ \A j \in Calls : result[j] = produced[j] => result'[j] = produced'[j]
          /\ \A j \in Calls : OnlyFor(j, result[j]) => OnlyFor(j, result'[j])
      BY <1>1, AppendsType DEF StackInv
    <2>2. \A j \in Calls : j > calls => result'[j] = produced'[j]
      BY <2>1 DEF StackInv, CallsBegin
    <2>3. TextsInv'
      BY <2>1 DEF TextsInv, ResultsComplete, ResultsOwn, OnlyFor, callVars
    <2> QED
      BY <2>1, <2>2, <2>3
  <1>2. CASE UNCHANGED textVars
    BY <1>2 DEF StackInv, TypeOK, CallsBegin, TextsInv, ResultsComplete, ResultsOwn, callVars, textVars
  <1> QED
    BY <1>1, <1>2

LEMMA TopCall ==
    ASSUME StackInv, stack # <<>>
    PROVE  /\ Top \in Frames /\ Top.call \in Calls /\ Top.parser \in Parsers
           /\ Top.call <= calls
           /\ Top.doing \in Parses => status[Top.call] = "running"
  <1>1. Len(stack) \in Depth /\ Top = stack[Len(stack)] /\ Top \in Frames
    BY TopType DEF StackInv, Depth
  <1> QED
    BY <1>1 DEF Frames, StackInv, CallsBegin, FramesRun, Home

LEMMA PlainTextKeeps ==
    ASSUME ParserInv, PlainText
    PROVE  ParserInv'
  <1>1. StackInv /\ TypeOK /\ TextsInv
    BY DEF ParserInv, StackInv
  <1>2. /\ stack # <<>> /\ Appends(Top.call)
        /\ UNCHANGED <<parsers, output, flags, callVars, stack>>
    BY DEF PlainText, NativeRuns
  <1>3. /\ result' \in [Calls -> Seq(Pieces)] /\ produced' \in [Calls -> Seq(Pieces)]
        /\ \A j \in Calls : j > calls => result'[j] = produced'[j]
        /\ TextsInv'
    BY <1>1, <1>2, TopCall, AppendsKeeps
  <1>4. TypeOK'
    BY <1>1, <1>2, <1>3 DEF TypeOK, callVars
  <1>5. StackLinks'
    BY <1>1, <1>2, <1>3, QuietLinks DEF linkVars
  <1> QED
    BY <1>3, <1>4, <1>5, Assembled

LEMMA HandlerReturnsKeeps ==
    ASSUME ParserInv, HandlerReturns
    PROVE  ParserInv'
  <1>1. StackInv /\ TypeOK /\ TextsInv
    BY DEF ParserInv, StackInv
  <1>2. /\ stack # <<>>
        /\ Appends(Top.call) \/ UNCHANGED textVars
        /\ stack' = Rest /\ Top.doing \notin Home
        /\ UNCHANGED <<parsers, output, flags, callVars>>
    BY DEF HandlerReturns, Pop, Home, Parses
  <1>3. /\ result' \in [Calls -> Seq(Pieces)] /\ produced' \in [Calls -> Seq(Pieces)]
        /\ \A j \in Calls : j > calls => result'[j] = produced'[j]
        /\ TextsInv'
    BY <1>1, <1>2, TopCall, AppendsKeeps
  <1>4. TypeOK'
    BY <1>1, <1>2, <1>3, PopType DEF TypeOK, callVars
  <1>5. StackLinks'
    BY <1>1, <1>2, <1>3, PopLinks
  <1> QED
    BY <1>3, <1>4, <1>5, Assembled

LEMMA CallHandlerKeeps ==
    ASSUME ParserInv, CallHandler
    PROVE  ParserInv'
  <1> DEFINE f == [Top EXCEPT !.doing = "handles"]
  <1>1. StackInv /\ TypeOK /\ TextsInv
    BY DEF ParserInv, StackInv
  <1>2. /\ stack # <<>> /\ stack' = Append(stack, f)
        /\ UNCHANGED <<parsers, output, flags, callVars, textVars>>
    BY DEF CallHandler, NativeRuns, Push
  <1>3. f \in Frames
    BY <1>1, <1>2, TopCall DEF Frames
  <1> HIDE DEF f
  <1>4. TypeOK'
    BY <1>1, <1>2, <1>3, PushType DEF TypeOK, callVars, textVars
  <1>5. TextsInv'
    BY <1>1, <1>2 DEF TextsInv, ResultsComplete, ResultsOwn, callVars, textVars
  <1>6. StackLinks'
    BY <1>1, CallHandlerLinks
  <1> QED
    BY <1>4, <1>5, <1>6, Assembled

(* A call ends. *)
LEMMA FinishKeeps ==
    ASSUME ParserInv, NativeRuns, Top.doing \in Parses,
           NEW how \in {"returned", "exported", "failed"},
           stack' = Rest, status' = [status EXCEPT ![Top.call] = how],
           \/ output' = [output EXCEPT ![Top.parser] = NoCall]
           \/ how # "returned" /\ output' = output,
           UNCHANGED <<parsers, flags, calls, disturbed, textVars>>
    PROVE  ParserInv'
  <1>1. StackInv /\ TypeOK /\ TextsInv
    BY DEF ParserInv, StackInv
  <1>2. /\ stack # <<>> /\ stack' = Rest
        /\ status' = [status EXCEPT ![Top.call] = how]
    BY DEF NativeRuns
  <1>3. Top.call \in Calls /\ Top.parser \in Parsers /\ status[Top.call] = "running"
    BY <1>1, <1>2, TopCall
  <1>4. stack' \in Seq(Frames)
    BY <1>1, <1>2, PopType
  <1>5. output' \in [Parsers -> Calls \union {NoCall}]
    BY <1>1, <1>3 DEF TypeOK
  <1>6. status' \in [Calls -> {"none", "running", "returned", "exported", "failed"}]
    BY <1>1, <1>2 DEF TypeOK
  <1>7. TypeOK'
    BY <1>1, <1>4, <1>5, <1>6 DEF TypeOK, textVars
  <1>8. TextsInv'
    BY <1>1, <1>2, <1>3 DEF TextsInv, ResultsComplete, ResultsOwn, TypeOK, textVars
  <1>9. StackLinks'
    BY <1>1, <1>2, FinishLinks
  <1> QED
    BY <1>7, <1>8, <1>9, Assembled

LEMMA EndKeeps ==
    ASSUME ParserInv, ParseEnds \/ FileEnds \/ ParseFails
    PROVE  ParserInv'
  <1>1. CASE ParseEnds
    <2>1. /\ NativeRuns /\ Top.doing \in Parses
          /\ output' = [output EXCEPT ![Top.parser] = NoCall]
          /\ stack' = Rest /\ status' = [status EXCEPT ![Top.call] = "returned"]
          /\ UNCHANGED <<parsers, flags, calls, disturbed, textVars>>
      BY <1>1 DEF ParseEnds, Parses, Finishes, Pop, PointsInto
    <2> QED
      BY <2>1, FinishKeeps
  <1>2. CASE FileEnds
    <2>1. /\ NativeRuns /\ Top.doing \in Parses
          /\ output' = [output EXCEPT ![Top.parser] = NoCall] \/ output' = output
          /\ stack' = Rest /\ status' = [status EXCEPT ![Top.call] = "exported"]
          /\ UNCHANGED <<parsers, flags, calls, disturbed, textVars>>
      BY <1>2 DEF FileEnds, PointsMaybe, Parses, Finishes, Pop, PointsInto
    <2> QED
      BY <2>1, FinishKeeps
  <1>3. CASE ParseFails
    <2>1. /\ NativeRuns /\ Top.doing \in Parses
          /\ output' = [output EXCEPT ![Top.parser] = NoCall] \/ output' = output
          /\ stack' = Rest /\ status' = [status EXCEPT ![Top.call] = "failed"]
          /\ UNCHANGED <<parsers, flags, calls, disturbed, textVars>>
      BY <1>3 DEF ParseFails, PointsMaybe, Finishes, Pop, PointsInto
    <2> QED
      BY <2>1, FinishKeeps
  <1> QED
    BY <1>1, <1>2, <1>3

LEMMA WriteKeeps ==
    ASSUME ParserInv, NEW p \in Parsers, write(p)
    PROVE  ParserInv'
  <1>1. StackInv /\ TypeOK /\ TextsInv
    BY DEF ParserInv, StackInv
  <1>2. UNCHANGED <<parsers, output, flags, callVars, stack>>
    BY DEF write
  <1>3. /\ result' \in [Calls -> Seq(Pieces)] /\ produced' \in [Calls -> Seq(Pieces)]
        /\ \A k \in Calls : k > calls => result'[k] = produced'[k]
        /\ \A k \in Calls \ disturbed :
               status[k] \in {"running", "returned"} /\ result[k] = produced[k]
                   => result'[k] = produced'[k]
        /\ \A k \in Calls : status[k] \notin {"failed", "exported"} /\ OnlyFor(k, result[k])
               => OnlyFor(k, result'[k])
    BY <1>1, WriteTexts
  <1>4. TypeOK'
    BY <1>1, <1>2, <1>3 DEF TypeOK, callVars
  <1>5. TextsInv'
    BY <1>1, <1>2, <1>3 DEF TextsInv, ResultsComplete, ResultsOwn, OnlyFor, callVars
  <1>6. StackLinks'
    BY <1>1, <1>2, <1>3, QuietLinks DEF linkVars
  <1> QED
    BY <1>4, <1>5, <1>6, Assembled

LEMMA ImportKeeps ==
    ASSUME ParserInv, NEW p \in Parsers, import(p)
    PROVE  ParserInv'
  <1> DEFINE f == [doing |-> "imports", call |-> output[p], parser |-> p, asked |-> NoFlags]
  <1>1. StackInv /\ TypeOK /\ TextsInv
    BY DEF ParserInv, StackInv
  <1>2. /\ stack' = Append(stack, f) /\ output[p] # NoCall
        /\ UNCHANGED <<parsers, output, flags, callVars, textVars>>
    BY DEF import, Push
  <1>3. f \in Frames
    BY <1>1, <1>2 DEF Frames, Native, NoFlags, Flags, TypeOK
  <1> HIDE DEF f
  <1>4. TypeOK'
    BY <1>1, <1>2, <1>3, PushType DEF TypeOK, callVars, textVars
  <1>5. TextsInv'
    BY <1>1, <1>2 DEF TextsInv, ResultsComplete, ResultsOwn, callVars, textVars
  <1>6. StackLinks'
    BY <1>1, ImportLinks
  <1> QED
    BY <1>4, <1>5, <1>6, Assembled

LEMMA ImportEndsKeeps ==
    ASSUME ParserInv, ImportEnds
    PROVE  ParserInv'
  <1>1. StackInv /\ TypeOK /\ TextsInv
    BY DEF ParserInv, StackInv
  <1>2. /\ stack # <<>> /\ stack' = Rest /\ Top.doing \notin Home
        /\ UNCHANGED <<parsers, output, flags, callVars, textVars>>
    BY DEF ImportEnds, NativeRuns, Pop, Home, Parses
  <1>3. TypeOK'
    BY <1>1, <1>2, PopType DEF TypeOK, callVars, textVars
  <1>4. TextsInv'
    BY <1>1, <1>2 DEF TextsInv, ResultsComplete, ResultsOwn, callVars, textVars
  <1>5. StackLinks'
    <2>1. \A k \in Calls : k > calls => result'[k] = produced'[k]
      BY <1>1, <1>2 DEF StackInv, CallsBegin, textVars
    <2> QED
      BY <1>1, <1>2, <2>1, PopLinks
  <1> QED
    BY <1>3, <1>4, <1>5, Assembled

LEMMA StutterKeeps ==
    ASSUME ParserInv, UNCHANGED vars
    PROVE  ParserInv'
  <1>1. StackInv /\ TypeOK /\ TextsInv
    BY DEF ParserInv, StackInv
  <1>2. UNCHANGED <<output, flags, callVars, textVars, stack>> /\ parsers' = parsers
    BY DEF vars
  <1>3. TypeOK' /\ TextsInv'
    BY <1>1, <1>2 DEF TypeOK, TextsInv, ResultsComplete, ResultsOwn, callVars, textVars
  <1>4. \A k \in Calls : k > calls => result'[k] = produced'[k]
    BY <1>1, <1>2 DEF StackInv, CallsBegin, textVars
  <1>5. StackLinks'
    BY <1>1, <1>2, <1>4, QuietLinks DEF linkVars
  <1> QED
    BY <1>3, <1>5, Assembled

LEMMA ParserKeeps == ParserInv /\ [Next]_vars => ParserInv'
  <1> SUFFICES ASSUME ParserInv, [Next]_vars
               PROVE  ParserInv'
    OBVIOUS
  <1>1. ASSUME NEW p \in Parsers, Construct(p)
        PROVE  ParserInv'
    BY <1>1, ConstructKeeps
  <1>2. ASSUME NEW p \in Parsers, NEW markdown \in BOOLEAN, FromString(p, markdown)
        PROVE  ParserInv'
    BY <1>2, FromStringKeeps
  <1>3. ASSUME NEW p \in Parsers, NEW asked \in FileFlags, FromFile(p, asked)
        PROVE  ParserInv'
    BY <1>3, FromFileKeeps
  <1>4. ASSUME NEW p \in Parsers, write(p)
        PROVE  ParserInv'
    BY <1>4, WriteKeeps
  <1>5. ASSUME NEW p \in Parsers, import(p)
        PROVE  ParserInv'
    BY <1>5, ImportKeeps
  <1>6. CASE CallHandler
    BY <1>6, CallHandlerKeeps
  <1>7. CASE StartFile
    BY <1>7, StartFileKeeps
  <1>8. CASE SkipFile
    BY <1>8, SkipFileKeeps
  <1>9. CASE PlainText
    BY <1>9, PlainTextKeeps
  <1>10. CASE HandlerReturns
    BY <1>10, HandlerReturnsKeeps
  <1>11. CASE ParseEnds \/ FileEnds \/ ParseFails
    BY <1>11, EndKeeps
  <1>12. CASE ImportEnds
    BY <1>12, ImportEndsKeeps
  <1>13. CASE UNCHANGED vars
    BY <1>13, StutterKeeps
  <1> QED
    BY <1>1, <1>2, <1>3, <1>4, <1>5, <1>6, <1>7, <1>8, <1>9, <1>10, <1>11, <1>12, <1>13
       DEF Next

LEMMA ParserInvariant == Spec => []ParserInv
  <1>1. Init => ParserInv
    BY ParserInit
  <1>2. ParserInv /\ [Next]_vars => ParserInv'
    BY ParserKeeps
  <1> QED
    BY <1>1, <1>2, PTL DEF Spec

(* What a step changes of a string that has returned: nothing.  No frame is of its   *)
(* call, and no context points to it.                                                *)
LEMMA ReturnedStays ==
    ASSUME ParserInv, [Next]_vars, NEW k \in Calls, status[k] = "returned"
    PROVE  result'[k] = result[k]
  <1>1. StackInv /\ TypeOK
    BY DEF ParserInv, StackInv
  <1>2. \A i \in Depth : status[stack[i].call] # "returned"
    BY <1>1 DEF StackInv, FramesRun
  <1>3. stack # <<>> => Top.call # k
    <2> SUFFICES ASSUME stack # <<>>
                 PROVE  Top.call # k
      OBVIOUS
    <2>1. Len(stack) \in Depth /\ Top = stack[Len(stack)]
      BY <1>1, TopType DEF Depth
    <2> QED
      BY <1>2, <2>1
  <1>4. \A p \in Parsers : output[p] # k \/ output[p] = NoCall
    <2>1. ASSUME NEW p \in Parsers, output[p] = k, output[p] # NoCall
          PROVE  FALSE
      <3>1. \E i \in Parsing(p) : stack[i].doing \in Parses /\ stack[i].call = k
        BY <1>1, <2>1 DEF StackInv, EndedContextsPointNowhere
      <3> QED
        BY <1>2, <3>1 DEF Parsing, Depth
    <2> QED
      BY <2>1
  <1>5. ASSUME NEW j \in Calls, j # k, Appends(j)
        PROVE  result'[k] = result[k]
    BY <1>1, <1>5 DEF Appends, TypeOK
  <1>6. ASSUME stack # <<>>, Appends(Top.call)
        PROVE  result'[k] = result[k]
    BY <1>1, <1>3, <1>5, <1>6, TopCall
  <1>7. ASSUME UNCHANGED textVars
        PROVE  result'[k] = result[k]
    BY <1>7 DEF textVars
  <1>8. ASSUME NEW p \in Parsers, write(p)
        PROVE  result'[k] = result[k]
    BY <1>1, <1>4, <1>8 DEF write, TypeOK
  <1>9. CASE PlainText \/ HandlerReturns
    BY <1>6, <1>7, <1>9 DEF PlainText, HandlerReturns, NativeRuns
  <1>10. CASE \/ UNCHANGED vars \/ CallHandler \/ StartFile \/ SkipFile
              \/ ParseEnds \/ FileEnds \/ ParseFails \/ ImportEnds
    BY <1>7, <1>10 DEF vars, CallHandler, StartFile, SkipFile, ParseEnds, FileEnds,
       ParseFails, ImportEnds
  <1>11. ASSUME NEW p \in Parsers,
                \/ Construct(p) \/ import(p)
                \/ \E markdown \in BOOLEAN : FromString(p, markdown)
                \/ \E asked \in FileFlags : FromFile(p, asked)
         PROVE  result'[k] = result[k]
    BY <1>7, <1>11 DEF Construct, import, FromString, FromFile, NewCall
  <1> QED
    BY <1>8, <1>9, <1>10, <1>11 DEF Next

-------------------------------------------------------------------------------
(* The theorems. *)

\* Every variable has its type.  (HTMLParserWrapper.h)
THEOREM ParserTypeCorrect == Spec => []TypeOK
  <1>1. ParserInv => TypeOK
    BY DEF ParserInv, StackInv
  <1> QED
    BY <1>1, ParserInvariant, PTL

\* Parses nest in any way JavaScript lets them: as long as the parser of a call is not
\* used for another, its context points at the result of that call.
\* (Akeno_HTMLParser_fromStringInternal, Akeno_HTMLParser_context_import)
THEOREM ContextAlwaysFollowsParse == Spec => []ContextFollowsParse
  <1>1. ParserInv => ContextFollowsParse
    BY DEF ParserInv, StackInv
  <1> QED
    BY <1>1, ParserInvariant, PTL

\* No context points into the frame of a string that has returned: ctx.end() is called
\* before the frame goes, or another call of the parser has taken the context over.
\* (Akeno_HTMLParser_fromStringInternal)
THEOREM NothingPointsIntoReturned == Spec => []EndedContextsPointNowhere
  <1>1. ParserInv => EndedContextsPointNowhere
    BY DEF ParserInv, StackInv
  <1> QED
    BY <1>1, ParserInvariant, PTL

\* The flags of a file are set after the last JavaScript that runs before its parse,
\* whatever the getter of its path does with the parser; a file is parsed with the flags
\* of its call, and a string as markdown or not as its call has it, until one of its
\* handlers uses the parser for another call.  Of calls whose handlers do, and of the
\* other flags of a string, nothing is claimed.
\* (Akeno_HTMLParser_fromFileInternal, Akeno_HTMLParser_fromStringInternal)
THEOREM UndisturbedParsedAsAsked == Spec => []ParsedAsAsked
  <1>1. ParserInv => ParsedAsAsked
    BY DEF ParserInv, StackInv
  <1> QED
    BY <1>1, ParserInvariant, PTL

\* Whatever handlers do, nothing that was meant for another call gets into the result of
\* a call before it ends, or of a string at all; and the result of a call whose parser is
\* not used for another meanwhile is all that was produced for it, in order.
\* (appendResultToBuffer, Akeno_HTMLParser_context_write)
THEOREM ResultAlwaysWhatWasProduced == Spec => []ResultIsWhatWasProduced
  <1>1. ParserInv => ResultIsWhatWasProduced
    BY DEF ParserInv, TextsInv, ResultsComplete, ResultsOwn, ResultIsWhatWasProduced
  <1> QED
    BY <1>1, ParserInvariant, PTL

\* No step changes what a string has been parsed to.
\* (Akeno_HTMLParser_fromStringInternal, Akeno_HTMLParser_context_write)
THEOREM ReturnedResultsStayFinal == Spec => ReturnedResultsAreFinal
  <1>1. ParserInv /\ [Next]_vars
            => [\A k \in Calls : status[k] = "returned" => result'[k] = result[k]]_vars
    BY ReturnedStays
  <1> QED
    BY <1>1, ParserInvariant, PTL DEF Spec, ReturnedResultsAreFinal
===============================================================================
