----------------------------- MODULE PathDecoding -----------------------------
(***************************************************************************)
(* decodeURIComponent of AppWrapper.h, which decodes the path of a request *)
(* with a '%' in it: one step for each turn of its loop.  A byte is        *)
(* 0 .. Base * Base - 1, so that two digits make one; several bytes may    *)
(* stand for the same digit, as upper and lower case do.                   *)
(***************************************************************************)
EXTENDS Integers, Sequences

CONSTANTS
    Base,     \* 16 in the code
    digit,    \* the digits among the bytes, with their values
    Percent,  \* the byte '%'
    Blanks,   \* bytes that strtoul skips
    Plus,     \* signs that strtoul takes
    Minus,
    MaxText,  \* bound: length of a text that is encoded
    MaxUrl    \* bound: length of a path nobody encoded

Bytes  == 0 .. Base * Base - 1
Digits == DOMAIN digit

ASSUME BaseAssumption == Base \in Nat \ {0} /\ digit \in [Digits -> 0 .. Base - 1]
ASSUME BytesAssumption ==
    /\ Digits \subseteq Bytes /\ Percent \in Bytes \ Digits
    /\ Blanks \subseteq Bytes \ Digits /\ {Plus, Minus} \subseteq Bytes \ Digits
ASSUME BoundsAssumption == MaxText \in Nat /\ MaxUrl \in Nat

VARIABLES
    url,      \* what is decoded
    i,        \* bytes of it that have been looked at
    decoded,  \* the result so far
    text,     \* what was encoded (history)
    encoded   \* whether url is an encoding of text (history)

vars == <<url, i, decoded, text, encoded>>

\* Every variable has its type: what is decoded consists of bytes and is no longer.
TypeOK ==
    /\ url \in Seq(Bytes)
    /\ i \in 0 .. Len(url)
    /\ decoded \in Seq(Bytes) /\ Len(decoded) <= i
    /\ text \in Seq(Bytes)
    /\ encoded \in BOOLEAN

-------------------------------------------------------------------------------
(* What is decoded: an encoding, where a byte stands for itself or is          *)
(* escaped, or anything else.                                                  *)

Texts(n) == UNION {[1 .. k -> Bytes] : k \in 0 .. n}

Escapes(b) ==
    {<<Percent, p[1], p[2]>> : p \in {q \in Digits \X Digits :
                                          digit[q[1]] * Base + digit[q[2]] = b}}

Pieces(b) == {<<b>>} \union Escapes(b)

(* What an encoded byte and a rest make.  A '%' that stands for itself has no  *)
(* room for two digits behind it.                                              *)
EncodedBefore(b, rests) ==
    {pr[1] \o pr[2] : pr \in {q \in Pieces(b) \X rests : q[1] = <<Percent>> => Len(q[2]) < 2}}

(* The encodings of a text, and of what it is from each of its bytes on.       *)
EncodingsFrom(t) ==
    LET from[k \in 1 .. Len(t) + 1] ==
            IF k > Len(t) THEN {<< >>} ELSE EncodedBefore(t[k], from[k + 1])
    IN  from

Encodings(t) == EncodingsFrom(t)[1]

Init ==
    /\ i = 0
    /\ decoded = << >>
    /\ \/ /\ encoded = TRUE
          /\ text \in Texts(MaxText)
          /\ url \in Encodings(text)
       \/ /\ encoded = FALSE
          /\ text = << >>
          /\ url \in Texts(MaxUrl)
-------------------------------------------------------------------------------
(* The loop.  A definition whose name ends in an underscore and a word is a    *)
(* mistake.                                                                    *)

strtoul_signed(a, b) ==
    IF b \notin Digits THEN {}
    ELSE CASE a \in Digits -> {digit[a] * Base + digit[b]}
           [] a \in Blanks \union {Plus} -> {digit[b]}
           [] a = Minus -> {- digit[b]}
           [] OTHER -> {}

(* The number strtoul reads if it takes both bytes, cast to a byte.            *)
strtoul(a, b) ==
    IF b \notin Digits THEN {}
    ELSE CASE a \in Digits -> {digit[a] * Base + digit[b]}
           [] a \in Blanks \union {Plus} -> {digit[b]}
           [] a = Minus -> {(- digit[b]) % (Base * Base)}
           [] OTHER -> {}

HasRoom_short == i + 3 < Len(url)

HasRoom == i + 2 < Len(url)

(* The values of an escape that begins here: one, or none.                     *)
Value == IF url[i + 1] = Percent /\ HasRoom THEN strtoul(url[i + 2], url[i + 3]) ELSE {}

TakesEscape ==
    /\ i < Len(url)
    /\ \E v \in Value : decoded' = Append(decoded, v)
    /\ i' = i + 3
    /\ UNCHANGED <<url, text, encoded>>

TakesByte ==
    /\ i < Len(url)
    /\ Value = {}
    /\ decoded' = Append(decoded, url[i + 1])
    /\ i' = i + 1
    /\ UNCHANGED <<url, text, encoded>>

Next == TakesEscape \/ TakesByte

Spec == Init /\ [][Next]_vars

\* Decoding an encoding gives the text back, whatever bytes were escaped, with digits
\* of either case and up to the very end of the path; on the way there the result is
\* the beginning of the text.  (decodeURIComponent)
EncodedIsDecoded ==
    encoded =>
        /\ decoded = SubSeq(text, 1, Len(decoded))
        /\ i = Len(url) => decoded = text
===============================================================================
