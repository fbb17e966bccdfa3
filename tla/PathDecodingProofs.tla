-------------------------- MODULE PathDecodingProofs --------------------------
(***************************************************************************)
(* Theorems about PathDecoding, for any base, digits and signs, and paths  *)
(* of any length.                                                          *)
(***************************************************************************)
EXTENDS PathDecoding, SequenceTheorems, WellFoundedInduction, TLAPS

USE BaseAssumption, BytesAssumption, BoundsAssumption

-------------------------------------------------------------------------------
(* Numbers. *)

LEMMA SmallestExists ==
    ASSUME NEW T, T \subseteq Nat, T # {}
    PROVE  \E m \in T : \A n \in T : m <= n
<1> DEFINE R == OpToRel(<, Nat)
<1>1. PICK m \in T : \A n \in T : ~ (<<n, m>> \in R)
  BY NatLessThanWellFounded, WFMin
<1>2. \A n \in T : ~ (n < m)
  BY <1>1 DEF OpToRel
<1> QED
  BY <1>2

LEMMA ProductType ==
    ASSUME NEW m \in Nat, NEW n \in Nat
    PROVE  m * n \in Nat
  OBVIOUS

LEMMA BytesAreNumbers == Bytes \subseteq Nat /\ Digits \subseteq Bytes /\ Percent \in Bytes
<1>1. Base * Base \in Nat
  OBVIOUS
<1> QED
  BY <1>1 DEF Bytes

LEMMA DigitType ==
    ASSUME NEW b \in Digits
    PROVE  digit[b] \in 0 .. Base - 1
  OBVIOUS

(* Two digits make a byte, and so does one, with a minus or without. *)
LEMMA TwoDigits ==
    ASSUME NEW a \in 0 .. Base - 1, NEW b \in 0 .. Base - 1
    PROVE  /\ a * Base + b \in Bytes
           /\ b \in Bytes
           /\ (- b) % (Base * Base) \in Bytes
<1>1. PICK m \in Nat : a = Base - 1 - m
  <2>1. Base - 1 - a \in Nat /\ a = Base - 1 - (Base - 1 - a)
    OBVIOUS
  <2> QED
    BY <2>1
<1> DEFINE p == a * Base
           q == Base * Base
           r == m * Base
<1>2. p \in Nat /\ q \in Nat /\ r \in Nat
  BY <1>1, ProductType
<1>3. p = q - Base - r
  <2>1. (Base - 1 - m) * Base = Base * Base - Base - m * Base
    BY <1>1
  <2> QED
    BY <1>1, <2>1, Zenon
<1>4. a * Base + b \in Bytes /\ b \in Bytes
  <2> HIDE DEF p, q, r
  <2>1. p + b \in 0 .. q - 1 /\ b \in 0 .. q - 1
    BY <1>2, <1>3
  <2> QED
    BY <2>1 DEF Bytes, p, q
<1>5. (- b) % (Base * Base) \in Bytes
  <2>1. \A x \in Int, y \in Nat \ {0} : x % y \in 0 .. y - 1
    OBVIOUS
  <2>2. q \in Nat \ {0} /\ - b \in Int
    <3> HIDE DEF p, q, r
    <3> QED
      BY <1>2, <1>3
  <2> QED
    BY <2>1, <2>2, Zenon DEF Bytes
<1> QED
  BY <1>4, <1>5

(* Whatever strtoul takes, what it makes of it is a byte; of two digits it     *)
(* makes the byte they stand for.                                              *)
LEMMA NumbersAreBytes ==
    ASSUME NEW a \in Bytes, NEW b \in Bytes
    PROVE  strtoul(a, b) \subseteq Bytes
<1> SUFFICES ASSUME b \in Digits PROVE strtoul(a, b) \subseteq Bytes
  BY DEF strtoul
<1>1. digit[b] \in 0 .. Base - 1
  BY DigitType
<1>2. a \in Digits => digit[a] \in 0 .. Base - 1
  BY DigitType
<1>3. /\ a \in Digits => digit[a] * Base + digit[b] \in Bytes
      /\ digit[b] \in Bytes
      /\ (- digit[b]) % (Base * Base) \in Bytes
  BY <1>1, <1>2, TwoDigits, Zenon
<1>4. CASE a \in Digits
  BY <1>3, <1>4, Zenon DEF strtoul
<1>5. CASE a \notin Digits /\ a \in Blanks \union {Plus}
  BY <1>3, <1>5, Zenon DEF strtoul
<1>6. CASE a \notin Digits /\ a \notin Blanks \union {Plus}
  BY <1>3, <1>6, Zenon DEF strtoul
<1> QED
  BY <1>4, <1>5, <1>6

LEMMA TwoDigitsAreRead ==
    ASSUME NEW a \in Digits, NEW b \in Digits
    PROVE  strtoul(a, b) = {digit[a] * Base + digit[b]}
  BY Zenon DEF strtoul

-------------------------------------------------------------------------------
(* Encodings. *)

(* A byte is encoded by itself, or by an escape. *)
LEMMA PieceIsOneOf ==
    ASSUME NEW b \in Bytes, NEW p \in Pieces(b)
    PROVE  /\ p \in Seq(Bytes)
           /\ \/ p = <<b>>
              \/ \E x, y \in Digits : p = <<Percent, x, y>> /\ strtoul(x, y) = {b}
<1>1. CASE p = <<b>>
  BY <1>1
<1>2. CASE p \in Escapes(b)
  <2>1. PICK x, y \in Digits : p = <<Percent, x, y>> /\ digit[x] * Base + digit[y] = b
    BY <1>2 DEF Escapes
  <2>2. strtoul(x, y) = {b}
    BY <2>1, TwoDigitsAreRead
  <2>3. p \in Seq(Bytes)
    BY <2>1, BytesAreNumbers
  <2> QED
    BY <2>1, <2>2, <2>3
<1> QED
  BY <1>1, <1>2 DEF Pieces

LEMMA EncodedBeforeType ==
    ASSUME NEW b \in Bytes, NEW rests \in SUBSET Seq(Bytes)
    PROVE  EncodedBefore(b, rests) \in SUBSET Seq(Bytes)
<1> SUFFICES ASSUME NEW e \in EncodedBefore(b, rests)
             PROVE  e \in Seq(Bytes)
  OBVIOUS
<1>1. PICK pr \in Pieces(b) \X rests : e = pr[1] \o pr[2]
  BY DEF EncodedBefore
<1>2. pr[1] \in Pieces(b) /\ pr[2] \in rests
  OBVIOUS
<1>3. pr[1] \in Seq(Bytes) /\ pr[2] \in Seq(Bytes)
  BY <1>2, PieceIsOneOf
<1> QED
  BY <1>1, <1>3, ConcatProperties

(* The encodings of a text are defined by those of what follows its first byte: *)
(* so they are for a function that agrees with the recursion from some byte on, *)
(* and there is one that does from the first byte on.                           *)
LEMMA EncodingsRecursion ==
    ASSUME NEW t \in Seq(Bytes)
    PROVE  /\ EncodingsFrom(t) \in [1 .. Len(t) + 1 -> SUBSET Seq(Bytes)]
           /\ EncodingsFrom(t)[Len(t) + 1] = {<< >>}
           /\ \A k \in 1 .. Len(t) :
                  EncodingsFrom(t)[k] = EncodedBefore(t[k], EncodingsFrom(t)[k + 1])
<1> DEFINE L == Len(t) + 1
           All == 1 .. L
           FT == [All -> SUBSET Seq(Bytes)]
           Agrees(f, n) == /\ f[L] = {<< >>}
                           /\ \A k \in All : k < L /\ L - n <= k =>
                                  f[k] = EncodedBefore(t[k], f[k + 1])
           Bad == {n \in 0 .. L - 1 : ~ \E f \in FT : Agrees(f, n)}
<1>1. L \in Nat \ {0}
  OBVIOUS
<1>2. Bad = {}
  <2> SUFFICES ASSUME Bad # {} PROVE FALSE
    OBVIOUS
  <2>1. PICK n \in Bad : \A k \in Bad : n <= k
    <3>1. Bad \subseteq Nat
      OBVIOUS
    <3> HIDE DEF Bad
    <3> QED
      BY <3>1, SmallestExists
  <2>2. n # 0
    <3> DEFINE f == [k \in All |-> {<< >>}]
    <3>1. f \in FT /\ Agrees(f, 0)
      BY <1>1
    <3> QED
      BY <3>1
  <2>3. n \in 1 .. L - 1 /\ n - 1 \in 0 .. L - 1 /\ n - 1 \notin Bad
    <3>1. n \in 1 .. L - 1
      BY <1>1, <2>2
    <3>2. n - 1 \notin Bad
      <4> HIDE DEF Bad
      <4> QED
        BY <2>1, <3>1
    <3> HIDE DEF Bad
    <3> QED
      BY <1>1, <3>1, <3>2
  <2>4. PICK f \in FT : Agrees(f, n - 1)
    BY <2>3
  <2> DEFINE j == L - n
             g == [f EXCEPT ![j] = EncodedBefore(t[j], f[j + 1])]
  <2>5. j \in All /\ j < L /\ j + 1 \in All
    BY <1>1, <2>3
  <2>6. EncodedBefore(t[j], f[j + 1]) \in SUBSET Seq(Bytes)
    <3>1. t[j] \in Bytes
      BY <1>1, <2>5
    <3>2. f[j + 1] \in SUBSET Seq(Bytes)
      BY <2>4, <2>5
    <3> QED
      BY <3>1, <3>2, EncodedBeforeType
  <2>7. g \in FT
    BY <2>4, <2>5, <2>6
  <2>8. Agrees(g, n)
    <3>1. g[L] = {<< >>}
      BY <1>1, <2>4, <2>5
    <3>2. ASSUME NEW k \in All, k < L, L - n <= k
          PROVE  g[k] = EncodedBefore(t[k], g[k + 1])
      <4>1. k + 1 \in All /\ k + 1 # j
        BY <1>1, <2>3, <3>2
      <4>2. CASE k = j
        BY <2>4, <2>5, <4>1, <4>2
      <4>3. CASE k # j
        <5>1. L - (n - 1) <= k
          BY <1>1, <2>3, <3>2, <4>3
        <5> QED
          BY <2>4, <2>5, <3>2, <4>1, <4>3, <5>1
      <4> QED
        BY <4>2, <4>3
    <3> QED
      BY <3>1, <3>2
  <2> HIDE DEF g, FT, Agrees
  <2> QED
    BY <2>7, <2>8
<1>3. PICK f \in FT : Agrees(f, L - 1)
  <2>1. L - 1 \in 0 .. L - 1
    BY <1>1
  <2> HIDE DEF Agrees, FT, L
  <2> QED
    BY <1>2, <2>1
<1> DEFINE Rec(h) == [k \in 1 .. Len(t) + 1 |->
               IF k > Len(t) THEN {<< >>} ELSE EncodedBefore(t[k], h[k + 1])]
<1>4. f = Rec(f)
  <2>1. \A k \in All : f[k] = IF k > Len(t) THEN {<< >>} ELSE EncodedBefore(t[k], f[k + 1])
    BY <1>1, <1>3
  <2> QED
    BY <1>3, <2>1
<1>5. EncodingsFrom(t) = CHOOSE h : h = Rec(h)
  BY DEF EncodingsFrom
<1> DEFINE e == EncodingsFrom(t)
<1>6. e = Rec(e)
  <2> HIDE DEF Rec
  <2>1. (CHOOSE h : h = Rec(h)) = Rec(CHOOSE h : h = Rec(h))
    BY <1>4
  <2> QED
    BY <1>5, <2>1
<1> HIDE DEF e
<1>7. /\ e[Len(t) + 1] = {<< >>}
      /\ \A k \in 1 .. Len(t) : e[k] = EncodedBefore(t[k], e[k + 1])
  <2>1. \A k \in 1 .. Len(t) + 1 :
            e[k] = IF k > Len(t) THEN {<< >>} ELSE EncodedBefore(t[k], e[k + 1])
    BY <1>6, Zenon
  <2>2. Len(t) \in Nat
    OBVIOUS
  <2> HIDE DEF Rec
  <2> QED
    BY <2>1, <2>2
<1>8. e \in [1 .. Len(t) + 1 -> SUBSET Seq(Bytes)]
  <2> DEFINE Wrong == {n \in 0 .. L - 1 : e[L - n] \notin SUBSET Seq(Bytes)}
  <2>1. Wrong = {}
    <3> SUFFICES ASSUME Wrong # {} PROVE FALSE
      OBVIOUS
    <3>1. PICK n \in Wrong : \A k \in Wrong : n <= k
      <4>1. Wrong \subseteq Nat
        OBVIOUS
      <4> HIDE DEF Wrong
      <4> QED
        BY <4>1, SmallestExists
    <3>2. n # 0
      <4>1. L - 0 = Len(t) + 1
        OBVIOUS
      <4>2. {<< >>} \in SUBSET Seq(Bytes)
        OBVIOUS
      <4>3. e[L - 0] \in SUBSET Seq(Bytes)
        BY <1>7, <4>1, <4>2, Zenon
      <4>4. e[L - n] \notin SUBSET Seq(Bytes)
        OBVIOUS
      <4> HIDE DEF Wrong, L
      <4> QED
        BY <4>3, <4>4
    <3>3. n - 1 \in 0 .. L - 1 /\ n - 1 \notin Wrong /\ L - n \in 1 .. Len(t)
      <4>1. n \in 1 .. L - 1
        BY <1>1, <3>2
      <4>2. n - 1 \notin Wrong
        <5> HIDE DEF Wrong
        <5> QED
          BY <3>1, <4>1
      <4> HIDE DEF Wrong
      <4> QED
        BY <1>1, <4>1, <4>2
    <3>4. e[L - n + 1] \in SUBSET Seq(Bytes)
      <4>1. L - (n - 1) = L - n + 1
        BY <1>1, <3>3
      <4> QED
        BY <3>3, <4>1
    <3>5. t[L - n] \in Bytes
      BY <3>3
    <3>6. EncodedBefore(t[L - n], e[L - n + 1]) \in SUBSET Seq(Bytes)
      <4> HIDE DEF Wrong, L
      <4> QED
        BY <3>4, <3>5, EncodedBeforeType
    <3>7. e[L - n] = EncodedBefore(t[L - n], e[L - n + 1])
      BY <1>7, <3>3, Zenon
    <3> QED
      BY <3>6, <3>7
  <2>2. \A k \in 1 .. Len(t) + 1 : e[k] \in SUBSET Seq(Bytes)
    <3> SUFFICES ASSUME NEW k \in 1 .. Len(t) + 1 PROVE e[k] \in SUBSET Seq(Bytes)
      OBVIOUS
    <3>1. L - k \in 0 .. L - 1 /\ L - (L - k) = k
      BY <1>1
    <3> QED
      BY <2>1, <3>1
  <2> QED
    BY <1>6, <2>2
<1> QED
  BY <1>7, <1>8 DEF e

-------------------------------------------------------------------------------
(* The invariant: what has been decoded is the beginning of the text, and what  *)
(* is left of the path encodes what is left of the text.                        *)

Behind(s, n) == SubSeq(s, n + 1, Len(s))

RestOfUrl == Behind(url, i)

RestIsEncoded ==
    encoded =>
        /\ Len(decoded) <= Len(text)
        /\ decoded = SubSeq(text, 1, Len(decoded))
        /\ RestOfUrl \in EncodingsFrom(text)[Len(decoded) + 1]

DecodeInv == TypeOK /\ RestIsEncoded

LEMMA TextsAreSequences == \A n \in Nat : Texts(n) \subseteq Seq(Bytes)
  BY DEF Texts

LEMMA EncodingsAreSequences ==
    ASSUME NEW t \in Seq(Bytes)
    PROVE  Encodings(t) \subseteq Seq(Bytes)
<1>1. 1 \in 1 .. Len(t) + 1
  OBVIOUS
<1> QED
  BY <1>1, EncodingsRecursion DEF Encodings

LEMMA DecodeInit == Init => DecodeInv
<1> SUFFICES ASSUME Init PROVE DecodeInv
  OBVIOUS
<1>1. i = 0 /\ decoded = << >> /\ encoded \in BOOLEAN
  BY DEF Init
<1>2. text \in Seq(Bytes)
  <2>1. text \in Texts(MaxText) \/ text = << >>
    BY DEF Init
  <2>2. Texts(MaxText) \subseteq Seq(Bytes) /\ << >> \in Seq(Bytes)
    BY TextsAreSequences
  <2> QED
    BY <2>1, <2>2
<1>3. url \in Seq(Bytes)
  <2>1. CASE encoded = TRUE
    BY <1>2, <2>1, EncodingsAreSequences DEF Init
  <2>2. CASE encoded # TRUE
    BY <2>2, TextsAreSequences DEF Init
  <2> QED
    BY <2>1, <2>2
<1>4. TypeOK
  BY <1>1, <1>2, <1>3 DEF TypeOK
<1>5. RestIsEncoded
  <2> SUFFICES ASSUME encoded PROVE RestIsEncoded
    BY DEF RestIsEncoded
  <2>1. RestOfUrl = url
    BY <1>1, <1>3, SubSeqFull DEF RestOfUrl, Behind
  <2>2. url \in EncodingsFrom(text)[1]
    BY DEF Init, Encodings
  <2>3. SubSeq(text, 1, 0) = << >>
    BY SubSeqEmpty
  <2>4. Len(decoded) = 0 /\ Len(decoded) + 1 = 1 /\ 0 <= Len(text)
    BY <1>1, <1>2
  <2> QED
    BY <1>1, <2>1, <2>2, <2>3, <2>4, Zenon DEF RestIsEncoded
<1> QED
  BY <1>4, <1>5 DEF DecodeInv

(* A sequence that is left splits where its parts do. *)
SplitsInto(s, n, p, r) ==
    /\ Len(s) = n + Len(p) + Len(r)
    /\ \A j \in 1 .. Len(p) : s[n + j] = p[j]
    /\ Behind(s, n + Len(p)) = r

LEMMA RestSplits ==
    ASSUME NEW s \in Seq(Bytes), NEW n \in 0 .. Len(s),
           NEW p \in Seq(Bytes), NEW r \in Seq(Bytes),
           Behind(s, n) = p \o r
    PROVE  SplitsInto(s, n, p, r)
<1> USE DEF Behind, SplitsInto
<1> DEFINE rest == SubSeq(s, n + 1, Len(s))
<1>1. /\ Len(rest) = Len(s) - n
      /\ \A j \in 1 .. Len(s) - n : rest[j] = s[n + j]
  BY SMTT(30)
<1>2. /\ Len(rest) = Len(p) + Len(r)
      /\ \A j \in 1 .. Len(p) + Len(r) :
             rest[j] = IF j <= Len(p) THEN p[j] ELSE r[j - Len(p)]
  BY ConcatProperties
<1> HIDE DEF rest
<1>3. Len(s) = n + Len(p) + Len(r)
  BY <1>1, <1>2
<1>4. \A j \in 1 .. Len(p) : s[n + j] = p[j]
  BY <1>1, <1>2, <1>3
<1>5. SubSeq(s, n + Len(p) + 1, Len(s)) = r
  <2> DEFINE e == SubSeq(s, n + Len(p) + 1, Len(s))
  <2>1. /\ e \in Seq(Bytes) /\ Len(e) = Len(r)
        /\ \A j \in 1 .. Len(r) : e[j] = s[n + Len(p) + j]
    BY <1>3
  <2> HIDE DEF e
  <2>2. \A j \in 1 .. Len(r) : e[j] = r[j]
    <3> SUFFICES ASSUME NEW j \in 1 .. Len(r) PROVE e[j] = r[j]
      OBVIOUS
    <3>1. Len(p) + j \in 1 .. Len(p) + Len(r) /\ ~ (Len(p) + j <= Len(p))
      OBVIOUS
    <3>2. rest[Len(p) + j] = r[j]
      BY <1>2, <3>1
    <3>3. rest[Len(p) + j] = s[n + Len(p) + j]
      BY <1>1, <1>3, <3>1
    <3> QED
      BY <2>1, <3>2, <3>3
  <2>3. e = r
    BY <2>1, <2>2, SeqEqual
  <2> QED
    BY <2>3 DEF e
<1> QED
  BY <1>3, <1>4, <1>5

(* While an encoding is left, it begins with a piece for the next byte of the    *)
(* text, and what follows the piece encodes what follows that byte.              *)
LEMMA NextPiece ==
    ASSUME DecodeInv, encoded, i < Len(url)
    PROVE  /\ Len(decoded) < Len(text)
           /\ text[Len(decoded) + 1] \in Bytes
           /\ \E p \in Pieces(text[Len(decoded) + 1]),
                 r \in EncodingsFrom(text)[Len(decoded) + 2] :
                 /\ p \in Seq(Bytes) /\ r \in Seq(Bytes)
                 /\ RestOfUrl = p \o r
                 /\ p = <<Percent>> => Len(r) < 2
<1> DEFINE k == Len(decoded)
<1>1. /\ url \in Seq(Bytes) /\ text \in Seq(Bytes) /\ i \in 0 .. Len(url)
      /\ k \in Nat /\ k <= Len(text) /\ Len(text) \in Nat
      /\ RestOfUrl \in EncodingsFrom(text)[k + 1]
  BY DEF DecodeInv, TypeOK, RestIsEncoded
<1> HIDE DEF k
<1>2. Len(RestOfUrl) # 0
  BY <1>1 DEF RestOfUrl, Behind
<1>3. k # Len(text)
  BY <1>1, <1>2, EncodingsRecursion
<1>4. k < Len(text) /\ k + 1 \in 1 .. Len(text) /\ k + 2 \in 1 .. Len(text) + 1 /\ k + 1 + 1 = k + 2
  BY <1>1, <1>3
<1>5. text[k + 1] \in Bytes
  BY <1>1, <1>4
<1>6. /\ RestOfUrl \in EncodedBefore(text[k + 1], EncodingsFrom(text)[k + 2])
      /\ EncodingsFrom(text)[k + 2] \in SUBSET Seq(Bytes)
  BY ZenonT(30), <1>1, <1>4, EncodingsRecursion
<1>7. PICK p \in Pieces(text[k + 1]), r \in EncodingsFrom(text)[k + 2] :
          RestOfUrl = p \o r /\ (p = <<Percent>> => Len(r) < 2)
  BY <1>6 DEF EncodedBefore
<1>8. p \in Seq(Bytes)
  BY <1>5, <1>7, PieceIsOneOf
<1> QED
  BY <1>4, <1>5, <1>6, <1>7, <1>8 DEF k

(* What a step decodes is the next byte of the text, and what is left encodes    *)
(* the rest.                                                                     *)
LEMMA OneByteMore ==
    ASSUME DecodeInv, encoded, NEW v \in Bytes, NEW n \in Nat,
           Len(decoded) < Len(text), v = text[Len(decoded) + 1],
           decoded' = Append(decoded, v), i' = n, UNCHANGED <<url, text, encoded>>,
           Behind(url, n) \in EncodingsFrom(text)[Len(decoded) + 2]
    PROVE  RestIsEncoded'
<1> DEFINE k == Len(decoded)
<1>1. /\ decoded \in Seq(Bytes) /\ text \in Seq(Bytes) /\ k \in Nat
      /\ decoded = SubSeq(text, 1, k)
  BY DEF DecodeInv, TypeOK, RestIsEncoded
<1>2. Len(decoded') = k + 1
  BY <1>1
<1>3. decoded' = SubSeq(text, 1, k + 1)
  <2>1. k + 1 \in 1 .. Len(text) /\ k + 1 - 1 = k
    BY <1>1
  <2>2. SubSeq(text, 1, k + 1) = SubSeq(text, 1, k) \o <<text[k + 1]>>
    <3>1. 1 \in 1 .. Len(text) /\ k + 1 \in 1 .. Len(text)
      BY <2>1
    <3> HIDE DEF k
    <3> QED
      BY <1>1, <2>1, <3>1, SubSeqRecursiveSecond
  <2>3. Append(decoded, v) = decoded \o <<v>>
    BY <1>1, AppendIsConcat
  <2> QED
    BY <1>1, <2>2, <2>3
<1>4. RestOfUrl' = Behind(url, n)
  BY DEF RestOfUrl, Behind
<1>5. k + 1 <= Len(text) /\ k + 1 + 1 = k + 2
  BY <1>1
<1> HIDE DEF k
<1>6. RestOfUrl' \in EncodingsFrom(text)[k + 2]
  BY <1>4 DEF k
<1> QED
  BY <1>2, <1>3, <1>5, <1>6 DEF RestIsEncoded

(* The bytes a step looks at. *)
LEMMA UrlBytes ==
    ASSUME TypeOK
    PROVE  /\ url \in Seq(Bytes) /\ i \in Nat /\ Len(url) \in Nat
           /\ decoded \in Seq(Bytes) /\ Len(decoded) \in Nat /\ Len(decoded) <= i
           /\ i < Len(url) => url[i + 1] \in Bytes
           /\ HasRoom => i + 3 <= Len(url) /\ url[i + 2] \in Bytes /\ url[i + 3] \in Bytes
  BY DEF TypeOK, HasRoom

(* An escape is decoded to the byte it stands for.  No byte that stands for      *)
(* itself is taken for one: a '%' would need room for two digits.                *)
LEMMA TakesEscapeKeeps == ASSUME DecodeInv, TakesEscape PROVE DecodeInv'
<1>1. PICK v \in Value : decoded' = Append(decoded, v)
  BY DEF TakesEscape
<1>2. /\ i < Len(url) /\ i' = i + 3 /\ UNCHANGED <<url, text, encoded>>
      /\ url[i + 1] = Percent /\ HasRoom /\ v \in strtoul(url[i + 2], url[i + 3])
  BY <1>1 DEF TakesEscape, Value
<1>3. v \in Bytes
  BY <1>2, UrlBytes, NumbersAreBytes DEF DecodeInv
<1>4. TypeOK'
  BY <1>1, <1>2, <1>3, UrlBytes DEF DecodeInv, TypeOK
<1>5. ASSUME encoded PROVE RestIsEncoded'
  <2> DEFINE k == Len(decoded)
             b == text[k + 1]
  <2>1. /\ k < Len(text) /\ b \in Bytes
        /\ \E p \in Pieces(b), r \in EncodingsFrom(text)[k + 2] :
              /\ p \in Seq(Bytes) /\ r \in Seq(Bytes)
              /\ RestOfUrl = p \o r
              /\ p = <<Percent>> => Len(r) < 2
    BY <1>2, <1>5, NextPiece
  <2> HIDE DEF k, b
  <2>2. PICK p \in Pieces(b), r \in EncodingsFrom(text)[k + 2] :
              /\ p \in Seq(Bytes) /\ r \in Seq(Bytes)
              /\ RestOfUrl = p \o r
              /\ p = <<Percent>> => Len(r) < 2
    BY <2>1
  <2>3. /\ Len(url) = i + Len(p) + Len(r)
        /\ \A j \in 1 .. Len(p) : url[i + j] = p[j]
        /\ Behind(url, i + Len(p)) = r
    <3>1. url \in Seq(Bytes) /\ i \in 0 .. Len(url)
      BY DEF DecodeInv, TypeOK
    <3>2. Behind(url, i) = p \o r /\ p \in Seq(Bytes) /\ r \in Seq(Bytes)
      BY <2>2 DEF RestOfUrl
    <3>3. SplitsInto(url, i, p, r)
      BY <3>1, <3>2, RestSplits, Zenon
    <3> QED
      BY <3>3 DEF SplitsInto
  <2>4. p # <<b>>
    <3> SUFFICES ASSUME p = <<b>> PROVE FALSE
      OBVIOUS
    <3>1. Len(p) = 1 /\ p[1] = b
      OBVIOUS
    <3>2. url[i + 1] = b
      BY <2>3, <3>1
    <3>3. Len(r) < 2
      BY <1>2, <2>2, <3>2
    <3> QED
      BY <1>2, <2>2, <2>3, <3>1, <3>3, UrlBytes DEF DecodeInv
  <2>5. PICK x \in Digits, y \in Digits : p = <<Percent, x, y>> /\ strtoul(x, y) = {b}
    BY <2>1, <2>2, <2>4, PieceIsOneOf
  <2>6. Len(p) = 3 /\ url[i + 2] = x /\ url[i + 3] = y
    BY <2>3, <2>5
  <2>7. v = b
    BY <1>2, <2>5, <2>6
  <2>8. i + 3 \in Nat /\ Behind(url, i + 3) = r
    BY <2>3, <2>6, UrlBytes DEF DecodeInv
  <2> QED
    BY <1>1, <1>2, <1>3, <1>5, <2>1, <2>2, <2>7, <2>8, OneByteMore DEF k, b
<1> QED
  BY <1>2, <1>4, <1>5 DEF DecodeInv, RestIsEncoded

(* Any other byte stands for itself: an escape would have had a value.           *)
LEMMA TakesByteKeeps == ASSUME DecodeInv, TakesByte PROVE DecodeInv'
<1>1. /\ i < Len(url) /\ i' = i + 1 /\ UNCHANGED <<url, text, encoded>>
      /\ Value = {} /\ decoded' = Append(decoded, url[i + 1])
  BY DEF TakesByte
<1>2. url[i + 1] \in Bytes
  BY <1>1, UrlBytes DEF DecodeInv
<1>3. TypeOK'
  BY <1>1, <1>2, UrlBytes DEF DecodeInv, TypeOK
<1>4. ASSUME encoded PROVE RestIsEncoded'
  <2> DEFINE k == Len(decoded)
             b == text[k + 1]
  <2>1. /\ k < Len(text) /\ b \in Bytes
        /\ \E p \in Pieces(b), r \in EncodingsFrom(text)[k + 2] :
              /\ p \in Seq(Bytes) /\ r \in Seq(Bytes)
              /\ RestOfUrl = p \o r
              /\ p = <<Percent>> => Len(r) < 2
    BY <1>1, <1>4, NextPiece
  <2> HIDE DEF k, b
  <2>2. PICK p \in Pieces(b), r \in EncodingsFrom(text)[k + 2] :
              /\ p \in Seq(Bytes) /\ r \in Seq(Bytes)
              /\ RestOfUrl = p \o r
    BY <2>1
  <2>3. /\ Len(url) = i + Len(p) + Len(r)
        /\ \A j \in 1 .. Len(p) : url[i + j] = p[j]
        /\ Behind(url, i + Len(p)) = r
    <3>1. url \in Seq(Bytes) /\ i \in 0 .. Len(url)
      BY DEF DecodeInv, TypeOK
    <3>2. Behind(url, i) = p \o r /\ p \in Seq(Bytes) /\ r \in Seq(Bytes)
      BY <2>2 DEF RestOfUrl
    <3>3. SplitsInto(url, i, p, r)
      BY <3>1, <3>2, RestSplits, Zenon
    <3> QED
      BY <3>3 DEF SplitsInto
  <2>4. p = <<b>>
    <3> SUFFICES ASSUME p # <<b>> PROVE FALSE
      OBVIOUS
    <3>1. PICK x \in Digits, y \in Digits : p = <<Percent, x, y>> /\ strtoul(x, y) = {b}
      BY <2>1, <2>2, PieceIsOneOf
    <3>2. Len(p) = 3 /\ url[i + 1] = Percent /\ url[i + 2] = x /\ url[i + 3] = y
      BY <2>3, <3>1
    <3>3. HasRoom
      BY <2>2, <2>3, <3>2, UrlBytes DEF HasRoom, DecodeInv
    <3> QED
      BY <1>1, <3>1, <3>2, <3>3 DEF Value
  <2>5. Len(p) = 1 /\ url[i + 1] = b
    BY <2>3, <2>4
  <2>6. i + 1 \in Nat /\ Behind(url, i + 1) = r
    BY <2>3, <2>5, UrlBytes DEF DecodeInv
  <2> QED
    BY <1>1, <1>2, <1>4, <2>1, <2>2, <2>5, <2>6, OneByteMore DEF k, b
<1> QED
  BY <1>1, <1>3, <1>4 DEF DecodeInv, RestIsEncoded

LEMMA DecodeStep == DecodeInv /\ [Next]_vars => DecodeInv'
<1> SUFFICES ASSUME DecodeInv, [Next]_vars PROVE DecodeInv'
  OBVIOUS
<1>1. CASE UNCHANGED vars
  BY <1>1 DEF DecodeInv, TypeOK, RestIsEncoded, RestOfUrl, Behind, vars
<1>2. CASE Next
  BY <1>2, TakesEscapeKeeps, TakesByteKeeps DEF Next
<1> QED
  BY <1>1, <1>2

LEMMA DecodeAlways == Spec => []DecodeInv
BY DecodeInit, DecodeStep, PTL DEF Spec

-------------------------------------------------------------------------------
(* Theorems. *)

\* Whatever the path, what is decoded consists of bytes, is no longer than what has
\* been looked at, and nothing behind the end of the path is.
THEOREM DecodingTypeCorrect == Spec => []TypeOK
<1>1. DecodeInv => TypeOK
  BY DEF DecodeInv
<1> QED
  BY <1>1, DecodeAlways, PTL

\* Decoding gives back every text that was encoded, whatever of it was escaped.
THEOREM DecodingSafety == Spec => []EncodedIsDecoded
<1>1. ASSUME DecodeInv PROVE EncodedIsDecoded
  <2> SUFFICES ASSUME encoded
               PROVE  /\ decoded = SubSeq(text, 1, Len(decoded))
                      /\ i = Len(url) => decoded = text
    BY DEF EncodedIsDecoded
  <2>1. decoded = SubSeq(text, 1, Len(decoded)) /\ text \in Seq(Bytes)
    BY <1>1 DEF DecodeInv, RestIsEncoded, TypeOK
  <2>2. ASSUME i = Len(url) PROVE decoded = text
    <3>1. RestOfUrl = << >>
      BY <1>1, <2>2, UrlBytes, SubSeqEmpty DEF RestOfUrl, Behind, DecodeInv
    <3>2. Len(decoded) = Len(text)
      <4> SUFFICES ASSUME Len(decoded) # Len(text) PROVE FALSE
        OBVIOUS
      <4>1. /\ Len(decoded) + 1 \in 1 .. Len(text)
            /\ Len(decoded) + 2 \in 1 .. Len(text) + 1
            /\ Len(decoded) + 1 + 1 = Len(decoded) + 2
        BY <1>1, <2>1, UrlBytes DEF DecodeInv, RestIsEncoded
      <4>2. /\ EncodingsFrom(text)[Len(decoded) + 1]
                = EncodedBefore(text[Len(decoded) + 1], EncodingsFrom(text)[Len(decoded) + 2])
            /\ EncodingsFrom(text)[Len(decoded) + 2] \in SUBSET Seq(Bytes)
        BY <2>1, <4>1, EncodingsRecursion
      <4>3. << >> \in EncodedBefore(text[Len(decoded) + 1], EncodingsFrom(text)[Len(decoded) + 2])
        BY <1>1, <3>1, <4>2 DEF DecodeInv, RestIsEncoded
      <4>4. PICK p \in Pieces(text[Len(decoded) + 1]),
                 r \in EncodingsFrom(text)[Len(decoded) + 2] : << >> = p \o r
        BY <4>3 DEF EncodedBefore
      <4>5. p \in Seq(Bytes) /\ r \in Seq(Bytes) /\ Len(p) >= 1
        <5>1. text[Len(decoded) + 1] \in Bytes
          BY <2>1, <4>1
        <5>2. /\ p \in Seq(Bytes)
              /\ \/ p = <<text[Len(decoded) + 1]>>
                 \/ \E x, y \in Digits : p = <<Percent, x, y>>
          BY <4>4, <5>1, PieceIsOneOf
        <5>3. CASE p = <<text[Len(decoded) + 1]>>
          BY <4>2, <4>4, <5>2, <5>3
        <5>4. CASE \E x, y \in Digits : p = <<Percent, x, y>>
          BY <4>2, <4>4, <5>2, <5>4
        <5> QED
          BY <5>2, <5>3, <5>4
      <4>6. Len(<< >>) = Len(p) + Len(r) /\ Len(<< >>) = 0 /\ Len(r) \in Nat
        BY SMTT(30), <4>4, <4>5, ConcatProperties
      <4> QED
        BY <4>5, <4>6
    <3> QED
      BY <2>1, <3>2, SubSeqFull
  <2> QED
    BY <2>1, <2>2
<1> QED
  BY <1>1, DecodeAlways, PTL
===============================================================================
