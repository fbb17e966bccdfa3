---------------------------- MODULE MCHTMLParser ----------------------------
(* Instances of HTMLParser for TLC: parsers can be exchanged.                 *)
EXTENDS HTMLParser, TLC

OneFlagEach == {f \in Flags : f.markdown # f.sanitize}
ParserSymmetry == Permutations(Parsers)
===============================================================================
