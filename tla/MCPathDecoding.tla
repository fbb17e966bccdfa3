---------------------------- MODULE MCPathDecoding ----------------------------
EXTENDS PathDecoding

\* Bytes 0 and 1 are '0' and '1', 2 and 3 the same digit in both cases.
MCDigit == [b \in 0 .. 3 |-> IF b = 3 THEN 2 ELSE b]

MCBlanks == {5}
===============================================================================
