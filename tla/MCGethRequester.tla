--------------------------- MODULE MCGethRequester ---------------------------
(* GethRequester on a small instance: digits 0 and 1, two to a byte, hashes  *)
(* of two bytes, numbers of at most two, and headers of a tag and a number.  *)
EXTENDS GethRequester, Functions, TLC

CONSTANTS t1, t2

MCHash == t1 :> <<1, 0>> @@ t2 :> <<1, 1>>

\* A digit too many is a byte by itself; 9 is no digit.
MCDecode(digits) ==
    IF 9 \in Range(digits) THEN {}
    ELSE LET even == IF Len(digits) % 2 = 0 THEN digits ELSE <<0>> \o digits
         IN  {[i \in 1..(Len(even) \div 2) |-> 2 * even[2 * i - 1] + even[2 * i]]}

MCFromBytes(bytes) ==
    CASE Len(bytes) = 0 -> {0}
      [] Len(bytes) = 1 -> {bytes[1]}
      [] Len(bytes) = 2 -> {4 * bytes[1] + bytes[2]}
      [] OTHER          -> {}

MCParseNumber(hdr) == IF hdr # <<>> /\ hdr[1] = 1 THEN {Tail(hdr)} ELSE {}

Hash1 == Str(TRUE, <<0, 1, 0, 0>>)
Hash2 == Str(TRUE, <<0, 1, 0, 1>>)
None  == Str(TRUE, <<>>)

\* The hashes; strings without prefix, digits or a byte more, with an odd number
\* of digits, with what is no digit, and no header; lists of them, and the rest.
MCBodies ==
    {Hash1, Hash2, None, Str(FALSE, <<0, 1, 0, 0>>), Str(TRUE, <<1>>), Str(TRUE, <<1, 0, 1>>),
     Str(TRUE, <<9, 1>>), Str(TRUE, <<0, 0, 1, 1>>), Str(TRUE, <<0, 1, 0, 0, 0, 1, 0, 0>>),
     ListOf(<<>>), ListOf(<<Hash1, Hash2>>), ListOf(<<Hash1, None>>), ListOf(<<Null>>),
     Object, Null, Garbage}
=============================================================================
