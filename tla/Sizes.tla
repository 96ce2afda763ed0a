------------------------------- MODULE Sizes --------------------------------
(***************************************************************************)
(* The bytes of a queue of datagrams or packets, each with a field size.   *)
(***************************************************************************)
EXTENDS Naturals, Sequences

\* Sizes(s)[n] is the bytes of the first n of s.
Sizes(s) ==
    LET upTo[n \in 0..Len(s)] == IF n = 0 THEN 0 ELSE upTo[n - 1] + s[n].size
    IN upTo

TotalSize(s) == Sizes(s)[Len(s)]

Least(a, b) == IF a < b THEN a ELSE b
=============================================================================
