-------------------------------- MODULE Lists --------------------------------
(***************************************************************************)
(* Lists of the code that lose members.                                    *)
(***************************************************************************)
EXTENDS Integers, Sequences

\* The members of s that are in S, in their order.  It is SelectSeq, written as
\* a recursive function, so that what it keeps can be proved of it.
Only(s, S) ==
  LET kept[i \in 0 .. Len(s)] ==
        IF i = 0 THEN <<>>
        ELSE IF s[i] \in S THEN Append(kept[i - 1], s[i]) ELSE kept[i - 1]
  IN  kept[Len(s)]
=============================================================================
