------------------------------- MODULE Filter -------------------------------
(***************************************************************************)
(* The elements of a sequence that are in a set, in their order.  This is  *)
(* SelectSeq with a set for a test, defined by a recursive function, so    *)
(* that its laws can be proved (FilterProofs).                             *)
(***************************************************************************)
EXTENDS Integers, Sequences

\* Kept(s, S)[i] is the filtered prefix of length i.
Kept(s, S) ==
  LET kept[i \in 0..Len(s)] ==
        IF i = 0 THEN <<>>
        ELSE IF s[i] \in S THEN Append(kept[i - 1], s[i])
        ELSE kept[i - 1]
  IN  kept

Only(s, S) == Kept(s, S)[Len(s)]

\* What the messages of s that are in S carry.
Bodies(s, S) ==
  LET kept == Only(s, S) IN [i \in 1..Len(kept) |-> kept[i].body]
=============================================================================
