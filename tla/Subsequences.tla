---------------------------- MODULE Subsequences ----------------------------
(***************************************************************************)
(* Array.prototype.filter: the part of a sequence that lies at a given set *)
(* of positions, in the original order.  It is a recursive function and    *)
(* not SelectSeq so that what it returns can be proved (SubsequenceFacts). *)
(***************************************************************************)
EXTENDS Integers, Sequences

Subsequence(s, positions) ==
  LET kept[i \in 0..Len(s)] ==
        IF i = 0 THEN << >>
        ELSE IF i \in positions THEN Append(kept[i - 1], s[i]) ELSE kept[i - 1]
  IN kept[Len(s)]

=============================================================================
