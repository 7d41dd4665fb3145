---------------------------- MODULE Subsequence ----------------------------
(***************************************************************************)
(* The part of a sequence that a filter keeps, as Array.filter and the     *)
(* pruning loops over a Map leave it: the elements of s that are in T, in  *)
(* their order.  It is a function on the indices, so that it can be        *)
(* reasoned about by induction.                                            *)
(***************************************************************************)
EXTENDS Naturals, Sequences

Kept(s, T) ==
  LET upTo[i \in 0..Len(s)] ==
        IF i = 0 THEN << >>
        ELSE IF s[i] \in T THEN Append(upTo[i - 1], s[i]) ELSE upTo[i - 1]
  IN upTo[Len(s)]
=============================================================================
