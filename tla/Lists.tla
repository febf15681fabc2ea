------------------------------- MODULE Lists -------------------------------
(***************************************************************************)
(* The sequence operator that the feed and the store share, written as a   *)
(* recursive function so that theorems can speak of it.                    *)
(***************************************************************************)
EXTENDS Naturals, Sequences

(* The elements of a sequence that are not in S, in their order.           *)
Sans(s, S) ==
  LET f[k \in 0..Len(s)] ==
        IF k = 0 THEN <<>> ELSE IF s[k] \in S THEN f[k - 1] ELSE Append(f[k - 1], s[k])
  IN f[Len(s)]
=============================================================================
