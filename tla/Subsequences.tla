---------------------------- MODULE Subsequences ----------------------------
(***************************************************************************)
(* The subsequence of s at the indices in I: what a loop over a slice that *)
(* appends some of its elements to another builds, element by element.     *)
(***************************************************************************)
EXTENDS Integers, Sequences

\* What the loop has built after each of its rounds.
KeptUpTo(s, I) ==
  LET built[i \in 0..Len(s)] ==
        IF i = 0 THEN << >>
        ELSE IF i \in I THEN Append(built[i - 1], s[i]) ELSE built[i - 1]
  IN  built

Kept(s, I) == KeptUpTo(s, I)[Len(s)]
=============================================================================
