------------------------------- MODULE CaseLists -------------------------------
(* What the list comprehensions of the case programs do.                   *)
EXTENDS Integers, Sequences

(* The elements of s at the positions in I, in their order.                *)
Those(s, I) ==
    LET upTo[i \in 0 .. Len(s)] ==
          IF i = 0 THEN <<>>
          ELSE IF i \in I THEN Append(upTo[i - 1], s[i]) ELSE upTo[i - 1]
    IN  upTo[Len(s)]
=============================================================================
