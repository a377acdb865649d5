-------------------------------- MODULE Lists --------------------------------
(***************************************************************************)
(* The two list comprehensions that the payment code of server and popup   *)
(* is made of: the entries of a list that match, in their order, and what  *)
(* some amounts add up to.  They are recursive functions, not folds of the *)
(* library, so that they can be reasoned about.                            *)
(***************************************************************************)
EXTENDS Integers, Sequences

(* The entries at the positions in S, in their order. *)
At(es, S) ==
    LET upTo[n \in 0..Len(es)] ==
            IF n = 0 THEN <<>> ELSE IF n \in S THEN Append(upTo[n - 1], es[n]) ELSE upTo[n - 1]
    IN  upTo[Len(es)]

OfKind(es, kind) == At(es, {i \in DOMAIN es : es[i].kind = kind})

Total(amounts) ==
    LET upTo[n \in 0..Len(amounts)] == IF n = 0 THEN 0 ELSE upTo[n - 1] + amounts[n]
    IN  upTo[Len(amounts)]
=============================================================================
