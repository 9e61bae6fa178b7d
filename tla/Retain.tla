------------------------------- MODULE Retain -------------------------------
(***************************************************************************)
(* Vec::retain of the standard library, as the client uses it: elements    *)
(* are taken out of a list and the others stay in their order.  What stays *)
(* is given by the set of its places.                                      *)
(***************************************************************************)
EXTENDS Naturals, Sequences

\* retain looks at one place after the other.
Retained(list, places) ==
    LET upTo[n \in 0..Len(list)] ==
            IF n = 0 THEN <<>>
            ELSE IF n \in places THEN Append(upTo[n - 1], list[n]) ELSE upTo[n - 1]
    IN  upTo[Len(list)]
=============================================================================
