------------------------------- MODULE Lists --------------------------------
(***************************************************************************)
(* The filters of the importers: an iterator's filter, filter_map or       *)
(* retain, told by the set of what passes it.                              *)
(***************************************************************************)
EXTENDS Integers, Sequences

\* Those of list that are in S, in their order.
Among(list, S) ==
    LET of[n \in 0..Len(list)] ==
            IF n = 0 THEN <<>>
            ELSE IF list[n] \in S THEN Append(of[n - 1], list[n]) ELSE of[n - 1]
    IN  of[Len(list)]
=============================================================================
