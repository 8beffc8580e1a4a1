------------------------------- MODULE MCLists --------------------------------
(***************************************************************************)
(* Lists alone, walked with a filter that a hand-written `filter_list`     *)
(* applies, and with the same filter declared.                             *)
(***************************************************************************)
EXTENDS Lists

WalkRows == {[pk |-> k, val |-> v, tag |-> k % 2] : k \in 1..3, v \in {null, 0, 1}}

Filter(handmade) == [handmade |-> handmade, lookup |-> "exact", field |-> "tag", value |-> 1]

Walk(fltr) ==
    [shape |-> "cursor", sort |-> <<[name |-> "val", desc |-> FALSE]>>, fltr |-> fltr,
     offset |-> 0, limit |-> 1]

Walks == {Walk(Filter(TRUE)), Walk(Filter(FALSE))}
=============================================================================
