------------------------- MODULE MCLocalVisibility -------------------------
(* An instance of LocalVisibility: a location of an organization. *)
EXTENDS LocalVisibility

CONSTANTS l1, o1

MCOrgOf == [l \in {l1} |-> o1]

\* The price of a call, none at all, and one above it with a failed call.
MCAnswer == {<<"ok", 3>>, <<"ok", 0>>, <<"failed", 4>>}
=============================================================================
