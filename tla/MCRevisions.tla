----------------------------- MODULE MCRevisions -----------------------------
(***************************************************************************)
(* Small families for Revisions: a released version; two second versions,  *)
(* drafts or released, from before the rule that there is one; versions    *)
(* without a lineage.                                                      *)
(***************************************************************************)
EXTENDS Revisions, TLC

V(version, of, state) ==
    [version |-> version, of |-> of, state |-> state, name |-> "p", library |-> version = 1, lock |-> 1]

MCFamilies ==
    {1 :> V(1, None, "RELEASED"),
     1 :> V(1, None, "RELEASED") @@ 2 :> V(2, 1, "RELEASED") @@ 3 :> V(2, 1, "RELEASED"),
     1 :> V(1, None, "RELEASED") @@ 2 :> V(2, 1, "REVIEW") @@ 3 :> V(2, 1, "ENTWURF"),
     1 :> V(1, None, "RELEASED") @@ 2 :> V(2, None, "RELEASED")}

Symmetry == Permutations(Request)
=============================================================================
