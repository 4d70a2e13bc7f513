-------------------------- MODULE MCCatalogPublish --------------------------
(***************************************************************************)
(* Model-checking instance of CatalogPublish.                              *)
(***************************************************************************)
EXTENDS CatalogPublish, TLC

(***************************************************************************)
(* The contents `extended' conform to every catalog version but the first. *)
(***************************************************************************)
CONSTANTS empty, extended, firstCV

MCData == {empty, extended}

MCConforming == ({empty} \X CVs) \cup ({extended} \X (CVs \ {firstCV}))

Symmetry == Permutations(Names) \cup Permutations(Cats) \cup Permutations(Reqs)

(***************************************************************************)
(* Bounds of the sequential run: one kind of trouble in a behaviour, and,  *)
(* once Kubernetes has failed, no second catalog version.                  *)
(***************************************************************************)
SequentialBound ==
    /\ \A x, y \in trouble : x = y
    /\ "k8s" \in trouble => \A c \in Live : row[c].cv = firstCV

(***************************************************************************)
(* No action reads the history `trouble': runs whose properties do not     *)
(* either need not tell states apart by it.                                *)
(***************************************************************************)
WithoutTrouble == <<tables, cr, req, validated>>

=============================================================================
