-------------------------- MODULE MCInstanceStore --------------------------
(***************************************************************************)
(* Model-checking instance of InstanceStore: two entity types, of which    *)
(* the first contains the second, and one association between them that    *)
(* goes both ways.                                                         *)
(***************************************************************************)
EXTENDS InstanceStore, TLC

CONSTANTS A, B,       \* the entity types
          firstName,  \* the name of top-level instances
          MaxVersion  \* bound on the versions of an instance

MCContains == {<<A, B>>}

MCAssocs == {[from |-> A, to |-> B, both |-> TRUE]}

Symmetry == Permutations(Insts) \cup Permutations(LinkIds)
              \cup Permutations(Attrs) \cup Permutations(Catalogs) \cup Permutations(Reqs)

LiveCells == {c \in cells : c.id \in live}

(***************************************************************************)
(* Bounds of the runs: the versions of an instance, one more for a         *)
(* containing one when no id is left; attribute values and a second link   *)
(* only while an id is left; a second name only for contained instances,   *)
(* which then have no values and no links.                                 *)
(***************************************************************************)
Bound ==
    /\ \A i \in live :
         inst[i].version <= MaxVersion + IF Unborn = {} /\ inst[i].type = A THEN 1 ELSE 0
    /\ Unborn = {} => LiveCells = {} /\ Cardinality(usedLinks) <= 1
    /\ \A i \in live : inst[i].name # firstName =>
         inst[i].parent # NoInst /\ LiveCells = {} /\ usedLinks = {}

(***************************************************************************)
(* With one request at a time nobody remembers a deleted instance: what    *)
(* the tables still say of it makes no difference, and no property asks    *)
(* which failure there was.                                                *)
(***************************************************************************)
WithoutDeleted ==
    <<[i \in Insts |-> IF i \in live THEN inst[i] ELSE NoRow], Unborn,
      LiveCells, links, usedLinks, req, trouble = {}>>

(***************************************************************************)
(* No action reads the history `trouble'.                                  *)
(***************************************************************************)
WithoutTrouble == <<rows, cells, linkTable, req>>

=============================================================================
