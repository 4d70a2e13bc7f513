-------------------------- MODULE MCCatalogVersions --------------------------
(***************************************************************************)
(* Bounded instances of CatalogVersions with the schema of EntityTypes.    *)
(***************************************************************************)
EXTENDS CatalogVersions, TLC

CONSTANTS A, B, C,         \* entity types; A and B exist at the start
          f1, f2,          \* fields
          n1, n2, n3,      \* type names
          string, custom,  \* type definitions
          c1, c2, p1, p2, k1, q1, q2,
          l1, l2, l3, r1   \* labels; r1 is the resource name of l1 and l2

MCBorn == (A :> n1) @@ (B :> n2)
MCCRName == (l1 :> r1) @@ (l2 :> r1) @@ (l3 :> None)

Work(ops, busy, faults, n, m) ==
    [ops |-> ops, busy |-> busy, faults |-> faults, versions |-> n, cvs |-> m]

(* Requests, fields, catalog versions and pins are interchangeable. *)
MCSymmetry == Permutations(Reqs) \cup Permutations(Fields)
                \cup Permutations(CVs) \cup Permutations(Pins)

MCWorkloads == {
    \* edits of one type or two that overlap
    Work({"addAttribute", "removeAttribute", "editAttribute", "describe"}, 2, FALSE, 5, 0),
    \* the graph of associations
    Work({"createAssociation", "editAssociation", "deleteAssociation", "addAttribute"},
         1, FALSE, 5, 0),
    \* type definitions, types
    Work({"createDef", "updateDef", "deleteDef", "addAttribute"}, 1, TRUE, 4, 0),
    Work({"createType", "copyType", "rename", "deleteType", "describe", "reorder",
          "copyAttributes", "addAttribute"}, 1, FALSE, 4, 0),
    Work({"describe", "rename", "deleteType"}, 2, FALSE, 3, 0),
    \* the life of catalog versions
    Work({"createCV", "promote", "demote", "deleteCV", "updateCV", "stray"}, 1, TRUE, 2, 1),
    Work({"createCV", "promote", "demote", "deleteCV", "updateCV"}, 1, FALSE, 2, 2),
    Work({"createCV", "promote", "rename"}, 1, FALSE, 3, 2),
    Work({"createCV", "promote", "demote", "addPin", "deleteType", "stray"}, 1, FALSE, 2, 1),
    \* pins, and the catalogs under them
    Work({"createCV", "promote", "demote", "addPin", "updatePin", "removePin", "describe"},
         1, FALSE, 3, 1),
    Work({"createCV", "addPin", "updatePin", "removePin", "createCatalog", "validate",
          "describe"}, 1, FALSE, 3, 1),
    Work({"createCV", "addPin", "updatePin", "removePin", "createCatalog", "validate",
          "stray"}, 1, FALSE, 2, 1),
    Work({"createCV", "updatePin", "createCatalog", "setValue", "addAttribute",
          "editAttribute", "removeAttribute"}, 1, FALSE, 4, 1) }

=============================================================================
