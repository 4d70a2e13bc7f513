------------------------------ MODULE Validation ------------------------------
(***************************************************************************)
(* What the validation of a catalog reports: CatalogValidationService.     *)
(* A database d is a record of                                             *)
(*   defs      type definition |-> its versions                            *)
(*   types     entity type |-> its versions                                *)
(*   cvs       label |-> [pins, typePins] of a catalog version             *)
(*   catalogs  name |-> [label, nodes, links, status, origin]              *)
(* A version of a definition has a base type and the values its            *)
(* constraints admit; a version of an entity type has attributes and       *)
(* associations by name, with cardinalities <<min, max>>.                  *)
(*                                                                         *)
(* The rows of instances are unique by type, parent and name, so here an   *)
(* instance is its path from the root, a sequence of <<type, name>>.  Its  *)
(* values are kept by attribute, <<version, name>> of its type; a link     *)
(* names its association as <<type, version, name>>.                       *)
(***************************************************************************)
EXTENDS Integers, FiniteSets, SequencesExt

Many == -1                              \* the "n" of a cardinality

TypeOf(path) == Last(path)[1]

IsRoot(path) == Len(path) = 1

Version(d, t, k) == d.types[t][k]

Pins(d, c) == d.cvs[c.label].pins

Pinned(d, c) == {p \in DOMAIN c.nodes : TypeOf(p) \in DOMAIN Pins(d, c)}

SchemaOf(d, c, t) == Version(d, t, Pins(d, c)[t])

(***************************************************************************)
(* The base types that are kept and checked alike are one here: "string"   *)
(* is also url, date, boolean and enum, "number" integer.  A value has a   *)
(* column for each, JSON and lists share one.  What length, pattern,       *)
(* bounds, element type or list of values a definition's constraints       *)
(* demand is the set of values they admit: of a list, the texts of arrays, *)
(* and of null.  "bare" is text that is no JSON.                           *)
(***************************************************************************)
Column(base) == IF base = "list" THEN "json" ELSE base

IsEmptyValue(base, value) == value[Column(base)] = ""

Admits(def, value) ==
    IF def.base = "json" THEN value.json # "bare" ELSE value[Column(def.base)] \in def.allowed

BelowMin(n, card) == n < card[1]

(* MUTANT: the maximum itself is too many. *)
AtMax(n, card) == card[2] # Many /\ n >= card[2]

AboveMax(n, card) == card[2] # Many /\ n > card[2]

Off(n, card) == BelowMin(n, card) \/ AboveMax(n, card)

-----------------------------------------------------------------------------
(***************************************************************************)
(* The checks, each the set of what it finds wrong.  First, instances of   *)
(* types that are not pinned; nothing else is checked of their values.     *)
(***************************************************************************)
TypeErrors(d, c) == {<<p, "entity_type">> : p \in DOMAIN c.nodes \ Pinned(d, c)}

(***************************************************************************)
(* Required values that are missing, and values that are not admitted.     *)
(***************************************************************************)
ValueErrors(d, c) ==
    LET wrong(p, a) ==
          LET attr == SchemaOf(d, c, TypeOf(p)).attrs[a]
              id == <<Pins(d, c)[TypeOf(p)], a>>
              def == d.defs[attr.def][attr.dv]
              present == /\ id \in DOMAIN c.nodes[p]
                         /\ ~IsEmptyValue(def.base, c.nodes[p][id])
          IN IF present THEN ~Admits(def, c.nodes[p][id]) ELSE attr.required
    IN UNION {{<<p, a>> : a \in {a \in DOMAIN SchemaOf(d, c, TypeOf(p)).attrs : wrong(p, a)}}
                : p \in Pinned(d, c)}

(***************************************************************************)
(* The associations of the types pinned: <<type, version, name>>.          *)
(***************************************************************************)
Associations(d, c, containment) ==
    UNION {{<<t, Pins(d, c)[t], n>> :
              n \in {n \in DOMAIN SchemaOf(d, c, t).assocs :
                       (SchemaOf(d, c, t).assocs[n].kind = "containment") = containment}}
             : t \in DOMAIN Pins(d, c)}

Assoc(d, id) == Version(d, id[1], id[2]).assocs[id[3]]

(***************************************************************************)
(* An instance with too few or too many links of an association its type   *)
(* has.                                                                    *)
(***************************************************************************)
TargetErrors(d, c) ==
    {<<p, id>> \in (DOMAIN c.nodes) \X Associations(d, c, FALSE) :
        /\ TypeOf(p) = id[1]
        /\ Off(Cardinality({l \in c.links : l.src = p /\ l.assoc = id}),
               Assoc(d, id).target_cardinality)}

(***************************************************************************)
(* An instance that too few or too many are linked to; a cardinality of    *)
(* "0" is not checked.                                                     *)
(***************************************************************************)
SourceErrors(d, c) ==
    {<<p, id>> \in (DOMAIN c.nodes) \X Associations(d, c, FALSE) :
        LET card == Assoc(d, id).source_cardinality
        IN /\ TypeOf(p) = Assoc(d, id).target
           /\ card[1] > 0 \/ card[2] > 0
           /\ Off(Cardinality({l \in c.links : l.dst = p /\ l.assoc = id}), card)}

(***************************************************************************)
(* Types that some association demands to be contained.                    *)
(***************************************************************************)
ContainedTypes(d, c) ==
    {Assoc(d, id).target : id \in {id \in Associations(d, c, TRUE) :
                                     Assoc(d, id).source_cardinality[1] >= 1}}

(***************************************************************************)
(* An instance without the parent it needs, with a parent that is gone or  *)
(* not pinned, or one whose type does not contain its own.                 *)
(***************************************************************************)
ParentErrors(d, c) ==
    LET fits(p) ==
          LET parent == Front(p)
          IN /\ parent \in Pinned(d, c)
             /\ \E id \in Associations(d, c, TRUE) :
                  id[1] = TypeOf(parent) /\ Assoc(d, id).target = TypeOf(p)
    IN {<<p, "parent">> : p \in {p \in DOMAIN c.nodes :
          IF IsRoot(p) THEN TypeOf(p) \in ContainedTypes(d, c) ELSE ~fits(p)}}

(***************************************************************************)
(* An instance that contains too few or too many of a type.                *)
(***************************************************************************)
ChildErrors(d, c) ==
    {<<p, id>> \in (DOMAIN c.nodes) \X Associations(d, c, TRUE) :
        /\ TypeOf(p) = id[1]
        /\ Off(Cardinality({q \in DOMAIN c.nodes : /\ ~IsRoot(q) /\ Front(q) = p
                                                   /\ TypeOf(q) = Assoc(d, id).target}),
               Assoc(d, id).target_cardinality)}

Verdict(d, c) ==
    IF \/ c.nodes = <<>>
       \/ TypeErrors(d, c) \cup ValueErrors(d, c) \cup TargetErrors(d, c)
            \cup SourceErrors(d, c) \cup ParentErrors(d, c) \cup ChildErrors(d, c) = {}
    THEN "valid" ELSE "invalid"
=============================================================================
