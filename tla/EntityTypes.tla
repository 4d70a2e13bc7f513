---------------------------- MODULE EntityTypes ----------------------------
(***************************************************************************)
(* The schema: entity types and their versions, the attributes and         *)
(* associations of each version, and the type definitions the attributes   *)
(* refer to, as EntityTypeService, AttributeService, AssociationService    *)
(* and TypeDefinitionService change them.                                  *)
(*                                                                         *)
(* An edit never changes the version it starts from.  It reads the latest  *)
(* version, inserts an empty one with the next number, copies the          *)
(* attributes, copies the associations, and changes the copy: five         *)
(* statements without a transaction, one action each.                      *)
(*                                                                         *)
(* The catalog versions and their pins, which renaming a type reads, are   *)
(* changed by CatalogVersions, which extends this module.                  *)
(***************************************************************************)
EXTENDS Naturals, Sequences, FiniteSets

CONSTANTS
    Types,        \* entity type ids (a UUID is never handed out twice)
    TypeNames,
    Fields,       \* names of attributes and associations: one namespace
    Defs,         \* type definition ids
    SystemDefs,   \* those seeded at startup
    MaxVersions,  \* bound on the versions of an entity type
    MaxDefVersions,
    Born,         \* the types that exist at the start: type -> name
    Reqs,
    Workloads,    \* what the users of a behaviour do, see load
    CVs, Pins,    \* catalog version ids and pin ids (CatalogVersions)
    Unborn, Gone, None

ASSUME SchemaAssumption ==
    /\ SystemDefs \subseteq Defs
    /\ MaxVersions \in Nat \ {0} /\ MaxDefVersions \in Nat \ {0}
    /\ DOMAIN Born \subseteq Types
    /\ \A t \in DOMAIN Born : Born[t] \in TypeNames
    /\ \A t, u \in DOMAIN Born : Born[t] = Born[u] => t = u
    /\ Unborn \notin TypeNames /\ Gone \notin TypeNames /\ Unborn # Gone
    /\ None \notin Types \cup TypeNames \cup Fields

(* Versions of types, and free pins, are counted. *)
ASSUME FiniteAssumption == IsFiniteSet(Types) /\ IsFiniteSet(Pins)

(***************************************************************************)
(* A version of a type definition is its number; Untyped is the empty id,  *)
(* which is that of none.  An attribute carries the edit that introduced   *)
(* it (`root', a history field): it keeps its root through copies and      *)
(* renames.  `single' says that the source cardinality of an association   *)
(* is "1" or "0..1".                                                       *)
(***************************************************************************)
DefVersion == Defs \X (1..MaxDefVersions)

Untyped == <<None, 0>>

Root == Types \X Fields \X Nat

Attr == [name : Fields, tdv : DefVersion \cup {Untyped}, ord : Nat, root : Root]

Kinds == {"containment", "directional"}

Assoc == [name : Fields, target : Types, kind : Kinds, single : BOOLEAN]

Content == [attrs : SUBSET Attr, assocs : SUBSET Assoc]

Empty == [attrs |-> {}, assocs |-> {}]

EditOps == {"describe", "addAttribute", "removeAttribute", "editAttribute",
            "copyAttributes", "createAssociation", "editAssociation", "deleteAssociation"}

SchemaOps == EditOps \cup {"createType", "copyType", "rename", "deleteType", "reorder",
                           "createDef", "updateDef", "deleteDef"}

(***************************************************************************)
(* A request: what it does, the statement it executes next, and what it    *)
(* remembers.  Its new version follows version `base' and is number `made'; *)
(* the content is copied from version `fromVer' of type `from'.  A field   *)
(* that a caller may leave out is None.                                    *)
(***************************************************************************)
Request ==
    [op : SchemaOps,
     pc : {"insertType", "create", "copyAttrs", "copyAssocs", "change", "readType",
           "saveType", "reorder", "insertDef", "insertDefVersion", "dropDef"},
     type : Types \cup {None}, from : Types \cup {None}, fromVer : Nat,
     base : Nat, made : Nat,
     typeName : TypeNames \cup {None}, name : Fields \cup {None}, to : Fields \cup {None},
     tdv : DefVersion \cup {Untyped, None}, adds : Seq(Attr), assoc : Assoc \cup {None},
     kind : Kinds \cup {None}, single : BOOLEAN \cup {None},
     order : Seq(Fields), def : Defs \cup {None}]

NewRequest == [op |-> "describe", pc |-> "create", type |-> None, from |-> None,
               fromVer |-> 0, base |-> 0, made |-> 0, typeName |-> None, name |-> None, to |-> None,
               tdv |-> None, adds |-> << >>, assoc |-> None, kind |-> None,
               single |-> None, order |-> << >>, def |-> None]

Idle == [op |-> "none", pc |-> "idle"]

VARIABLES
    types,     \* entity_types: type -> name, Unborn or Gone
    versions,  \* entity_type_versions with their attributes and associations
    defs,      \* type_definitions that have a row
    defVers,   \* type_definition_versions: how many each definition has
    cv, pins,  \* catalog_versions and catalog_version_pins (CatalogVersions)
    req,       \* the requests being handled
    load,      \* the operations called ("stray": with odd lists), how many at a time,
               \* whether statements fail, the bounds on versions and catalog versions
    trouble    \* history: "overlap", failures, and the calls that break a rule

schema == <<types, versions>>
definitions == <<defs, defVers>>
pinned == <<cv, pins>>

TypesOK ==
    /\ types \in [Types -> TypeNames \cup {Unborn, Gone}]
    /\ versions \in [Types -> Seq(Content)]
    /\ defs \subseteq Defs
    /\ defVers \in [Defs -> 0..MaxDefVersions]
    /\ \A q \in Reqs : req[q] = Idle \/ (req[q].op \in SchemaOps => req[q] \in Request)

TypesInit ==
    /\ types = [t \in Types |-> IF t \in DOMAIN Born THEN Born[t] ELSE Unborn]
    /\ versions = [t \in Types |-> IF t \in DOMAIN Born THEN <<Empty>> ELSE << >>]
    /\ defs = SystemDefs
    /\ defVers = [d \in Defs |-> IF d \in SystemDefs THEN 1 ELSE 0]
    /\ req = [q \in Reqs |-> Idle]
    /\ load \in Workloads
    /\ trouble = {}

-----------------------------------------------------------------------------
(***************************************************************************)
(* Vocabulary.  A request starts with its reads up to the first write; one *)
(* that these reject leaves no trace.                                      *)
(***************************************************************************)
Named == {t \in Types : types[t] \in TypeNames}

NameUsed(n) == \E t \in Types : types[t] = n

Latest(t) == Len(versions[t])

Has(t, v) == v \in 1..Latest(t)

AllVersions == Cardinality({x \in Types \X (1..MaxVersions) : Has(x[1], x[2])})

AttrNames(t, v) == {a.name : a \in versions[t][v].attrs}
AssocNames(t, v) == {a.name : a \in versions[t][v].assocs}

DefVersions == {x \in DefVersion : x[2] <= defVers[x[1]]}

Active == {q \in Reqs : req[q] # Idle}

At(q, pc) == req[q].op \in SchemaOps /\ req[q].pc = pc

Goto(q, pc) == req' = [req EXCEPT ![q].pc = pc]

Finish(q) == req' = [req EXCEPT ![q] = Idle]

(***************************************************************************)
(* A request that starts while another is being handled is an overlap; a   *)
(* call that is known to break a rule (`flaws') is noted as well.          *)
(***************************************************************************)
Ready(q, op) ==
    /\ req[q] = Idle
    /\ op \in load.ops
    /\ Cardinality(Active) < load.busy

Note(flaws) ==
    trouble' = trouble \cup flaws \cup (IF Active = {} THEN {} ELSE {"overlap"})

Start(q, r, flaws) == req' = [req EXCEPT ![q] = r] /\ Note(flaws)

(***************************************************************************)
(* Any statement but the first read may fail; what was written stays.      *)
(* OneFailure bounds the failures of a behaviour.                          *)
(***************************************************************************)
OneFailure == load.faults /\ trouble \cap {"db", "k8s"} = {}

Fail(q) ==
    /\ OneFailure
    /\ req[q].op \in SchemaOps
    /\ Finish(q)
    /\ trouble' = trouble \cup {"db"}
    /\ UNCHANGED <<schema, definitions, pinned, load>>

-----------------------------------------------------------------------------
(***************************************************************************)
(* The edits of a type: what each checks against the latest version.       *)
(***************************************************************************)
StartEdit(q, r, flaws) ==
    /\ Latest(r.type) \in 1..(MaxVersions - 1)
    /\ AllVersions < load.versions
    /\ Start(q, [r EXCEPT !.from = r.type, !.fromVer = Latest(r.type),
                         !.base = Latest(r.type)], flaws)
    /\ UNCHANGED <<schema, definitions, pinned, load>>

UpdateEntityType(q) ==
    /\ Ready(q, "describe")
    /\ \E t \in Types :
         StartEdit(q, [NewRequest EXCEPT !.op = "describe", !.type = t], {})

NewAttr(t, f, tdv, ord) ==
    [name |-> f, tdv |-> tdv, ord |-> ord, root |-> <<t, f, Latest(t) + 1>>]

(***************************************************************************)
(* A new attribute is numbered by how many there are, which repeats a      *)
(* number when one has been removed.                                       *)
(***************************************************************************)
AddAttribute(q) ==
    /\ Ready(q, "addAttribute")
    /\ \E t \in Types, f \in Fields, tdv \in DefVersions :
         /\ Latest(t) > 0
         /\ f \notin AttrNames(t, Latest(t)) \cup AssocNames(t, Latest(t))
         /\ LET ord == Cardinality(versions[t][Latest(t)].attrs)
            IN StartEdit(q, [NewRequest EXCEPT !.op = "addAttribute", !.type = t,
                                               !.adds = <<NewAttr(t, f, tdv, ord)>>], {})

RemoveAttribute(q) ==
    /\ Ready(q, "removeAttribute")
    /\ \E t \in Types, f \in Fields :
         StartEdit(q, [NewRequest EXCEPT !.op = "removeAttribute", !.type = t, !.name = f], {})

(***************************************************************************)
(* The version of a definition is only looked up if it is not the empty    *)
(* id; that is written unchecked.                                          *)
(***************************************************************************)
EditAttribute(q) ==
    /\ Ready(q, "editAttribute")
    /\ \E t \in Types, f \in Fields, g \in Fields \cup {None},
          tdv \in DefVersions \cup {Untyped, None} :
         /\ Latest(t) > 0
         /\ f \in AttrNames(t, Latest(t))
         /\ g \in {None, f} \/ g \notin AttrNames(t, Latest(t)) \cup AssocNames(t, Latest(t))
         /\ StartEdit(q, [NewRequest EXCEPT !.op = "editAttribute", !.type = t, !.name = f,
                                            !.to = g, !.tdv = tdv],
                      IF tdv = Untyped THEN {"untyped"} ELSE {})

(***************************************************************************)
(* The names of the associations are not looked at, so a copied attribute  *)
(* may take one.                                                           *)
(***************************************************************************)
Copies(t, order) ==
    LET ord == Cardinality(versions[t][Latest(t)].attrs)
    IN [i \in DOMAIN order |-> NewAttr(t, order[i].name, order[i].tdv, ord + i - 1)]

CopyAttributesFromType(q) ==
    /\ Ready(q, "copyAttributes")
    /\ \E t, s \in Types : \E v \in 1..Latest(s) : \E chosen \in SUBSET versions[s][v].attrs :
         /\ Latest(t) > 0 /\ chosen # {}
         /\ \A a \in chosen : a.name \notin AttrNames(t, Latest(t))
         /\ \E order \in [1..Cardinality(chosen) -> chosen] :
              /\ \A a \in chosen : \E i \in DOMAIN order : order[i] = a
              /\ StartEdit(q, [NewRequest EXCEPT !.op = "copyAttributes", !.type = t,
                                                 !.adds = Copies(t, order)], {"copied"})

(***************************************************************************)
(* The containment edges of all versions, old ones included.               *)
(***************************************************************************)
ContainmentGraph ==
    {x \in Types \X Types :
        \E v \in 1..Latest(x[1]) : \E a \in versions[x[1]][v].assocs :
           a.kind = "containment" /\ a.target = x[2]}

(***************************************************************************)
(* All types reached from those of S along containment.                    *)
(***************************************************************************)
Below(S) ==
    LET edges == ContainmentGraph
        reach[n \in Nat] ==
            IF n = 0 THEN S
              ELSE LET r == reach[n - 1] IN r \cup {u \in Types : \E t \in r : <<t, u>> \in edges}
    IN reach[Cardinality(Types)]

(* MUTANT: only an association of a type with itself is refused. *)
SelfCycle(source, target) == source = target

CreatesCycle(source, target) == source \in Below({target})

CreateAssociation(q) ==
    /\ Ready(q, "createAssociation")
    /\ \E t, u \in Types, f \in Fields, k \in Kinds, single \in BOOLEAN :
         /\ Latest(t) > 0
         /\ k = "containment" => single /\ ~CreatesCycle(t, u)
         /\ f \notin AttrNames(t, Latest(t)) \cup AssocNames(t, Latest(t))
         /\ StartEdit(q, [NewRequest EXCEPT !.op = "createAssociation", !.type = t,
                   !.assoc = [name |-> f, target |-> u, kind |-> k, single |-> single]], {})

KindAfter(a, k) == IF k = None THEN a.kind ELSE k

Retyped(a, k) == KindAfter(a, k) = "containment" /\ a.kind # "containment"

(***************************************************************************)
(* An association that becomes a containment is not looked for in a cycle. *)
(***************************************************************************)
EditAssociation(q) ==
    /\ Ready(q, "editAssociation")
    /\ \E t \in Types, f \in Fields, g \in Fields \cup {None},
          k \in Kinds \cup {None}, single \in BOOLEAN \cup {None} :
         /\ Latest(t) > 0
         /\ \E a \in versions[t][Latest(t)].assocs :
              /\ a.name = f
              /\ KindAfter(a, k) = "containment" => single # FALSE
              /\ Retyped(a, k) /\ single = None => a.single
              /\ g \in {None, f}
                   \/ g \notin AttrNames(t, Latest(t)) \cup AssocNames(t, Latest(t))
              /\ StartEdit(q, [NewRequest EXCEPT !.op = "editAssociation", !.type = t,
                                 !.name = f, !.to = g, !.kind = k, !.single = single],
                           IF Retyped(a, k) THEN {"retyped"} ELSE {})

DeleteAssociation(q) ==
    /\ Ready(q, "deleteAssociation")
    /\ \E t \in Types, f \in Fields :
         StartEdit(q, [NewRequest EXCEPT !.op = "deleteAssociation", !.type = t, !.name = f], {})

-----------------------------------------------------------------------------
(***************************************************************************)
(* The statements the edits share.  The unique index on (type, version)    *)
(* refuses a number that is taken, the foreign key a type that is gone.    *)
(***************************************************************************)
CreateVersion(q) ==
    /\ At(q, "create")
    /\ LET r == req[q]
       IN IF r.type \in Named /\ Latest(r.type) = r.base
            THEN /\ versions' = [versions EXCEPT ![r.type] = Append(@, Empty)]
                 /\ req' = [req EXCEPT ![q] =
                              IF r.op = "createType" THEN Idle
                                ELSE [r EXCEPT !.made = r.base + 1, !.pc = "copyAttrs"]]
            ELSE Finish(q) /\ UNCHANGED versions
    /\ UNCHANGED <<types, definitions, pinned, load, trouble>>

Source(r) == IF Has(r.from, r.fromVer) THEN versions[r.from][r.fromVer] ELSE Empty

(***************************************************************************)
(* Rows are only inserted into a version that still exists.                *)
(***************************************************************************)
SetContent(r, c) ==
    versions' = IF Has(r.type, r.made)
                  THEN [versions EXCEPT ![r.type][r.made] = c] ELSE versions

Made(r) == IF Has(r.type, r.made) THEN versions[r.type][r.made] ELSE Empty

CopyAttrs(q) ==
    /\ At(q, "copyAttrs")
    /\ LET r == req[q]
       IN /\ SetContent(r, [Made(r) EXCEPT !.attrs = Source(r).attrs])
          /\ IF r.op \in EditOps THEN Goto(q, "copyAssocs") ELSE Finish(q)
    /\ UNCHANGED <<types, definitions, pinned, load, trouble>>

(* MUTANT: the associations stay behind when an attribute is added. *)
ForgetAssocs(q) ==
    /\ At(q, "copyAssocs")
    /\ LET r == req[q]
       IN /\ SetContent(r, [Made(r) EXCEPT !.assocs =
                              IF r.op = "addAttribute" THEN {} ELSE Source(r).assocs])
          /\ Goto(q, IF r.op = "describe" THEN "readType" ELSE "change")
    /\ UNCHANGED <<types, definitions, pinned, load, trouble>>

CopyAssocs(q) ==
    /\ At(q, "copyAssocs")
    /\ LET r == req[q]
       IN /\ SetContent(r, [Made(r) EXCEPT !.assocs = Source(r).assocs])
          /\ Goto(q, IF r.op = "describe" THEN "readType" ELSE "change")
    /\ UNCHANGED <<types, definitions, pinned, load, trouble>>

(***************************************************************************)
(* The change itself.  An attribute or association that is not found ends  *)
(* the request with the new version in place.                              *)
(***************************************************************************)
Changing(q, op) ==
    /\ At(q, "change") /\ req[q].op = op
    /\ UNCHANGED <<types, definitions, pinned, load, trouble>>

InsertAttr(q) ==
    /\ At(q, "change") /\ req[q].adds # << >>
    /\ LET r == req[q]
           a == Head(r.adds)
       IN IF Has(r.type, r.made) /\ a.name \notin AttrNames(r.type, r.made)
            THEN /\ SetContent(r, [Made(r) EXCEPT !.attrs = @ \cup {a}])
                 /\ req' = [req EXCEPT ![q] = IF Len(r.adds) = 1 THEN Idle
                                                ELSE [r EXCEPT !.adds = Tail(@)]]
            ELSE Finish(q) /\ UNCHANGED versions
    /\ UNCHANGED <<types, definitions, pinned, load, trouble>>

DropAttr(q) ==
    /\ Changing(q, "removeAttribute")
    /\ LET r == req[q]
       IN SetContent(r, [Made(r) EXCEPT !.attrs = {a \in @ : a.name # r.name}])
    /\ Finish(q)

EditedAttr(r, a) ==
    [a EXCEPT !.name = IF r.to = None THEN @ ELSE r.to,
              !.tdv = IF r.tdv = None THEN @ ELSE r.tdv]

(* MUTANT: the attribute of the version that was read is updated. *)
SetOldAttr(q) ==
    /\ Changing(q, "editAttribute")
    /\ LET r == req[q]
       IN versions' = IF ~Has(r.type, r.made) THEN versions
            ELSE [versions EXCEPT ![r.type][r.base].attrs =
                    {IF a.name = r.name THEN EditedAttr(r, a) ELSE a : a \in @}]
    /\ Finish(q)

SetAttr(q) ==
    /\ Changing(q, "editAttribute")
    /\ LET r == req[q]
           attrs == Made(r).attrs
       IN SetContent(r, [Made(r) EXCEPT !.attrs =
             IF \E a \in attrs : a.name = r.to /\ r.to # r.name THEN @
               ELSE {IF a.name = r.name THEN EditedAttr(r, a) ELSE a : a \in @}])
    /\ Finish(q)

InsertAssoc(q) ==
    /\ Changing(q, "createAssociation")
    /\ LET r == req[q]
       IN SetContent(r, [Made(r) EXCEPT !.assocs =
             IF \E a \in @ : a.name = r.assoc.name THEN @ ELSE @ \cup {r.assoc}])
    /\ Finish(q)

EditedAssoc(r, a) ==
    [a EXCEPT !.name = IF r.to = None THEN @ ELSE r.to,
              !.kind = IF r.kind = None THEN @ ELSE r.kind,
              !.single = IF r.single = None THEN @ ELSE r.single]

SetAssoc(q) ==
    /\ Changing(q, "editAssociation")
    /\ LET r == req[q]
           assocs == Made(r).assocs
       IN SetContent(r, [Made(r) EXCEPT !.assocs =
             IF \E a \in assocs : a.name = r.to /\ r.to # r.name THEN @
               ELSE {IF a.name = r.name THEN EditedAssoc(r, a) ELSE a : a \in @}])
    /\ Finish(q)

DropAssoc(q) ==
    /\ Changing(q, "deleteAssociation")
    /\ LET r == req[q]
       IN SetContent(r, [Made(r) EXCEPT !.assocs = {a \in @ : a.name # r.name}])
    /\ Finish(q)

(***************************************************************************)
(* ReorderAttributes renumbers the attributes of the latest version in     *)
(* place, in one transaction; the flaw is for ValuesFollowPins.            *)
(***************************************************************************)
ReorderAttributes(q) ==
    /\ Ready(q, "reorder")
    /\ \E t \in Types :
         /\ Latest(t) > 0 /\ Cardinality(AttrNames(t, Latest(t))) > 1
         /\ \E order \in [1..Cardinality(AttrNames(t, Latest(t))) -> AttrNames(t, Latest(t))] :
              /\ \A i, j \in DOMAIN order : order[i] = order[j] => i = j
              /\ Start(q, [NewRequest EXCEPT !.op = "reorder", !.pc = "reorder", !.type = t,
                                             !.made = Latest(t), !.order = order],
                       {"reordered"})
         /\ UNCHANGED <<schema, definitions, pinned, load>>

Renumber(q) ==
    /\ At(q, "reorder")
    /\ LET r == req[q]
           place(a) == {i \in DOMAIN r.order : r.order[i] = a.name}
       IN SetContent(r, [Made(r) EXCEPT !.attrs =
             {[a EXCEPT !.ord = IF place(a) = {} THEN @
                                  ELSE (CHOOSE i \in place(a) : TRUE) - 1] : a \in @}])
    /\ Finish(q)
    /\ UNCHANGED <<types, definitions, pinned, load, trouble>>

-----------------------------------------------------------------------------
(***************************************************************************)
(* Entity types.  A new type, a copy and a deep-copying rename insert the  *)
(* row (unique name), then version 1, then the attributes of the version   *)
(* copied; associations are not copied.                                    *)
(***************************************************************************)
CreateEntityType(q) ==
    /\ Ready(q, "createType") /\ AllVersions < load.versions
    /\ \E n \in TypeNames :
         /\ Start(q, [NewRequest EXCEPT !.op = "createType", !.pc = "insertType",
                                        !.typeName = n], {})
         /\ UNCHANGED <<schema, definitions, pinned, load>>

CopyEntityType(q) ==
    /\ Ready(q, "copyType") /\ AllVersions < load.versions
    /\ \E t \in Types, n \in TypeNames : \E v \in 1..Latest(t) :
         /\ Start(q, [NewRequest EXCEPT !.op = "copyType", !.pc = "insertType",
                                        !.typeName = n, !.from = t, !.fromVer = v], {})
         /\ UNCHANGED <<schema, definitions, pinned, load>>

InsertType(q) ==
    /\ At(q, "insertType")
    /\ LET r == req[q]
       IN \/ \E t \in Types :
               /\ types[t] = Unborn /\ ~NameUsed(r.typeName)
               /\ types' = [types EXCEPT ![t] = r.typeName]
               /\ req' = [req EXCEPT ![q] = [r EXCEPT !.type = t, !.pc = "create"]]
          \/ /\ NameUsed(r.typeName) \/ \A t \in Types : types[t] # Unborn
             /\ Finish(q)
             /\ UNCHANGED types
    /\ UNCHANGED <<versions, definitions, pinned, load, trouble>>

PinnedIn(t) ==
    {pins[p].cv : p \in {x \in Pins : pins[x] # None /\ pins[x].type = t
                                                      /\ Has(t, pins[x].ver)}}

RequiresDeepCopy(t) ==
    \/ Cardinality(PinnedIn(t)) > 1
    \/ \E c \in PinnedIn(t) : cv[c].stage # "development"

(***************************************************************************)
(* A rename of a type that several catalog versions pin, or one that is no *)
(* longer in development, makes a new type of that name or is refused.     *)
(***************************************************************************)
RenameEntityType(q) ==
    /\ Ready(q, "rename")
    /\ \E t \in Named, n \in TypeNames :
         /\ ~NameUsed(n)
         /\ LET r == [NewRequest EXCEPT !.op = "rename", !.typeName = n]
            IN IF RequiresDeepCopy(t)
                 THEN /\ Latest(t) > 0
                      /\ Start(q, [r EXCEPT !.pc = "insertType", !.from = t, !.fromVer = Latest(t)], {})
                 ELSE Start(q, [r EXCEPT !.pc = "saveType", !.type = t], {})
         /\ UNCHANGED <<schema, definitions, pinned, load>>

(***************************************************************************)
(* UpdateEntityType ends by reading the row and saving it as it was read.  *)
(***************************************************************************)
(* MUTANT: the row is not looked for. *)
ReadAny(q) ==
    /\ At(q, "readType")
    /\ req' = [req EXCEPT ![q].pc = "saveType", ![q].typeName = types[req[q].type]]
    /\ UNCHANGED <<schema, definitions, pinned, load, trouble>>

ReadType(q) ==
    /\ At(q, "readType")
    /\ LET r == req[q]
       IN IF r.type \in Named
            THEN req' = [req EXCEPT ![q] = [r EXCEPT !.pc = "saveType", !.typeName = types[r.type]]]
            ELSE Finish(q)
    /\ UNCHANGED <<schema, definitions, pinned, load, trouble>>

SaveType(q) ==
    /\ At(q, "saveType")
    /\ LET r == req[q]
       IN types' = IF \E t \in Types \ {r.type} : types[t] = r.typeName THEN types
                     ELSE [types EXCEPT ![r.type] = r.typeName]
    /\ Finish(q)
    /\ UNCHANGED <<versions, definitions, pinned, load, trouble>>

(***************************************************************************)
(* The versions go with the row; pins to them are neither looked for nor   *)
(* removed.                                                                *)
(***************************************************************************)
DeleteEntityType(q) ==
    /\ Ready(q, "deleteType")
    /\ \E t \in Named :
         /\ Note({"deleted"})
         /\ types' = [types EXCEPT ![t] = Gone]
         /\ versions' = [versions EXCEPT ![t] = << >>]
         /\ UNCHANGED <<definitions, pinned, req, load>>

-----------------------------------------------------------------------------
(***************************************************************************)
(* Type definitions.                                                       *)
(***************************************************************************)
CreateTypeDefinition(q) ==
    /\ Ready(q, "createDef")
    /\ \E d \in Defs \ defs :
         /\ defVers[d] = 0
         /\ Start(q, [NewRequest EXCEPT !.op = "createDef", !.pc = "insertDef", !.def = d], {})
         /\ UNCHANGED <<schema, definitions, pinned, load>>

InsertDef(q) ==
    /\ At(q, "insertDef")
    /\ IF req[q].def \in defs THEN Finish(q) /\ UNCHANGED defs
         ELSE defs' = defs \cup {req[q].def} /\ Goto(q, "insertDefVersion")
    /\ UNCHANGED <<schema, defVers, pinned, load, trouble>>

UpdateTypeDefinition(q) ==
    /\ Ready(q, "updateDef")
    /\ \E d \in defs \ SystemDefs :
         /\ defVers[d] \in 1..(MaxDefVersions - 1)
         /\ Start(q, [NewRequest EXCEPT !.op = "updateDef", !.pc = "insertDefVersion",
                                        !.def = d, !.base = defVers[d]], {})
         /\ UNCHANGED <<schema, definitions, pinned, load>>

InsertDefVersion(q) ==
    /\ At(q, "insertDefVersion")
    /\ LET d == req[q].def
       IN defVers' = IF d \in defs /\ defVers[d] = req[q].base
                       THEN [defVers EXCEPT ![d] = @ + 1] ELSE defVers
    /\ Finish(q)
    /\ UNCHANGED <<schema, defs, pinned, load, trouble>>

Uses(t, v, d) == \E a \in versions[t][v].attrs : a.tdv[1] = d

(* MUTANT: only pinned and latest versions are looked at, as the service does. *)
UsedByCurrent(d) ==
    \E t \in Types : \E v \in 1..Latest(t) :
       /\ Uses(t, v, d)
       /\ v = Latest(t) \/ \E p \in Pins : pins[p] # None /\ pins[p].type = t /\ pins[p].ver = v

(***************************************************************************)
(* The service refuses a definition that a pinned or latest version uses,  *)
(* the repository one that any version uses.                               *)
(***************************************************************************)
DefInUse(d) == \E t \in Types : \E v \in 1..Latest(t) : Uses(t, v, d)

DeleteTypeDefinition(q) ==
    /\ Ready(q, "deleteDef")
    /\ \E d \in defs \ SystemDefs :
         /\ ~DefInUse(d)
         /\ Start(q, [NewRequest EXCEPT !.op = "deleteDef", !.pc = "dropDef", !.def = d], {})
         /\ UNCHANGED <<schema, definitions, pinned, load>>

DropDef(q) ==
    /\ At(q, "dropDef")
    /\ defs' = defs \ {req[q].def}
    /\ defVers' = [defVers EXCEPT ![req[q].def] = 0]
    /\ Finish(q)
    /\ UNCHANGED <<schema, pinned, load, trouble>>

-----------------------------------------------------------------------------
TypesNext ==
    \E q \in Reqs :
       \/ UpdateEntityType(q) \/ AddAttribute(q) \/ RemoveAttribute(q) \/ EditAttribute(q)
       \/ CopyAttributesFromType(q) \/ CreateAssociation(q) \/ EditAssociation(q)
       \/ DeleteAssociation(q) \/ CreateVersion(q) \/ CopyAttrs(q) \/ CopyAssocs(q)
       \/ InsertAttr(q) \/ DropAttr(q) \/ SetAttr(q)
       \/ InsertAssoc(q) \/ SetAssoc(q) \/ DropAssoc(q) \/ ReorderAttributes(q) \/ Renumber(q)
       \/ CreateEntityType(q) \/ CopyEntityType(q) \/ InsertType(q) \/ RenameEntityType(q)
       \/ ReadType(q) \/ SaveType(q) \/ DeleteEntityType(q)
       \/ CreateTypeDefinition(q) \/ InsertDef(q) \/ UpdateTypeDefinition(q)
       \/ InsertDefVersion(q) \/ DeleteTypeDefinition(q) \/ DropDef(q)
       \/ Fail(q)

-----------------------------------------------------------------------------
(***************************************************************************)
(* A version changes only while the request that created it completes it;  *)
(* afterwards it keeps its attributes and associations for as long as its  *)
(* type exists, except for the order of the attributes.  Catalogs pin      *)
(* versions and are validated against them.                                *)
(***************************************************************************)
Unordered(c) == [attrs |-> {<<a.name, a.tdv, a.root>> : a \in c.attrs}, assocs |-> c.assocs]

BeingMade(t, v) ==
    \E q \in Reqs : req[q].op \in SchemaOps \ {"reorder"} /\ req[q].type = t /\ req[q].made = v

VersionsKept ==
    \A t \in Types : \A v \in 1..Latest(t) :
       Len(versions'[t]) # 0 /\ ~BeingMade(t, v) =>
          /\ v <= Len(versions'[t])
          /\ Unordered(versions'[t][v]) = Unordered(versions[t][v])

(***************************************************************************)
(* Without failures and overlapping edits, adjacent versions differ by one *)
(* edit: whatever the edit is not about is carried forward, in several     *)
(* statements, from the version before.                                    *)
(***************************************************************************)
OneAttrEdit(old, new) ==
    /\ Cardinality({a.root : a \in old} \ {a.root : a \in new}) <= 1
    /\ Cardinality({a \in old : \E b \in new : a.root = b.root /\
                       (a.name # b.name \/ a.tdv # b.tdv)}) <= 1

OneAssocEdit(old, new) == Cardinality(old \ new) <= 1 /\ Cardinality(new \ old) <= 1

CarriedForward ==
    trouble \cap {"overlap", "db"} = {} /\ Active = {} =>
       \A t \in Types : \A v \in 1..(Latest(t) - 1) :
          LET old == versions[t][v]
              new == versions[t][v + 1]
          IN \/ old.assocs = new.assocs /\ OneAttrEdit(old.attrs, new.attrs)
             \/ Unordered(old).attrs = Unordered(new).attrs /\ OneAssocEdit(old.assocs, new.assocs)

(***************************************************************************)
(* Unless an association was turned into a containment, or edits overlap,  *)
(* containment is acyclic, and the containment tree the UI shows, which    *)
(* starts at the types nothing contains, shows every type.                 *)
(***************************************************************************)
TreeRoots == {t \in Named : \A u \in Named : <<u, t>> \notin ContainmentGraph}

ContainmentTree ==
    trouble \cap {"overlap", "retyped"} = {} =>
       /\ \A t, u \in Types : <<t, u>> \in ContainmentGraph => t \notin Below({u})
       /\ Named \subseteq Below(TreeRoots)

(***************************************************************************)
(* The type definition version an attribute refers to exists, in every     *)
(* version of every type, unless a deletion overlaps with an edit; an      *)
(* attribute has none only if some edit has given the empty id.            *)
(***************************************************************************)
AttributeTypesExist ==
    "overlap" \notin trouble =>
       \A t \in Types : \A v \in 1..Latest(t) : \A a \in versions[t][v].attrs :
          \/ a.tdv \in DefVersions
          \/ a.tdv = Untyped /\ "untyped" \in trouble
=============================================================================
