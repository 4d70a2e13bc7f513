----------------------- MODULE CatalogVersions_proofs -----------------------
(***************************************************************************)
(* Proofs about CatalogVersions and EntityTypes, for every set of types,   *)
(* fields, catalog versions, pins, catalogs and requests, whatever they    *)
(* interleave: a version of an entity type does not change once it is      *)
(* complete, and every table and request keeps its form.  Then what the    *)
(* proofs of VersionsSequence_proofs start from: what is pinned exists,    *)
(* and, while requests come one at a time, what the one at work has read   *)
(* still holds; and lemmas about directed graphs, for the containment      *)
(* tree.                                                                   *)
(***************************************************************************)
EXTENDS CatalogVersions, FiniteSetTheorems, WellFoundedInduction, TLAPS

(***************************************************************************)
(* The attributes of a version are finitely many, so that they can be      *)
(* numbered.                                                               *)
(***************************************************************************)
Finite == {c \in Content : IsFiniteSet(c.attrs)}

Tables ==
    /\ types \in [Types -> TypeNames \cup {Unborn, Gone}]
    /\ versions \in [Types -> Seq(Finite)]
    /\ defs \subseteq Defs
    /\ defVers \in [Defs -> 0..MaxDefVersions]

(***************************************************************************)
(* What a request for the schema has when it is at a statement.            *)
(***************************************************************************)
Fits(r) ==
    /\ r.pc \in {"create", "copyAttrs", "copyAssocs", "change", "readType", "saveType", "reorder"}
          => r.type \in Types
    /\ r.pc \in {"insertType", "create"} => r.op = "createType" \/ r.from \in Types
    /\ r.pc \in {"copyAttrs", "copyAssocs"} => r.from \in Types
    /\ r.pc \in {"insertType", "saveType"} => r.typeName \in TypeNames
    /\ r.op = "createAssociation" => r.assoc \in Assoc
    /\ r.pc \in {"insertDef", "insertDefVersion", "dropDef"} => r.def \in Defs
    /\ r.pc \in {"insertDef", "insertDefVersion"} => r.base < MaxDefVersions
    /\ r.pc = "reorder" <=> r.op = "reorder"

Schemed(r) ==
    /\ {"op", "pc"} \subseteq DOMAIN r
    /\ r.op \in SchemaOps => r \in Request /\ Fits(r)

Requested == req = [q \in Reqs |-> req[q]] /\ \A q \in Reqs : Schemed(req[q])

SchemaInv == Tables /\ Requested

-----------------------------------------------------------------------------
(***************************************************************************)
(* Sequences and contents.                                                 *)
(***************************************************************************)
LEMMA ReplaceInSeq ==
  ASSUME NEW S, NEW s \in Seq(S), NEW i \in 1..Len(s), NEW c \in S
  PROVE  /\ [s EXCEPT ![i] = c] \in Seq(S)
         /\ Len([s EXCEPT ![i] = c]) = Len(s)
         /\ \A j \in 1..Len(s) : [s EXCEPT ![i] = c][j] = IF j = i THEN c ELSE s[j]
  OBVIOUS

LEMMA AppendToSeq ==
  ASSUME NEW S, NEW s \in Seq(S), NEW c \in S
  PROVE  /\ Append(s, c) \in Seq(S)
         /\ Len(Append(s, c)) = Len(s) + 1
         /\ \A j \in 1..Len(s) : Append(s, c)[j] = s[j]
  OBVIOUS

LEMMA ImageFinite ==
  ASSUME NEW S, IsFiniteSet(S), NEW f, f = [x \in S |-> f[x]]
  PROVE  IsFiniteSet({f[x] : x \in S})
  <1>. DEFINE T == {f[x] : x \in S}
  <1>1. f \in Surjection(S, T)
    BY DEF Surjection
  <1>. QED BY <1>1, FS_Surjection

LEMMA EmptyFinite == Empty \in Finite
  BY FS_EmptySet DEF Empty, Finite, Content

LEMMA VersionFinite ==
  ASSUME Tables, NEW t \in Types, NEW v, Has(t, v)
  PROVE  versions[t][v] \in Finite /\ Latest(t) \in Nat /\ v \in 1..Latest(t)
  BY DEF Tables, Has, Latest

LEMMA LatestNat == ASSUME Tables, NEW t \in Types PROVE Latest(t) \in Nat
  BY DEF Tables, Latest

LEMMA FiniteParts ==
  ASSUME NEW c \in Finite
  PROVE  /\ c.attrs \subseteq Attr /\ IsFiniteSet(c.attrs) /\ c.assocs \subseteq Assoc
         /\ c = [attrs |-> c.attrs, assocs |-> c.assocs]
  BY DEF Finite, Content

LEMMA WithAttrs ==
  ASSUME NEW c \in Finite, NEW A \in SUBSET Attr, IsFiniteSet(A)
  PROVE  /\ [c EXCEPT !.attrs = A] \in Finite
         /\ [c EXCEPT !.attrs = A].assocs = c.assocs /\ [c EXCEPT !.attrs = A].attrs = A
  BY DEF Finite, Content

LEMMA WithAssocs ==
  ASSUME NEW c \in Finite, NEW A \in SUBSET Assoc
  PROVE  [c EXCEPT !.assocs = A] \in Finite
  BY DEF Finite, Content

LEMMA MadeFinite ==
  ASSUME Tables, NEW r, r.type \in Types
  PROVE  Made(r) \in Finite
  BY EmptyFinite, VersionFinite DEF Made

LEMMA SourceFinite ==
  ASSUME Tables, NEW r, r.from \in Types
  PROVE  Source(r) \in Finite
  BY EmptyFinite, VersionFinite DEF Source

-----------------------------------------------------------------------------
(***************************************************************************)
(* Requests and frames.                                                    *)
(***************************************************************************)
LEMMA RequestKnown ==
  ASSUME SchemaInv, NEW q \in Reqs
  PROVE  /\ {"op", "pc"} \subseteq DOMAIN req[q]
         /\ req[q].op \in SchemaOps => req[q] \in Request /\ Fits(req[q])
  BY DEF SchemaInv, Requested, Schemed

LEMMA OneRequest ==
  ASSUME SchemaInv, NEW q \in Reqs, NEW r, Schemed(r), req' = [req EXCEPT ![q] = r]
  PROVE  Requested'
  BY DEF SchemaInv, Requested

LEMMA IdleSchemed == Schemed(Idle)
  BY DEF Schemed, Idle, SchemaOps, EditOps

LEMMA Ends == ASSUME SchemaInv, NEW q \in Reqs, Finish(q) PROVE Requested'
  BY IdleSchemed, OneRequest DEF Finish

LEMMA SchemaSame ==
  ASSUME SchemaInv, UNCHANGED <<schema, definitions>>, Requested'
  PROVE  SchemaInv' /\ VersionsKept
  <1>1. UNCHANGED <<types, versions, defs, defVers>>
    BY DEF schema, definitions
  <1>2. Tables'
    BY <1>1 DEF SchemaInv, Tables
  <1>3. VersionsKept
    BY <1>1, LatestNat DEF SchemaInv, VersionsKept, Latest, Unordered
  <1>. QED BY <1>2, <1>3 DEF SchemaInv

LEMMA VersionsSame ==
  ASSUME SchemaInv, versions' = versions, Requested',
         (types \in [Types -> TypeNames \cup {Unborn, Gone}])', (defs \subseteq Defs)',
         (defVers \in [Defs -> 0..MaxDefVersions])'
  PROVE  SchemaInv' /\ VersionsKept
  <1>1. Tables'
    BY DEF SchemaInv, Tables
  <1>2. VersionsKept
    BY LatestNat DEF SchemaInv, VersionsKept, Latest, Unordered
  <1>. QED BY <1>1, <1>2 DEF SchemaInv

(***************************************************************************)
(* A request that starts.                                                  *)
(***************************************************************************)
LEMMA StartStep ==
  ASSUME SchemaInv, NEW q \in Reqs, NEW r, NEW flaws, Start(q, r, flaws), Schemed(r),
         UNCHANGED <<schema, definitions>>
  PROVE  SchemaInv' /\ VersionsKept
  BY OneRequest, SchemaSame DEF Start

LEMMA NewRequestTyped == NewRequest \in Request /\ NewRequest.pc = "create" /\ NewRequest.base = 0
  BY DEF NewRequest, Request, SchemaOps, EditOps

LEMMA OpsKnown ==
  /\ EditOps \subseteq SchemaOps
  /\ "describe" \in EditOps /\ "addAttribute" \in EditOps /\ "removeAttribute" \in EditOps
  /\ "editAttribute" \in EditOps /\ "copyAttributes" \in EditOps
  /\ "createAssociation" \in EditOps /\ "editAssociation" \in EditOps
  /\ "deleteAssociation" \in EditOps
  /\ "createType" \in SchemaOps /\ "copyType" \in SchemaOps /\ "rename" \in SchemaOps
  /\ "reorder" \in SchemaOps /\ "createDef" \in SchemaOps /\ "updateDef" \in SchemaOps
  /\ "deleteDef" \in SchemaOps
  BY DEF SchemaOps, EditOps

LEMMA StartEditStep ==
  ASSUME SchemaInv, NEW q \in Reqs, NEW r \in Request, NEW flaws, StartEdit(q, r, flaws),
         r.op \in EditOps, r.pc = "create", r.type \in Types,
         r.op = "createAssociation" => r.assoc \in Assoc
  PROVE  SchemaInv' /\ VersionsKept
  <1>. DEFINE s == [r EXCEPT !.from = r.type, !.fromVer = Latest(r.type), !.base = Latest(r.type)]
  <1>1. Latest(r.type) \in Nat
    BY LatestNat DEF SchemaInv
  <1>2. s \in Request
    BY <1>1 DEF Request
  <1>3. Fits(s)
    BY DEF Fits, EditOps, Request
  <1>4. Schemed(s)
    BY <1>2, <1>3 DEF Schemed, Request
  <1>5. Start(q, s, flaws) /\ UNCHANGED <<schema, definitions>>
    BY DEF StartEdit
  <1>. HIDE DEF s
  <1>. QED BY <1>4, <1>5, StartStep

(***************************************************************************)
(* The edits, as they start: what is asked for is well formed, and the     *)
(* type definition versions it names exist or are in use.                  *)
(***************************************************************************)
InUse(d) == \E t \in Types : \E v \in 1..Latest(t) : \E a \in versions[t][v].attrs : a.tdv = d

EditBegun(q) ==
    \E r \in Request, flaws \in SUBSET {"copied", "retyped", "untyped"} :
       /\ StartEdit(q, r, flaws)
       /\ r.op \in EditOps /\ r.pc = "create" /\ r.type \in Types
       /\ r.op = "createAssociation" => r.assoc \in Assoc
       /\ r.tdv = None \/ r.tdv \in DefVersions \/ (r.tdv = Untyped /\ "untyped" \in flaws)
       /\ r.op \notin {"addAttribute", "copyAttributes"} => r.adds = << >>
       /\ \A i \in 1..Len(r.adds) :
            /\ r.adds[i].tdv \in DefVersions \/ InUse(r.adds[i].tdv)
            /\ r.adds[i].root = <<r.type, r.adds[i].name, Latest(r.type) + 1>>

LEMMA EditBegunStep ==
  ASSUME SchemaInv, NEW q \in Reqs, EditBegun(q)
  PROVE  SchemaInv' /\ VersionsKept
  BY StartEditStep DEF EditBegun

LEMMA Begun ==
  ASSUME NEW q \in Reqs, NEW r \in Request, NEW flaws \in SUBSET {"copied", "retyped", "untyped"},
         StartEdit(q, r, flaws), r.op \in EditOps, r.pc = "create", r.type \in Types,
         r.op = "createAssociation" => r.assoc \in Assoc,
         r.tdv = None, r.adds = << >>
  PROVE  EditBegun(q)
  BY DEF EditBegun

LEMMA UpdateEntityTypeBegins ==
  ASSUME SchemaInv, NEW q \in Reqs, UpdateEntityType(q)
  PROVE  EditBegun(q)
  <1>1. PICK t \in Types :
          StartEdit(q, [NewRequest EXCEPT !.op = "describe", !.type = t], {})
    BY DEF UpdateEntityType
  <1>. DEFINE r == [NewRequest EXCEPT !.op = "describe", !.type = t]
  <1>2. r \in Request /\ r.op = "describe" /\ r.pc = "create" /\ r.type = t
    <2>1. "describe" \in SchemaOps
      BY OpsKnown
    <2>2. r \in Request
      BY <2>1, NewRequestTyped DEF Request
    <2>. QED BY <2>2, NewRequestTyped DEF Request
  <1>3. r.tdv = None /\ r.adds = << >>
    BY DEF NewRequest
  <1>. HIDE DEF r
  <1>4. StartEdit(q, r, {})
    BY <1>1 DEF r
  <1>. QED BY <1>3, <1>2, <1>4, Begun DEF EditOps

LEMMA NewAttrTyped ==
  ASSUME Tables, NEW t \in Types, NEW f \in Fields, NEW d \in DefVersion \cup {Untyped}, NEW n \in Nat
  PROVE  NewAttr(t, f, d, n) \in Attr
  BY LatestNat DEF NewAttr, Attr, Root

LEMMA AttrCount ==
  ASSUME Tables, NEW t \in Types, Latest(t) > 0
  PROVE  Cardinality(versions[t][Latest(t)].attrs) \in Nat
  <1>1. Has(t, Latest(t))
    BY LatestNat DEF Has
  <1>. QED BY <1>1, VersionFinite, FiniteParts, FS_CardinalityType

LEMMA AddAttributeBegins ==
  ASSUME SchemaInv, NEW q \in Reqs, AddAttribute(q)
  PROVE  EditBegun(q)
  <1>1. PICK t \in Types, f \in Fields, d \in DefVersions :
          /\ Latest(t) > 0
          /\ StartEdit(q, [NewRequest EXCEPT !.op = "addAttribute", !.type = t, !.adds =
                 <<NewAttr(t, f, d, Cardinality(versions[t][Latest(t)].attrs))>>], {})
    BY DEF AddAttribute
  <1>2. PICK a : a = NewAttr(t, f, d, Cardinality(versions[t][Latest(t)].attrs))
    OBVIOUS
  <1>3. a \in Attr
    BY <1>1, <1>2, AttrCount, NewAttrTyped DEF SchemaInv, DefVersions
  <1>. DEFINE r == [NewRequest EXCEPT !.op = "addAttribute", !.type = t, !.adds = <<a>>]
  <1>4. r \in Request /\ r.op = "addAttribute" /\ r.pc = "create" /\ r.type = t
    <2>1. "addAttribute" \in SchemaOps
      BY OpsKnown
    <2>2. <<a>> \in Seq(Attr)
      BY <1>3
    <2>3. r \in Request
      BY <2>1, <2>2, NewRequestTyped DEF Request
    <2>. QED BY <2>3, NewRequestTyped DEF Request
  <1>5. StartEdit(q, r, {})
    BY <1>1, <1>2
  <1>6. a.tdv \in DefVersions /\ a.root = <<t, a.name, Latest(t) + 1>>
    BY <1>2 DEF NewAttr
  <1>7. r.tdv = None /\ r.adds = <<a>>
    BY DEF NewRequest
  <1>. HIDE DEF r
  <1>8. \A i \in 1..Len(r.adds) : r.adds[i] = a
    BY <1>7
  <1>. QED BY <1>7, <1>4, <1>5, <1>6, <1>8 DEF EditOps, EditBegun

LEMMA RemoveAttributeBegins ==
  ASSUME SchemaInv, NEW q \in Reqs, RemoveAttribute(q)
  PROVE  EditBegun(q)
  <1>1. PICK t \in Types, f \in Fields :
          StartEdit(q, [NewRequest EXCEPT !.op = "removeAttribute", !.type = t, !.name = f], {})
    BY DEF RemoveAttribute
  <1>. DEFINE r == [NewRequest EXCEPT !.op = "removeAttribute", !.type = t, !.name = f]
  <1>2. r \in Request /\ r.op = "removeAttribute" /\ r.pc = "create" /\ r.type = t
    <2>1. "removeAttribute" \in SchemaOps
      BY OpsKnown
    <2>2. r \in Request
      BY <2>1, NewRequestTyped DEF Request
    <2>. QED BY <2>2, NewRequestTyped DEF Request
  <1>3. StartEdit(q, r, {})
    BY <1>1
  <1>4. r.tdv = None /\ r.adds = << >>
    BY DEF NewRequest
  <1>. HIDE DEF r
  <1>. QED BY <1>4, <1>2, <1>3, Begun DEF EditOps

LEMMA ToTyped ==
  ASSUME NEW r \in Request, NEW g \in Fields \cup {None}
  PROVE  [r EXCEPT !.to = g] \in Request
  BY DEF Request

LEMMA TdvTyped ==
  ASSUME NEW r \in Request, NEW S, S = DefVersion \cup {Untyped, None}, NEW d \in S
  PROVE  [r EXCEPT !.tdv = d] \in Request
  <1>. DEFINE u == [r EXCEPT !.tdv = d]
  <1>1. /\ DOMAIN u = DOMAIN r
        /\ \A x \in DOMAIN r : u[x] = IF x = "tdv" THEN d ELSE r[x]
    BY DEF Request
  <1>. QED BY <1>1 DEF Request

LEMMA KindTyped ==
  ASSUME NEW r \in Request, NEW k \in Kinds \cup {None}
  PROVE  [r EXCEPT !.kind = k] \in Request
  BY DEF Request

LEMMA EditTyped ==
  ASSUME NEW r \in Request, NEW g \in Fields \cup {None},
         NEW S, S = DefVersion \cup {Untyped, None}, NEW d \in S
  PROVE  [r EXCEPT !.to = g, !.tdv = d] \in Request
  <1>1. [r EXCEPT !.to = g] \in Request
    BY ToTyped
  <1>2. [[r EXCEPT !.to = g] EXCEPT !.tdv = d] \in Request
    BY <1>1, TdvTyped
  <1>. QED BY <1>2

LEMMA EditAttributeBegins ==
  ASSUME SchemaInv, NEW q \in Reqs, EditAttribute(q)
  PROVE  EditBegun(q)
  <1>1. PICK t \in Types, f \in Fields, g \in Fields \cup {None},
             d \in DefVersions \cup {Untyped, None} :
          StartEdit(q, [NewRequest EXCEPT !.op = "editAttribute", !.type = t, !.name = f,
                                          !.to = g, !.tdv = d],
                    IF d = Untyped THEN {"untyped"} ELSE {})
    BY DEF EditAttribute
  <1>. DEFINE flaws == IF d = Untyped THEN {"untyped"} ELSE {}
  <1>. DEFINE r == [NewRequest EXCEPT !.op = "editAttribute", !.type = t, !.name = f,
                                      !.to = g, !.tdv = d]
  <1>2. r \in Request /\ r.op = "editAttribute" /\ r.pc = "create" /\ r.type = t
    <2>1. "editAttribute" \in SchemaOps
      BY OpsKnown
    <2>2. d \in DefVersion \cup {Untyped, None}
      BY DEF DefVersions
    <2>3. PICK first : first = [NewRequest EXCEPT !.op = "editAttribute", !.type = t, !.name = f]
      OBVIOUS
    <2>4. first \in Request
      BY <2>1, <2>3, NewRequestTyped DEF Request
    <2>5. [first EXCEPT !.to = g, !.tdv = d] \in Request
      <3>1. PICK S : S = DefVersion \cup {Untyped, None}
        OBVIOUS
      <3>2. d \in S
        BY <2>2, <3>1
      <3>. QED BY <2>4, <3>1, <3>2, EditTyped
    <2>6. r = [first EXCEPT !.to = g, !.tdv = d]
      BY <2>3
    <2>. QED BY <2>5, <2>6, NewRequestTyped DEF Request
  <1>3. StartEdit(q, r, flaws)
    BY <1>1
  <1>4. r.tdv = d /\ r.adds = << >>
    BY DEF NewRequest
  <1>5. /\ flaws \in SUBSET {"copied", "retyped", "untyped"}
        /\ d = None \/ d \in DefVersions \/ (d = Untyped /\ "untyped" \in flaws)
    OBVIOUS
  <1>. HIDE DEF r, flaws
  <1>6. 1..Len(r.adds) = {}
    BY <1>4
  <1>. QED BY <1>4, <1>2, <1>3, <1>5, <1>6 DEF EditOps, EditBegun

LEMMA CopyAttributesBegins ==
  ASSUME SchemaInv, NEW q \in Reqs, CopyAttributesFromType(q)
  PROVE  EditBegun(q)
  <1>. DEFINE Picked(t, order) ==
         [NewRequest EXCEPT !.op = "copyAttributes", !.type = t, !.adds = Copies(t, order)]
  <1>1. PICK t \in Types, u \in Types : \E v \in 1..Latest(u) :
          \E chosen \in SUBSET versions[u][v].attrs :
             /\ Latest(t) > 0
             /\ \E order \in [1..Cardinality(chosen) -> chosen] :
                   StartEdit(q, Picked(t, order), {"copied"})
    BY DEF CopyAttributesFromType
  <1>2. PICK v \in 1..Latest(u) : \E chosen \in SUBSET versions[u][v].attrs :
             /\ Latest(t) > 0
             /\ \E order \in [1..Cardinality(chosen) -> chosen] :
                   StartEdit(q, Picked(t, order), {"copied"})
    BY <1>1
  <1>3. PICK chosen \in SUBSET versions[u][v].attrs :
             /\ Latest(t) > 0
             /\ \E order \in [1..Cardinality(chosen) -> chosen] :
                   StartEdit(q, Picked(t, order), {"copied"})
    BY <1>2
  <1>4. PICK order \in [1..Cardinality(chosen) -> chosen] :
             StartEdit(q, Picked(t, order), {"copied"})
    BY <1>3
  <1>5. chosen \subseteq Attr /\ Cardinality(chosen) \in Nat
    <2>1. Has(u, v)
      BY <1>2 DEF Has
    <2>2. versions[u][v].attrs \subseteq Attr /\ IsFiniteSet(versions[u][v].attrs)
      BY <2>1, VersionFinite, FiniteParts DEF SchemaInv
    <2>. QED BY <1>3, <2>2, FS_Subset, FS_CardinalityType
  <1>6. PICK n \in Nat : n = Cardinality(versions[t][Latest(t)].attrs)
    BY <1>3, AttrCount DEF SchemaInv
  <1>. DEFINE adds == [i \in DOMAIN order |-> NewAttr(t, order[i].name, order[i].tdv, n + i - 1)]
  <1>7. DOMAIN order = 1..Cardinality(chosen)
    BY <1>4
  <1>8. ASSUME NEW i \in 1..Cardinality(chosen)
        PROVE  NewAttr(t, order[i].name, order[i].tdv, n + i - 1) \in Attr
    <2>1. order[i] \in Attr
      BY <1>4, <1>5
    <2>2. order[i].name \in Fields /\ order[i].tdv \in DefVersion \cup {Untyped}
      BY <2>1 DEF Attr
    <2>3. n + i - 1 \in Nat
      BY <1>5, <1>6
    <2>. QED BY <2>2, <2>3, NewAttrTyped DEF SchemaInv
  <1>9. adds \in Seq(Attr)
    BY <1>5, <1>7, <1>8
  <1>10. Picked(t, order) = [NewRequest EXCEPT !.op = "copyAttributes", !.type = t, !.adds = adds]
    BY <1>6 DEF Copies
  <1>11. PICK a : a = adds
    OBVIOUS
  <1>. DEFINE r == [NewRequest EXCEPT !.op = "copyAttributes", !.type = t, !.adds = a]
  <1>12. r \in Request /\ r.op = "copyAttributes" /\ r.pc = "create" /\ r.type = t
    <2>1. "copyAttributes" \in SchemaOps
      BY OpsKnown
    <2>2. a \in Seq(Attr)
      BY <1>9, <1>11
    <2>. HIDE DEF adds
    <2>3. r \in Request
      BY <2>1, <2>2, NewRequestTyped DEF Request
    <2>. QED BY <2>3, NewRequestTyped DEF Request
  <1>13. StartEdit(q, r, {"copied"})
    BY <1>4, <1>10, <1>11
  <1>14. r.tdv = None /\ r.adds = a
    BY DEF NewRequest
  <1>. HIDE DEF r
  <1>15. ASSUME NEW i \in 1..Len(a)
         PROVE  InUse(a[i].tdv) /\ a[i].root = <<t, a[i].name, Latest(t) + 1>>
    <2>1. i \in DOMAIN order /\ a[i] = NewAttr(t, order[i].name, order[i].tdv, n + i - 1)
      BY <1>5, <1>7, <1>11
    <2>2. order[i] \in versions[u][v].attrs
      BY <1>3, <1>4, <2>1
    <2>3. InUse(order[i].tdv)
      BY <1>2, <2>2 DEF InUse
    <2>. QED BY <2>1, <2>3 DEF NewAttr
  <1>. QED BY <1>14, <1>12, <1>13, <1>15 DEF EditOps, EditBegun

LEMMA CreateAssociationBegins ==
  ASSUME SchemaInv, NEW q \in Reqs, CreateAssociation(q)
  PROVE  EditBegun(q)
  <1>1. PICK t \in Types, a \in Assoc :
          StartEdit(q, [NewRequest EXCEPT !.op = "createAssociation", !.type = t,
                                          !.assoc = a], {})
    BY DEF CreateAssociation, Assoc
  <1>. DEFINE r == [NewRequest EXCEPT !.op = "createAssociation", !.type = t, !.assoc = a]
  <1>2. r \in Request /\ r.op = "createAssociation" /\ r.pc = "create" /\ r.type = t
        /\ r.assoc = a
    <2>1. "createAssociation" \in SchemaOps
      BY OpsKnown
    <2>2. r \in Request
      BY <2>1, NewRequestTyped DEF Request
    <2>. QED BY <2>2, NewRequestTyped DEF Request
  <1>3. StartEdit(q, r, {})
    BY <1>1
  <1>4. r.tdv = None /\ r.adds = << >>
    BY DEF NewRequest
  <1>. HIDE DEF r
  <1>. QED BY <1>4, <1>2, <1>3, Begun DEF EditOps

LEMMA SingleTyped ==
  ASSUME NEW r \in Request, NEW single \in BOOLEAN \cup {None}
  PROVE  [r EXCEPT !.single = single] \in Request
  BY DEF Request

LEMMA EditAssociationBegins ==
  ASSUME SchemaInv, NEW q \in Reqs, EditAssociation(q)
  PROVE  EditBegun(q)
  <1>1. PICK t \in Types, f \in Fields, g \in Fields \cup {None},
             k \in Kinds \cup {None}, single \in BOOLEAN \cup {None} :
          \E a \in versions[t][Latest(t)].assocs :
             StartEdit(q, [NewRequest EXCEPT !.op = "editAssociation", !.type = t, !.name = f,
                                             !.to = g, !.kind = k, !.single = single],
                       IF Retyped(a, k) THEN {"retyped"} ELSE {})
    BY ZenonT(120) DEF EditAssociation
  <1>2. PICK flaws \in SUBSET {"copied", "retyped", "untyped"} :
          StartEdit(q, [NewRequest EXCEPT !.op = "editAssociation", !.type = t, !.name = f,
                                          !.to = g, !.kind = k, !.single = single], flaws)
    BY <1>1
  <1>. DEFINE s == [NewRequest EXCEPT !.op = "editAssociation", !.type = t, !.name = f,
                                      !.to = g, !.kind = k]
              r == [s EXCEPT !.single = single]
  <1>3. s \in Request /\ s.op = "editAssociation" /\ s.pc = "create" /\ s.type = t
    <2>1. "editAssociation" \in SchemaOps
      BY OpsKnown
    <2>. DEFINE named == [NewRequest EXCEPT !.op = "editAssociation", !.type = t, !.name = f]
    <2>2. named \in Request
      BY <2>1, NewRequestTyped DEF Request
    <2>3. s = [named EXCEPT !.to = g, !.kind = k]
      OBVIOUS
    <2>4. /\ s.op = "editAssociation" /\ s.pc = "create" /\ s.type = t
      BY NewRequestTyped DEF Request
    <2>. HIDE DEF named
    <2>5. [[named EXCEPT !.to = g] EXCEPT !.kind = k] \in Request
      BY <2>2, ToTyped, KindTyped
    <2>6. [named EXCEPT !.to = g, !.kind = k] = [[named EXCEPT !.to = g] EXCEPT !.kind = k]
      OBVIOUS
    <2>. QED BY <2>3, <2>4, <2>5, <2>6
  <1>4. r = [NewRequest EXCEPT !.op = "editAssociation", !.type = t, !.name = f,
                               !.to = g, !.kind = k, !.single = single]
    OBVIOUS
  <1>5. StartEdit(q, r, flaws)
    BY <1>2, <1>4
  <1>6. s.tdv = None /\ s.adds = << >>
    BY DEF NewRequest
  <1>. HIDE DEF s
  <1>7. r \in Request /\ r.op = "editAssociation" /\ r.pc = "create" /\ r.type = t
        /\ r.tdv = None /\ r.adds = << >>
    BY <1>3, <1>6, SingleTyped DEF Request
  <1>. HIDE DEF r
  <1>. QED BY <1>5, <1>7, Begun DEF EditOps

LEMMA DeleteAssociationBegins ==
  ASSUME SchemaInv, NEW q \in Reqs, DeleteAssociation(q)
  PROVE  EditBegun(q)
  <1>1. PICK t \in Types, f \in Fields :
          StartEdit(q, [NewRequest EXCEPT !.op = "deleteAssociation", !.type = t, !.name = f], {})
    BY DEF DeleteAssociation
  <1>. DEFINE r == [NewRequest EXCEPT !.op = "deleteAssociation", !.type = t, !.name = f]
  <1>2. r \in Request /\ r.op = "deleteAssociation" /\ r.pc = "create" /\ r.type = t
    <2>1. "deleteAssociation" \in SchemaOps
      BY OpsKnown
    <2>2. r \in Request
      BY <2>1, NewRequestTyped DEF Request
    <2>. QED BY <2>2, NewRequestTyped DEF Request
  <1>3. StartEdit(q, r, {})
    BY <1>1
  <1>4. r.tdv = None /\ r.adds = << >>
    BY DEF NewRequest
  <1>. HIDE DEF r
  <1>. QED BY <1>4, <1>2, <1>3, Begun DEF EditOps

LEMMA EditsBegin ==
  ASSUME SchemaInv, NEW q \in Reqs,
         \/ UpdateEntityType(q) \/ AddAttribute(q) \/ RemoveAttribute(q) \/ EditAttribute(q)
         \/ CopyAttributesFromType(q) \/ CreateAssociation(q) \/ EditAssociation(q)
         \/ DeleteAssociation(q)
  PROVE  EditBegun(q)
  BY UpdateEntityTypeBegins, AddAttributeBegins, RemoveAttributeBegins, EditAttributeBegins,
     CopyAttributesBegins, CreateAssociationBegins, EditAssociationBegins, DeleteAssociationBegins

-----------------------------------------------------------------------------
(***************************************************************************)
(* The statements of an edit.                                              *)
(***************************************************************************)
LEMMA Moves ==
  ASSUME SchemaInv, NEW q \in Reqs, req[q].op \in SchemaOps, NEW pc, Goto(q, pc),
         pc \in {"copyAssocs", "change", "readType", "insertDefVersion"},
         Fits([req[q] EXCEPT !.pc = pc])
  PROVE  Requested'
  <1>. DEFINE r == [req[q] EXCEPT !.pc = pc]
  <1>1. req[q] \in Request
    BY RequestKnown
  <1>2. r \in Request
    BY <1>1 DEF Request
  <1>3. Schemed(r)
    BY <1>2 DEF Schemed, Request
  <1>4. req' = [req EXCEPT ![q] = r]
    BY DEF Goto
  <1>. HIDE DEF r
  <1>. QED BY <1>3, <1>4, OneRequest

LEMMA ContentStep ==
  ASSUME SchemaInv, NEW q \in Reqs, NEW r, r = req[q], r.op \in SchemaOps, r.type \in Types,
         NEW c \in Finite, SetContent(r, c), UNCHANGED <<types, definitions>>, Requested',
         r.op # "reorder" \/ Unordered(c) = Unordered(Made(r))
  PROVE  SchemaInv' /\ VersionsKept
  <1>1. UNCHANGED <<types, defs, defVers>>
    BY DEF definitions
  <1>2. CASE ~Has(r.type, r.made)
    <2>1. versions' = versions
      BY <1>2 DEF SetContent
    <2>. QED BY <1>1, <2>1, SchemaSame DEF schema, definitions
  <1>3. CASE Has(r.type, r.made)
    <2>. DEFINE t == r.type
                s == [versions[t] EXCEPT ![r.made] = c]
    <2>1. versions[t] \in Seq(Finite) /\ versions \in [Types -> Seq(Finite)]
      BY DEF SchemaInv, Tables
    <2>2. r.made \in 1..Len(versions[t])
      BY <1>3 DEF Has, Latest
    <2>3. /\ s \in Seq(Finite) /\ Len(s) = Len(versions[t])
          /\ \A j \in 1..Len(versions[t]) : s[j] = IF j = r.made THEN c ELSE versions[t][j]
      BY <2>1, <2>2, ReplaceInSeq
    <2>4. versions' = [versions EXCEPT ![t] = s]
      BY <1>3 DEF SetContent
    <2>. HIDE DEF s
    <2>5. versions'[t] = s /\ \A u \in Types \ {t} : versions'[u] = versions[u]
      BY <2>1, <2>4
    <2>6. Tables'
      <3>1. versions' \in [Types -> Seq(Finite)]
        BY <2>1, <2>3, <2>4
      <3>. QED BY <3>1, <1>1 DEF SchemaInv, Tables
    <2>7. VersionsKept
      <3>. SUFFICES ASSUME NEW u \in Types, NEW v \in 1..Latest(u), ~BeingMade(u, v)
                    PROVE  /\ v <= Len(versions'[u])
                           /\ Unordered(versions'[u][v]) = Unordered(versions[u][v])
        BY DEF VersionsKept
      <3>0. Latest(u) \in Nat
        BY LatestNat DEF SchemaInv
      <3>1. CASE u # t
        BY <2>5, <3>0, <3>1 DEF Latest
      <3>2. CASE u = t /\ v # r.made
        BY <2>3, <2>5, <3>0, <3>2 DEF Latest
      <3>3. CASE u = t /\ v = r.made
        <4>1. r.op = "reorder"
          BY <3>3 DEF BeingMade
        <4>2. Unordered(c) = Unordered(versions[u][v])
          BY <4>1, <1>3, <3>3 DEF Made
        <4>3. versions'[u][v] = c
          BY <2>3, <2>5, <3>3 DEF Latest
        <4>4. v <= Len(versions'[u])
          BY <2>3, <2>5, <3>0, <3>3 DEF Latest
        <4>. QED BY <4>2, <4>3, <4>4
      <3>. QED BY <3>1, <3>2, <3>3
    <2>. QED BY <2>6, <2>7 DEF SchemaInv
  <1>. QED BY <1>2, <1>3

LEMMA EditingTyped ==
  ASSUME SchemaInv, NEW q \in Reqs, NEW pc, At(q, pc),
         pc \in {"create", "copyAttrs", "copyAssocs", "change", "readType", "saveType", "reorder"}
  PROVE  /\ req[q].op \in SchemaOps /\ req[q] \in Request /\ Fits(req[q])
         /\ req[q].pc = pc /\ req[q].type \in Types
  BY RequestKnown DEF At, Fits

LEMMA CreateVersionStep ==
  ASSUME SchemaInv, NEW q \in Reqs, CreateVersion(q)
  PROVE  SchemaInv' /\ VersionsKept
  <1>. DEFINE r == req[q]
              t == r.type
  <1>1. r.op \in SchemaOps /\ r \in Request /\ Fits(r) /\ r.pc = "create" /\ t \in Types
    BY EditingTyped DEF CreateVersion
  <1>2. UNCHANGED <<types, defs, defVers>>
    BY DEF CreateVersion, definitions
  <1>3. CASE t \in Named /\ Latest(t) = r.base
    <2>. DEFINE s == [r EXCEPT !.made = r.base + 1, !.pc = "copyAttrs"]
                w == Append(versions[t], Empty)
    <2>1. s \in Request
      <3>1. r.base + 1 \in Nat
        BY <1>1 DEF Request
      <3>. QED BY <1>1, <3>1 DEF Request
    <2>2. r.op # "createType" => Schemed(s)
      BY <1>1, <2>1 DEF Schemed, Fits, Request
    <2>3. req' = [req EXCEPT ![q] = IF r.op = "createType" THEN Idle ELSE s]
      BY <1>3 DEF CreateVersion
    <2>. HIDE DEF s
    <2>4. Requested'
      BY <2>2, <2>3, IdleSchemed, OneRequest
    <2>5. versions \in [Types -> Seq(Finite)] /\ versions[t] \in Seq(Finite)
      BY <1>1 DEF SchemaInv, Tables
    <2>6. /\ w \in Seq(Finite) /\ Len(w) = Len(versions[t]) + 1
          /\ \A j \in 1..Len(versions[t]) : w[j] = versions[t][j]
      BY <2>5, EmptyFinite, AppendToSeq
    <2>7. versions' = [versions EXCEPT ![t] = w]
      BY <1>3 DEF CreateVersion
    <2>. HIDE DEF w
    <2>8. versions'[t] = w /\ \A u \in Types \ {t} : versions'[u] = versions[u]
      BY <1>1, <2>5, <2>7
    <2>9. Tables'
      <3>1. versions' \in [Types -> Seq(Finite)]
        BY <2>5, <2>6, <2>7
      <3>. QED BY <3>1, <1>2 DEF SchemaInv, Tables
    <2>10. VersionsKept
      <3>. SUFFICES ASSUME NEW u \in Types, NEW v \in 1..Latest(u)
                    PROVE  v <= Len(versions'[u]) /\ versions'[u][v] = versions[u][v]
        BY DEF VersionsKept
      <3>0. Latest(u) \in Nat
        BY LatestNat DEF SchemaInv
      <3>1. CASE u # t
        BY <2>8, <3>0, <3>1 DEF Latest
      <3>2. CASE u = t
        BY <2>6, <2>8, <3>0, <3>2 DEF Latest
      <3>. QED BY <3>1, <3>2
    <2>. QED BY <2>4, <2>9, <2>10 DEF SchemaInv
  <1>4. CASE ~(t \in Named /\ Latest(t) = r.base)
    <2>1. Finish(q) /\ versions' = versions
      BY <1>4 DEF CreateVersion
    <2>. QED BY <1>2, <2>1, Ends, SchemaSame DEF schema, definitions
  <1>. QED BY <1>3, <1>4

LEMMA CopyAttrsStep ==
  ASSUME SchemaInv, NEW q \in Reqs, CopyAttrs(q)
  PROVE  SchemaInv' /\ VersionsKept
  <1>1. PICK r : r = req[q]
    OBVIOUS
  <1>2. /\ r.op \in SchemaOps /\ r \in Request /\ Fits(r) /\ r.pc = "copyAttrs"
        /\ r.type \in Types /\ r.from \in Types /\ r.op # "reorder"
    BY <1>1, EditingTyped DEF CopyAttrs, Fits
  <1>3. PICK c : c = [Made(r) EXCEPT !.attrs = Source(r).attrs]
    OBVIOUS
  <1>4. c \in Finite
    BY <1>2, <1>3, MadeFinite, SourceFinite, FiniteParts, WithAttrs DEF SchemaInv
  <1>5. SetContent(r, c) /\ UNCHANGED <<types, definitions>>
    BY <1>1, <1>3 DEF CopyAttrs
  <1>6. Requested'
    <2>1. CASE r.op \in EditOps
      <3>1. Goto(q, "copyAssocs")
        BY <1>1, <2>1 DEF CopyAttrs
      <3>2. Fits([req[q] EXCEPT !.pc = "copyAssocs"])
        BY <1>1, <1>2 DEF Fits, Request
      <3>. QED BY <1>1, <1>2, <3>1, <3>2, Moves
    <2>2. CASE r.op \notin EditOps
      BY <1>1, <2>2, Ends DEF CopyAttrs
    <2>. QED BY <2>1, <2>2
  <1>. QED BY <1>1, <1>2, <1>4, <1>5, <1>6, ContentStep

LEMMA CopyAssocsStep ==
  ASSUME SchemaInv, NEW q \in Reqs, CopyAssocs(q)
  PROVE  SchemaInv' /\ VersionsKept
  <1>1. PICK r : r = req[q]
    OBVIOUS
  <1>2. /\ r.op \in SchemaOps /\ r \in Request /\ Fits(r) /\ r.pc = "copyAssocs"
        /\ r.type \in Types /\ r.from \in Types /\ r.op # "reorder"
    BY <1>1, EditingTyped DEF CopyAssocs, Fits
  <1>3. PICK c : c = [Made(r) EXCEPT !.assocs = Source(r).assocs]
    OBVIOUS
  <1>4. c \in Finite
    BY <1>2, <1>3, MadeFinite, SourceFinite, FiniteParts, WithAssocs DEF SchemaInv
  <1>5. SetContent(r, c) /\ UNCHANGED <<types, definitions>>
    BY <1>1, <1>3 DEF CopyAssocs
  <1>6. PICK pc \in {"readType", "change"} : Goto(q, pc)
    BY <1>1 DEF CopyAssocs
  <1>7. Fits([req[q] EXCEPT !.pc = pc])
    BY <1>1, <1>2 DEF Fits, Request
  <1>8. Requested'
    BY <1>1, <1>2, <1>6, <1>7, Moves
  <1>. QED BY <1>1, <1>2, <1>4, <1>5, <1>8, ContentStep

(***************************************************************************)
(* The changes of the copy.                                                *)
(***************************************************************************)
LEMMA ChangeStep ==
  ASSUME SchemaInv, NEW q \in Reqs, At(q, "change"), NEW c \in Finite,
         SetContent(req[q], c), UNCHANGED <<types, definitions>>, Requested'
  PROVE  SchemaInv' /\ VersionsKept
  <1>1. req[q].op \in SchemaOps /\ req[q].type \in Types /\ req[q].op # "reorder"
    BY EditingTyped DEF Fits
  <1>. QED BY <1>1, ContentStep

LEMMA InsertAttrStep ==
  ASSUME SchemaInv, NEW q \in Reqs, InsertAttr(q)
  PROVE  SchemaInv' /\ VersionsKept
  <1>1. PICK r : r = req[q]
    OBVIOUS
  <1>2. /\ r.op \in SchemaOps /\ r \in Request /\ Fits(r) /\ r.pc = "change"
        /\ r.type \in Types /\ At(q, "change") /\ r.adds # << >>
    BY <1>1, EditingTyped DEF InsertAttr
  <1>3. UNCHANGED <<types, definitions>>
    BY DEF InsertAttr
  <1>4. CASE Has(r.type, r.made) /\ Head(r.adds).name \notin AttrNames(r.type, r.made)
    <2>1. PICK c : c = [Made(r) EXCEPT !.attrs = @ \cup {Head(r.adds)}]
      OBVIOUS
    <2>2. r.adds \in Seq(Attr)
      BY <1>2 DEF Request
    <2>3. Head(r.adds) \in Attr /\ Tail(r.adds) \in Seq(Attr)
      BY <1>2, <2>2
    <2>4. c \in Finite
      BY <1>2, <2>1, <2>3, MadeFinite, FiniteParts, WithAttrs, FS_AddElement DEF SchemaInv
    <2>5. SetContent(req[q], c)
      BY <1>1, <1>4, <2>1 DEF InsertAttr
    <2>. DEFINE s == [r EXCEPT !.adds = Tail(r.adds)]
    <2>6. s \in Request
      BY <1>2, <2>3 DEF Request
    <2>7. Schemed(s)
      BY <1>2, <2>6 DEF Schemed, Fits, Request
    <2>8. req' = [req EXCEPT ![q] = IF Len(r.adds) = 1 THEN Idle ELSE s]
      BY <1>1, <1>4 DEF InsertAttr
    <2>. HIDE DEF s
    <2>9. Requested'
      BY <2>7, <2>8, IdleSchemed, OneRequest
    <2>. QED BY <1>2, <1>3, <2>4, <2>5, <2>9, ChangeStep
  <1>5. CASE ~(Has(r.type, r.made) /\ Head(r.adds).name \notin AttrNames(r.type, r.made))
    <2>1. Finish(q) /\ versions' = versions
      BY <1>1, <1>5 DEF InsertAttr
    <2>. QED BY <1>3, <2>1, Ends, SchemaSame DEF schema
  <1>. QED BY <1>4, <1>5

LEMMA DropAttrStep ==
  ASSUME SchemaInv, NEW q \in Reqs, DropAttr(q)
  PROVE  SchemaInv' /\ VersionsKept
  <1>1. At(q, "change") /\ UNCHANGED <<types, definitions>> /\ Finish(q)
    BY DEF DropAttr, Changing
  <1>2. PICK old : old = Made(req[q])
    OBVIOUS
  <1>3. old \in Finite
    BY <1>1, <1>2, EditingTyped, MadeFinite DEF SchemaInv
  <1>4. PICK A : A = {a \in old.attrs : a.name # req[q].name}
    OBVIOUS
  <1>5. A \in SUBSET Attr /\ IsFiniteSet(A)
    BY <1>3, <1>4, FiniteParts, FS_Subset
  <1>6. SetContent(req[q], [old EXCEPT !.attrs = A])
    BY <1>2, <1>4 DEF DropAttr
  <1>7. [old EXCEPT !.attrs = A] \in Finite
    BY <1>3, <1>5, WithAttrs
  <1>. QED BY <1>1, <1>6, <1>7, Ends, ChangeStep

LEMMA DropAssocStep ==
  ASSUME SchemaInv, NEW q \in Reqs, DropAssoc(q)
  PROVE  SchemaInv' /\ VersionsKept
  <1>1. At(q, "change") /\ UNCHANGED <<types, definitions>> /\ Finish(q)
    BY DEF DropAssoc, Changing
  <1>2. PICK old : old = Made(req[q])
    OBVIOUS
  <1>3. old \in Finite
    BY <1>1, <1>2, EditingTyped, MadeFinite DEF SchemaInv
  <1>4. PICK A : A = {a \in old.assocs : a.name # req[q].name}
    OBVIOUS
  <1>5. A \in SUBSET Assoc
    BY <1>3, <1>4, FiniteParts
  <1>6. SetContent(req[q], [old EXCEPT !.assocs = A])
    BY <1>2, <1>4 DEF DropAssoc
  <1>7. [old EXCEPT !.assocs = A] \in Finite
    BY <1>3, <1>5, WithAssocs
  <1>. QED BY <1>1, <1>6, <1>7, Ends, ChangeStep

LEMMA EditedAttrTyped ==
  ASSUME NEW r \in Request, NEW a \in Attr
  PROVE  EditedAttr(r, a) \in Attr
  BY DEF EditedAttr, Attr, Request

LEMMA SetAttrStep ==
  ASSUME SchemaInv, NEW q \in Reqs, SetAttr(q)
  PROVE  SchemaInv' /\ VersionsKept
  <1>1. At(q, "change") /\ UNCHANGED <<types, definitions>> /\ Finish(q)
    BY DEF SetAttr, Changing
  <1>2. PICK r, old : r = req[q] /\ old = Made(r)
    OBVIOUS
  <1>3. old \in Finite /\ r \in Request
    BY <1>1, <1>2, EditingTyped, MadeFinite DEF SchemaInv
  <1>. DEFINE changed(a) == IF a.name = r.name THEN EditedAttr(r, a) ELSE a
  <1>4. PICK A : A = IF \E a \in old.attrs : a.name = r.to /\ r.to # r.name THEN old.attrs
                       ELSE {changed(a) : a \in old.attrs}
    OBVIOUS
  <1>5. A \in SUBSET Attr /\ IsFiniteSet(A)
    <2>1. old.attrs \subseteq Attr /\ IsFiniteSet(old.attrs)
      BY <1>3, FiniteParts
    <2>2. {changed(a) : a \in old.attrs} \subseteq Attr
      BY <1>3, <2>1, EditedAttrTyped
    <2>3. IsFiniteSet({changed(a) : a \in old.attrs})
      <3>. HIDE DEF changed
      <3>1. PICK f : f = [a \in old.attrs |-> changed(a)]
        OBVIOUS
      <3>2. IsFiniteSet({f[a] : a \in old.attrs})
        BY <2>1, <3>1, ImageFinite
      <3>3. {f[a] : a \in old.attrs} = {changed(a) : a \in old.attrs}
        BY <3>1
      <3>. QED BY <3>2, <3>3
    <2>. QED BY <1>4, <2>1, <2>2, <2>3
  <1>6. SetContent(req[q], [old EXCEPT !.attrs = A])
    BY <1>2, <1>4 DEF SetAttr
  <1>7. [old EXCEPT !.attrs = A] \in Finite
    BY <1>3, <1>5, WithAttrs
  <1>. QED BY <1>1, <1>6, <1>7, Ends, ChangeStep

LEMMA InsertAssocStep ==
  ASSUME SchemaInv, NEW q \in Reqs, InsertAssoc(q)
  PROVE  SchemaInv' /\ VersionsKept
  <1>1. At(q, "change") /\ UNCHANGED <<types, definitions>> /\ Finish(q)
    BY DEF InsertAssoc, Changing
  <1>2. PICK r, old : r = req[q] /\ old = Made(r)
    OBVIOUS
  <1>3. old \in Finite /\ r.assoc \in Assoc
    <2>1. r.op = "createAssociation"
      BY <1>2 DEF InsertAssoc, Changing
    <2>. QED BY <1>1, <1>2, <2>1, EditingTyped, MadeFinite DEF SchemaInv, Fits
  <1>4. PICK A : A = IF \E a \in old.assocs : a.name = r.assoc.name THEN old.assocs
                       ELSE old.assocs \cup {r.assoc}
    OBVIOUS
  <1>5. A \in SUBSET Assoc
    BY <1>3, <1>4, FiniteParts
  <1>6. SetContent(req[q], [old EXCEPT !.assocs = A])
    BY <1>2, <1>4 DEF InsertAssoc
  <1>7. [old EXCEPT !.assocs = A] \in Finite
    BY <1>3, <1>5, WithAssocs
  <1>. QED BY <1>1, <1>6, <1>7, Ends, ChangeStep

LEMMA EditedAssocTyped ==
  ASSUME NEW r \in Request, NEW a \in Assoc
  PROVE  EditedAssoc(r, a) \in Assoc
  BY DEF EditedAssoc, Assoc, Request

LEMMA SetAssocStep ==
  ASSUME SchemaInv, NEW q \in Reqs, SetAssoc(q)
  PROVE  SchemaInv' /\ VersionsKept
  <1>1. At(q, "change") /\ UNCHANGED <<types, definitions>> /\ Finish(q)
    BY DEF SetAssoc, Changing
  <1>2. PICK r, old : r = req[q] /\ old = Made(r)
    OBVIOUS
  <1>3. old \in Finite /\ r \in Request
    BY <1>1, <1>2, EditingTyped, MadeFinite DEF SchemaInv
  <1>4. PICK A : A = IF \E a \in old.assocs : a.name = r.to /\ r.to # r.name THEN old.assocs
                       ELSE {IF a.name = r.name THEN EditedAssoc(r, a) ELSE a : a \in old.assocs}
    OBVIOUS
  <1>5. A \in SUBSET Assoc
    BY <1>3, <1>4, FiniteParts, EditedAssocTyped
  <1>6. SetContent(req[q], [old EXCEPT !.assocs = A])
    BY <1>2, <1>4 DEF SetAssoc
  <1>7. [old EXCEPT !.assocs = A] \in Finite
    BY <1>3, <1>5, WithAssocs
  <1>. QED BY <1>1, <1>6, <1>7, Ends, ChangeStep

LEMMA NamesFinite ==
  ASSUME Tables, NEW t \in Types, Latest(t) > 0
  PROVE  /\ AttrNames(t, Latest(t)) \subseteq Fields
         /\ Cardinality(AttrNames(t, Latest(t))) \in Nat
  <1>1. Has(t, Latest(t))
    BY LatestNat DEF Has
  <1>2. PICK A : A = versions[t][Latest(t)].attrs
    OBVIOUS
  <1>3. A \subseteq Attr /\ IsFiniteSet(A)
    BY <1>1, <1>2, VersionFinite, FiniteParts
  <1>4. PICK f : f = [a \in A |-> a.name]
    OBVIOUS
  <1>5. IsFiniteSet({f[a] : a \in A})
    BY <1>3, <1>4, ImageFinite
  <1>6. {f[a] : a \in A} = AttrNames(t, Latest(t))
    BY <1>2, <1>4 DEF AttrNames
  <1>7. AttrNames(t, Latest(t)) \subseteq Fields
    BY <1>2, <1>3 DEF AttrNames, Attr
  <1>. QED BY <1>5, <1>6, <1>7, FS_CardinalityType

LEMMA ReorderAttributesStep ==
  ASSUME SchemaInv, NEW q \in Reqs, ReorderAttributes(q)
  PROVE  SchemaInv' /\ VersionsKept
  <1>1. PICK t \in Types :
          /\ Latest(t) > 0
          /\ \E order \in [1..Cardinality(AttrNames(t, Latest(t))) -> AttrNames(t, Latest(t))] :
               Start(q, [NewRequest EXCEPT !.op = "reorder", !.pc = "reorder", !.type = t,
                                           !.made = Latest(t), !.order = order], {"reordered"})
          /\ UNCHANGED <<schema, definitions>>
    BY DEF ReorderAttributes
  <1>2. PICK order \in [1..Cardinality(AttrNames(t, Latest(t))) -> AttrNames(t, Latest(t))] :
          Start(q, [NewRequest EXCEPT !.op = "reorder", !.pc = "reorder", !.type = t,
                                      !.made = Latest(t), !.order = order], {"reordered"})
    BY <1>1
  <1>3. order \in Seq(Fields)
    <2>1. PICK n \in Nat : n = Cardinality(AttrNames(t, Latest(t)))
      BY <1>1, NamesFinite DEF SchemaInv
    <2>2. order \in [1..n -> Fields]
      BY <1>1, <1>2, <2>1, NamesFinite DEF SchemaInv
    <2>. QED BY <2>2
  <1>4. PICK v \in Nat : v = Latest(t)
    BY LatestNat DEF SchemaInv
  <1>. DEFINE r == [NewRequest EXCEPT !.op = "reorder", !.pc = "reorder", !.type = t,
                                      !.made = v, !.order = order]
  <1>5. r \in Request
    <2>1. "reorder" \in SchemaOps
      BY OpsKnown
    <2>. QED BY <1>3, <2>1, NewRequestTyped DEF Request
  <1>6. r.op = "reorder" /\ r.pc = "reorder" /\ r.type = t /\ {"op", "pc"} \subseteq DOMAIN r
    BY NewRequestTyped DEF Request
  <1>7. Start(q, r, {"reordered"})
    BY <1>2, <1>4
  <1>. HIDE DEF r
  <1>8. Schemed(r)
    BY <1>5, <1>6 DEF Schemed, Fits
  <1>. QED BY <1>1, <1>7, <1>8, StartStep

LEMMA RenumberStep ==
  ASSUME SchemaInv, NEW q \in Reqs, Renumber(q)
  PROVE  SchemaInv' /\ VersionsKept
  <1>1. At(q, "reorder") /\ UNCHANGED <<types, definitions>> /\ Finish(q)
    BY DEF Renumber
  <1>2. PICK r, old : r = req[q] /\ old = Made(r)
    OBVIOUS
  <1>3. old \in Finite /\ r \in Request /\ r.type \in Types /\ r.op \in SchemaOps
    BY <1>1, <1>2, EditingTyped, MadeFinite DEF SchemaInv
  <1>. DEFINE place(a) == {i \in DOMAIN r.order : r.order[i] = a.name}
              moved(a) == [a EXCEPT !.ord = IF place(a) = {} THEN @
                                              ELSE (CHOOSE i \in place(a) : TRUE) - 1]
  <1>4. PICK A : A = {moved(a) : a \in old.attrs}
    OBVIOUS
  <1>5. old.attrs \subseteq Attr /\ IsFiniteSet(old.attrs)
    BY <1>3, FiniteParts
  <1>6. ASSUME NEW a \in old.attrs
        PROVE  moved(a) \in Attr /\ moved(a).name = a.name /\ moved(a).tdv = a.tdv
                 /\ moved(a).root = a.root
    <2>1. a \in Attr
      BY <1>5
    <2>2. PICK n : n = IF place(a) = {} THEN a.ord ELSE (CHOOSE i \in place(a) : TRUE) - 1
      OBVIOUS
    <2>3. n \in Nat
      <3>1. r.order \in Seq(Fields)
        BY <1>3 DEF Request
      <3>2. CASE place(a) = {}
        BY <2>1, <2>2, <3>2 DEF Attr
      <3>3. CASE place(a) # {}
        <4>1. (CHOOSE i \in place(a) : TRUE) \in place(a)
          BY <3>3
        <4>2. (CHOOSE i \in place(a) : TRUE) \in 1..Len(r.order)
          BY <3>1, <4>1
        <4>. HIDE DEF place
        <4>. QED BY <2>2, <3>1, <3>3, <4>2
      <3>. QED BY <3>2, <3>3
    <2>4. moved(a) = [a EXCEPT !.ord = n]
      BY <2>2
    <2>. HIDE DEF moved
    <2>. QED BY <2>1, <2>3, <2>4 DEF Attr
  <1>7. A \in SUBSET Attr /\ IsFiniteSet(A)
    <2>. HIDE DEF moved
    <2>1. PICK f : f = [a \in old.attrs |-> moved(a)]
      OBVIOUS
    <2>2. IsFiniteSet({f[a] : a \in old.attrs})
      BY <1>5, <2>1, ImageFinite
    <2>3. {f[a] : a \in old.attrs} = A
      BY <1>4, <2>1
    <2>. QED BY <1>4, <1>6, <2>2, <2>3
  <1>8. PICK c : c = [old EXCEPT !.attrs = A]
    OBVIOUS
  <1>9. c \in Finite /\ c.attrs = A /\ c.assocs = old.assocs
    BY <1>3, <1>7, <1>8, WithAttrs
  <1>10. SetContent(r, c)
    BY <1>2, <1>4, <1>8 DEF Renumber
  <1>11. Unordered(c) = Unordered(old)
    <2>. HIDE DEF moved
    <2>1. {<<b.name, b.tdv, b.root>> : b \in A} = {<<a.name, a.tdv, a.root>> : a \in old.attrs}
      BY <1>4, <1>6
    <2>. QED BY <1>9, <2>1 DEF Unordered
  <1>. HIDE DEF moved
  <1>. QED BY <1>1, <1>2, <1>3, <1>9, <1>10, <1>11, Ends, ContentStep

-----------------------------------------------------------------------------
(***************************************************************************)
(* Entity types.                                                           *)
(***************************************************************************)
LEMMA CreateEntityTypeStep ==
  ASSUME SchemaInv, NEW q \in Reqs, CreateEntityType(q)
  PROVE  SchemaInv' /\ VersionsKept
  <1>1. PICK n \in TypeNames :
          /\ Start(q, [NewRequest EXCEPT !.op = "createType", !.pc = "insertType",
                                         !.typeName = n], {})
          /\ UNCHANGED <<schema, definitions>>
    BY DEF CreateEntityType
  <1>. DEFINE r == [NewRequest EXCEPT !.op = "createType", !.pc = "insertType", !.typeName = n]
  <1>2. r \in Request
    <2>1. "createType" \in SchemaOps
      BY OpsKnown
    <2>. QED BY <2>1, NewRequestTyped DEF Request
  <1>3. r.op = "createType" /\ r.pc = "insertType" /\ r.typeName = n /\ {"op", "pc"} \subseteq DOMAIN r
    BY NewRequestTyped DEF Request
  <1>4. Start(q, r, {})
    BY <1>1
  <1>. HIDE DEF r
  <1>5. Schemed(r)
    BY <1>2, <1>3 DEF Schemed, Fits
  <1>. QED BY <1>1, <1>4, <1>5, StartStep

LEMMA CopyEntityTypeStep ==
  ASSUME SchemaInv, NEW q \in Reqs, CopyEntityType(q)
  PROVE  SchemaInv' /\ VersionsKept
  <1>1. PICK t \in Types, n \in TypeNames : \E v \in 1..Latest(t) :
          /\ Start(q, [NewRequest EXCEPT !.op = "copyType", !.pc = "insertType",
                                         !.typeName = n, !.from = t, !.fromVer = v], {})
          /\ UNCHANGED <<schema, definitions>>
    BY DEF CopyEntityType
  <1>2. PICK v \in 1..Latest(t) :
          /\ Start(q, [NewRequest EXCEPT !.op = "copyType", !.pc = "insertType",
                                         !.typeName = n, !.from = t, !.fromVer = v], {})
          /\ UNCHANGED <<schema, definitions>>
    BY <1>1
  <1>3. v \in Nat
    BY LatestNat DEF SchemaInv
  <1>. DEFINE r == [NewRequest EXCEPT !.op = "copyType", !.pc = "insertType", !.typeName = n,
                                      !.from = t, !.fromVer = v]
  <1>4. r \in Request
    <2>1. "copyType" \in SchemaOps
      BY OpsKnown
    <2>. QED BY <1>3, <2>1, NewRequestTyped DEF Request
  <1>5. /\ r.op = "copyType" /\ r.pc = "insertType" /\ r.typeName = n /\ r.from = t
        /\ {"op", "pc"} \subseteq DOMAIN r
    BY NewRequestTyped DEF Request
  <1>6. Start(q, r, {})
    BY <1>2
  <1>. HIDE DEF r
  <1>7. Schemed(r)
    BY <1>4, <1>5 DEF Schemed, Fits
  <1>. QED BY <1>2, <1>6, <1>7, StartStep

LEMMA InsertTypeStep ==
  ASSUME SchemaInv, NEW q \in Reqs, InsertType(q)
  PROVE  SchemaInv' /\ VersionsKept
  <1>1. PICK r : r = req[q]
    OBVIOUS
  <1>2. /\ r.op \in SchemaOps /\ r \in Request /\ Fits(r) /\ r.pc = "insertType"
    BY <1>1, RequestKnown DEF InsertType, At
  <1>3. versions' = versions /\ defs' = defs /\ defVers' = defVers
    BY DEF InsertType, definitions
  <1>4. CASE \E t \in Types : /\ types' = [types EXCEPT ![t] = r.typeName]
                             /\ req' = [req EXCEPT ![q] = [r EXCEPT !.type = t, !.pc = "create"]]
    <2>1. PICK t \in Types : /\ types' = [types EXCEPT ![t] = r.typeName]
                             /\ req' = [req EXCEPT ![q] = [r EXCEPT !.type = t, !.pc = "create"]]
      BY <1>4
    <2>. DEFINE s == [r EXCEPT !.type = t, !.pc = "create"]
    <2>2. s \in Request
      BY <1>2 DEF Request
    <2>3. Schemed(s)
      BY <1>2, <2>2 DEF Schemed, Fits, Request
    <2>4. req' = [req EXCEPT ![q] = s]
      BY <2>1
    <2>. HIDE DEF s
    <2>5. Requested'
      BY <2>3, <2>4, OneRequest
    <2>6. types' \in [Types -> TypeNames \cup {Unborn, Gone}]
      BY <1>2, <2>1 DEF SchemaInv, Tables, Fits
    <2>7. (defs \subseteq Defs)' /\ (defVers \in [Defs -> 0..MaxDefVersions])'
      BY <1>3 DEF SchemaInv, Tables
    <2>. QED BY <1>3, <2>5, <2>6, <2>7, VersionsSame
  <1>5. CASE Finish(q) /\ types' = types
    BY <1>3, <1>5, Ends, SchemaSame DEF schema, definitions
  <1>. QED BY <1>1, <1>4, <1>5 DEF InsertType

LEMMA RenameEntityTypeStep ==
  ASSUME SchemaInv, NEW q \in Reqs, RenameEntityType(q)
  PROVE  SchemaInv' /\ VersionsKept
  <1>. DEFINE asked(n) == [NewRequest EXCEPT !.op = "rename", !.typeName = n]
  <1>1. PICK t \in Named, n \in TypeNames :
          /\ UNCHANGED <<schema, definitions>>
          /\ \/ Start(q, [asked(n) EXCEPT !.pc = "insertType", !.from = t,
                                           !.fromVer = Latest(t)], {})
             \/ Start(q, [asked(n) EXCEPT !.pc = "saveType", !.type = t], {})
    BY DEF RenameEntityType
  <1>2. t \in Types
    BY DEF Named
  <1>3. PICK v \in Nat : v = Latest(t)
    BY <1>2, LatestNat DEF SchemaInv
  <1>4. PICK r : r = asked(n)
    OBVIOUS
  <1>5. r \in Request
    <2>1. "rename" \in SchemaOps
      BY OpsKnown
    <2>. QED BY <1>4, <2>1, NewRequestTyped DEF Request
  <1>6. r.op = "rename" /\ r.typeName = n
    BY <1>4, NewRequestTyped DEF Request
  <1>. DEFINE copy == [r EXCEPT !.pc = "insertType", !.from = t, !.fromVer = v]
              save == [r EXCEPT !.pc = "saveType", !.type = t]
  <1>7. Schemed(copy)
    <2>1. copy \in Request
      BY <1>2, <1>5 DEF Request
    <2>. QED BY <1>2, <1>5, <1>6, <2>1 DEF Schemed, Fits, Request
  <1>8. Schemed(save)
    <2>1. save \in Request
      BY <1>2, <1>5 DEF Request
    <2>. QED BY <1>2, <1>5, <1>6, <2>1 DEF Schemed, Fits, Request
  <1>9. Start(q, copy, {}) \/ Start(q, save, {})
    BY <1>1, <1>3, <1>4
  <1>. HIDE DEF copy, save
  <1>. QED BY <1>1, <1>7, <1>8, <1>9, StartStep

LEMMA ReadTypeStep ==
  ASSUME SchemaInv, NEW q \in Reqs, ReadType(q)
  PROVE  SchemaInv' /\ VersionsKept
  <1>1. PICK r : r = req[q]
    OBVIOUS
  <1>2. /\ r.op \in SchemaOps /\ r \in Request /\ Fits(r) /\ r.pc = "readType" /\ r.type \in Types
    BY <1>1, EditingTyped DEF ReadType
  <1>3. UNCHANGED <<schema, definitions>>
    BY DEF ReadType
  <1>4. CASE r.type \in Named
    <2>. DEFINE s == [r EXCEPT !.pc = "saveType", !.typeName = types[r.type]]
    <2>1. types[r.type] \in TypeNames
      BY <1>4 DEF Named
    <2>2. s \in Request
      BY <1>2, <2>1 DEF Request
    <2>3. Schemed(s)
      BY <1>2, <2>1, <2>2 DEF Schemed, Fits, Request
    <2>4. req' = [req EXCEPT ![q] = s]
      BY <1>1, <1>4 DEF ReadType
    <2>. HIDE DEF s
    <2>. QED BY <1>3, <2>3, <2>4, OneRequest, SchemaSame
  <1>5. CASE r.type \notin Named
    BY <1>1, <1>3, <1>5, Ends, SchemaSame DEF ReadType
  <1>. QED BY <1>4, <1>5

LEMMA SaveTypeStep ==
  ASSUME SchemaInv, NEW q \in Reqs, SaveType(q)
  PROVE  SchemaInv' /\ VersionsKept
  <1>1. PICK r : r = req[q]
    OBVIOUS
  <1>2. r.type \in Types /\ r.typeName \in TypeNames
    BY <1>1, EditingTyped DEF SaveType, Fits
  <1>3. versions' = versions /\ defs' = defs /\ defVers' = defVers /\ Finish(q)
    BY DEF SaveType, definitions
  <1>4. types' = types \/ types' = [types EXCEPT ![r.type] = r.typeName]
    BY <1>1 DEF SaveType
  <1>5. types' \in [Types -> TypeNames \cup {Unborn, Gone}]
    BY <1>2, <1>4 DEF SchemaInv, Tables
  <1>6. (defs \subseteq Defs)' /\ (defVers \in [Defs -> 0..MaxDefVersions])'
    BY <1>3 DEF SchemaInv, Tables
  <1>. QED BY <1>3, <1>5, <1>6, Ends, VersionsSame

LEMMA DeleteEntityTypeStep ==
  ASSUME SchemaInv, NEW q \in Reqs, DeleteEntityType(q)
  PROVE  SchemaInv' /\ VersionsKept
  <1>1. PICK t \in Named :
          /\ types' = [types EXCEPT ![t] = Gone]
          /\ versions' = [versions EXCEPT ![t] = << >>]
    BY DEF DeleteEntityType
  <1>2. t \in Types /\ UNCHANGED <<defs, defVers, req>>
    BY DEF DeleteEntityType, Named, definitions
  <1>3. Tables'
    BY <1>1, <1>2 DEF SchemaInv, Tables
  <1>4. Requested'
    BY <1>2 DEF SchemaInv, Requested
  <1>5. VersionsKept
    <2>1. \A u \in Types : versions'[u] = IF u = t THEN << >> ELSE versions[u]
      BY <1>1, <1>2 DEF SchemaInv, Tables
    <2>. QED BY <2>1, LatestNat DEF SchemaInv, VersionsKept, Latest
  <1>. QED BY <1>3, <1>4, <1>5 DEF SchemaInv

-----------------------------------------------------------------------------
(***************************************************************************)
(* Type definitions.                                                       *)
(***************************************************************************)
LEMMA CreateTypeDefinitionStep ==
  ASSUME SchemaInv, NEW q \in Reqs, CreateTypeDefinition(q)
  PROVE  SchemaInv' /\ VersionsKept
  <1>1. PICK d \in Defs \ defs :
          /\ Start(q, [NewRequest EXCEPT !.op = "createDef", !.pc = "insertDef", !.def = d], {})
          /\ UNCHANGED <<schema, definitions>>
    BY DEF CreateTypeDefinition
  <1>. DEFINE r == [NewRequest EXCEPT !.op = "createDef", !.pc = "insertDef", !.def = d]
  <1>2. r \in Request
    <2>1. "createDef" \in SchemaOps
      BY OpsKnown
    <2>. QED BY <2>1, NewRequestTyped DEF Request
  <1>3. /\ r.op = "createDef" /\ r.pc = "insertDef" /\ r.def = d /\ r.base = 0
        /\ {"op", "pc"} \subseteq DOMAIN r
    BY NewRequestTyped DEF Request
  <1>4. Start(q, r, {})
    BY <1>1
  <1>. HIDE DEF r
  <1>5. Schemed(r)
    BY <1>2, <1>3, SchemaAssumption DEF Schemed, Fits
  <1>. QED BY <1>1, <1>4, <1>5, StartStep

LEMMA InsertDefStep ==
  ASSUME SchemaInv, NEW q \in Reqs, InsertDef(q)
  PROVE  SchemaInv' /\ VersionsKept
  <1>1. /\ req[q].op \in SchemaOps /\ req[q] \in Request /\ Fits(req[q])
        /\ req[q].pc = "insertDef"
    BY RequestKnown DEF InsertDef, At
  <1>2. UNCHANGED <<types, versions, defVers>>
    BY DEF InsertDef, schema
  <1>3. CASE req[q].def \in defs
    BY <1>2, <1>3, Ends, SchemaSame DEF InsertDef, schema, definitions
  <1>4. CASE req[q].def \notin defs
    <2>1. defs' = defs \cup {req[q].def} /\ Goto(q, "insertDefVersion")
      BY <1>4 DEF InsertDef
    <2>2. Fits([req[q] EXCEPT !.pc = "insertDefVersion"])
      BY <1>1 DEF Fits, Request
    <2>3. Requested'
      BY <1>1, <2>1, <2>2, Moves
    <2>4. defs' \subseteq Defs
      BY <1>1, <2>1 DEF SchemaInv, Tables, Fits
    <2>5. /\ (types \in [Types -> TypeNames \cup {Unborn, Gone}])'
          /\ (defVers \in [Defs -> 0..MaxDefVersions])'
      BY <1>2 DEF SchemaInv, Tables
    <2>. QED BY <1>2, <2>3, <2>4, <2>5, VersionsSame
  <1>. QED BY <1>3, <1>4

LEMMA UpdateTypeDefinitionStep ==
  ASSUME SchemaInv, NEW q \in Reqs, UpdateTypeDefinition(q)
  PROVE  SchemaInv' /\ VersionsKept
  <1>1. PICK d \in defs \ SystemDefs :
          /\ defVers[d] \in 1..(MaxDefVersions - 1)
          /\ Start(q, [NewRequest EXCEPT !.op = "updateDef", !.pc = "insertDefVersion",
                                         !.def = d, !.base = defVers[d]], {})
          /\ UNCHANGED <<schema, definitions>>
    BY DEF UpdateTypeDefinition
  <1>2. d \in Defs
    BY DEF SchemaInv, Tables
  <1>3. PICK n \in Nat : n = defVers[d] /\ n < MaxDefVersions
    BY <1>1, SchemaAssumption
  <1>. DEFINE r == [NewRequest EXCEPT !.op = "updateDef", !.pc = "insertDefVersion",
                                      !.def = d, !.base = n]
  <1>4. r \in Request
    <2>1. "updateDef" \in SchemaOps
      BY OpsKnown
    <2>. QED BY <1>2, <2>1, NewRequestTyped DEF Request
  <1>5. /\ r.op = "updateDef" /\ r.pc = "insertDefVersion" /\ r.def = d /\ r.base = n
        /\ {"op", "pc"} \subseteq DOMAIN r
    BY NewRequestTyped DEF Request
  <1>6. Start(q, r, {})
    BY <1>1, <1>3
  <1>. HIDE DEF r
  <1>7. Schemed(r)
    BY <1>2, <1>3, <1>4, <1>5 DEF Schemed, Fits
  <1>. QED BY <1>1, <1>6, <1>7, StartStep

LEMMA InsertDefVersionStep ==
  ASSUME SchemaInv, NEW q \in Reqs, InsertDefVersion(q)
  PROVE  SchemaInv' /\ VersionsKept
  <1>1. /\ req[q].op \in SchemaOps /\ req[q] \in Request /\ Fits(req[q])
        /\ req[q].pc = "insertDefVersion"
    BY RequestKnown DEF InsertDefVersion, At
  <1>2. UNCHANGED <<types, versions, defs>> /\ Finish(q)
    BY DEF InsertDefVersion, schema
  <1>3. PICK d : d = req[q].def
    OBVIOUS
  <1>4. \/ defVers' = defVers
        \/ defVers[d] = req[q].base /\ defVers' = [defVers EXCEPT ![d] = defVers[d] + 1]
    BY <1>3 DEF InsertDefVersion
  <1>5. d \in Defs /\ req[q].base < MaxDefVersions /\ req[q].base \in Nat
    BY <1>1, <1>3 DEF Fits, Request
  <1>6. (defVers \in [Defs -> 0..MaxDefVersions])'
    BY <1>4, <1>5, SchemaAssumption DEF SchemaInv, Tables
  <1>7. (types \in [Types -> TypeNames \cup {Unborn, Gone}])' /\ (defs \subseteq Defs)'
    BY <1>2 DEF SchemaInv, Tables
  <1>. QED BY <1>2, <1>6, <1>7, Ends, VersionsSame

LEMMA DeleteTypeDefinitionStep ==
  ASSUME SchemaInv, NEW q \in Reqs, DeleteTypeDefinition(q)
  PROVE  SchemaInv' /\ VersionsKept
  <1>1. PICK d \in defs \ SystemDefs :
          /\ Start(q, [NewRequest EXCEPT !.op = "deleteDef", !.pc = "dropDef", !.def = d], {})
          /\ UNCHANGED <<schema, definitions>>
    BY DEF DeleteTypeDefinition
  <1>2. d \in Defs
    BY DEF SchemaInv, Tables
  <1>. DEFINE r == [NewRequest EXCEPT !.op = "deleteDef", !.pc = "dropDef", !.def = d]
  <1>3. r \in Request
    <2>1. "deleteDef" \in SchemaOps
      BY OpsKnown
    <2>. QED BY <1>2, <2>1, NewRequestTyped DEF Request
  <1>4. /\ r.op = "deleteDef" /\ r.pc = "dropDef" /\ r.def = d
        /\ {"op", "pc"} \subseteq DOMAIN r
    BY NewRequestTyped DEF Request
  <1>5. Start(q, r, {})
    BY <1>1
  <1>. HIDE DEF r
  <1>6. Schemed(r)
    BY <1>2, <1>3, <1>4 DEF Schemed, Fits
  <1>. QED BY <1>1, <1>5, <1>6, StartStep

LEMMA DropDefStep ==
  ASSUME SchemaInv, NEW q \in Reqs, DropDef(q)
  PROVE  SchemaInv' /\ VersionsKept
  <1>1. PICK d : d = req[q].def
    OBVIOUS
  <1>2. /\ UNCHANGED <<types, versions>> /\ Finish(q)
        /\ defs' = defs \ {d} /\ defVers' = [defVers EXCEPT ![d] = 0]
    BY <1>1 DEF DropDef, schema
  <1>3. (defVers \in [Defs -> 0..MaxDefVersions])' /\ (defs \subseteq Defs)'
    <2>1. 0 \in 0..MaxDefVersions
      BY SchemaAssumption
    <2>2. defVers \in [Defs -> 0..MaxDefVersions] /\ defs \subseteq Defs
      BY DEF SchemaInv, Tables
    <2>3. [defVers EXCEPT ![d] = 0] \in [Defs -> 0..MaxDefVersions]
      BY <2>1, <2>2
    <2>. QED BY <1>2, <2>2, <2>3
  <1>4. (types \in [Types -> TypeNames \cup {Unborn, Gone}])'
    BY <1>2 DEF SchemaInv, Tables
  <1>. QED BY <1>2, <1>3, <1>4, Ends, VersionsSame

LEMMA FailStep ==
  ASSUME SchemaInv, NEW q \in Reqs, Fail(q)
  PROVE  SchemaInv' /\ VersionsKept
  BY Ends, SchemaSame DEF Fail

LEMMA TypesStep ==
  ASSUME SchemaInv, TypesNext
  PROVE  SchemaInv' /\ VersionsKept
  <1>. SUFFICES ASSUME NEW q \in Reqs,
          \/ UpdateEntityType(q) \/ AddAttribute(q) \/ RemoveAttribute(q) \/ EditAttribute(q)
          \/ CopyAttributesFromType(q) \/ CreateAssociation(q) \/ EditAssociation(q)
          \/ DeleteAssociation(q) \/ CreateVersion(q) \/ CopyAttrs(q) \/ CopyAssocs(q)
          \/ InsertAttr(q) \/ DropAttr(q) \/ SetAttr(q)
          \/ InsertAssoc(q) \/ SetAssoc(q) \/ DropAssoc(q) \/ ReorderAttributes(q) \/ Renumber(q)
          \/ CreateEntityType(q) \/ CopyEntityType(q) \/ InsertType(q) \/ RenameEntityType(q)
          \/ ReadType(q) \/ SaveType(q) \/ DeleteEntityType(q)
          \/ CreateTypeDefinition(q) \/ InsertDef(q) \/ UpdateTypeDefinition(q)
          \/ InsertDefVersion(q) \/ DeleteTypeDefinition(q) \/ DropDef(q)
          \/ Fail(q)
                PROVE  SchemaInv' /\ VersionsKept
    BY DEF TypesNext
  <1>1. CASE \/ UpdateEntityType(q) \/ AddAttribute(q) \/ RemoveAttribute(q) \/ EditAttribute(q)
             \/ CopyAttributesFromType(q) \/ CreateAssociation(q) \/ EditAssociation(q)
             \/ DeleteAssociation(q) \/ ReorderAttributes(q)
    BY <1>1, EditsBegin, EditBegunStep, ReorderAttributesStep
  <1>2. CASE \/ CreateVersion(q) \/ CopyAttrs(q) \/ CopyAssocs(q) \/ InsertAttr(q)
             \/ DropAttr(q) \/ SetAttr(q) \/ InsertAssoc(q) \/ SetAssoc(q) \/ DropAssoc(q)
             \/ Renumber(q)
    BY <1>2, CreateVersionStep, CopyAttrsStep, CopyAssocsStep, InsertAttrStep, DropAttrStep,
       SetAttrStep, InsertAssocStep, SetAssocStep, DropAssocStep, RenumberStep
  <1>3. CASE \/ CreateEntityType(q) \/ CopyEntityType(q) \/ InsertType(q) \/ RenameEntityType(q)
             \/ ReadType(q) \/ SaveType(q) \/ DeleteEntityType(q)
    BY <1>3, CreateEntityTypeStep, CopyEntityTypeStep, InsertTypeStep, RenameEntityTypeStep,
       ReadTypeStep, SaveTypeStep, DeleteEntityTypeStep
  <1>4. CASE \/ CreateTypeDefinition(q) \/ InsertDef(q) \/ UpdateTypeDefinition(q)
             \/ InsertDefVersion(q) \/ DeleteTypeDefinition(q) \/ DropDef(q) \/ Fail(q)
    BY <1>4, CreateTypeDefinitionStep, InsertDefStep, UpdateTypeDefinitionStep,
       InsertDefVersionStep, DeleteTypeDefinitionStep, DropDefStep, FailStep
  <1>. QED BY <1>1, <1>2, <1>3, <1>4

-----------------------------------------------------------------------------
(***************************************************************************)
(* The requests for catalog versions read the schema and do not write it.  *)
(***************************************************************************)
Foreign(r) == {"op", "pc"} \subseteq DOMAIN r /\ r.op \notin SchemaOps

LEMMA ForeignStep ==
  ASSUME SchemaInv, NEW q \in Reqs, NEW r, Foreign(r), req' = [req EXCEPT ![q] = r],
         UNCHANGED <<schema, definitions>>
  PROVE  SchemaInv' /\ VersionsKept
  <1>1. Schemed(r)
    BY DEF Schemed, Foreign
  <1>. QED BY <1>1, OneRequest, SchemaSame

LEMMA NewCVForeign ==
  ASSUME NEW op \in CVOps, NEW r, r.op = op, DOMAIN r = DOMAIN NewCV
  PROVE  Foreign(r)
  BY DEF Foreign, NewCV, CVOps, SchemaOps, EditOps

(***************************************************************************)
(* The statements of the requests for catalog versions are not those of    *)
(* the schema.                                                             *)
(***************************************************************************)
LEMMA OwnStatement ==
  ASSUME SchemaInv, NEW q \in Reqs,
         \/ req[q].op \in CVOps
         \/ req[q].pc \in {"stage", "log", "cr", "list", "reset"}
  PROVE  Foreign(req[q])
  <1>1. req[q].op \in SchemaOps => req[q] \in Request
    BY RequestKnown
  <1>2. {"op", "pc"} \subseteq DOMAIN req[q]
    BY RequestKnown
  <1>3. CASE req[q].op \in CVOps
    BY <1>2, <1>3 DEF Foreign, CVOps, SchemaOps, EditOps
  <1>4. CASE req[q].pc \in {"stage", "log", "cr", "list", "reset"}
    BY <1>1, <1>2, <1>4 DEF Foreign, Request
  <1>. QED BY <1>3, <1>4

LEMMA GoesOn ==
  ASSUME SchemaInv, NEW q \in Reqs, Foreign(req[q]), NEW pc,
         Goto(q, pc) \/ Finish(q), UNCHANGED <<schema, definitions>>
  PROVE  SchemaInv' /\ VersionsKept
  <1>1. CASE Finish(q)
    BY <1>1, Ends, SchemaSame
  <1>2. CASE Goto(q, pc)
    <2>. DEFINE r == [req[q] EXCEPT !.pc = pc]
    <2>1. Foreign(r)
      BY DEF Foreign
    <2>2. req' = [req EXCEPT ![q] = r]
      BY <1>2 DEF Goto
    <2>. HIDE DEF r
    <2>. QED BY <2>1, <2>2, ForeignStep
  <1>. QED BY <1>1, <1>2

LEMMA StartCVStep ==
  ASSUME SchemaInv, NEW q \in Reqs, NEW r, NEW flaws, StartCV(q, r, flaws), Foreign(r)
  PROVE  SchemaInv' /\ VersionsKept
  BY ForeignStep DEF StartCV, Start

(***************************************************************************)
(* The requests that start.                                                *)
(***************************************************************************)
LEMMA CreateCatalogVersionStep ==
  ASSUME SchemaInv, NEW q \in Reqs, CreateCatalogVersion(q)
  PROVE  SchemaInv' /\ VersionsKept
  <1>1. PICK c \in CVs, todo \in SUBSET Nameable : \E again \in SUBSET todo :
          req' = [req EXCEPT ![q] = [NewCV EXCEPT !.cv = c, !.todo = todo, !.again = again]]
    BY DEF CreateCatalogVersion, Start
  <1>0. PICK again \in SUBSET todo :
          req' = [req EXCEPT ![q] = [NewCV EXCEPT !.cv = c, !.todo = todo, !.again = again]]
    BY <1>1
  <1>. DEFINE r == [NewCV EXCEPT !.cv = c, !.todo = todo, !.again = again]
  <1>2. r.op = "createCV" /\ DOMAIN r = DOMAIN NewCV
    BY DEF NewCV
  <1>3. Foreign(r)
    BY <1>2, NewCVForeign DEF CVOps
  <1>4. UNCHANGED <<schema, definitions>>
    BY DEF CreateCatalogVersion
  <1>. HIDE DEF r
  <1>. QED BY <1>0, <1>3, <1>4, ForeignStep DEF r

LEMMA PromoteStep ==
  ASSUME SchemaInv, NEW q \in Reqs, Promote(q)
  PROVE  SchemaInv' /\ VersionsKept
  <1>1. PICK c, from, to, row :
          StartCV(q, [NewCV EXCEPT !.op = "promote", !.pc = "stage", !.cv = c,
                              !.from = from, !.to = to, !.row = row], {})
    BY DEF Promote
  <1>. DEFINE r == [NewCV EXCEPT !.op = "promote", !.pc = "stage", !.cv = c,
                                      !.from = from, !.to = to, !.row = row]
  <1>2. r.op = "promote" /\ DOMAIN r = DOMAIN NewCV
    BY DEF NewCV
  <1>3. Foreign(r)
    BY <1>2, NewCVForeign DEF CVOps
  <1>. HIDE DEF r
  <1>. QED BY <1>1, <1>3, StartCVStep DEF r

LEMMA DemoteStep ==
  ASSUME SchemaInv, NEW q \in Reqs, Demote(q)
  PROVE  SchemaInv' /\ VersionsKept
  <1>1. PICK c, from, to, row :
          StartCV(q, [NewCV EXCEPT !.op = "demote", !.pc = "stage", !.cv = c,
                              !.from = from, !.to = to, !.row = row], {})
    BY DEF Demote
  <1>. DEFINE r == [NewCV EXCEPT !.op = "demote", !.pc = "stage", !.cv = c,
                                      !.from = from, !.to = to, !.row = row]
  <1>2. r.op = "demote" /\ DOMAIN r = DOMAIN NewCV
    BY DEF NewCV
  <1>3. Foreign(r)
    BY <1>2, NewCVForeign DEF CVOps
  <1>. HIDE DEF r
  <1>. QED BY <1>1, <1>3, StartCVStep DEF r

LEMMA DeleteCatalogVersionStep ==
  ASSUME SchemaInv, NEW q \in Reqs, DeleteCatalogVersion(q)
  PROVE  SchemaInv' /\ VersionsKept
  <1>1. PICK c, row :
          StartCV(q, [NewCV EXCEPT !.op = "deleteCV", !.pc = "drop", !.cv = c, !.row = row], {})
    BY DEF DeleteCatalogVersion
  <1>. DEFINE r == [NewCV EXCEPT !.op = "deleteCV", !.pc = "drop", !.cv = c, !.row = row]
  <1>2. r.op = "deleteCV" /\ DOMAIN r = DOMAIN NewCV
    BY DEF NewCV
  <1>3. Foreign(r)
    BY <1>2, NewCVForeign DEF CVOps
  <1>. HIDE DEF r
  <1>. QED BY <1>1, <1>3, StartCVStep DEF r

LEMMA UpdateCatalogVersionStep ==
  ASSUME SchemaInv, NEW q \in Reqs, UpdateCatalogVersion(q)
  PROVE  SchemaInv' /\ VersionsKept
  <1>1. PICK c, row, flaws :
          StartCV(q, [NewCV EXCEPT !.op = "updateCV", !.pc = "save", !.cv = c, !.row = row], flaws)
    BY DEF UpdateCatalogVersion
  <1>. DEFINE r == [NewCV EXCEPT !.op = "updateCV", !.pc = "save", !.cv = c, !.row = row]
  <1>2. r.op = "updateCV" /\ DOMAIN r = DOMAIN NewCV
    BY DEF NewCV
  <1>3. Foreign(r)
    BY <1>2, NewCVForeign DEF CVOps
  <1>. HIDE DEF r
  <1>. QED BY <1>1, <1>3, StartCVStep DEF r

LEMMA AddPinStep ==
  ASSUME SchemaInv, NEW q \in Reqs, AddPin(q)
  PROVE  SchemaInv' /\ VersionsKept
  <1>1. PICK c, new :
          StartCV(q, [NewCV EXCEPT !.op = "addPin", !.pc = "insertPin", !.cv = c, !.new = new], {})
    BY DEF AddPin
  <1>. DEFINE r == [NewCV EXCEPT !.op = "addPin", !.pc = "insertPin", !.cv = c, !.new = new]
  <1>2. r.op = "addPin" /\ DOMAIN r = DOMAIN NewCV
    BY DEF NewCV
  <1>3. Foreign(r)
    BY <1>2, NewCVForeign DEF CVOps
  <1>. HIDE DEF r
  <1>. QED BY <1>1, <1>3, StartCVStep DEF r

LEMMA RemovePinStep ==
  ASSUME SchemaInv, NEW q \in Reqs, RemovePin(q)
  PROVE  SchemaInv' /\ VersionsKept
  <1>1. PICK c, p, flaws :
          StartCV(q, [NewCV EXCEPT !.op = "removePin", !.pc = "dropPin", !.cv = c, !.pin = p], flaws)
    BY DEF RemovePin
  <1>. DEFINE r == [NewCV EXCEPT !.op = "removePin", !.pc = "dropPin", !.cv = c, !.pin = p]
  <1>2. r.op = "removePin" /\ DOMAIN r = DOMAIN NewCV
    BY DEF NewCV
  <1>3. Foreign(r)
    BY <1>2, NewCVForeign DEF CVOps
  <1>. HIDE DEF r
  <1>. QED BY <1>1, <1>3, StartCVStep DEF r

LEMMA UpdatePinStep ==
  ASSUME SchemaInv, NEW q \in Reqs, UpdatePin(q)
  PROVE  SchemaInv' /\ VersionsKept
  <1>1. PICK p, v, m, flaws : StartCV(q, PinRequest(p, v, m), flaws)
    BY DEF UpdatePin
  <1>2. PinRequest(p, v, m).op = "updatePin" /\ DOMAIN PinRequest(p, v, m) = DOMAIN NewCV
    BY DEF PinRequest, NewCV
  <1>3. Foreign(PinRequest(p, v, m))
    BY <1>2, NewCVForeign DEF CVOps
  <1>. QED BY <1>1, <1>3, StartCVStep

(***************************************************************************)
(* The requests that are being handled.                                    *)
(***************************************************************************)
LEMMA InsertPinsStep ==
  ASSUME SchemaInv, NEW q \in Reqs, InsertPins(q)
  PROVE  SchemaInv' /\ VersionsKept
  <1>1. Foreign(req[q])
    BY OwnStatement DEF InsertPins, AtCV, CVOps
  <1>2. UNCHANGED <<schema, definitions>>
    BY DEF InsertPins
  <1>3. CASE \E x : req' = [req EXCEPT ![q] = Inserted(req[q], x)]
    <2>1. PICK x : req' = [req EXCEPT ![q] = Inserted(req[q], x)]
      BY <1>3
    <2>2. Foreign(Inserted(req[q], x))
      BY <1>1 DEF Foreign, Inserted
    <2>. QED BY <1>2, <2>1, <2>2, ForeignStep
  <1>4. CASE Finish(q) \/ Goto(q, "log")
    BY <1>1, <1>2, <1>4, GoesOn
  <1>. QED BY <1>3, <1>4 DEF InsertPins

LEMMA WritesStep ==
  ASSUME SchemaInv, NEW q \in Reqs, WriteStage(q) \/ WriteLog(q) \/ WriteCR(q)
  PROVE  SchemaInv' /\ VersionsKept
  <1>1. req[q].pc \in {"stage", "log", "cr"} /\ UNCHANGED <<schema, definitions>>
    BY DEF WriteStage, WriteLog, WriteCR
  <1>2. Finish(q) \/ Goto(q, "log") \/ Goto(q, "cr")
    BY DEF WriteStage, WriteLog, WriteCR
  <1>3. Foreign(req[q])
    BY <1>1, OwnStatement
  <1>. QED BY <1>1, <1>2, <1>3, GoesOn

LEMMA DropsStep ==
  ASSUME SchemaInv, NEW q \in Reqs,
         \/ DropRow(q) \/ DropCR(q) \/ SaveCV(q) \/ InsertPin(q) \/ DropPin(q)
         \/ SavePin(q) \/ Commit(q) \/ CVFail(q)
  PROVE  SchemaInv' /\ VersionsKept
  <1>1. req[q].op \in CVOps
    BY DEF DropRow, DropCR, SaveCV, InsertPin, DropPin, SavePin, Commit, CVFail, AtCV, CVOps
  <1>2. UNCHANGED <<schema, definitions>>
    BY DEF DropRow, DropCR, SaveCV, InsertPin, DropPin, SavePin, Commit, CVFail
  <1>3. Finish(q) \/ Goto(q, "dropCR") \/ Goto(q, "list") \/ Goto(q, "commit")
    BY DEF DropRow, DropCR, SaveCV, InsertPin, DropPin, SavePin, Commit, CVFail
  <1>4. Foreign(req[q])
    BY <1>1, OwnStatement
  <1>. QED BY <1>2, <1>3, <1>4, GoesOn

LEMMA IdleForeign == Foreign(Idle)
  BY DEF Foreign, Idle, SchemaOps, EditOps

LEMMA ListCatalogsStep ==
  ASSUME SchemaInv, NEW q \in Reqs, ListCatalogs(q)
  PROVE  SchemaInv' /\ VersionsKept
  <1>1. req[q].pc = "list" /\ UNCHANGED <<schema, definitions>>
    BY DEF ListCatalogs
  <1>2. Foreign(req[q])
    BY <1>1, OwnStatement
  <1>3. PICK cats : req' = [req EXCEPT ![q] =
                              IF cats = {} THEN Idle
                                ELSE [req[q] EXCEPT !.cats = cats, !.pc = "reset"]]
    BY DEF ListCatalogs
  <1>. DEFINE r == IF cats = {} THEN Idle ELSE [req[q] EXCEPT !.cats = cats, !.pc = "reset"]
  <1>4. Foreign(r)
    BY <1>2, IdleForeign DEF Foreign
  <1>. HIDE DEF r
  <1>. QED BY <1>1, <1>3, <1>4, ForeignStep DEF r

LEMMA ResetCatalogStep ==
  ASSUME SchemaInv, NEW q \in Reqs, ResetCatalog(q)
  PROVE  SchemaInv' /\ VersionsKept
  <1>1. req[q].pc = "reset" /\ UNCHANGED <<schema, definitions>>
    BY DEF ResetCatalog
  <1>2. Foreign(req[q])
    BY <1>1, OwnStatement
  <1>3. PICK k \in req[q].cats :
          req' = [req EXCEPT ![q] = IF req[q].cats = {k} THEN Idle
                                      ELSE [req[q] EXCEPT !.cats = @ \ {k}]]
    BY DEF ResetCatalog
  <1>. DEFINE r == IF req[q].cats = {k} THEN Idle ELSE [req[q] EXCEPT !.cats = @ \ {k}]
  <1>4. Foreign(r)
    BY <1>2, IdleForeign DEF Foreign
  <1>5. req' = [req EXCEPT ![q] = r]
    BY <1>3
  <1>. HIDE DEF r
  <1>. QED BY <1>1, <1>4, <1>5, ForeignStep

LEMMA RemapStep ==
  ASSUME SchemaInv, NEW q \in Reqs, Remap(q)
  PROVE  SchemaInv' /\ VersionsKept
  <1>1. AtCV(q, "updatePin", "remap") /\ UNCHANGED <<schema, definitions>>
    BY DEF Remap
  <1>2. Foreign(req[q])
    BY <1>1, OwnStatement DEF AtCV, CVOps
  <1>3. \/ req' = [req EXCEPT ![q] = Idle]
        \/ \E moved : req' = [req EXCEPT ![q] = [req[q] EXCEPT !.cells = moved, !.pc = "savePin"]]
    BY DEF Remap
  <1>4. CASE req' = [req EXCEPT ![q] = Idle]
    BY <1>1, <1>4, IdleForeign, ForeignStep
  <1>5. CASE \E moved :
               req' = [req EXCEPT ![q] = [req[q] EXCEPT !.cells = moved, !.pc = "savePin"]]
    <2>1. PICK moved :
            req' = [req EXCEPT ![q] = [req[q] EXCEPT !.cells = moved, !.pc = "savePin"]]
      BY <1>5
    <2>. DEFINE r == [req[q] EXCEPT !.cells = moved, !.pc = "savePin"]
    <2>2. Foreign(r)
      BY <1>2 DEF Foreign
    <2>. HIDE DEF r
    <2>. QED BY <1>1, <2>1, <2>2, ForeignStep DEF r
  <1>. QED BY <1>3, <1>4, <1>5

LEMMA WholeStep ==
  ASSUME SchemaInv, NEW q \in Reqs, CreateCatalog(q) \/ Validate(q) \/ SetValue(q)
  PROVE  SchemaInv' /\ VersionsKept
  <1>1. UNCHANGED <<schema, definitions>> /\ req' = req
    BY DEF CreateCatalog, Validate, SetValue, Whole
  <1>2. Requested'
    BY <1>1 DEF SchemaInv, Requested
  <1>. QED BY <1>1, <1>2, SchemaSame

LEMMA VersionsStep ==
  ASSUME SchemaInv, VersionsNext
  PROVE  SchemaInv' /\ VersionsKept
  <1>. PICK q \in Reqs :
       \/ CreateCatalogVersion(q) \/ InsertPins(q) \/ Promote(q) \/ Demote(q)
       \/ WriteStage(q) \/ WriteLog(q) \/ WriteCR(q)
       \/ DeleteCatalogVersion(q) \/ DropRow(q) \/ DropCR(q)
       \/ UpdateCatalogVersion(q) \/ SaveCV(q)
       \/ AddPin(q) \/ InsertPin(q) \/ RemovePin(q) \/ DropPin(q)
       \/ ListCatalogs(q) \/ ResetCatalog(q)
       \/ UpdatePin(q) \/ Remap(q) \/ SavePin(q) \/ Commit(q)
       \/ CreateCatalog(q) \/ Validate(q) \/ SetValue(q)
       \/ CVFail(q)
    BY DEF VersionsNext
  <1>. QED BY CreateCatalogVersionStep, InsertPinsStep, PromoteStep, DemoteStep, WritesStep,
       DeleteCatalogVersionStep, DropsStep, UpdateCatalogVersionStep, AddPinStep,
       RemovePinStep, ListCatalogsStep, ResetCatalogStep, UpdatePinStep, RemapStep, WholeStep

-----------------------------------------------------------------------------
LEMMA SchemaStart == Init => SchemaInv
  <1>. SUFFICES ASSUME Init PROVE SchemaInv
    OBVIOUS
  <1>1. <<Empty>> \in Seq(Finite) /\ << >> \in Seq(Finite)
    BY EmptyFinite
  <1>2. Tables
    BY <1>1, SchemaAssumption DEF Init, TypesInit, Tables
  <1>3. Requested
    BY IdleSchemed DEF Init, TypesInit, Requested
  <1>. QED BY <1>2, <1>3 DEF SchemaInv

LEMMA SchemaNext ==
  ASSUME SchemaInv, [Next]_vars
  PROVE  SchemaInv' /\ [VersionsKept]_vars
  <1>1. CASE TypesNext
    BY <1>1, TypesStep
  <1>2. CASE VersionsNext
    BY <1>2, VersionsStep
  <1>3. CASE UNCHANGED vars
    <2>1. UNCHANGED <<schema, definitions>> /\ req' = req
      BY <1>3 DEF vars
    <2>2. Requested'
      BY <2>1 DEF SchemaInv, Requested
    <2>. QED BY <2>1, <2>2, SchemaSame
  <1>. QED BY <1>1, <1>2, <1>3 DEF Next

(***************************************************************************)
(* The schema is well typed: the latest version, the number a new one gets *)
(* and the version copied are what the requests take them for, however     *)
(* the statements of concurrent edits interleave and fail.                 *)
(***************************************************************************)
THEOREM SchemaTyped == Spec => []SchemaInv
  BY SchemaStart, SchemaNext, PTL DEF Spec

(***************************************************************************)
(* Copy-on-write (EntityTypeService, AttributeService, AssociationService, *)
(* CatalogVersionService): no interleaving of requests, and no failure     *)
(* between the statements of one, changes a version that is not being made *)
(* by the request that created it.                                         *)
(***************************************************************************)
THEOREM CompleteVersionsKept == Spec => VersionsImmutable
  BY SchemaStart, SchemaNext, PTL DEF Spec, VersionsImmutable

-----------------------------------------------------------------------------
(***************************************************************************)
(* The typing of the tables of catalog versions.                           *)
(***************************************************************************)
Transition == [from : Stages \cup {None}, to : Stages]
Resource == [source : CVs, stage : Stages]

CVTables ==
    /\ cv \in [CVs -> Version \cup {None}]
    /\ pins \in [Pins -> Pin \cup {None}]
    /\ log \in [CVs -> Seq(Transition)]
    /\ crs \in [CRNames -> Resource \cup {None}]
    /\ catalogs \in [Catalogs -> Catalog \cup {None}]
    /\ cells \subseteq Cell

Troubles ==
    {"overlap", "db", "k8s", "copied", "retyped", "deleted", "double",
     "relabelled", "sharedName", "noName", "repinned", "jumped", "ties",
     "reordered", "untyped", "unknown", "repeated"}

(***************************************************************************)
(* The statements each request for catalog versions goes through, and what *)
(* it has by then.                                                         *)
(***************************************************************************)
Shaped(r) ==
    /\ r \in CVRequest
    /\ r.op \notin {"createCatalog", "validate", "setValue"}
    /\ r.op = "createCV" => r.pc \in {"pins", "log"} /\ r.from = None
    /\ r.op \in {"promote", "demote"} =>
         /\ r.pc \in {"stage", "log", "cr"}
         /\ r.from \in Stages /\ r.to \in Stages /\ r.row \in Version
    /\ r.op = "deleteCV" => r.pc \in {"drop", "dropCR"} /\ r.row \in Version
    /\ r.op = "updateCV" => r.pc = "save" /\ r.row \in Version
    /\ r.op = "addPin" => r.pc \in {"insertPin", "list", "reset"} /\ r.new \in Pin
    /\ r.op = "removePin" => r.pc \in {"dropPin", "list", "reset"} /\ r.pin \in Pins
    /\ r.op = "updatePin" =>
         /\ r.pc \in {"remap", "savePin", "commit"} /\ r.new \in Pin /\ r.pin \in Pins
         /\ \A x \in r.cells : \E m \in r.moves : m[1] = x.name

CVTyped(r) == r = Idle \/ r.op \in SchemaOps \/ (r.op \in CVOps /\ Shaped(r))

TypeInv ==
    /\ CVTables
    /\ trouble \subseteq Troubles
    /\ \A q \in Reqs : CVTyped(req[q])

-----------------------------------------------------------------------------
(***************************************************************************)
(* Requests.                                                               *)
(***************************************************************************)
LEMMA IdleTyped == CVTyped(Idle)
  BY DEF CVTyped

LEMMA TypedStep ==
  ASSUME SchemaInv, TypeInv, NEW q \in Reqs, NEW r, req' = [req EXCEPT ![q] = r], CVTyped(r),
         CVTables', trouble' \subseteq Troubles
  PROVE  TypeInv'
  BY DEF SchemaInv, Requested, TypeInv

LEMMA TypedSame ==
  ASSUME TypeInv, req' = req, CVTables', trouble' \subseteq Troubles
  PROVE  TypeInv'
  BY DEF TypeInv

LEMMA TablesSame ==
  ASSUME CVTables, UNCHANGED <<cv, pins, log, crs, catalogs, cells>>
  PROVE  CVTables'
  BY DEF CVTables

LEMMA NewCVTyped ==
  ASSUME NEW c \in CVs
  PROVE  /\ [NewCV EXCEPT !.cv = c] \in CVRequest
         /\ NewCV = [op |-> "createCV", pc |-> "pins", cv |-> None, from |-> None, to |-> None,
                     row |-> None, pin |-> None, new |-> None, todo |-> {}, again |-> {},
                     moves |-> {}, cells |-> {}, cats |-> {}]
  BY DEF NewCV, CVRequest, CVOps

(***************************************************************************)
(* At a statement that only requests for catalog versions execute, the     *)
(* request has the shape of one.                                           *)
(***************************************************************************)
LEMMA AtStatement ==
  ASSUME SchemaInv, TypeInv, NEW q \in Reqs,
         \/ req[q].op \in CVOps
         \/ req[q].pc \in {"stage", "log", "cr", "list", "reset"}
  PROVE  req[q].op \in CVOps /\ Shaped(req[q]) /\ req[q] \in CVRequest
  <1>1. req[q] # Idle
    BY DEF Idle, CVOps
  <1>2. req[q].op \notin SchemaOps
    BY OwnStatement DEF Foreign
  <1>. QED BY <1>1, <1>2 DEF TypeInv, CVTyped, Shaped

LEMMA Went ==
  ASSUME NEW o, Shaped(o), NEW pc,
         NEW r, r = [o EXCEPT !.pc = pc], pc \in {"log", "cr", "dropCR", "list", "commit"}
  PROVE  /\ r.pc = pc /\ r \in CVRequest
         /\ r.op = o.op /\ r.cv = o.cv /\ r.from = o.from /\ r.to = o.to /\ r.row = o.row
         /\ r.pin = o.pin /\ r.new = o.new /\ r.todo = o.todo /\ r.again = o.again
         /\ r.moves = o.moves /\ r.cells = o.cells /\ r.cats = o.cats
  BY DEF Shaped, CVRequest

LEMMA Noted ==
  ASSUME TypeInv, NEW flaws, flaws \subseteq Troubles, Note(flaws)
  PROVE  trouble' \subseteq Troubles
  BY DEF TypeInv, Note, Troubles

LEMMA StartTyped ==
  ASSUME SchemaInv, TypeInv, NEW q \in Reqs, NEW r, NEW flaws, flaws \subseteq Troubles,
         StartCV(q, r, flaws), r.op \in CVOps, Shaped(r)
  PROVE  TypeInv'
  <1>1. CVTables'
    BY TablesSame DEF TypeInv, StartCV, versionVars, catalogVars
  <1>2. req' = [req EXCEPT ![q] = r] /\ trouble' \subseteq Troubles
    BY Noted DEF StartCV, Start
  <1>3. CVTyped(r)
    BY DEF CVTyped
  <1>. QED BY <1>1, <1>2, <1>3, TypedStep

-----------------------------------------------------------------------------
(***************************************************************************)
(* The requests that start.                                                *)
(***************************************************************************)
LEMMA LabelFlawsTyped == ASSUME NEW c, NEW l PROVE LabelFlaws(c, l) \subseteq Troubles
  BY DEF LabelFlaws, Troubles

LEMMA PinFlawsTyped == ASSUME NEW chosen, NEW again PROVE PinFlawsOf(chosen, again) \subseteq Troubles
  BY DEF PinFlawsOf, Troubles

LEMMA CreateCatalogVersionTyped ==
  ASSUME SchemaInv, TypeInv, NEW q \in Reqs, CreateCatalogVersion(q)
  PROVE  TypeInv'
  <1>0. PICK c \in CVs, l \in Labels, chosen \in SUBSET Nameable : \E again \in SUBSET chosen :
          /\ Start(q, [NewCV EXCEPT !.cv = c, !.todo = chosen, !.again = again],
                   LabelFlaws(c, l) \cup PinFlawsOf(chosen, again))
          /\ cv' = [cv EXCEPT ![c] = [live |-> TRUE, label |-> l, stage |-> "development"]]
    BY DEF CreateCatalogVersion
  <1>1. PICK again \in SUBSET chosen :
          /\ Start(q, [NewCV EXCEPT !.cv = c, !.todo = chosen, !.again = again],
                   LabelFlaws(c, l) \cup PinFlawsOf(chosen, again))
          /\ cv' = [cv EXCEPT ![c] = [live |-> TRUE, label |-> l, stage |-> "development"]]
    BY <1>0
  <1>. DEFINE r == [NewCV EXCEPT !.cv = c, !.todo = chosen, !.again = again]
  <1>2. chosen \subseteq Types \X Nat /\ again \subseteq Types \X Nat
    BY DEF Nameable
  <1>3. r.op = "createCV" /\ r.pc = "pins" /\ r.from = None /\ r \in CVRequest
    BY <1>2 DEF NewCV, CVRequest, CVOps
  <1>4. CVTyped(r)
    BY <1>3 DEF CVTyped, Shaped, CVOps
  <1>5. [live |-> TRUE, label |-> l, stage |-> "development"] \in Version
    BY DEF Version, Stages
  <1>6. cv' \in [CVs -> Version \cup {None}]
    BY <1>1, <1>5 DEF TypeInv, CVTables
  <1>7. UNCHANGED <<pins, log, crs, catalogs, cells>>
    BY DEF CreateCatalogVersion, catalogVars
  <1>8. CVTables'
    BY <1>6, <1>7 DEF TypeInv, CVTables
  <1>9. trouble' \subseteq Troubles
    <2>1. LabelFlaws(c, l) \cup PinFlawsOf(chosen, again) \subseteq Troubles
      BY LabelFlawsTyped, PinFlawsTyped
    <2>. QED BY <1>1, <2>1, Noted DEF Start
  <1>10. req' = [req EXCEPT ![q] = r]
    BY <1>1 DEF Start
  <1>. HIDE DEF r
  <1>. QED BY <1>4, <1>8, <1>9, <1>10, TypedStep

LEMMA LiveVersion ==
  ASSUME TypeInv, NEW c \in Live
  PROVE  c \in CVs /\ cv[c] \in Version /\ cv[c].live /\ cv[c].stage \in Stages
  BY DEF TypeInv, CVTables, Live, Version

LEMMA StageMoveTyped ==
  ASSUME SchemaInv, TypeInv, NEW q \in Reqs, Promote(q) \/ Demote(q)
  PROVE  TypeInv'
  <1>1. PICK c \in Live, op \in {"promote", "demote"}, to \in Stages :
          StartCV(q, [NewCV EXCEPT !.op = op, !.pc = "stage", !.cv = c, !.from = cv[c].stage,
                                   !.to = to, !.row = cv[c]], {})
    <2>1. CASE Promote(q)
      BY <2>1 DEF Promote, Higher, Stages
    <2>2. CASE Demote(q)
      BY <2>2 DEF Demote, Stages
    <2>. QED BY <2>1, <2>2
  <1>2. c \in CVs /\ cv[c] \in Version /\ cv[c].stage \in Stages
    BY LiveVersion
  <1>. DEFINE r == [NewCV EXCEPT !.op = op, !.pc = "stage", !.cv = c, !.from = cv[c].stage,
                                 !.to = to, !.row = cv[c]]
  <1>3. /\ r.op = op /\ r.pc = "stage" /\ r.from \in Stages /\ r.to \in Stages
        /\ r.row \in Version /\ r \in CVRequest
    BY <1>2 DEF NewCV, CVRequest, CVOps
  <1>. HIDE DEF r
  <1>4. Shaped(r) /\ r.op \in CVOps
    BY <1>3 DEF Shaped, CVOps
  <1>5. StartCV(q, r, {}) /\ {} \subseteq Troubles
    BY <1>1 DEF r
  <1>. QED BY <1>4, <1>5, StartTyped

LEMMA DeleteCatalogVersionTyped ==
  ASSUME SchemaInv, TypeInv, NEW q \in Reqs, DeleteCatalogVersion(q)
  PROVE  TypeInv'
  <1>1. PICK c \in Live :
          StartCV(q, [NewCV EXCEPT !.op = "deleteCV", !.pc = "drop", !.cv = c, !.row = cv[c]], {})
    BY DEF DeleteCatalogVersion
  <1>2. c \in CVs /\ cv[c] \in Version
    BY LiveVersion
  <1>. DEFINE r == [NewCV EXCEPT !.op = "deleteCV", !.pc = "drop", !.cv = c, !.row = cv[c]]
  <1>3. r.op = "deleteCV" /\ r.pc = "drop" /\ r.row \in Version /\ r \in CVRequest
    BY <1>2 DEF NewCV, CVRequest, CVOps
  <1>. HIDE DEF r
  <1>4. Shaped(r) /\ r.op \in CVOps
    BY <1>3 DEF Shaped, CVOps
  <1>5. StartCV(q, r, {}) /\ {} \subseteq Troubles
    BY <1>1 DEF r
  <1>. QED BY <1>4, <1>5, StartTyped

LEMMA UpdateCatalogVersionTyped ==
  ASSUME SchemaInv, TypeInv, NEW q \in Reqs, UpdateCatalogVersion(q)
  PROVE  TypeInv'
  <1>1. PICK c \in Live, l \in Labels :
          StartCV(q, [NewCV EXCEPT !.op = "updateCV", !.pc = "save", !.cv = c,
                                   !.row = [cv[c] EXCEPT !.label = l]],
                  LabelFlaws(c, l) \cup
                    IF cv[c].stage # "development" /\ l # cv[c].label THEN {"relabelled"} ELSE {})
    BY DEF UpdateCatalogVersion
  <1>2. c \in CVs /\ [cv[c] EXCEPT !.label = l] \in Version
    BY LiveVersion DEF Version
  <1>. DEFINE x == [cv[c] EXCEPT !.label = l]
  <1>. HIDE DEF x
  <1>. DEFINE r == [NewCV EXCEPT !.op = "updateCV", !.pc = "save", !.cv = c, !.row = x]
  <1>3. r.op = "updateCV" /\ r.pc = "save" /\ r.row \in Version /\ r \in CVRequest
    BY <1>2 DEF NewCV, CVRequest, CVOps, x
  <1>. HIDE DEF r
  <1>4. Shaped(r) /\ r.op \in CVOps
    BY <1>3 DEF Shaped, CVOps
  <1>5. (LabelFlaws(c, l) \cup IF cv[c].stage # "development" /\ l # cv[c].label
                                 THEN {"relabelled"} ELSE {}) \subseteq Troubles
    BY LabelFlawsTyped DEF Troubles
  <1>. QED BY <1>1, <1>4, <1>5, StartTyped DEF r, x

LEMMA AddPinTyped ==
  ASSUME SchemaInv, TypeInv, NEW q \in Reqs, AddPin(q)
  PROVE  TypeInv'
  <1>1. PICK c \in Live, t \in Types : \E v \in 1..Latest(t) :
          StartCV(q, [NewCV EXCEPT !.op = "addPin", !.pc = "insertPin", !.cv = c,
                                   !.new = [cv |-> c, type |-> t, ver |-> v]], {})
    BY DEF AddPin
  <1>2. PICK v \in 1..Latest(t) :
          StartCV(q, [NewCV EXCEPT !.op = "addPin", !.pc = "insertPin", !.cv = c,
                                   !.new = [cv |-> c, type |-> t, ver |-> v]], {})
    BY <1>1
  <1>. DEFINE x == [cv |-> c, type |-> t, ver |-> v]
  <1>3. c \in CVs /\ x \in Pin
    BY LiveVersion DEF Pin
  <1>. HIDE DEF x
  <1>. DEFINE r == [NewCV EXCEPT !.op = "addPin", !.pc = "insertPin", !.cv = c, !.new = x]
  <1>4. r.op = "addPin" /\ r.pc = "insertPin" /\ r.new \in Pin /\ r \in CVRequest
    BY <1>3 DEF NewCV, CVRequest, CVOps
  <1>. HIDE DEF r
  <1>5. Shaped(r) /\ r.op \in CVOps
    BY <1>4 DEF Shaped, CVOps
  <1>6. StartCV(q, r, {}) /\ {} \subseteq Troubles
    BY <1>2 DEF r, x
  <1>. QED BY <1>5, <1>6, StartTyped

LEMMA RemovePinTyped ==
  ASSUME SchemaInv, TypeInv, NEW q \in Reqs, RemovePin(q)
  PROVE  TypeInv'
  <1>0. PICK c \in Live : \E p \in PinsOf(c) :
          StartCV(q, [NewCV EXCEPT !.op = "removePin", !.pc = "dropPin", !.cv = c, !.pin = p],
                  {"repinned"})
    BY DEF RemovePin
  <1>1. PICK p \in PinsOf(c) :
          StartCV(q, [NewCV EXCEPT !.op = "removePin", !.pc = "dropPin", !.cv = c, !.pin = p],
                  {"repinned"})
    BY <1>0
  <1>2. c \in CVs /\ p \in Pins
    BY LiveVersion DEF PinsOf
  <1>. DEFINE r == [NewCV EXCEPT !.op = "removePin", !.pc = "dropPin", !.cv = c, !.pin = p]
  <1>3. r.op = "removePin" /\ r.pc = "dropPin" /\ r.pin \in Pins /\ r \in CVRequest
    BY <1>2 DEF NewCV, CVRequest, CVOps
  <1>. HIDE DEF r
  <1>4. Shaped(r) /\ r.op \in CVOps
    BY <1>3 DEF Shaped, CVOps
  <1>5. {"repinned"} \subseteq Troubles
    BY DEF Troubles
  <1>. QED BY <1>1, <1>4, <1>5, StartTyped DEF r

LEMMA MappingsTyped ==
  ASSUME NEW A, NEW B, NEW m \in Mappings(A, B)
  PROVE  m \subseteq A \X B
  <1>. DEFINE kept == {x \in A \X B : x[1].name = x[2].name}
              gone == {a \in A : \A b \in B : a.name # b.name}
              fresh == {b \in B : \A a \in A : a.name # b.name}
              ords == {a.ord : a \in A} \cap {b.ord : b \in fresh}
  <1>1. PICK f \in [ords -> A \X fresh] :
          m = kept \cup {f[n] : n \in {k \in ords : f[k][1] \in gone}}
    BY DEF Mappings
  <1>. HIDE DEF ords
  <1>2. \A n \in ords : f[n] \in A \X B
    BY <1>1
  <1>. QED BY <1>1, <1>2

LEMMA PinTyped ==
  ASSUME TypeInv, NEW c, NEW p \in PinsOf(c)
  PROVE  p \in Pins /\ pins[p] \in Pin /\ pins[p].cv = c /\ pins[p].type \in Types
  BY DEF TypeInv, CVTables, PinsOf, Pin

LEMMA UpdatePinTyped ==
  ASSUME SchemaInv, TypeInv, NEW q \in Reqs, UpdatePin(q)
  PROVE  TypeInv'
  <1>0. PICK c \in Live : \E p \in PinsOf(c) : \E v \in 1..Latest(pins[p].type) :
          /\ Has(pins[p].type, pins[p].ver)
          /\ \E m \in Mappings(versions[pins[p].type][pins[p].ver].attrs,
                               versions[pins[p].type][v].attrs) :
               StartCV(q, PinRequest(p, v, m), PinFlaws(p, v))
    BY DEF UpdatePin
  <1>1. PICK p \in PinsOf(c) : \E v \in 1..Latest(pins[p].type) :
          /\ Has(pins[p].type, pins[p].ver)
          /\ \E m \in Mappings(versions[pins[p].type][pins[p].ver].attrs,
                               versions[pins[p].type][v].attrs) :
               StartCV(q, PinRequest(p, v, m), PinFlaws(p, v))
    BY <1>0
  <1>2. PICK v \in 1..Latest(pins[p].type) :
          /\ Has(pins[p].type, pins[p].ver)
          /\ \E m \in Mappings(versions[pins[p].type][pins[p].ver].attrs,
                               versions[pins[p].type][v].attrs) :
               StartCV(q, PinRequest(p, v, m), PinFlaws(p, v))
    BY <1>1
  <1>3. PICK m \in Mappings(versions[pins[p].type][pins[p].ver].attrs,
                            versions[pins[p].type][v].attrs) :
          StartCV(q, PinRequest(p, v, m), PinFlaws(p, v))
    BY <1>2
  <1>4. p \in Pins /\ pins[p] \in Pin /\ pins[p].cv = c /\ pins[p].type \in Types /\ c \in CVs
    BY PinTyped, LiveVersion
  <1>5. m \subseteq Attr \X Attr
    <2>1. Has(pins[p].type, v)
      BY DEF Has
    <2>2. /\ versions[pins[p].type][pins[p].ver].attrs \subseteq Attr
          /\ versions[pins[p].type][v].attrs \subseteq Attr
      BY <1>2, <1>4, <2>1, VersionFinite, FiniteParts DEF SchemaInv
    <2>. QED BY <1>3, <2>2, MappingsTyped
  <1>. DEFINE moves == IF v = pins[p].ver THEN {} ELSE {<<x[1].name, x[2].name>> : x \in m}
              new == [pins[p] EXCEPT !.ver = v]
              cats == BuiltOn(pins[p].cv)
  <1>6. moves \subseteq Fields \X Fields /\ new \in Pin /\ cats \subseteq Catalogs
    <2>1. ASSUME NEW x \in m PROVE x[1].name \in Fields /\ x[2].name \in Fields
      BY <1>5 DEF Attr
    <2>2. v \in Nat
      BY <1>4, LatestNat DEF SchemaInv
    <2>. QED BY <1>4, <2>1, <2>2 DEF Pin, BuiltOn
  <1>7. PinRequest(p, v, m) =
          [NewCV EXCEPT !.op = "updatePin", !.pc = "remap", !.cv = c, !.pin = p,
                        !.new = new, !.moves = moves, !.cats = cats]
    BY <1>4 DEF PinRequest
  <1>. HIDE DEF moves, new, cats
  <1>. DEFINE r == [NewCV EXCEPT !.op = "updatePin", !.pc = "remap", !.cv = c, !.pin = p,
                                 !.new = new, !.moves = moves, !.cats = cats]
  <1>8. /\ r.op = "updatePin" /\ r.pc = "remap" /\ r.new \in Pin /\ r.pin \in Pins
        /\ r.cells = {} /\ r \in CVRequest
    BY <1>4, <1>6 DEF NewCV, CVRequest, CVOps
  <1>. HIDE DEF r
  <1>9. Shaped(r) /\ r.op \in CVOps
    BY <1>8 DEF Shaped, CVOps
  <1>10. PinFlaws(p, v) \subseteq Troubles
    BY DEF PinFlaws, Troubles
  <1>11. StartCV(q, r, PinFlaws(p, v))
    BY <1>3, <1>7 DEF r
  <1>. QED BY <1>9, <1>10, <1>11, StartTyped

-----------------------------------------------------------------------------
(***************************************************************************)
(* The statements.                                                         *)
(***************************************************************************)
LEMMA EndsTyped ==
  ASSUME SchemaInv, TypeInv, NEW q \in Reqs, Finish(q), CVTables', trouble' \subseteq Troubles
  PROVE  TypeInv'
  BY IdleTyped, TypedStep DEF Finish

LEMMA GoesTyped ==
  ASSUME SchemaInv, TypeInv, NEW q \in Reqs, NEW pc, Goto(q, pc), CVTables',
         trouble' \subseteq Troubles, req[q].op \in CVOps, Shaped(req[q]),
         \/ req[q].op \in {"promote", "demote"} /\ pc \in {"log", "cr"}
         \/ req[q].op = "createCV" /\ pc = "log"
         \/ req[q].op = "deleteCV" /\ pc = "dropCR"
         \/ req[q].op \in {"addPin", "removePin"} /\ pc = "list"
         \/ req[q].op = "updatePin" /\ pc = "commit"
  PROVE  TypeInv'
  <1>. DEFINE o == req[q]
              r == [o EXCEPT !.pc = pc]
  <1>1. req' = [req EXCEPT ![q] = r]
    BY DEF Goto
  <1>. HIDE DEF r
  <1>2. /\ r.pc = pc /\ r \in CVRequest
        /\ r.op = o.op /\ r.cv = o.cv /\ r.from = o.from /\ r.to = o.to /\ r.row = o.row
        /\ r.pin = o.pin /\ r.new = o.new /\ r.moves = o.moves /\ r.cells = o.cells
    BY Went DEF r
  <1>3. CVTyped(r)
    BY <1>2 DEF CVTyped, Shaped
  <1>. QED BY <1>1, <1>3, TypedStep

LEMMA InsertedTyped ==
  ASSUME NEW o \in CVRequest, NEW x
  PROVE  /\ Inserted(o, x) \in CVRequest
         /\ Inserted(o, x).op = o.op /\ Inserted(o, x).pc = o.pc /\ Inserted(o, x).cv = o.cv
         /\ Inserted(o, x).from = o.from /\ Inserted(o, x).to = o.to
         /\ Inserted(o, x).row = o.row /\ Inserted(o, x).pin = o.pin
         /\ Inserted(o, x).new = o.new /\ Inserted(o, x).cats = o.cats
         /\ Inserted(o, x).todo = (IF x \in o.again THEN o.todo ELSE o.todo \ {x})
         /\ Inserted(o, x).again = o.again \ {x}
  BY DEF CVRequest, Inserted

LEMMA InsertPinsTyped ==
  ASSUME SchemaInv, TypeInv, NEW q \in Reqs, InsertPins(q)
  PROVE  TypeInv'
  <1>. DEFINE o == req[q]
  <1>1. /\ o.op = "createCV" /\ o.pc = "pins" /\ Shaped(o) /\ o \in CVRequest /\ o.op \in CVOps
        /\ trouble' \subseteq Troubles /\ UNCHANGED <<cv, log, crs, catalogs, cells>>
    BY AtStatement DEF InsertPins, AtCV, CVOps, TypeInv, catalogVars
  <1>2. CASE UNCHANGED pins /\ (Finish(q) \/ Goto(q, "log"))
    <2>1. CVTables'
      BY <1>1, <1>2, TablesSame DEF TypeInv
    <2>. QED BY <1>1, <1>2, <2>1, EndsTyped, GoesTyped
  <1>3. CASE \E x \in o.todo, p \in Pins :
               /\ pins' = [pins EXCEPT ![p] = [cv |-> o.cv, type |-> x[1], ver |-> x[2]]]
               /\ req' = [req EXCEPT ![q] = Inserted(o, x)]
    <2>1. PICK x \in o.todo, p \in Pins :
               /\ pins' = [pins EXCEPT ![p] = [cv |-> o.cv, type |-> x[1], ver |-> x[2]]]
               /\ req' = [req EXCEPT ![q] = Inserted(o, x)]
      BY <1>3
    <2>2. o.cv \in CVs /\ x[1] \in Types /\ x[2] \in Nat
      BY <1>1 DEF CVRequest
    <2>3. [cv |-> o.cv, type |-> x[1], ver |-> x[2]] \in Pin
      BY <2>2 DEF Pin
    <2>4. CVTables'
      BY <1>1, <2>1, <2>3 DEF TypeInv, CVTables
    <2>. DEFINE r == Inserted(o, x)
    <2>5. req' = [req EXCEPT ![q] = r]
      BY <2>1
    <2>6. r \in CVRequest /\ r.op = "createCV" /\ r.pc = "pins" /\ r.from = o.from
      BY <1>1, InsertedTyped
    <2>. HIDE DEF r
    <2>7. CVTyped(r)
      BY <1>1, <2>6 DEF CVTyped, Shaped, CVOps
    <2>. QED BY <1>1, <2>4, <2>5, <2>7, TypedStep
  <1>. QED BY <1>2, <1>3 DEF InsertPins

LEMMA WriteStageTyped ==
  ASSUME SchemaInv, TypeInv, NEW q \in Reqs, WriteStage(q)
  PROVE  TypeInv'
  <1>. DEFINE o == req[q]
  <1>1. /\ o.pc = "stage" /\ Shaped(o) /\ o \in CVRequest /\ o.op \in CVOps
        /\ trouble' \subseteq Troubles /\ UNCHANGED <<pins, log, crs, catalogs, cells>>
    BY AtStatement DEF WriteStage, TypeInv, catalogVars
  <1>2. o.op \in {"promote", "demote"} /\ o.to \in Stages
    BY <1>1 DEF Shaped, CVOps
  <1>3. CVTables'
    <2>1. CASE o.cv \in Live
      <3>1. [cv[o.cv] EXCEPT !.stage = o.to] \in Version /\ o.cv \in CVs
        BY <1>2, <2>1, LiveVersion DEF Version
      <3>2. cv' = [cv EXCEPT ![o.cv] = [cv[o.cv] EXCEPT !.stage = o.to]]
        BY <2>1 DEF WriteStage
      <3>. QED BY <1>1, <3>1, <3>2 DEF TypeInv, CVTables
    <2>2. CASE o.cv \notin Live
      BY <1>1, <2>2, TablesSame DEF WriteStage, TypeInv
    <2>. QED BY <2>1, <2>2
  <1>4. Finish(q) \/ Goto(q, "log")
    BY DEF WriteStage
  <1>. QED BY <1>1, <1>2, <1>3, <1>4, EndsTyped, GoesTyped

LEMMA WriteLogTyped ==
  ASSUME SchemaInv, TypeInv, NEW q \in Reqs, WriteLog(q)
  PROVE  TypeInv'
  <1>. DEFINE o == req[q]
              e == [from |-> o.from, to |-> IF o.op = "createCV" THEN "development" ELSE o.to]
  <1>1. /\ o.pc = "log" /\ Shaped(o) /\ o \in CVRequest /\ o.op \in CVOps
        /\ trouble' \subseteq Troubles /\ UNCHANGED <<cv, pins, crs, catalogs, cells>>
    BY AtStatement DEF WriteLog, TypeInv, catalogVars
  <1>2. o.op = "createCV" \/ o.op \in {"promote", "demote"}
    BY <1>1 DEF Shaped, CVOps
  <1>3. e \in Transition
    BY <1>1, <1>2 DEF Shaped, Transition, CVRequest, Stages
  <1>4. CVTables'
    <2>1. CASE o.cv \in Live
      <3>1. log' = [log EXCEPT ![o.cv] = Append(log[o.cv], e)]
        BY <2>1 DEF WriteLog
      <3>. HIDE DEF e
      <3>2. Append(log[o.cv], e) \in Seq(Transition)
        <4>1. log[o.cv] \in Seq(Transition)
          BY <2>1, LiveVersion DEF TypeInv, CVTables
        <4>. QED BY <1>3, <4>1, AppendToSeq
      <3>3. log' \in [CVs -> Seq(Transition)]
        BY <3>1, <3>2 DEF TypeInv, CVTables
      <3>. QED BY <1>1, <3>3 DEF TypeInv, CVTables
    <2>2. CASE o.cv \notin Live
      BY <1>1, <2>2, TablesSame DEF WriteLog, TypeInv
    <2>. QED BY <2>1, <2>2
  <1>5. Finish(q) \/ (o.op # "createCV" /\ Goto(q, "cr"))
    BY DEF WriteLog
  <1>. QED BY <1>1, <1>2, <1>4, <1>5, EndsTyped, GoesTyped

LEMMA WriteCRTyped ==
  ASSUME SchemaInv, TypeInv, NEW q \in Reqs, WriteCR(q)
  PROVE  TypeInv'
  <1>. DEFINE o == req[q]
              n == CRName[o.row.label]
  <1>1. /\ o.pc = "cr" /\ Shaped(o) /\ o \in CVRequest /\ o.op \in CVOps
        /\ UNCHANGED <<cv, pins, log, catalogs, cells>> /\ Finish(q)
    BY AtStatement DEF WriteCR, TypeInv, catalogVars
  <1>2. o.row \in Version /\ o.to \in Stages /\ o.cv \in CVs
    BY <1>1 DEF Shaped, CVOps, CVRequest
  <1>3. [source |-> o.cv, stage |-> o.to] \in Resource
    BY <1>2 DEF Resource
  <1>4. crs' \in [CRNames -> Resource \cup {None}]
    BY <1>3 DEF WriteCR, TypeInv, CVTables
  <1>5. trouble' \subseteq Troubles
    BY DEF WriteCR, TypeInv, Troubles
  <1>6. CVTables'
    BY <1>1, <1>4 DEF TypeInv, CVTables
  <1>. QED BY <1>1, <1>5, <1>6, EndsTyped

LEMMA DropRowTyped ==
  ASSUME SchemaInv, TypeInv, NEW q \in Reqs, DropRow(q)
  PROVE  TypeInv'
  <1>. DEFINE o == req[q]
  <1>1. /\ o.op = "deleteCV" /\ Shaped(o) /\ o \in CVRequest /\ o.op \in CVOps
        /\ trouble' \subseteq Troubles /\ UNCHANGED <<crs, catalogs, cells>>
    BY AtStatement DEF DropRow, AtCV, CVOps, TypeInv, catalogVars
  <1>2. CVTables'
    <2>1. CASE o.cv \in Live
      <3>1. [cv[o.cv] EXCEPT !.live = FALSE] \in Version /\ o.cv \in CVs
        BY <2>1, LiveVersion DEF Version
      <3>2. /\ cv' = [cv EXCEPT ![o.cv] = [cv[o.cv] EXCEPT !.live = FALSE]]
            /\ pins' = [p \in Pins |-> IF p \in PinsOf(o.cv) THEN None ELSE pins[p]]
            /\ log' = [log EXCEPT ![o.cv] = << >>]
        BY <2>1 DEF DropRow
      <3>3. cv' \in [CVs -> Version \cup {None}]
        BY <3>1, <3>2 DEF TypeInv, CVTables
      <3>4. pins' \in [Pins -> Pin \cup {None}]
        BY <3>2 DEF TypeInv, CVTables
      <3>5. log' \in [CVs -> Seq(Transition)]
        <4>1. << >> \in Seq(Transition)
          OBVIOUS
        <4>. QED BY <3>2, <4>1 DEF TypeInv, CVTables
      <3>. QED BY <1>1, <3>3, <3>4, <3>5 DEF TypeInv, CVTables
    <2>2. CASE o.cv \notin Live
      BY <1>1, <2>2, TablesSame DEF DropRow, TypeInv
    <2>. QED BY <2>1, <2>2
  <1>3. Finish(q) \/ Goto(q, "dropCR")
    BY DEF DropRow
  <1>. QED BY <1>1, <1>2, <1>3, EndsTyped, GoesTyped

LEMMA DropCRTyped ==
  ASSUME SchemaInv, TypeInv, NEW q \in Reqs, DropCR(q)
  PROVE  TypeInv'
  <1>1. /\ trouble' \subseteq Troubles /\ UNCHANGED <<cv, pins, log, catalogs, cells>>
        /\ Finish(q)
    BY DEF DropCR, TypeInv, catalogVars
  <1>2. crs' \in [CRNames -> Resource \cup {None}]
    BY DEF DropCR, TypeInv, CVTables
  <1>3. CVTables'
    BY <1>1, <1>2 DEF TypeInv, CVTables
  <1>. QED BY <1>1, <1>3, EndsTyped

LEMMA SaveCVTyped ==
  ASSUME SchemaInv, TypeInv, NEW q \in Reqs, SaveCV(q)
  PROVE  TypeInv'
  <1>1. /\ req[q].op = "updateCV" /\ Shaped(req[q])
        /\ trouble' \subseteq Troubles /\ UNCHANGED <<pins, log, crs, catalogs, cells>>
        /\ Finish(q)
    BY AtStatement DEF SaveCV, AtCV, CVOps, TypeInv, catalogVars
  <1>2. req[q].row \in Version
    BY <1>1 DEF Shaped
  <1>3. cv' \in [CVs -> Version \cup {None}]
    BY <1>2 DEF SaveCV, TypeInv, CVTables
  <1>4. CVTables'
    BY <1>1, <1>3 DEF TypeInv, CVTables
  <1>. QED BY <1>1, <1>4, EndsTyped

LEMMA PinWritesTyped ==
  ASSUME SchemaInv, TypeInv, NEW q \in Reqs, InsertPin(q) \/ DropPin(q) \/ SavePin(q)
  PROVE  TypeInv'
  <1>. DEFINE o == req[q]
  <1>1. /\ Shaped(o) /\ o.op \in CVOps /\ o \in CVRequest
        /\ trouble' \subseteq Troubles /\ UNCHANGED <<cv, log, crs, catalogs, cells>>
    BY AtStatement DEF InsertPin, DropPin, SavePin, AtCV, CVOps, TypeInv, catalogVars
  <1>2. CVTables'
    <2>1. CASE UNCHANGED pins
      BY <1>1, <2>1, TablesSame DEF TypeInv
    <2>2. CASE DropPin(q) /\ pins' # pins
      BY <1>1, <2>2 DEF DropPin, TypeInv, CVTables
    <2>3. CASE (InsertPin(q) \/ SavePin(q)) /\ pins' # pins
      <3>1. o.new \in Pin /\ \E p \in Pins : pins' = [pins EXCEPT ![p] = o.new]
        BY <1>1, <2>3 DEF InsertPin, SavePin, AtCV, Shaped
      <3>. QED BY <1>1, <3>1 DEF TypeInv, CVTables
    <2>. QED BY <2>1, <2>2, <2>3
  <1>3. \/ Finish(q)
        \/ Goto(q, "list") /\ o.op \in {"addPin", "removePin"}
        \/ Goto(q, "commit") /\ o.op = "updatePin"
    BY DEF InsertPin, DropPin, SavePin, AtCV
  <1>. QED BY <1>1, <1>2, <1>3, EndsTyped, GoesTyped

LEMMA ListCatalogsTyped ==
  ASSUME SchemaInv, TypeInv, NEW q \in Reqs, ListCatalogs(q)
  PROVE  TypeInv'
  <1>. DEFINE o == req[q]
              cats == {k \in BuiltOn(o.cv) : catalogs[k].status # "draft"}
              s == [o EXCEPT !.cats = cats, !.pc = "reset"]
              r == IF cats = {} THEN Idle ELSE s
  <1>1. /\ o.pc = "list" /\ Shaped(o) /\ o.op \in CVOps /\ o \in CVRequest
        /\ trouble' \subseteq Troubles /\ UNCHANGED <<cv, pins, log, crs, catalogs, cells>>
        /\ req' = [req EXCEPT ![q] = r]
    BY AtStatement DEF ListCatalogs, TypeInv, versionVars, catalogVars
  <1>2. CVTables'
    BY <1>1, TablesSame DEF TypeInv
  <1>3. cats \subseteq Catalogs
    BY DEF BuiltOn
  <1>. HIDE DEF cats
  <1>4. s \in CVRequest /\ s.op = o.op /\ s.pc = "reset" /\ s.pin = o.pin /\ s.new = o.new
    BY <1>1, <1>3 DEF CVRequest
  <1>5. o.op \in {"addPin", "removePin"}
    BY <1>1 DEF Shaped, CVOps
  <1>. HIDE DEF s
  <1>6. CVTyped(r)
    BY <1>1, <1>4, <1>5, IdleTyped DEF CVTyped, Shaped
  <1>. HIDE DEF r
  <1>. QED BY <1>1, <1>2, <1>6, TypedStep

LEMMA CatalogReset ==
  ASSUME NEW k \in Catalog
  PROVE  /\ [k EXCEPT !.status = "draft"] \in Catalog
         /\ [k EXCEPT !.status = "draft"].cv = k.cv
         /\ [k EXCEPT !.status = "draft"].status = "draft"
         /\ [k EXCEPT !.status = "draft"].checked = k.checked
  BY DEF Catalog

(***************************************************************************)
(* A catalog to reset is there: no catalog is ever removed.                *)
(***************************************************************************)
LEMMA BuiltOnTyped ==
  ASSUME TypeInv, NEW c, NEW k \in BuiltOn(c)
  PROVE  k \in Catalogs /\ catalogs[k] \in Catalog /\ catalogs[k].cv = c
  BY DEF TypeInv, CVTables, BuiltOn

LEMMA RemapTyped ==
  ASSUME SchemaInv, TypeInv, NEW q \in Reqs, Remap(q)
  PROVE  TypeInv'
  <1>. DEFINE o == req[q]
              moved == {x \in cells : /\ pins[o.pin] # None
                                      /\ x.catalog \in o.cats /\ x.type = o.new.type
                                      /\ x.ver = pins[o.pin].ver /\ \E m \in o.moves : m[1] = x.name}
              s == [o EXCEPT !.cells = moved, !.pc = "savePin"]
  <1>1. /\ o.op = "updatePin" /\ Shaped(o) /\ o.op \in CVOps /\ o \in CVRequest
        /\ trouble' \subseteq Troubles /\ UNCHANGED <<cv, pins, log, crs, catalogs, cells>>
        /\ req' = [req EXCEPT ![q] = Idle] \/ req' = [req EXCEPT ![q] = s]
    BY AtStatement DEF Remap, AtCV, CVOps, TypeInv, versionVars, catalogVars
  <1>2. CVTables'
    BY <1>1, TablesSame DEF TypeInv
  <1>3. moved \subseteq Cell /\ \A x \in moved : \E m \in o.moves : m[1] = x.name
    BY DEF TypeInv, CVTables
  <1>. HIDE DEF moved
  <1>4. /\ s \in CVRequest /\ s.op = "updatePin" /\ s.pc = "savePin" /\ s.pin = o.pin
        /\ s.new = o.new /\ s.cells = moved /\ s.moves = o.moves
    BY <1>1, <1>3 DEF CVRequest
  <1>. HIDE DEF s
  <1>5. CVTyped(s)
    BY <1>1, <1>3, <1>4 DEF CVTyped, Shaped
  <1>. QED BY <1>1, <1>2, <1>5, IdleTyped, TypedStep

LEMMA CommitTyped ==
  ASSUME SchemaInv, TypeInv, NEW q \in Reqs, Commit(q)
  PROVE  TypeInv'
  <1>. DEFINE o == req[q]
              target(x) == CHOOSE m \in o.moves : m[1] = x.name
              to(x) == [x EXCEPT !.ver = o.new.ver, !.name = target(x)[2]]
  <1>1. /\ o.op = "updatePin" /\ Shaped(o) /\ o.op \in CVOps /\ o \in CVRequest
        /\ trouble' \subseteq Troubles /\ UNCHANGED <<cv, pins, log, crs>> /\ Finish(q)
        /\ cells' = (cells \ o.cells) \cup {to(x) : x \in o.cells}
        /\ catalogs' = [k \in Catalogs |-> IF k \in BuiltOn(o.cv)
                                             THEN [catalogs[k] EXCEPT !.status = "draft"]
                                             ELSE catalogs[k]]
    BY AtStatement DEF Commit, AtCV, CVOps, TypeInv, versionVars
  <1>2. ASSUME NEW x \in o.cells PROVE to(x) \in Cell
    <2>1. target(x) \in o.moves
      BY <1>1 DEF Shaped
    <2>2. target(x)[2] \in Fields /\ o.new.ver \in Nat /\ x \in Cell
      BY <1>1, <2>1 DEF CVRequest, Shaped, Pin
    <2>. HIDE DEF target
    <2>. QED BY <2>2 DEF Cell
  <1>. HIDE DEF to
  <1>3. cells' \subseteq Cell
    BY <1>1, <1>2 DEF TypeInv, CVTables
  <1>4. catalogs' \in [Catalogs -> Catalog \cup {None}]
    <2>1. ASSUME NEW k \in Catalogs PROVE catalogs'[k] \in Catalog \cup {None}
      <3>1. CASE k \in BuiltOn(o.cv)
        BY <1>1, <3>1, BuiltOnTyped, CatalogReset
      <3>2. CASE k \notin BuiltOn(o.cv)
        BY <1>1, <3>2 DEF TypeInv, CVTables
      <3>. QED BY <3>1, <3>2
    <2>. QED BY <1>1, <2>1
  <1>5. CVTables'
    BY <1>1, <1>3, <1>4 DEF TypeInv, CVTables
  <1>. QED BY <1>1, <1>5, EndsTyped

(***************************************************************************)
(* The catalogs a request has listed and will reset are there.             *)
(***************************************************************************)
Built == {k \in Catalogs : catalogs[k] \in Catalog}

Listed(r) == r.op \in CVOps /\ r.pc = "reset" => r.cats \subseteq Built

ListInv == \A q \in Reqs : Listed(req[q])

LEMMA ResetCatalogTyped ==
  ASSUME SchemaInv, TypeInv, ListInv, NEW q \in Reqs, ResetCatalog(q)
  PROVE  TypeInv'
  <1>. DEFINE o == req[q]
  <1>1. PICK k \in o.cats :
          /\ catalogs' = [catalogs EXCEPT ![k].status = "draft"]
          /\ req' = [req EXCEPT ![q] = IF o.cats = {k} THEN Idle
                                         ELSE [o EXCEPT !.cats = @ \ {k}]]
    BY DEF ResetCatalog
  <1>2. /\ o.pc = "reset" /\ Shaped(o) /\ o.op \in CVOps /\ o \in CVRequest
        /\ trouble' \subseteq Troubles /\ UNCHANGED <<cv, pins, log, crs, cells>>
    BY AtStatement DEF ResetCatalog, TypeInv, versionVars
  <1>3. k \in Catalogs /\ catalogs[k] \in Catalog
    BY <1>2 DEF ListInv, Listed, Built
  <1>4. CVTables'
    <2>1. [catalogs[k] EXCEPT !.status = "draft"] \in Catalog
      BY <1>3, CatalogReset
    <2>2. catalogs' \in [Catalogs -> Catalog \cup {None}]
      BY <1>1, <2>1 DEF TypeInv, CVTables
    <2>. QED BY <1>2, <2>2 DEF TypeInv, CVTables
  <1>. DEFINE s == [o EXCEPT !.cats = o.cats \ {k}]
              r == IF o.cats = {k} THEN Idle ELSE s
  <1>5. req' = [req EXCEPT ![q] = r]
    BY <1>1
  <1>6. s \in CVRequest /\ s.op = o.op /\ s.pc = "reset" /\ s.pin = o.pin /\ s.new = o.new
    BY <1>2 DEF CVRequest
  <1>7. o.op \in {"addPin", "removePin"}
    BY <1>2 DEF Shaped, CVOps
  <1>. HIDE DEF s
  <1>8. CVTyped(r)
    BY <1>2, <1>6, <1>7, IdleTyped DEF CVTyped, Shaped
  <1>. HIDE DEF r
  <1>. QED BY <1>2, <1>4, <1>5, <1>8, TypedStep

-----------------------------------------------------------------------------
(***************************************************************************)
(* What other services do to the catalogs, failures, and the requests for  *)
(* the schema.                                                             *)
(***************************************************************************)
LEMMA WholeTyped ==
  ASSUME SchemaInv, TypeInv, NEW q \in Reqs, CreateCatalog(q) \/ Validate(q) \/ SetValue(q)
  PROVE  TypeInv'
  <1>1. UNCHANGED <<cv, pins, log, crs>> /\ req' = req /\ Note({})
    BY DEF CreateCatalog, Validate, SetValue, Whole, versionVars
  <1>2. trouble' \subseteq Troubles
    BY <1>1, Noted
  <1>3. catalogs' \in [Catalogs -> Catalog \cup {None}]
    <2>1. CASE CreateCatalog(q)
      <3>1. PICK k \in Catalogs, c \in Live :
              catalogs' = [catalogs EXCEPT ![k] = [cv |-> c, status |-> "draft", checked |-> {}]]
        BY <2>1 DEF CreateCatalog
      <3>2. [cv |-> c, status |-> "draft", checked |-> {}] \in Catalog
        BY LiveVersion DEF Catalog
      <3>. QED BY <3>1, <3>2 DEF TypeInv, CVTables
    <2>2. CASE Validate(q)
      <3>1. PICK k \in Catalogs, verdict \in {"valid", "invalid"} :
              /\ catalogs[k] # None
              /\ catalogs' = [catalogs EXCEPT ![k].status = verdict,
                                              ![k].checked = PinnedVersions(catalogs[k].cv)]
        BY <2>2 DEF Validate
      <3>2. catalogs[k] \in Catalog
        BY <3>1 DEF TypeInv, CVTables
      <3>3. PinnedVersions(catalogs[k].cv) \subseteq Types \X Nat
        BY PinTyped DEF PinnedVersions, Pin
      <3>. DEFINE P == PinnedVersions(catalogs[k].cv)
      <3>. HIDE DEF P
      <3>4. [catalogs[k] EXCEPT !.status = verdict, !.checked = P] \in Catalog
        BY <3>2, <3>3 DEF Catalog, P
      <3>5. catalogs' = [catalogs EXCEPT ![k] = [catalogs[k] EXCEPT !.status = verdict,
                                                                    !.checked = P]]
        BY <3>1, <3>2 DEF P, TypeInv, CVTables, Catalog
      <3>. QED BY <3>4, <3>5 DEF TypeInv, CVTables
    <2>3. CASE SetValue(q)
      <3>1. PICK k \in Catalogs : /\ catalogs[k] # None
                                  /\ catalogs' = [catalogs EXCEPT ![k].status = "draft"]
        BY <2>3 DEF SetValue
      <3>2. [catalogs[k] EXCEPT !.status = "draft"] \in Catalog
        BY <3>1, CatalogReset DEF TypeInv, CVTables
      <3>. QED BY <3>1, <3>2 DEF TypeInv, CVTables
    <2>. QED BY <2>1, <2>2, <2>3
  <1>4. cells' \subseteq Cell
    <2>1. CASE CreateCatalog(q) \/ Validate(q)
      BY <2>1 DEF CreateCatalog, Validate, TypeInv, CVTables
    <2>2. CASE SetValue(q)
      <3>1. PICK k \in Catalogs : \E x \in PinnedVersions(catalogs[k].cv) :
              /\ Has(x[1], x[2])
              /\ \E a \in versions[x[1]][x[2]].attrs :
                   cells' = {y \in cells : y.catalog # k \/ y.type # x[1] \/ y.ver # x[2]
                                             \/ y.name # a.name}
                              \cup {[catalog |-> k, type |-> x[1], ver |-> x[2],
                                     name |-> a.name, root |-> a.root]}
        BY <2>2 DEF SetValue
      <3>2. PICK x \in PinnedVersions(catalogs[k].cv) :
              /\ Has(x[1], x[2])
              /\ \E a \in versions[x[1]][x[2]].attrs :
                   cells' = {y \in cells : y.catalog # k \/ y.type # x[1] \/ y.ver # x[2]
                                             \/ y.name # a.name}
                              \cup {[catalog |-> k, type |-> x[1], ver |-> x[2],
                                     name |-> a.name, root |-> a.root]}
        BY <3>1
      <3>3. x[1] \in Types /\ x[2] \in Nat
        BY PinTyped DEF PinnedVersions, Pin
      <3>4. versions[x[1]][x[2]].attrs \subseteq Attr
        BY <3>2, <3>3, VersionFinite, FiniteParts DEF SchemaInv
      <3>5. PICK a \in versions[x[1]][x[2]].attrs :
              cells' = {y \in cells : y.catalog # k \/ y.type # x[1] \/ y.ver # x[2]
                                        \/ y.name # a.name}
                         \cup {[catalog |-> k, type |-> x[1], ver |-> x[2],
                                name |-> a.name, root |-> a.root]}
        BY <3>2
      <3>6. a.name \in Fields /\ a.root \in Root
        BY <3>4, <3>5 DEF Attr
      <3>7. [catalog |-> k, type |-> x[1], ver |-> x[2], name |-> a.name, root |-> a.root] \in Cell
        BY <3>3, <3>6 DEF Cell
      <3>. QED BY <3>5, <3>7 DEF TypeInv, CVTables
    <2>. QED BY <2>1, <2>2
  <1>5. CVTables'
    BY <1>1, <1>3, <1>4 DEF TypeInv, CVTables
  <1>. QED BY <1>1, <1>2, <1>5, TypedSame

LEMMA CVFailTyped ==
  ASSUME SchemaInv, TypeInv, NEW q \in Reqs, CVFail(q)
  PROVE  TypeInv'
  <1>1. trouble' \subseteq Troubles
    BY DEF CVFail, TypeInv, Troubles
  <1>2. CVTables'
    BY TablesSame DEF CVFail, TypeInv, versionVars, catalogVars
  <1>. QED BY <1>1, <1>2, EndsTyped DEF CVFail

TypesMove(q) ==
    \/ UpdateEntityType(q) \/ AddAttribute(q) \/ RemoveAttribute(q) \/ EditAttribute(q)
    \/ CopyAttributesFromType(q) \/ CreateAssociation(q) \/ EditAssociation(q)
    \/ DeleteAssociation(q) \/ CreateVersion(q) \/ CopyAttrs(q) \/ CopyAssocs(q)
    \/ InsertAttr(q) \/ DropAttr(q) \/ SetAttr(q)
    \/ InsertAssoc(q) \/ SetAssoc(q) \/ DropAssoc(q) \/ ReorderAttributes(q) \/ Renumber(q)
    \/ CreateEntityType(q) \/ CopyEntityType(q) \/ InsertType(q) \/ RenameEntityType(q)
    \/ ReadType(q) \/ SaveType(q) \/ DeleteEntityType(q)
    \/ CreateTypeDefinition(q) \/ InsertDef(q) \/ UpdateTypeDefinition(q)
    \/ InsertDefVersion(q) \/ DeleteTypeDefinition(q) \/ DropDef(q)
    \/ Fail(q)

VersionsMove(q) ==
    \/ CreateCatalogVersion(q) \/ InsertPins(q) \/ Promote(q) \/ Demote(q)
    \/ WriteStage(q) \/ WriteLog(q) \/ WriteCR(q)
    \/ DeleteCatalogVersion(q) \/ DropRow(q) \/ DropCR(q)
    \/ UpdateCatalogVersion(q) \/ SaveCV(q)
    \/ AddPin(q) \/ InsertPin(q) \/ RemovePin(q) \/ DropPin(q)
    \/ ListCatalogs(q) \/ ResetCatalog(q)
    \/ UpdatePin(q) \/ Remap(q) \/ SavePin(q) \/ Commit(q)
    \/ CreateCatalog(q) \/ Validate(q) \/ SetValue(q)
    \/ CVFail(q)

LEMMA MovesOf ==
  /\ TypesNext => \E q \in Reqs : TypesMove(q)
  /\ VersionsNext => \E q \in Reqs : VersionsMove(q)
  BY DEF TypesNext, VersionsNext, TypesMove, VersionsMove

(***************************************************************************)
(* A request for the schema stays one until it ends.                       *)
(***************************************************************************)
SchemaMoves(q) ==
    /\ \E r : /\ req' = [req EXCEPT ![q] = r]
              /\ r = Idle \/ (r.op \in SchemaOps /\ "op" \in DOMAIN r)
    /\ trouble \subseteq trouble' /\ trouble' \subseteq Troubles

LEMMA SchemaStarts ==
  ASSUME TypeInv, NEW q \in Reqs, NEW r, NEW flaws, Start(q, r, flaws), flaws \subseteq Troubles,
         r.op \in SchemaOps, "op" \in DOMAIN r
  PROVE  SchemaMoves(q)
  <1>1. trouble' \subseteq Troubles /\ trouble \subseteq trouble'
    BY Noted DEF Start, Note
  <1>. QED BY <1>1 DEF SchemaMoves, Start

LEMMA SchemaEditStarts ==
  ASSUME TypeInv, NEW q \in Reqs, NEW r, NEW flaws, StartEdit(q, r, flaws), flaws \subseteq Troubles,
         r.op \in SchemaOps, "op" \in DOMAIN r
  PROVE  SchemaMoves(q)
  <1>. DEFINE s == [r EXCEPT !.from = r.type, !.fromVer = Latest(r.type), !.base = Latest(r.type)]
  <1>1. Start(q, s, flaws)
    BY DEF StartEdit
  <1>2. s.op = r.op /\ "op" \in DOMAIN s
    OBVIOUS
  <1>. HIDE DEF s
  <1>. QED BY <1>1, <1>2, SchemaStarts

LEMMA EditsMove ==
  ASSUME SchemaInv, TypeInv, NEW q \in Reqs,
         \/ UpdateEntityType(q) \/ AddAttribute(q) \/ RemoveAttribute(q) \/ EditAttribute(q)
         \/ CopyAttributesFromType(q) \/ CreateAssociation(q) \/ EditAssociation(q)
         \/ DeleteAssociation(q)
  PROVE  SchemaMoves(q)
  <1>1. EditBegun(q)
    BY EditsBegin
  <1>2. PICK r \in Request, flaws \in SUBSET {"copied", "retyped", "untyped"} :
          StartEdit(q, r, flaws) /\ r.op \in EditOps
    BY <1>1 DEF EditBegun
  <1>3. "op" \in DOMAIN r /\ flaws \subseteq Troubles
    BY DEF Request, Troubles
  <1>. QED BY <1>2, <1>3, SchemaEditStarts, OpsKnown

(***************************************************************************)
(* The other requests for the schema, as they start.                       *)
(***************************************************************************)
LEMMA NoFlaw == {} \subseteq Troubles
  OBVIOUS

LEMMA NewRequestMoves ==
  ASSUME TypeInv, NEW q \in Reqs, NEW r, Start(q, r, {}), r.op \in SchemaOps, "op" \in DOMAIN r
  PROVE  SchemaMoves(q)
  BY SchemaStarts, NoFlaw

LEMMA StartsMove ==
  ASSUME SchemaInv, TypeInv, NEW q \in Reqs,
         \/ ReorderAttributes(q) \/ CreateEntityType(q) \/ CopyEntityType(q)
         \/ RenameEntityType(q) \/ CreateTypeDefinition(q) \/ UpdateTypeDefinition(q)
         \/ DeleteTypeDefinition(q)
  PROVE  SchemaMoves(q)
  <1>1. CASE ReorderAttributes(q)
    <2>1. PICK t \in Types :
            \E order \in [1..Cardinality(AttrNames(t, Latest(t))) -> AttrNames(t, Latest(t))] :
               Start(q, [NewRequest EXCEPT !.op = "reorder", !.pc = "reorder", !.type = t,
                                           !.made = Latest(t), !.order = order], {"reordered"})
      BY <1>1 DEF ReorderAttributes
    <2>2. PICK order, n :
            Start(q, [NewRequest EXCEPT !.op = "reorder", !.pc = "reorder", !.type = t,
                                        !.made = n, !.order = order], {"reordered"})
      BY <2>1
    <2>. DEFINE r == [NewRequest EXCEPT !.op = "reorder", !.pc = "reorder", !.type = t,
                                        !.made = n, !.order = order]
    <2>3. r.op = "reorder" /\ "op" \in DOMAIN r
      BY DEF NewRequest
    <2>4. Start(q, r, {"reordered"}) /\ {"reordered"} \subseteq Troubles
      BY <2>2 DEF Troubles
    <2>. HIDE DEF r
    <2>. QED BY <2>3, <2>4, SchemaStarts, OpsKnown
  <1>2. CASE CreateEntityType(q)
    <2>1. PICK n \in TypeNames :
            Start(q, [NewRequest EXCEPT !.op = "createType", !.pc = "insertType",
                                        !.typeName = n], {})
      BY <1>2 DEF CreateEntityType
    <2>. DEFINE r == [NewRequest EXCEPT !.op = "createType", !.pc = "insertType", !.typeName = n]
    <2>2. r.op = "createType" /\ "op" \in DOMAIN r
      BY DEF NewRequest
    <2>3. Start(q, r, {})
      BY <2>1
    <2>. HIDE DEF r
    <2>. QED BY <2>2, <2>3, NewRequestMoves, OpsKnown
  <1>3. CASE CopyEntityType(q)
    <2>1. PICK t \in Types, n \in TypeNames : \E v \in 1..Latest(t) :
            Start(q, [NewRequest EXCEPT !.op = "copyType", !.pc = "insertType",
                                        !.typeName = n, !.from = t, !.fromVer = v], {})
      BY <1>3 DEF CopyEntityType
    <2>2. PICK v \in 1..Latest(t) :
            Start(q, [NewRequest EXCEPT !.op = "copyType", !.pc = "insertType",
                                        !.typeName = n, !.from = t, !.fromVer = v], {})
      BY <2>1
    <2>. DEFINE r == [NewRequest EXCEPT !.op = "copyType", !.pc = "insertType",
                                        !.typeName = n, !.from = t, !.fromVer = v]
    <2>3. r.op = "copyType" /\ "op" \in DOMAIN r
      BY DEF NewRequest
    <2>4. Start(q, r, {})
      BY <2>2
    <2>. HIDE DEF r
    <2>. QED BY <2>3, <2>4, NewRequestMoves, OpsKnown
  <1>4. CASE RenameEntityType(q)
    <2>. DEFINE asked(n) == [NewRequest EXCEPT !.op = "rename", !.typeName = n]
    <2>1. PICK t \in Named, n \in TypeNames :
            \/ Start(q, [asked(n) EXCEPT !.pc = "insertType", !.from = t, !.fromVer = Latest(t)], {})
            \/ Start(q, [asked(n) EXCEPT !.pc = "saveType", !.type = t], {})
      BY <1>4 DEF RenameEntityType
    <2>2. PICK r : Start(q, r, {}) /\ (\/ r = [asked(n) EXCEPT !.pc = "insertType", !.from = t,
                                                               !.fromVer = Latest(t)]
                                       \/ r = [asked(n) EXCEPT !.pc = "saveType", !.type = t])
      BY <2>1
    <2>3. r.op = "rename" /\ "op" \in DOMAIN r
      BY <2>2 DEF NewRequest
    <2>. QED BY <2>2, <2>3, NewRequestMoves, OpsKnown
  <1>5. CASE CreateTypeDefinition(q)
    <2>1. PICK d \in Defs :
            Start(q, [NewRequest EXCEPT !.op = "createDef", !.pc = "insertDef", !.def = d], {})
      BY <1>5 DEF CreateTypeDefinition
    <2>. DEFINE r == [NewRequest EXCEPT !.op = "createDef", !.pc = "insertDef", !.def = d]
    <2>2. r.op = "createDef" /\ "op" \in DOMAIN r
      BY DEF NewRequest
    <2>3. Start(q, r, {})
      BY <2>1
    <2>. HIDE DEF r
    <2>. QED BY <2>2, <2>3, NewRequestMoves, OpsKnown
  <1>6. CASE UpdateTypeDefinition(q)
    <2>1. PICK d \in defs :
            Start(q, [NewRequest EXCEPT !.op = "updateDef", !.pc = "insertDefVersion",
                                        !.def = d, !.base = defVers[d]], {})
      BY <1>6 DEF UpdateTypeDefinition
    <2>2. PICK n : n = defVers[d]
      OBVIOUS
    <2>. DEFINE r == [NewRequest EXCEPT !.op = "updateDef", !.pc = "insertDefVersion",
                                        !.def = d, !.base = n]
    <2>3. r.op = "updateDef" /\ "op" \in DOMAIN r
      BY DEF NewRequest
    <2>4. Start(q, r, {})
      BY <2>1, <2>2
    <2>. HIDE DEF r
    <2>. QED BY <2>3, <2>4, NewRequestMoves, OpsKnown
  <1>7. CASE DeleteTypeDefinition(q)
    <2>1. PICK d \in Defs :
            Start(q, [NewRequest EXCEPT !.op = "deleteDef", !.pc = "dropDef", !.def = d], {})
      BY <1>7 DEF DeleteTypeDefinition, SchemaInv, Tables
    <2>. DEFINE r == [NewRequest EXCEPT !.op = "deleteDef", !.pc = "dropDef", !.def = d]
    <2>2. r.op = "deleteDef" /\ "op" \in DOMAIN r
      BY DEF NewRequest
    <2>3. Start(q, r, {})
      BY <2>1
    <2>. HIDE DEF r
    <2>. QED BY <2>2, <2>3, NewRequestMoves, OpsKnown
  <1>. QED BY <1>1, <1>2, <1>3, <1>4, <1>5, <1>6, <1>7

(***************************************************************************)
(* The statements of a request for the schema.                             *)
(***************************************************************************)
LEMMA OwnMoves ==
  ASSUME SchemaInv, TypeInv, NEW q \in Reqs, NEW r, r = req[q], r.op \in SchemaOps,
         trouble' = trouble,
         \/ Finish(q)
         \/ \E pc : Goto(q, pc)
         \/ \E s : req' = [req EXCEPT ![q] = s] /\ (s = Idle \/ (s.op = r.op /\ "op" \in DOMAIN s))
  PROVE  SchemaMoves(q)
  <1>0. trouble \subseteq trouble' /\ trouble' \subseteq Troubles
    BY DEF TypeInv
  <1>1. CASE Finish(q)
    BY <1>0, <1>1 DEF Finish, SchemaMoves
  <1>2. CASE \E pc : Goto(q, pc)
    <2>1. PICK pc : Goto(q, pc)
      BY <1>2
    <2>2. "op" \in DOMAIN req[q]
      BY RequestKnown
    <2>. DEFINE s == [req[q] EXCEPT !.pc = pc]
    <2>3. s.op \in SchemaOps /\ "op" \in DOMAIN s
      BY <2>2
    <2>4. req' = [req EXCEPT ![q] = s]
      BY <2>1 DEF Goto
    <2>. HIDE DEF s
    <2>. QED BY <1>0, <2>3, <2>4 DEF SchemaMoves
  <1>3. CASE \E s : req' = [req EXCEPT ![q] = s]
                    /\ (s = Idle \/ (s.op = r.op /\ "op" \in DOMAIN s))
    BY <1>0, <1>3 DEF SchemaMoves
  <1>. QED BY <1>1, <1>2, <1>3

LEMMA StatementsMove ==
  ASSUME SchemaInv, TypeInv, NEW q \in Reqs,
         \/ CreateVersion(q) \/ CopyAttrs(q) \/ CopyAssocs(q) \/ InsertAttr(q)
         \/ DropAttr(q) \/ SetAttr(q) \/ InsertAssoc(q) \/ SetAssoc(q) \/ DropAssoc(q)
         \/ Renumber(q) \/ InsertType(q) \/ ReadType(q) \/ SaveType(q)
         \/ InsertDef(q) \/ InsertDefVersion(q) \/ DropDef(q)
  PROVE  SchemaMoves(q)
  <1>1. PICK r : r = req[q]
    OBVIOUS
  <1>2. r.op \in SchemaOps /\ trouble' = trouble
    BY <1>1 DEF CreateVersion, CopyAttrs, CopyAssocs, InsertAttr, DropAttr, SetAttr, InsertAssoc,
                SetAssoc, DropAssoc, Renumber, InsertType, ReadType, SaveType, InsertDef,
                InsertDefVersion, DropDef, Changing, At
  <1>3. r \in Request
    BY <1>1, <1>2, RequestKnown
  <1>4. CASE CreateVersion(q)
    <2>1. req' = [req EXCEPT ![q] = Idle]
          \/ req' = [req EXCEPT ![q] = [r EXCEPT !.made = r.base + 1, !.pc = "copyAttrs"]]
      BY <1>1, <1>4 DEF CreateVersion, Finish
    <2>. DEFINE s == [r EXCEPT !.made = r.base + 1, !.pc = "copyAttrs"]
    <2>2. s.op = r.op /\ "op" \in DOMAIN s
      BY <1>3 DEF Request
    <2>. HIDE DEF s
    <2>. QED BY <1>1, <1>2, <2>1, <2>2, OwnMoves DEF s
  <1>5. CASE InsertAttr(q)
    <2>1. req' = [req EXCEPT ![q] = Idle] \/ req' = [req EXCEPT ![q] = [r EXCEPT !.adds = Tail(r.adds)]]
      BY <1>1, <1>5 DEF InsertAttr, Finish
    <2>. DEFINE s == [r EXCEPT !.adds = Tail(r.adds)]
    <2>2. s.op = r.op /\ "op" \in DOMAIN s
      BY <1>3 DEF Request
    <2>. HIDE DEF s
    <2>. QED BY <1>1, <1>2, <2>1, <2>2, OwnMoves DEF s
  <1>6. CASE InsertType(q)
    <2>1. req' = [req EXCEPT ![q] = Idle]
          \/ \E t \in Types : req' = [req EXCEPT ![q] = [r EXCEPT !.type = t, !.pc = "create"]]
      BY <1>1, <1>6 DEF InsertType, Finish
    <2>2. CASE \E t \in Types : req' = [req EXCEPT ![q] = [r EXCEPT !.type = t, !.pc = "create"]]
      <3>1. PICK t \in Types : req' = [req EXCEPT ![q] = [r EXCEPT !.type = t, !.pc = "create"]]
        BY <2>2
      <3>. DEFINE s == [r EXCEPT !.type = t, !.pc = "create"]
      <3>2. s.op = r.op /\ "op" \in DOMAIN s
        BY <1>3 DEF Request
      <3>. HIDE DEF s
      <3>. QED BY <1>1, <1>2, <3>1, <3>2, OwnMoves DEF s
    <2>3. CASE req' = [req EXCEPT ![q] = Idle]
      BY <1>1, <1>2, <2>3, OwnMoves
    <2>. QED BY <2>1, <2>2, <2>3
  <1>7. CASE ReadType(q)
    <2>1. PICK n : req' = [req EXCEPT ![q] = Idle]
            \/ req' = [req EXCEPT ![q] = [r EXCEPT !.pc = "saveType", !.typeName = n]]
      BY <1>1, <1>7 DEF ReadType, Finish
    <2>. DEFINE s == [r EXCEPT !.pc = "saveType", !.typeName = n]
    <2>2. s.op = r.op /\ "op" \in DOMAIN s
      BY <1>3 DEF Request
    <2>. HIDE DEF s
    <2>. QED BY <1>1, <1>2, <2>1, <2>2, OwnMoves DEF s
  <1>8. CASE \/ DropAttr(q) \/ SetAttr(q) \/ InsertAssoc(q) \/ SetAssoc(q) \/ DropAssoc(q)
             \/ Renumber(q) \/ SaveType(q) \/ InsertDefVersion(q) \/ DropDef(q)
    <2>1. Finish(q)
      BY <1>8 DEF DropAttr, SetAttr, InsertAssoc, SetAssoc, DropAssoc, Renumber, SaveType,
                  InsertDefVersion, DropDef
    <2>. QED BY <1>1, <1>2, <2>1, OwnMoves
  <1>9. CASE CopyAttrs(q) \/ CopyAssocs(q) \/ InsertDef(q)
    <2>1. Finish(q) \/ \E pc : Goto(q, pc)
      BY <1>9 DEF CopyAttrs, CopyAssocs, InsertDef
    <2>. QED BY <1>1, <1>2, <2>1, OwnMoves
  <1>. QED BY <1>4, <1>5, <1>6, <1>7, <1>8, <1>9

(***************************************************************************)
(* A statement that fails, and the one request that is not handled in      *)
(* steps.                                                                  *)
(***************************************************************************)
LEMMA TypesMoves ==
  ASSUME SchemaInv, TypeInv, NEW q \in Reqs, TypesMove(q)
  PROVE  SchemaMoves(q) \/ DeleteEntityType(q)
  <1>1. CASE Fail(q)
    <2>1. trouble \subseteq trouble' /\ trouble' \subseteq Troubles
      BY <1>1 DEF Fail, TypeInv, Troubles
    <2>. QED BY <1>1, <2>1 DEF Fail, Finish, SchemaMoves
  <1>2. CASE ~Fail(q)
    BY <1>2, EditsMove, StartsMove, StatementsMove DEF TypesMove
  <1>. QED BY <1>1, <1>2

LEMMA TypesNextTyped ==
  ASSUME SchemaInv, TypeInv, NEW q \in Reqs, TypesMove(q),
         UNCHANGED <<cv, pins, log, crs, catalogs, cells>>
  PROVE  TypeInv'
  <1>1. CVTables'
    BY TablesSame DEF TypeInv
  <1>2. CASE SchemaMoves(q)
    <2>1. PICK r : req' = [req EXCEPT ![q] = r] /\ (r = Idle \/ r.op \in SchemaOps)
      BY <1>2 DEF SchemaMoves
    <2>2. CVTyped(r)
      BY <2>1 DEF CVTyped
    <2>. QED BY <1>1, <1>2, <2>1, <2>2, TypedStep DEF SchemaMoves
  <1>3. CASE DeleteEntityType(q)
    <2>1. {"deleted"} \subseteq Troubles
      BY DEF Troubles
    <2>. QED BY <1>1, <1>3, <2>1, Noted, TypedSame DEF DeleteEntityType
  <1>. QED BY <1>2, <1>3, TypesMoves

-----------------------------------------------------------------------------
(***************************************************************************)
(* The requests for catalog versions that start: what each has found.      *)
(***************************************************************************)
Opens(q, s) ==
    /\ req[q] = Idle /\ req' = [req EXCEPT ![q] = s]
    /\ trouble \subseteq trouble' /\ (Active = {} \/ "overlap" \in trouble')
    /\ UNCHANGED <<schema, definitions, pins, log, crs, catalogs, cells>>

LEMMA StartOpens ==
  ASSUME NEW q \in Reqs, NEW op, Ready(q, op), NEW s, NEW flaws, Start(q, s, flaws),
         UNCHANGED <<schema, definitions, pins, log, crs, catalogs, cells>>
  PROVE  Opens(q, s) /\ flaws \subseteq trouble'
  BY DEF Opens, Ready, Start, Note

LEMMA StartCVOpens ==
  ASSUME NEW q \in Reqs, NEW op, Ready(q, op), NEW s, NEW flaws, StartCV(q, s, flaws)
  PROVE  Opens(q, s) /\ flaws \subseteq trouble' /\ cv' = cv
  <1>1. Start(q, s, flaws) /\ cv' = cv
        /\ UNCHANGED <<schema, definitions, pins, log, crs, catalogs, cells>>
    BY DEF StartCV, versionVars, catalogVars
  <1>. QED BY <1>1, StartOpens

LEMMA CreateOpens ==
  ASSUME NEW q \in Reqs, CreateCatalogVersion(q)
  PROVE  \E s : \E c \in CVs, l \in Labels :
           /\ Opens(q, s) /\ s.op = "createCV" /\ s.pc = "pins" /\ s.cv = c
           /\ s.todo \subseteq Types \X (0..MaxVersions)
           /\ \A x \in s.todo : Has(x[1], x[2]) \/ (x[2] = 0 /\ "unknown" \in trouble')
           /\ (\E x, y \in s.todo : x # y /\ x[1] = y[1]) => "double" \in trouble'
           /\ s.again # {} => "repeated" \in trouble'
           /\ Cardinality(s.todo) <= Cardinality({p \in Pins : pins[p] = None})
           /\ cv[c] = None /\ ~LabelUsed(l) /\ LabelFlaws(c, l) \subseteq trouble'
           /\ cv' = [cv EXCEPT ![c] = [live |-> TRUE, label |-> l, stage |-> "development"]]
  <1>0. PICK c \in CVs, l \in Labels, chosen \in SUBSET Nameable : \E again \in SUBSET chosen :
          /\ cv[c] = None /\ ~LabelUsed(l)
          /\ Cardinality(chosen) <= Cardinality({p \in Pins : pins[p] = None})
          /\ Start(q, [NewCV EXCEPT !.cv = c, !.todo = chosen, !.again = again],
                   LabelFlaws(c, l) \cup PinFlawsOf(chosen, again))
          /\ cv' = [cv EXCEPT ![c] = [live |-> TRUE, label |-> l, stage |-> "development"]]
    BY DEF CreateCatalogVersion
  <1>1. PICK again \in SUBSET chosen :
          /\ cv[c] = None /\ ~LabelUsed(l)
          /\ Cardinality(chosen) <= Cardinality({p \in Pins : pins[p] = None})
          /\ Start(q, [NewCV EXCEPT !.cv = c, !.todo = chosen, !.again = again],
                   LabelFlaws(c, l) \cup PinFlawsOf(chosen, again))
          /\ cv' = [cv EXCEPT ![c] = [live |-> TRUE, label |-> l, stage |-> "development"]]
    BY <1>0
  <1>. DEFINE s == [NewCV EXCEPT !.cv = c, !.todo = chosen, !.again = again]
              flaws == LabelFlaws(c, l) \cup PinFlawsOf(chosen, again)
  <1>2. s.op = "createCV" /\ s.pc = "pins" /\ s.cv = c /\ s.todo = chosen /\ s.again = again
    BY DEF NewCV
  <1>3. Ready(q, "createCV") /\ UNCHANGED <<schema, definitions, pins, log, crs, catalogs, cells>>
    BY DEF CreateCatalogVersion, catalogVars
  <1>4. Start(q, s, flaws) /\ LabelFlaws(c, l) \subseteq flaws /\ PinFlawsOf(chosen, again) \subseteq flaws
    BY <1>1
  <1>. HIDE DEF s, flaws
  <1>5. /\ Opens(q, s) /\ LabelFlaws(c, l) \subseteq trouble'
        /\ PinFlawsOf(chosen, again) \subseteq trouble'
    BY <1>3, <1>4, StartOpens
  <1>6. /\ \A x \in chosen : x \in Types \X (0..MaxVersions)
        /\ \A x \in chosen : Has(x[1], x[2]) \/ x[2] = 0
    BY DEF Nameable
  <1>7. /\ \A x \in chosen : x[2] = 0 => "unknown" \in trouble'
        /\ (\E x, y \in chosen : x # y /\ x[1] = y[1]) => "double" \in trouble'
        /\ again # {} => "repeated" \in trouble'
    BY <1>5 DEF PinFlawsOf
  <1>. QED BY <1>1, <1>2, <1>5, <1>6, <1>7

LEMMA MoveOpens ==
  ASSUME NEW q \in Reqs, Promote(q) \/ Demote(q)
  PROVE  \E s : \E c \in Live :
           /\ Opens(q, s) /\ cv' = cv /\ s.op \in {"promote", "demote"} /\ s.pc = "stage"
           /\ s.cv = c /\ s.from = cv[c].stage /\ s.row = cv[c]
  <1>1. PICK c \in Live, op \in {"promote", "demote"}, to \in Stages :
          /\ Ready(q, op)
          /\ StartCV(q, [NewCV EXCEPT !.op = op, !.pc = "stage", !.cv = c, !.from = cv[c].stage,
                                      !.to = to, !.row = cv[c]], {})
    BY DEF Promote, Demote, Higher, Stages
  <1>2. PICK row, from : row = cv[c] /\ from = cv[c].stage
    OBVIOUS
  <1>. DEFINE s == [NewCV EXCEPT !.op = op, !.pc = "stage", !.cv = c, !.from = from,
                                 !.to = to, !.row = row]
  <1>3. s.op = op /\ s.pc = "stage" /\ s.cv = c /\ s.from = from /\ s.row = row
    BY DEF NewCV
  <1>4. StartCV(q, s, {})
    BY <1>1, <1>2
  <1>. HIDE DEF s
  <1>5. Opens(q, s) /\ cv' = cv
    BY <1>1, <1>4, StartCVOpens
  <1>. QED BY <1>2, <1>3, <1>5

LEMMA DeleteOpens ==
  ASSUME NEW q \in Reqs, DeleteCatalogVersion(q)
  PROVE  \E s : \E c \in Live :
           /\ Opens(q, s) /\ cv' = cv /\ s.op = "deleteCV" /\ s.pc = "drop"
           /\ s.cv = c /\ s.row = cv[c] /\ BuiltOn(c) = {}
  <1>1. PICK c \in Live :
          /\ Ready(q, "deleteCV") /\ BuiltOn(c) = {}
          /\ StartCV(q, [NewCV EXCEPT !.op = "deleteCV", !.pc = "drop", !.cv = c, !.row = cv[c]], {})
    BY DEF DeleteCatalogVersion
  <1>2. PICK row : row = cv[c]
    OBVIOUS
  <1>. DEFINE s == [NewCV EXCEPT !.op = "deleteCV", !.pc = "drop", !.cv = c, !.row = row]
  <1>3. s.op = "deleteCV" /\ s.pc = "drop" /\ s.cv = c /\ s.row = row
    BY DEF NewCV
  <1>4. StartCV(q, s, {})
    BY <1>1, <1>2
  <1>. HIDE DEF s
  <1>5. Opens(q, s) /\ cv' = cv
    BY <1>1, <1>4, StartCVOpens
  <1>. QED BY <1>1, <1>2, <1>3, <1>5

LEMMA UpdateOpens ==
  ASSUME NEW q \in Reqs, UpdateCatalogVersion(q)
  PROVE  \E s : \E c \in Live, l \in Labels :
           /\ Opens(q, s) /\ cv' = cv /\ s.op = "updateCV" /\ s.pc = "save"
           /\ s.cv = c /\ s.row = [cv[c] EXCEPT !.label = l]
           /\ LabelFlaws(c, l) \subseteq trouble'
           /\ cv[c].stage # "development" /\ l # cv[c].label => "relabelled" \in trouble'
  <1>1. PICK c \in Live, l \in Labels :
          /\ Ready(q, "updateCV")
          /\ StartCV(q, [NewCV EXCEPT !.op = "updateCV", !.pc = "save", !.cv = c,
                                   !.row = [cv[c] EXCEPT !.label = l]],
                  LabelFlaws(c, l) \cup
                    IF cv[c].stage # "development" /\ l # cv[c].label THEN {"relabelled"} ELSE {})
    BY DEF UpdateCatalogVersion
  <1>2. PICK row : row = [cv[c] EXCEPT !.label = l]
    OBVIOUS
  <1>. DEFINE s == [NewCV EXCEPT !.op = "updateCV", !.pc = "save", !.cv = c, !.row = row]
              flaws == LabelFlaws(c, l) \cup
                    IF cv[c].stage # "development" /\ l # cv[c].label THEN {"relabelled"} ELSE {}
  <1>3. s.op = "updateCV" /\ s.pc = "save" /\ s.cv = c /\ s.row = row
    BY DEF NewCV
  <1>4. StartCV(q, s, flaws)
    BY <1>1, <1>2
  <1>5. LabelFlaws(c, l) \subseteq flaws
        /\ (cv[c].stage # "development" /\ l # cv[c].label => "relabelled" \in flaws)
    OBVIOUS
  <1>. HIDE DEF s, flaws
  <1>6. Opens(q, s) /\ cv' = cv /\ flaws \subseteq trouble'
    BY <1>1, <1>4, StartCVOpens
  <1>. QED BY <1>2, <1>3, <1>5, <1>6

LEMMA AddPinOpens ==
  ASSUME TypeInv, NEW q \in Reqs, AddPin(q)
  PROVE  \E s : \E c \in Live :
           /\ Opens(q, s) /\ cv' = cv /\ s.op = "addPin" /\ s.pc = "insertPin"
           /\ s.cv = c /\ s.new.cv = c /\ Has(s.new.type, s.new.ver) /\ s.new.type \in Types
           /\ cv[c].stage # "production"
  <1>1. PICK c \in Live, t \in Types : \E v \in 1..Latest(t) :
          /\ Ready(q, "addPin") /\ \E role \in Roles : EditAllowed(c, role)
          /\ StartCV(q, [NewCV EXCEPT !.op = "addPin", !.pc = "insertPin", !.cv = c,
                                      !.new = [cv |-> c, type |-> t, ver |-> v]], {})
    BY DEF AddPin
  <1>2. PICK v \in 1..Latest(t) :
          /\ Ready(q, "addPin") /\ \E role \in Roles : EditAllowed(c, role)
          /\ StartCV(q, [NewCV EXCEPT !.op = "addPin", !.pc = "insertPin", !.cv = c,
                                      !.new = [cv |-> c, type |-> t, ver |-> v]], {})
    BY <1>1
  <1>3. PICK new : new = [cv |-> c, type |-> t, ver |-> v]
    OBVIOUS
  <1>. DEFINE s == [NewCV EXCEPT !.op = "addPin", !.pc = "insertPin", !.cv = c, !.new = new]
  <1>4. s.op = "addPin" /\ s.pc = "insertPin" /\ s.cv = c /\ s.new = new
    BY DEF NewCV
  <1>5. StartCV(q, s, {})
    BY <1>2, <1>3
  <1>. HIDE DEF s
  <1>6. Opens(q, s) /\ cv' = cv
    BY <1>2, <1>5, StartCVOpens
  <1>7. cv[c].stage # "production"
    BY <1>2 DEF EditAllowed
  <1>8. Has(t, v)
    BY <1>2 DEF Has
  <1>. QED BY <1>3, <1>4, <1>6, <1>7, <1>8

LEMMA RemovePinOpens ==
  ASSUME NEW q \in Reqs, RemovePin(q)
  PROVE  \E s : \E c \in Live :
           /\ Opens(q, s) /\ cv' = cv /\ s.op = "removePin" /\ s.pc = "dropPin"
           /\ s.cv = c /\ s.pin \in PinsOf(c) /\ cv[c].stage # "production"
  <1>1. PICK c \in Live : \E p \in PinsOf(c) :
          /\ Ready(q, "removePin") /\ \E role \in Roles : EditAllowed(c, role)
          /\ StartCV(q, [NewCV EXCEPT !.op = "removePin", !.pc = "dropPin", !.cv = c, !.pin = p],
                  {"repinned"})
    BY DEF RemovePin
  <1>2. PICK p \in PinsOf(c) :
          /\ Ready(q, "removePin") /\ \E role \in Roles : EditAllowed(c, role)
          /\ StartCV(q, [NewCV EXCEPT !.op = "removePin", !.pc = "dropPin", !.cv = c, !.pin = p],
                  {"repinned"})
    BY <1>1
  <1>. DEFINE s == [NewCV EXCEPT !.op = "removePin", !.pc = "dropPin", !.cv = c, !.pin = p]
  <1>3. s.op = "removePin" /\ s.pc = "dropPin" /\ s.cv = c /\ s.pin = p
    BY DEF NewCV
  <1>4. StartCV(q, s, {"repinned"})
    BY <1>2
  <1>. HIDE DEF s
  <1>5. Opens(q, s) /\ cv' = cv
    BY <1>2, <1>4, StartCVOpens
  <1>6. cv[c].stage # "production"
    BY <1>2 DEF EditAllowed
  <1>. QED BY <1>3, <1>5, <1>6

LEMMA UpdatePinOpens ==
  ASSUME TypeInv, NEW q \in Reqs, UpdatePin(q)
  PROVE  \E s : \E c \in Live :
           /\ Opens(q, s) /\ cv' = cv /\ s.op = "updatePin" /\ s.pc = "remap"
           /\ s.cv = c /\ s.pin \in PinsOf(c) /\ s.new.cv = c
           /\ Has(s.new.type, s.new.ver) /\ s.new.type \in Types
           /\ cv[c].stage # "production"
  <1>1. PICK c \in Live : \E p \in PinsOf(c) : \E v \in 1..Latest(pins[p].type) : \E m, flaws :
          /\ Ready(q, "updatePin") /\ \E role \in Roles : EditAllowed(c, role)
          /\ StartCV(q, PinRequest(p, v, m), flaws)
    BY DEF UpdatePin
  <1>2. PICK p \in PinsOf(c) : \E v \in 1..Latest(pins[p].type) : \E m, flaws :
          /\ Ready(q, "updatePin") /\ \E role \in Roles : EditAllowed(c, role)
          /\ StartCV(q, PinRequest(p, v, m), flaws)
    BY <1>1
  <1>3. PICK v \in 1..Latest(pins[p].type) : \E m, flaws :
          /\ Ready(q, "updatePin") /\ \E role \in Roles : EditAllowed(c, role)
          /\ StartCV(q, PinRequest(p, v, m), flaws)
    BY <1>2
  <1>11. PICK m, flaws :
          /\ Ready(q, "updatePin") /\ \E role \in Roles : EditAllowed(c, role)
          /\ StartCV(q, PinRequest(p, v, m), flaws)
    BY <1>3
  <1>4. PICK s : s = PinRequest(p, v, m)
    OBVIOUS
  <1>5. p \in Pins /\ pins[p] \in Pin /\ pins[p].cv = c /\ pins[p].type \in Types
    BY PinTyped
  <1>6. s.op = "updatePin" /\ s.pc = "remap" /\ s.cv = pins[p].cv /\ s.pin = p
        /\ s.new = [pins[p] EXCEPT !.ver = v]
    BY <1>4 DEF PinRequest, NewCV
  <1>7. s.new.cv = c /\ s.new.type = pins[p].type /\ s.new.ver = v
    BY <1>5, <1>6 DEF Pin
  <1>8. Opens(q, s) /\ cv' = cv
    BY <1>11, <1>4, StartCVOpens
  <1>9. cv[c].stage # "production"
    BY <1>11 DEF EditAllowed
  <1>10. Has(pins[p].type, v)
    BY <1>3 DEF Has
  <1>12. Has(s.new.type, s.new.ver) /\ s.new.type \in Types /\ s.cv = c /\ s.pin \in PinsOf(c)
    BY <1>5, <1>6, <1>7, <1>10
  <1>. QED BY <1>6, <1>7, <1>8, <1>9, <1>12

-----------------------------------------------------------------------------
(***************************************************************************)
(* Only ListCatalogs and ResetCatalog leave a request at the resets, and   *)
(* no catalog is removed.                                                  *)
(***************************************************************************)
LEMMA BuiltStays ==
  ASSUME SchemaInv, TypeInv, NEW q \in Reqs, VersionsMove(q)
  PROVE  Built \subseteq Built'
  <1>1. CASE CreateCatalog(q)
    <2>1. PICK k \in Catalogs, c \in Live :
            catalogs' = [catalogs EXCEPT ![k] = [cv |-> c, status |-> "draft", checked |-> {}]]
      BY <1>1 DEF CreateCatalog
    <2>2. [cv |-> c, status |-> "draft", checked |-> {}] \in Catalog
      BY LiveVersion DEF Catalog
    <2>. QED BY <2>1, <2>2 DEF Built, TypeInv, CVTables
  <1>2. CASE Validate(q)
    <2>1. PICK k \in Catalogs, verdict \in {"valid", "invalid"} :
            catalogs' = [catalogs EXCEPT ![k].status = verdict,
                                         ![k].checked = PinnedVersions(catalogs[k].cv)]
      BY <1>2 DEF Validate
    <2>2. PinnedVersions(catalogs[k].cv) \subseteq Types \X Nat
      BY PinTyped DEF PinnedVersions, Pin
    <2>3. PICK P \in SUBSET (Types \X Nat) : P = PinnedVersions(catalogs[k].cv)
      BY <2>2
    <2>4. \A x \in Catalog : [x EXCEPT !.status = verdict, !.checked = P] \in Catalog
      BY DEF Catalog
    <2>5. catalogs' = [catalogs EXCEPT ![k] = [catalogs[k] EXCEPT !.status = verdict, !.checked = P]]
      BY <2>1, <2>3 DEF TypeInv, CVTables
    <2>. QED BY <2>4, <2>5 DEF Built, TypeInv, CVTables
  <1>3. CASE SetValue(q) \/ ResetCatalog(q)
    <2>1. PICK k : catalogs' = [catalogs EXCEPT ![k].status = "draft"]
      BY <1>3 DEF SetValue, ResetCatalog
    <2>. QED BY <2>1, CatalogReset DEF Built, TypeInv, CVTables
  <1>4. CASE Commit(q)
    BY <1>4, CatalogReset DEF Commit, Built, TypeInv, CVTables
  <1>5. CASE ~(CreateCatalog(q) \/ Validate(q) \/ SetValue(q) \/ ResetCatalog(q) \/ Commit(q))
    <2>1. catalogs' = catalogs
      BY <1>5 DEF VersionsMove, CreateCatalogVersion, InsertPins, Promote, Demote, WriteStage,
                  WriteLog, WriteCR, DeleteCatalogVersion, DropRow, DropCR, UpdateCatalogVersion,
                  SaveCV, AddPin, InsertPin, RemovePin, DropPin, ListCatalogs, UpdatePin, Remap,
                  SavePin, CVFail, StartCV, catalogVars
    <2>. QED BY <2>1 DEF Built
  <1>. QED BY <1>1, <1>2, <1>3, <1>4, <1>5

LEMMA ListStep ==
  ASSUME SchemaInv, ListInv, NEW q \in Reqs, NEW r, req' = [req EXCEPT ![q] = r],
         Built \subseteq Built', r.op \in CVOps /\ r.pc = "reset" => r.cats \subseteq Built'
  PROVE  ListInv'
  <1>. SUFFICES ASSUME NEW p \in Reqs PROVE Listed(req[p])'
    BY DEF ListInv
  <1>1. CASE p = q
    BY <1>1 DEF SchemaInv, Requested, Listed
  <1>2. CASE p # q
    BY <1>2 DEF SchemaInv, Requested, ListInv, Listed
  <1>. QED BY <1>1, <1>2

(***************************************************************************)
(* What a statement makes of its request.                                  *)
(***************************************************************************)
Same(o, s) ==
    /\ s.op = o.op /\ s.cv = o.cv /\ s.new = o.new /\ s.pin = o.pin
    /\ s.from = o.from /\ s.to = o.to /\ s.row = o.row /\ s.todo \subseteq o.todo

Statement(q) ==
    \/ InsertPins(q) \/ WriteStage(q) \/ WriteLog(q) \/ WriteCR(q) \/ DropRow(q) \/ DropCR(q)
    \/ SaveCV(q) \/ InsertPin(q) \/ DropPin(q) \/ Remap(q) \/ SavePin(q) \/ Commit(q) \/ CVFail(q)

LEMMA StatementOf ==
  ASSUME SchemaInv, TypeInv, NEW q \in Reqs, Statement(q) \/ ListCatalogs(q) \/ ResetCatalog(q)
  PROVE  req[q].op \in CVOps /\ Shaped(req[q]) /\ req[q] \in CVRequest /\ req[q] # Idle
  <1>1. req[q].op \in CVOps \/ req[q].pc \in {"stage", "log", "cr", "list", "reset"}
    BY DEF Statement, InsertPins, WriteStage, WriteLog, WriteCR, DropRow, DropCR, SaveCV,
           InsertPin, DropPin, Remap, SavePin, Commit, CVFail, AtCV, CVOps, ListCatalogs,
           ResetCatalog
  <1>2. req[q].op \in CVOps /\ Shaped(req[q]) /\ req[q] \in CVRequest
    BY <1>1, AtStatement
  <1>3. req[q] # Idle
    BY <1>2 DEF Idle, CVOps
  <1>. QED BY <1>2, <1>3

LEMMA GoesOnTo ==
  ASSUME NEW q \in Reqs, NEW o, o = req[q], Shaped(o), Goto(q, "log") \/ Goto(q, "cr")
           \/ Goto(q, "dropCR") \/ Goto(q, "list") \/ Goto(q, "commit")
  PROVE  \E s : /\ req' = [req EXCEPT ![q] = s] /\ Same(o, s) /\ Goto(q, s.pc)
                /\ s.pc \in {"log", "cr", "dropCR", "list", "commit"} /\ s.cells = o.cells
                /\ s.cats = o.cats
  <1>1. PICK pc \in {"log", "cr", "dropCR", "list", "commit"} : Goto(q, pc)
    OBVIOUS
  <1>. DEFINE s == [o EXCEPT !.pc = pc]
  <1>2. Same(o, s) /\ s.pc = pc /\ s.cells = o.cells /\ s.cats = o.cats
    BY Went DEF Same
  <1>3. req' = [req EXCEPT ![q] = s]
    BY <1>1 DEF Goto
  <1>. HIDE DEF s
  <1>. QED BY <1>1, <1>2, <1>3

LEMMA StatementGoes ==
  ASSUME SchemaInv, TypeInv, NEW q \in Reqs, NEW o, o = req[q], Statement(q)
  PROVE  \E s : /\ req' = [req EXCEPT ![q] = s]
                /\ s = Idle \/ (Same(o, s) /\ s.pc # "reset")
  <1>1. CASE Finish(q)
    BY <1>1 DEF Finish
  <1>2. CASE \E pc \in {"log", "cr", "dropCR", "list", "commit"} : Goto(q, pc)
    BY <1>2, StatementOf, GoesOnTo
  <1>3. CASE InsertPins(q)
    <2>1. \/ Finish(q) \/ Goto(q, "log")
          \/ \E x : req' = [req EXCEPT ![q] = Inserted(o, x)]
      BY <1>3 DEF InsertPins
    <2>2. CASE \E x : req' = [req EXCEPT ![q] = Inserted(o, x)]
      <3>1. PICK x : req' = [req EXCEPT ![q] = Inserted(o, x)]
        BY <2>2
      <3>2. o \in CVRequest /\ o.pc = "pins"
        BY <1>3, AtStatement DEF InsertPins, AtCV, CVOps
      <3>. DEFINE s == Inserted(o, x)
      <3>3. req' = [req EXCEPT ![q] = s]
        BY <3>1
      <3>4. s.todo \subseteq o.todo
        <4>1. s.todo = (IF x \in o.again THEN o.todo ELSE o.todo \ {x})
          BY <3>2, InsertedTyped
        <4>. QED BY <4>1
      <3>5. s.op = o.op /\ s.cv = o.cv /\ s.new = o.new /\ s.pin = o.pin /\ s.from = o.from
            /\ s.to = o.to /\ s.row = o.row /\ s.pc = "pins"
        BY <3>2, InsertedTyped
      <3>. HIDE DEF s
      <3>. QED BY <3>3, <3>4, <3>5 DEF Same
    <2>. QED BY <1>1, <1>2, <2>1, <2>2
  <1>4. CASE Remap(q)
    <2>1. req' = [req EXCEPT ![q] = Idle]
          \/ \E moved : req' = [req EXCEPT ![q] = [o EXCEPT !.cells = moved, !.pc = "savePin"]]
      BY <1>4 DEF Remap
    <2>2. CASE \E moved : req' = [req EXCEPT ![q] = [o EXCEPT !.cells = moved, !.pc = "savePin"]]
      <3>1. PICK moved : req' = [req EXCEPT ![q] = [o EXCEPT !.cells = moved, !.pc = "savePin"]]
        BY <2>2
      <3>2. o \in CVRequest
        BY <1>4, AtStatement DEF Remap, AtCV, CVOps
      <3>. DEFINE s == [o EXCEPT !.cells = moved, !.pc = "savePin"]
      <3>3. Same(o, s) /\ s.pc = "savePin"
        BY <3>2 DEF CVRequest, Same
      <3>. HIDE DEF s
      <3>. QED BY <3>1, <3>3 DEF s
    <2>. QED BY <2>1, <2>2
  <1>5. \/ Finish(q) \/ \E pc \in {"log", "cr", "dropCR", "list", "commit"} : Goto(q, pc)
        \/ InsertPins(q) \/ Remap(q)
    BY DEF Statement, WriteStage, WriteLog, WriteCR, DropRow, DropCR, SaveCV, InsertPin, DropPin,
           SavePin, Commit, CVFail
  <1>. QED BY <1>1, <1>2, <1>3, <1>4, <1>5

(***************************************************************************)
(* resetDependentCatalogs: the request keeps what it is about.             *)
(***************************************************************************)
LEMMA ListGoes ==
  ASSUME SchemaInv, TypeInv, NEW q \in Reqs, NEW o, o = req[q], ListCatalogs(q) \/ ResetCatalog(q)
  PROVE  \E s : /\ req' = [req EXCEPT ![q] = s]
                /\ s = Idle \/ (Same(o, s) /\ s.pc = "reset")
  <1>1. o \in CVRequest
    BY StatementOf
  <1>2. CASE ListCatalogs(q)
    <2>1. PICK cats : req' = [req EXCEPT ![q] = IF cats = {} THEN Idle
                                                  ELSE [o EXCEPT !.cats = cats, !.pc = "reset"]]
      BY <1>2 DEF ListCatalogs
    <2>. DEFINE s == [o EXCEPT !.cats = cats, !.pc = "reset"]
    <2>2. Same(o, s) /\ s.pc = "reset"
      BY <1>1 DEF CVRequest, Same
    <2>. HIDE DEF s
    <2>. QED BY <2>1, <2>2 DEF s
  <1>3. CASE ResetCatalog(q)
    <2>1. PICK k : req' = [req EXCEPT ![q] = IF o.cats = {k} THEN Idle
                                               ELSE [o EXCEPT !.cats = o.cats \ {k}]]
      BY <1>3 DEF ResetCatalog
    <2>. DEFINE s == [o EXCEPT !.cats = o.cats \ {k}]
    <2>2. Same(o, s) /\ s.pc = "reset"
      BY <1>1, <1>3 DEF CVRequest, Same, ResetCatalog
    <2>. HIDE DEF s
    <2>. QED BY <2>1, <2>2 DEF s
  <1>. QED BY <1>2, <1>3

LEMMA MovesListed ==
  ASSUME SchemaInv, TypeInv, ListInv, NEW q \in Reqs, VersionsMove(q)
  PROVE  ListInv'
  <1>0. Built \subseteq Built'
    BY BuiltStays
  <1>1. CASE \E s : Opens(q, s) /\ s.pc # "reset"
    BY <1>0, <1>1, ListStep DEF Opens
  <1>2. CASE Statement(q)
    <2>1. PICK s : req' = [req EXCEPT ![q] = s] /\ (s = Idle \/ s.pc # "reset")
      BY <1>2, StatementGoes
    <2>. QED BY <1>0, <2>1, ListStep DEF Idle
  <1>3. CASE ListCatalogs(q)
    <2>. DEFINE o == req[q]
                cats == {k \in BuiltOn(o.cv) : catalogs[k].status # "draft"}
                s == IF cats = {} THEN Idle ELSE [o EXCEPT !.cats = cats, !.pc = "reset"]
    <2>1. req' = [req EXCEPT ![q] = s]
      BY <1>3 DEF ListCatalogs
    <2>2. o \in CVRequest
      BY <1>3, AtStatement DEF ListCatalogs
    <2>3. cats \subseteq Built
      BY DEF BuiltOn, Built, TypeInv, CVTables
    <2>4. s.pc = "reset" => s.cats = cats
      BY <2>2 DEF Idle, CVRequest
    <2>. HIDE DEF s, cats
    <2>. QED BY <1>0, <2>1, <2>3, <2>4, ListStep
  <1>4. CASE ResetCatalog(q)
    <2>1. PICK k : req' = [req EXCEPT ![q] = IF req[q].cats = {k} THEN Idle
                                               ELSE [req[q] EXCEPT !.cats = req[q].cats \ {k}]]
      BY <1>4 DEF ResetCatalog
    <2>2. req[q] \in CVRequest /\ req[q].cats \subseteq Built
      BY <1>4, AtStatement DEF ResetCatalog, ListInv, Listed
    <2>3. PICK o : o = req[q]
      OBVIOUS
    <2>. DEFINE s == IF o.cats = {k} THEN Idle ELSE [o EXCEPT !.cats = o.cats \ {k}]
    <2>4. req' = [req EXCEPT ![q] = s]
      BY <2>1, <2>3
    <2>5. s = Idle \/ s.cats \subseteq o.cats
      BY <2>2, <2>3 DEF CVRequest
    <2>. HIDE DEF s
    <2>. QED BY <1>0, <2>2, <2>3, <2>4, <2>5, ListStep DEF Idle
  <1>5. CASE CreateCatalog(q) \/ Validate(q) \/ SetValue(q)
    <2>1. req' = req
      BY <1>5 DEF CreateCatalog, Validate, SetValue, Whole
    <2>. QED BY <1>0, <2>1 DEF ListInv, Listed
  <1>6. CASE \/ CreateCatalogVersion(q) \/ Promote(q) \/ Demote(q) \/ DeleteCatalogVersion(q)
             \/ UpdateCatalogVersion(q) \/ AddPin(q) \/ RemovePin(q) \/ UpdatePin(q)
    <2>1. \E s : Opens(q, s) /\ s.pc # "reset"
      <3>1. CASE CreateCatalogVersion(q)
        BY <3>1, CreateOpens
      <3>2. CASE Promote(q) \/ Demote(q)
        BY <3>2, MoveOpens
      <3>3. CASE DeleteCatalogVersion(q)
        BY <3>3, DeleteOpens
      <3>4. CASE UpdateCatalogVersion(q)
        BY <3>4, UpdateOpens
      <3>5. CASE AddPin(q)
        BY <3>5, AddPinOpens
      <3>6. CASE RemovePin(q)
        BY <3>6, RemovePinOpens
      <3>7. CASE UpdatePin(q)
        BY <3>7, UpdatePinOpens
      <3>. QED BY <1>6, <3>1, <3>2, <3>3, <3>4, <3>5, <3>6, <3>7
    <2>. QED BY <1>1, <2>1
  <1>. QED BY <1>2, <1>3, <1>4, <1>5, <1>6 DEF VersionsMove, Statement

LEMMA VersionsMoveTyped ==
  ASSUME SchemaInv, TypeInv, ListInv, NEW q \in Reqs, VersionsMove(q)
  PROVE  TypeInv'
  BY CreateCatalogVersionTyped, InsertPinsTyped, StageMoveTyped, WriteStageTyped, WriteLogTyped,
     WriteCRTyped, DeleteCatalogVersionTyped, DropRowTyped, DropCRTyped, UpdateCatalogVersionTyped,
     SaveCVTyped, AddPinTyped, PinWritesTyped, RemovePinTyped, ListCatalogsTyped,
     ResetCatalogTyped, UpdatePinTyped, RemapTyped, CommitTyped, WholeTyped, CVFailTyped
  DEF VersionsMove

TypedInv == SchemaInv /\ TypeInv /\ ListInv

LEMMA TypedStart == Init => TypedInv
  <1>. SUFFICES ASSUME Init PROVE TypedInv
    OBVIOUS
  <1>1. SchemaInv
    BY SchemaStart
  <1>2. \A q \in Reqs : req[q] = Idle
    BY DEF Init, TypesInit
  <1>3. << >> \in Seq(Transition)
    OBVIOUS
  <1>4. CVTables /\ trouble \subseteq Troubles
    BY <1>3 DEF Init, TypesInit, CVTables
  <1>5. ListInv
    BY <1>2 DEF ListInv, Listed, Idle, CVOps
  <1>. QED BY <1>1, <1>2, <1>4, <1>5, IdleTyped DEF TypedInv, TypeInv

LEMMA TypesPinned ==
  ASSUME SchemaInv, NEW q \in Reqs, TypesMove(q)
  PROVE  cv' = cv /\ pins' = pins
  <1>1. CASE EditBegun(q)
    BY <1>1 DEF EditBegun, StartEdit, pinned
  <1>2. CASE \/ CreateVersion(q) \/ CopyAttrs(q) \/ CopyAssocs(q) \/ InsertAttr(q) \/ Renumber(q)
             \/ InsertType(q) \/ ReadType(q) \/ SaveType(q) \/ DeleteEntityType(q)
             \/ InsertDef(q) \/ InsertDefVersion(q) \/ DropDef(q) \/ Fail(q)
    BY <1>2 DEF CreateVersion, CopyAttrs, CopyAssocs, InsertAttr, Renumber, InsertType, ReadType,
                SaveType, DeleteEntityType, InsertDef, InsertDefVersion, DropDef, Fail, pinned
  <1>3. CASE DropAttr(q) \/ SetAttr(q) \/ InsertAssoc(q) \/ SetAssoc(q) \/ DropAssoc(q)
    BY <1>3 DEF DropAttr, SetAttr, InsertAssoc, SetAssoc, DropAssoc, Changing, pinned
  <1>4. CASE \/ ReorderAttributes(q) \/ CreateEntityType(q) \/ CopyEntityType(q)
             \/ RenameEntityType(q) \/ CreateTypeDefinition(q) \/ UpdateTypeDefinition(q)
             \/ DeleteTypeDefinition(q)
    BY <1>4 DEF ReorderAttributes, CreateEntityType, CopyEntityType, RenameEntityType,
                CreateTypeDefinition, UpdateTypeDefinition, DeleteTypeDefinition, pinned
  <1>. QED BY <1>1, <1>2, <1>3, <1>4, EditsBegin DEF TypesMove

LEMMA TypesMoveListed ==
  ASSUME SchemaInv, TypeInv, ListInv, NEW q \in Reqs, TypesMove(q), catalogs' = catalogs
  PROVE  ListInv'
  <1>0. Built' = Built
    BY DEF Built
  <1>1. CASE SchemaMoves(q)
    <2>1. PICK r : req' = [req EXCEPT ![q] = r] /\ (r = Idle \/ r.op \in SchemaOps)
      BY <1>1 DEF SchemaMoves
    <2>2. r.op \notin CVOps
      BY <2>1 DEF Idle, SchemaOps, EditOps, CVOps
    <2>. QED BY <1>0, <2>1, <2>2, ListStep
  <1>2. CASE DeleteEntityType(q)
    BY <1>0, <1>2 DEF DeleteEntityType, ListInv, Listed
  <1>. QED BY <1>1, <1>2, TypesMoves

LEMMA TypedNext ==
  ASSUME TypedInv, [Next]_vars
  PROVE  TypedInv'
  <1>1. SchemaInv'
    BY SchemaNext DEF TypedInv
  <1>2. CASE TypesNext /\ UNCHANGED <<log, crs, catalogVars>>
    <2>1. PICK q \in Reqs : TypesMove(q)
      BY <1>2, MovesOf
    <2>2. cv' = cv /\ pins' = pins
      BY <2>1, TypesPinned DEF TypedInv
    <2>. QED BY <1>1, <1>2, <2>1, <2>2, TypesNextTyped, TypesMoveListed DEF TypedInv, catalogVars
  <1>3. CASE VersionsNext
    <2>1. PICK q \in Reqs : VersionsMove(q)
      BY <1>3, MovesOf
    <2>. QED BY <1>1, <2>1, VersionsMoveTyped, MovesListed DEF TypedInv
  <1>4. CASE UNCHANGED vars
    <2>1. UNCHANGED <<cv, pins, log, crs, catalogs, cells, trouble, req>>
      BY <1>4 DEF vars, versionVars, catalogVars
    <2>2. CVTables'
      BY <2>1, TablesSame DEF TypedInv, TypeInv
    <2>3. TypeInv'
      BY <2>1, <2>2, TypedSame DEF TypedInv, TypeInv
    <2>4. ListInv'
      BY <2>1 DEF TypedInv, ListInv, Listed, Built
    <2>. QED BY <1>1, <2>3, <2>4 DEF TypedInv
  <1>. QED BY <1>2, <1>3, <1>4 DEF Next

LEMMA TypedIsOK == TypedInv => SchemaTypeOK
  <1>. SUFFICES ASSUME TypedInv PROVE SchemaTypeOK
    OBVIOUS
  <1>1. versions \in [Types -> Seq(Content)]
    <2>1. Finite \subseteq Content
      BY DEF Finite
    <2>2. Seq(Finite) \subseteq Seq(Content)
      BY <2>1
    <2>. QED BY <2>2 DEF TypedInv, SchemaInv, Tables
  <1>2. \A q \in Reqs : req[q] = Idle \/ (req[q].op \in SchemaOps => req[q] \in Request)
    BY RequestKnown DEF TypedInv
  <1>3. TypesOK
    BY <1>1, <1>2 DEF TypesOK, TypedInv, SchemaInv, Tables
  <1>4. \A q \in Reqs : req[q].op \in CVOps => req[q] \in CVRequest
    BY AtStatement DEF TypedInv
  <1>. QED BY <1>3, <1>4 DEF SchemaTypeOK, TypedInv, TypeInv, CVTables, Troubles, Transition, Resource

(***************************************************************************)
(* The tables and the requests of CatalogVersionService and of the schema  *)
(* services keep their form under every interleaving: a pin always names a *)
(* catalog version and a type, the log entries two stages, a request what  *)
(* its next statement needs.                                               *)
(***************************************************************************)
THEOREM VersionsTyped == Spec => []SchemaTypeOK
  BY TypedStart, TypedNext, TypedIsOK, PTL DEF Spec

-----------------------------------------------------------------------------
(***************************************************************************)
(* What the schema services do to the types under the pins: versions are   *)
(* only added, and a type with versions has a name, until it is deleted.   *)
(***************************************************************************)
HasNamed == \A t \in Types : Latest(t) > 0 => t \in Named

Grows == \A t \in Types : Latest(t) <= Latest(t)'

LEMMA ContentKeeps ==
  ASSUME Tables, Tables', NEW r, NEW c, SetContent(r, c)
  PROVE  \A t \in Types : Latest(t)' = Latest(t)
  <1>. SUFFICES ASSUME NEW t \in Types PROVE Latest(t)' = Latest(t)
    OBVIOUS
  <1>1. /\ DOMAIN versions[t] = 1..Latest(t) /\ Latest(t) \in Nat
        /\ DOMAIN versions'[t] = 1..Latest(t)' /\ Latest(t)' \in Nat
    BY DEF Tables, Latest
  <1>2. DOMAIN versions'[t] = DOMAIN versions[t]
    BY DEF SetContent, Tables
  <1>. QED BY <1>1, <1>2

LEMMA SchemaKept ==
  ASSUME HasNamed, SchemaInv, UNCHANGED schema
  PROVE  HasNamed' /\ Grows /\ \A t \in Named : types'[t] = types[t]
  BY LatestNat DEF HasNamed, Grows, Latest, Named, schema, SchemaInv

LEMMA ContentGrows ==
  ASSUME SchemaInv, SchemaInv', HasNamed, types' = types, NEW r, NEW c, SetContent(r, c)
  PROVE  HasNamed' /\ Grows /\ \A t \in Named : types'[t] = types[t]
  BY ContentKeeps, LatestNat DEF SchemaInv, HasNamed, Grows, Named

LEMMA StatementsGrow ==
  ASSUME SchemaInv, HasNamed, NEW q \in Reqs,
         \/ CreateVersion(q) \/ CopyAttrs(q) \/ CopyAssocs(q) \/ InsertAttr(q)
         \/ DropAttr(q) \/ SetAttr(q) \/ InsertAssoc(q) \/ SetAssoc(q) \/ DropAssoc(q)
         \/ Renumber(q) \/ InsertType(q) \/ SaveType(q)
  PROVE  /\ HasNamed' /\ Grows
         /\ SaveType(q) \/ \A t \in Named : types'[t] = types[t]
  <1>0. SchemaInv'
    BY CreateVersionStep, CopyAttrsStep, CopyAssocsStep, InsertAttrStep, DropAttrStep,
       SetAttrStep, InsertAssocStep, SetAssocStep, DropAssocStep, RenumberStep, InsertTypeStep,
       SaveTypeStep
  <1>1. CASE CreateVersion(q)
    <2>. DEFINE r == req[q]
    <2>1. types' = types
      BY <1>1 DEF CreateVersion
    <2>2. \/ versions' = versions
          \/ r.type \in Named /\ versions' = [versions EXCEPT ![r.type] = Append(versions[r.type], Empty)]
      BY <1>1 DEF CreateVersion
    <2>3. CASE versions' = versions
      BY <2>1, <2>3, SchemaKept DEF schema
    <2>4. CASE r.type \in Named
               /\ versions' = [versions EXCEPT ![r.type] = Append(versions[r.type], Empty)]
      <3>1. PICK t \in Named : versions' = [versions EXCEPT ![t] = Append(versions[t], Empty)]
        BY <2>4
      <3>2. t \in Types /\ versions[t] \in Seq(Finite)
        BY DEF Named, SchemaInv, Tables
      <3>3. Len(Append(versions[t], Empty)) = Len(versions[t]) + 1
        BY <3>2, EmptyFinite, AppendToSeq
      <3>4. Latest(t)' = Latest(t) + 1
        BY <3>1, <3>2, <3>3 DEF Latest, SchemaInv, Tables
      <3>5. \A u \in Types \ {t} : Latest(u)' = Latest(u)
        BY <3>1 DEF Latest, SchemaInv, Tables
      <3>6. Named' = Named
        BY <2>1 DEF Named
      <3>7. \A u \in Types : Latest(u) \in Nat
        BY LatestNat DEF SchemaInv
      <3>8. HasNamed'
        BY <3>4, <3>5, <3>6 DEF HasNamed
      <3>9. Grows
        BY <3>4, <3>5, <3>7 DEF Grows
      <3>. QED BY <2>1, <3>8, <3>9
    <2>. QED BY <2>2, <2>3, <2>4
  <1>2. CASE CopyAttrs(q) \/ CopyAssocs(q) \/ Renumber(q)
    <2>1. types' = types /\ \E r, c : SetContent(r, c)
      BY <1>2 DEF CopyAttrs, CopyAssocs, Renumber
    <2>. QED BY <1>0, <2>1, ContentGrows
  <1>3. CASE InsertAttr(q)
    <2>1. types' = types /\ (versions' = versions \/ \E r, c : SetContent(r, c))
      BY <1>3 DEF InsertAttr
    <2>. QED BY <1>0, <2>1, ContentGrows, SchemaKept DEF schema
  <1>4. CASE DropAttr(q) \/ SetAttr(q) \/ InsertAssoc(q) \/ SetAssoc(q) \/ DropAssoc(q)
    <2>1. types' = types
      BY <1>4 DEF DropAttr, SetAttr, InsertAssoc, SetAssoc, DropAssoc, Changing
    <2>2. \E r, c : SetContent(r, c)
      BY <1>4 DEF DropAttr, SetAttr, InsertAssoc, SetAssoc, DropAssoc
    <2>. QED BY <1>0, <2>1, <2>2, ContentGrows
  <1>5. CASE InsertType(q)
    <2>1. req[q].typeName \in TypeNames
      BY <1>5, RequestKnown DEF InsertType, At, Fits
    <2>2. /\ versions' = versions
          /\ types' = types \/ \E t \in Types : types[t] = Unborn
                                 /\ types' = [types EXCEPT ![t] = req[q].typeName]
      BY <1>5 DEF InsertType
    <2>3. \A t \in Named : types'[t] = types[t]
      BY <2>2, SchemaAssumption DEF Named, SchemaInv, Tables
    <2>4. Named \subseteq Named'
      BY <2>3 DEF Named
    <2>5. \A t \in Types : Latest(t)' = Latest(t) /\ Latest(t) \in Nat
      BY <2>2, LatestNat DEF Latest, SchemaInv
    <2>. QED BY <2>3, <2>4, <2>5 DEF HasNamed, Grows
  <1>6. CASE SaveType(q)
    <2>1. req[q].typeName \in TypeNames
      BY <1>6, RequestKnown DEF SaveType, At, Fits
    <2>2. /\ versions' = versions
          /\ types' = types \/ types' = [types EXCEPT ![req[q].type] = req[q].typeName]
      BY <1>6 DEF SaveType
    <2>. QED BY <1>6, <2>1, <2>2, LatestNat DEF HasNamed, Grows, Latest, Named, SchemaInv, Tables
  <1>. QED BY <1>1, <1>2, <1>3, <1>4, <1>5, <1>6

LEMMA TypesGrow ==
  ASSUME SchemaInv, HasNamed, NEW q \in Reqs, TypesMove(q)
  PROVE  /\ HasNamed'
         /\ "deleted" \in trouble' \/ Grows
         /\ "deleted" \in trouble' \/ SaveType(q) \/ \A t \in Named : types'[t] = types[t]
  <1>1. CASE EditBegun(q)
    BY <1>1, SchemaKept DEF EditBegun, StartEdit
  <1>2. CASE \/ ReorderAttributes(q) \/ CreateEntityType(q) \/ CopyEntityType(q)
             \/ RenameEntityType(q) \/ CreateTypeDefinition(q) \/ UpdateTypeDefinition(q)
             \/ DeleteTypeDefinition(q) \/ ReadType(q) \/ InsertDef(q) \/ InsertDefVersion(q)
             \/ DropDef(q) \/ Fail(q)
    <2>1. UNCHANGED schema
      BY <1>2 DEF ReorderAttributes, CreateEntityType, CopyEntityType, RenameEntityType,
                  CreateTypeDefinition, UpdateTypeDefinition, DeleteTypeDefinition, ReadType,
                  InsertDef, InsertDefVersion, DropDef, Fail
    <2>. QED BY <2>1, SchemaKept
  <1>3. CASE DeleteEntityType(q)
    <2>1. PICK t \in Named : /\ types' = [types EXCEPT ![t] = Gone]
                             /\ versions' = [versions EXCEPT ![t] = << >>]
                             /\ Note({"deleted"})
      BY <1>3 DEF DeleteEntityType
    <2>2. "deleted" \in trouble'
      BY <2>1 DEF Note
    <2>3. HasNamed'
      BY <2>1 DEF HasNamed, Latest, Named, SchemaInv, Tables
    <2>. QED BY <2>2, <2>3
  <1>. QED BY <1>1, <1>2, <1>3, EditsBegin, StatementsGrow DEF TypesMove

-----------------------------------------------------------------------------
(***************************************************************************)
(* What there is: who writes which table; a pin names a catalog version    *)
(* that was created, a catalog is built on one, a version without a row    *)
(* has no log.                                                             *)
(***************************************************************************)
LEMMA Writers ==
  ASSUME NEW q \in Reqs, VersionsMove(q)
  PROVE  /\ UNCHANGED <<types, versions, defs, defVers>> /\ trouble \subseteq trouble'
         /\ cv' = cv \/ CreateCatalogVersion(q) \/ WriteStage(q) \/ DropRow(q) \/ SaveCV(q)
         /\ pins' = pins \/ InsertPins(q) \/ DropRow(q) \/ InsertPin(q) \/ DropPin(q) \/ SavePin(q)
         /\ log' = log \/ WriteLog(q) \/ DropRow(q)
         /\ crs' = crs \/ WriteCR(q) \/ DropCR(q)
         /\ catalogs' = catalogs \/ ResetCatalog(q) \/ Commit(q) \/ CreateCatalog(q)
              \/ Validate(q) \/ SetValue(q)
  <1>1. UNCHANGED <<types, versions, defs, defVers>> /\ trouble \subseteq trouble'
    BY DEF VersionsMove, CreateCatalogVersion, InsertPins, Promote, Demote, WriteStage,
           WriteLog, WriteCR, DeleteCatalogVersion, DropRow, DropCR, UpdateCatalogVersion,
           SaveCV, AddPin, InsertPin, RemovePin, DropPin, ListCatalogs, ResetCatalog, UpdatePin,
           Remap, SavePin, Commit, CreateCatalog, Validate, SetValue, Whole, CVFail, StartCV,
           Start, Note, schema, definitions
  <1>2. cv' = cv \/ CreateCatalogVersion(q) \/ WriteStage(q) \/ DropRow(q) \/ SaveCV(q)
    BY DEF VersionsMove, InsertPins, Promote, Demote,
           WriteLog, WriteCR, DeleteCatalogVersion, DropCR, UpdateCatalogVersion,
           AddPin, InsertPin, RemovePin, DropPin, ListCatalogs, ResetCatalog, UpdatePin,
           Remap, SavePin, Commit, CreateCatalog, Validate, SetValue, Whole, CVFail, StartCV,
           versionVars
  <1>3. pins' = pins \/ InsertPins(q) \/ DropRow(q) \/ InsertPin(q) \/ DropPin(q) \/ SavePin(q)
    BY DEF VersionsMove, CreateCatalogVersion, Promote, Demote, WriteStage,
           WriteLog, WriteCR, DeleteCatalogVersion, DropCR, UpdateCatalogVersion,
           SaveCV, AddPin, RemovePin, ListCatalogs, ResetCatalog, UpdatePin,
           Remap, Commit, CreateCatalog, Validate, SetValue, Whole, CVFail, StartCV,
           versionVars
  <1>4. log' = log \/ WriteLog(q) \/ DropRow(q)
    BY DEF VersionsMove, CreateCatalogVersion, InsertPins, Promote, Demote, WriteStage,
           WriteCR, DeleteCatalogVersion, DropCR, UpdateCatalogVersion,
           SaveCV, AddPin, InsertPin, RemovePin, DropPin, ListCatalogs, ResetCatalog, UpdatePin,
           Remap, SavePin, Commit, CreateCatalog, Validate, SetValue, Whole, CVFail, StartCV,
           versionVars
  <1>5. crs' = crs \/ WriteCR(q) \/ DropCR(q)
    BY DEF VersionsMove, CreateCatalogVersion, InsertPins, Promote, Demote, WriteStage,
           WriteLog, DeleteCatalogVersion, DropRow, UpdateCatalogVersion,
           SaveCV, AddPin, InsertPin, RemovePin, DropPin, ListCatalogs, ResetCatalog, UpdatePin,
           Remap, SavePin, Commit, CreateCatalog, Validate, SetValue, Whole, CVFail, StartCV,
           versionVars
  <1>6. catalogs' = catalogs \/ ResetCatalog(q) \/ Commit(q) \/ CreateCatalog(q)
          \/ Validate(q) \/ SetValue(q)
    BY DEF VersionsMove, CreateCatalogVersion, InsertPins, Promote, Demote, WriteStage,
           WriteLog, WriteCR, DeleteCatalogVersion, DropRow, DropCR, UpdateCatalogVersion,
           SaveCV, AddPin, InsertPin, RemovePin, DropPin, ListCatalogs, UpdatePin,
           Remap, SavePin, CVFail, StartCV, catalogVars
  <1>. QED BY <1>1, <1>2, <1>3, <1>4, <1>5, <1>6

CatalogsBuilt == \A k \in Catalogs : catalogs[k] # None => cv[catalogs[k].cv] # None
PinsBuilt == \A p \in Pins : pins[p] # None => cv[pins[p].cv] # None
LogQuiet == \A c \in CVs : cv[c] = None => log[c] = << >>

BaseInv == HasNamed /\ CatalogsBuilt /\ PinsBuilt /\ LogQuiet

LEMMA RowsAre ==
  /\ None \notin Version /\ None \notin Pin /\ None \notin Catalog
  /\ \A c \in CVs, s \in Stages : [source |-> c, stage |-> s] # None
  BY RowsAssumption

LEMMA CvStays ==
  ASSUME TypedInv, NEW q \in Reqs, VersionsMove(q), NEW c \in CVs, cv[c] # None
  PROVE  cv'[c] # None
  <1>1. CASE CreateCatalogVersion(q)
    <2>1. PICK d \in CVs : cv[d] = None /\ \E x : cv' = [cv EXCEPT ![d] = x]
      BY <1>1, CreateOpens
    <2>. QED BY <2>1 DEF TypedInv, TypeInv, CVTables
  <1>2. CASE WriteStage(q) \/ DropRow(q)
    <2>1. cv[c] \in Version
      BY DEF TypedInv, TypeInv, CVTables
    <2>6. ASSUME NEW y, cv'[c] = [cv[c] EXCEPT !.stage = y], req[q].to = y, WriteStage(q)
          PROVE  cv'[c] # None
      <3>1. y \in Stages
        BY <2>6, AtStatement DEF WriteStage, TypedInv, Shaped, CVOps
      <3>2. [cv[c] EXCEPT !.stage = y] \in Version
        BY <2>1, <3>1 DEF Version
      <3>. QED BY <2>6, <3>2, RowsAre
    <2>7. [cv[c] EXCEPT !.live = FALSE] \in Version
      BY <2>1 DEF Version
    <2>8. CASE WriteStage(q)
      <3>1. cv'[c] = cv[c] \/ cv'[c] = [cv[c] EXCEPT !.stage = req[q].to]
        BY <2>8 DEF WriteStage, TypedInv, TypeInv, CVTables
      <3>. QED BY <2>6, <2>8, <3>1
    <2>9. CASE DropRow(q)
      <3>1. cv'[c] = cv[c] \/ cv'[c] = [cv[c] EXCEPT !.live = FALSE]
        BY <2>9 DEF DropRow, TypedInv, TypeInv, CVTables
      <3>. QED BY <2>7, <3>1, RowsAre
    <2>. QED BY <1>2, <2>8, <2>9
  <1>3. CASE SaveCV(q)
    <2>1. req[q].row \in Version
      BY <1>3, AtStatement DEF SaveCV, AtCV, CVOps, TypedInv, Shaped
    <2>2. cv'[c] = cv[c] \/ cv'[c] = req[q].row
      BY <1>3 DEF SaveCV, TypedInv, TypeInv, CVTables
    <2>. QED BY <2>1, <2>2, RowsAre
  <1>. QED BY <1>1, <1>2, <1>3, Writers

LEMMA PinsFrom ==
  ASSUME TypedInv, NEW q \in Reqs, VersionsMove(q), NEW p \in Pins
  PROVE  /\ \/ pins'[p] = pins[p] \/ pins'[p] = None
            \/ /\ pins'[p] = req[q].new /\ req[q].new.cv \in Live /\ req[q].op \in {"addPin", "updatePin"}
            \/ /\ req[q].op = "createCV" /\ req[q].cv \in Live
               /\ \E x \in req[q].todo : pins'[p] = [cv |-> req[q].cv, type |-> x[1], ver |-> x[2]]
  <1>1. CASE InsertPins(q)
    <2>1. \/ pins' = pins
          \/ \E x \in req[q].todo, o \in Pins :
               LET pin == [cv |-> req[q].cv, type |-> x[1], ver |-> x[2]]
               IN PinAllowed(o, pin) /\ pins' = [pins EXCEPT ![o] = pin]
      BY <1>1 DEF InsertPins
    <2>2. CASE \E x \in req[q].todo, o \in Pins :
               LET pin == [cv |-> req[q].cv, type |-> x[1], ver |-> x[2]]
               IN PinAllowed(o, pin) /\ pins' = [pins EXCEPT ![o] = pin]
      <3>1. PICK x \in req[q].todo, o \in Pins :
               /\ PinAllowed(o, [cv |-> req[q].cv, type |-> x[1], ver |-> x[2]])
               /\ pins' = [pins EXCEPT ![o] = [cv |-> req[q].cv, type |-> x[1], ver |-> x[2]]]
        BY <2>2
      <3>2. req[q].cv \in Live
        BY <3>1 DEF PinAllowed
      <3>3. req[q].op = "createCV"
        BY <1>1 DEF InsertPins, AtCV
      <3>. QED BY <3>1, <3>2, <3>3 DEF TypedInv, TypeInv, CVTables
    <2>. QED BY <2>1, <2>2
  <1>2. CASE InsertPin(q) \/ SavePin(q)
    <2>1. req[q].op \in {"addPin", "updatePin"}
      BY <1>2 DEF InsertPin, SavePin, AtCV
    <2>2. \/ pins' = pins
          \/ \E o \in Pins : PinAllowed(o, req[q].new) /\ pins' = [pins EXCEPT ![o] = req[q].new]
      <3>1. req[q].op = "updatePin" => req[q].pin \in Pins
        BY <2>1, AtStatement DEF CVOps, Shaped, TypedInv
      <3>. QED BY <1>2, <3>1 DEF InsertPin, SavePin, AtCV
    <2>. QED BY <2>1, <2>2 DEF PinAllowed, TypedInv, TypeInv, CVTables
  <1>3. CASE DropPin(q) \/ DropRow(q)
    BY <1>3 DEF DropPin, DropRow, TypedInv, TypeInv, CVTables
  <1>. QED BY <1>1, <1>2, <1>3, Writers

LEMMA CatalogsFrom ==
  ASSUME TypedInv, NEW q \in Reqs, VersionsMove(q), NEW k \in Catalogs, catalogs'[k] # None
  PROVE  \/ catalogs[k] # None /\ catalogs'[k].cv = catalogs[k].cv
         \/ catalogs'[k].cv \in Live
  <1>1. CASE CreateCatalog(q)
    <2>1. PICK o \in Catalogs, c \in Live :
            catalogs' = [catalogs EXCEPT ![o] = [cv |-> c, status |-> "draft", checked |-> {}]]
      BY <1>1 DEF CreateCatalog
    <2>. QED BY <2>1 DEF TypedInv, TypeInv, CVTables
  <1>2. CASE Validate(q)
    <2>0. PICK o \in Catalogs : \E verdict, P :
            /\ catalogs[o] # None
            /\ catalogs' = [catalogs EXCEPT ![o].status = verdict, ![o].checked = P]
      BY <1>2 DEF Validate
    <2>1. PICK verdict, P :
            /\ catalogs[o] # None
            /\ catalogs' = [catalogs EXCEPT ![o].status = verdict, ![o].checked = P]
      BY <2>0
    <2>2. catalogs[o] \in Catalog
      BY <2>1 DEF TypedInv, TypeInv, CVTables
    <2>3. catalogs' = [catalogs EXCEPT ![o] = [catalogs[o] EXCEPT !.status = verdict, !.checked = P]]
      BY <2>1 DEF TypedInv, TypeInv, CVTables
    <2>. QED BY <2>1, <2>2, <2>3 DEF TypedInv, TypeInv, CVTables, Catalog
  <1>3. CASE SetValue(q) \/ ResetCatalog(q)
    <2>1. PICK o \in Catalogs : /\ catalogs[o] # None
                                /\ catalogs' = [catalogs EXCEPT ![o].status = "draft"]
      <3>1. CASE SetValue(q)
        BY <3>1 DEF SetValue
      <3>2. CASE ResetCatalog(q)
        <4>1. PICK o \in req[q].cats : catalogs' = [catalogs EXCEPT ![o].status = "draft"]
          BY <3>2 DEF ResetCatalog
        <4>2. o \in Built
          BY <3>2, <4>1, AtStatement DEF ResetCatalog, TypedInv, ListInv, Listed
        <4>. QED BY <4>1, <4>2, RowsAre DEF Built
      <3>. QED BY <1>3, <3>1, <3>2
    <2>2. catalogs[o] \in Catalog
      BY <2>1 DEF TypedInv, TypeInv, CVTables
    <2>. QED BY <2>1, <2>2 DEF TypedInv, TypeInv, CVTables, Catalog
  <1>4. CASE Commit(q)
    <2>1. catalogs'[k] = catalogs[k] \/ (catalogs[k] # None /\ catalogs'[k] = [catalogs[k] EXCEPT !.status = "draft"])
      BY <1>4 DEF Commit, BuiltOn
    <2>. QED BY <2>1 DEF TypedInv, TypeInv, CVTables, Catalog
  <1>. QED BY <1>1, <1>2, <1>3, <1>4, Writers

LEMMA LogFrom ==
  ASSUME TypedInv, NEW q \in Reqs, VersionsMove(q), NEW c \in CVs, c \notin Live
  PROVE  log'[c] = log[c]
  <1>1. CASE WriteLog(q)
    <2>1. log' = log \/ (req[q].cv \in Live /\ \E x : log' = [log EXCEPT ![req[q].cv] = x])
      BY <1>1 DEF WriteLog
    <2>. QED BY <2>1 DEF TypedInv, TypeInv, CVTables
  <1>2. CASE DropRow(q)
    <2>1. log' = log \/ (req[q].cv \in Live /\ \E x : log' = [log EXCEPT ![req[q].cv] = x])
      BY <1>2 DEF DropRow
    <2>. QED BY <2>1 DEF TypedInv, TypeInv, CVTables
  <1>. QED BY <1>1, <1>2, Writers

LEMMA BaseMove ==
  ASSUME TypedInv, BaseInv, NEW q \in Reqs, VersionsMove(q)
  PROVE  BaseInv'
  <1>0. TypeInv'
    BY VersionsMoveTyped DEF TypedInv
  <1>1. HasNamed'
    BY Writers DEF BaseInv, HasNamed, Named, Latest
  <1>2. CatalogsBuilt'
    <2>. SUFFICES ASSUME NEW k \in Catalogs, catalogs'[k] # None PROVE cv'[catalogs'[k].cv] # None
      BY DEF CatalogsBuilt
    <2>1. catalogs'[k] \in Catalog
      BY <1>0 DEF TypeInv, CVTables
    <2>2. cv[catalogs'[k].cv] # None
      BY CatalogsFrom DEF BaseInv, CatalogsBuilt, Live
    <2>. QED BY <2>1, <2>2, CvStays DEF Catalog
  <1>3. PinsBuilt'
    <2>. SUFFICES ASSUME NEW p \in Pins, pins'[p] # None PROVE cv'[pins'[p].cv] # None
      BY DEF PinsBuilt
    <2>1. pins'[p] \in Pin
      BY <1>0 DEF TypeInv, CVTables
    <2>2. CASE pins'[p] = pins[p]
      BY <2>2, <2>1, CvStays DEF BaseInv, PinsBuilt, Pin
    <2>3. CASE pins'[p].cv \in Live
      BY <2>3, <2>1, CvStays DEF Live, Pin
    <2>4. pins'[p] = pins[p] \/ pins'[p].cv \in Live
      <3>1. ASSUME NEW c \in Live, NEW x, pins'[p] = [cv |-> c, type |-> x[1], ver |-> x[2]]
            PROVE  pins'[p].cv \in Live
        BY <3>1
      <3>. QED BY <3>1, PinsFrom
    <2>. QED BY <2>2, <2>3, <2>4
  <1>4. LogQuiet'
    <2>. SUFFICES ASSUME NEW c \in CVs, cv'[c] = None PROVE log'[c] = << >>
      BY DEF LogQuiet
    <2>1. cv[c] = None
      BY CvStays
    <2>. QED BY <2>1, LogFrom DEF BaseInv, LogQuiet, Live
  <1>. QED BY <1>1, <1>2, <1>3, <1>4 DEF BaseInv

(***************************************************************************)
(* Until a type is deleted, every version that is pinned, or that a        *)
(* request is about to pin, exists, unless a request to create a catalog   *)
(* version named it without looking; a later request looks.                *)
(***************************************************************************)
Asks(r, t, v) ==
    \/ r.op = "createCV" /\ <<t, v>> \in r.todo
    \/ r.op \in {"addPin", "updatePin"} /\ r.new.type = t /\ r.new.ver = v

Known(t, v) == Has(t, v) \/ (v = 0 /\ "unknown" \in trouble)

Exact(r, t, v) == Asks(r, t, v) => Known(t, v) /\ (v = 0 => r.op = "createCV")

PinsExist ==
    "deleted" \notin trouble =>
       \A t \in Types, v \in Nat :
          /\ \A p \in Pins : pins[p] # None /\ pins[p].type = t /\ pins[p].ver = v => Known(t, v)
          /\ \A q \in Reqs : req[q].op \in CVOps => Exact(req[q], t, v)

LEMMA ExistStep ==
  ASSUME TypedInv, PinsExist, NEW q \in Reqs, NEW s, req' = [req EXCEPT ![q] = s],
         trouble \subseteq trouble',
         "deleted" \notin trouble' => \A t \in Types, v \in Nat :
            /\ Has(t, v) => Has(t, v)'
            /\ s.op \in CVOps /\ Asks(s, t, v) => Known(t, v)' /\ (v = 0 => s.op = "createCV")
            /\ \A p \in Pins : pins'[p] # None /\ pins'[p] # pins[p]
                                 /\ pins'[p].type = t /\ pins'[p].ver = v => Known(t, v)'
  PROVE  PinsExist'
  <1>. SUFFICES ASSUME "deleted" \notin trouble', NEW t \in Types, NEW v \in Nat
                PROVE  /\ \A p \in Pins : pins'[p] # None /\ pins'[p].type = t /\ pins'[p].ver = v
                             => Known(t, v)'
                       /\ \A p \in Reqs : req'[p].op \in CVOps /\ Asks(req'[p], t, v) =>
                             Known(t, v)' /\ (v = 0 => req'[p].op = "createCV")
    BY DEF PinsExist, Exact, Asks
  <1>0. "deleted" \notin trouble /\ (Known(t, v) => Known(t, v)')
    BY DEF Known
  <1>1. ASSUME NEW p \in Pins, pins'[p] # None, pins'[p].type = t, pins'[p].ver = v
        PROVE  Known(t, v)'
    BY <1>0, <1>1 DEF PinsExist
  <1>2. ASSUME NEW p \in Reqs, req'[p].op \in CVOps, Asks(req'[p], t, v)
        PROVE  Known(t, v)' /\ (v = 0 => req'[p].op = "createCV")
    <2>1. CASE p = q
      BY <1>2, <2>1 DEF TypedInv, SchemaInv, Requested
    <2>2. CASE p # q
      <3>1. req'[p] = req[p]
        BY <2>2 DEF TypedInv, SchemaInv, Requested
      <3>. QED BY <1>0, <1>2, <3>1 DEF PinsExist, Exact
    <2>. QED BY <2>1, <2>2
  <1>. QED BY <1>1, <1>2

-----------------------------------------------------------------------------
(***************************************************************************)
(* One step of a request: it goes from what it was to `s'.                 *)
(***************************************************************************)
Begins(q) ==
    \/ CreateCatalogVersion(q) \/ Promote(q) \/ Demote(q) \/ DeleteCatalogVersion(q)
    \/ UpdateCatalogVersion(q) \/ AddPin(q) \/ RemovePin(q) \/ UpdatePin(q)

Wholes(q) == CreateCatalog(q) \/ Validate(q) \/ SetValue(q)

LEMMA MoveKinds ==
  ASSUME NEW q \in Reqs, VersionsMove(q)
  PROVE  Begins(q) \/ Statement(q) \/ ListCatalogs(q) \/ ResetCatalog(q) \/ Wholes(q)
  BY DEF VersionsMove, Begins, Statement, Wholes

LEMMA BeginsOpens ==
  ASSUME TypedInv, NEW q \in Reqs, Begins(q)
  PROVE  \E s : Opens(q, s)
  <1>0. TypeInv
    BY DEF TypedInv
  <1>1. CASE CreateCatalogVersion(q)
    BY <1>1, CreateOpens
  <1>2. CASE Promote(q) \/ Demote(q)
    BY <1>2, MoveOpens
  <1>3. CASE DeleteCatalogVersion(q)
    BY <1>3, DeleteOpens
  <1>4. CASE UpdateCatalogVersion(q)
    BY <1>4, UpdateOpens
  <1>5. CASE AddPin(q)
    BY <1>5, <1>0, AddPinOpens
  <1>6. CASE RemovePin(q)
    BY <1>6, RemovePinOpens
  <1>7. CASE UpdatePin(q)
    BY <1>7, <1>0, UpdatePinOpens
  <1>. QED BY <1>1, <1>2, <1>3, <1>4, <1>5, <1>6, <1>7 DEF Begins

(***************************************************************************)
(* The version a request is about to pin exists when it begins.            *)
(***************************************************************************)
LEMMA BeginsAsks ==
  ASSUME TypedInv, NEW q \in Reqs, Begins(q)
  PROVE  \E s : /\ req' = [req EXCEPT ![q] = s]
                /\ \A t \in Types, v \in Nat : Asks(s, t, v) =>
                     /\ Has(t, v) \/ (v = 0 /\ "unknown" \in trouble')
                     /\ v = 0 => s.op = "createCV"
  <1>0. TypeInv
    BY DEF TypedInv
  <1>1. CASE CreateCatalogVersion(q)
    <2>1. PICK s : /\ Opens(q, s) /\ s.op = "createCV"
                   /\ \A x \in s.todo : Has(x[1], x[2]) \/ (x[2] = 0 /\ "unknown" \in trouble')
      BY <1>1, CreateOpens
    <2>2. \A t \in Types, v \in Nat : Asks(s, t, v) =>
             /\ Has(t, v) \/ (v = 0 /\ "unknown" \in trouble')
             /\ v = 0 => s.op = "createCV"
      BY <2>1 DEF Asks
    <2>. QED BY <2>1, <2>2 DEF Opens
  <1>2. CASE Promote(q) \/ Demote(q)
    BY <1>2, MoveOpens DEF Asks, Opens
  <1>3. CASE DeleteCatalogVersion(q)
    BY <1>3, DeleteOpens DEF Asks, Opens
  <1>4. CASE UpdateCatalogVersion(q)
    BY <1>4, UpdateOpens DEF Asks, Opens
  <1>5. CASE AddPin(q)
    BY <1>5, <1>0, AddPinOpens DEF Asks, Opens, Has
  <1>6. CASE RemovePin(q)
    BY <1>6, RemovePinOpens DEF Asks, Opens
  <1>7. CASE UpdatePin(q)
    BY <1>7, <1>0, UpdatePinOpens DEF Asks, Opens, Has
  <1>. QED BY <1>1, <1>2, <1>3, <1>4, <1>5, <1>6, <1>7 DEF Begins

LEMMA ReqSame ==
  ASSUME TypedInv, NEW q \in Reqs, req' = req
  PROVE  req' = [req EXCEPT ![q] = req[q]]
  BY DEF TypedInv, SchemaInv, Requested

LEMMA SameAsks ==
  ASSUME NEW o, NEW s, Same(o, s)
  PROVE  s.op = o.op /\ \A t, v : Asks(s, t, v) => Asks(o, t, v)
  BY DEF Same, Asks

LEMMA ExistMove ==
  ASSUME TypedInv, PinsExist, NEW q \in Reqs, VersionsMove(q)
  PROVE  PinsExist'
  <1>0. trouble \subseteq trouble' /\ \A t, v : Has(t, v) => Has(t, v)'
    BY Writers DEF Has, Latest
  <1>. DEFINE Asked(s) == s.op \in CVOps /\ "deleted" \notin trouble =>
                            \A t \in Types, v \in Nat : Asks(s, t, v) =>
                              /\ Has(t, v) \/ (v = 0 /\ "unknown" \in trouble')
                              /\ v = 0 => s.op = "createCV"
  <1>1. \E s : req' = [req EXCEPT ![q] = s] /\ Asked(s)
    <2>1. CASE Begins(q)
      BY <2>1, BeginsAsks
    <2>2. Asked(req[q])
      BY <1>0 DEF PinsExist, Exact, Known
    <2>3. PICK o : o = req[q]
      OBVIOUS
    <2>. HIDE DEF Asked
    <2>4. CASE Statement(q) \/ ListCatalogs(q) \/ ResetCatalog(q)
      <3>1. PICK s : req' = [req EXCEPT ![q] = s] /\ (s = Idle \/ Same(o, s))
        BY <2>3, <2>4, StatementGoes, ListGoes DEF TypedInv
      <3>2. Asked(Idle)
        BY DEF Asked, Idle, CVOps
      <3>3. CASE Same(o, s)
        <4>1. o.op = s.op
          BY <3>3 DEF Same
        <4>2. Asked(s)
          BY <2>2, <2>3, <3>3, <4>1, SameAsks DEF Asked
        <4>. QED BY <3>1, <4>2
      <3>. QED BY <3>1, <3>2, <3>3
    <2>5. CASE Wholes(q)
      <3>1. req' = req
        BY <2>5 DEF Wholes, CreateCatalog, Validate, SetValue, Whole
      <3>. QED BY <2>2, <3>1, ReqSame
    <2>. QED BY <2>1, <2>4, <2>5, MoveKinds
  <1>2. PICK s : req' = [req EXCEPT ![q] = s] /\ Asked(s)
    BY <1>1
  <1>3. ASSUME "deleted" \notin trouble', NEW t \in Types, NEW v \in Nat, NEW p \in Pins,
               pins'[p] # None, pins'[p] # pins[p], pins'[p].type = t, pins'[p].ver = v
        PROVE  Known(t, v)'
    <2>1. \/ pins'[p] = req[q].new /\ req[q].op \in {"addPin", "updatePin"}
          \/ /\ req[q].op = "createCV"
             /\ \E x \in req[q].todo : pins'[p] = [cv |-> req[q].cv, type |-> x[1], ver |-> x[2]]
      BY <1>3, PinsFrom
    <2>2. req[q].op \in CVOps
      BY <2>1 DEF CVOps
    <2>3. req[q].op = "createCV" => req[q].todo \subseteq Types \X Nat
      BY <2>2, AtStatement DEF TypedInv, CVRequest
    <2>4. ASSUME req[q].op = "createCV" PROVE Asks(req[q], t, v)
      <3>1. PICK x \in req[q].todo : pins'[p] = [cv |-> req[q].cv, type |-> x[1], ver |-> x[2]]
        BY <2>1, <2>4
      <3>2. x \in Types \X Nat /\ x[1] = t /\ x[2] = v
        BY <1>3, <2>3, <2>4, <3>1
      <3>3. x = <<t, v>>
        BY <3>2
      <3>. QED BY <2>4, <3>1, <3>3 DEF Asks
    <2>5. ASSUME req[q].op # "createCV" PROVE Asks(req[q], t, v)
      BY <1>3, <2>1, <2>5 DEF Asks
    <2>6. Asks(req[q], t, v)
      BY <2>4, <2>5
    <2>. QED BY <1>0, <1>3, <2>2, <2>6 DEF PinsExist, Exact, Known
  <1>4. "deleted" \notin trouble' => "deleted" \notin trouble
    BY <1>0
  <1>5. "deleted" \notin trouble' => \A t \in Types, v \in Nat :
           s.op \in CVOps /\ Asks(s, t, v) => Known(t, v)' /\ (v = 0 => s.op = "createCV")
    BY <1>0, <1>2, <1>4 DEF Known
  <1>. QED BY <1>0, <1>2, <1>3, <1>5, ExistStep

LEMMA HasGrows ==
  ASSUME SchemaInv, SchemaInv', Grows
  PROVE  \A t \in Types, v \in Nat : Has(t, v) => Has(t, v)'
  <1>. SUFFICES ASSUME NEW t \in Types, NEW v \in Nat, Has(t, v) PROVE Has(t, v)'
    OBVIOUS
  <1>1. Latest(t) \in Nat /\ Latest(t)' \in Nat
    BY DEF SchemaInv, Tables, Latest
  <1>2. Latest(t) <= Latest(t)'
    BY DEF Grows
  <1>. QED BY <1>1, <1>2 DEF Has

LEMMA ExistTypesMove ==
  ASSUME TypedInv, SchemaInv', BaseInv, PinsExist, NEW q \in Reqs, TypesMove(q)
  PROVE  PinsExist'
  <1>0. pins' = pins /\ ("deleted" \in trouble' \/ Grows)
    BY TypesPinned, TypesGrow DEF TypedInv, BaseInv
  <1>1. CASE SchemaMoves(q)
    <2>1. PICK r : req' = [req EXCEPT ![q] = r] /\ (r = Idle \/ r.op \in SchemaOps)
      BY <1>1 DEF SchemaMoves
    <2>2. r.op \notin CVOps
      BY <2>1 DEF Idle, SchemaOps, EditOps, CVOps
    <2>3. trouble \subseteq trouble'
      BY <1>1 DEF SchemaMoves
    <2>4. "deleted" \in trouble' \/ \A t \in Types, v \in Nat : Has(t, v) => Has(t, v)'
      BY <1>0, HasGrows DEF TypedInv
    <2>. QED BY <1>0, <2>1, <2>2, <2>3, <2>4, ExistStep
  <1>2. CASE DeleteEntityType(q)
    <2>1. "deleted" \in trouble'
      BY <1>2 DEF DeleteEntityType, Note
    <2>. QED BY <2>1 DEF PinsExist
  <1>. QED BY <1>1, <1>2, TypesMoves DEF TypedInv

LEMMA BaseTypesMove ==
  ASSUME TypedInv, BaseInv, NEW q \in Reqs, TypesMove(q), UNCHANGED <<log, catalogs>>
  PROVE  BaseInv'
  <1>1. HasNamed' /\ cv' = cv /\ pins' = pins
    BY TypesGrow, TypesPinned DEF TypedInv, BaseInv
  <1>. QED BY <1>1 DEF BaseInv, CatalogsBuilt, PinsBuilt, LogQuiet

StandingInv == TypedInv /\ BaseInv /\ PinsExist

LEMMA StandingStart == Init => StandingInv
  <1>. SUFFICES ASSUME Init PROVE StandingInv
    OBVIOUS
  <1>0. \A t \in Types : Latest(t) = 0 \/ t \in Named
    BY SchemaAssumption DEF Init, TypesInit, Latest, Named
  <1>1. BaseInv
    BY <1>0 DEF Init, TypesInit, BaseInv, HasNamed, CatalogsBuilt, PinsBuilt, LogQuiet
  <1>2. PinsExist
    BY DEF Init, TypesInit, PinsExist, Idle, CVOps
  <1>. QED BY <1>1, <1>2, TypedStart DEF StandingInv

LEMMA StandingNext ==
  ASSUME StandingInv, [Next]_vars
  PROVE  StandingInv'
  <1>1. TypedInv' /\ SchemaInv'
    BY TypedNext DEF StandingInv, TypedInv
  <1>2. CASE TypesNext /\ UNCHANGED <<log, crs, catalogVars>>
    <2>1. PICK q \in Reqs : TypesMove(q)
      BY <1>2, MovesOf
    <2>. QED BY <1>1, <1>2, <2>1, ExistTypesMove, BaseTypesMove DEF StandingInv, catalogVars
  <1>3. CASE VersionsNext
    <2>1. PICK q \in Reqs : VersionsMove(q)
      BY <1>3, MovesOf
    <2>. QED BY <1>1, <2>1, ExistMove, BaseMove DEF StandingInv
  <1>4. CASE UNCHANGED vars
    <2>1. UNCHANGED <<cv, pins, log, catalogs, types, versions, trouble, req>>
      BY <1>4 DEF vars, versionVars, catalogVars, schema
    <2>2. BaseInv'
      BY <2>1 DEF StandingInv, BaseInv, HasNamed, CatalogsBuilt, PinsBuilt, LogQuiet, Latest, Named
    <2>3. PinsExist'
      BY <2>1 DEF StandingInv, PinsExist, Asks, Known, Exact, Has, Latest
    <2>. QED BY <1>1, <2>2, <2>3 DEF StandingInv
  <1>. QED BY <1>2, <1>3, <1>4 DEF Next

-----------------------------------------------------------------------------
(***************************************************************************)
(* Requests one at a time: the request that is being handled.              *)
(***************************************************************************)
Alone == \A p, q \in Reqs : req[p] # Idle /\ req[q] # Idle => p = q

AtWork == IF Active = {} THEN Idle ELSE req[CHOOSE q \in Active : TRUE]

LEMMA WorkIs ==
  ASSUME Alone, NEW q \in Reqs, req[q] # Idle \/ Active = {}
  PROVE  AtWork = req[q] /\ \A p \in Reqs \ {q} : req[p] = Idle
  BY DEF Alone, AtWork, Active

LEMMA WorkGoes ==
  ASSUME TypedInv, Alone, NEW q \in Reqs, req[q] # Idle \/ Active = {},
         NEW s, req' = [req EXCEPT ![q] = s]
  PROVE  Alone' /\ AtWork' = s
  <1>1. req'[q] = s /\ \A p \in Reqs \ {q} : req'[p] = Idle
    BY WorkIs DEF TypedInv, SchemaInv, Requested
  <1>2. Alone'
    BY <1>1 DEF Alone
  <1>3. AtWork' = s
    BY <1>1 DEF AtWork, Active
  <1>. QED BY <1>2, <1>3

LEMMA WorkStays ==
  ASSUME UNCHANGED req
  PROVE  AtWork' = AtWork /\ (Alone => Alone')
  BY DEF AtWork, Active, Alone

(***************************************************************************)
(* Who acts is at work already, or takes the work up.                      *)
(***************************************************************************)
Taken(q) == req[q] # Idle \/ Active = {} \/ "overlap" \in trouble'

LEMMA VersionsTaken ==
  ASSUME TypedInv, NEW q \in Reqs, VersionsMove(q)
  PROVE  Taken(q)
  <1>1. CASE Begins(q)
    BY <1>1, BeginsOpens DEF Opens, Taken
  <1>2. CASE Statement(q) \/ ListCatalogs(q) \/ ResetCatalog(q)
    BY <1>2, StatementOf DEF Taken, TypedInv
  <1>3. CASE Wholes(q)
    BY <1>3 DEF Wholes, CreateCatalog, Validate, SetValue, Whole, Note, Taken
  <1>. QED BY <1>1, <1>2, <1>3, MoveKinds

LEMMA TypesTaken ==
  ASSUME TypedInv, NEW q \in Reqs, TypesMove(q)
  PROVE  Taken(q)
  <1>1. CASE EditBegun(q)
    BY <1>1 DEF EditBegun, StartEdit, Start, Note, Taken
  <1>2. CASE \/ ReorderAttributes(q) \/ CreateEntityType(q) \/ CopyEntityType(q)
             \/ RenameEntityType(q) \/ CreateTypeDefinition(q) \/ UpdateTypeDefinition(q)
             \/ DeleteTypeDefinition(q) \/ DeleteEntityType(q)
    BY <1>2 DEF ReorderAttributes, CreateEntityType, CopyEntityType, RenameEntityType,
                CreateTypeDefinition, UpdateTypeDefinition, DeleteTypeDefinition,
                DeleteEntityType, Start, Note, Taken
  <1>3. CASE \/ CreateVersion(q) \/ CopyAttrs(q) \/ CopyAssocs(q) \/ InsertAttr(q)
             \/ DropAttr(q) \/ SetAttr(q) \/ InsertAssoc(q) \/ SetAssoc(q) \/ DropAssoc(q)
             \/ Renumber(q) \/ InsertType(q) \/ ReadType(q) \/ SaveType(q)
             \/ InsertDef(q) \/ InsertDefVersion(q) \/ DropDef(q) \/ Fail(q)
    <2>1. req[q].op \in SchemaOps
      BY <1>3 DEF CreateVersion, CopyAttrs, CopyAssocs, InsertAttr, DropAttr, SetAttr, InsertAssoc,
                  SetAssoc, DropAssoc, Renumber, InsertType, ReadType, SaveType, InsertDef,
                  InsertDefVersion, DropDef, Fail, Changing, At
    <2>2. req[q] # Idle
      BY <2>1 DEF Idle, SchemaOps, EditOps
    <2>. QED BY <2>2 DEF Taken
  <1>. QED BY <1>1, <1>2, <1>3, EditsBegin DEF TypesMove, TypedInv

(***************************************************************************)
(* A step that belongs to no overlap: what the request at work is before   *)
(* and after it.                                                           *)
(***************************************************************************)
Steps(q, o, s) ==
    /\ o = AtWork /\ o = req[q] /\ req' = [req EXCEPT ![q] = s] /\ s = AtWork' /\ Alone'
    /\ "overlap" \notin trouble' /\ trouble \subseteq trouble'

LEMMA VersionsWork ==
  ASSUME TypedInv, "overlap" \notin trouble => Alone, NEW q \in Reqs, VersionsMove(q),
         "overlap" \notin trouble', NEW s, req' = [req EXCEPT ![q] = s]
  PROVE  Steps(q, req[q], s)
  <1>1. trouble \subseteq trouble' /\ Taken(q) /\ Alone
    BY Writers, VersionsTaken
  <1>. QED BY <1>1, WorkIs, WorkGoes DEF Taken, Steps

LEMMA TypesWork ==
  ASSUME TypedInv, "overlap" \notin trouble => Alone, NEW q \in Reqs, TypesMove(q),
         "overlap" \notin trouble', NEW s, req' = [req EXCEPT ![q] = s]
  PROVE  Steps(q, req[q], s)
  <1>1. trouble \subseteq trouble'
    BY TypesMoves DEF TypedInv, SchemaMoves, DeleteEntityType, Note
  <1>2. Taken(q) /\ Alone
    BY <1>1, TypesTaken
  <1>. QED BY <1>1, <1>2, WorkIs, WorkGoes DEF Taken, Steps

-----------------------------------------------------------------------------
LEMMA StepEnds ==
  ASSUME TypedInv, NEW q \in Reqs, NEW o, NEW s, Steps(q, o, s), Finish(q)
  PROVE  s = Idle
  BY DEF Steps, Finish, TypedInv, SchemaInv, Requested

LEMMA StepOpens ==
  ASSUME TypedInv, NEW q \in Reqs, NEW o, NEW s, Steps(q, o, s), NEW r, Opens(q, r)
  PROVE  s = r /\ o = Idle
  BY DEF Steps, Opens, TypedInv, SchemaInv, Requested

LEMMA StepStays ==
  ASSUME TypedInv, NEW q \in Reqs, NEW o, NEW s, Steps(q, o, s), req' = req
  PROVE  s = o
  BY DEF Steps, TypedInv, SchemaInv, Requested

LEMMA StepGoes ==
  ASSUME TypedInv, NEW q \in Reqs, NEW o, NEW s, Steps(q, o, s), o \in CVRequest,
         NEW pc, Goto(q, pc)
  PROVE  Same(o, s) /\ s.pc = pc /\ s.todo = o.todo /\ s.again = o.again /\ s.cats = o.cats
  <1>1. s = [o EXCEPT !.pc = pc]
    BY DEF Steps, Goto, TypedInv, SchemaInv, Requested
  <1>. QED BY <1>1 DEF CVRequest, Same

(***************************************************************************)
(* While requests come one at a time, what the one at work has read still  *)
(* holds.                                                                  *)
(***************************************************************************)
Free == {p \in Pins : pins[p] = None}
Moving(r) == r.op \in {"promote", "demote"}
Draftable(c) == c \in Live /\ cv[c].stage # "production"

(***************************************************************************)
(* The pins that a request to create a catalog version has still to store, *)
(* none of them twice: there is a row for each.                            *)
(***************************************************************************)
Orderly(r) ==
    /\ r.again = {} /\ r.todo \cap PinnedVersions(r.cv) = {}
    /\ IsFiniteSet(r.todo) /\ Cardinality(r.todo) <= Cardinality(Free)

CurCreate(r) ==
    r.op = "createCV" =>
       /\ r.cv \in Live /\ cv[r.cv].stage = "development" /\ log[r.cv] = << >>
       /\ BuiltOn(r.cv) = {}
       /\ "repeated" \notin trouble => Orderly(r)
CurMove(r) ==
    Moving(r) =>
       /\ r.cv \in Live /\ r.row.label = cv[r.cv].label
       /\ cv[r.cv].stage = IF r.pc = "stage" THEN r.from ELSE r.to
CurDelete(r) ==
    r.op = "deleteCV" =>
       IF r.pc = "drop" THEN r.cv \in Live /\ r.row.label = cv[r.cv].label /\ BuiltOn(r.cv) = {}
         ELSE r.cv \notin Live
CurUpdate(r) ==
    r.op = "updateCV" => r.cv \in Live /\ r.row.live /\ r.row.stage = cv[r.cv].stage
CurPin(r) ==
    /\ r.op \in {"addPin", "removePin", "updatePin"} => Draftable(r.cv)
    /\ r.op \in {"addPin", "updatePin"} => r.new.cv = r.cv
    /\ r.op = "updatePin" \/ (r.op = "removePin" /\ r.pc = "dropPin") => r.pin \in PinsOf(r.cv)

Current(r) == CurCreate(r) /\ CurMove(r) /\ CurDelete(r) /\ CurUpdate(r) /\ CurPin(r)

LEMMA NoneCurrent ==
  ASSUME NEW s, s = Idle \/ s.op \in SchemaOps
  PROVE  Current(s) /\ Current(s)'
  <1>1. s.op \notin CVOps
    BY DEF Idle, SchemaOps, EditOps, CVOps
  <1>. QED BY <1>1 DEF Current, CurCreate, CurMove, CurDelete, CurUpdate, CurPin, Moving, CVOps

LEMMA CreateCurrent ==
  ASSUME StandingInv, NEW q \in Reqs, NEW o, NEW s, Steps(q, o, s), CreateCatalogVersion(q)
  PROVE  Current(s)'
  <1>1. PICK r : \E c \in CVs, l \in Labels :
           /\ Opens(q, r) /\ r.op = "createCV" /\ r.pc = "pins" /\ r.cv = c
           /\ r.todo \subseteq Types \X (0..MaxVersions)
           /\ r.again # {} => "repeated" \in trouble'
           /\ Cardinality(r.todo) <= Cardinality(Free)
           /\ cv[c] = None
           /\ cv' = [cv EXCEPT ![c] = [live |-> TRUE, label |-> l, stage |-> "development"]]
    BY CreateOpens DEF Free
  <1>2. PICK c \in CVs, l \in Labels :
           /\ Opens(q, r) /\ r.op = "createCV" /\ r.pc = "pins" /\ r.cv = c
           /\ r.todo \subseteq Types \X (0..MaxVersions)
           /\ r.again # {} => "repeated" \in trouble'
           /\ Cardinality(r.todo) <= Cardinality(Free)
           /\ cv[c] = None
           /\ cv' = [cv EXCEPT ![c] = [live |-> TRUE, label |-> l, stage |-> "development"]]
    BY <1>1
  <1>3. s = r
    BY <1>2, StepOpens DEF StandingInv
  <1>4. UNCHANGED <<pins, log, catalogs>>
    BY <1>2 DEF Opens
  <1>5. cv'[c] = [live |-> TRUE, label |-> l, stage |-> "development"]
    BY <1>2 DEF StandingInv, TypedInv, TypeInv, CVTables
  <1>6. cv'[c].live = TRUE /\ cv'[c].stage = "development"
    BY <1>5
  <1>7. cv'[c] # None
    <2>1. [live |-> TRUE, label |-> l, stage |-> "development"] \in Version
      BY DEF Version, Stages
    <2>. QED BY <1>5, <2>1, RowsAre
  <1>8. c \in Live'
    BY <1>6, <1>7 DEF Live
  <1>9. log'[c] = << >>
    BY <1>2, <1>4 DEF StandingInv, BaseInv, LogQuiet
  <1>10. BuiltOn(c)' = {}
    BY <1>2, <1>4 DEF StandingInv, BaseInv, CatalogsBuilt, BuiltOn
  <1>11. PinnedVersions(c)' = {}
    BY <1>2, <1>4 DEF StandingInv, BaseInv, PinsBuilt, PinnedVersions, PinsOf
  <1>12. IsFiniteSet(r.todo)
    <2>0. 0 \in Int /\ MaxVersions \in Int
      BY SchemaAssumption
    <2>1. IsFiniteSet(0..MaxVersions)
      BY <2>0, FS_Interval
    <2>2. IsFiniteSet(Types \X (0..MaxVersions))
      BY <2>1, FiniteAssumption, FS_Product
    <2>. QED BY <1>2, <2>2, FS_Subset
  <1>13. Free' = Free
    BY <1>4 DEF Free
  <1>14. CurCreate(s)'
    BY <1>2, <1>3, <1>6, <1>8, <1>9, <1>10, <1>11, <1>12, <1>13
       DEF CurCreate, Orderly
  <1>. QED BY <1>2, <1>3, <1>14 DEF Current, CurMove, CurDelete, CurUpdate, CurPin, Moving

LEMMA LiveStays ==
  ASSUME cv' = cv
  PROVE  /\ Live' = Live /\ \A c : (c \in Live)' <=> c \in Live
  BY DEF Live

LEMMA OpeningCurrent ==
  ASSUME StandingInv, NEW q \in Reqs, NEW o, NEW s, Steps(q, o, s),
         Begins(q), ~CreateCatalogVersion(q)
  PROVE  Current(s)'
  <1>0. TypeInv
    BY DEF StandingInv, TypedInv
  <1>1. CASE Promote(q) \/ Demote(q)
    <2>1. PICK r : \E c \in Live :
             /\ Opens(q, r) /\ cv' = cv /\ r.op \in {"promote", "demote"} /\ r.pc = "stage"
             /\ r.cv = c /\ r.from = cv[c].stage /\ r.row = cv[c]
      BY <1>1, MoveOpens
    <2>2. s = r
      BY <2>1, StepOpens DEF StandingInv
    <2>3. CurMove(s)'
      BY <2>1, <2>2, LiveStays DEF CurMove
    <2>. QED BY <2>1, <2>2, <2>3 DEF Current, CurCreate, CurDelete, CurUpdate, CurPin
  <1>2. CASE DeleteCatalogVersion(q)
    <2>1. PICK r : \E c \in Live :
             /\ Opens(q, r) /\ cv' = cv /\ r.op = "deleteCV" /\ r.pc = "drop"
             /\ r.cv = c /\ r.row = cv[c] /\ BuiltOn(c) = {}
      BY <1>2, DeleteOpens
    <2>2. s = r /\ catalogs' = catalogs
      BY <2>1, StepOpens DEF StandingInv, Opens
    <2>3. BuiltOn(r.cv)' = {}
      BY <2>1, <2>2 DEF BuiltOn
    <2>4. CurDelete(s)'
      BY <2>1, <2>2, <2>3, LiveStays DEF CurDelete
    <2>. QED BY <2>1, <2>2, <2>4 DEF Current, CurCreate, CurMove, Moving, CurUpdate, CurPin
  <1>3. CASE UpdateCatalogVersion(q)
    <2>1. PICK r : \E c \in Live, l \in Labels :
             /\ Opens(q, r) /\ cv' = cv /\ r.op = "updateCV" /\ r.pc = "save"
             /\ r.cv = c /\ r.row = [cv[c] EXCEPT !.label = l]
      BY <1>3, UpdateOpens
    <2>2. s = r
      BY <2>1, StepOpens DEF StandingInv
    <2>3. r.cv \in Live /\ cv[r.cv] \in Version /\ cv[r.cv].live
      BY <2>1, <1>0 DEF Live, TypeInv, CVTables
    <2>4. r.row.live /\ r.row.stage = cv[r.cv].stage
      BY <2>1, <2>3 DEF Version
    <2>5. CurUpdate(s)'
      BY <2>1, <2>2, <2>3, <2>4, LiveStays DEF CurUpdate
    <2>. QED BY <2>1, <2>2, <2>5 DEF Current, CurCreate, CurMove, Moving, CurDelete, CurPin
  <1>4. CASE AddPin(q)
    <2>1. PICK r : \E c \in Live :
             /\ Opens(q, r) /\ cv' = cv /\ r.op = "addPin" /\ r.pc = "insertPin"
             /\ r.cv = c /\ r.new.cv = c /\ cv[c].stage # "production"
      BY <1>4, <1>0, AddPinOpens
    <2>2. s = r
      BY <2>1, StepOpens DEF StandingInv
    <2>3. CurPin(s)'
      BY <2>1, <2>2, LiveStays DEF CurPin, Draftable
    <2>. QED BY <2>1, <2>2, <2>3 DEF Current, CurCreate, CurMove, Moving, CurDelete, CurUpdate
  <1>5. CASE RemovePin(q)
    <2>1. PICK r : \E c \in Live :
             /\ Opens(q, r) /\ cv' = cv /\ r.op = "removePin" /\ r.pc = "dropPin"
             /\ r.cv = c /\ r.pin \in PinsOf(c) /\ cv[c].stage # "production"
      BY <1>5, RemovePinOpens
    <2>2. s = r /\ pins' = pins
      BY <2>1, StepOpens DEF StandingInv, Opens
    <2>3. CurPin(s)'
      BY <2>1, <2>2, LiveStays DEF CurPin, Draftable, PinsOf
    <2>. QED BY <2>1, <2>2, <2>3 DEF Current, CurCreate, CurMove, Moving, CurDelete, CurUpdate
  <1>6. CASE UpdatePin(q)
    <2>1. PICK r : \E c \in Live :
             /\ Opens(q, r) /\ cv' = cv /\ r.op = "updatePin"
             /\ r.cv = c /\ r.pin \in PinsOf(c) /\ r.new.cv = c /\ cv[c].stage # "production"
      BY <1>6, <1>0, UpdatePinOpens
    <2>2. s = r /\ pins' = pins
      BY <2>1, StepOpens DEF StandingInv, Opens
    <2>3. CurPin(s)'
      BY <2>1, <2>2, LiveStays DEF CurPin, Draftable, PinsOf
    <2>. QED BY <2>1, <2>2, <2>3 DEF Current, CurCreate, CurMove, Moving, CurDelete, CurUpdate
  <1>. QED BY <1>1, <1>2, <1>3, <1>4, <1>5, <1>6 DEF Begins

(***************************************************************************)
(* There is a row for every pin of a catalog version that is created, so   *)
(* the insertion of its pins comes to its end, unless a version was named  *)
(* twice.                                                                  *)
(***************************************************************************)
PinInserted(o, s, x) ==
    /\ x \notin PinnedVersions(o.cv) /\ s.pc = "pins" /\ Same(o, s) /\ s.todo \subseteq o.todo
    /\ "repeated" \notin trouble => s.todo = o.todo \ {x} /\ s.again = {}

LEMMA PinHeld ==
  ASSUME StandingInv, NEW c \in CVs, NEW x \in Types \X Nat
  PROVE  x \in PinnedVersions(c) <=>
            \E k \in Pins : pins[k] = [cv |-> c, type |-> x[1], ver |-> x[2]]
  <1>. DEFINE pin == [cv |-> c, type |-> x[1], ver |-> x[2]]
  <1>1. pin \in Pin /\ pin.cv = c /\ pin.type = x[1] /\ pin.ver = x[2] /\ x = <<x[1], x[2]>>
    BY DEF Pin
  <1>2. ASSUME NEW k \in Pins, pins[k] = pin PROVE x \in PinnedVersions(c)
    BY <1>1, <1>2, RowsAre DEF PinnedVersions, PinsOf
  <1>3. ASSUME x \in PinnedVersions(c) PROVE \E k \in Pins : pins[k] = pin
    <2>1. PICK k \in PinsOf(c) : x = <<pins[k].type, pins[k].ver>>
      BY <1>3 DEF PinnedVersions
    <2>2. k \in Pins /\ pins[k] \in Pin /\ pins[k].cv = c
      BY DEF PinsOf, StandingInv, TypedInv, TypeInv, CVTables
    <2>3. pins[k] = pin
      BY <2>1, <2>2 DEF Pin
    <2>. QED BY <2>2, <2>3
  <1>. QED BY <1>2, <1>3

LEMMA InsertGoes ==
  ASSUME StandingInv, NEW q \in Reqs, NEW o, NEW s, Steps(q, o, s), Current(o), InsertPins(q)
  PROVE  /\ o.op = "createCV" /\ o \in CVRequest /\ o.cv \in Live
         /\ \/ o.todo = {} /\ pins' = pins /\ Same(o, s) /\ s.pc = "log" /\ s.todo = {}
               /\ s.again = o.again
            \/ \E x \in o.todo : \E p \in Free :
                  /\ pins' = [pins EXCEPT ![p] = [cv |-> o.cv, type |-> x[1], ver |-> x[2]]]
                  /\ PinInserted(o, s, x)
            \/ pins' = pins /\ s = Idle /\ "repeated" \in trouble
  <1>1. o.op = "createCV" /\ o.pc = "pins" /\ o = req[q]
    BY DEF Steps, InsertPins, AtCV
  <1>2. o \in CVRequest
    BY <1>1, AtStatement DEF CVOps, StandingInv, TypedInv
  <1>3. o.cv \in Live /\ o.cv \in CVs /\ ("repeated" \notin trouble => Orderly(o))
    BY <1>1, <1>2 DEF Current, CurCreate, Live
  <1>4. CASE o.todo = {}
    <2>1. Goto(q, "log") /\ pins' = pins
      BY <1>1, <1>4 DEF InsertPins
    <2>. QED BY <1>1, <1>2, <1>3, <1>4, <2>1, StepGoes DEF StandingInv
  <1>5. CASE o.todo # {}
    <2>. DEFINE pin(x) == [cv |-> o.cv, type |-> x[1], ver |-> x[2]]
    <2>1. PICK x \in o.todo, p \in Pins :
            \/ /\ pins[p] = None /\ PinAllowed(p, pin(x))
               /\ pins' = [pins EXCEPT ![p] = pin(x)]
               /\ req' = [req EXCEPT ![q] = Inserted(o, x)]
            \/ /\ \A k \in Pins : pins[k] # None \/ ~PinAllowed(k, pin(x))
               /\ Finish(q) /\ pins' = pins
      BY <1>1, <1>5 DEF InsertPins
    <2>2. x \in Types \X Nat
      BY <1>2 DEF CVRequest
    <2>3. pin(x) # None
      <3>1. pin(x) \in Pin
        BY <1>3, <2>2 DEF Pin
      <3>. QED BY <3>1, RowsAre
    <2>4. CASE /\ pins[p] = None /\ PinAllowed(p, pin(x))
               /\ pins' = [pins EXCEPT ![p] = pin(x)]
               /\ req' = [req EXCEPT ![q] = Inserted(o, x)]
      <3>1. \A k \in Pins : pins[k] # pin(x)
        BY <2>3, <2>4 DEF PinAllowed
      <3>2. x \notin PinnedVersions(o.cv)
        BY <1>3, <2>2, <3>1, PinHeld
      <3>3. s = Inserted(o, x)
        BY <1>1, <2>4 DEF Steps, StandingInv, TypedInv, SchemaInv, Requested
      <3>4. /\ s.op = o.op /\ s.pc = o.pc /\ s.cv = o.cv /\ s.from = o.from /\ s.to = o.to
            /\ s.row = o.row /\ s.pin = o.pin /\ s.new = o.new
            /\ s.todo = (IF x \in o.again THEN o.todo ELSE o.todo \ {x})
            /\ s.again = o.again \ {x}
        BY <1>2, <3>3, InsertedTyped
      <3>5. Same(o, s)
        BY <3>4 DEF Same
      <3>6. "repeated" \notin trouble => s.todo = o.todo \ {x} /\ s.again = {}
        BY <1>3, <3>4 DEF Orderly
      <3>7. p \in Free
        BY <2>4 DEF Free
      <3>. QED BY <1>1, <1>2, <1>3, <2>4, <3>2, <3>4, <3>5, <3>6, <3>7 DEF PinInserted
    <2>5. CASE /\ \A k \in Pins : pins[k] # None \/ ~PinAllowed(k, pin(x))
               /\ Finish(q) /\ pins' = pins
      <3>1. s = Idle
        BY <2>5, StepEnds DEF StandingInv
      <3>2. ASSUME Orderly(o) PROVE FALSE
        <4>1. IsFiniteSet(Free)
          BY FiniteAssumption, FS_Subset DEF Free
        <4>2. Cardinality(o.todo) # 0
          BY <1>5, <3>2, FS_EmptySet DEF Orderly
        <4>3. Cardinality(o.todo) \in Nat /\ Cardinality(Free) \in Nat
          BY <3>2, <4>1, FS_CardinalityType DEF Orderly
        <4>4. Cardinality(Free) # 0
          BY <3>2, <4>2, <4>3 DEF Orderly
        <4>5. PICK k \in Free : TRUE
          BY <4>1, <4>4, FS_EmptySet
        <4>6. \A j \in Pins : pins[j] # pin(x)
          BY <1>3, <2>2, <3>2, PinHeld DEF Orderly
        <4>7. pin(x).cv = o.cv
          OBVIOUS
        <4>8. PinAllowed(k, pin(x)) /\ pins[k] = None /\ k \in Pins
          BY <1>3, <4>5, <4>6, <4>7 DEF PinAllowed, Free
        <4>. QED BY <2>5, <4>8
      <3>. QED BY <1>1, <1>2, <1>3, <2>5, <3>1, <3>2
    <2>. QED BY <2>1, <2>4, <2>5
  <1>. QED BY <1>4, <1>5

(***************************************************************************)
(* What a pin that is written makes of the versions of its catalog version.*)
(***************************************************************************)
LEMMA PinWritten ==
  ASSUME TypeInv, NEW p \in Pins, NEW new \in Pin, pins' = [pins EXCEPT ![p] = new],
         p \in Free \/ p \in PinsOf(new.cv)
  PROVE  /\ \A d : d # new.cv => PinnedVersions(d)' = PinnedVersions(d)
         /\ p \in Free => PinnedVersions(new.cv)' =
                            PinnedVersions(new.cv) \cup {<<new.type, new.ver>>}
  <1>1. pins'[p] = new /\ \A k \in Pins \ {p} : pins'[k] = pins[k]
    BY DEF TypeInv, CVTables
  <1>2. new # None
    BY RowsAre
  <1>3. ASSUME NEW d, d # new.cv PROVE PinnedVersions(d)' = PinnedVersions(d)
    <2>1. p \notin PinsOf(d) /\ p \notin PinsOf(d)'
      BY <1>1, <1>2, <1>3 DEF PinsOf, Free
    <2>2. PinsOf(d)' = PinsOf(d)
      BY <1>1, <2>1 DEF PinsOf
    <2>. QED BY <1>1, <2>1, <2>2 DEF PinnedVersions, PinsOf
  <1>4. ASSUME p \in Free
        PROVE  PinnedVersions(new.cv)' = PinnedVersions(new.cv) \cup {<<new.type, new.ver>>}
    <2>1. p \notin PinsOf(new.cv)
      BY <1>4 DEF PinsOf, Free
    <2>2. PinsOf(new.cv)' = PinsOf(new.cv) \cup {p}
      BY <1>1, <1>2, <2>1 DEF PinsOf
    <2>. QED BY <1>1, <2>1, <2>2 DEF PinnedVersions, PinsOf
  <1>. QED BY <1>3, <1>4

LEMMA InsertCurrent ==
  ASSUME StandingInv, NEW q \in Reqs, NEW o, NEW s, Steps(q, o, s), Current(o), InsertPins(q)
  PROVE  Current(s)'
  <1>1. /\ o.op = "createCV" /\ o \in CVRequest /\ o.cv \in Live
        /\ \/ o.todo = {} /\ pins' = pins /\ Same(o, s) /\ s.pc = "log" /\ s.todo = {}
              /\ s.again = o.again
           \/ \E x \in o.todo : \E p \in Free :
                 /\ pins' = [pins EXCEPT ![p] = [cv |-> o.cv, type |-> x[1], ver |-> x[2]]]
                 /\ PinInserted(o, s, x)
           \/ pins' = pins /\ s = Idle /\ "repeated" \in trouble
    BY InsertGoes
  <1>2. UNCHANGED <<cv, log, catalogs, trouble>>
    BY DEF InsertPins, catalogVars
  <1>3. s = Idle \/ (s.op = "createCV" /\ s.cv = o.cv)
    BY <1>1 DEF Same, PinInserted
  <1>4. /\ o.cv \in Live /\ cv[o.cv].stage = "development" /\ log[o.cv] = << >>
        /\ BuiltOn(o.cv) = {} /\ ("repeated" \notin trouble => Orderly(o))
    BY <1>1 DEF Current, CurCreate
  <1>5. CASE s = Idle
    BY <1>5, NoneCurrent
  <1>6. CASE s # Idle
    <2>1. s.cv \in Live' /\ cv'[s.cv].stage = "development" /\ log'[s.cv] = << >>
          /\ BuiltOn(s.cv)' = {}
      BY <1>2, <1>3, <1>4, <1>6 DEF Live, BuiltOn
    <2>2. ASSUME "repeated" \notin trouble PROVE Orderly(s)'
      <3>0. Orderly(o)
        BY <1>4, <2>2
      <3>1. CASE o.todo = {} /\ pins' = pins /\ s.todo = {} /\ s.again = o.again
        <4>1. Free' = Free
          BY <3>1 DEF Free
        <4>. QED BY <3>0, <3>1, <4>1 DEF Orderly
      <3>2. CASE \E x \in o.todo : \E p \in Free :
                   /\ pins' = [pins EXCEPT ![p] = [cv |-> o.cv, type |-> x[1], ver |-> x[2]]]
                   /\ PinInserted(o, s, x)
        <4>1. PICK x \in o.todo : \E p \in Free :
                   /\ pins' = [pins EXCEPT ![p] = [cv |-> o.cv, type |-> x[1], ver |-> x[2]]]
                   /\ PinInserted(o, s, x)
          BY <3>2
        <4>2. PICK p \in Free :
                   /\ pins' = [pins EXCEPT ![p] = [cv |-> o.cv, type |-> x[1], ver |-> x[2]]]
                   /\ s.todo = o.todo \ {x} /\ s.again = {}
          BY <2>2, <4>1 DEF PinInserted
        <4>3. PICK new : new = [cv |-> o.cv, type |-> x[1], ver |-> x[2]]
          OBVIOUS
        <4>4. x \in Types \X Nat
          BY <1>1 DEF CVRequest
        <4>5. new \in Pin /\ new.cv = o.cv /\ <<new.type, new.ver>> = x
          BY <1>4, <4>3, <4>4 DEF Pin, Live
        <4>6. p \in Pins /\ pins' = [pins EXCEPT ![p] = new]
          BY <4>2, <4>3 DEF Free
        <4>7. PinnedVersions(s.cv)' = PinnedVersions(s.cv) \cup {x}
          BY <1>3, <1>6, <4>2, <4>5, <4>6, PinWritten DEF StandingInv, TypedInv
        <4>8. Free' = Free \ {p}
          BY <4>5, <4>6, RowsAre DEF Free, StandingInv, TypedInv, TypeInv, CVTables
        <4>9. IsFiniteSet(Free)
          BY FiniteAssumption, FS_Subset DEF Free
        <4>10. /\ Cardinality(Free') = Cardinality(Free) - 1
               /\ Cardinality(s.todo) = Cardinality(o.todo) - 1 /\ IsFiniteSet(s.todo)
          BY <3>0, <4>2, <4>8, <4>9, FS_RemoveElement DEF Orderly
        <4>11. Cardinality(Free) \in Nat /\ Cardinality(o.todo) \in Nat
          BY <3>0, <4>9, FS_CardinalityType DEF Orderly
        <4>12. Cardinality(s.todo) <= Cardinality(Free')
          BY <3>0, <4>10, <4>11 DEF Orderly
        <4>13. s.todo \cap PinnedVersions(s.cv)' = {}
          BY <1>3, <1>6, <3>0, <4>2, <4>7 DEF Orderly
        <4>. QED BY <4>2, <4>10, <4>12, <4>13 DEF Orderly
      <3>. QED BY <1>1, <1>6, <3>1, <3>2
    <2>3. CurCreate(s)'
      BY <1>2, <2>1, <2>2 DEF CurCreate
    <2>4. s.op = "createCV"
      BY <1>3, <1>6
    <2>. QED BY <2>3, <2>4 DEF Current, CurMove, CurDelete, CurUpdate, CurPin, Moving
  <1>. QED BY <1>5, <1>6

-----------------------------------------------------------------------------
(***************************************************************************)
(* Which request is at which statement.                                    *)
(***************************************************************************)
LEMMA AtWhich ==
  ASSUME TypedInv, NEW q \in Reqs, NEW o, o = req[q],
         o.op \in CVOps \/ o.pc \in {"stage", "log", "cr", "list", "reset"}
  PROVE  /\ o \in CVRequest /\ o.op \in CVOps /\ Shaped(o)
         /\ o.pc = "stage" \/ o.pc = "cr" => Moving(o)
         /\ o.pc = "log" => Moving(o) \/ o.op = "createCV"
         /\ o.pc = "list" \/ o.pc = "reset" => o.op \in {"addPin", "removePin"}
         /\ o.pc = "dropCR" => o.op = "deleteCV"
         /\ o.pc = "commit" => o.op = "updatePin"
  <1>1. o \in CVRequest /\ o.op \in CVOps /\ Shaped(o)
    BY AtStatement DEF TypedInv
  <1>. QED BY <1>1 DEF Shaped, CVOps, Moving

LEMMA WriteStageCurrent ==
  ASSUME StandingInv, NEW q \in Reqs, NEW o, NEW s, Steps(q, o, s), Current(o), WriteStage(q)
  PROVE  /\ Moving(o) /\ Shaped(o) /\ o.pc = "stage" /\ Same(o, s) /\ s.pc = "log" /\ o.cv \in Live
         /\ cv[o.cv].stage = o.from /\ o.row.label = cv[o.cv].label
         /\ cv' = [cv EXCEPT ![o.cv] = [cv[o.cv] EXCEPT !.stage = o.to]]
         /\ Current(s)'
  <1>1. o = req[q] /\ o.pc = "stage"
    BY DEF Steps, WriteStage
  <1>2. Moving(o) /\ o \in CVRequest /\ Shaped(o)
    BY <1>1, AtWhich DEF StandingInv
  <1>3. o.cv \in Live /\ cv[o.cv].stage = o.from /\ o.row.label = cv[o.cv].label
    BY <1>1, <1>2 DEF Current, CurMove
  <1>4. Goto(q, "log") /\ cv' = [cv EXCEPT ![o.cv] = [cv[o.cv] EXCEPT !.stage = o.to]]
    BY <1>1, <1>3 DEF WriteStage
  <1>5. Same(o, s) /\ s.pc = "log"
    BY <1>2, <1>4, StepGoes DEF StandingInv
  <1>6. cv[o.cv] \in Version /\ o.cv \in CVs /\ cv[o.cv].live
    BY <1>3 DEF Live, StandingInv, TypedInv, TypeInv, CVTables
  <1>7. cv'[o.cv] = [cv[o.cv] EXCEPT !.stage = o.to]
    BY <1>4, <1>6 DEF StandingInv, TypedInv, TypeInv, CVTables
  <1>8. o.to \in Stages
    BY <1>2 DEF Shaped, Moving
  <1>9. cv'[o.cv] \in Version /\ cv'[o.cv].live /\ cv'[o.cv].stage = o.to
        /\ cv'[o.cv].label = cv[o.cv].label
    BY <1>6, <1>7, <1>8 DEF Version
  <1>10. o.cv \in Live'
    BY <1>6, <1>9, RowsAre DEF Live
  <1>11. Moving(s) /\ s.cv = o.cv /\ s.row = o.row /\ s.to = o.to
    BY <1>2, <1>5 DEF Same, Moving
  <1>12. CurMove(s)'
    BY <1>3, <1>5, <1>9, <1>10, <1>11 DEF CurMove
  <1>13. Current(s)'
    BY <1>11, <1>12 DEF Moving, Current, CurCreate, CurDelete, CurUpdate, CurPin
  <1>. QED BY <1>1, <1>2, <1>3, <1>4, <1>5, <1>13

LEMMA WriteLogCurrent ==
  ASSUME StandingInv, NEW q \in Reqs, NEW o, NEW s, Steps(q, o, s), Current(o), WriteLog(q)
  PROVE  /\ Shaped(o) /\ o.pc = "log" /\ o.cv \in Live
         /\ log' = [log EXCEPT ![o.cv] = Append(log[o.cv],
               [from |-> o.from, to |-> IF o.op = "createCV" THEN "development" ELSE o.to])]
         /\ \/ o.op = "createCV" /\ s = Idle /\ log[o.cv] = << >> /\ cv[o.cv].stage = "development"
            \/ Moving(o) /\ Same(o, s) /\ s.pc = "cr" /\ cv[o.cv].stage = o.to
         /\ Current(s)'
  <1>1. o = req[q] /\ o.pc = "log" /\ UNCHANGED <<cv, pins, catalogs>>
    BY DEF Steps, WriteLog, catalogVars
  <1>2. o \in CVRequest /\ Shaped(o) /\ (Moving(o) \/ o.op = "createCV")
    BY <1>1, AtWhich DEF StandingInv
  <1>3. o.cv \in Live
    BY <1>2 DEF Current, CurMove, CurCreate
  <1>4. log' = [log EXCEPT ![o.cv] = Append(log[o.cv],
               [from |-> o.from, to |-> IF o.op = "createCV" THEN "development" ELSE o.to])]
    BY <1>1, <1>3 DEF WriteLog
  <1>5. CASE o.op = "createCV"
    <2>1. Finish(q)
      BY <1>1, <1>5 DEF WriteLog
    <2>2. s = Idle
      BY <2>1, StepEnds DEF StandingInv
    <2>3. log[o.cv] = << >> /\ cv[o.cv].stage = "development"
      BY <1>5 DEF Current, CurCreate
    <2>. QED BY <1>1, <1>2, <1>3, <1>4, <1>5, <2>2, <2>3, NoneCurrent
  <1>6. CASE o.op # "createCV"
    <2>1. Goto(q, "cr")
      BY <1>1, <1>3, <1>6 DEF WriteLog
    <2>2. Same(o, s) /\ s.pc = "cr"
      BY <1>2, <2>1, StepGoes DEF StandingInv
    <2>3. Moving(s) /\ s.cv = o.cv /\ s.row = o.row /\ s.to = o.to
      BY <1>2, <1>6, <2>2 DEF Same, Moving
    <2>4. o.row.label = cv[o.cv].label /\ cv[o.cv].stage = o.to
      BY <1>1, <1>2, <1>6 DEF Current, CurMove
    <2>5. CurMove(s)'
      BY <1>1, <1>3, <2>2, <2>3, <2>4, LiveStays DEF CurMove
    <2>6. Current(s)'
      BY <2>3, <2>5 DEF Moving, Current, CurCreate, CurDelete, CurUpdate, CurPin
    <2>. QED BY <1>1, <1>2, <1>3, <1>4, <1>6, <2>2, <2>4, <2>6
  <1>. QED BY <1>5, <1>6

LEMMA DropRowCurrent ==
  ASSUME StandingInv, NEW q \in Reqs, NEW o, NEW s, Steps(q, o, s), Current(o), DropRow(q)
  PROVE  /\ o.op = "deleteCV" /\ o.pc = "drop" /\ Same(o, s) /\ s.pc = "dropCR" /\ o.cv \in Live
         /\ o.row.label = cv[o.cv].label /\ BuiltOn(o.cv) = {}
         /\ o.cv \notin Live'
         /\ \A d : d # o.cv => ((d \in Live)' <=> d \in Live) /\ cv'[d] = cv[d] /\ log'[d] = log[d]
         /\ pins' = [p \in Pins |-> IF p \in PinsOf(o.cv) THEN None ELSE pins[p]]
         /\ Current(s)'
  <1>1. o = req[q] /\ o.pc = "drop" /\ o.op = "deleteCV"
    BY DEF Steps, DropRow, AtCV
  <1>2. o \in CVRequest
    BY <1>1, AtWhich DEF StandingInv, CVOps
  <1>3. o.cv \in Live /\ o.row.label = cv[o.cv].label /\ BuiltOn(o.cv) = {}
    BY <1>1 DEF Current, CurDelete
  <1>4. /\ Goto(q, "dropCR") /\ cv' = [cv EXCEPT ![o.cv].live = FALSE]
        /\ pins' = [p \in Pins |-> IF p \in PinsOf(o.cv) THEN None ELSE pins[p]]
        /\ log' = [log EXCEPT ![o.cv] = << >>]
    BY <1>1, <1>3 DEF DropRow
  <1>5. Same(o, s) /\ s.pc = "dropCR"
    BY <1>2, <1>4, StepGoes DEF StandingInv
  <1>6. cv[o.cv] \in Version /\ o.cv \in CVs
    BY <1>3 DEF Live, StandingInv, TypedInv, TypeInv, CVTables
  <1>7. o.cv \notin Live'
    <2>1. cv'[o.cv] = [cv[o.cv] EXCEPT !.live = FALSE]
      BY <1>4, <1>6 DEF StandingInv, TypedInv, TypeInv, CVTables
    <2>. QED BY <1>6, <2>1 DEF Live, Version
  <1>8. ASSUME NEW d, d # o.cv
        PROVE  ((d \in Live)' <=> d \in Live) /\ cv'[d] = cv[d] /\ log'[d] = log[d]
    BY <1>4, <1>8 DEF Live, StandingInv, TypedInv, TypeInv, CVTables
  <1>9. s.op = "deleteCV" /\ s.cv = o.cv
    BY <1>1, <1>5 DEF Same
  <1>10. CurDelete(s)'
    BY <1>5, <1>7, <1>9 DEF CurDelete
  <1>11. Current(s)'
    BY <1>9, <1>10 DEF Moving, Current, CurCreate, CurMove, CurUpdate, CurPin
  <1>. QED BY <1>1, <1>3, <1>4, <1>5, <1>7, <1>8, <1>11

(***************************************************************************)
(* The statements of the requests for pins.                                *)
(***************************************************************************)
LEMMA PinStays ==
  ASSUME NEW o, NEW s, CurPin(o), Same(o, s), o.op \in {"addPin", "removePin", "updatePin"},
         cv' = cv, s.op = "updatePin" \/ (s.op = "removePin" /\ s.pc = "dropPin") =>
                      s.pin \in PinsOf(s.cv)'
  PROVE  Current(s)'
  <1>1. s.op \in {"addPin", "removePin", "updatePin"} /\ s.op = o.op /\ s.cv = o.cv /\ s.new = o.new
    BY DEF Same
  <1>2. CurPin(s)'
    BY <1>1, LiveStays DEF CurPin, Draftable
  <1>. QED BY <1>1, <1>2 DEF Current, CurCreate, CurMove, CurDelete, CurUpdate, Moving

LEMMA InsertPinCurrent ==
  ASSUME StandingInv, NEW q \in Reqs, NEW o, NEW s, Steps(q, o, s), Current(o), InsertPin(q)
  PROVE  /\ o.op = "addPin" /\ o.new \in Pin /\ o.new.cv = o.cv /\ Draftable(o.cv)
         /\ \/ s = Idle /\ pins' = pins
            \/ \E p \in Free : /\ pins' = [pins EXCEPT ![p] = o.new]
                               /\ Same(o, s) /\ s.pc = "list"
         /\ Current(s)'
  <1>1. o = req[q] /\ o.op = "addPin" /\ o.pc = "insertPin" /\ cv' = cv
    BY DEF Steps, InsertPin, AtCV
  <1>2. o \in CVRequest /\ Shaped(o)
    BY <1>1, AtWhich DEF StandingInv, CVOps
  <1>3. o.new \in Pin
    BY <1>1, <1>2 DEF Shaped
  <1>4. o.new.cv = o.cv /\ Draftable(o.cv) /\ CurPin(o)
    BY <1>1 DEF Current, CurPin
  <1>5. \/ Finish(q) /\ pins' = pins
        \/ Goto(q, "list") /\ \E p \in Free : pins' = [pins EXCEPT ![p] = o.new]
    BY <1>1 DEF InsertPin, Free
  <1>6. CASE Finish(q) /\ pins' = pins
    BY <1>1, <1>3, <1>4, <1>6, StepEnds, NoneCurrent DEF StandingInv
  <1>7. CASE Goto(q, "list") /\ \E p \in Free : pins' = [pins EXCEPT ![p] = o.new]
    <2>1. Same(o, s) /\ s.pc = "list"
      BY <1>2, <1>7, StepGoes DEF StandingInv
    <2>2. s.op = "addPin"
      BY <1>1, <2>1 DEF Same
    <2>3. Current(s)'
      BY <1>1, <1>4, <2>1, <2>2, PinStays
    <2>. QED BY <1>1, <1>3, <1>4, <1>7, <2>1, <2>3
  <1>. QED BY <1>5, <1>6, <1>7

LEMMA DropPinCurrent ==
  ASSUME StandingInv, NEW q \in Reqs, NEW o, NEW s, Steps(q, o, s), Current(o), DropPin(q)
  PROVE  /\ o.op = "removePin" /\ o.pin \in PinsOf(o.cv) /\ Draftable(o.cv)
         /\ pins' = [pins EXCEPT ![o.pin] = None] /\ Same(o, s) /\ s.pc = "list"
         /\ Current(s)'
  <1>1. o = req[q] /\ o.op = "removePin" /\ o.pc = "dropPin" /\ cv' = cv
    BY DEF Steps, DropPin, AtCV
  <1>2. o \in CVRequest
    BY <1>1, AtWhich DEF StandingInv, CVOps
  <1>3. o.pin \in PinsOf(o.cv) /\ Draftable(o.cv) /\ CurPin(o)
    BY <1>1 DEF Current, CurPin
  <1>4. pins' = [pins EXCEPT ![o.pin] = None] /\ Goto(q, "list")
    BY <1>1, <1>3 DEF DropPin, PinsOf
  <1>5. Same(o, s) /\ s.pc = "list"
    BY <1>2, <1>4, StepGoes DEF StandingInv
  <1>6. s.op = "removePin"
    BY <1>1, <1>5 DEF Same
  <1>7. Current(s)'
    BY <1>1, <1>3, <1>5, <1>6, PinStays
  <1>. QED BY <1>1, <1>3, <1>4, <1>5, <1>7

LEMMA RemapCurrent ==
  ASSUME StandingInv, NEW q \in Reqs, NEW o, NEW s, Steps(q, o, s), Current(o), Remap(q)
  PROVE  /\ o.op = "updatePin"
         /\ s = Idle \/ (Same(o, s) /\ s.pc = "savePin")
         /\ Current(s)'
  <1>1. o = req[q] /\ o.op = "updatePin" /\ o.pc = "remap" /\ cv' = cv /\ pins' = pins
    BY DEF Steps, Remap, AtCV, versionVars
  <1>2. o \in CVRequest
    BY <1>1, AtWhich DEF StandingInv, CVOps
  <1>3. \E moved : req' = [req EXCEPT ![q] = Idle]
                   \/ req' = [req EXCEPT ![q] = [o EXCEPT !.cells = moved, !.pc = "savePin"]]
    BY <1>1 DEF Remap
  <1>4. PICK moved : req' = [req EXCEPT ![q] = Idle]
                   \/ req' = [req EXCEPT ![q] = [o EXCEPT !.cells = moved, !.pc = "savePin"]]
    BY <1>3
  <1>5. s = Idle \/ s = [o EXCEPT !.cells = moved, !.pc = "savePin"]
    BY <1>4 DEF Steps, StandingInv, TypedInv, SchemaInv, Requested
  <1>6. CASE s = [o EXCEPT !.cells = moved, !.pc = "savePin"]
    <2>1. Same(o, s) /\ s.pc = "savePin"
      BY <1>2, <1>6 DEF CVRequest, Same
    <2>2. o.pin \in PinsOf(o.cv) /\ CurPin(o)
      BY <1>1 DEF Current, CurPin
    <2>3. s.pin \in PinsOf(s.cv)'
      BY <1>1, <2>1, <2>2 DEF PinsOf, Same
    <2>4. Current(s)'
      BY <1>1, <2>1, <2>2, <2>3, PinStays
    <2>. QED BY <1>1, <2>1, <2>4
  <1>. QED BY <1>1, <1>5, <1>6, NoneCurrent

LEMMA SavePinCurrent ==
  ASSUME StandingInv, NEW q \in Reqs, NEW o, NEW s, Steps(q, o, s), Current(o), SavePin(q)
  PROVE  /\ o.op = "updatePin" /\ o.new \in Pin /\ o.new.cv = o.cv /\ Draftable(o.cv)
         /\ o.pin \in PinsOf(o.cv)
         /\ \/ s = Idle /\ pins' = pins
            \/ /\ pins' = [pins EXCEPT ![o.pin] = o.new] /\ PinAllowed(o.pin, o.new)
               /\ Same(o, s) /\ s.pc = "commit"
         /\ Current(s)'
  <1>1. o = req[q] /\ o.op = "updatePin" /\ o.pc = "savePin" /\ cv' = cv
    BY DEF Steps, SavePin, AtCV
  <1>2. o \in CVRequest /\ Shaped(o)
    BY <1>1, AtWhich DEF StandingInv, CVOps
  <1>3. o.new \in Pin
    BY <1>1, <1>2 DEF Shaped
  <1>4. o.new.cv = o.cv /\ Draftable(o.cv) /\ o.pin \in PinsOf(o.cv) /\ CurPin(o)
    BY <1>1 DEF Current, CurPin
  <1>5. \/ Finish(q) /\ pins' = pins
        \/ /\ Goto(q, "commit") /\ pins' = [pins EXCEPT ![o.pin] = o.new]
           /\ PinAllowed(o.pin, o.new)
    BY <1>1 DEF SavePin
  <1>6. CASE Finish(q) /\ pins' = pins
    BY <1>1, <1>3, <1>4, <1>6, StepEnds, NoneCurrent DEF StandingInv
  <1>7. CASE /\ Goto(q, "commit") /\ pins' = [pins EXCEPT ![o.pin] = o.new]
             /\ PinAllowed(o.pin, o.new)
    <2>1. Same(o, s) /\ s.pc = "commit"
      BY <1>2, <1>7, StepGoes DEF StandingInv
    <2>2. pins'[o.pin] = o.new /\ o.new # None /\ o.pin \in Pins
      BY <1>3, <1>4, <1>7, RowsAre DEF PinsOf, StandingInv, TypedInv, TypeInv, CVTables
    <2>3. s.pin \in PinsOf(s.cv)'
      BY <1>4, <2>1, <2>2 DEF PinsOf, Same
    <2>4. Current(s)'
      BY <1>1, <1>4, <2>1, <2>3, PinStays
    <2>. QED BY <1>1, <1>3, <1>4, <1>7, <2>1, <2>4
  <1>. QED BY <1>5, <1>6, <1>7

LEMMA ListCurrent ==
  ASSUME StandingInv, NEW q \in Reqs, NEW o, NEW s, Steps(q, o, s), Current(o),
         ListCatalogs(q) \/ ResetCatalog(q)
  PROVE  /\ o.op \in {"addPin", "removePin"} /\ o \in CVRequest
         /\ s = Idle \/ (Same(o, s) /\ s.pc = "reset")
         /\ Current(s)'
  <1>1. o = req[q] /\ o.pc \in {"list", "reset"} /\ cv' = cv
    BY DEF Steps, ListCatalogs, ResetCatalog, versionVars
  <1>2. o.op \in {"addPin", "removePin"} /\ o \in CVRequest
    BY <1>1, AtWhich DEF StandingInv
  <1>3. \E r : req' = [req EXCEPT ![q] = r] /\ (r = Idle \/ (Same(o, r) /\ r.pc = "reset"))
    BY <1>1, ListGoes DEF StandingInv, TypedInv
  <1>4. s = Idle \/ (Same(o, s) /\ s.pc = "reset")
    BY <1>3 DEF Steps, StandingInv, TypedInv, SchemaInv, Requested
  <1>5. CASE Same(o, s) /\ s.pc = "reset"
    <2>1. s.op # "updatePin" /\ s.pc # "dropPin"
      BY <1>2, <1>5 DEF Same
    <2>2. CurPin(o)
      BY DEF Current
    <2>3. Current(s)'
      BY <1>1, <1>2, <1>5, <2>1, <2>2, PinStays
    <2>. QED BY <1>2, <1>4, <2>3
  <1>. QED BY <1>2, <1>4, <1>5, NoneCurrent

(***************************************************************************)
(* The last statements, and what others do.                                *)
(***************************************************************************)
LastOf(q) == WriteCR(q) \/ DropCR(q) \/ SaveCV(q) \/ Commit(q) \/ CVFail(q)

LEMMA EndsCurrent ==
  ASSUME StandingInv, NEW q \in Reqs, NEW o, NEW s, Steps(q, o, s), LastOf(q)
  PROVE  s = Idle /\ Current(s)'
  <1>1. Finish(q)
    BY DEF LastOf, WriteCR, DropCR, SaveCV, Commit, CVFail
  <1>. QED BY <1>1, StepEnds, NoneCurrent DEF StandingInv

LEMMA WholesCurrent ==
  ASSUME StandingInv, NEW q \in Reqs, NEW o, NEW s, Steps(q, o, s), Wholes(q)
  PROVE  s = Idle /\ o = Idle /\ Current(s)'
  <1>1. req' = req /\ req[q] = Idle
    BY DEF Wholes, CreateCatalog, Validate, SetValue, Whole, Ready
  <1>2. s = Idle /\ o = Idle
    BY <1>1, StepStays DEF StandingInv, Steps
  <1>. QED BY <1>2, NoneCurrent

LEMMA TypesCurrent ==
  ASSUME StandingInv, NEW q \in Reqs, NEW o, NEW s, Steps(q, o, s), TypesMove(q)
  PROVE  (s = Idle \/ s.op \in SchemaOps) /\ Current(s)'
  <1>1. CASE SchemaMoves(q)
    <2>1. PICK r : req' = [req EXCEPT ![q] = r] /\ (r = Idle \/ r.op \in SchemaOps)
      BY <1>1 DEF SchemaMoves
    <2>2. s = r
      BY <2>1 DEF Steps, StandingInv, TypedInv, SchemaInv, Requested
    <2>. QED BY <2>1, <2>2, NoneCurrent
  <1>2. CASE DeleteEntityType(q)
    <2>1. req' = req /\ req[q] = Idle
      BY <1>2 DEF DeleteEntityType, Ready
    <2>2. s = Idle
      BY <2>1, StepStays DEF StandingInv, Steps
    <2>. QED BY <2>2, NoneCurrent
  <1>. QED BY <1>1, <1>2, TypesMoves DEF StandingInv, TypedInv

LEMMA VersionsCurrent ==
  ASSUME StandingInv, NEW q \in Reqs, NEW o, NEW s, Steps(q, o, s), Current(o), VersionsMove(q)
  PROVE  Current(s)'
  <1>1. CASE Begins(q)
    BY <1>1, CreateCurrent, OpeningCurrent
  <1>2. CASE Statement(q)
    BY <1>2, InsertCurrent, WriteStageCurrent, WriteLogCurrent, DropRowCurrent, InsertPinCurrent,
       DropPinCurrent, RemapCurrent, SavePinCurrent, EndsCurrent DEF Statement, LastOf
  <1>. QED BY <1>1, <1>2, ListCurrent, WholesCurrent, MoveKinds

-----------------------------------------------------------------------------
LEMMA TypesFrom ==
  ASSUME TypedInv, NEW q \in Reqs, NEW o, NEW s, Steps(q, o, s), TypesMove(q)
  PROVE  o = Idle \/ o.op \in SchemaOps
  <1>0. "overlap" \notin trouble' /\ o = req[q]
    BY DEF Steps
  <1>1. CASE EditBegun(q)
    <2>1. Active = {}
      BY <1>0, <1>1 DEF EditBegun, StartEdit, Start, Note
    <2>. QED BY <1>0, <2>1 DEF Active
  <1>2. CASE \/ ReorderAttributes(q) \/ CreateEntityType(q) \/ CopyEntityType(q)
             \/ RenameEntityType(q) \/ CreateTypeDefinition(q) \/ UpdateTypeDefinition(q)
             \/ DeleteTypeDefinition(q) \/ DeleteEntityType(q)
    BY <1>0, <1>2 DEF ReorderAttributes, CreateEntityType, CopyEntityType, RenameEntityType,
                CreateTypeDefinition, UpdateTypeDefinition, DeleteTypeDefinition,
                DeleteEntityType, Ready
  <1>3. CASE \/ CreateVersion(q) \/ CopyAttrs(q) \/ CopyAssocs(q) \/ InsertAttr(q)
             \/ DropAttr(q) \/ SetAttr(q) \/ InsertAssoc(q) \/ SetAssoc(q) \/ DropAssoc(q)
             \/ Renumber(q) \/ InsertType(q) \/ ReadType(q) \/ SaveType(q)
             \/ InsertDef(q) \/ InsertDefVersion(q) \/ DropDef(q) \/ Fail(q)
    BY <1>0, <1>3 DEF CreateVersion, CopyAttrs, CopyAssocs, InsertAttr, DropAttr, SetAttr,
           InsertAssoc, SetAssoc, DropAssoc, Renumber, InsertType, ReadType, SaveType, InsertDef,
           InsertDefVersion, DropDef, Fail, Changing, At
  <1>. QED BY <1>1, <1>2, <1>3, EditsBegin DEF TypesMove, TypedInv

LEMMA OpeningStays ==
  ASSUME StandingInv, NEW q \in Reqs, NEW o, NEW s, Steps(q, o, s),
         Begins(q), ~CreateCatalogVersion(q)
  PROVE  /\ o = Idle /\ s.op # "createCV" /\ s.op \in CVOps
         /\ s.pc \in {"stage", "drop", "save", "insertPin", "dropPin", "remap"}
         /\ s.op = "updateCV" => UpdateCatalogVersion(q)
         /\ UNCHANGED <<schema, definitions, cv, pins, log, crs, catalogs, cells>>
  <1>0. TypeInv
    BY DEF StandingInv, TypedInv
  <1>1. \E r : /\ Opens(q, r) /\ cv' = cv /\ r.op # "createCV" /\ r.op \in CVOps
               /\ r.op = "updateCV" => UpdateCatalogVersion(q)
               /\ r.pc \in {"stage", "drop", "save", "insertPin", "dropPin", "remap"}
    <2>1. CASE Promote(q) \/ Demote(q)
      BY <2>1, MoveOpens DEF CVOps
    <2>2. CASE DeleteCatalogVersion(q)
      BY <2>2, DeleteOpens DEF CVOps
    <2>3. CASE UpdateCatalogVersion(q)
      BY <2>3, UpdateOpens DEF CVOps
    <2>4. CASE AddPin(q)
      BY <2>4, <1>0, AddPinOpens DEF CVOps
    <2>5. CASE RemovePin(q)
      BY <2>5, RemovePinOpens DEF CVOps
    <2>6. CASE UpdatePin(q)
      BY <2>6, <1>0, UpdatePinOpens DEF CVOps
    <2>. QED BY <2>1, <2>2, <2>3, <2>4, <2>5, <2>6 DEF Begins
  <1>2. PICK r : /\ Opens(q, r) /\ cv' = cv /\ r.op # "createCV" /\ r.op \in CVOps
                 /\ r.op = "updateCV" => UpdateCatalogVersion(q)
                 /\ r.pc \in {"stage", "drop", "save", "insertPin", "dropPin", "remap"}
    BY <1>1
  <1>3. s = r /\ o = Idle
    BY <1>2, StepOpens DEF StandingInv
  <1>. QED BY <1>2, <1>3 DEF Opens

LEMMA CreateStep ==
  ASSUME StandingInv, NEW q \in Reqs, NEW o, NEW s, Steps(q, o, s), CreateCatalogVersion(q)
  PROVE  /\ o = Idle /\ UNCHANGED <<schema, definitions, pins, log, crs, catalogs, cells>>
         /\ \E c \in CVs, l \in Labels :
              /\ s.op = "createCV" /\ s.pc = "pins" /\ s.cv = c
              /\ cv[c] = None /\ LabelFlaws(c, l) \subseteq trouble'
              /\ cv' = [cv EXCEPT ![c] = [live |-> TRUE, label |-> l, stage |-> "development"]]
  <1>1. PICK r : \E c \in CVs, l \in Labels :
           /\ Opens(q, r) /\ r.op = "createCV" /\ r.pc = "pins" /\ r.cv = c
           /\ r.todo \subseteq Types \X (0..MaxVersions)
           /\ \A x \in r.todo : Has(x[1], x[2]) \/ (x[2] = 0 /\ "unknown" \in trouble')
           /\ (\E x, y \in r.todo : x # y /\ x[1] = y[1]) => "double" \in trouble'
           /\ r.again # {} => "repeated" \in trouble'
           /\ Cardinality(r.todo) <= Cardinality({p \in Pins : pins[p] = None})
           /\ cv[c] = None /\ ~LabelUsed(l) /\ LabelFlaws(c, l) \subseteq trouble'
           /\ cv' = [cv EXCEPT ![c] = [live |-> TRUE, label |-> l, stage |-> "development"]]
    BY CreateOpens
  <1>2. Opens(q, r)
    BY <1>1
  <1>3. s = r /\ o = Idle /\ UNCHANGED <<schema, definitions, pins, log, crs, catalogs, cells>>
    BY <1>2, StepOpens DEF StandingInv, Opens
  <1>. QED BY <1>1, <1>3

-----------------------------------------------------------------------------
(***************************************************************************)
(* A set of numbers has a smallest one.                                    *)
(***************************************************************************)
LEMMA Smallest ==
  ASSUME NEW T, T \subseteq Nat, T # {}
  PROVE  \E n \in T : \A m \in T : n <= m
  <1>1. PICK n \in T : \A m \in T : ~ (<<m, n>> \in OpToRel(<, Nat))
    BY NatLessThanWellFounded, WFMin
  <1>2. \A m \in T : ~ (m < n)
    BY <1>1 DEF OpToRel
  <1>. QED BY <1>2

(***************************************************************************)
(* What Below computes in rounds.                                          *)
(***************************************************************************)
Round(E, R) == R \cup {u \in Types : \E t \in R : <<t, u>> \in E}

Rounds(E, S, n, h) ==
    /\ h = [i \in 0..n |-> h[i]]
    /\ h[0] = S /\ \A i \in 1..n : h[i] = Round(E, h[i - 1])

LEMMA RoundsExist ==
  ASSUME NEW E, NEW S
  PROVE  \A n \in Nat : \E h : Rounds(E, S, n, h)
  <1>. DEFINE T == {n \in Nat : ~ \E h : Rounds(E, S, n, h)}
  <1>. SUFFICES ASSUME T # {} PROVE FALSE
    OBVIOUS
  <1>1. PICK n \in T : \A m \in T : n <= m
    BY Smallest
  <1>2. CASE n = 0
    <2>1. PICK h : h = [i \in 0..0 |-> S]
      OBVIOUS
    <2>2. Rounds(E, S, 0, h)
      BY <2>1 DEF Rounds
    <2>. QED BY <1>2, <2>2
  <1>3. CASE n # 0
    <2>1. n \in Nat /\ n - 1 \in Nat /\ n - 1 \notin T
      BY <1>1, <1>3
    <2>2. PICK h : Rounds(E, S, n - 1, h)
      BY <2>1
    <2>3. PICK w : w = Round(E, h[n - 1])
      OBVIOUS
    <2>4. PICK k : k = [i \in 0..n |-> IF i = n THEN w ELSE h[i]]
      OBVIOUS
    <2>5. k[n] = w /\ \A i \in 0..(n - 1) : k[i] = h[i]
      BY <2>1, <2>4
    <2>6. \A i \in 1..n : k[i] = Round(E, k[i - 1])
      <3>. TAKE i \in 1..n
      <3>1. CASE i = n
        BY <2>1, <2>3, <2>5, <3>1
      <3>2. CASE i # n
        <4>1. i \in 1..(n - 1) /\ i \in 0..(n - 1) /\ i - 1 \in 0..(n - 1)
          BY <2>1, <3>2
        <4>2. h[i] = Round(E, h[i - 1])
          BY <2>2, <4>1 DEF Rounds
        <4>. QED BY <2>5, <4>1, <4>2
      <3>. QED BY <3>1, <3>2
    <2>7. k[0] = S
      BY <2>1, <2>2, <2>5 DEF Rounds
    <2>8. Rounds(E, S, n, k)
      BY <2>4, <2>6, <2>7 DEF Rounds
    <2>. QED BY <2>8
  <1>. QED BY <1>2, <1>3

LEMMA RoundsAgree ==
  ASSUME NEW E, NEW S, NEW n \in Nat, NEW m \in Nat, NEW h, NEW k,
         Rounds(E, S, n, h), Rounds(E, S, m, k), NEW j \in Nat, j <= n, j <= m
  PROVE  h[j] = k[j]
  <1>. DEFINE T == {i \in Nat : i <= n /\ i <= m /\ h[i] # k[i]}
  <1>. SUFFICES ASSUME T # {} PROVE FALSE
    OBVIOUS
  <1>1. PICK i \in T : \A l \in T : i <= l
    BY Smallest
  <1>2. i \in Nat /\ i <= n /\ i <= m /\ h[i] # k[i]
    BY <1>1
  <1>3. i # 0
    BY <1>2 DEF Rounds
  <1>4. i - 1 \in Nat /\ i - 1 <= n /\ i - 1 <= m /\ i - 1 \notin T
    BY <1>1, <1>2, <1>3
  <1>5. h[i - 1] = k[i - 1]
    BY <1>4
  <1>6. i \in 1..n /\ i \in 1..m
    BY <1>2, <1>3
  <1>. HIDE DEF T
  <1>. QED BY <1>2, <1>5, <1>6 DEF Rounds

LEMMA ReachDefined ==
  ASSUME NEW E, NEW S, NEW reach,
         reach = CHOOSE g : g = [n \in Nat |-> IF n = 0 THEN S ELSE Round(E, g[n - 1])]
  PROVE  reach = [n \in Nat |-> IF n = 0 THEN S ELSE Round(E, reach[n - 1])]
  <1>. DEFINE H(n) == CHOOSE h : Rounds(E, S, n, h)
  <1>1. \A n \in Nat : Rounds(E, S, n, H(n))
    BY RoundsExist
  <1>2. PICK g : g = [n \in Nat |-> H(n)[n]]
    OBVIOUS
  <1>. HIDE DEF H
  <1>3. \A n \in Nat : g[n] = IF n = 0 THEN S ELSE Round(E, g[n - 1])
    <2>. TAKE n \in Nat
    <2>1. CASE n = 0
      BY <1>1, <1>2, <2>1 DEF Rounds
    <2>2. CASE n # 0
      <3>1. n - 1 \in Nat /\ n \in 1..n
        BY <2>2
      <3>2. H(n)[n] = Round(E, H(n)[n - 1])
        BY <1>1, <3>1 DEF Rounds
      <3>3. H(n)[n - 1] = H(n - 1)[n - 1]
        BY <1>1, <3>1, RoundsAgree
      <3>. QED BY <1>2, <2>2, <3>1, <3>2, <3>3
    <2>. QED BY <2>1, <2>2
  <1>4. g = [n \in Nat |-> IF n = 0 THEN S ELSE Round(E, g[n - 1])]
    BY <1>2, <1>3
  <1>. QED BY <1>4

(***************************************************************************)
(* What Below reaches, as an operator of the graph, so that it can be      *)
(* compared between two states.                                            *)
(***************************************************************************)
Under(E, S) ==
    LET reach[n \in Nat] == IF n = 0 THEN S ELSE Round(E, reach[n - 1])
    IN reach[Cardinality(Types)]

LEMMA BelowIs ==
  ASSUME NEW S
  PROVE  Below(S) = Under(ContainmentGraph, S) /\ Below(S)' = Under(ContainmentGraph', S)
  BY DEF Below, Under, Round

Computes(E, reach, S) ==
    reach = [n \in Nat |-> IF n = 0 THEN S ELSE Round(E, reach[n - 1])]

LEMMA UnderGrows ==
  ASSUME NEW E, NEW S
  PROVE  \E reach : Computes(E, reach, S) /\ Under(E, S) = reach[Cardinality(Types)]
  <1>1. PICK reach : reach = CHOOSE g : g = [n \in Nat |-> IF n = 0 THEN S ELSE Round(E, g[n - 1])]
    OBVIOUS
  <1>2. Under(E, S) = reach[Cardinality(Types)]
    BY <1>1 DEF Under
  <1>3. reach = [n \in Nat |-> IF n = 0 THEN S ELSE Round(E, reach[n - 1])]
    BY <1>1, ReachDefined
  <1>. QED BY <1>2, <1>3 DEF Computes

Edges == SUBSET (Types \X Types)

Closed(E, R) == \A t, u : <<t, u>> \in E /\ t \in R => u \in R

LEMMA GrowsWithin ==
  ASSUME NEW E \in Edges, NEW S, NEW reach, Computes(E, reach, S), NEW R, S \subseteq R, Closed(E, R)
  PROVE  \A n \in Nat : reach[n] \subseteq R
  <1>. DEFINE T == {n \in Nat : ~ (reach[n] \subseteq R)}
  <1>. SUFFICES ASSUME T # {} PROVE FALSE
    OBVIOUS
  <1>1. PICK n \in T : \A m \in T : n <= m
    BY Smallest
  <1>2. n \in Nat /\ ~ (reach[n] \subseteq R)
    BY <1>1
  <1>3. n # 0
    BY <1>2 DEF Computes
  <1>4. n - 1 \in Nat /\ n - 1 \notin T
    BY <1>1, <1>2, <1>3
  <1>5. reach[n - 1] \subseteq R
    BY <1>4
  <1>6. reach[n] = Round(E, reach[n - 1])
    BY <1>2, <1>3 DEF Computes
  <1>. HIDE DEF T
  <1>. QED BY <1>2, <1>5, <1>6 DEF Round, Closed

LEMMA TypesClosed == \A E \in Edges : Closed(E, Types)
  BY DEF Closed, Edges

LEMMA GrowsStops ==
  ASSUME NEW E \in Edges, NEW S \in SUBSET Types, NEW reach, Computes(E, reach, S),
         NEW N, N = Cardinality(Types)
  PROVE  N \in Nat /\ Round(E, reach[N]) = reach[N]
  <1>. DEFINE T == {n \in Nat : Cardinality(reach[n]) < n /\ reach[n + 1] # reach[n]}
  <1>1. N \in Nat
    BY FiniteAssumption, FS_CardinalityType
  <1>2. \A n \in Nat : /\ reach[n] \subseteq Types
                       /\ IsFiniteSet(reach[n]) /\ Cardinality(reach[n]) \in Nat
                       /\ Cardinality(reach[n]) <= N
                       /\ Cardinality(reach[n]) = N => reach[n] = Types
    <2>1. \A n \in Nat : reach[n] \subseteq Types
      BY GrowsWithin, TypesClosed
    <2>. QED BY <2>1, FiniteAssumption, FS_Subset, FS_CardinalityType
  <1>3. \A n \in Nat : reach[n + 1] = Round(E, reach[n]) /\ reach[n] \subseteq reach[n + 1]
    <2>. TAKE n \in Nat
    <2>1. n + 1 \in Nat /\ n + 1 # 0 /\ (n + 1) - 1 = n
      OBVIOUS
    <2>2. reach[n + 1] = Round(E, reach[n])
      BY <2>1 DEF Computes
    <2>. QED BY <2>2 DEF Round
  <1>4. T = {}
    <2>. SUFFICES ASSUME T # {} PROVE FALSE
      OBVIOUS
    <2>1. PICK n \in T : \A m \in T : n <= m
      BY Smallest
    <2>2. n \in Nat /\ Cardinality(reach[n]) < n /\ reach[n + 1] # reach[n]
      BY <2>1
    <2>3. n - 1 \in Nat /\ n - 1 \notin T /\ (n - 1) + 1 = n
      BY <1>2, <2>1, <2>2
    <2>4. reach[n] # reach[n - 1]
      BY <1>3, <2>2, <2>3
    <2>5. Cardinality(reach[n - 1]) >= n - 1
      BY <1>2, <2>3, <2>4
    <2>6. reach[n - 1] \subseteq reach[n]
      BY <1>3, <2>3
    <2>7. Cardinality(reach[n - 1]) < Cardinality(reach[n])
      BY <1>2, <2>2, <2>3, <2>4, <2>6, FS_Subset
    <2>. QED BY <1>2, <2>2, <2>3, <2>5, <2>7
  <1>5. Cardinality(reach[N]) >= N \/ reach[N + 1] = reach[N]
    BY <1>1, <1>2, <1>4
  <1>6. CASE reach[N + 1] = reach[N]
    BY <1>1, <1>3, <1>6
  <1>7. CASE Cardinality(reach[N]) >= N
    <2>1. reach[N] = Types
      BY <1>1, <1>2, <1>7
    <2>2. Round(E, Types) = Types
      BY DEF Round
    <2>. QED BY <1>1, <2>1, <2>2
  <1>. QED BY <1>5, <1>6, <1>7

(***************************************************************************)
(* It is the least set that holds S and all that its own contain.          *)
(***************************************************************************)
LEMMA UnderLeast ==
  ASSUME NEW E \in Edges, NEW S \in SUBSET Types
  PROVE  /\ S \subseteq Under(E, S) /\ Under(E, S) \subseteq Types /\ Closed(E, Under(E, S))
         /\ \A R : S \subseteq R /\ Closed(E, R) => Under(E, S) \subseteq R
  <1>1. PICK reach : Computes(E, reach, S) /\ Under(E, S) = reach[Cardinality(Types)]
    BY UnderGrows
  <1>2. PICK N : N = Cardinality(Types)
    OBVIOUS
  <1>3. N \in Nat /\ Round(E, reach[N]) = reach[N] /\ Under(E, S) = reach[N]
    BY <1>1, <1>2, GrowsStops
  <1>4. \A R : S \subseteq R /\ Closed(E, R) => Under(E, S) \subseteq R
    BY <1>1, <1>3, GrowsWithin
  <1>5. Closed(E, Under(E, S))
    BY <1>3 DEF Closed, Round, Edges
  <1>6. S \subseteq Under(E, S)
    <2>. DEFINE T == {n \in Nat : ~ (S \subseteq reach[n])}
    <2>1. T = {}
      <3>. SUFFICES ASSUME T # {} PROVE FALSE
        OBVIOUS
      <3>1. PICK n \in T : \A m \in T : n <= m
        BY Smallest
      <3>2. n \in Nat /\ ~ (S \subseteq reach[n])
        BY <3>1
      <3>3. n # 0
        BY <1>1, <3>2 DEF Computes
      <3>4. n - 1 \in Nat /\ n - 1 \notin T
        BY <3>1, <3>2, <3>3
      <3>5. S \subseteq reach[n - 1]
        BY <3>4
      <3>. HIDE DEF T
      <3>. QED BY <1>1, <3>2, <3>3, <3>5 DEF Computes, Round
    <2>. QED BY <1>3, <2>1
  <1>. QED BY <1>3, <1>4, <1>5, <1>6, TypesClosed

-----------------------------------------------------------------------------
(***************************************************************************)
(* Acyclic graphs.                                                         *)
(***************************************************************************)
Acyclic(E) == \A t, u : <<t, u>> \in E => t \notin Under(E, {u})

LEMMA UnderMonotone ==
  ASSUME NEW E \in Edges, NEW D, D \subseteq E, NEW S \in SUBSET Types
  PROVE  Under(D, S) \subseteq Under(E, S)
  <1>1. D \in Edges /\ Closed(D, Under(E, S))
    BY UnderLeast DEF Edges, Closed
  <1>. QED BY <1>1, UnderLeast

LEMMA FewerAcyclic ==
  ASSUME NEW E \in Edges, NEW D, D \subseteq E, Acyclic(E)
  PROVE  Acyclic(D)
  <1>. SUFFICES ASSUME NEW t, NEW u, <<t, u>> \in D
                PROVE  t \notin Under(D, {u})
    BY DEF Acyclic
  <1>1. u \in Types
    BY DEF Edges
  <1>. QED BY <1>1, UnderMonotone DEF Acyclic

(***************************************************************************)
(* The check of CreateAssociation: an edge from t to u makes no cycle if t *)
(* is not reached from u.                                                  *)
(***************************************************************************)
LEMMA EdgeAcyclic ==
  ASSUME NEW E \in Edges, Acyclic(E), NEW t \in Types, NEW u \in Types, t \notin Under(E, {u}),
         NEW D, D \subseteq E \cup {<<t, u>>}
  PROVE  Acyclic(D)
  <1>. DEFINE F == E \cup {<<t, u>>}
              W == Under(E, {u})
  <1>1. F \in Edges
    BY DEF Edges
  <1>2. u \in W /\ Closed(E, W) /\ Closed(F, W)
    BY UnderLeast DEF Closed
  <1>3. ASSUME NEW y \in Types
        PROVE  Under(F, {y}) \subseteq Under(E, {y}) \cup W
    <2>1. y \in Under(E, {y}) /\ Closed(E, Under(E, {y}))
      BY UnderLeast
    <2>2. Closed(F, Under(E, {y}) \cup W)
      BY <1>2, <2>1 DEF Closed
    <2>. QED BY <1>1, <2>1, <2>2, UnderLeast
  <1>4. Acyclic(F)
    <2>. SUFFICES ASSUME NEW x, NEW y, <<x, y>> \in F, x \in Under(F, {y})
                  PROVE  FALSE
      BY DEF Acyclic
    <2>1. x \in Types /\ y \in Types
      BY <1>1 DEF Edges
    <2>2. CASE <<x, y>> \in E
      <3>1. x \in W
        BY <1>3, <2>1, <2>2 DEF Acyclic
      <3>2. y \in W
        BY <1>2, <2>2, <3>1 DEF Closed
      <3>3. Under(F, {y}) \subseteq W
        BY <1>1, <1>2, <2>1, <3>2, UnderLeast
      <3>4. t \in Under(E, {y})
        <4>. SUFFICES ASSUME t \notin Under(E, {y}) PROVE FALSE
          OBVIOUS
        <4>1. y \in Under(E, {y}) /\ Closed(E, Under(E, {y}))
          BY <2>1, UnderLeast
        <4>2. Closed(F, Under(E, {y}))
          BY <4>1 DEF Closed
        <4>3. x \in Under(E, {y})
          BY <1>1, <2>1, <4>1, <4>2, UnderLeast
        <4>. QED BY <2>2, <4>3 DEF Acyclic
      <3>5. Under(E, {y}) \subseteq W
        BY <1>2, <2>1, <3>2, UnderLeast
      <3>. QED BY <3>4, <3>5
    <2>3. CASE <<x, y>> = <<t, u>>
      <3>1. Under(F, {u}) \subseteq W
        BY <1>1, <1>2, UnderLeast
      <3>. QED BY <2>3, <3>1
    <2>. QED BY <2>2, <2>3
  <1>. QED BY <1>1, <1>4, FewerAcyclic

(***************************************************************************)
(* In an acyclic graph over N, those of N that nothing of N contains reach *)
(* all of N: of what they miss, one with the most below it has nothing     *)
(* above it.                                                               *)
(***************************************************************************)
LEMMA RootsReach ==
  ASSUME NEW E \in Edges, Acyclic(E), NEW N \in SUBSET Types, NEW R,
         R = {t \in N : \A u \in N : <<u, t>> \notin E}
  PROVE  N \subseteq Under(E, R)
  <1>. DEFINE U == N \ Under(E, R)
  <1>. SUFFICES ASSUME U # {} PROVE FALSE
    OBVIOUS
  <1>1. R \in SUBSET Types /\ R \subseteq Under(E, R) /\ Closed(E, Under(E, R))
    BY UnderLeast
  <1>2. ASSUME NEW t \in U
        PROVE  \E u \in U : <<u, t>> \in E
    <2>1. t \notin R
      BY <1>1
    <2>2. PICK u \in N : <<u, t>> \in E
      BY <2>1
    <2>. QED BY <1>1, <2>2 DEF Closed
  <1>. DEFINE missed(t) == Cardinality(Types) - Cardinality(Under(E, {t}))
  <1>3. \A t \in Types : /\ Under(E, {t}) \subseteq Types
                         /\ IsFiniteSet(Under(E, {t})) /\ Cardinality(Under(E, {t})) \in Nat
                         /\ Cardinality(Under(E, {t})) <= Cardinality(Types)
    BY UnderLeast, FiniteAssumption, FS_Subset, FS_CardinalityType
  <1>4. Cardinality(Types) \in Nat
    BY FiniteAssumption, FS_CardinalityType
  <1>5. ASSUME NEW t \in U
        PROVE  missed(t) \in Nat
    <2>1. t \in Types
      OBVIOUS
    <2>2. PICK n, m : n = Cardinality(Types) /\ m = Cardinality(Under(E, {t}))
      OBVIOUS
    <2>3. n \in Nat /\ m \in Nat /\ m <= n
      BY <1>3, <1>4, <2>1, <2>2
    <2>4. n - m \in Nat
      BY <2>3
    <2>. QED BY <2>2, <2>4
  <1>6. PICK t \in U : \A u \in U : missed(t) <= missed(u)
    <2>. HIDE DEF missed
    <2>1. PICK T : T = {missed(u) : u \in U}
      OBVIOUS
    <2>2. T \subseteq Nat /\ T # {}
      BY <1>5, <2>1
    <2>3. PICK n \in T : \A m \in T : n <= m
      BY <2>2, Smallest
    <2>4. PICK t \in U : n = missed(t)
      BY <2>1
    <2>5. \A u \in U : missed(u) \in T
      BY <2>1
    <2>. QED BY <2>3, <2>4, <2>5
  <1>7. PICK u \in U : <<u, t>> \in E
    BY <1>2
  <1>8. u \notin Under(E, {t})
    BY <1>7 DEF Acyclic
  <1>9. Under(E, {t}) \subseteq Under(E, {u}) /\ u \in Under(E, {u})
    <2>1. u \in Under(E, {u}) /\ t \in Under(E, {u}) /\ Closed(E, Under(E, {u}))
      BY <1>7, UnderLeast DEF Closed
    <2>. QED BY <2>1, UnderLeast
  <1>10. Cardinality(Under(E, {t})) < Cardinality(Under(E, {u}))
    <2>1. PICK V, W : V = Under(E, {t}) /\ W = Under(E, {u})
      OBVIOUS
    <2>2. t \in Types /\ u \in Types
      OBVIOUS
    <2>3. IsFiniteSet(W) /\ Cardinality(W) \in Nat /\ Cardinality(V) \in Nat
      BY <1>3, <2>1, <2>2
    <2>4. V \in SUBSET W /\ V # W
      BY <1>8, <1>9, <2>1
    <2>5. Cardinality(V) < Cardinality(W)
      BY <2>3, <2>4, FS_Subset
    <2>. QED BY <2>1, <2>5
  <1>11. missed(t) <= missed(u)
    BY <1>6
  <1>12. t \in Types /\ u \in Types
    OBVIOUS
  <1>. HIDE DEF U
  <1>. QED BY <1>3, <1>4, <1>10, <1>11, <1>12
=============================================================================
