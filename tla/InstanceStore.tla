--------------------------- MODULE InstanceStore ---------------------------
(***************************************************************************)
(* The instances of the catalogs: their rows with a version and a parent,  *)
(* the attribute values kept for each version, and the links between       *)
(* instances, as the InstanceService changes them.                         *)
(*                                                                         *)
(* Only BumpInstanceVersion runs in a transaction.  Everything else is a   *)
(* sequence of statements, one action each, so requests interleave between *)
(* a read and the Save of the whole row that was read.  The catalog and    *)
(* the schema are resolved at the start of a request and are constant      *)
(* here; the reset of the catalog's status, the last statement of every    *)
(* mutation, belongs to CatalogPublish (MutateReset).                      *)
(***************************************************************************)
EXTENDS Naturals, Sequences, FiniteSets

CONSTANTS
    Insts,       \* instance ids (a UUID is never handed out twice)
    LinkIds,     \* link ids, likewise
    Catalogs,
    Types,       \* entity types
    Names,
    Attrs,       \* attributes (every type has all of them)
    Values,      \* attribute values
    Contains,    \* containment associations: <<containing type, contained type>>
    Assocs,      \* the associations a link may name (of any kind)
    ListLimit,   \* how many children the cascade lists: 1000 in the code
    MaxDepth,    \* recursion depth at which the cascade exhausts the stack
    Reqs, Ops, Faults,
    NoRow, NoLink, NoInst, None  \* "absent" values

Operations == {"create", "contain", "update", "delete", "setParent", "link", "unlink"}

ASSUME StoreAssumption ==
    /\ Contains \subseteq Types \X Types
    /\ Assocs \subseteq [from : Types, to : Types, both : BOOLEAN]
    /\ ListLimit \in Nat /\ MaxDepth \in Nat
    /\ Ops \subseteq Operations
    /\ Faults \subseteq {"db", "badInput"}
    /\ NoInst \notin Insts

(***************************************************************************)
(* A parent of NoInst is the empty string of a top-level instance.         *)
(***************************************************************************)
Row == [catalog : Catalogs, type : Types, parent : Insts \cup {NoInst},
        name : Names, version : Nat]

Link == [assoc : Assocs, from : Insts, to : Insts]

(***************************************************************************)
(* A row of instance_attribute_values; an attribute that was never set or  *)
(* has been cleared has none.                                              *)
(***************************************************************************)
Cell == [id : Insts, version : Nat, attr : Attrs, value : Values]

(***************************************************************************)
(* A call of cascadeDelete: the instance, and its children still to visit. *)
(***************************************************************************)
Frame == [id : Insts \cup {NoInst}, kids : SUBSET Insts]

Steps == {"idle", "insert", "values", "readValues", "save", "setValues", "cascade",
          "dropRow", "readOther", "checkName", "checkLink", "insertLink",
          "dropLink", "bump", "readOld", "bumpOther"}

(***************************************************************************)
(* A request: its operation, the statement it executes next, its           *)
(* arguments, and the rows it remembers.  `other' is the parent of a       *)
(* contained or moved instance and the target of a link; `attr' is the     *)
(* attribute a create or an update gives a value, None clears it.          *)
(***************************************************************************)
Request == [op : Operations \cup {"none"}, pc : Steps,
            id : Insts \cup {NoInst}, row : Row \cup {NoRow},
            other : Insts \cup {NoInst}, otherRow : Row \cup {NoRow},
            link : LinkIds \cup {None}, assoc : Assocs \cup {None},
            name : Names \cup {None}, attr : Attrs \cup {None},
            value : Values \cup {None}, cells : SUBSET Cell, stack : Seq(Frame)]

Idle == [op |-> "none", pc |-> "idle", id |-> NoInst, row |-> NoRow,
         other |-> NoInst, otherRow |-> NoRow, link |-> None, assoc |-> None,
         name |-> None, attr |-> None, value |-> None,
         cells |-> {}, stack |-> << >>]

ASSUME StoreAbsentAssumption == NoRow \notin Row /\ NoLink \notin Link

VARIABLES
    inst,     \* entity_instances; of a deleted instance, the last row (history)
    live,     \* the ids that have a row
    cells,    \* instance_attribute_values
    links,    \* association_links: id -> link
    usedLinks,\* link ids handed out so far
    req,      \* the requests being handled
    trouble   \* history: "overlap", and the failures that have happened

vars == <<inst, live, cells, links, usedLinks, req, trouble>>
rows == <<inst, live>>
linkTable == <<links, usedLinks>>

TypeOK ==
    /\ inst \in [Insts -> Row \cup {NoRow}]
    /\ live \subseteq Insts
    /\ cells \subseteq Cell
    /\ links \in [LinkIds -> Link \cup {NoLink}]
    /\ usedLinks \subseteq LinkIds
    /\ req \in [Reqs -> Request]
    /\ trouble \subseteq {"overlap", "db", "badInput", "overflow"}

Init ==
    /\ inst = [i \in Insts |-> NoRow]
    /\ live = {}
    /\ cells = {}
    /\ links = [l \in LinkIds |-> NoLink]
    /\ usedLinks = {}
    /\ req = [q \in Reqs |-> Idle]
    /\ trouble = {}

-----------------------------------------------------------------------------
(***************************************************************************)
(* Vocabulary.  A request starts with its first read, which a rejected     *)
(* request does not get past.                                              *)
(***************************************************************************)
Unborn == {i \in Insts : inst[i] = NoRow}

Children(i) == {c \in live : inst[c].parent = i}

LiveLinks == {l \in LinkIds : links[l] # NoLink}

At(q, op, pc) == req[q].op = op /\ req[q].pc = pc

Goto(q, pc) == req' = [req EXCEPT ![q].pc = pc]

Finish(q) == req' = [req EXCEPT ![q] = Idle]

Start(q, r) ==
    /\ req[q].pc = "idle" /\ r.op \in Ops
    /\ req' = [req EXCEPT ![q] = r]
    /\ trouble' = IF \E p \in Reqs \ {q} : req[p].pc # "idle"
                    THEN trouble \cup {"overlap"} ELSE trouble

(***************************************************************************)
(* The unique index idx_instance_scope.                                    *)
(***************************************************************************)
NameFree(i, r) ==
    \A j \in live \ {i} : \/ inst[j].type # r.type \/ inst[j].catalog # r.catalog
                          \/ inst[j].parent # r.parent \/ inst[j].name # r.name

(***************************************************************************)
(* gorm's Save updates the whole row, and inserts it if it is gone.        *)
(***************************************************************************)
Save(i, r) == inst' = [inst EXCEPT ![i] = r] /\ live' = live \cup {i}

CellsOf(i, v) == {c \in cells : c.id = i /\ c.version = v}

(***************************************************************************)
(* The attribute and the value a request gives, if any, and what it brings *)
(* for version v of i.                                                     *)
(***************************************************************************)
Inputs == {<<None, None>>} \cup (Attrs \X (Values \cup {None}))

(* MUTANT: a cleared attribute is stored as an empty value. *)
GivenEmpty(r, i, v) ==
    IF r.attr = None THEN {}
      ELSE {[id |-> i, version |-> v, attr |-> r.attr, value |-> r.value]}

Given(r, i, v) ==
    IF r.attr = None \/ r.value = None THEN {}
      ELSE {[id |-> i, version |-> v, attr |-> r.attr, value |-> r.value]}

-----------------------------------------------------------------------------
(***************************************************************************)
(* CreateInstance and CreateContainedInstance.  The row is inserted before *)
(* the values are looked at.  The containing type is found under the name  *)
(* the caller gives; the parent's own type is not compared with it.        *)
(***************************************************************************)
NewRow(c, t, p, n) ==
    [catalog |-> c, type |-> t, parent |-> p, name |-> n, version |-> 1]

Contained(t) == \E p \in Types : <<p, t>> \in Contains

CreateRead(q) ==
    \E c \in Catalogs, t \in Types, n \in Names, ax \in Inputs :
       /\ Start(q, [Idle EXCEPT !.op = "create", !.pc = "insert",
                                !.row = NewRow(c, t, NoInst, n), !.attr = ax[1], !.value = ax[2]])
       /\ UNCHANGED <<rows, cells, linkTable>>

ContainRead(q) ==
    \E p \in live, t \in Types, n \in Names, ax \in Inputs :
       /\ Contained(t)
       /\ Start(q, [Idle EXCEPT !.op = "contain", !.pc = "insert", !.other = p,
                                !.otherRow = inst[p],
                                !.row = NewRow(inst[p].catalog, t, p, n),
                                !.attr = ax[1], !.value = ax[2]])
       /\ UNCHANGED <<rows, cells, linkTable>>

(***************************************************************************)
(* Insts bounds the ids: once all are used an insertion fails.             *)
(***************************************************************************)
CreateInsert(q) ==
    /\ req[q].pc = "insert"
    /\ \/ \E i \in Unborn :
            /\ NameFree(i, req[q].row)
            /\ Save(i, req[q].row)
            /\ req' = [req EXCEPT ![q].id = i, ![q].pc = "values"]
       \/ /\ \A i \in Unborn : ~NameFree(i, req[q].row)
          /\ Finish(q)
          /\ UNCHANGED rows
    /\ UNCHANGED <<cells, linkTable, trouble>>

CreateValues(q) ==
    /\ req[q].pc = "values"
    /\ cells' = cells \cup Given(req[q], req[q].id, 1)
    /\ IF req[q].op = "contain" THEN Goto(q, "bumpOther") ELSE Finish(q)
    /\ UNCHANGED <<rows, linkTable, trouble>>

CreateRejected(q) ==
    /\ "badInput" \in Faults
    /\ req[q].pc = "values" /\ req[q].attr # None
    /\ Finish(q)
    /\ trouble' = trouble \cup {"badInput"}
    /\ UNCHANGED <<rows, cells, linkTable>>

-----------------------------------------------------------------------------
(***************************************************************************)
(* UpdateInstance: the version the caller names is compared with the row   *)
(* read, then the whole row is saved by id, then the values are inserted.  *)
(* The unique index idx_iav_unique refuses a second value of an attribute. *)
(***************************************************************************)
(* MUTANT: the caller's version is not compared. *)
AcceptsAny(i, v) == v <= inst[i].version

Accepts(i, v) == inst[i].version = v

UpdateRead(q) ==
    \E i \in live, n \in Names \cup {None}, ax \in Inputs :
      \E v \in 1..inst[i].version :
       /\ Accepts(i, v)
       /\ Start(q, [Idle EXCEPT !.op = "update", !.pc = "readValues", !.id = i,
                                !.row = [inst[i] EXCEPT !.version = v],
                                !.name = n, !.attr = ax[1], !.value = ax[2]])
       /\ UNCHANGED <<rows, cells, linkTable>>

UpdateReadValues(q) ==
    /\ At(q, "update", "readValues")
    /\ LET r == req[q]
           v == r.row.version
           kept == {c \in CellsOf(r.id, v) : c.attr # r.attr}
       IN req' = [req EXCEPT ![q].pc = "save",
                             ![q].cells = {[c EXCEPT !.version = v + 1] : c \in kept}
                                            \cup Given(r, r.id, v + 1)]
    /\ UNCHANGED <<rows, cells, linkTable, trouble>>

UpdateSave(q) ==
    /\ At(q, "update", "save")
    /\ LET r == req[q]
           new == [r.row EXCEPT !.name = IF r.name = None THEN @ ELSE r.name,
                                !.version = @ + 1]
       IN IF NameFree(r.id, new)
            THEN Save(r.id, new) /\ Goto(q, "setValues")
            ELSE Finish(q) /\ UNCHANGED rows
    /\ UNCHANGED <<cells, linkTable, trouble>>

UpdateSetValues(q) ==
    /\ At(q, "update", "setValues")
    /\ cells' = IF \E c \in req[q].cells : \E d \in CellsOf(c.id, c.version) : d.attr = c.attr
                  THEN cells ELSE cells \cup req[q].cells
    /\ Finish(q)
    /\ UNCHANGED <<rows, linkTable, trouble>>

-----------------------------------------------------------------------------
(***************************************************************************)
(* BumpInstanceVersion, one transaction: replace the values of the next    *)
(* version by a copy of the current ones, save the row as it was read.     *)
(***************************************************************************)
(* MUTANT: the values are not carried forward. *)
BumpedCellsLost(i, v) == cells \ CellsOf(i, v + 1)

(* MUTANT: the values are moved to the next version. *)
BumpedCellsMoved(i, v) ==
    (cells \ CellsOf(i, v)) \cup {[c EXCEPT !.version = v + 1] : c \in CellsOf(i, v)}

BumpedCells(i, v) ==
    (cells \ CellsOf(i, v + 1)) \cup {[c EXCEPT !.version = v + 1] : c \in CellsOf(i, v)}

Bump(i, r) ==
    /\ Save(i, [r EXCEPT !.version = @ + 1])
    /\ cells' = BumpedCells(i, r.version)

(***************************************************************************)
(* What follows the bump of the first instance: the parent, as it was read *)
(* before; the former parent, read afresh; or the target of a link that    *)
(* goes both ways.                                                         *)
(***************************************************************************)
AfterMove(r) ==
    CASE r.other # NoInst -> "bumpOther"
      [] r.other = NoInst /\ r.row.parent # NoInst -> "readOld"
      [] OTHER -> "idle"

AfterLink(r) == IF r.assoc.both THEN "bumpOther" ELSE "idle"

AfterBump(r) == IF r.op = "setParent" THEN AfterMove(r) ELSE AfterLink(r)

BumpFirst(q) ==
    /\ req[q].pc = "bump"
    /\ LET r == req[q]
           new == IF r.op = "setParent" THEN [r.row EXCEPT !.parent = r.other] ELSE r.row
       IN IF NameFree(r.id, new)
            THEN /\ Bump(r.id, new)
                 /\ IF AfterBump(r) = "idle" THEN Finish(q) ELSE Goto(q, AfterBump(r))
            ELSE Finish(q) /\ UNCHANGED <<rows, cells>>
    /\ UNCHANGED <<linkTable, trouble>>

BumpOther(q) ==
    /\ req[q].pc = "bumpOther"
    /\ IF NameFree(req[q].other, req[q].otherRow)
         THEN Bump(req[q].other, req[q].otherRow)
         ELSE UNCHANGED <<rows, cells>>
    /\ Finish(q)
    /\ UNCHANGED <<linkTable, trouble>>

-----------------------------------------------------------------------------
(***************************************************************************)
(* SetParent.  That containment is acyclic is left to the schema; the new  *)
(* parent may be a descendant, or the instance itself, if its type is.     *)
(***************************************************************************)
SetParentRead(q) ==
    \E i \in live, p \in Insts \cup {NoInst} :
       /\ Start(q, [Idle EXCEPT !.op = "setParent", !.id = i, !.row = inst[i], !.other = p,
                                !.pc = IF p = NoInst THEN "checkName" ELSE "readOther"])
       /\ UNCHANGED <<rows, cells, linkTable>>

(* MUTANT: the parent may belong to another catalog. *)
MayContainAnywhere(r) == r.other \in live /\ Contained(r.row.type)

MayContain(r) ==
    /\ r.other \in live
    /\ inst[r.other].catalog = r.row.catalog
    /\ Contained(r.row.type)

SetParentReadParent(q) ==
    /\ At(q, "setParent", "readOther")
    /\ IF MayContain(req[q])
         THEN req' = [req EXCEPT ![q].otherRow = inst[req[q].other], ![q].pc = "checkName"]
         ELSE Finish(q)
    /\ UNCHANGED <<rows, cells, linkTable, trouble>>

SetParentCheckName(q) ==
    /\ At(q, "setParent", "checkName")
    /\ IF NameFree(req[q].id, [req[q].row EXCEPT !.parent = req[q].other])
         THEN Goto(q, "bump") ELSE Finish(q)
    /\ UNCHANGED <<rows, cells, linkTable, trouble>>

SetParentReadOld(q) ==
    /\ At(q, "setParent", "readOld")
    /\ LET p == req[q].row.parent IN
         IF p \in live
           THEN req' = [req EXCEPT ![q].other = p, ![q].otherRow = inst[p],
                                   ![q].pc = "bumpOther"]
           ELSE Finish(q)
    /\ UNCHANGED <<rows, cells, linkTable, trouble>>

-----------------------------------------------------------------------------
(***************************************************************************)
(* CreateAssociationLink and DeleteAssociationLink.  An association is     *)
(* looked up under the type the caller names, else, if it goes both ways,  *)
(* under the target's type.                                                *)
(***************************************************************************)
LinkRead(q) ==
    \E i \in live, j \in Insts, a \in Assocs :
       /\ Start(q, [Idle EXCEPT !.op = "link", !.pc = "readOther", !.id = i,
                                !.row = inst[i], !.other = j, !.assoc = a])
       /\ UNCHANGED <<rows, cells, linkTable>>

Fits(a, source, target) ==
    \/ target.type = a.to
    \/ a.both /\ target.type = a.from /\ source.type = a.to

(* MUTANT: the target's type is not checked. *)
MayLinkUntyped(r) ==
    r.other \in live /\ inst[r.other].catalog = r.row.catalog

MayLink(r) ==
    /\ r.other \in live
    /\ inst[r.other].catalog = r.row.catalog
    /\ Fits(r.assoc, r.row, inst[r.other])

LinkReadTarget(q) ==
    /\ At(q, "link", "readOther")
    /\ IF MayLink(req[q])
         THEN req' = [req EXCEPT ![q].otherRow = inst[req[q].other], ![q].pc = "checkLink"]
         ELSE Finish(q)
    /\ UNCHANGED <<rows, cells, linkTable, trouble>>

LinkOf(r) == [assoc |-> r.assoc, from |-> r.id, to |-> r.other]

(* MUTANT: an existing link is not looked for. *)
LinkUnchecked(q) ==
    /\ At(q, "link", "checkLink")
    /\ Goto(q, "insertLink")
    /\ UNCHANGED <<rows, cells, linkTable, trouble>>

LinkCheck(q) ==
    /\ At(q, "link", "checkLink")
    /\ IF \E l \in LiveLinks : links[l] = LinkOf(req[q])
         THEN Finish(q) ELSE Goto(q, "insertLink")
    /\ UNCHANGED <<rows, cells, linkTable, trouble>>

(***************************************************************************)
(* LinkIds bounds the ids: once all are used an insertion fails.           *)
(***************************************************************************)
LinkInsert(q) ==
    /\ At(q, "link", "insertLink")
    /\ \/ \E l \in LinkIds \ usedLinks :
             /\ links' = [links EXCEPT ![l] = LinkOf(req[q])]
             /\ usedLinks' = usedLinks \cup {l}
             /\ Goto(q, "bump")
       \/ usedLinks = LinkIds /\ Finish(q) /\ UNCHANGED linkTable
    /\ UNCHANGED <<rows, cells, trouble>>

(***************************************************************************)
(* The link is found with its source, then the target is read.             *)
(***************************************************************************)
UnlinkRead(q) ==
    \E l \in LiveLinks :
       /\ links[l].from \in live
       /\ Start(q, [Idle EXCEPT !.op = "unlink", !.pc = "readOther", !.link = l,
                                !.id = links[l].from, !.row = inst[links[l].from],
                                !.other = links[l].to, !.assoc = links[l].assoc])
       /\ UNCHANGED <<rows, cells, linkTable>>

UnlinkReadTarget(q) ==
    /\ At(q, "unlink", "readOther")
    /\ IF req[q].other \in live
         THEN req' = [req EXCEPT ![q].otherRow = inst[req[q].other], ![q].pc = "dropLink"]
         ELSE Finish(q)
    /\ UNCHANGED <<rows, cells, linkTable, trouble>>

UnlinkDrop(q) ==
    /\ At(q, "unlink", "dropLink")
    /\ IF req[q].link \in LiveLinks
         THEN links' = [links EXCEPT ![req[q].link] = NoLink] /\ Goto(q, "bump")
         ELSE Finish(q) /\ UNCHANGED links
    /\ UNCHANGED <<rows, cells, usedLinks, trouble>>

-----------------------------------------------------------------------------
(***************************************************************************)
(* DeleteInstance: cascadeDelete visits the children first, then removes   *)
(* the links of an instance, then its row.  The frame at the bottom of the *)
(* stack stands for the caller.  Attribute values stay.                    *)
(***************************************************************************)
DeleteRead(q) ==
    \E i \in live :
       /\ Start(q, [Idle EXCEPT !.op = "delete", !.pc = "cascade", !.id = i,
                                !.stack = <<[id |-> NoInst, kids |-> {i}]>>])
       /\ UNCHANGED <<rows, cells, linkTable>>

Top(q) == req[q].stack[Len(req[q].stack)]

(***************************************************************************)
(* One page of children, no second page is asked for.                      *)
(***************************************************************************)
(* MUTANT: the children are not visited. *)
NoPage(i) == {{}}

Page(i) ==
    LET n == Cardinality(Children(i))
        m == IF n < ListLimit THEN n ELSE ListLimit
    IN {s \in SUBSET Children(i) : Cardinality(s) = m}

CascadeList(q) ==
    /\ At(q, "delete", "cascade")
    /\ Len(req[q].stack) < MaxDepth
    /\ LET s == req[q].stack IN
         \E k \in Top(q).kids : \E page \in Page(k) :
            req' = [req EXCEPT ![q].stack =
                      Append([s EXCEPT ![Len(s)].kids = @ \ {k}], [id |-> k, kids |-> page])]
    /\ UNCHANGED <<rows, cells, linkTable, trouble>>

(***************************************************************************)
(* The children of a cycle are visited without end, until the stack of the *)
(* process is exhausted, and all its requests with it.                     *)
(***************************************************************************)
CascadeOverflows(q) ==
    /\ At(q, "delete", "cascade")
    /\ Len(req[q].stack) >= MaxDepth /\ Top(q).kids # {}
    /\ req' = [p \in Reqs |-> Idle]
    /\ trouble' = trouble \cup {"overflow"}
    /\ UNCHANGED <<rows, cells, linkTable>>

CascadeUnlink(q) ==
    /\ At(q, "delete", "cascade")
    /\ Top(q).kids = {}
    /\ links' = [l \in LinkIds |-> IF links[l] # NoLink /\ Top(q).id \in {links[l].from, links[l].to}
                                     THEN NoLink ELSE links[l]]
    /\ Goto(q, "dropRow")
    /\ UNCHANGED <<rows, cells, usedLinks, trouble>>

(***************************************************************************)
(* A row that is already gone is an error, which ends the whole cascade.   *)
(***************************************************************************)
CascadeDropRow(q) ==
    /\ At(q, "delete", "dropRow")
    /\ live' = live \ {Top(q).id}
    /\ LET s == req[q].stack IN
         IF Top(q).id \notin live \/ Len(s) = 2
           THEN Finish(q)
           ELSE req' = [req EXCEPT ![q].stack = SubSeq(s, 1, Len(s) - 1), ![q].pc = "cascade"]
    /\ UNCHANGED <<inst, cells, linkTable, trouble>>

-----------------------------------------------------------------------------
(***************************************************************************)
(* A statement fails, or the client has hung up, or the process has died:  *)
(* the request ends there.                                                 *)
(***************************************************************************)
DBFails(q) ==
    /\ "db" \in Faults
    /\ req[q].pc # "idle"
    /\ Finish(q)
    /\ trouble' = trouble \cup {"db"}
    /\ UNCHANGED <<rows, cells, linkTable>>

Handle(q) ==
    \/ CreateRead(q) \/ ContainRead(q) \/ CreateInsert(q) \/ CreateValues(q) \/ CreateRejected(q)
    \/ UpdateRead(q) \/ UpdateReadValues(q) \/ UpdateSave(q) \/ UpdateSetValues(q)
    \/ BumpFirst(q) \/ BumpOther(q)
    \/ SetParentRead(q) \/ SetParentReadParent(q) \/ SetParentCheckName(q) \/ SetParentReadOld(q)
    \/ LinkRead(q) \/ LinkReadTarget(q) \/ LinkCheck(q) \/ LinkInsert(q)
    \/ UnlinkRead(q) \/ UnlinkReadTarget(q) \/ UnlinkDrop(q)
    \/ DeleteRead(q) \/ CascadeList(q) \/ CascadeOverflows(q) \/ CascadeUnlink(q)
    \/ CascadeDropRow(q)
    \/ DBFails(q)

Next == \E q \in Reqs : Handle(q)

Spec == Init /\ [][Next]_vars

-----------------------------------------------------------------------------
(***************************************************************************)
(* Properties.                                                             *)
(***************************************************************************)
Quiescent == \A q \in Reqs : req[q].pc = "idle"

(***************************************************************************)
(* A parent and its child, and the ends of a link, belong to the same      *)
(* catalog, whatever requests interleave, also when a deleted parent comes *)
(* back: the checks of ContainRead, MayContain and MayLink, all on rows    *)
(* that may be stale, are enough, because no statement moves an instance.  *)
(***************************************************************************)
StaysInCatalog ==
    /\ \A i \in live : inst[i].parent \in live
         => inst[inst[i].parent].catalog = inst[i].catalog
    /\ \A l \in LiveLinks : {links[l].from, links[l].to} \subseteq live
         => inst[links[l].from].catalog = inst[links[l].to].catalog

(***************************************************************************)
(* A link leads to an instance of the type its association leads to, or,   *)
(* if that goes both ways, joins the two types in reverse, whatever        *)
(* requests interleave between the comparison of the types and the         *)
(* insertion.  (The type of a forward link's source is never compared.)    *)
(***************************************************************************)
LinksFit ==
    \A l \in LiveLinks : {links[l].from, links[l].to} \subseteq live
       => Fits(links[l].assoc, inst[links[l].from], inst[links[l].to])

(***************************************************************************)
(* As long as requests do not overlap, no instance has lost its parent and *)
(* no link an end, at any point of a cascading delete, and also when it    *)
(* fails halfway: children go before their parent and links before both.   *)
(***************************************************************************)
NoOrphans ==
    "overlap" \notin trouble =>
        /\ \A i \in live : inst[i].parent \in live \cup {NoInst}
        /\ \A l \in LiveLinks : {links[l].from, links[l].to} \subseteq live

(***************************************************************************)
(* As long as requests do not overlap, the same two instances are not      *)
(* linked twice by the same association.                                   *)
(***************************************************************************)
NoDuplicateLinks ==
    "overlap" \notin trouble =>
        \A l, m \in LiveLinks : links[l] = links[m] => l = m

(***************************************************************************)
(* An update changes at most the attribute it names, and no other mutation *)
(* changes any: between two versions of an instance at most one attribute  *)
(* differs, when requests neither overlapped nor failed (an update that    *)
(* fails between the row and the values leaves a version without values).  *)
(***************************************************************************)
ValuesAt(i, v, a) == {c.value : c \in {d \in CellsOf(i, v) : d.attr = a}}

CarriedForward ==
    Quiescent /\ trouble = {} =>
        \A i \in live : \A v \in 1..(inst[i].version - 1) :
            Cardinality({a \in Attrs : ValuesAt(i, v, a) # ValuesAt(i, v + 1, a)}) <= 1

(***************************************************************************)
(* As long as requests do not overlap, the values of a version that an     *)
(* instance has reached are never removed, and none are added to a version *)
(* it has left: what an instance was at a version can be read later.       *)
(***************************************************************************)
HistoryRetained ==
    [][ "overlap" \notin trouble' =>
          /\ \A c \in cells \ cells' : c.version > inst[c.id].version
          /\ \A c \in cells' \ cells : c.version >= inst[c.id].version ]_vars

(***************************************************************************)
(* As long as requests do not overlap, versions are counted one by one,    *)
(* and an instance does not change its name within a version.              *)
(***************************************************************************)
VersionsAdvance ==
    [][ "overlap" \notin trouble' =>
          \A i \in live \cap live' :
             \/ inst'[i].version = inst[i].version + 1
             \/ inst'[i].version = inst[i].version /\ inst'[i].name = inst[i].name ]_vars

(***************************************************************************)
(* Optimistic locking as docs/architecture.md, section 9, describes it: an *)
(* update is applied only to the version its caller named.                 *)
(***************************************************************************)
UpdatesTheNamedVersion ==
    [][ \A q \in Reqs :
          At(q, "update", "save") /\ req'[q].pc = "setValues" =>
             req[q].id \in live /\ inst[req[q].id].version = req[q].row.version ]_vars

-----------------------------------------------------------------------------
(***************************************************************************)
(* The inductive invariant behind StaysInCatalog and LinksFit.  A row once *)
(* given to an id keeps its catalog and its type, even in the memory of a  *)
(* request and after a deletion, so what was checked on a stale row still  *)
(* holds when the row is saved.  `t' is the table of rows.                 *)
(***************************************************************************)
Rooted(t, r) ==
    r.parent # NoInst => t[r.parent] # NoRow /\ t[r.parent].catalog = r.catalog

Agrees(t, i, r) ==
    /\ i \in Insts /\ r \in Row
    /\ t[i] # NoRow /\ r.catalog = t[i].catalog /\ r.type = t[i].type
    /\ Rooted(t, r)

Linkable(t, a, i, j) ==
    /\ i \in Insts /\ j \in Insts
    /\ t[i] # NoRow /\ t[j] # NoRow
    /\ t[i].catalog = t[j].catalog
    /\ Fits(a, t[i], t[j])

(***************************************************************************)
(* The rows a request holds at each step, and its cascade's frames.        *)
(***************************************************************************)
RowsHeld(t, r) ==
    /\ r.pc = "insert" => r.row \in Row /\ Rooted(t, r.row)
    /\ r.pc = "values" => r.id \in Insts
    /\ r.pc \in {"readValues", "save", "readOther", "checkName", "checkLink", "insertLink",
                 "dropLink", "bump", "readOld"} => Agrees(t, r.id, r.row)
    /\ r.otherRow # NoRow => Agrees(t, r.other, r.otherRow)
    /\ r.pc = "bumpOther" \/ r.op = "contain" => r.otherRow # NoRow

Checked(t, r) ==
    /\ r.pc = "bump" => r.op \in {"setParent", "link", "unlink"}
    /\ r.op = "setParent" /\ r.pc \in {"checkName", "bump"} /\ r.other # NoInst
         => r.otherRow # NoRow /\ t[r.other].catalog = r.row.catalog
    /\ r.op = "link" => r.assoc \in Assocs
    /\ r.op = "link" /\ r.pc \in {"checkLink", "insertLink", "bump"}
         => r.otherRow # NoRow /\ Linkable(t, r.assoc, r.id, r.other)
    /\ r.op = "unlink" /\ r.pc \in {"dropLink", "bump"} => r.otherRow # NoRow

Stacked(r) ==
    LET s == r.stack IN
    /\ r.pc = "cascade" => Len(s) >= 2 \/ (Len(s) = 1 /\ s[1].kids # {})
    /\ r.pc = "dropRow" => Len(s) >= 2

Held(t, r) == RowsHeld(t, r) /\ Checked(t, r) /\ Stacked(r)

RequestInv == \A q \in Reqs : Held(inst, req[q])

RowInv == \A i \in Insts : inst[i] # NoRow => Rooted(inst, inst[i])

LinkInv ==
    \A l \in LiveLinks : Linkable(inst, links[l].assoc, links[l].from, links[l].to)

IInv ==
    /\ TypeOK /\ RequestInv /\ RowInv /\ LinkInv
    /\ \A i \in live : inst[i] # NoRow

=============================================================================
