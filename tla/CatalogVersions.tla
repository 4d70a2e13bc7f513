-------------------------- MODULE CatalogVersions --------------------------
(***************************************************************************)
(* Catalog versions: the bill of materials that pins entity type versions, *)
(* its lifecycle stage with the log of the transitions, the CatalogVersion *)
(* custom resource that shows a promoted one to the cluster, and what a    *)
(* change of a pin does to the catalogs built on it, as                    *)
(* CatalogVersionService does it.                                          *)
(*                                                                         *)
(* Composes with the schema of EntityTypes, which it extends: one table of *)
(* requests, one set of histories.  Only the body of UpdatePin runs in a   *)
(* transaction, and the repository of the pins does not take part in it.   *)
(***************************************************************************)
EXTENDS EntityTypes

CONSTANTS
    Labels,      \* version labels
    CRNames,     \* names of custom resources
    CRName,      \* SanitizeK8sName: label -> name, None when nothing is left of it
    Catalogs,
    MaxLog       \* bound on the transitions of a catalog version

ASSUME VersionsAssumption ==
    /\ CRName \in [Labels -> CRNames \cup {None}]
    /\ MaxLog \in Nat
    /\ None \notin CRNames \cup Labels \cup CVs \cup Pins

Stages == {"development", "testing", "production"}
Roles == {"RW", "Admin", "SuperAdmin"}  \* the routes admit nobody below

CVOps == {"createCV", "promote", "demote", "deleteCV", "updateCV", "addPin", "updatePin",
          "removePin", "createCatalog", "validate", "setValue"}

Version == [live : BOOLEAN, label : Labels, stage : Stages]

Pin == [cv : CVs, type : Types, ver : Nat]

(***************************************************************************)
(* A catalog: its catalog version, the result of the last validation and,  *)
(* as a history, the pins that validation has looked at.                   *)
(***************************************************************************)
Catalog == [cv : CVs, status : {"draft", "valid", "invalid"},
            checked : SUBSET (Types \X Nat)]

(* None, where a row may be missing, is not a row. *)
ASSUME RowsAssumption ==
    None \notin Version \cup Pin \cup Catalog \cup [source : CVs, stage : Stages]

(***************************************************************************)
(* An attribute value of the instance a catalog has of each type.  An      *)
(* attribute row is named by type, version and name; `root' is the         *)
(* attribute the user gave the value to (history).                         *)
(***************************************************************************)
Cell == [catalog : Catalogs, type : Types, ver : Nat, name : Fields, root : Root]

CVRequest ==
    [op : CVOps, pc : {"stage", "log", "cr", "drop", "dropCR", "save", "pins", "insertPin",
                       "remap", "savePin", "commit", "dropPin", "list", "reset"},
     cv : CVs, from : Stages \cup {None}, to : Stages \cup {None},
     row : Version \cup {None}, pin : Pins \cup {None}, new : Pin \cup {None},
     todo : SUBSET (Types \X Nat), again : SUBSET (Types \X Nat), moves : SUBSET (Fields \X Fields),
     cells : SUBSET Cell, cats : SUBSET Catalogs]

NewCV == [op |-> "createCV", pc |-> "pins", cv |-> None, from |-> None, to |-> None,
          row |-> None, pin |-> None, new |-> None, todo |-> {}, again |-> {},
          moves |-> {}, cells |-> {}, cats |-> {}]

VARIABLES
    log,       \* lifecycle_transitions: the stages each version has entered
    crs,       \* the CatalogVersion resources: name -> what it says, or None
    catalogs,  \* catalogs: id -> row or None
    cells      \* instance_attribute_values of the catalogs

versionVars == <<cv, pins, log, crs>>
catalogVars == <<catalogs, cells>>
vars == <<schema, definitions, versionVars, catalogVars, req, load, trouble>>

SchemaTypeOK ==
    /\ TypesOK
    /\ cv \in [CVs -> Version \cup {None}]
    /\ pins \in [Pins -> Pin \cup {None}]
    /\ log \in [CVs -> Seq([from : Stages \cup {None}, to : Stages])]
    /\ crs \in [CRNames -> [source : CVs, stage : Stages] \cup {None}]
    /\ catalogs \in [Catalogs -> Catalog \cup {None}]
    /\ cells \subseteq Cell
    /\ \A q \in Reqs : req[q].op \in CVOps => req[q] \in CVRequest
    /\ trouble \subseteq {"overlap", "db", "k8s", "copied", "retyped", "deleted", "double",
                          "relabelled", "sharedName", "noName", "repinned", "jumped", "ties",
                          "reordered", "untyped", "unknown", "repeated"}

Init ==
    /\ TypesInit
    /\ cv = [c \in CVs |-> None]
    /\ pins = [p \in Pins |-> None]
    /\ log = [c \in CVs |-> << >>]
    /\ crs = [n \in CRNames |-> None]
    /\ catalogs = [c \in Catalogs |-> None]
    /\ cells = {}

-----------------------------------------------------------------------------
(***************************************************************************)
(* Vocabulary.                                                             *)
(***************************************************************************)
Live == {c \in CVs : cv[c] # None /\ cv[c].live}

LabelUsed(l) == \E c \in Live : cv[c].label = l

PinsOf(c) == {p \in Pins : pins[p] # None /\ pins[p].cv = c}

PinnedVersions(c) == {<<pins[p].type, pins[p].ver>> : p \in PinsOf(c)}

BuiltOn(c) == {k \in Catalogs : catalogs[k] # None /\ catalogs[k].cv = c}

AtCV(q, op, pc) == req[q].op = op /\ req[q].pc = pc

(***************************************************************************)
(* The reads of a request reject it or let it go on to its first write.    *)
(***************************************************************************)
StartCV(q, r, flaws) ==
    /\ Start(q, r, flaws)
    /\ UNCHANGED <<schema, definitions, versionVars, catalogVars, load>>

(***************************************************************************)
(* A label whose resource would have the name of another's.                *)
(***************************************************************************)
LabelFlaws(c, l) ==
    IF \E d \in Live \ {c} : CRName[cv[d].label] = CRName[l] THEN {"sharedName"} ELSE {}

CVFail(q) ==
    /\ OneFailure
    /\ req[q].op \in CVOps
    /\ Finish(q)
    /\ trouble' = trouble \cup {IF req[q].pc \in {"cr", "dropCR"} THEN "k8s" ELSE "db"}
    /\ UNCHANGED <<schema, definitions, versionVars, catalogVars, load>>

-----------------------------------------------------------------------------
(***************************************************************************)
(* CreateCatalogVersion: the row, the pins one by one, the first entry of  *)
(* the log.  The list of versions to pin is taken as it comes: it may name *)
(* an id that is of no version (here a version 0), a version more than     *)
(* once (`again'), or two versions of one type.  Only the requests of a    *)
(* "stray" load are so odd as to do the first two.                         *)
(***************************************************************************)
Stray == "stray" \in load.ops

Nameable == {x \in Types \X (0..MaxVersions) : Has(x[1], x[2]) \/ (x[2] = 0 /\ Stray)}

PinFlawsOf(chosen, again) ==
    {flaw \in {"double", "unknown", "repeated"} :
        \/ flaw = "double" /\ \E x, y \in chosen : x # y /\ x[1] = y[1]
        \/ flaw = "unknown" /\ \E x \in chosen : x[2] = 0
        \/ flaw = "repeated" /\ again # {}}

CreateCatalogVersion(q) ==
    /\ Ready(q, "createCV") /\ Cardinality({c \in CVs : cv[c] # None}) < load.cvs
    /\ \E c \in CVs, l \in Labels, chosen \in SUBSET Nameable : \E again \in SUBSET chosen :
         /\ cv[c] = None /\ ~LabelUsed(l)
         /\ again = {} \/ Stray
         /\ Cardinality(chosen) <= Cardinality({p \in Pins : pins[p] = None})
         /\ Start(q, [NewCV EXCEPT !.cv = c, !.todo = chosen, !.again = again],
                  LabelFlaws(c, l) \cup PinFlawsOf(chosen, again))
         /\ cv' = [cv EXCEPT ![c] = [live |-> TRUE, label |-> l, stage |-> "development"]]
         /\ UNCHANGED <<schema, definitions, pins, log, crs, catalogVars, load>>

(***************************************************************************)
(* The foreign key and the unique index on (catalog version, entity type   *)
(* version) hold for every insertion of a pin.                             *)
(***************************************************************************)
PinAllowed(p, pin) ==
    /\ pin.cv \in Live
    /\ \A o \in Pins \ {p} : pins[o] # pin

(***************************************************************************)
(* A version named twice ends the request at the second insertion, without *)
(* an entry in the log.                                                    *)
(***************************************************************************)
Inserted(r, x) ==
    [r EXCEPT !.todo = IF x \in r.again THEN @ ELSE @ \ {x}, !.again = @ \ {x}]

InsertPins(q) ==
    /\ AtCV(q, "createCV", "pins")
    /\ LET r == req[q]
       IN IF r.todo = {} THEN Goto(q, "log") /\ UNCHANGED pins
            ELSE \E x \in r.todo, p \in Pins :
                   LET pin == [cv |-> r.cv, type |-> x[1], ver |-> x[2]]
                   IN IF pins[p] = None /\ PinAllowed(p, pin)
                        THEN /\ pins' = [pins EXCEPT ![p] = pin]
                             /\ req' = [req EXCEPT ![q] = Inserted(r, x)]
                        ELSE /\ \A o \in Pins : pins[o] # None \/ ~PinAllowed(o, pin)
                             /\ Finish(q) /\ UNCHANGED pins
    /\ UNCHANGED <<schema, definitions, cv, log, crs, catalogVars, load, trouble>>

-----------------------------------------------------------------------------
(***************************************************************************)
(* Promote and Demote: the stage read decides, the new stage is written    *)
(* whatever the row says by then, the log and the resource follow.         *)
(***************************************************************************)
Higher(stage) == IF stage = "development" THEN "testing" ELSE "production"

Promote(q) ==
    /\ Ready(q, "promote")
    /\ \E c \in Live, role \in Roles :
         /\ cv[c].stage # "production"
         /\ cv[c].stage = "testing" => role # "RW"
         /\ Len(log[c]) < MaxLog
         /\ StartCV(q, [NewCV EXCEPT !.op = "promote", !.pc = "stage", !.cv = c,
                          !.from = cv[c].stage, !.to = Higher(cv[c].stage), !.row = cv[c]], {})

Demote(q) ==
    /\ Ready(q, "demote")
    /\ \E c \in Live, role \in Roles, to \in {"development", "testing"} :
         /\ \/ cv[c].stage = "testing" /\ to = "development"
            \/ cv[c].stage = "production" /\ role = "SuperAdmin"
         /\ Len(log[c]) < MaxLog
         /\ StartCV(q, [NewCV EXCEPT !.op = "demote", !.pc = "stage", !.cv = c,
                          !.from = cv[c].stage, !.to = to, !.row = cv[c]], {})

WriteStage(q) ==
    /\ req[q].pc = "stage"
    /\ LET r == req[q]
       IN IF r.cv \in Live
            THEN cv' = [cv EXCEPT ![r.cv].stage = r.to] /\ Goto(q, "log")
            ELSE Finish(q) /\ UNCHANGED cv
    /\ UNCHANGED <<schema, definitions, pins, log, crs, catalogVars, load, trouble>>

(* MUTANT: a demotion is not logged. *)
WriteLogForward(q) ==
    /\ req[q].pc = "log"
    /\ LET r == req[q]
           creating == r.op = "createCV"
       IN /\ log' = IF r.cv \notin Live \/ r.op = "demote" THEN log
                      ELSE [log EXCEPT ![r.cv] = Append(@,
                              [from |-> r.from, to |-> IF creating THEN "development" ELSE r.to])]
          /\ IF creating \/ r.cv \notin Live THEN Finish(q) ELSE Goto(q, "cr")
    /\ UNCHANGED <<schema, definitions, cv, pins, crs, catalogVars, load, trouble>>

WriteLog(q) ==
    /\ req[q].pc = "log"
    /\ LET r == req[q]
           creating == r.op = "createCV"
       IN /\ log' = IF r.cv \notin Live THEN log
                      ELSE [log EXCEPT ![r.cv] = Append(@,
                              [from |-> r.from, to |-> IF creating THEN "development" ELSE r.to])]
          /\ IF creating \/ r.cv \notin Live THEN Finish(q) ELSE Goto(q, "cr")
    /\ UNCHANGED <<schema, definitions, cv, pins, crs, catalogVars, load, trouble>>

(***************************************************************************)
(* The names of the pinned types are looked up first, which fails when one *)
(* has been deleted or was never there; so does a label that leaves no     *)
(* name.                                                                   *)
(***************************************************************************)
Orphaned(c) == \E x \in PinnedVersions(c) : ~Has(x[1], x[2]) \/ types[x[1]] \notin TypeNames

(* MUTANT: a demotion to development leaves the resource. *)
KeepCR(q) ==
    /\ req[q].pc = "cr"
    /\ LET r == req[q]
           n == CRName[r.row.label]
       IN /\ crs' = IF n = None \/ r.to = "development" \/ Orphaned(r.cv) THEN crs
                      ELSE [crs EXCEPT ![n] = [source |-> r.cv, stage |-> r.to]]
          /\ trouble' = IF n = None THEN trouble \cup {"noName"} ELSE trouble
    /\ Finish(q)
    /\ UNCHANGED <<schema, definitions, cv, pins, log, catalogVars, load>>

WriteCR(q) ==
    /\ req[q].pc = "cr"
    /\ LET r == req[q]
           n == CRName[r.row.label]
       IN /\ crs' = IF n = None THEN crs
                      ELSE IF r.to = "development" THEN [crs EXCEPT ![n] = None]
                      ELSE IF Orphaned(r.cv) THEN crs
                      ELSE [crs EXCEPT ![n] = [source |-> r.cv, stage |-> r.to]]
          /\ trouble' = IF n = None THEN trouble \cup {"noName"} ELSE trouble
    /\ Finish(q)
    /\ UNCHANGED <<schema, definitions, cv, pins, log, catalogVars, load>>

-----------------------------------------------------------------------------
(***************************************************************************)
(* DeleteCatalogVersion: refused while a catalog is built on it; the pins  *)
(* and the log go with the row, then the resource.                         *)
(***************************************************************************)
DeleteCatalogVersion(q) ==
    /\ Ready(q, "deleteCV")
    /\ \E c \in Live, role \in Roles :
         /\ IF cv[c].stage = "production" THEN role = "SuperAdmin" ELSE role # "RW"
         /\ BuiltOn(c) = {}
         /\ StartCV(q, [NewCV EXCEPT !.op = "deleteCV", !.pc = "drop", !.cv = c, !.row = cv[c]], {})

DropRow(q) ==
    /\ AtCV(q, "deleteCV", "drop")
    /\ LET c == req[q].cv
       IN IF c \in Live
            THEN /\ cv' = [cv EXCEPT ![c].live = FALSE]
                 /\ pins' = [p \in Pins |-> IF p \in PinsOf(c) THEN None ELSE pins[p]]
                 /\ log' = [log EXCEPT ![c] = << >>]
                 /\ Goto(q, "dropCR")
            ELSE Finish(q) /\ UNCHANGED <<cv, pins, log>>
    /\ UNCHANGED <<schema, definitions, crs, catalogVars, load, trouble>>

DropCR(q) ==
    /\ AtCV(q, "deleteCV", "dropCR")
    /\ LET n == CRName[req[q].row.label]
       IN crs' = IF n = None THEN crs ELSE [crs EXCEPT ![n] = None]
    /\ Finish(q)
    /\ UNCHANGED <<schema, definitions, cv, pins, log, catalogVars, load, trouble>>

-----------------------------------------------------------------------------
(***************************************************************************)
(* Edits of metadata and pins: anybody in development, a SuperAdmin in     *)
(* testing, nobody in production; the stage is the one that was read.      *)
(***************************************************************************)
(* MUTANT: a SuperAdmin may edit in production. *)
EditForSuper(c, role) == cv[c].stage = "development" \/ role = "SuperAdmin"

EditAllowed(c, role) ==
    \/ cv[c].stage = "development"
    \/ cv[c].stage = "testing" /\ role = "SuperAdmin"

(***************************************************************************)
(* UpdateCatalogVersion saves the whole row it has read, its stage         *)
(* included; the resource keeps the name of the old label.                 *)
(***************************************************************************)
UpdateCatalogVersion(q) ==
    /\ Ready(q, "updateCV")
    /\ \E c \in Live, role \in Roles, l \in Labels :
         /\ EditAllowed(c, role)
         /\ l = cv[c].label \/ ~LabelUsed(l)
         /\ StartCV(q, [NewCV EXCEPT !.op = "updateCV", !.pc = "save", !.cv = c,
                          !.row = [cv[c] EXCEPT !.label = l]],
                    LabelFlaws(c, l) \cup
                      IF cv[c].stage # "development" /\ l # cv[c].label THEN {"relabelled"} ELSE {})

SaveCV(q) ==
    /\ AtCV(q, "updateCV", "save")
    /\ LET r == req[q]
       IN cv' = IF \E d \in Live \ {r.cv} : cv[d].label = r.row.label THEN cv
                  ELSE [cv EXCEPT ![r.cv] = r.row]
    /\ Finish(q)
    /\ UNCHANGED <<schema, definitions, pins, log, crs, catalogVars, load, trouble>>

AddPin(q) ==
    /\ Ready(q, "addPin")
    /\ \E c \in Live, role \in Roles, t \in Types : \E v \in 1..Latest(t) :
         /\ EditAllowed(c, role)
         /\ ~Orphaned(c)
         /\ \A x \in PinnedVersions(c) : x[1] # t
         /\ \E p \in Pins : pins[p] = None
         /\ StartCV(q, [NewCV EXCEPT !.op = "addPin", !.pc = "insertPin", !.cv = c,
                          !.new = [cv |-> c, type |-> t, ver |-> v]], {})

InsertPin(q) ==
    /\ AtCV(q, "addPin", "insertPin")
    /\ LET r == req[q]
       IN \/ \E p \in Pins :
               /\ pins[p] = None /\ PinAllowed(p, r.new)
               /\ pins' = [pins EXCEPT ![p] = r.new]
               /\ Goto(q, "list")
          \/ /\ \A p \in Pins : pins[p] # None \/ ~PinAllowed(p, r.new)
             /\ Finish(q) /\ UNCHANGED pins
    /\ UNCHANGED <<schema, definitions, cv, log, crs, catalogVars, load, trouble>>

RemovePin(q) ==
    /\ Ready(q, "removePin")
    /\ \E c \in Live, role \in Roles : \E p \in PinsOf(c) :
         /\ EditAllowed(c, role)
         /\ StartCV(q, [NewCV EXCEPT !.op = "removePin", !.pc = "dropPin", !.cv = c, !.pin = p],
                    {"repinned"})

DropPin(q) ==
    /\ AtCV(q, "removePin", "dropPin")
    /\ LET p == req[q].pin
       IN IF pins[p] # None THEN pins' = [pins EXCEPT ![p] = None] /\ Goto(q, "list")
            ELSE Finish(q) /\ UNCHANGED pins
    /\ UNCHANGED <<schema, definitions, cv, log, crs, catalogVars, load, trouble>>

(***************************************************************************)
(* resetDependentCatalogs: the catalogs that are not drafts are listed and *)
(* then set back one by one.                                               *)
(***************************************************************************)
ListCatalogs(q) ==
    /\ req[q].pc = "list"
    /\ LET cats == {k \in BuiltOn(req[q].cv) : catalogs[k].status # "draft"}
       IN req' = [req EXCEPT ![q] = IF cats = {} THEN Idle
                                      ELSE [@ EXCEPT !.cats = cats, !.pc = "reset"]]
    /\ UNCHANGED <<schema, definitions, versionVars, catalogVars, load, trouble>>

ResetCatalog(q) ==
    /\ req[q].pc = "reset"
    /\ \E k \in req[q].cats :
         /\ catalogs' = [catalogs EXCEPT ![k].status = "draft"]
         /\ req' = [req EXCEPT ![q] = IF req[q].cats = {k} THEN Idle
                                        ELSE [req[q] EXCEPT !.cats = @ \ {k}]]
    /\ UNCHANGED <<schema, definitions, versionVars, cells, load, trouble>>

-----------------------------------------------------------------------------
(***************************************************************************)
(* UpdatePin.  buildAttributeMapping pairs the attributes of two versions: *)
(* by name, and what is left by ordinal, taken for a rename.  Of several   *)
(* with one ordinal the query's order decides, so there may be several     *)
(* results.                                                                *)
(***************************************************************************)
(* MUTANT: attributes are paired by name alone. *)
MappingsByName(old, new) == {{x \in old \X new : x[1].name = x[2].name}}

Mappings(old, new) ==
    LET kept == {x \in old \X new : x[1].name = x[2].name}
        gone == {a \in old : \A b \in new : a.name # b.name}
        fresh == {b \in new : \A a \in old : a.name # b.name}
        ords == {a.ord : a \in old} \cap {b.ord : b \in fresh}
        picks == {f \in [ords -> old \X fresh] :
                     \A n \in ords : f[n][1].ord = n /\ f[n][2].ord = n}
    IN {kept \cup {f[n] : n \in {m \in ords : f[m][1] \in gone}} : f \in picks}

Ties(attrs) == \E a, b \in attrs : a # b /\ a.ord = b.ord

PinRequest(p, v, mapping) ==
    [NewCV EXCEPT !.op = "updatePin", !.pc = "remap", !.cv = pins[p].cv, !.pin = p,
                  !.new = [pins[p] EXCEPT !.ver = v],
                  !.moves = IF v = pins[p].ver THEN {}
                              ELSE {<<x[1].name, x[2].name>> : x \in mapping},
                  !.cats = BuiltOn(pins[p].cv)]

PinFlaws(p, v) ==
    (IF v \in (pins[p].ver - 1)..(pins[p].ver + 1) THEN {} ELSE {"jumped"})
      \cup IF \E n \in {pins[p].ver, v} : Ties(versions[pins[p].type][n].attrs)
             THEN {"ties"} ELSE {}

UpdatePin(q) ==
    /\ Ready(q, "updatePin")
    /\ \E c \in Live, role \in Roles : \E p \in PinsOf(c) : \E v \in 1..Latest(pins[p].type) :
         /\ EditAllowed(c, role)
         /\ Has(pins[p].type, pins[p].ver)
         /\ \E m \in Mappings(versions[pins[p].type][pins[p].ver].attrs,
                             versions[pins[p].type][v].attrs) :
              StartCV(q, PinRequest(p, v, m), PinFlaws(p, v))

(***************************************************************************)
(* The values of the instances found before move to the attributes of the  *)
(* new version.  The unique index refuses a second value of an attribute,  *)
(* which ends the request; nobody else sees the move before the commit.    *)
(***************************************************************************)
Remap(q) ==
    /\ AtCV(q, "updatePin", "remap")
    /\ LET r == req[q]
           old == pins[r.pin]
           moved == {x \in cells : /\ old # None
                                   /\ x.catalog \in r.cats /\ x.type = r.new.type
                                   /\ x.ver = old.ver /\ \E m \in r.moves : m[1] = x.name}
           taken == {x \in cells : /\ x.catalog \in r.cats /\ x.type = r.new.type
                                   /\ x.ver = r.new.ver}
           target(x) == CHOOSE m \in r.moves : m[1] = x.name
       IN req' = [req EXCEPT ![q] =
             IF \E x \in moved, y \in taken : x # y /\ y.catalog = x.catalog
                                                    /\ y.name = target(x)[2] THEN Idle
               ELSE [r EXCEPT !.cells = moved, !.pc = "savePin"]]
    /\ UNCHANGED <<schema, definitions, versionVars, catalogVars, load, trouble>>

(***************************************************************************)
(* The pin is saved outside the transaction, as a whole row.               *)
(***************************************************************************)
SavePin(q) ==
    /\ AtCV(q, "updatePin", "savePin")
    /\ LET r == req[q]
       IN IF PinAllowed(r.pin, r.new)
            THEN pins' = [pins EXCEPT ![r.pin] = r.new] /\ Goto(q, "commit")
            ELSE Finish(q) /\ UNCHANGED pins
    /\ UNCHANGED <<schema, definitions, cv, log, crs, catalogVars, load, trouble>>

(* MUTANT: the catalogs keep the status they have. *)
CommitValues(q) ==
    /\ AtCV(q, "updatePin", "commit")
    /\ LET r == req[q]
           target(x) == CHOOSE m \in r.moves : m[1] = x.name
       IN cells' = (cells \ r.cells) \cup
                     {[x EXCEPT !.ver = r.new.ver, !.name = target(x)[2]] : x \in r.cells}
    /\ Finish(q)
    /\ UNCHANGED <<schema, definitions, versionVars, catalogs, load, trouble>>

Commit(q) ==
    /\ AtCV(q, "updatePin", "commit")
    /\ LET r == req[q]
           target(x) == CHOOSE m \in r.moves : m[1] = x.name
       IN /\ cells' = (cells \ r.cells) \cup
                        {[x EXCEPT !.ver = r.new.ver, !.name = target(x)[2]] : x \in r.cells}
          /\ catalogs' = [k \in Catalogs |-> IF k \in BuiltOn(r.cv)
                                               THEN [catalogs[k] EXCEPT !.status = "draft"]
                                               ELSE catalogs[k]]
    /\ Finish(q)
    /\ UNCHANGED <<schema, definitions, versionVars, load, trouble>>

-----------------------------------------------------------------------------
(***************************************************************************)
(* What other services do to the catalogs, one action each: CatalogPublish *)
(* and InstanceStore have their steps.  Of a catalog with instances, the   *)
(* validation fails on a pin of no version; so does setting a value when   *)
(* the type of an attribute cannot be resolved.                            *)
(***************************************************************************)
Whole(q, op) ==
    /\ Ready(q, op)
    /\ Note({})
    /\ UNCHANGED <<schema, definitions, versionVars, req, load>>

CreateCatalog(q) ==
    /\ Whole(q, "createCatalog")
    /\ \E k \in Catalogs, c \in Live :
         /\ catalogs[k] = None
         /\ catalogs' = [catalogs EXCEPT ![k] = [cv |-> c, status |-> "draft", checked |-> {}]]
    /\ UNCHANGED cells

Validate(q) ==
    /\ Whole(q, "validate")
    /\ \E k \in Catalogs, verdict \in {"valid", "invalid"} :
         /\ catalogs[k] # None /\ catalogs[k].cv \in Live
         /\ verdict = "invalid" => \A x \in PinnedVersions(catalogs[k].cv) : Has(x[1], x[2])
         /\ catalogs' = [catalogs EXCEPT ![k].status = verdict,
                                         ![k].checked = PinnedVersions(catalogs[k].cv)]
    /\ UNCHANGED cells

SetValue(q) ==
    /\ Whole(q, "setValue")
    /\ \E k \in Catalogs :
         /\ catalogs[k] # None
         /\ \E x \in PinnedVersions(catalogs[k].cv) :
              /\ Has(x[1], x[2])
              /\ \A a \in versions[x[1]][x[2]].attrs : a.tdv \in DefVersions
              /\ \E a \in versions[x[1]][x[2]].attrs :
                   cells' = {y \in cells : y.catalog # k \/ y.type # x[1] \/ y.ver # x[2]
                                             \/ y.name # a.name}
                              \cup {[catalog |-> k, type |-> x[1], ver |-> x[2],
                                     name |-> a.name, root |-> a.root]}
         /\ catalogs' = [catalogs EXCEPT ![k].status = "draft"]

-----------------------------------------------------------------------------
VersionsNext ==
    \E q \in Reqs :
       \/ CreateCatalogVersion(q) \/ InsertPins(q) \/ Promote(q) \/ Demote(q)
       \/ WriteStage(q) \/ WriteLog(q) \/ WriteCR(q)
       \/ DeleteCatalogVersion(q) \/ DropRow(q) \/ DropCR(q)
       \/ UpdateCatalogVersion(q) \/ SaveCV(q)
       \/ AddPin(q) \/ InsertPin(q) \/ RemovePin(q) \/ DropPin(q)
       \/ ListCatalogs(q) \/ ResetCatalog(q)
       \/ UpdatePin(q) \/ Remap(q) \/ SavePin(q) \/ Commit(q)
       \/ CreateCatalog(q) \/ Validate(q) \/ SetValue(q)
       \/ CVFail(q)

Next == (TypesNext /\ UNCHANGED <<log, crs, catalogVars>>) \/ VersionsNext

Spec == Init /\ [][Next]_vars

-----------------------------------------------------------------------------
(***************************************************************************)
(* Without failures and overlaps the log of a catalog version is a chain   *)
(* from development that ends in its stage: three statements of Promote    *)
(* and Demote, and the Save of the whole row, keep the two together.  A    *)
(* version lacks the entry of its creation, and so any as long as it is in *)
(* development, only if a request to create one named a version twice.     *)
(***************************************************************************)
Settled(flaws) == Active = {} /\ trouble \cap flaws = {}

StageMatchesLog ==
    Settled({"overlap", "db"}) =>
       \A c \in Live :
          LET n == Len(log[c])
          IN /\ cv[c].stage = IF n = 0 THEN "development" ELSE log[c][n].to
             /\ \A i \in 2..n : log[c][i].from = log[c][i - 1].to
             /\ n > 0 => log[c][1].from \in {None, "development"}
             /\ (n = 0 \/ log[c][1].from # None) => "repeated" \in trouble

(***************************************************************************)
(* The cluster sees exactly the promoted catalog versions, at their stage: *)
(* unless a step failed or overlapped, a pinned type was deleted or was    *)
(* never there, a label was changed after promotion, or a label gives no   *)
(* name or another's.                                                      *)
(***************************************************************************)
ClusterShowsStage ==
    Settled({"overlap", "db", "k8s", "deleted", "unknown", "relabelled", "sharedName",
             "noName"}) =>
       /\ \A c \in Live : LET n == CRName[cv[c].label]
                          IN IF cv[c].stage = "development" THEN n = None \/ crs[n] = None
                               ELSE crs[n] = [source |-> c, stage |-> cv[c].stage]
       /\ \A n \in CRNames : crs[n] # None => crs[n].source \in Live

(***************************************************************************)
(* What a catalog version in production pins, and what its types are       *)
(* called, stays as it is, unless requests overlap or a type is deleted; a *)
(* pin of no version has no type to be called anything.                    *)
(***************************************************************************)
NamesPinned(c) == {<<x, IF x[2] = 0 THEN None ELSE types[x[1]]>> : x \in PinnedVersions(c)}

NamesPinnedNext(c) ==
    {<<x, IF x[2] = 0 THEN None ELSE types'[x[1]]>> : x \in PinnedVersions(c)'}

ProductionKept ==
    trouble' \cap {"overlap", "deleted"} = {} =>
       \A c \in Live \cap Live' :
          cv[c].stage = "production" /\ cv'[c].stage = "production" =>
             NamesPinned(c) = NamesPinnedNext(c)

(***************************************************************************)
(* A catalog that counts as valid was validated against the versions its   *)
(* catalog version pins now, unless a step failed or overlapped.           *)
(***************************************************************************)
ValidForPins ==
    Settled({"overlap", "db"}) =>
       \A k \in Catalogs :
          catalogs[k] # None /\ catalogs[k].status = "valid" =>
             catalogs[k].checked = PinnedVersions(catalogs[k].cv)

(***************************************************************************)
(* The values of a catalog follow its pins from a version to the next or   *)
(* back: a value sits on the attribute it was given to, under whatever     *)
(* name, if the pinned version has it, and on no other.  Excepted are      *)
(* failures and overlaps, pins that were moved over several versions,      *)
(* removed or doubled, and attributes that share an ordinal or were        *)
(* reordered: a rename is recognised by the ordinal.                       *)
(***************************************************************************)
ValuesFollowPins ==
    Settled({"overlap", "db", "jumped", "repinned", "double", "ties", "deleted",
             "reordered"}) =>
       \A x \in cells : \A y \in PinnedVersions(catalogs[x.catalog].cv) :
          y[1] = x.type /\ Has(y[1], y[2]) => \A a \in versions[y[1]][y[2]].attrs :
             a.root = x.root <=> (x.ver = y[2] /\ x.name = a.name)

VersionsImmutable == [][VersionsKept]_vars

ProductionUnchanged == [][ProductionKept]_vars
=============================================================================
