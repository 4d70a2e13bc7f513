--------------------------- MODULE CatalogPublish ---------------------------
(***************************************************************************)
(* The catalog lifecycle of the API server: the catalogs table, the        *)
(* Catalog custom resources (CRs) that make published catalogs             *)
(* discoverable in the cluster, and the HTTP requests that move both.      *)
(*                                                                         *)
(* A handler reads a row into memory, decides, and then issues one         *)
(* statement after another against the database and the Kubernetes API.    *)
(* Only ReplaceCatalog, CopyCatalog and Delete wrap their database work in *)
(* a transaction, and no transaction covers a CR. One action is therefore  *)
(* one statement, one transaction or one Kubernetes call: requests         *)
(* interleave between them, and a decision taken on a snapshot is acted on *)
(* after the row may have changed.                                         *)
(*                                                                         *)
(* The instances of a catalog are one abstract value of Data; whether a    *)
(* validation of it against a catalog version succeeds is the constant     *)
(* relation Conforming.                                                    *)
(***************************************************************************)

CONSTANTS
    Cats,        \* catalog ids (a UUID is never handed out twice)
    Names,       \* catalog names, which are also the names of the CRs
    CVs,         \* catalog versions (schemas) a catalog can be pinned to
    Data,        \* abstract contents of a catalog
    EmptyData,   \* the contents of a catalog without instances
    Conforming,  \* the pairs <<contents, catalog version>> validation accepts
    Reqs,        \* request slots: how many handlers can run at once
    Roles,       \* caller roles considered
    Ops,         \* operations considered
    Faults,      \* failures considered
    NoRow, NoCR, NoSnap, None  \* "absent" values

Operations == {"create", "copy", "publish", "unpublish", "update", "delete",
               "validate", "mutate", "addInstance", "replace"}

ASSUME CatalogAssumption ==
    /\ EmptyData \in Data
    /\ Conforming \subseteq Data \X CVs
    /\ \A v \in CVs : <<EmptyData, v>> \in Conforming
    /\ Roles \subseteq {"RW", "Admin", "SuperAdmin"}
    /\ Ops \subseteq Operations
    /\ Faults \subseteq {"db", "k8s", "badInput"}
    /\ None \notin Names \cup CVs \cup Data \cup Cats

Status == {"draft", "valid", "invalid"}

Row == [name : Names, cv : CVs, status : Status, published : BOOLEAN]

CR == [source : Cats, cv : CVs, status : Status]

(***************************************************************************)
(* What a handler remembers of a row it has read.                          *)
(***************************************************************************)
Snap == [id : Cats, row : Row]

Steps == {"idle", "read", "readTarget", "insert", "scan", "record",
          "setPublished", "writeCR", "rollback", "setUnpublished", "dropCR",
          "checkName", "rename", "save", "reset", "apply", "dropRow",
          "swap", "dropArchiveCR", "dropSourceCR", "syncRead", "syncWrite"}

(***************************************************************************)
(* A request: the operation, the statement it executes next, its           *)
(* arguments, and its local variables. `other' is the new name of an       *)
(* update, and the target of a copy or of a replace; `seen' the contents a *)
(* validation or a copy has read; `snap2' the target of a replace and then *)
(* SyncCR's own read.                                                      *)
(***************************************************************************)
Request == [op : Operations \cup {"none"}, pc : Steps, role : Roles \cup {"none"},
            name : Names \cup {None}, other : Names \cup {None},
            archive : Names \cup {None}, cv : CVs \cup {None}, desc : BOOLEAN,
            snap : Snap \cup {NoSnap}, snap2 : Snap \cup {NoSnap},
            seen : Data \cup {None}]

Call(op, pc, role, n, m, a, v, d) ==
    [op |-> op, pc |-> pc, role |-> role, name |-> n, other |-> m, archive |-> a,
     cv |-> v, desc |-> d, snap |-> NoSnap, snap2 |-> NoSnap, seen |-> None]

Idle == Call("none", "idle", "none", None, None, None, None, FALSE)

ASSUME AbsentAssumption ==
    /\ NoRow \notin Row
    /\ NoCR \notin CR
    /\ NoSnap \notin Snap

VARIABLES
    row,        \* the catalogs table: id -> row
    used,       \* ids handed out so far
    data,       \* instances, attribute values and links of each catalog
    cr,         \* the cluster: name -> Catalog CR
    req,        \* the requests being handled
    validated,  \* history: the catalogs a validation has recorded as valid
    trouble     \* history: "overlap", and the failures that have happened

vars == <<row, used, data, cr, req, validated, trouble>>
tables == <<row, used, data>>

TypeOK ==
    /\ row \in [Cats -> Row \cup {NoRow}]
    /\ used \subseteq Cats
    /\ data \in [Cats -> Data]
    /\ cr \in [Names -> CR \cup {NoCR}]
    /\ req \in [Reqs -> Request]
    /\ validated \subseteq Cats
    /\ trouble \subseteq {"overlap", "db", "k8s", "badInput"}

Init ==
    /\ row = [c \in Cats |-> NoRow]
    /\ used = {}
    /\ data = [c \in Cats |-> EmptyData]
    /\ cr = [n \in Names |-> NoCR]
    /\ req = [q \in Reqs |-> Idle]
    /\ validated = {}
    /\ trouble = {}

-----------------------------------------------------------------------------
(***************************************************************************)
(* Vocabulary.                                                             *)
(***************************************************************************)
Live == {c \in Cats : row[c] # NoRow}

Owners(n) == {c \in Live : row[c].name = n}          \* GetByName

SnapOf(c) == [id |-> c, row |-> row[c]]

At(q, op, pc) == req[q].op = op /\ req[q].pc = pc

Goto(q, pc) == req' = [req EXCEPT ![q].pc = pc]

Remember(q, c, pc) == req' = [req EXCEPT ![q].snap = SnapOf(c), ![q].pc = pc]

Finish(q) == req' = [req EXCEPT ![q] = Idle]

(***************************************************************************)
(* The UPDATE statements of the catalog repository.  Each names its row by *)
(* id and finds none when the catalog has been deleted since it was read:  *)
(* the handler then returns NotFound, so `next' is only reached by a hit.  *)
(***************************************************************************)
Hit(q, c, newRow, next) ==
    IF c \in Live
      THEN row' = newRow /\ Goto(q, next)
      ELSE row' = row /\ Finish(q)

WithStatus(c, s) == [row EXCEPT ![c].status = s]

WithPublished(c, b) == [row EXCEPT ![c].published = b]

(***************************************************************************)
(* Requests as the routes admit them: publish, unpublish and replace need  *)
(* Admin, the others RW.  The role is kept where it is used again.         *)
(***************************************************************************)
OpenCalls ==
    {Call("create", "insert", "none", n, None, None, v, FALSE) : n \in Names, v \in CVs}
    \cup {Call("copy", "read", "none", n, m, None, None, FALSE) : n \in Names, m \in Names}
    \cup {r \in {Call("replace", "read", "none", n, m, a, None, FALSE) :
                   n \in Names, m \in Names, a \in Names} : r.name # r.other}

GuardedCalls ==
    {Call(op, "read", r, n, None, None, None, FALSE) :
        op \in {"delete", "validate", "mutate", "addInstance"}, r \in Roles, n \in Names}
    \cup {Call(op, "read", r, n, None, None, None, FALSE) :
             op \in {"publish", "unpublish"}, r \in Roles \ {"RW"}, n \in Names}
    \cup {Call("update", "read", r, n, m, None, v, d) :
             r \in Roles, n \in Names, m \in Names \cup {None},
             v \in CVs \cup {None}, d \in BOOLEAN}

(***************************************************************************)
(* RequireWriteAccess, on every route below /{name}: a published catalog   *)
(* is open to SuperAdmin only.  The name is resolved here, and a second    *)
(* time by the handler.                                                    *)
(***************************************************************************)
(* MUTANT: the write guard is missing from the routes. *)
AdmitsAll(r) == TRUE

Admits(r) ==
    r \in GuardedCalls /\ (\E c \in Owners(r.name) : row[c].published)
      => r.role = "SuperAdmin"

Arrive(q) ==
    /\ req[q].pc = "idle"
    /\ \E r \in OpenCalls \cup GuardedCalls :
         r.op \in Ops /\ Admits(r) /\ req' = [req EXCEPT ![q] = r]
    /\ trouble' = IF \E p \in Reqs \ {q} : req[p].pc # "idle"
                    THEN trouble \cup {"overlap"} ELSE trouble
    /\ UNCHANGED <<tables, cr, validated>>

ReadMisses(q) ==
    /\ req[q].pc = "read"
    /\ Owners(req[q].name) = {}
    /\ Finish(q)
    /\ UNCHANGED <<tables, cr, validated, trouble>>

-----------------------------------------------------------------------------
(***************************************************************************)
(* CreateCatalog, CopyCatalog.  Names are unique (a unique index).  Cats   *)
(* bounds the ids: once all are used a creation fails.                     *)
(***************************************************************************)
Insert(q, n, v, contents) ==
    IF Owners(n) = {} /\ used # Cats
      THEN \E c \in Cats \ used :
             /\ row' = [row EXCEPT ![c] = [name |-> n, cv |-> v, status |-> "draft",
                                           published |-> FALSE]]
             /\ used' = used \cup {c}
             /\ data' = [data EXCEPT ![c] = contents]
      ELSE UNCHANGED tables

CreateInsert(q) ==
    /\ At(q, "create", "insert")
    /\ Insert(q, req[q].name, req[q].cv, EmptyData)
    /\ Finish(q)
    /\ UNCHANGED <<cr, validated, trouble>>

CopyRead(q) ==
    /\ At(q, "copy", "read")
    /\ \E c \in Owners(req[q].name) : Remember(q, c, "scan")
    /\ UNCHANGED <<tables, cr, validated, trouble>>

CopyScan(q) ==
    /\ At(q, "copy", "scan")
    /\ req' = [req EXCEPT ![q].seen = data[req[q].snap.id], ![q].pc = "insert"]
    /\ UNCHANGED <<tables, cr, validated, trouble>>

(***************************************************************************)
(* Attribute values and links are read only inside the transaction, so if  *)
(* the source has changed since its instances were listed, the copy mixes  *)
(* the two and may be anything.                                            *)
(***************************************************************************)
CopyInsert(q) ==
    /\ At(q, "copy", "insert")
    /\ LET r == req[q] IN
         \E d \in (IF data[r.snap.id] = r.seen THEN {r.seen} ELSE Data) :
            Insert(q, r.other, r.snap.row.cv, d)
    /\ Finish(q)
    /\ UNCHANGED <<cr, validated, trouble>>

-----------------------------------------------------------------------------
(***************************************************************************)
(* Validate: the verdict is on the contents and the pin as they were read, *)
(* and is recorded without looking at the row again.                       *)
(***************************************************************************)
ValidateRead(q) ==
    /\ At(q, "validate", "read")
    /\ \E c \in Owners(req[q].name) : Remember(q, c, "scan")
    /\ UNCHANGED <<tables, cr, validated, trouble>>

ValidateScan(q) ==
    /\ At(q, "validate", "scan")
    /\ req' = [req EXCEPT ![q].seen = data[req[q].snap.id], ![q].pc = "record"]
    /\ UNCHANGED <<tables, cr, validated, trouble>>

Verdict(r) == IF <<r.seen, r.snap.row.cv>> \in Conforming THEN "valid" ELSE "invalid"

ValidateRecord(q) ==
    /\ At(q, "validate", "record")
    /\ LET c == req[q].snap.id
           v == Verdict(req[q]) IN
         IF c \in Live
           THEN /\ row' = WithStatus(c, v)
                /\ validated' = IF v = "valid" THEN validated \cup {c} ELSE validated
           ELSE UNCHANGED <<row, validated>>
    /\ Finish(q)
    /\ UNCHANGED <<used, data, cr, trouble>>

-----------------------------------------------------------------------------
(***************************************************************************)
(* Publish and Unpublish: the row first, then the CR.                      *)
(***************************************************************************)
(* MUTANT: any catalog can be published. *)
PublishReadUnchecked(q) ==
    /\ At(q, "publish", "read")
    /\ \E c \in Owners(req[q].name) : Remember(q, c, "setPublished")
    /\ UNCHANGED <<tables, cr, validated, trouble>>

PublishRead(q) ==
    /\ At(q, "publish", "read")
    /\ \E c \in Owners(req[q].name) :
         IF row[c].published \/ row[c].status # "valid"
           THEN Finish(q)
           ELSE Remember(q, c, "setPublished")
    /\ UNCHANGED <<tables, cr, validated, trouble>>

PublishSet(q) ==
    /\ At(q, "publish", "setPublished")
    /\ LET c == req[q].snap.id IN Hit(q, c, WithPublished(c, TRUE), "writeCR")
    /\ UNCHANGED <<used, data, cr, validated, trouble>>

(* MUTANT: the CR does not name its row. *)
CROfNobody(s) == [cv |-> s.row.cv, status |-> s.row.status]

CROf(s) == [source |-> s.id, cv |-> s.row.cv, status |-> s.row.status]

PublishWriteCR(q) ==
    /\ At(q, "publish", "writeCR")
    /\ cr' = [cr EXCEPT ![req[q].snap.row.name] = CROf(req[q].snap)]
    /\ Finish(q)
    /\ UNCHANGED <<tables, validated, trouble>>

(* MUTANT: the error of the CR is returned, the row left published. *)
PublishGivesUp(q) ==
    /\ At(q, "publish", "rollback")
    /\ Finish(q)
    /\ UNCHANGED <<tables, cr, validated, trouble>>

PublishRollback(q) ==
    /\ At(q, "publish", "rollback")
    /\ LET c == req[q].snap.id IN
         row' = IF c \in Live THEN WithPublished(c, FALSE) ELSE row
    /\ Finish(q)
    /\ UNCHANGED <<used, data, cr, validated, trouble>>

UnpublishRead(q) ==
    /\ At(q, "unpublish", "read")
    /\ \E c \in Owners(req[q].name) :
         IF row[c].published THEN Remember(q, c, "setUnpublished") ELSE Finish(q)
    /\ UNCHANGED <<tables, cr, validated, trouble>>

UnpublishSet(q) ==
    /\ At(q, "unpublish", "setUnpublished")
    /\ LET c == req[q].snap.id IN Hit(q, c, WithPublished(c, FALSE), "dropCR")
    /\ UNCHANGED <<used, data, cr, validated, trouble>>

UnpublishDropCR(q) ==
    /\ At(q, "unpublish", "dropCR")
    /\ cr' = [cr EXCEPT ![req[q].snap.row.name] = NoCR]
    /\ Finish(q)
    /\ UNCHANGED <<tables, validated, trouble>>

-----------------------------------------------------------------------------
(***************************************************************************)
(* SyncCR, called after a mutation of the catalog addressed by name: it    *)
(* reads the row again, does nothing unless it is published, and otherwise *)
(* writes the CR of that name.  Errors are only logged.                    *)
(***************************************************************************)
(* MUTANT: a replace syncs the name it was called on. *)
SyncNameOfSource(r) == r.name

SyncName(r) == IF r.op = "replace" THEN r.other ELSE r.name

AfterSync(q) ==
    IF req[q].op = "replace" /\ req[q].snap.row.published
      THEN Goto(q, "dropSourceCR")
      ELSE Finish(q)

(* MUTANT: a catalog is synced whether it is published or not. *)
SyncReadAny(q) ==
    /\ req[q].pc = "syncRead"
    /\ \E c \in Owners(SyncName(req[q])) :
          req' = [req EXCEPT ![q].snap2 = SnapOf(c), ![q].pc = "syncWrite"]
    /\ UNCHANGED <<tables, cr, validated, trouble>>

SyncRead(q) ==
    /\ req[q].pc = "syncRead"
    /\ LET published == {c \in Owners(SyncName(req[q])) : row[c].published} IN
         IF published = {}
           THEN AfterSync(q)
           ELSE \E c \in published :
                  req' = [req EXCEPT ![q].snap2 = SnapOf(c), ![q].pc = "syncWrite"]
    /\ UNCHANGED <<tables, cr, validated, trouble>>

SyncWrite(q) ==
    /\ req[q].pc = "syncWrite"
    /\ cr' = [cr EXCEPT ![req[q].snap2.row.name] = CROf(req[q].snap2)]
    /\ AfterSync(q)
    /\ UNCHANGED <<tables, validated, trouble>>

-----------------------------------------------------------------------------
(***************************************************************************)
(* Mutations of the contents: instances, attribute values, links, parents. *)
(* `mutate' stands for those that check their input before they write,     *)
(* `addInstance' for CreateInstance and CreateContainedInstance, which     *)
(* insert the instance before its attribute values are validated.          *)
(***************************************************************************)
MutateRead(q) ==
    /\ req[q].op \in {"mutate", "addInstance"}
    /\ req[q].pc = "read"
    /\ \E c \in Owners(req[q].name) : Remember(q, c, "apply") \/ Finish(q)
    /\ UNCHANGED <<tables, cr, validated, trouble>>

Contents(op) == IF op = "addInstance" THEN Data \ {EmptyData} ELSE Data

MutateApply(q) ==
    /\ req[q].op \in {"mutate", "addInstance"}
    /\ req[q].pc = "apply"
    /\ \E d \in Contents(req[q].op) : data' = [data EXCEPT ![req[q].snap.id] = d]
    /\ Goto(q, "reset")
    /\ UNCHANGED <<row, used, cr, validated, trouble>>

(***************************************************************************)
(* The attribute values are rejected: the handler returns the error, the   *)
(* instance stays.                                                         *)
(***************************************************************************)
AddInstanceRejected(q) ==
    /\ "badInput" \in Faults
    /\ At(q, "addInstance", "apply")
    /\ \E d \in Contents("addInstance") : data' = [data EXCEPT ![req[q].snap.id] = d]
    /\ Finish(q)
    /\ trouble' = trouble \cup {"badInput"}
    /\ UNCHANGED <<row, used, cr, validated>>

MutateReset(q) ==
    /\ req[q].op \in {"mutate", "addInstance"}
    /\ req[q].pc = "reset"
    /\ LET c == req[q].snap.id IN
         row' = IF c \in Live THEN WithStatus(c, "draft") ELSE row
    /\ Goto(q, "syncRead")
    /\ UNCHANGED <<used, data, cr, validated, trouble>>

-----------------------------------------------------------------------------
(***************************************************************************)
(* UpdateMetadata.  A rename has a statement of its own; a new description *)
(* or pin is written by saving the whole row as it was read, which also    *)
(* inserts it again if it has been deleted meanwhile.  Only a rename or a  *)
(* new pin resets the status.                                              *)
(***************************************************************************)
Renames(r) == r.other # None /\ r.other # r.name
NameAfter(r) == IF Renames(r) THEN r.other ELSE r.name
Repins(r) == r.cv # None /\ r.cv # r.snap.row.cv
Saves(r) == r.desc \/ Repins(r)

Allowed(r, c) ==
    row[c].published => r.role = "SuperAdmin" /\ r.other = None /\ r.cv = None

(* MUTANT: a new pin does not reset the status. *)
AfterSaveRenameOnly(r) ==
    IF Renames(r) THEN "reset" ELSE "idle"

AfterSave(r) ==
    CASE Renames(r) \/ Repins(r) -> "reset"
      [] ~(Renames(r) \/ Repins(r)) /\ Saves(r) /\ r.snap.row.published -> "syncRead"
      [] OTHER -> "idle"

AfterRename(r) == IF Saves(r) THEN "save" ELSE AfterSave(r)

Advance(q, r, pc) == req' = [req EXCEPT ![q] = IF pc = "idle" THEN Idle ELSE [r EXCEPT !.pc = pc]]

UpdateRead(q) ==
    /\ At(q, "update", "read")
    /\ \E c \in Owners(req[q].name) :
         LET r == [req[q] EXCEPT !.snap = SnapOf(c)] IN
         IF ~Allowed(r, c) THEN Finish(q)
         ELSE Advance(q, r, IF Renames(r) THEN "checkName" ELSE AfterRename(r))
    /\ UNCHANGED <<tables, cr, validated, trouble>>

UpdateCheckName(q) ==
    /\ At(q, "update", "checkName")
    /\ IF Owners(req[q].other) \ {req[q].snap.id} # {} THEN Finish(q) ELSE Goto(q, "rename")
    /\ UNCHANGED <<tables, cr, validated, trouble>>

UpdateRename(q) ==
    /\ At(q, "update", "rename")
    /\ LET r == req[q]
           c == r.snap.id IN
         IF c \in Live /\ Owners(r.other) \subseteq {c}
           THEN /\ row' = [row EXCEPT ![c].name = r.other]
                /\ Advance(q, r, AfterRename(r))
           ELSE row' = row /\ Finish(q)
    /\ UNCHANGED <<used, data, cr, validated, trouble>>

UpdateSave(q) ==
    /\ At(q, "update", "save")
    /\ LET r == req[q]
           c == r.snap.id IN
         IF Owners(NameAfter(r)) \subseteq {c}
           THEN /\ row' = [row EXCEPT ![c] =
                              [r.snap.row EXCEPT !.name = NameAfter(r),
                                                 !.cv = IF Repins(r) THEN r.cv ELSE @]]
                /\ Advance(q, r, AfterSave(r))
           ELSE row' = row /\ Finish(q)
    /\ UNCHANGED <<used, data, cr, validated, trouble>>

(***************************************************************************)
(* A published row is neither renamed nor re-pinned, so no sync follows.   *)
(***************************************************************************)
UpdateReset(q) ==
    /\ At(q, "update", "reset")
    /\ LET c == req[q].snap.id IN
         row' = IF c \in Live THEN WithStatus(c, "draft") ELSE row
    /\ Finish(q)
    /\ UNCHANGED <<used, data, cr, validated, trouble>>

-----------------------------------------------------------------------------
(***************************************************************************)
(* Delete: the CR of a published catalog first, then, in one transaction,  *)
(* its contents and its row.                                               *)
(***************************************************************************)
DeleteRead(q) ==
    /\ At(q, "delete", "read")
    /\ \E c \in Owners(req[q].name) :
         Remember(q, c, IF row[c].published THEN "dropCR" ELSE "dropRow")
    /\ UNCHANGED <<tables, cr, validated, trouble>>

DeleteDropCR(q) ==
    /\ At(q, "delete", "dropCR")
    /\ cr' = [cr EXCEPT ![req[q].snap.row.name] = NoCR]
    /\ Goto(q, "dropRow")
    /\ UNCHANGED <<tables, validated, trouble>>

DeleteDropRow(q) ==
    /\ At(q, "delete", "dropRow")
    /\ LET c == req[q].snap.id IN
         IF c \in Live
           THEN /\ row' = [row EXCEPT ![c] = NoRow]
                /\ data' = [data EXCEPT ![c] = EmptyData]
           ELSE UNCHANGED <<row, data>>
    /\ Finish(q)
    /\ UNCHANGED <<used, cr, validated, trouble>>

-----------------------------------------------------------------------------
(***************************************************************************)
(* ReplaceCatalog: the target gives its name and its published state to    *)
(* the source and keeps its data under the archive name.  The transaction  *)
(* writes by id, from what was read before it began.                       *)
(***************************************************************************)
ReplaceRead(q) ==
    /\ At(q, "replace", "read")
    /\ \E c \in Owners(req[q].name) : Remember(q, c, "readTarget")
    /\ UNCHANGED <<tables, cr, validated, trouble>>

(* MUTANT: a draft can replace a published catalog. *)
ReplaceReadTargetUnchecked(q) ==
    /\ At(q, "replace", "readTarget")
    /\ \E c \in Owners(req[q].other) :
          req' = [req EXCEPT ![q].snap2 = SnapOf(c), ![q].pc = "swap"]
    /\ UNCHANGED <<tables, cr, validated, trouble>>

ReplaceReadTarget(q) ==
    /\ At(q, "replace", "readTarget")
    /\ IF Owners(req[q].other) = {} \/ req[q].snap.row.status # "valid"
         THEN Finish(q)
         ELSE \E c \in Owners(req[q].other) :
                req' = [req EXCEPT ![q].snap2 = SnapOf(c), ![q].pc = "swap"]
    /\ UNCHANGED <<tables, cr, validated, trouble>>

NameFree(r, n, c) == \A d \in Cats \ {c} : r[d] # NoRow => r[d].name # n

Swapped(r) ==
    LET s == r.snap.id
        t == r.snap2.id
        renamed == [[row EXCEPT ![t].name = r.archive] EXCEPT ![s].name = r.other]
    IN  CASE r.snap2.row.published ->
               [[renamed EXCEPT ![s].published = TRUE] EXCEPT ![t].published = FALSE]
          [] ~r.snap2.row.published /\ r.snap.row.published ->
               [renamed EXCEPT ![s].published = FALSE]
          [] OTHER -> renamed

AfterSwap(r) ==
    CASE r.snap2.row.published -> "dropArchiveCR"
      [] ~r.snap2.row.published /\ r.snap.row.published -> "dropSourceCR"
      [] OTHER -> "idle"

ReplaceSwap(q) ==
    /\ At(q, "replace", "swap")
    /\ LET r == req[q]
           s == r.snap.id
           t == r.snap2.id IN
         IF /\ {s, t} \subseteq Live
            /\ NameFree(row, r.archive, t)
            /\ NameFree([row EXCEPT ![t].name = r.archive], r.other, s)
           THEN row' = Swapped(r) /\ Advance(q, r, AfterSwap(r))
           ELSE row' = row /\ Finish(q)
    /\ UNCHANGED <<used, data, cr, validated, trouble>>

(* MUTANT: the CR of the name taken over is deleted. *)
ReplaceDropTargetCR(q) ==
    /\ At(q, "replace", "dropArchiveCR")
    /\ cr' = [cr EXCEPT ![req[q].other] = NoCR]
    /\ Goto(q, "syncRead")
    /\ UNCHANGED <<tables, validated, trouble>>

ReplaceDropArchiveCR(q) ==
    /\ At(q, "replace", "dropArchiveCR")
    /\ cr' = [cr EXCEPT ![req[q].archive] = NoCR]
    /\ Goto(q, "syncRead")
    /\ UNCHANGED <<tables, validated, trouble>>

ReplaceDropSourceCR(q) ==
    /\ At(q, "replace", "dropSourceCR")
    /\ cr' = [cr EXCEPT ![req[q].name] = NoCR]
    /\ Finish(q)
    /\ UNCHANGED <<tables, validated, trouble>>

-----------------------------------------------------------------------------
(***************************************************************************)
(* Failures.  A statement can fail, and from the moment the client hangs   *)
(* up or the process dies every later call of the request fails too: the   *)
(* two actions below, taken repeatedly, are also that.                     *)
(***************************************************************************)
DBSteps == {"read", "readTarget", "insert", "scan", "record", "setPublished",
            "rollback", "setUnpublished", "checkName", "rename", "save", "reset",
            "apply", "dropRow", "swap"}

DBFails(q) ==
    /\ "db" \in Faults
    /\ \/ req[q].pc \in DBSteps /\ Finish(q)
       \/ \* the error of the status reset is ignored
          /\ req[q].pc = "reset" /\ req[q].op \in {"mutate", "addInstance"}
          /\ Goto(q, "syncRead")
       \/ req[q].pc = "syncRead" /\ AfterSync(q)
    /\ trouble' = trouble \cup {"db"}
    /\ UNCHANGED <<tables, cr, validated>>

K8sFails(q) ==
    /\ "k8s" \in Faults
    /\ \/ req[q].pc = "writeCR" /\ Goto(q, "rollback")
       \/ req[q].pc \in {"dropCR", "dropSourceCR"} /\ Finish(q)
       \/ req[q].pc = "dropArchiveCR" /\ Goto(q, "syncRead")
       \/ req[q].pc = "syncWrite" /\ AfterSync(q)
    /\ trouble' = trouble \cup {"k8s"}
    /\ UNCHANGED <<tables, cr, validated>>

-----------------------------------------------------------------------------
Handle(q) ==
    \/ Arrive(q) \/ ReadMisses(q)
    \/ CreateInsert(q)
    \/ CopyRead(q) \/ CopyScan(q) \/ CopyInsert(q)
    \/ ValidateRead(q) \/ ValidateScan(q) \/ ValidateRecord(q)
    \/ PublishRead(q) \/ PublishSet(q) \/ PublishWriteCR(q) \/ PublishRollback(q)
    \/ UnpublishRead(q) \/ UnpublishSet(q) \/ UnpublishDropCR(q)
    \/ SyncRead(q) \/ SyncWrite(q)
    \/ MutateRead(q) \/ MutateApply(q) \/ MutateReset(q) \/ AddInstanceRejected(q)
    \/ UpdateRead(q) \/ UpdateCheckName(q) \/ UpdateRename(q) \/ UpdateSave(q)
    \/ UpdateReset(q)
    \/ DeleteRead(q) \/ DeleteDropCR(q) \/ DeleteDropRow(q)
    \/ ReplaceRead(q) \/ ReplaceReadTarget(q) \/ ReplaceSwap(q)
    \/ ReplaceDropArchiveCR(q) \/ ReplaceDropSourceCR(q)
    \/ DBFails(q) \/ K8sFails(q)

Next == \E q \in Reqs : Handle(q)

Spec == Init /\ [][Next]_vars

-----------------------------------------------------------------------------
(***************************************************************************)
(* Properties.                                                             *)
(***************************************************************************)
Quiescent == \A q \in Reqs : req[q].pc = "idle"

Published == {c \in Live : row[c].published}

(***************************************************************************)
(* No catalog is published that a validation has not at some time recorded *)
(* as valid, whatever requests interleave and whatever fails: not by a     *)
(* publish on a stale status, a replace that hands the published flag on,  *)
(* a copy, or a row saved back from memory.                                *)
(***************************************************************************)
PublishedWasValidated == Published \subseteq validated

(***************************************************************************)
(* Nor is any catalog ever exposed in the cluster before that: the CR of   *)
(* every name points at a catalog that was once recorded as valid.         *)
(***************************************************************************)
ExposedWasValidated == \A n \in Names : cr[n] # NoCR => cr[n].source \in validated

(***************************************************************************)
(* While requests come one at a time and nothing fails, the cluster shows, *)
(* between requests, exactly the published catalogs: a CR of their name,   *)
(* which points at the row and its pin, and no other CR.                   *)
(***************************************************************************)
Mirrors(n) ==
    LET served == Owners(n) \cap Published IN
    IF cr[n] = NoCR THEN served = {}
    ELSE \E c \in served : cr[n].source = c /\ cr[n].cv = row[c].cv

ClusterMirrorsDatabase ==
    Quiescent /\ trouble \subseteq {"badInput"} => \A n \in Names : Mirrors(n)

(***************************************************************************)
(* With Kubernetes failing at any call, a published catalog still has a    *)
(* CR of its name between requests that come one at a time: publish rolls  *)
(* back, delete stops, replace leaves the CR of the name it takes over.    *)
(***************************************************************************)
PublishedIsDiscoverable ==
    Quiescent /\ trouble \subseteq {"badInput", "k8s"}
      => \A c \in Published : cr[row[c].name] # NoCR

(***************************************************************************)
(* One request at a time, a status `valid' is about the contents and the   *)
(* pin the catalog has now: whatever changes either resets the status.     *)
(***************************************************************************)
VerdictsHold ==
    \A c \in Live : row[c].status = "valid" => <<data[c], row[c].cv>> \in Conforming

ValidMeansConforming ==
    Quiescent /\ trouble \subseteq {"k8s"} => VerdictsHold

(***************************************************************************)
(* Without overlap, the contents of a published catalog change only at the *)
(* hand of a SuperAdmin, and its name and pin not at all, except that a    *)
(* replace moves it to the archive name and unpublishes it.                *)
(***************************************************************************)
Touched(c) == data'[c] # data[c] \/ row'[c].name # row[c].name \/ row'[c].cv # row[c].cv

PublishedIsProtected ==
    [][ "overlap" \notin trouble =>
          \A c \in Published :
            (c \in Live' /\ Touched(c)) =>
              \E q \in Reqs :
                 \/ req[q].role = "SuperAdmin" /\ req[q].pc = "apply"
                 \/ req[q].op = "replace" /\ req[q].pc = "swap" /\ ~(row'[c].published /\ c = req[q].snap2.id) ]_vars

(***************************************************************************)
(* Without overlap, whatever fails, the CR of a name is taken down only    *)
(* after the catalog that holds the name is withdrawn, and by Delete: a    *)
(* replace does not interrupt the service of the name it takes over.       *)
(***************************************************************************)
ServedUntilWithdrawn ==
    [][ "overlap" \notin trouble =>
          \A c \in Published :
            cr[row[c].name] # NoCR /\ cr'[row[c].name] = NoCR
              => \E q \in Reqs : At(q, "delete", "dropCR") ]_vars

(***************************************************************************)
(* As PRD.md promises of Unpublish, "deletes the Catalog CR" and, if that  *)
(* fails, "DB state consistent": between requests every CR is that of a    *)
(* published catalog, also when Kubernetes fails.  The code breaks this.   *)
(***************************************************************************)
WithdrawnWhenUnpublished ==
    Quiescent => \A n \in Names : cr[n] # NoCR => Owners(n) \cap Published # {}

(***************************************************************************)
(* As PRD.md promises, "any subsequent data change resets the status to    *)
(* draft": between requests no catalog is valid whose contents validation  *)
(* would reject.  Two requests that overlap break this.                    *)
(***************************************************************************)
ChangeResetsStatus == Quiescent => VerdictsHold

(***************************************************************************)
(* The lifecycle implements the board its consumers are promised.          *)
(***************************************************************************)
Board == INSTANCE DiscoveryBoard WITH
            Nobody <- None,
            approved <- validated,
            granted <- Published,
            board <- [n \in Names |-> IF cr[n] = NoCR THEN None ELSE cr[n].source]

ImplementsBoard == Board!Spec

-----------------------------------------------------------------------------
(***************************************************************************)
(* The inductive invariant behind PublishedWasValidated and                *)
(* ExposedWasValidated: what the tables and the CRs say holds of every     *)
(* snapshot in flight as well, because any of them may yet be acted on.    *)
(***************************************************************************)
WellFormed(r) ==
    /\ r.pc # "idle" => r.name \in Names
    /\ r.op \in {"copy", "replace"} => r.other \in Names
    /\ r.op = "replace" => r.archive \in Names
    /\ r.op = "create" => r.cv \in CVs /\ r.pc = "insert"
    /\ r.pc \in {"checkName", "rename"} => r.other \in Names
    /\ r.pc \notin {"idle", "read"} /\ r.op # "create" => r.snap \in Snap
    /\ r.pc \in {"swap", "dropArchiveCR", "syncWrite"} => r.snap2 \in Snap
    /\ r.pc = "record" \/ (r.op = "copy" /\ r.pc = "insert") => r.seen \in Data

Vouched(c, rw, vs) == rw.published \/ rw.status = "valid" => c \in vs

Trusted(r, vs) ==
    /\ r.snap # NoSnap => Vouched(r.snap.id, r.snap.row, vs)
    /\ r.snap2 # NoSnap => Vouched(r.snap2.id, r.snap2.row, vs)
    /\ r.op = "publish" /\ r.pc \in {"setPublished", "writeCR"} => r.snap.row.status = "valid"
    /\ r.op = "replace" /\ r.pc = "swap" => r.snap.row.status = "valid"
    /\ r.pc = "syncWrite" => r.snap2.row.published

RequestInv == \A q \in Reqs : WellFormed(req[q]) /\ Trusted(req[q], validated)

RowInv == \A c \in Cats : row[c] # NoRow => Vouched(c, row[c], validated)

IInv == TypeOK /\ RequestInv /\ RowInv /\ ExposedWasValidated

=============================================================================
