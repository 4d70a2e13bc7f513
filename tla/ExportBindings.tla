---------------------------- MODULE ExportBindings ----------------------------
(***************************************************************************)
(* Export bindings of a catalog, the preview of a publication, and the     *)
(* check of a preview when the catalog is published.  A binding names an   *)
(* exporter of the registry; a preview exports the catalog through every   *)
(* enabled binding and keeps the artifacts in a session with the time      *)
(* (updated_at) of the catalog row it began with.  PublishCatalog takes    *)
(* the token of a session and refuses it when the catalog has another      *)
(* time by then.  Requests run one statement at a time, and interleave.    *)
(***************************************************************************)
EXTENDS ExporterPlugins

CONSTANTS
    Bindings,   \* ids of bindings, each used once
    Callers     \* requests in flight

ASSUME BindingsAssumption == Bindings # {}

VARIABLES
    catalog,    \* the catalog row or NoObject
    bindings,   \* binding rows: id -> Row or NoObject
    spent,      \* the ids that have been used
    sessions,   \* the preview cache
    calls,      \* the requests: caller -> Call
    clock,      \* counts updates of the catalog row and of what it exports
    unmarked,   \* history: a change of what the catalog exports has ended
                \* without a mark of its row
    late        \* history: bindings that were written, or could not be
                \* deleted, while their catalog was being deleted

exportVars == <<catalog, bindings, spent, sessions, calls, clock, unmarked, late>>

(***************************************************************************)
(* Of a catalog: its id, updated_at, what an export of it says (its        *)
(* instances and the types it pins with their names, by number), whether   *)
(* it is valid, and whether published.                                     *)
(***************************************************************************)
Catalog == [id : Nat, stamp : Nat, content : Nat, valid : BOOLEAN, published : BOOLEAN]

ASSUME ExportAbsentAssumption == NoObject \notin Catalog

Runs == {"never", "success", "failed"}

Row == [of : Nat, exporter : Plugins, params : Nat, enabled : BOOLEAN, last : Runs]

Session == [stamp : Nat, made : [Bindings -> Nat \cup {NoObject}]]

IdleCall == [op |-> "idle"]

Call ==
    [op : {"idle"}]
      \cup [op : {"publish"}, session : Session \cup {NoObject}, at : Nat]
      \cup [op : {"insert", "save"}, b : Bindings, row : Row]
      \cup [op : {"preview"}, todo : [Bindings -> Row \cup {NoObject}], session : Session]
      \cup [op : {"reset", "resetPins"}, id : Nat]
      \cup [op : {"setStatus"}, id : Nat, valid : BOOLEAN]
      \cup [op : {"delete"}, id : Nat, step : 1..2]

ExportTypeOK ==
    /\ catalog \in Catalog \cup {NoObject}
    /\ bindings \in [Bindings -> Row \cup {NoObject}]
    /\ spent \subseteq Bindings
    /\ \A s \in sessions : s \in Session
    /\ calls \in [Callers -> Call]
    /\ clock \in Nat /\ unmarked \in BOOLEAN
    /\ late \subseteq Bindings

ExportInit ==
    LET some == "catalog" \in load.does
    IN /\ catalog = IF some THEN [id |-> 1, stamp |-> 1, content |-> 1, valid |-> TRUE,
                                  published |-> FALSE] ELSE NoObject
       /\ spent = IF some THEN {CHOOSE b \in Bindings : TRUE} ELSE {}
       /\ \E p \in Plugins :
            /\ IF some THEN registry[p] # NoObject ELSE p = BuiltIn
            /\ bindings = [x \in Bindings |-> IF x \in spent
                 THEN [of |-> 1, exporter |-> p, params |-> 0, enabled |-> TRUE, last |-> "never"]
                 ELSE NoObject]
       /\ sessions = {} /\ late = {}
       /\ calls = [q \in Callers |-> IdleCall]
       /\ clock = 1 /\ unmarked = FALSE

-----------------------------------------------------------------------------
(***************************************************************************)
(* Vocabulary.  A request starts when a caller is idle.  Every update of   *)
(* the catalog row sets updated_at to the time of the update.              *)
(***************************************************************************)
Start(q, op) == calls[q] = IdleCall /\ Change(op) /\ UNCHANGED <<faults, unmarked, late>>

Goto(q, call) == calls' = [calls EXCEPT ![q] = call]

Within(q, op) == calls[q].op = op /\ UNCHANGED edits

At(q, op) == Within(q, op) /\ UNCHANGED faults

Exists(id) == catalog # NoObject /\ catalog.id = id

Tick == clock' = clock + 1

Touch(row) == catalog' = [row EXCEPT !.stamp = clock + 1] /\ Tick /\ unmarked' = FALSE

RowKept == UNCHANGED <<catalog, clock, unmarked>>

Doomed(id) ==
    \/ ~Exists(id)
    \/ \E q \in Callers :
         calls[q].op = "delete" /\ calls[q].step = 2 /\ calls[q].id = id

SaveBinding(b, row) ==
    /\ bindings' = [bindings EXCEPT ![b] = row]
    /\ late' = IF Doomed(row.of) THEN late \cup {b} ELSE late

(***************************************************************************)
(* Whether an exporter accepts and answers is for the plugin to say; a     *)
(* webhook that does not answer with 200 does not.                         *)
(***************************************************************************)
Registered(p) == registry[p] # NoObject

MayAnswer(p) == Registered(p) /\ (registry[p].builtIn \/ answers[p] = "200")

RanAs(ok) == IF ok THEN "success" ELSE "failed"

-----------------------------------------------------------------------------
(***************************************************************************)
(* Bindings.  Create and Update (of parameters) ask the exporter first.    *)
(* Update and the status of a run save the whole row as it was read, and   *)
(* Save inserts a row that is gone.                                        *)
(***************************************************************************)
CreateBinding(q) ==
    /\ Start(q, "createBinding")
    /\ catalog # NoObject
    /\ \E b \in Bindings \ spent, p \in Plugins :
         /\ MayAnswer(p)
         /\ spent' = spent \cup {b}
         /\ Goto(q, [op |-> "insert", b |-> b, row |->
                     [of |-> catalog.id, exporter |-> p, params |-> 0, enabled |-> TRUE,
                      last |-> "never"]])
    /\ UNCHANGED <<catalog, bindings, sessions, clock>>

Mine(b) == bindings[b] # NoObject /\ Exists(bindings[b].of)

UpdateBinding(q) ==
    /\ Start(q, "updateBinding")
    /\ \E b \in Bindings :
         /\ Mine(b)
         /\ \E row \in {[bindings[b] EXCEPT !.params = edits + 1],
                        [bindings[b] EXCEPT !.enabled = ~@]} :
              /\ row.params # bindings[b].params => MayAnswer(row.exporter)
              /\ Goto(q, [op |-> "save", b |-> b, row |-> row])
    /\ UNCHANGED <<catalog, bindings, spent, sessions, clock>>

RunBinding(q) ==
    /\ Start(q, "run")
    /\ \E b \in Bindings, ok \in BOOLEAN :
         /\ Mine(b) /\ bindings[b].enabled
         /\ ok => MayAnswer(bindings[b].exporter)
         /\ Goto(q, [op |-> "save", b |-> b, row |-> [bindings[b] EXCEPT !.last = RanAs(ok)]])
    /\ UNCHANGED <<catalog, bindings, spent, sessions, clock>>

WriteBinding(q) ==
    /\ At(q, "insert") \/ At(q, "save")
    /\ SaveBinding(calls[q].b, calls[q].row)
    /\ Goto(q, IdleCall)
    /\ UNCHANGED <<catalog, spent, sessions, clock, unmarked>>

DeleteBinding(q) ==
    /\ Start(q, "deleteBinding")
    /\ \E b \in Bindings : Mine(b) /\ bindings' = [bindings EXCEPT ![b] = NoObject]
    /\ UNCHANGED <<catalog, spent, sessions, calls, clock>>

-----------------------------------------------------------------------------
(***************************************************************************)
(* A preview reads the catalog row and the bindings, then takes the        *)
(* bindings one by one: an exporter that is not registered is skipped, one *)
(* that does not accept the schema has failed, and one that is asked to    *)
(* export what the catalog holds by then has its status saved.             *)
(***************************************************************************)
NoArtifacts == [b \in Bindings |-> NoObject]

PublishPreview(q) ==
    /\ Start(q, "preview")
    /\ catalog # NoObject
    /\ Goto(q, [op |-> "preview",
                todo |-> [b \in Bindings |-> IF Mine(b) /\ bindings[b].enabled
                                               THEN bindings[b] ELSE NoObject],
                session |-> [stamp |-> catalog.stamp, made |-> NoArtifacts]])
    /\ UNCHANGED <<catalog, bindings, spent, sessions, clock>>

Exported(session, b) ==
    IF catalog = NoObject THEN session ELSE [session EXCEPT !.made[b] = catalog.content]

ExecuteBinding(q) ==
    /\ At(q, "preview")
    /\ \E b \in Bindings, result \in {"unavailable", "failed", "success"} :
         LET row == calls[q].todo[b]
             session == calls[q].session
         IN /\ row # NoObject
            /\ result = "failed" => Registered(row.exporter)
            /\ result = "success" => MayAnswer(row.exporter)
            /\ Goto(q, [calls[q] EXCEPT !.todo[b] = NoObject,
                          !.session = IF result = "success" THEN Exported(session, b) ELSE session])
            /\ IF result = "unavailable" THEN UNCHANGED <<bindings, late>>
                 ELSE SaveBinding(b, [row EXCEPT !.last = RanAs(result = "success")])
    /\ UNCHANGED <<catalog, spent, sessions, clock, unmarked>>

(* MUTANT: the session takes the time that the catalog has at the end. *)
StorePreviewNow(q) ==
    /\ At(q, "preview")
    /\ calls[q].todo = NoArtifacts
    /\ sessions' = sessions \cup {IF catalog = NoObject THEN calls[q].session
                                   ELSE [calls[q].session EXCEPT !.stamp = catalog.stamp]}
    /\ Goto(q, IdleCall)
    /\ UNCHANGED <<catalog, bindings, spent, clock, unmarked, late>>

StorePreview(q) ==
    /\ At(q, "preview")
    /\ calls[q].todo = NoArtifacts
    /\ sessions' = sessions \cup {calls[q].session}
    /\ Goto(q, IdleCall)
    /\ UNCHANGED <<catalog, bindings, spent, clock, unmarked, late>>

(***************************************************************************)
(* PublishCatalog accepts a session, or none; Publish then takes the       *)
(* catalog as it is, when it is valid.                                     *)
(***************************************************************************)
Accepts(session) == catalog # NoObject /\ session.stamp = catalog.stamp

PublishCatalog(q) ==
    /\ Start(q, "publish")
    /\ catalog # NoObject
    /\ \E s \in sessions \cup {NoObject} :
         /\ s # NoObject => Accepts(s)
         /\ Goto(q, [op |-> "publish", session |-> s, at |-> catalog.stamp])
    /\ UNCHANGED <<catalog, bindings, spent, sessions, clock>>

Publish(q) ==
    /\ At(q, "publish")
    /\ IF catalog # NoObject /\ catalog.valid
         THEN Touch([catalog EXCEPT !.published = TRUE]) ELSE RowKept
    /\ Goto(q, IdleCall)
    /\ UNCHANGED <<bindings, spent, sessions, late>>

Expire ==
    /\ \E s \in sessions : sessions' = sessions \ {s}
    /\ UNCHANGED <<catalog, bindings, spent, calls, clock, edits, faults, unmarked, late>>

-----------------------------------------------------------------------------
(***************************************************************************)
(* What the catalog exports changes with its instances, which mark its row *)
(* as a draft again, and with the pins of its version, which do so when it *)
(* is none.  The statement that marks the row may fail: the edit of an     *)
(* instance ignores that.                                                  *)
(***************************************************************************)
ChangeContent(q, op, then) ==
    /\ Start(q, op)
    /\ catalog # NoObject
    /\ catalog' = [catalog EXCEPT !.content = clock + 1] /\ Tick
    /\ Goto(q, [op |-> then, id |-> catalog.id])
    /\ UNCHANGED <<bindings, spent, sessions>>

EditInstance(q) == ChangeContent(q, "edit", "reset")

EditPins(q) == ChangeContent(q, "pins", "resetPins")

(***************************************************************************)
(* Two changes mark no catalog.  The types are read by their ids at each   *)
(* export: one that is renamed in place has its new name in the next, and  *)
(* with one that is deleted no export succeeds (here it may).  And the     *)
(* creation of an instance whose values are then rejected leaves it stored.*)
(***************************************************************************)
ChangeUnmarked(q, op) ==
    /\ calls[q] = IdleCall /\ Change(op)
    /\ catalog # NoObject
    /\ catalog' = [catalog EXCEPT !.content = clock + 1] /\ Tick
    /\ unmarked' = TRUE
    /\ UNCHANGED <<bindings, spent, sessions, calls, faults, late>>

EditTypes(q) == ChangeUnmarked(q, "types")

RejectCreation(q) == ChangeUnmarked(q, "edit")

Marked(q) ==
    Exists(calls[q].id) /\ (calls[q].op = "reset" \/ catalog.valid)

Reset(q) ==
    /\ At(q, "reset") \/ At(q, "resetPins")
    /\ IF Marked(q) THEN Touch([catalog EXCEPT !.valid = FALSE]) ELSE RowKept
    /\ Goto(q, IdleCall)
    /\ UNCHANGED <<bindings, spent, sessions, late>>

ResetFails(q) ==
    /\ Within(q, "reset") \/ Within(q, "resetPins")
    /\ Fault("database")
    /\ unmarked' = TRUE
    /\ Goto(q, IdleCall)
    /\ UNCHANGED <<catalog, bindings, spent, sessions, clock, late>>

Validate(q) ==
    /\ Start(q, "validate")
    /\ catalog # NoObject
    /\ \E valid \in BOOLEAN :
          Goto(q, [op |-> "setStatus", id |-> catalog.id, valid |-> valid])
    /\ UNCHANGED <<catalog, bindings, spent, sessions, clock>>

SetValidationStatus(q) ==
    /\ At(q, "setStatus")
    /\ IF Exists(calls[q].id) THEN Touch([catalog EXCEPT !.valid = calls[q].valid])
         ELSE RowKept
    /\ Goto(q, IdleCall)
    /\ UNCHANGED <<bindings, spent, sessions, late>>

-----------------------------------------------------------------------------
(***************************************************************************)
(* A catalog is deleted after its bindings; when those cannot be deleted,  *)
(* this is only logged.  The row is found by name again, and may be that   *)
(* of another catalog by then.                                             *)
(***************************************************************************)
CreateCatalog ==
    /\ Change("createCatalog")
    /\ catalog = NoObject
    /\ Tick
    /\ catalog' = [id |-> clock + 1, stamp |-> clock + 1, content |-> clock + 1,
                   valid |-> FALSE, published |-> FALSE]
    /\ UNCHANGED <<bindings, spent, sessions, calls, faults, unmarked, late>>

DeleteCatalog(q) ==
    /\ Start(q, "deleteCatalog")
    /\ catalog # NoObject
    /\ Goto(q, [op |-> "delete", id |-> catalog.id, step |-> 1])
    /\ UNCHANGED <<catalog, bindings, spent, sessions, clock>>

(* MUTANT: the row goes first. *)
RowFirst == <<"row", "bindings">>

DeleteOrder == <<"bindings", "row">>

NextStep(q) == Goto(q, IF calls[q].step = 1 THEN [calls[q] EXCEPT !.step = 2] ELSE IdleCall)

OfCatalog(id) == {b \in Bindings : bindings[b] # NoObject /\ bindings[b].of = id}

DeleteBindings(q) ==
    /\ Within(q, "delete") /\ DeleteOrder[calls[q].step] = "bindings"
    /\ NextStep(q)
    /\ \/ /\ bindings' = [b \in Bindings |-> IF b \in OfCatalog(calls[q].id)
                                               THEN NoObject ELSE bindings[b]]
          /\ UNCHANGED <<faults, late>>
       \/ /\ Fault("database")
          /\ late' = late \cup OfCatalog(calls[q].id)
          /\ UNCHANGED bindings
    /\ UNCHANGED <<catalog, spent, sessions, clock, unmarked>>

DeleteRow(q) ==
    /\ At(q, "delete") /\ DeleteOrder[calls[q].step] = "row"
    /\ NextStep(q)
    /\ catalog' = NoObject
    /\ late' = late \cup IF catalog = NoObject \/ Exists(calls[q].id) THEN {}
                         ELSE OfCatalog(catalog.id)
    /\ UNCHANGED <<bindings, spent, sessions, clock, unmarked>>

(***************************************************************************)
(* A restart of the API server ends the requests, and the sessions.        *)
(***************************************************************************)
RestartAll ==
    /\ RestartServer
    /\ sessions' = {}
    /\ calls' = [q \in Callers |-> IdleCall]
    /\ UNCHANGED <<catalog, bindings, spent, clock, unmarked, late>>

-----------------------------------------------------------------------------
Request(q) ==
    \/ CreateBinding(q) \/ UpdateBinding(q) \/ RunBinding(q) \/ WriteBinding(q)
    \/ DeleteBinding(q)
    \/ PublishPreview(q) \/ ExecuteBinding(q) \/ StorePreview(q)
    \/ PublishCatalog(q) \/ Publish(q)
    \/ EditInstance(q) \/ EditPins(q) \/ EditTypes(q) \/ RejectCreation(q) \/ Reset(q) \/ ResetFails(q)
    \/ Validate(q) \/ SetValidationStatus(q)
    \/ DeleteCatalog(q) \/ DeleteBindings(q) \/ DeleteRow(q)

-----------------------------------------------------------------------------
(***************************************************************************)
(* Publishing with the token of a preview publishes what was previewed:    *)
(* every artifact was made of what the catalog exports now.  Except when   *)
(* the row was updated after the check of the token; while a change of its *)
(* instances or pins has yet to mark the row; and when a change has ended  *)
(* without a mark since the last one: one whose mark failed, and the two   *)
(* that never mark it, of a type in place and by a creation whose values   *)
(* are rejected.  The token does not notice those.                         *)
(***************************************************************************)
Changing == unmarked \/ \E q \in Callers : calls[q].op \in {"reset", "resetPins"}

PublishedAsPreviewed ==
    [][\A q \in Callers :
         (/\ calls[q].op = "publish" /\ calls'[q] # calls[q] /\ catalog' # catalog
          /\ calls[q].session # NoObject /\ calls[q].at = catalog.stamp /\ ~Changing)
         => \A b \in Bindings : calls[q].session.made[b] \in {NoObject, catalog.content}]_exportVars

(***************************************************************************)
(* A binding belongs to a catalog that exists, except for one that was     *)
(* written while its catalog was being deleted, and one that could not be  *)
(* deleted with it: no key of the database ties bindings to catalogs.      *)
(***************************************************************************)
BindingsHaveCatalog ==
    \A b \in Bindings \ late : bindings[b] # NoObject => Exists(bindings[b].of)
=============================================================================
