--------------------------- MODULE Cluster_proofs ---------------------------
(***************************************************************************)
(* Proofs about Cluster, for every set of plugins, bindings, callers and   *)
(* resources and every workload: no resource takes the place of a built-in *)
(* exporter, and no binding outlives its catalog unless the code let it.   *)
(***************************************************************************)
EXTENDS Cluster, TLAPS

(***************************************************************************)
(* The registry is only written by the watcher and by a restart, and both  *)
(* leave the built-in exporter alone.                                      *)
(***************************************************************************)
RegistryInv == DOMAIN registry = Plugins /\ BuiltInKept

LEMMA BuiltInIsExporter == IsBuiltIn(BuiltIn) = TRUE \/ ~BuiltInKept
  <1>1. Fresh[BuiltIn] = [builtIn |-> TRUE, spec |-> 0, health |-> "none"]
    BY PluginsAssumption DEF Fresh
  <1>2. Fresh[BuiltIn] \in Exporter
    BY <1>1 DEF Exporter
  <1>. QED BY <1>1, <1>2, AbsentAssumption DEF BuiltInKept, IsBuiltIn

LEMMA HandleKeepsRegistry ==
  ASSUME RegistryInv, NEW p \in Plugins, Handle(p)
  PROVE  RegistryInv'
  <1>1. IsBuiltIn(BuiltIn)
    BY BuiltInIsExporter DEF RegistryInv
  <1>2. \/ registry' = registry
        \/ ~IsBuiltIn(p) /\ \E e : registry' = [registry EXCEPT ![p] = e]
    <2>1. CASE RegisterWebhook(p, plugins[p])
      BY <2>1 DEF RegisterWebhook
    <2>2. CASE Deregister(p)
      BY <2>2 DEF Deregister
    <2>. QED BY <2>1, <2>2 DEF Handle
  <1>3. registry'[BuiltIn] = registry[BuiltIn] /\ DOMAIN registry' = DOMAIN registry
    <2>1. p # BuiltIn \/ registry' = registry
      BY <1>1, <1>2
    <2>. QED BY <1>2, <2>1, PluginsAssumption DEF RegistryInv
  <1>. QED BY <1>3 DEF RegistryInv, BuiltInKept, Fresh

LEMMA RestartMakesRegistry == ASSUME RestartServer PROVE RegistryInv'
  BY DEF RestartServer, RegistryInv, BuiltInKept, Fresh

LEMMA PluginsKeepRegistry == ASSUME RegistryInv, PluginsNext PROVE RegistryInv'
  <1>1. CASE registry' = registry
    BY <1>1 DEF RegistryInv, BuiltInKept, Fresh
  <1>2. ASSUME NEW p \in Plugins, Handle(p) PROVE RegistryInv'
    BY <1>2, HandleKeepsRegistry
  <1>3. \/ registry' = registry
        \/ \E p \in Plugins : Handle(p)
    BY DEF PluginsNext, pluginVars, DownPlugins, UpPlugins, WritePlugin, DeletePlugin,
           ChangeAnswer, Interval, ProbeStart, ProbeEnd
  <1>. QED BY <1>1, <1>2, <1>3

LEMMA RegistryInit == ASSUME PluginsInit PROVE RegistryInv
  <1>1. plugins[BuiltIn] = NoObject
    BY PluginsAssumption DEF PluginsInit
  <1>. QED BY <1>1, PluginsAssumption DEF PluginsInit, RegistryInv, BuiltInKept

-----------------------------------------------------------------------------
(***************************************************************************)
(* Bindings.  A deletion that has dealt with the bindings, and is about to *)
(* drop the row, has left none of its catalog but those noted as late.     *)
(***************************************************************************)
DeleteCall(c) ==
    /\ c = [op |-> "delete", id |-> c.id, step |-> c.step]
    /\ c.step \in 1..2

Swept(id) == \A b \in Bindings \ late : bindings[b] # NoObject => bindings[b].of # id

Shapes ==
    /\ bindings = [b \in Bindings |-> bindings[b]]
    /\ calls = [q \in Callers |-> calls[q]]
    /\ catalog \in Catalog \cup {NoObject} /\ clock \in Nat
    /\ \A q \in Callers : "op" \in DOMAIN calls[q]
    /\ \A q \in Callers : calls[q].op = "delete" => DeleteCall(calls[q])
    /\ \A q \in Callers : calls[q].op = "setStatus" => calls[q].valid \in BOOLEAN

DeletesSweep ==
    \A q \in Callers : calls[q].op = "delete" /\ calls[q].step = 2 => Swept(calls[q].id)

BindingInv == Shapes /\ DeletesSweep /\ BindingsHaveCatalog

(***************************************************************************)
(* Calls that are no deletions about to drop their row.                    *)
(***************************************************************************)
Harmless(c) ==
    /\ "op" \in DOMAIN c
    /\ c.op = "delete" => DeleteCall(c) /\ c.step = 1
    /\ c.op = "setStatus" => c.valid \in BOOLEAN

SameId ==
    /\ IF catalog = NoObject THEN catalog' = NoObject
         ELSE catalog' \in Catalog /\ catalog'.id = catalog.id
    /\ clock' \in Nat

(***************************************************************************)
(* A step that leaves the bindings alone, keeps the identity of the row    *)
(* and moves one call to a harmless state.                                 *)
(***************************************************************************)
LEMMA CallOnly ==
  ASSUME BindingInv, NEW q \in Callers, NEW c, Harmless(c), Goto(q, c),
         SameId, bindings' = bindings, late' = late
  PROVE  BindingInv'
  <1>1. \A p \in Callers : calls'[p] = IF p = q THEN c ELSE calls[p]
    BY DEF BindingInv, Shapes, Goto
  <1>2. Shapes'
    BY <1>1 DEF BindingInv, Shapes, Goto, SameId, Harmless
  <1>3. DeletesSweep'
    BY <1>1 DEF BindingInv, DeletesSweep, Swept, Harmless
  <1>4. BindingsHaveCatalog'
    BY ExportAbsentAssumption DEF BindingInv, BindingsHaveCatalog, Exists, SameId
  <1>. QED BY <1>2, <1>3, <1>4 DEF BindingInv

(***************************************************************************)
(* A binding that is written: it has its catalog and no deletion has       *)
(* passed it, or it is late.                                               *)
(***************************************************************************)
LEMMA WriteStep ==
  ASSUME BindingInv, NEW q \in Callers, NEW c, c.op \notin {"delete", "setStatus"}, "op" \in DOMAIN c, Goto(q, c),
         calls[q].op # "delete", UNCHANGED <<catalog, clock>>,
         NEW b, NEW row, SaveBinding(b, row)
  PROVE  BindingInv'
  <1>1. \A p \in Callers : calls'[p] = IF p = q THEN c ELSE calls[p]
    BY DEF BindingInv, Shapes, Goto
  <1>2. \A x \in Bindings : bindings'[x] = IF x = b THEN row ELSE bindings[x]
    BY DEF BindingInv, Shapes, SaveBinding
  <1>3. Shapes'
    BY <1>1 DEF BindingInv, Shapes, Goto, SaveBinding
  <1>4. late \subseteq late' /\ (b \in late' \/ ~Doomed(row.of))
    BY DEF SaveBinding
  <1>5. DeletesSweep'
    <2>. SUFFICES ASSUME NEW p \in Callers, calls'[p].op = "delete", calls'[p].step = 2,
                         NEW x \in Bindings \ late', bindings'[x] # NoObject,
                         bindings'[x].of = calls'[p].id
                  PROVE  FALSE
      BY DEF DeletesSweep, Swept
    <2>1. calls'[p] = calls[p]
      BY <1>1
    <2>2. CASE x = b
      BY <1>2, <1>4, <2>1, <2>2 DEF Doomed
    <2>3. CASE x # b
      BY <1>2, <1>4, <2>1, <2>3 DEF BindingInv, DeletesSweep, Swept
    <2>. QED BY <2>2, <2>3
  <1>6. BindingsHaveCatalog'
    <2>. SUFFICES ASSUME NEW x \in Bindings \ late', bindings'[x] # NoObject
                  PROVE  Exists(bindings'[x].of)
      BY DEF BindingsHaveCatalog, Exists
    <2>1. CASE x = b
      BY <1>2, <1>4, <2>1 DEF Doomed
    <2>2. CASE x # b
      BY <1>2, <1>4, <2>2 DEF BindingInv, BindingsHaveCatalog
    <2>. QED BY <2>1, <2>2
  <1>. QED BY <1>3, <1>5, <1>6 DEF BindingInv

-----------------------------------------------------------------------------
(***************************************************************************)
(* The requests, one step each.                                            *)
(***************************************************************************)
LEMMA RowSame == ASSUME BindingInv, UNCHANGED <<catalog, clock>> PROVE SameId
  BY DEF BindingInv, Shapes, SameId

LEMMA TouchKeepsId ==
  ASSUME BindingInv, catalog # NoObject, NEW row \in Catalog, row.id = catalog.id, Touch(row)
  PROVE  SameId
  BY DEF Touch, Tick, SameId, BindingInv, Shapes, Catalog

LEMMA CallKnown ==
  ASSUME BindingInv, NEW q \in Callers
  PROVE  /\ "op" \in DOMAIN calls[q]
         /\ calls[q].op = "delete" => DeleteCall(calls[q])
         /\ calls[q].op = "setStatus" => calls[q].valid \in BOOLEAN
  BY DEF BindingInv, Shapes

LEMMA IdleHarmless == Harmless(IdleCall)
  BY DEF Harmless, IdleCall

LEMMA CreateBindingStep == ASSUME BindingInv, NEW q \in Callers, CreateBinding(q) PROVE BindingInv'
  <1>1. PICK b, row : Goto(q, [op |-> "insert", b |-> b, row |-> row])
    BY DEF CreateBinding
  <1>2. Harmless([op |-> "insert", b |-> b, row |-> row])
    BY DEF Harmless
  <1>3. UNCHANGED <<catalog, clock, bindings, late>>
    BY DEF CreateBinding, Start
  <1>. QED BY <1>1, <1>2, <1>3, RowSame, CallOnly

LEMMA UpdateBindingStep == ASSUME BindingInv, NEW q \in Callers, UpdateBinding(q) PROVE BindingInv'
  <1>1. PICK b, row : Goto(q, [op |-> "save", b |-> b, row |-> row])
    BY DEF UpdateBinding
  <1>2. Harmless([op |-> "save", b |-> b, row |-> row])
    BY DEF Harmless
  <1>3. UNCHANGED <<catalog, clock, bindings, late>>
    BY DEF UpdateBinding, Start
  <1>. QED BY <1>1, <1>2, <1>3, RowSame, CallOnly

LEMMA RunBindingStep == ASSUME BindingInv, NEW q \in Callers, RunBinding(q) PROVE BindingInv'
  <1>1. PICK b, row : Goto(q, [op |-> "save", b |-> b, row |-> row])
    BY DEF RunBinding
  <1>2. Harmless([op |-> "save", b |-> b, row |-> row])
    BY DEF Harmless
  <1>3. UNCHANGED <<catalog, clock, bindings, late>>
    BY DEF RunBinding, Start
  <1>. QED BY <1>1, <1>2, <1>3, RowSame, CallOnly

LEMMA WriteBindingStep == ASSUME BindingInv, NEW q \in Callers, WriteBinding(q) PROVE BindingInv'
  <1>1. IdleCall.op \notin {"delete", "setStatus"} /\ "op" \in DOMAIN IdleCall
    BY DEF IdleCall
  <1>2. calls[q].op # "delete" /\ UNCHANGED <<catalog, clock>>
    BY DEF WriteBinding, At, Within
  <1>3. Goto(q, IdleCall) /\ SaveBinding(calls[q].b, calls[q].row)
    BY DEF WriteBinding
  <1>. QED BY <1>1, <1>2, <1>3, WriteStep

LEMMA DeleteBindingStep == ASSUME BindingInv, NEW q \in Callers, DeleteBinding(q) PROVE BindingInv'
  <1>1. PICK b \in Bindings : bindings' = [bindings EXCEPT ![b] = NoObject]
    BY DEF DeleteBinding
  <1>2. UNCHANGED <<catalog, clock, calls, late>>
    BY DEF DeleteBinding, Start
  <1>3. \A x \in Bindings : bindings'[x] \in {NoObject, bindings[x]}
    BY <1>1 DEF BindingInv, Shapes
  <1>4. Shapes'
    BY <1>1, <1>2 DEF BindingInv, Shapes
  <1>5. DeletesSweep' /\ BindingsHaveCatalog'
    BY <1>2, <1>3 DEF BindingInv, DeletesSweep, Swept, BindingsHaveCatalog, Exists
  <1>. QED BY <1>4, <1>5 DEF BindingInv

LEMMA PublishPreviewStep == ASSUME BindingInv, NEW q \in Callers, PublishPreview(q) PROVE BindingInv'
  <1>1. PICK todo, session : Goto(q, [op |-> "preview", todo |-> todo, session |-> session])
    BY DEF PublishPreview
  <1>2. Harmless([op |-> "preview", todo |-> todo, session |-> session])
    BY DEF Harmless
  <1>3. UNCHANGED <<catalog, clock, bindings, late>>
    BY DEF PublishPreview, Start
  <1>. QED BY <1>1, <1>2, <1>3, RowSame, CallOnly

LEMMA ExecuteBindingStep == ASSUME BindingInv, NEW q \in Callers, ExecuteBinding(q) PROVE BindingInv'
  <1>1. calls[q].op = "preview" /\ "op" \in DOMAIN calls[q] /\ UNCHANGED <<catalog, clock>>
    BY CallKnown DEF ExecuteBinding, At, Within
  <1>2. PICK b, session, row :
          /\ Goto(q, [calls[q] EXCEPT !.todo[b] = NoObject, !.session = session])
          /\ \/ UNCHANGED <<bindings, late>>
             \/ SaveBinding(b, row)
    BY DEF ExecuteBinding
  <1>. DEFINE c == [calls[q] EXCEPT !.todo[b] = NoObject, !.session = session]
  <1>3. c.op = "preview" /\ "op" \in DOMAIN c
    BY <1>1
  <1>4. CASE UNCHANGED <<bindings, late>>
    <2>1. Harmless(c) /\ Goto(q, c) /\ SameId
      BY <1>1, <1>2, <1>3, RowSame DEF Harmless
    <2>2. bindings' = bindings /\ late' = late
      BY <1>4
    <2>. HIDE DEF c
    <2>. QED BY <2>1, <2>2, CallOnly
  <1>5. CASE SaveBinding(b, row)
    <2>. HIDE DEF c
    <2>. QED BY <1>1, <1>2, <1>3, <1>5, WriteStep
  <1>. QED BY <1>2, <1>4, <1>5

LEMMA ToIdle ==
  ASSUME BindingInv, NEW q \in Callers, Goto(q, IdleCall), SameId,
         bindings' = bindings, late' = late
  PROVE  BindingInv'
  BY CallOnly, IdleHarmless

LEMMA StorePreviewStep == ASSUME BindingInv, NEW q \in Callers, StorePreview(q) PROVE BindingInv'
  BY RowSame, ToIdle DEF StorePreview

LEMMA PublishCatalogStep == ASSUME BindingInv, NEW q \in Callers, PublishCatalog(q) PROVE BindingInv'
  <1>1. PICK s, t : Goto(q, [op |-> "publish", session |-> s, at |-> t])
    BY DEF PublishCatalog
  <1>2. Harmless([op |-> "publish", session |-> s, at |-> t])
    BY DEF Harmless
  <1>3. UNCHANGED <<catalog, clock, bindings, late>>
    BY DEF PublishCatalog, Start
  <1>. QED BY <1>1, <1>2, <1>3, RowSame, CallOnly

LEMMA PublishStep == ASSUME BindingInv, NEW q \in Callers, Publish(q) PROVE BindingInv'
  <1>1. SameId
    <2>1. CASE catalog # NoObject /\ Touch([catalog EXCEPT !.published = TRUE])
      <3>1. [catalog EXCEPT !.published = TRUE] \in Catalog
            /\ [catalog EXCEPT !.published = TRUE].id = catalog.id
        BY <2>1 DEF BindingInv, Shapes, Catalog
      <3>. QED BY <2>1, <3>1, TouchKeepsId
    <2>2. CASE RowKept
      BY <2>2, RowSame DEF RowKept
    <2>. QED BY <2>1, <2>2 DEF Publish
  <1>. QED BY <1>1, ToIdle DEF Publish

LEMMA ChangeContentStep ==
  ASSUME BindingInv, NEW q \in Callers, NEW op, NEW then \in {"reset", "resetPins"},
         ChangeContent(q, op, then)
  PROVE  BindingInv'
  <1>1. SameId
    BY DEF ChangeContent, SameId, Tick, BindingInv, Shapes, Catalog
  <1>2. Harmless([op |-> then, id |-> catalog.id])
    BY DEF Harmless
  <1>. QED BY <1>1, <1>2, CallOnly DEF ChangeContent, Start

LEMMA ChangeUnmarkedStep ==
  ASSUME BindingInv, NEW q \in Callers, NEW op, ChangeUnmarked(q, op)
  PROVE  BindingInv'
  <1>1. catalog \in Catalog /\ clock \in Nat /\ clock' = clock + 1
        /\ catalog' = [catalog EXCEPT !.content = clock + 1]
    BY DEF ChangeUnmarked, Tick, BindingInv, Shapes
  <1>2. catalog' \in Catalog /\ catalog'.id = catalog.id /\ clock' \in Nat
    BY <1>1 DEF Catalog
  <1>3. catalog # NoObject /\ catalog' # NoObject
    BY <1>1, <1>2, ExportAbsentAssumption
  <1>4. UNCHANGED <<bindings, calls, late>>
    BY DEF ChangeUnmarked
  <1>5. Shapes'
    BY <1>2, <1>4 DEF BindingInv, Shapes
  <1>6. DeletesSweep'
    BY <1>4 DEF BindingInv, DeletesSweep, Swept
  <1>7. BindingsHaveCatalog'
    BY <1>2, <1>3, <1>4 DEF BindingInv, BindingsHaveCatalog, Exists
  <1>. QED BY <1>5, <1>6, <1>7 DEF BindingInv

LEMMA ResetStep == ASSUME BindingInv, NEW q \in Callers, Reset(q) PROVE BindingInv'
  <1>1. SameId
    <2>1. CASE catalog # NoObject /\ Touch([catalog EXCEPT !.valid = FALSE])
      <3>1. [catalog EXCEPT !.valid = FALSE] \in Catalog
            /\ [catalog EXCEPT !.valid = FALSE].id = catalog.id
        BY <2>1 DEF BindingInv, Shapes, Catalog
      <3>. QED BY <2>1, <3>1, TouchKeepsId
    <2>2. CASE RowKept
      BY <2>2, RowSame DEF RowKept
    <2>. QED BY <2>1, <2>2 DEF Reset, Marked, Exists
  <1>. QED BY <1>1, ToIdle DEF Reset

LEMMA ResetFailsStep == ASSUME BindingInv, NEW q \in Callers, ResetFails(q) PROVE BindingInv'
  BY RowSame, ToIdle DEF ResetFails

LEMMA ValidateStep == ASSUME BindingInv, NEW q \in Callers, Validate(q) PROVE BindingInv'
  <1>1. PICK v \in BOOLEAN : Goto(q, [op |-> "setStatus", id |-> catalog.id, valid |-> v])
    BY DEF Validate
  <1>2. Harmless([op |-> "setStatus", id |-> catalog.id, valid |-> v])
    BY DEF Harmless
  <1>3. UNCHANGED <<catalog, clock, bindings, late>>
    BY DEF Validate, Start
  <1>. QED BY <1>1, <1>2, <1>3, RowSame, CallOnly

LEMMA SetStatusStep ==
  ASSUME BindingInv, NEW q \in Callers, SetValidationStatus(q) PROVE BindingInv'
  <1>1. SameId
    <2>1. CASE catalog # NoObject /\ Touch([catalog EXCEPT !.valid = calls[q].valid])
      <3>1. calls[q].valid \in BOOLEAN
        BY CallKnown DEF SetValidationStatus, At, Within
      <3>2. [catalog EXCEPT !.valid = calls[q].valid] \in Catalog
            /\ [catalog EXCEPT !.valid = calls[q].valid].id = catalog.id
        BY <2>1, <3>1 DEF BindingInv, Shapes, Catalog
      <3>. QED BY <2>1, <3>2, TouchKeepsId
    <2>2. CASE RowKept
      BY <2>2, RowSame DEF RowKept
    <2>. QED BY <2>1, <2>2 DEF SetValidationStatus, Exists
  <1>. QED BY <1>1, ToIdle DEF SetValidationStatus

LEMMA DeleteCatalogStep == ASSUME BindingInv, NEW q \in Callers, DeleteCatalog(q) PROVE BindingInv'
  <1>1. Harmless([op |-> "delete", id |-> catalog.id, step |-> 1])
    BY DEF Harmless, DeleteCall
  <1>. QED BY <1>1, RowSame, CallOnly DEF DeleteCatalog, Start

LEMMA DeleteBindingsStep ==
  ASSUME BindingInv, NEW q \in Callers, DeleteBindings(q)
  PROVE  BindingInv'
  <1>1. DeleteCall(calls[q]) /\ calls[q].op = "delete" /\ calls[q].step = 1
    BY CallKnown DEF DeleteBindings, Within, DeleteOrder, DeleteCall
  <1>. DEFINE id == calls[q].id
              c == [op |-> "delete", id |-> id, step |-> 2]
  <1>2. Goto(q, c) /\ UNCHANGED <<catalog, clock>>
    BY <1>1 DEF DeleteBindings, NextStep, DeleteCall
  <1>3. \A p \in Callers : calls'[p] = IF p = q THEN c ELSE calls[p]
    BY <1>2 DEF BindingInv, Shapes, Goto
  <1>4. /\ bindings' = [b \in Bindings |-> bindings'[b]]
        /\ \A b \in Bindings \ late' :
             bindings'[b] # NoObject => bindings'[b] = bindings[b] /\ b \notin OfCatalog(id)
        /\ late \subseteq late'
    BY DEF DeleteBindings, BindingInv, Shapes
  <1>5. Shapes'
    BY <1>2, <1>3, <1>4 DEF BindingInv, Shapes, Goto, DeleteCall
  <1>6. DeletesSweep'
    <2>1. Swept(id)'
      BY <1>3, <1>4 DEF Swept, OfCatalog
    <2>2. ASSUME NEW p \in Callers, calls'[p].op = "delete", calls'[p].step = 2
          PROVE  Swept(calls[p].id)'
      <3>1. CASE p = q
        BY <1>3, <2>1, <3>1
      <3>2. CASE p # q
        BY <1>3, <1>4, <2>2, <3>2 DEF BindingInv, DeletesSweep, Swept
      <3>. QED BY <3>1, <3>2
    <2>. QED BY <2>2 DEF DeletesSweep, Swept
  <1>7. BindingsHaveCatalog'
    BY <1>2, <1>4 DEF BindingInv, BindingsHaveCatalog, Exists
  <1>. QED BY <1>5, <1>6, <1>7 DEF BindingInv

LEMMA DeleteRowStep == ASSUME BindingInv, NEW q \in Callers, DeleteRow(q) PROVE BindingInv'
  <1>1. calls[q].op = "delete" /\ calls[q].step = 2
    <2>1. calls[q].op = "delete" /\ calls[q].step \in 1..2
      BY CallKnown DEF DeleteRow, At, Within, DeleteCall
    <2>2. DeleteOrder[1] # "row"
      BY DEF DeleteOrder
    <2>. QED BY <2>1, <2>2 DEF DeleteRow
  <1>2. Goto(q, IdleCall) /\ UNCHANGED <<bindings, clock>> /\ catalog' = NoObject
    BY <1>1 DEF DeleteRow, NextStep
  <1>3. \A p \in Callers : calls'[p] = IF p = q THEN IdleCall ELSE calls[p]
    BY <1>2 DEF BindingInv, Shapes, Goto
  <1>4. late \subseteq late'
    BY DEF DeleteRow
  <1>5. Shapes'
    BY <1>2, <1>3 DEF BindingInv, Shapes, Goto, IdleCall
  <1>6. DeletesSweep'
    BY <1>2, <1>3, <1>4 DEF BindingInv, DeletesSweep, Swept, IdleCall
  <1>7. ASSUME NEW b \in Bindings \ late', bindings[b] # NoObject PROVE FALSE
    <2>1. catalog # NoObject /\ catalog.id = bindings[b].of
      BY <1>4, <1>7 DEF BindingInv, BindingsHaveCatalog, Exists
    <2>2. b \in OfCatalog(catalog.id)
      BY <1>7, <2>1 DEF OfCatalog
    <2>3. Exists(calls[q].id)
      BY <2>1, <2>2 DEF DeleteRow
    <2>4. bindings[b].of # calls[q].id
      BY <1>1, <1>4, <1>7 DEF BindingInv, DeletesSweep, Swept
    <2>. QED BY <2>1, <2>3, <2>4 DEF Exists
  <1>8. BindingsHaveCatalog'
    BY <1>2, <1>7 DEF BindingsHaveCatalog
  <1>. QED BY <1>5, <1>6, <1>8 DEF BindingInv

LEMMA CreateCatalogStep == ASSUME BindingInv, CreateCatalog PROVE BindingInv'
  <1>1. catalog = NoObject /\ UNCHANGED <<bindings, calls, late>>
    BY DEF CreateCatalog
  <1>2. catalog' \in Catalog /\ clock' \in Nat
    BY DEF CreateCatalog, Tick, Catalog, BindingInv, Shapes
  <1>3. \A b \in Bindings \ late : bindings[b] = NoObject
    BY <1>1 DEF BindingInv, BindingsHaveCatalog, Exists
  <1>4. Shapes'
    BY <1>1, <1>2 DEF BindingInv, Shapes
  <1>5. DeletesSweep' /\ BindingsHaveCatalog'
    BY <1>1, <1>3 DEF DeletesSweep, Swept, BindingsHaveCatalog
  <1>. QED BY <1>4, <1>5 DEF BindingInv

LEMMA RestartStep == ASSUME BindingInv, RestartAll PROVE BindingInv'
  <1>1. \A q \in Callers : calls'[q] = IdleCall
    BY DEF RestartAll
  <1>2. UNCHANGED <<catalog, bindings, clock, late>>
    BY DEF RestartAll
  <1>3. Shapes'
    BY <1>1, <1>2 DEF BindingInv, Shapes, RestartAll, IdleCall
  <1>4. DeletesSweep' /\ BindingsHaveCatalog'
    BY <1>1, <1>2 DEF BindingInv, DeletesSweep, IdleCall, BindingsHaveCatalog, Exists
  <1>. QED BY <1>3, <1>4 DEF BindingInv

LEMMA NoBindingWork ==
  ASSUME BindingInv, UNCHANGED <<catalog, bindings, calls, clock, late>>
  PROVE  BindingInv'
  BY DEF BindingInv, Shapes, DeletesSweep, Swept, BindingsHaveCatalog, Exists

LEMMA BindingInit == ASSUME ExportInit PROVE BindingInv
  <1>1. \A q \in Callers : calls[q] = IdleCall
    BY DEF ExportInit
  <1>2. Shapes
    BY <1>1 DEF ExportInit, Shapes, IdleCall, Catalog
  <1>3. DeletesSweep
    BY <1>1 DEF DeletesSweep, IdleCall
  <1>4. BindingsHaveCatalog
    <2>1. CASE "catalog" \in load.does
      <3>1. catalog = [id |-> 1, stamp |-> 1, content |-> 1, valid |-> TRUE, published |-> FALSE]
        BY <2>1 DEF ExportInit
      <3>2. catalog \in Catalog /\ catalog.id = 1
        BY <3>1 DEF Catalog
      <3>4. catalog # NoObject
        BY <3>2, ExportAbsentAssumption
      <3>3. \A b \in Bindings : bindings[b] # NoObject => bindings[b].of = 1
        BY DEF ExportInit
      <3>. QED BY <3>2, <3>3, <3>4 DEF BindingsHaveCatalog, Exists
    <2>2. CASE "catalog" \notin load.does
      BY <2>2 DEF ExportInit, BindingsHaveCatalog
    <2>. QED BY <2>1, <2>2
  <1>. QED BY <1>2, <1>3, <1>4 DEF BindingInv

LEMMA RequestStep == ASSUME BindingInv, NEW q \in Callers, Request(q) PROVE BindingInv'
  <1>1. CASE EditInstance(q)
    BY <1>1, ChangeContentStep DEF EditInstance
  <1>2. CASE EditPins(q)
    BY <1>2, ChangeContentStep DEF EditPins
  <1>3. CASE EditTypes(q) \/ RejectCreation(q)
    BY <1>3, ChangeUnmarkedStep DEF EditTypes, RejectCreation
  <1>. QED BY <1>1, <1>2, <1>3, CreateBindingStep, UpdateBindingStep, RunBindingStep, WriteBindingStep,
              DeleteBindingStep, PublishPreviewStep, ExecuteBindingStep, StorePreviewStep,
              PublishCatalogStep, PublishStep, ResetStep, ResetFailsStep, ValidateStep,
              SetStatusStep, DeleteCatalogStep, DeleteBindingsStep, DeleteRowStep DEF Request

-----------------------------------------------------------------------------
(***************************************************************************)
(* Previews.  A session whose time is that of a valid catalog has made its *)
(* artifacts of what the catalog exports, unless a change has yet to mark  *)
(* the row of this very catalog, or has failed to.                         *)
(***************************************************************************)
Pending ==
    \/ unmarked
    \/ \E q \in Callers : calls[q].op \in {"reset", "resetPins"} /\ calls[q].id = catalog.id

Current(s) == catalog # NoObject /\ s.stamp = catalog.stamp /\ catalog.valid /\ ~Pending

Fine(s) ==
    /\ s \in Session /\ s.stamp <= clock
    /\ Current(s) => \A b \in Bindings : s.made[b] \in {NoObject, catalog.content}

CallFine(c) ==
    /\ c.op = "preview" => {"op", "session"} \subseteq DOMAIN c /\ Fine(c.session)
    /\ c.op = "publish" /\ c.session # NoObject => Fine(c.session) /\ c.session.stamp = c.at

PreviewInv ==
    /\ catalog # NoObject => catalog.stamp <= clock
    /\ \A s \in sessions : Fine(s)
    /\ \A q \in Callers : CallFine(calls[q])

(***************************************************************************)
(* What a step may do to the row: give it a time of its own, or change it  *)
(* while it is or becomes due to be marked, or no valid one.               *)
(***************************************************************************)
Moves ==
    /\ clock' \in Nat /\ clock <= clock'
    /\ \/ catalog' = NoObject
       \/ catalog' \in Catalog /\ catalog'.stamp <= clock' /\ clock < catalog'.stamp
       \/ catalog' # NoObject /\ catalog # NoObject /\ catalog'.stamp = catalog.stamp
             /\ (Pending' \/ ~catalog'.valid)
       \/ catalog' = catalog /\ (Pending => Pending')

LEMMA FineStable == ASSUME BindingInv, NEW s, Fine(s), Moves PROVE Fine(s)'
  <1>1. s \in Session /\ s.stamp \in Nat /\ s.stamp <= clock /\ clock \in Nat
    BY DEF Fine, Session, BindingInv, Shapes
  <1>2. s.stamp <= clock'
    BY <1>1 DEF Moves
  <1>3. ASSUME Current(s)' PROVE Current(s) /\ catalog' = catalog
    <2>1. catalog' # NoObject /\ s.stamp = catalog'.stamp /\ catalog'.valid /\ ~Pending'
      BY <1>3 DEF Current
    <2>2. ~(catalog' \in Catalog /\ clock < catalog'.stamp)
      BY <1>1, <2>1 DEF Catalog
    <2>3. catalog' = catalog /\ ~Pending
      BY <2>1, <2>2 DEF Moves
    <2>. QED BY <2>1, <2>3 DEF Current
  <1>. QED BY <1>1, <1>2, <1>3 DEF Fine

LEMMA CallFineStable == ASSUME BindingInv, NEW c, CallFine(c), Moves PROVE CallFine(c)'
  BY FineStable DEF CallFine

LEMMA PreviewStep ==
  ASSUME BindingInv, PreviewInv, NEW q \in Callers, NEW c, Goto(q, c), Moves, CallFine(c)',
         \A s \in sessions' \ sessions : Fine(s)'
  PROVE  PreviewInv'
  <1>1. \A p \in Callers : calls'[p] = IF p = q THEN c ELSE calls[p]
    BY DEF BindingInv, Shapes, Goto
  <1>2. ASSUME NEW p \in Callers PROVE CallFine(calls[p])'
    <2>1. CASE p = q
      <3>1. calls'[p] = c
        BY <1>1, <2>1
      <3>. QED BY <3>1 DEF CallFine, Fine, Current, Pending
    <2>2. CASE p # q
      <3>1. calls'[p] = calls[p] /\ CallFine(calls[p])
        BY <1>1, <2>2 DEF PreviewInv
      <3>2. \A d : CallFine(d) => CallFine(d)'
        BY CallFineStable
      <3>. QED BY <3>1, <3>2 DEF CallFine, Fine, Current, Pending
    <2>. QED BY <2>1, <2>2
  <1>3. \A s \in sessions' : Fine(s)'
    BY FineStable DEF PreviewInv
  <1>4. (catalog # NoObject => catalog.stamp <= clock)'
    BY DEF Moves, PreviewInv, BindingInv, Shapes, Catalog
  <1>. QED BY <1>2, <1>3, <1>4 DEF PreviewInv

(***************************************************************************)
(* A statement that leaves the row alone, of a call that marks none.       *)
(***************************************************************************)
LEMMA RowStays ==
  ASSUME BindingInv, NEW q \in Callers, calls[q].op \notin {"reset", "resetPins"},
         NEW c, Goto(q, c), UNCHANGED <<catalog, clock, unmarked>>
  PROVE  Moves
  <1>1. \A p \in Callers : calls'[p] = IF p = q THEN c ELSE calls[p]
    BY DEF BindingInv, Shapes, Goto
  <1>2. Pending => Pending'
    BY <1>1 DEF Pending
  <1>. QED BY <1>2 DEF Moves, BindingInv, Shapes

LEMMA TouchMoves ==
  ASSUME BindingInv, NEW row \in Catalog, Touch(row)
  PROVE  Moves
  <1>1. clock \in Nat /\ clock' = clock + 1 /\ catalog' = [row EXCEPT !.stamp = clock + 1]
    BY DEF Touch, Tick, BindingInv, Shapes
  <1>2. catalog' \in Catalog /\ catalog'.stamp = clock + 1
    BY <1>1 DEF Catalog
  <1>. QED BY <1>1, <1>2 DEF Moves

(***************************************************************************)
(* Requests that make no session and begin no publication.                 *)
(***************************************************************************)
LEMMA NoSession ==
  ASSUME BindingInv, PreviewInv, NEW q \in Callers,
         NEW c, c.op \notin {"preview", "publish"}, Goto(q, c), Moves, sessions' \subseteq sessions
  PROVE  PreviewInv'
  <1>1. CallFine(c)'
    BY DEF CallFine
  <1>. QED BY <1>1, PreviewStep

LEMMA NoSessionStart ==
  ASSUME BindingInv, PreviewInv, NEW q \in Callers,
         NEW c, c.op \notin {"preview", "publish"}, Goto(q, c), sessions' \subseteq sessions,
         calls[q].op \notin {"reset", "resetPins"}, UNCHANGED <<catalog, clock, unmarked>>
  PROVE  PreviewInv'
  BY RowStays, NoSession

LEMMA IdleOp == IdleCall.op = "idle"
  BY DEF IdleCall

LEMMA BindingsPreview ==
  ASSUME BindingInv, PreviewInv, NEW q \in Callers,
         CreateBinding(q) \/ UpdateBinding(q) \/ RunBinding(q)
  PROVE  PreviewInv'
  <1>1. PICK c : c.op \notin {"preview", "publish"} /\ Goto(q, c)
    <2>1. PICK op \in {"insert", "save"} :
            \E b, row : Goto(q, [op |-> op, b |-> b, row |-> row])
      <3>1. CASE CreateBinding(q)
        BY <3>1 DEF CreateBinding
      <3>2. CASE UpdateBinding(q)
        BY <3>2 DEF UpdateBinding
      <3>3. CASE RunBinding(q)
        BY <3>3 DEF RunBinding
      <3>. QED BY <3>1, <3>2, <3>3
    <2>2. PICK b, row : Goto(q, [op |-> op, b |-> b, row |-> row])
      BY <2>1
    <2>3. [op |-> op, b |-> b, row |-> row].op \notin {"preview", "publish"}
      OBVIOUS
    <2>. QED BY <2>2, <2>3
  <1>2. /\ calls[q].op = "idle" /\ sessions' = sessions
        /\ UNCHANGED <<catalog, clock, unmarked>>
    BY IdleOp DEF CreateBinding, UpdateBinding, RunBinding, Start
  <1>. QED BY <1>1, <1>2, NoSessionStart

LEMMA WriteBindingPreview ==
  ASSUME BindingInv, PreviewInv, NEW q \in Callers, WriteBinding(q)
  PROVE  PreviewInv'
  BY IdleOp, NoSessionStart DEF WriteBinding, At, Within

LEMMA DeleteBindingPreview ==
  ASSUME BindingInv, PreviewInv, NEW q \in Callers, DeleteBinding(q)
  PROVE  PreviewInv'
  BY DEF DeleteBinding, Start, PreviewInv, CallFine, Fine, Current, Pending

LEMMA PublishPreviewPreview ==
  ASSUME BindingInv, PreviewInv, NEW q \in Callers, PublishPreview(q)
  PROVE  PreviewInv'
  <1>1. PICK todo, s, c :
          /\ Goto(q, c) /\ c = [op |-> "preview", todo |-> todo, session |-> s]
          /\ s = [stamp |-> catalog.stamp, made |-> NoArtifacts]
    BY DEF PublishPreview
  <1>2. calls[q].op = "idle" /\ UNCHANGED <<catalog, clock, unmarked, sessions>>
    BY IdleOp DEF PublishPreview, Start
  <1>3. catalog \in Catalog /\ catalog.stamp <= clock
    BY DEF PublishPreview, BindingInv, Shapes, PreviewInv
  <1>4. Fine(s)'
    BY <1>1, <1>2, <1>3 DEF Fine, Session, NoArtifacts, Catalog, BindingInv, Shapes
  <1>5. CallFine(c)'
    BY <1>1, <1>4 DEF CallFine
  <1>6. Moves
    BY <1>1, <1>2, RowStays
  <1>. QED BY <1>1, <1>2, <1>5, <1>6, PreviewStep

LEMMA ExportedFine ==
  ASSUME BindingInv, NEW s, Fine(s), NEW b \in Bindings
  PROVE  Fine(Exported(s, b))
  <1>1. CASE catalog = NoObject
    BY <1>1 DEF Exported
  <1>2. CASE catalog # NoObject
    <2>1. catalog.content \in Nat
      BY <1>2 DEF BindingInv, Shapes, Catalog
    <2>. DEFINE t == [s EXCEPT !.made[b] = catalog.content]
    <2>2. t \in Session /\ t.stamp = s.stamp
          /\ \A x \in Bindings : t.made[x] = IF x = b THEN catalog.content ELSE s.made[x]
      BY <2>1 DEF Fine, Session
    <2>3. Exported(s, b) = t
      BY <1>2 DEF Exported
    <2>. HIDE DEF t
    <2>4. Fine(t)
      BY <2>2 DEF Fine, Current
    <2>. QED BY <2>3, <2>4
  <1>. QED BY <1>1, <1>2

LEMMA ExecuteBindingPreview ==
  ASSUME BindingInv, PreviewInv, NEW q \in Callers, ExecuteBinding(q)
  PROVE  PreviewInv'
  <1>1. calls[q].op = "preview" /\ UNCHANGED <<catalog, clock, unmarked, sessions>>
    BY DEF ExecuteBinding, At, Within
  <1>2. {"op", "session"} \subseteq DOMAIN calls[q] /\ Fine(calls[q].session)
    BY <1>1 DEF PreviewInv, CallFine
  <1>2a. PICK b \in Bindings : \E s, c :
           /\ Goto(q, c) /\ c = [calls[q] EXCEPT !.todo[b] = NoObject, !.session = s]
           /\ s = Exported(calls[q].session, b) \/ s = calls[q].session
    BY DEF ExecuteBinding
  <1>3. PICK s, c :
          /\ Goto(q, c) /\ c = [calls[q] EXCEPT !.todo[b] = NoObject, !.session = s]
          /\ s = Exported(calls[q].session, b) \/ s = calls[q].session
    BY <1>2a
  <1>4. Fine(s)
    BY <1>2, <1>3, ExportedFine
  <1>5. c.op = "preview" /\ {"op", "session"} \subseteq DOMAIN c /\ c.session = s
    BY <1>1, <1>2, <1>3
  <1>6. Moves
    BY <1>1, <1>3, RowStays
  <1>7. Fine(s)'
    BY <1>4, <1>6, FineStable
  <1>8. CallFine(c)'
    BY <1>5, <1>7 DEF CallFine
  <1>. QED BY <1>1, <1>3, <1>6, <1>8, PreviewStep

LEMMA StorePreviewPreview ==
  ASSUME BindingInv, PreviewInv, NEW q \in Callers, StorePreview(q)
  PROVE  PreviewInv'
  <1>1. calls[q].op = "preview" /\ UNCHANGED <<catalog, clock, unmarked>>
        /\ Goto(q, IdleCall) /\ sessions' = sessions \cup {calls[q].session}
    BY DEF StorePreview, At, Within
  <1>2. Moves
    BY <1>1, RowStays
  <1>3. PICK s : s = calls[q].session
    OBVIOUS
  <1>4. Fine(s)
    BY <1>1, <1>3 DEF PreviewInv, CallFine
  <1>5. \A t \in sessions' \ sessions : Fine(t)'
    BY <1>1, <1>2, <1>3, <1>4, FineStable
  <1>6. CallFine(IdleCall)'
    BY DEF CallFine, IdleCall
  <1>. QED BY <1>1, <1>2, <1>5, <1>6, PreviewStep

LEMMA PublishCatalogPreview ==
  ASSUME BindingInv, PreviewInv, NEW q \in Callers, PublishCatalog(q)
  PROVE  PreviewInv'
  <1>0. PICK s \in sessions \cup {NoObject} : \E at, c :
          /\ s # NoObject => Accepts(s)
          /\ Goto(q, c) /\ c = [op |-> "publish", session |-> s, at |-> at]
          /\ at = catalog.stamp
    BY DEF PublishCatalog
  <1>1. PICK at, c :
          /\ s # NoObject => Accepts(s)
          /\ Goto(q, c) /\ c = [op |-> "publish", session |-> s, at |-> at]
          /\ at = catalog.stamp
    BY <1>0
  <1>2. calls[q].op = "idle" /\ UNCHANGED <<catalog, clock, unmarked, sessions>>
    BY IdleOp DEF PublishCatalog, Start
  <1>3. Moves
    BY <1>1, <1>2, RowStays
  <1>4. CallFine(c)'
    <2>1. ASSUME s # NoObject PROVE Fine(s)' /\ s.stamp = at
      BY <1>1, <1>3, <2>1, FineStable DEF PreviewInv, Accepts
    <2>2. c.op = "publish" /\ c.session = s /\ c.at = at
      BY <1>1
    <2>. QED BY <2>1, <2>2 DEF CallFine
  <1>. QED BY <1>1, <1>2, <1>3, <1>4, PreviewStep

LEMMA PublishPreserves ==
  ASSUME BindingInv, PreviewInv, NEW q \in Callers, Publish(q)
  PROVE  PreviewInv'
  <1>1. Moves
    <2>1. CASE catalog # NoObject /\ Touch([catalog EXCEPT !.published = TRUE])
      <3>1. [catalog EXCEPT !.published = TRUE] \in Catalog
        BY <2>1 DEF BindingInv, Shapes, Catalog
      <3>. QED BY <2>1, <3>1, TouchMoves
    <2>2. CASE RowKept
      BY <2>2, RowStays DEF Publish, RowKept, At, Within
    <2>. QED BY <2>1, <2>2 DEF Publish
  <1>. QED BY <1>1, IdleOp, NoSession DEF Publish

LEMMA ChangeContentPreview ==
  ASSUME BindingInv, PreviewInv, NEW q \in Callers, NEW op, NEW then \in {"reset", "resetPins"},
         ChangeContent(q, op, then)
  PROVE  PreviewInv'
  <1>. DEFINE c == [op |-> then, id |-> catalog.id]
  <1>1. Goto(q, c) /\ catalog # NoObject /\ sessions' = sessions
    BY DEF ChangeContent
  <1>2. catalog' = [catalog EXCEPT !.content = clock + 1] /\ clock' = clock + 1
        /\ catalog \in Catalog /\ clock \in Nat
    BY DEF ChangeContent, Tick, BindingInv, Shapes
  <1>3. catalog' \in Catalog /\ catalog'.id = catalog.id /\ catalog'.stamp = catalog.stamp
    BY <1>2 DEF Catalog
  <1>4. calls'[q] = c
    BY <1>1 DEF Goto, BindingInv, Shapes
  <1>5. Pending'
    BY <1>3, <1>4 DEF Pending
  <1>6. Moves
    BY <1>1, <1>2, <1>3, <1>5, ExportAbsentAssumption DEF Moves
  <1>7. c.op \notin {"preview", "publish"}
    OBVIOUS
  <1>. HIDE DEF c
  <1>. QED BY <1>1, <1>6, <1>7, NoSession

LEMMA ChangeUnmarkedPreview ==
  ASSUME BindingInv, PreviewInv, NEW q \in Callers, NEW op, ChangeUnmarked(q, op)
  PROVE  PreviewInv'
  <1>1. catalog' = [catalog EXCEPT !.content = clock + 1] /\ clock' = clock + 1
        /\ catalog \in Catalog /\ clock \in Nat /\ catalog # NoObject
    BY DEF ChangeUnmarked, Tick, BindingInv, Shapes
  <1>2. catalog' \in Catalog /\ catalog'.stamp = catalog.stamp
    BY <1>1 DEF Catalog
  <1>3. Pending'
    BY DEF ChangeUnmarked, Pending
  <1>4. Moves
    BY <1>1, <1>2, <1>3, ExportAbsentAssumption DEF Moves
  <1>5. UNCHANGED <<sessions, calls>>
    BY DEF ChangeUnmarked
  <1>6. \A c : CallFine(c) => CallFine(c)'
    BY <1>4, CallFineStable
  <1>7. \A s \in sessions' : Fine(s)'
    BY <1>4, <1>5, FineStable DEF PreviewInv
  <1>8. \A p \in Callers : CallFine(calls[p])'
    BY <1>5, <1>6 DEF PreviewInv, CallFine, Fine, Current, Pending
  <1>9. (catalog # NoObject => catalog.stamp <= clock)'
    BY <1>4 DEF Moves, PreviewInv, BindingInv, Shapes, Catalog
  <1>. QED BY <1>7, <1>8, <1>9 DEF PreviewInv

LEMMA ResetPreview ==
  ASSUME BindingInv, PreviewInv, NEW q \in Callers, Reset(q)
  PROVE  PreviewInv'
  <1>1. Goto(q, IdleCall) /\ sessions' = sessions /\ calls[q].op \in {"reset", "resetPins"}
    BY DEF Reset, At, Within
  <1>2. Moves
    <2>1. CASE catalog # NoObject /\ Touch([catalog EXCEPT !.valid = FALSE])
      <3>1. [catalog EXCEPT !.valid = FALSE] \in Catalog
        BY <2>1 DEF BindingInv, Shapes, Catalog
      <3>. QED BY <2>1, <3>1, TouchMoves
    <2>2. CASE ~Marked(q) /\ RowKept
      <3>1. UNCHANGED <<catalog, clock, unmarked>> /\ clock \in Nat
        BY <2>2 DEF RowKept, BindingInv, Shapes
      <3>2. CASE Exists(calls[q].id)
        <4>1. catalog # NoObject /\ ~catalog.valid
          BY <1>1, <2>2, <3>2 DEF Marked, Exists
        <4>. QED BY <3>1, <4>1 DEF Moves
      <3>3. CASE catalog = NoObject
        BY <3>1, <3>3 DEF Moves
      <3>4. CASE catalog # NoObject /\ ~Exists(calls[q].id)
        <4>1. \A p \in Callers : calls'[p] = IF p = q THEN IdleCall ELSE calls[p]
          BY <1>1 DEF BindingInv, Shapes, Goto
        <4>2. calls[q].id # catalog.id
          BY <3>4 DEF Exists
        <4>3. Pending => Pending'
          BY <3>1, <4>1, <4>2 DEF Pending
        <4>. QED BY <3>1, <4>3 DEF Moves
      <3>. QED BY <3>2, <3>3, <3>4
    <2>. QED BY <2>1, <2>2 DEF Reset, Marked, Exists
  <1>. QED BY <1>1, <1>2, IdleOp, NoSession

LEMMA ResetFailsPreview ==
  ASSUME BindingInv, PreviewInv, NEW q \in Callers, ResetFails(q)
  PROVE  PreviewInv'
  <1>1. Pending'
    BY DEF ResetFails, Pending
  <1>2. Moves
    BY <1>1 DEF ResetFails, Moves, BindingInv, Shapes
  <1>. QED BY <1>2, IdleOp, NoSession DEF ResetFails

LEMMA ValidatePreview ==
  ASSUME BindingInv, PreviewInv, NEW q \in Callers, Validate(q)
  PROVE  PreviewInv'
  <1>1. PICK v \in BOOLEAN : Goto(q, [op |-> "setStatus", id |-> catalog.id, valid |-> v])
    BY DEF Validate
  <1>2. [op |-> "setStatus", id |-> catalog.id, valid |-> v].op \notin {"preview", "publish"}
    OBVIOUS
  <1>3. calls[q].op = "idle" /\ UNCHANGED <<catalog, clock, unmarked, sessions>>
    BY IdleOp DEF Validate, Start
  <1>. QED BY <1>1, <1>2, <1>3, NoSessionStart

LEMMA SetStatusPreview ==
  ASSUME BindingInv, PreviewInv, NEW q \in Callers, SetValidationStatus(q)
  PROVE  PreviewInv'
  <1>1. Moves
    <2>1. CASE catalog # NoObject /\ Touch([catalog EXCEPT !.valid = calls[q].valid])
      <3>1. calls[q].valid \in BOOLEAN
        BY CallKnown DEF SetValidationStatus, At, Within
      <3>2. [catalog EXCEPT !.valid = calls[q].valid] \in Catalog
        BY <2>1, <3>1 DEF BindingInv, Shapes, Catalog
      <3>. QED BY <2>1, <3>2, TouchMoves
    <2>2. CASE RowKept
      BY <2>2, RowStays DEF SetValidationStatus, RowKept, At, Within
    <2>. QED BY <2>1, <2>2 DEF SetValidationStatus, Exists
  <1>. QED BY <1>1, IdleOp, NoSession DEF SetValidationStatus

LEMMA DeleteCatalogPreview ==
  ASSUME BindingInv, PreviewInv, NEW q \in Callers, DeleteCatalog(q)
  PROVE  PreviewInv'
  <1>1. [op |-> "delete", id |-> catalog.id, step |-> 1].op \notin {"preview", "publish"}
    OBVIOUS
  <1>2. calls[q].op = "idle" /\ UNCHANGED <<catalog, clock, unmarked, sessions>>
    BY IdleOp DEF DeleteCatalog, Start
  <1>. QED BY <1>1, <1>2, NoSessionStart DEF DeleteCatalog

LEMMA DeletePreview ==
  ASSUME BindingInv, PreviewInv, NEW q \in Callers, DeleteBindings(q) \/ DeleteRow(q)
  PROVE  PreviewInv'
  <1>1. calls[q].op = "delete" /\ DeleteCall(calls[q])
    BY CallKnown DEF DeleteBindings, DeleteRow, At, Within
  <1>2. PICK c : c.op \notin {"preview", "publish"} /\ Goto(q, c)
    <2>1. [calls[q] EXCEPT !.step = 2].op = "delete"
      BY <1>1 DEF DeleteCall
    <2>. QED BY <2>1, IdleOp DEF DeleteBindings, DeleteRow, NextStep
  <1>3. sessions' = sessions /\ UNCHANGED <<clock, unmarked>> /\ catalog' \in {catalog, NoObject}
    BY DEF DeleteBindings, DeleteRow
  <1>4. Moves
    <2>1. CASE catalog' = catalog
      BY <1>1, <1>2, <1>3, <2>1, RowStays
    <2>2. CASE catalog' = NoObject
      BY <1>3, <2>2 DEF Moves, BindingInv, Shapes
    <2>. QED BY <1>3, <2>1, <2>2
  <1>. QED BY <1>2, <1>3, <1>4, NoSession

LEMMA CreateCatalogPreview == ASSUME BindingInv, PreviewInv, CreateCatalog PROVE PreviewInv'
  <1>1. /\ catalog' = [id |-> clock + 1, stamp |-> clock + 1, content |-> clock + 1,
                       valid |-> FALSE, published |-> FALSE]
        /\ clock \in Nat /\ clock' = clock + 1
        /\ UNCHANGED <<sessions, calls>>
    BY DEF CreateCatalog, Tick, BindingInv, Shapes
  <1>2. Moves
    BY <1>1 DEF Moves, Catalog
  <1>3. \A c : CallFine(c) => CallFine(c)'
    BY <1>2, CallFineStable
  <1>4. \A s \in sessions' : Fine(s)'
    BY <1>1, <1>2, FineStable DEF PreviewInv
  <1>5. \A q \in Callers : CallFine(calls[q])'
    BY <1>1, <1>3 DEF PreviewInv, CallFine, Fine, Current, Pending
  <1>. QED BY <1>1, <1>4, <1>5 DEF PreviewInv

LEMMA RestartPreview == ASSUME BindingInv, PreviewInv, RestartAll PROVE PreviewInv'
  <1>1. \A q \in Callers : calls'[q] = IdleCall
    BY DEF RestartAll
  <1>2. sessions' = {} /\ UNCHANGED <<catalog, clock>>
    BY DEF RestartAll
  <1>. QED BY <1>1, <1>2 DEF PreviewInv, CallFine, IdleCall

LEMMA NoPreviewWork ==
  ASSUME PreviewInv, UNCHANGED <<catalog, calls, clock, unmarked>>, sessions' \subseteq sessions
  PROVE  PreviewInv'
  BY DEF PreviewInv, CallFine, Fine, Current, Pending

LEMMA PreviewInit == ASSUME ExportInit PROVE PreviewInv
  <1>1. \A q \in Callers : calls[q] = IdleCall
    BY DEF ExportInit
  <1>2. sessions = {} /\ (catalog # NoObject => catalog.stamp <= clock)
    BY DEF ExportInit
  <1>. QED BY <1>1, <1>2 DEF PreviewInv, CallFine, IdleCall

LEMMA RequestPreview ==
  ASSUME BindingInv, PreviewInv, NEW q \in Callers, Request(q)
  PROVE  PreviewInv'
  <1>1. CASE EditInstance(q)
    BY <1>1, ChangeContentPreview DEF EditInstance
  <1>2. CASE EditPins(q)
    BY <1>2, ChangeContentPreview DEF EditPins
  <1>3. CASE EditTypes(q) \/ RejectCreation(q)
    BY <1>3, ChangeUnmarkedPreview DEF EditTypes, RejectCreation
  <1>. QED BY <1>1, <1>2, <1>3, BindingsPreview, WriteBindingPreview, DeleteBindingPreview,
              PublishPreviewPreview, ExecuteBindingPreview, StorePreviewPreview,
              PublishCatalogPreview, PublishPreserves, ResetPreview, ResetFailsPreview,
              ValidatePreview, SetStatusPreview, DeleteCatalogPreview, DeletePreview DEF Request

-----------------------------------------------------------------------------
(***************************************************************************)
(* The inductive invariant of the two, and the theorems.                   *)
(***************************************************************************)
IInv == RegistryInv /\ BindingInv /\ PreviewInv

LEMMA InitInv == Init => IInv
  BY RegistryInit, BindingInit, PreviewInit DEF Init, IInv

LEMMA NextInv == IInv /\ [Next]_vars => IInv'
  <1>. SUFFICES ASSUME RegistryInv, BindingInv, PreviewInv, [Next]_vars
                PROVE  RegistryInv' /\ BindingInv' /\ PreviewInv'
    BY DEF IInv
  <1>1. CASE PluginsNext /\ UNCHANGED exportVars
    BY <1>1, PluginsKeepRegistry, NoBindingWork, NoPreviewWork DEF exportVars
  <1>2. CASE RestartAll /\ OperatorCalm
    BY <1>2, RestartMakesRegistry, RestartStep, RestartPreview DEF RestartAll
  <1>3. CASE Requests
    <2>1. RegistryInv'
      BY <1>3 DEF Requests, pluginVars, RegistryInv, BuiltInKept, Fresh
    <2>2. CASE Expire
      <3>1. sessions' \subseteq sessions /\ UNCHANGED <<catalog, bindings, calls, clock, unmarked, late>>
        BY <2>2 DEF Expire
      <3>. QED BY <2>1, <3>1, NoBindingWork, NoPreviewWork
    <2>3. CASE CreateCatalog
      BY <2>1, <2>3, CreateCatalogStep, CreateCatalogPreview
    <2>4. CASE \E q \in Callers : Request(q)
      BY <2>1, <2>4, RequestStep, RequestPreview
    <2>. QED BY <1>3, <2>2, <2>3, <2>4 DEF Requests
  <1>4. CASE UNCHANGED vars
    <2>1. RegistryInv'
      BY <1>4 DEF vars, pluginVars, RegistryInv, BuiltInKept, Fresh
    <2>. QED BY <1>4, <2>1, NoBindingWork, NoPreviewWork DEF vars, exportVars
  <1>. QED BY <1>1, <1>2, <1>3, <1>4 DEF Next

(***************************************************************************)
(* What PublishedAsPreviewed says of a step.                               *)
(***************************************************************************)
PublishesPreviewed ==
    \A q \in Callers :
       (/\ calls[q].op = "publish" /\ calls'[q] # calls[q] /\ catalog' # catalog
        /\ calls[q].session # NoObject /\ calls[q].at = catalog.stamp /\ ~Changing)
       => \A b \in Bindings : calls[q].session.made[b] \in {NoObject, catalog.content}

LEMMA SessionsCurrent ==
  ASSUME PreviewInv, NEW q \in Callers, calls[q].op = "publish", calls[q].session # NoObject,
         calls[q].at = catalog.stamp, ~Changing, catalog # NoObject, catalog.valid
  PROVE  \A b \in Bindings : calls[q].session.made[b] \in {NoObject, catalog.content}
  <1>1. Fine(calls[q].session) /\ calls[q].session.stamp = catalog.stamp
    BY DEF PreviewInv, CallFine
  <1>2. ~Pending
    BY DEF Pending, Changing
  <1>. QED BY <1>1, <1>2 DEF Fine, Current

(***************************************************************************)
(* Of the steps that end a publication, one publishes: the others leave    *)
(* the row alone, as does a step of another caller, or of none.            *)
(***************************************************************************)
LEMMA NextPublishes == IInv /\ [Next]_vars => PublishesPreviewed
  <1>. SUFFICES ASSUME IInv, [Next]_vars, NEW q \in Callers,
                       calls[q].op = "publish", calls'[q] # calls[q], catalog' # catalog,
                       calls[q].session # NoObject, calls[q].at = catalog.stamp, ~Changing
                PROVE  \A b \in Bindings :
                          calls[q].session.made[b] \in {NoObject, catalog.content}
    BY DEF PublishesPreviewed
  <1>. PreviewInv /\ BindingInv
    BY DEF IInv
  <1>1. PICK p \in Callers : Request(p)
    BY DEF Next, Requests, Expire, CreateCatalog, RestartAll, vars, exportVars
  <1>2. ASSUME NEW c, Goto(p, c) PROVE p = q
    BY <1>2 DEF Goto, BindingInv, Shapes
  <1>3. Publish(q)
    <2>1. (\E c : Goto(p, c)) \/ UNCHANGED calls
      BY <1>1 DEF Request, CreateBinding, UpdateBinding, RunBinding, WriteBinding, DeleteBinding,
             PublishPreview, ExecuteBinding, StorePreview, PublishCatalog, Publish, EditInstance,
             EditPins, ChangeContent, EditTypes, RejectCreation, ChangeUnmarked, Reset,
             ResetFails, Validate, SetValidationStatus,
             DeleteCatalog, DeleteBindings, DeleteRow, NextStep
    <2>2. p = q
      BY <1>2, <2>1
    <2>3. calls[q].op = "publish" /\ IdleCall.op = "idle"
      BY DEF IdleCall
    <2>4. ~(CreateBinding(q) \/ UpdateBinding(q) \/ RunBinding(q) \/ DeleteBinding(q)
              \/ PublishPreview(q) \/ PublishCatalog(q) \/ Validate(q) \/ DeleteCatalog(q))
      BY <2>3 DEF CreateBinding, UpdateBinding, RunBinding, DeleteBinding, PublishPreview,
                  PublishCatalog, Validate, DeleteCatalog, Start
    <2>5. ~(EditInstance(q) \/ EditPins(q) \/ EditTypes(q) \/ RejectCreation(q))
      BY <2>3 DEF EditInstance, EditPins, ChangeContent, EditTypes, RejectCreation,
                  ChangeUnmarked, Start
    <2>6. ~(WriteBinding(q) \/ ExecuteBinding(q) \/ StorePreview(q) \/ Reset(q)
              \/ ResetFails(q) \/ SetValidationStatus(q) \/ DeleteBindings(q) \/ DeleteRow(q))
      BY <2>3 DEF WriteBinding, ExecuteBinding, StorePreview, Reset, ResetFails,
                  SetValidationStatus, DeleteBindings, DeleteRow, At, Within
    <2>. QED BY <1>1, <2>2, <2>4, <2>5, <2>6 DEF Request
  <1>4. catalog # NoObject /\ catalog.valid
    BY <1>3 DEF Publish, RowKept
  <1>. QED BY <1>4, SessionsCurrent

(***************************************************************************)
(* The invariant of the registry and of the bindings holds always.         *)
(***************************************************************************)
THEOREM Invariance == Spec => []IInv
  BY InitInv, NextInv, PTL DEF Spec

(***************************************************************************)
(* Whatever ExporterPlugin resources are written, deleted and made again   *)
(* under the name of the built-in exporter, and in whatever order the      *)
(* watcher sees them, the registry keeps the built-in exporter.            *)
(***************************************************************************)
THEOREM BuiltInAlwaysKept == Spec => []BuiltInKept
  <1>1. IInv => BuiltInKept
    BY DEF IInv, RegistryInv
  <1>. QED BY <1>1, Invariance, PTL

(***************************************************************************)
(* A binding that is not noted as late has its catalog, for any number of  *)
(* bindings and of overlapping creations, runs, previews and deletions.    *)
(***************************************************************************)
THEOREM NoBindingWithoutCatalog == Spec => []BindingsHaveCatalog
  <1>1. IInv => BindingsHaveCatalog
    BY DEF IInv, BindingInv
  <1>. QED BY <1>1, Invariance, PTL

(***************************************************************************)
(* A publication that the token of a preview was accepted for publishes    *)
(* what the preview has shown, however previews, edits, validations,       *)
(* deletions and restarts overlap: the time of the row is all the token    *)
(* is compared with.  What a change has done that ended without a new time *)
(* is excepted: its mark failed, or it renamed or deleted a type, or was   *)
(* the creation of an instance that was rejected after its insertion.      *)
(***************************************************************************)
THEOREM PreviewIsPublished == Spec => PublishedAsPreviewed
  <1>1. IInv /\ [Next]_vars => [PublishesPreviewed]_exportVars
    BY NextPublishes
  <1>2. Spec => [][PublishesPreviewed]_exportVars
    BY <1>1, Invariance, PTL DEF Spec
  <1>. QED BY <1>2 DEF PublishedAsPreviewed, PublishesPreviewed

=============================================================================
