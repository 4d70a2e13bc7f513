------------------------------ MODULE Operator ------------------------------
(***************************************************************************)
(* The operator's AssetHub controller: one worker that brings the operands *)
(* (config map, deployments, services, routes) in line with the AssetHub   *)
(* resource, adopts the CatalogVersion and Catalog resources the API       *)
(* server writes, and reports in their status what it has seen.            *)
(*                                                                         *)
(* The worker reads a cache that the watches fill (Deliver) and writes to  *)
(* the cluster, which refuses a write to an object that was written since  *)
(* the writer's copy of it was made.                                       *)
(* Every call to the cluster is an action, so users, the API server and    *)
(* the watches interleave with one reconciliation.                         *)
(***************************************************************************)
EXTENDS Naturals, FiniteSets, Sequences

CONSTANTS
    CatalogCRs,   \* names of Catalog resources
    VersionCRs,   \* names of CatalogVersion resources
    Order,        \* the operands, as Reconcile applies them: the config map, the
                  \* deployments, the services and, on OpenShift, the routes
    Workloads,    \* what others do in a behaviour, see load
    NoObject

(* Objects of different kinds are different, whatever their names. *)
ASSUME OperatorAssumption ==
    /\ \A w \in Workloads : w.edits \in Nat /\ w.faults \in Nat /\ w.installed \in BOOLEAN
    /\ CatalogCRs \cap VersionCRs = {}
    /\ {"hub", "configMap", "deployments", "services", "routes"}
          \cap (CatalogCRs \cup VersionCRs) = {}
    /\ Order \in Seq({"configMap", "deployments", "services", "routes"}) /\ Order # << >>

Envs == {"development", "openshift"}

Operands == {Order[i] : i \in DOMAIN Order}

Watched == Operands \ {"routes"}  \* the kinds that SetupWithManager owns

Objects == {"hub"} \cup Operands \cup CatalogCRs \cup VersionCRs

(***************************************************************************)
(* An object: the incarnation of its name, the number of its spec, what    *)
(* the spec says, whether AssetHub owns it, and its status.  Of the spec   *)
(* an operand has the environment it was built for.  A status is what the  *)
(* operator reports; `seen' is the observed generation of a catalog and    *)
(* the stage of a version.                                                 *)
(***************************************************************************)
Specs == Envs \cup {"drifted", "testing", "production", "catalog"}

Causes == {"done", "none", "conflict", "fault"}

Status == [ready : BOOLEAN, seen : Nat, stage : Specs \cup {"none"}, dataVersion : Nat,
           step : Objects \cup {"none", "list"}, cause : Causes]

Object == [uid : Nat, gen : Nat, spec : Specs, owned : BOOLEAN, status : Status]

ASSUME ObjectAbsentAssumption == NoObject \notin Object

NoStatus == [ready |-> FALSE, seen |-> 0, stage |-> "none", dataVersion |-> 0,
             step |-> "none", cause |-> "none"]

New(uid, spec) ==
    [uid |-> uid, gen |-> 1, spec |-> spec, owned |-> FALSE, status |-> NoStatus]

VARIABLES
    store,     \* the objects of the cluster
    cache,     \* the operator's copies
    dirty,     \* the objects written since the watch brought the copy
    queued,    \* AssetHub is in the work queue (a queue of one key)
    worker,    \* the reconciliation that runs: the step it is at
    running,   \* whether the operator's process runs
    edits, faults,
    load,      \* what others change and what fails, how often (bounds), and whether
               \* AssetHub has been set up
    lagged,    \* history: the worker has listed a copy older than its own write
    told       \* history: the incarnation, data version and spec of each catalog,
               \* as a consumer of its resource could read them

operatorVars == <<store, cache, dirty, queued, worker, running, load, edits, faults,
                  lagged, told>>

(***************************************************************************)
(* The worker is idle, applies an operand for an environment, lists the    *)
(* versions or the catalogs, has listed ones to do, is at the status of    *)
(* one of them, or reports.                                                *)
(***************************************************************************)
Idling == [at |-> "idle"]

Listed == (CatalogCRs \cup VersionCRs) \X Object

Worker ==
    [at : {"idle", "versions", "catalogs"}]
      \cup [at : {"operands"}, env : Envs, step : DOMAIN Order]
      \cup [at : {"own"}, kind : {"versions", "catalogs"}, todo : SUBSET Listed]
      \cup [at : {"status"}, kind : {"versions", "catalogs"}, todo : SUBSET Listed, item : Listed]
      \cup [at : {"report"}, ready : BOOLEAN, step : Objects \cup {"none", "list"},
             cause : Causes]

OperatorTypeOK ==
    /\ store \in [Objects -> Object \cup {NoObject}]
    /\ cache \in [Objects -> Object \cup {NoObject}]
    /\ queued \in BOOLEAN
    /\ dirty \subseteq Objects
    /\ worker \in Worker
    /\ running \in BOOLEAN
    /\ lagged \in BOOLEAN
    /\ edits \in 0..load.edits /\ faults \in 0..load.faults
    /\ told \subseteq CatalogCRs \X Nat \X Nat \X Nat

Asked == [New(0, "development") EXCEPT !.status.ready = load.installed,
                                       !.status.cause = IF load.installed THEN "done" ELSE "none"]

OperatorInit ==
    /\ load \in Workloads
    /\ store = [o \in Objects |->
                  IF o = "hub" THEN Asked
                    ELSE IF o \in Watched /\ load.installed
                      THEN [New(0, "development") EXCEPT !.owned = TRUE] ELSE NoObject]
    /\ cache = IF load.installed THEN store ELSE [o \in Objects |-> NoObject]
    /\ dirty = IF load.installed THEN {} ELSE {"hub"}
    /\ queued = FALSE
    /\ worker = Idling
    /\ running = TRUE
    /\ edits = 0 /\ faults = 0 /\ lagged = FALSE
    /\ told = {}

-----------------------------------------------------------------------------
(***************************************************************************)
(* What others change.  The API server creates a Catalog or CatalogVersion *)
(* resource, changes its spec with a new sync version, or deletes it.      *)
(***************************************************************************)
Change(what) ==
    /\ what \in load.does
    /\ edits < load.edits
    /\ edits' = edits + 1

Fault(what) ==
    /\ what \in load.does
    /\ faults < load.faults
    /\ faults' = faults + 1

Edit(what) == Change(what) /\ UNCHANGED <<cache, queued, worker, running, load, faults, lagged, told>>

Put(o, obj) ==
    /\ store' = [store EXCEPT ![o] = obj]
    /\ dirty' = IF obj = store[o] \/ o = "routes" THEN dirty ELSE dirty \cup {o}

Respec(obj, spec) == [obj EXCEPT !.gen = @ + 1, !.spec = spec]

EditHub ==
    /\ Edit("hub")
    /\ \E env \in Envs \ {store["hub"].spec} : Put("hub", Respec(store["hub"], env))

WriteResource ==
    /\ Edit("write")
    /\ \E o \in CatalogCRs \cup VersionCRs :
          \E spec \in IF o \in CatalogCRs THEN {"catalog"} ELSE {"testing", "production"} :
             Put(o, IF store[o] = NoObject THEN New(edits + 1, spec) ELSE Respec(store[o], spec))

DeleteResource ==
    /\ Edit("delete")
    /\ \E o \in CatalogCRs \cup VersionCRs : store[o] # NoObject /\ Put(o, NoObject)

Drift ==
    /\ Edit("drift")
    /\ \E o \in Operands :
         /\ store[o] # NoObject
         /\ \/ Put(o, NoObject)
            \/ store[o].spec # "drifted" /\ Put(o, Respec(store[o], "drifted"))

(***************************************************************************)
(* A watch brings an object up to date.  AssetHub and the operands trigger *)
(* on every change.  The resources trigger when they come, go or have a    *)
(* new generation: they are adopted without being controlled, so that the  *)
(* watch of owned resources does not see them.  One that was deleted and   *)
(* made again is a deletion and a creation for the watch, even when it is  *)
(* delivered after both; a list after a lost watch, which may merge the    *)
(* two into one update of equal generation, is not modelled.               *)
(***************************************************************************)
(* MUTANT: a resource triggers when it comes and goes. *)
TriggersOnNew(o, old, new) ==
    \/ o \in {"hub"} \cup Watched
    \/ o \in CatalogCRs \cup VersionCRs /\ NoObject \in {old, new}

(* MUTANT: a status triggers nothing, so that a failure is not tried again. *)
TriggersOnSpec(o, old, new) ==
    /\ o # "routes"
    /\ old = NoObject \/ new = NoObject \/ old.uid # new.uid \/ old.gen # new.gen

Triggers(o, old, new) ==
    \/ o \in {"hub"} \cup Watched
    \/ /\ o \in CatalogCRs \cup VersionCRs
       /\ \/ old = NoObject \/ new = NoObject
          \/ old.uid # new.uid \/ old.gen # new.gen

Deliver(o) ==
    /\ running /\ o \in dirty
    /\ dirty' = dirty \ {o}
    /\ cache' = [cache EXCEPT ![o] = store[o]]
    /\ queued' = (queued \/ Triggers(o, cache[o], store[o]))
    /\ UNCHANGED <<store, worker, running, edits, faults, lagged, told, load>>

(***************************************************************************)
(* The operator's process ends, in the middle of anything; when it starts, *)
(* it fills its cache, and every object it finds triggers.                 *)
(***************************************************************************)
Down ==
    /\ running /\ Fault("down")
    /\ running' = FALSE
    /\ queued' = FALSE
    /\ worker' = Idling
    /\ UNCHANGED <<store, cache, dirty, edits, lagged, told, load>>

Up ==
    /\ ~running
    /\ running' = TRUE
    /\ cache' = store
    /\ dirty' = {}
    /\ queued' = TRUE
    /\ UNCHANGED <<store, worker, edits, faults, lagged, told, load>>

-----------------------------------------------------------------------------
(***************************************************************************)
(* A reconciliation.  A failure is reported in the status of AssetHub, and *)
(* is then no reason to come back: Reconcile returns the result of         *)
(* updateStatus.                                                           *)
(***************************************************************************)
Move(w) == worker' = w

Report(ready, step, cause) ==
    Move([at |-> "report", ready |-> ready, step |-> step, cause |-> cause])

Untouched == UNCHANGED <<store, dirty, told>>

Elsewhere == UNCHANGED <<cache, running, edits, load>>

Refused(o) == Report(FALSE, o, "conflict") /\ Untouched

Begin ==
    /\ worker = Idling /\ queued
    /\ queued' = FALSE
    /\ Move(IF cache["hub"] = NoObject THEN Idling
              ELSE [at |-> "operands", env |-> cache["hub"].spec, step |-> 1])
    /\ Untouched
    /\ Elsewhere /\ UNCHANGED <<faults, lagged>>

(***************************************************************************)
(* A consumer may read a catalog whenever its status is up to date.        *)
(***************************************************************************)
Tell(o, obj) ==
    told' = IF o \in CatalogCRs /\ obj.status.ready /\ obj.status.seen = obj.gen
              THEN told \cup {<<o, obj.uid, obj.status.dataVersion, obj.gen>>} ELSE told

Write(o, obj) == Put(o, obj) /\ Tell(o, obj)

(***************************************************************************)
(* CreateOrUpdate of an operand.  A route, which is unstructured, is read  *)
(* from the cluster and updated whether it differs or not.  Routes are for *)
(* OpenShift, and stay when the environment changes.                       *)
(***************************************************************************)
NextOperand ==
    Move(IF worker.step = Len(Order) THEN [at |-> "versions"]
           ELSE [worker EXCEPT !.step = @ + 1])

Wanted(o) == o # "routes" \/ worker.env = "openshift"

Existing(o) == IF o = "routes" THEN store[o] ELSE cache[o]

Apply ==
    /\ worker.at = "operands"
    /\ LET o == Order[worker.step]
           old == Existing(o)
           right == old # NoObject /\ old.spec = worker.env
           settled == ~Wanted(o) \/ (right /\ o # "routes")
       IN IF ~settled /\ o \in dirty \cap Watched THEN Refused(o)
            ELSE /\ NextOperand
                 /\ IF settled THEN Untouched
                      ELSE Write(o, IF old = NoObject
                                      THEN [New(0, worker.env) EXCEPT !.owned = TRUE]
                                      ELSE IF right THEN old ELSE Respec(old, worker.env))
    /\ Elsewhere /\ UNCHANGED <<queued, faults, lagged>>

(***************************************************************************)
(* The versions and then the catalogs are listed, and brought up to date   *)
(* one by one, from the copies that were listed.                           *)
(***************************************************************************)
Lags(o) ==
    /\ o \in CatalogCRs \cup VersionCRs
    /\ cache[o] # NoObject /\ store[o] # NoObject
    /\ cache[o].uid = store[o].uid /\ cache[o].gen = store[o].gen

List ==
    /\ worker.at \in {"versions", "catalogs"}
    /\ LET names == IF worker.at = "versions" THEN VersionCRs ELSE CatalogCRs
       IN Move([at |-> "own", kind |-> worker.at,
                todo |-> {<<o, cache[o]>> : o \in {n \in names : cache[n] # NoObject}}])
    /\ Untouched
    /\ lagged' = (lagged \/ \E o \in dirty : Lags(o))
    /\ Elsewhere /\ UNCHANGED <<queued, faults>>

ListDone ==
    /\ worker.at = "own" /\ worker.todo = {}
    /\ IF worker.kind = "versions" THEN Move([at |-> "catalogs"])
         ELSE Report(TRUE, "none", "done")
    /\ Untouched
    /\ Elsewhere /\ UNCHANGED <<queued, faults, lagged>>

Own ==
    /\ worker.at = "own"
    /\ \E x \in worker.todo :
         LET o == x[1]
             owned == [x[2] EXCEPT !.owned = TRUE]
         IN IF x[2] # owned /\ x[2] # store[o] THEN Refused(o)
              ELSE /\ Move([at |-> "status", kind |-> worker.kind, item |-> <<o, owned>>,
                            todo |-> worker.todo \ {x}])
                   /\ IF x[2] = owned THEN Untouched ELSE Write(o, owned)
    /\ Elsewhere /\ UNCHANGED <<queued, faults, lagged>>

VersionStatus(obj) == [obj.status EXCEPT !.ready = TRUE, !.stage = obj.spec]

(* MUTANT: only the first status of a catalog gets a data version. *)
CatalogStatusOnce(obj) ==
    IF obj.status.ready /\ obj.status.seen = obj.gen THEN obj.status
      ELSE [obj.status EXCEPT !.ready = TRUE, !.seen = obj.gen,
                              !.dataVersion = IF obj.status.ready THEN @ ELSE @ + 1]

CatalogStatus(obj) ==
    IF obj.status.ready /\ obj.status.seen = obj.gen THEN obj.status
      ELSE [obj.status EXCEPT !.ready = TRUE, !.seen = obj.gen, !.dataVersion = @ + 1]

SetStatus ==
    /\ worker.at = "status"
    /\ LET o == worker.item[1]
           obj == worker.item[2]
           status == IF o \in CatalogCRs THEN CatalogStatus(obj) ELSE VersionStatus(obj)
       IN IF status # obj.status /\ obj # store[o] THEN Refused(o)
            ELSE /\ Move([at |-> "own", kind |-> worker.kind, todo |-> worker.todo])
                 /\ IF status = obj.status THEN Untouched
                      ELSE Write(o, [obj EXCEPT !.status = status])
    /\ Elsewhere /\ UNCHANGED <<queued, faults, lagged>>

(***************************************************************************)
(* updateStatus reads AssetHub again; when that write is refused or fails, *)
(* the reconciliation is put back into the queue.                          *)
(***************************************************************************)
UpdateStatus ==
    /\ worker.at = "report"
    /\ IF "hub" \in dirty
         THEN queued' = TRUE /\ UNCHANGED <<store, dirty>>
         ELSE /\ Put("hub", [store["hub"] EXCEPT !.status =
                              [@ EXCEPT !.ready = worker.ready, !.step = worker.step,
                                        !.cause = worker.cause]])
              /\ UNCHANGED queued
    /\ Move(Idling)
    /\ Elsewhere /\ UNCHANGED <<faults, lagged, told>>

Working ==
    IF worker.at = "operands" THEN Order[worker.step]
      ELSE IF worker.at = "status" THEN worker.item[1] ELSE "list"

CallFails ==
    /\ worker # Idling /\ Fault("call")
    /\ IF worker.at = "report" THEN Move(Idling) /\ queued' = TRUE
         ELSE Report(FALSE, Working, "fault") /\ UNCHANGED queued
    /\ Untouched
    /\ Elsewhere /\ UNCHANGED lagged

Step == Begin \/ Apply \/ List \/ ListDone \/ Own \/ SetStatus \/ UpdateStatus

(***************************************************************************)
(* Down and Up take the second controller of the process along: they are   *)
(* steps of ExporterPlugins.                                               *)
(***************************************************************************)
OperatorNext ==
    \/ EditHub \/ WriteResource \/ DeleteResource \/ Drift
    \/ \E o \in Objects : Deliver(o)
    \/ Step \/ CallFails

(***************************************************************************)
(* The watches deliver, the worker goes on, and a process that ended is    *)
(* started again.                                                          *)
(***************************************************************************)
OperatorFairness ==
    /\ \A o \in Objects : WF_operatorVars(Deliver(o))
    /\ WF_operatorVars(Step) /\ WF_operatorVars(Up)

-----------------------------------------------------------------------------
(***************************************************************************)
(* The operands the controller watches are what AssetHub asks for, and the *)
(* resources are adopted and carry the status of their present spec.       *)
(***************************************************************************)
Reconciled ==
    /\ \A o \in Watched : store[o] # NoObject /\ store[o].spec = store["hub"].spec
    /\ \A o \in VersionCRs :
         store[o] # NoObject => store[o].owned /\ store[o].status.stage = store[o].spec
    /\ \A o \in CatalogCRs :
         store[o] # NoObject => /\ store[o].owned /\ store[o].status.ready
                                /\ store[o].status.seen = store[o].gen

(***************************************************************************)
(* When nothing is left to deliver or to do, AssetHub is reported ready    *)
(* only if everything is reconciled: no conflict, failure, restart or      *)
(* change in the middle of a reconciliation is lost.                       *)
(***************************************************************************)
Quiet == running /\ worker = Idling /\ ~queued /\ dirty = {}

QuietMeansDone == Quiet /\ store["hub"].status.ready => Reconciled

(***************************************************************************)
(* DataVersion identifies the content of a published catalog: of one       *)
(* incarnation of a resource, two specs never have the same data version.  *)
(***************************************************************************)
DataVersionIdentifiesSpec ==
    \A x, y \in told : x[1] = y[1] /\ x[2] = y[2] /\ x[3] = y[3] => x = y

(***************************************************************************)
(* The operator comes to rest with everything reconciled once changes      *)
(* stop, after any conflicts and one failure.  Two failures alike in a row *)
(* stop it, as the second report changes nothing and so triggers nothing;  *)
(* so may a resource whose watch is behind the operator's own write, which *)
(* does not trigger either.                                                *)
(***************************************************************************)
Converges ==
    \/ <>[](Quiet /\ Reconciled /\ store["hub"].status.ready)
    \/ <>(faults > 1 \/ lagged)
=============================================================================
