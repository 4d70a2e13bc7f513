--------------------------- MODULE Operator_proofs ---------------------------
(***************************************************************************)
(* Proofs about the operator's AssetHub controller, for any resources,     *)
(* operands and workloads, in the composition of Cluster: its types, that  *)
(* a data version identifies a spec, and that AssetHub is not reported     *)
(* ready, with nothing left to do, unless everything is reconciled.  At    *)
(* the end, the types of all the cluster.                                  *)
(***************************************************************************)
EXTENDS Cluster, TLAPS

Resources == CatalogCRs \cup VersionCRs

ResourcesOf(kind) == IF kind = "versions" THEN VersionCRs ELSE CatalogCRs

(***************************************************************************)
(* Types.  AssetHub itself is always there, for one of the environments.   *)
(***************************************************************************)
HubInv ==
    /\ store["hub"] # NoObject /\ store["hub"].spec \in Envs
    /\ cache["hub"] # NoObject => cache["hub"].spec \in Envs

(* What is listed, and whose status is set, is of the kind at work. *)
KindInv ==
    /\ worker.at \in {"own", "status"} =>
         \A x \in worker.todo : x[1] \in ResourcesOf(worker.kind)
    /\ worker.at = "status" => worker.item[1] \in ResourcesOf(worker.kind)

TypeInv == OperatorTypeOK /\ load \in Workloads /\ HubInv /\ KindInv

(***************************************************************************)
(* Copies.  A copy of a resource is of an incarnation the cluster has or   *)
(* had, is not newer than the resource, and if it has the spec of the      *)
(* resource (is its equal) then what the operator had done by then is      *)
(* still done.                                                             *)
(***************************************************************************)
StatusDone(o, obj) ==
    IF o \in CatalogCRs THEN obj.status.ready /\ obj.status.seen = obj.gen
      ELSE obj.status.stage = obj.spec

Equal(c, obj) == c # NoObject /\ obj # NoObject /\ c.uid = obj.uid /\ c.gen = obj.gen

CopyOf(o, c, obj) ==
    /\ obj # NoObject /\ c.uid = obj.uid => c.gen <= obj.gen
    /\ Equal(c, obj) => /\ c.owned => obj.owned
                        /\ StatusDone(o, c) => StatusDone(o, obj)

Copied(o, c) == c.uid <= edits /\ CopyOf(o, c, store[o])

CopyInv ==
    /\ \A o \in Resources : store[o] # NoObject => store[o].uid <= edits
    /\ \A o \in Resources : cache[o] # NoObject => Copied(o, cache[o])
    /\ worker.at \in {"own", "status"} => \A x \in worker.todo : Copied(x[1], x[2])
    /\ worker.at = "status" => Copied(worker.item[1], worker.item[2])
    /\ running => \A o \in Objects \ {"routes"} : o \notin dirty => cache[o] = store[o]

(***************************************************************************)
(* Data versions.  What consumers could read of the present incarnation of *)
(* a catalog had a smaller data version than it has, or the spec that was  *)
(* given this one.                                                         *)
(***************************************************************************)
ToldOf(o, obj) ==
    /\ obj.uid <= edits
    /\ \A x \in told : x[1] = o /\ x[2] = obj.uid =>
          /\ x[3] <= obj.status.dataVersion
          /\ x[3] = obj.status.dataVersion => x[4] = obj.status.seen

ToldInv ==
    /\ \A x \in told : x[2] <= edits
    /\ \A o \in CatalogCRs : store[o] # NoObject => ToldOf(o, store[o])
    /\ DataVersionIdentifiesSpec

(***************************************************************************)
(* Progress.  Another reconciliation is coming when the process is down,   *)
(* when one is queued, or when an event is on its way that will queue one. *)
(* If none is coming, what the present one has dealt with is done, and it  *)
(* has the rest before it, in copies equal to what the cluster has.        *)
(***************************************************************************)
Pending(o) == o \in dirty /\ Triggers(o, cache[o], store[o])

Coming == ~running \/ queued \/ \E o \in Objects : Pending(o)

InPlace(o) == o \in Watched => store[o] # NoObject /\ store[o].spec = store["hub"].spec

OperandsDone == \A o \in Watched : InPlace(o)

Done(o) == store[o] # NoObject => store[o].owned /\ StatusDone(o, store[o])

Before(kind) ==
    /\ OperandsDone
    /\ kind = "catalogs" => \A o \in VersionCRs : Done(o)

Remaining == {x[1] : x \in worker.todo}

Progress ==
    /\ worker.at = "operands" =>
         /\ worker.env = store["hub"].spec
         /\ \A i \in 1..(worker.step - 1) : InPlace(Order[i])
    /\ worker.at \in {"versions", "catalogs"} => Before(worker.at)
    /\ worker.at \in {"own", "status"} =>
         /\ Before(worker.kind)
         /\ \A x \in worker.todo : Equal(x[2], store[x[1]])
    /\ worker.at = "own" =>
         \A o \in ResourcesOf(worker.kind) : Done(o) \/ o \in Remaining
    /\ worker.at = "status" =>
         /\ Equal(worker.item[2], store[worker.item[1]]) /\ worker.item[2].owned
         /\ \A o \in ResourcesOf(worker.kind) :
               Done(o) \/ o \in Remaining \/ o = worker.item[1]
    /\ worker.at = "report" /\ worker.ready => Reconciled
    /\ worker.at = "idle" /\ store["hub"].status.ready => Reconciled

QuietInv == Coming \/ Progress

IInv == TypeInv /\ CopyInv /\ ToldInv /\ QuietInv

-----------------------------------------------------------------------------
(***************************************************************************)
(* Names, and what an action does to the table of objects.                 *)
(***************************************************************************)
LEMMA Names ==
  /\ "hub" \in Objects /\ "hub" \notin Resources /\ "hub" \notin Operands
  /\ Operands \subseteq Objects /\ Resources \subseteq Objects
  /\ Operands \cap Resources = {} /\ "routes" \notin Resources
  /\ Watched \subseteq Operands /\ "routes" \notin Watched
  /\ Objects = {"hub"} \cup Operands \cup Resources
  /\ \A i \in DOMAIN Order : Order[i] \in Operands
  /\ Len(Order) \in Nat \ {0} /\ DOMAIN Order = 1..Len(Order)
  <1>. DEFINE K == {"configMap", "deployments", "services", "routes"}
  <1>1. Order \in Seq(K) /\ Order # << >>
    BY OperatorAssumption
  <1>2. Len(Order) \in Nat \ {0} /\ DOMAIN Order = 1..Len(Order)
    BY <1>1
  <1>3. \A i \in DOMAIN Order : Order[i] \in K
    BY <1>1, <1>2
  <1>4. Operands \subseteq K
    BY <1>3 DEF Operands
  <1>5. Resources \cap (K \cup {"hub"}) = {}
    BY OperatorAssumption DEF Resources
  <1>. QED BY <1>2, <1>4, <1>5 DEF Objects, Operands, Watched, Resources

LEMMA Bounds ==
  ASSUME TypeInv
  PROVE  /\ load.edits \in Nat /\ load.faults \in Nat /\ edits \in Nat /\ faults \in Nat
         /\ edits <= load.edits /\ faults <= load.faults
  BY OperatorAssumption DEF TypeInv, OperatorTypeOK

LEMMA PutTable ==
  ASSUME TypeInv, NEW o \in Objects, NEW obj \in Object \cup {NoObject}, Put(o, obj)
  PROVE  /\ store' \in [Objects -> Object \cup {NoObject}]
         /\ dirty' \subseteq Objects /\ dirty \subseteq dirty'
         /\ store'[o] = obj /\ \A p \in Objects \ {o} : store'[p] = store[p]
         /\ o # "routes" /\ obj # store[o] => o \in dirty'
         /\ \A p \in dirty' \ dirty : p = o /\ obj # store[o] /\ o # "routes"
  BY DEF Put, TypeInv, OperatorTypeOK

(***************************************************************************)
(* The objects that are made.                                              *)
(***************************************************************************)
LEMMA NewObject ==
  ASSUME NEW uid \in Nat, NEW spec \in Specs
  PROVE  /\ New(uid, spec) \in Object /\ New(uid, spec).uid = uid /\ New(uid, spec).gen = 1
         /\ New(uid, spec).spec = spec /\ New(uid, spec).status = NoStatus
         /\ [New(uid, spec) EXCEPT !.owned = TRUE] \in Object
         /\ [New(uid, spec) EXCEPT !.owned = TRUE].spec = spec
  <1>1. NoStatus \in Status
    BY DEF NoStatus, Status, Specs, Objects, Causes
  <1>. QED BY <1>1 DEF New, Object

LEMMA RespecObject ==
  ASSUME NEW obj \in Object, NEW spec \in Specs
  PROVE  /\ Respec(obj, spec) \in Object /\ Respec(obj, spec) # obj
         /\ Respec(obj, spec).uid = obj.uid /\ Respec(obj, spec).gen = obj.gen + 1
         /\ Respec(obj, spec).spec = spec /\ Respec(obj, spec).status = obj.status
         /\ Respec(obj, spec).owned = obj.owned
  <1>. DEFINE new == Respec(obj, spec)
  <1>1. obj.gen \in Nat /\ obj.gen + 1 \in Nat /\ obj.gen + 1 # obj.gen
    BY DEF Object
  <1>2. new \in Object
    BY <1>1 DEF Respec, Object
  <1>3. new.gen = obj.gen + 1
    BY <1>1 DEF Respec, Object
  <1>4. new.uid = obj.uid /\ new.spec = spec /\ new.status = obj.status /\ new.owned = obj.owned
    BY <1>1 DEF Respec, Object
  <1>5. new # obj
    BY <1>1, <1>3
  <1>. QED BY <1>2, <1>3, <1>4, <1>5

LEMMA OwnedObject ==
  ASSUME NEW obj \in Object
  PROVE  /\ [obj EXCEPT !.owned = TRUE] \in Object /\ [obj EXCEPT !.owned = TRUE].owned
         /\ [obj EXCEPT !.owned = TRUE].uid = obj.uid /\ [obj EXCEPT !.owned = TRUE].gen = obj.gen
         /\ [obj EXCEPT !.owned = TRUE].spec = obj.spec
         /\ [obj EXCEPT !.owned = TRUE].status = obj.status
  BY DEF Object

(***************************************************************************)
(* The status a resource is given says that it is done, and is not written *)
(* if it said so before.                                                   *)
(***************************************************************************)
NewStatus(o, obj) == IF o \in CatalogCRs THEN CatalogStatus(obj) ELSE VersionStatus(obj)

LEMMA StatusObject ==
  ASSUME NEW o, NEW obj \in Object
  PROVE  /\ NewStatus(o, obj) \in Status
         /\ [obj EXCEPT !.status = NewStatus(o, obj)] \in Object
         /\ [obj EXCEPT !.status = NewStatus(o, obj)].uid = obj.uid
         /\ [obj EXCEPT !.status = NewStatus(o, obj)].gen = obj.gen
         /\ [obj EXCEPT !.status = NewStatus(o, obj)].spec = obj.spec
         /\ [obj EXCEPT !.status = NewStatus(o, obj)].owned = obj.owned
         /\ [obj EXCEPT !.status = NewStatus(o, obj)].status = NewStatus(o, obj)
         /\ StatusDone(o, [obj EXCEPT !.status = NewStatus(o, obj)])
         /\ NewStatus(o, obj) = obj.status => StatusDone(o, obj)
         /\ o \in CatalogCRs /\ NewStatus(o, obj) # obj.status =>
              /\ NewStatus(o, obj).dataVersion = obj.status.dataVersion + 1
              /\ NewStatus(o, obj).seen = obj.gen
  <1>1. obj.status \in Status /\ obj.gen \in Nat /\ obj.spec \in Specs
    BY DEF Object
  <1>2. CatalogStatus(obj) \in Status
    <2>1. obj.status.dataVersion + 1 \in Nat
      BY <1>1 DEF Status
    <2>2. [obj.status EXCEPT !.ready = TRUE, !.seen = obj.gen, !.dataVersion = @ + 1] \in Status
      BY <1>1, <2>1 DEF Status
    <2>. QED BY <1>1, <2>2 DEF CatalogStatus
  <1>3. VersionStatus(obj) \in Status
    BY <1>1 DEF VersionStatus, Status
  <1>4. /\ CatalogStatus(obj).ready /\ CatalogStatus(obj).seen = obj.gen
        /\ CatalogStatus(obj) # obj.status =>
              CatalogStatus(obj).dataVersion = obj.status.dataVersion + 1
    BY <1>1 DEF CatalogStatus, Status
  <1>5. VersionStatus(obj).stage = obj.spec
    BY <1>1 DEF VersionStatus, Status
  <1>. DEFINE s == NewStatus(o, obj)
              new == [obj EXCEPT !.status = s]
  <1>6. s \in Status
    BY <1>2, <1>3 DEF NewStatus
  <1>7. /\ new \in Object /\ new.uid = obj.uid /\ new.gen = obj.gen /\ new.spec = obj.spec
        /\ new.owned = obj.owned /\ new.status = s
    BY <1>6 DEF Object
  <1>8. IF o \in CatalogCRs THEN s.ready /\ s.seen = obj.gen ELSE s.stage = obj.spec
    BY <1>4, <1>5 DEF NewStatus
  <1>9. StatusDone(o, new)
    <2>. HIDE DEF new
    <2>. QED BY <1>7, <1>8 DEF StatusDone
  <1>10. s = obj.status => StatusDone(o, obj)
    BY <1>8 DEF StatusDone
  <1>11. o \in CatalogCRs /\ s # obj.status =>
           s.dataVersion = obj.status.dataVersion + 1 /\ s.seen = obj.gen
    BY <1>4 DEF NewStatus
  <1>. QED BY <1>6, <1>7, <1>9, <1>10, <1>11

-----------------------------------------------------------------------------
(***************************************************************************)
(* The states of the worker.                                               *)
(***************************************************************************)
LEMMA WorkerIs ==
  ASSUME TypeInv
  PROVE  /\ worker.at \in {"idle", "versions", "catalogs", "operands", "own", "status", "report"}
         /\ worker.at = "idle" => worker = Idling
         /\ worker.at = "operands" =>
              worker \in [at : {"operands"}, env : Envs, step : DOMAIN Order]
         /\ worker.at = "own" =>
              worker \in [at : {"own"}, kind : {"versions", "catalogs"}, todo : SUBSET Listed]
         /\ worker.at = "status" =>
              worker \in [at : {"status"}, kind : {"versions", "catalogs"},
                          todo : SUBSET Listed, item : Listed]
         /\ worker.at = "report" =>
              worker \in [at : {"report"}, ready : BOOLEAN, step : Objects \cup {"none", "list"},
                          cause : Causes]
  <1>1. worker \in Worker
    BY DEF TypeInv, OperatorTypeOK
  <1>2. CASE worker \in [at : {"idle", "versions", "catalogs"}]
    BY <1>2 DEF Idling
  <1>3. CASE worker \notin [at : {"idle", "versions", "catalogs"}]
    BY <1>1, <1>3 DEF Worker
  <1>. QED BY <1>2, <1>3

LEMMA ResourceFacts ==
  /\ \A kind : ResourcesOf(kind) \subseteq Resources
  /\ \A x \in Listed : x[1] \in Resources /\ x[1] \in Objects /\ x[2] \in Object
                       /\ x = <<x[1], x[2]>>
  BY Names DEF ResourcesOf, Resources, Listed

LEMMA ReportIsWorker ==
  ASSUME NEW ready \in BOOLEAN, NEW step \in Objects \cup {"none", "list"}, NEW cause \in Causes
  PROVE  [at |-> "report", ready |-> ready, step |-> step, cause |-> cause] \in Worker
  BY DEF Worker

(***************************************************************************)
(* What a step of the worker leaves alone, and what is left to show of it. *)
(***************************************************************************)
LEMMA WorkerTypes ==
  ASSUME TypeInv, Elsewhere, worker' \in Worker, KindInv', queued' \in BOOLEAN,
         faults' \in 0..load.faults, lagged' \in BOOLEAN,
         store' \in [Objects -> Object \cup {NoObject}], dirty' \subseteq Objects,
         told' \subseteq CatalogCRs \X Nat \X Nat \X Nat,
         store'["hub"] # NoObject, store'["hub"].spec = store["hub"].spec
  PROVE  TypeInv'
  BY DEF TypeInv, OperatorTypeOK, HubInv, Elsewhere

LEMMA UntouchedTypes ==
  ASSUME TypeInv, Untouched
  PROVE  /\ store' \in [Objects -> Object \cup {NoObject}] /\ dirty' \subseteq Objects
         /\ told' \subseteq CatalogCRs \X Nat \X Nat \X Nat
         /\ store'["hub"] # NoObject /\ store'["hub"].spec = store["hub"].spec
  BY DEF TypeInv, OperatorTypeOK, HubInv, Untouched

LEMMA WriteTypes ==
  ASSUME TypeInv, NEW o \in Objects \ {"hub"}, NEW obj \in Object, Write(o, obj)
  PROVE  /\ store' \in [Objects -> Object \cup {NoObject}] /\ dirty' \subseteq Objects
         /\ told' \subseteq CatalogCRs \X Nat \X Nat \X Nat
         /\ store'["hub"] # NoObject /\ store'["hub"].spec = store["hub"].spec
  <1>1. Put(o, obj) /\ Tell(o, obj)
    BY DEF Write
  <1>2. /\ store' \in [Objects -> Object \cup {NoObject}] /\ dirty' \subseteq Objects
        /\ store'["hub"] = store["hub"]
    BY <1>1, PutTable, Names
  <1>3. obj.uid \in Nat /\ obj.status.dataVersion \in Nat /\ obj.gen \in Nat
    BY DEF Object, Status
  <1>4. o \in CatalogCRs =>
          <<o, obj.uid, obj.status.dataVersion, obj.gen>> \in CatalogCRs \X Nat \X Nat \X Nat
    BY <1>3
  <1>5. told' \subseteq CatalogCRs \X Nat \X Nat \X Nat
    BY <1>1, <1>4 DEF Tell, TypeInv, OperatorTypeOK
  <1>. QED BY <1>2, <1>5 DEF TypeInv, HubInv

LEMMA RefusedTypes ==
  ASSUME TypeInv, NEW o \in Objects, Refused(o), Elsewhere, UNCHANGED <<queued, faults, lagged>>
  PROVE  TypeInv'
  <1>1. worker' = [at |-> "report", ready |-> FALSE, step |-> o, cause |-> "conflict"]
    BY DEF Refused, Report, Move
  <1>2. worker' \in Worker
    BY <1>1, ReportIsWorker DEF Causes
  <1>3. KindInv'
    BY <1>1 DEF KindInv
  <1>4. queued' \in BOOLEAN /\ faults' \in 0..load.faults /\ lagged' \in BOOLEAN
    BY DEF TypeInv, OperatorTypeOK
  <1>5. Untouched
    BY DEF Refused
  <1>. QED BY <1>2, <1>3, <1>4, <1>5, UntouchedTypes, WorkerTypes

(***************************************************************************)
(* The steps of the worker, case by case.                                  *)
(***************************************************************************)
AfterOperand == IF worker.step = Len(Order) THEN [at |-> "versions"] ELSE [worker EXCEPT !.step = @ + 1]

Applied(old) ==
    IF old = NoObject THEN [New(0, worker.env) EXCEPT !.owned = TRUE]
      ELSE IF old.spec = worker.env THEN old ELSE Respec(old, worker.env)

LEMMA ApplyCases ==
  ASSUME TypeInv, Apply
  PROVE  /\ worker.at = "operands" /\ Elsewhere /\ UNCHANGED <<queued, faults, lagged>>
         /\ Order[worker.step] \in Operands
         /\ \/ Order[worker.step] \in dirty \cap Watched /\ Refused(Order[worker.step])
            \/ /\ Order[worker.step] \in Watched => cache[Order[worker.step]] # NoObject
                       /\ cache[Order[worker.step]].spec = worker.env
               /\ worker' = AfterOperand /\ Untouched
            \/ /\ Order[worker.step] \notin dirty \cap Watched
               /\ worker' = AfterOperand
               /\ Write(Order[worker.step], Applied(Existing(Order[worker.step])))
  <1>. DEFINE o == Order[worker.step]
              old == Existing(o)
              right == old # NoObject /\ old.spec = worker.env
              settled == ~Wanted(o) \/ (right /\ o # "routes")
  <1>1. worker.at = "operands" /\ Elsewhere /\ UNCHANGED <<queued, faults, lagged>>
    BY DEF Apply
  <1>2. worker.step \in DOMAIN Order
    BY <1>1, WorkerIs
  <1>3. o \in Operands
    BY <1>2, Names
  <1>4. IF ~settled /\ o \in dirty \cap Watched THEN Refused(o)
          ELSE /\ worker' = AfterOperand
               /\ IF settled THEN Untouched
                    ELSE Write(o, IF old = NoObject
                                    THEN [New(0, worker.env) EXCEPT !.owned = TRUE]
                                    ELSE IF right THEN old ELSE Respec(old, worker.env))
    BY DEF Apply, NextOperand, Move, AfterOperand
  <1>5. settled /\ o \in Watched => cache[o] # NoObject /\ cache[o].spec = worker.env
    BY DEF Wanted, Existing, Watched
  <1>6. (IF old = NoObject THEN [New(0, worker.env) EXCEPT !.owned = TRUE]
           ELSE IF right THEN old ELSE Respec(old, worker.env)) = Applied(old)
    BY DEF Applied
  <1>. HIDE DEF settled, right, old, o
  <1>7. CASE ~settled /\ o \in dirty \cap Watched
    BY <1>1, <1>3, <1>4, <1>7 DEF o
  <1>8. CASE settled
    BY <1>1, <1>3, <1>4, <1>5, <1>8 DEF o
  <1>9. CASE ~settled /\ o \notin dirty \cap Watched
    BY <1>1, <1>3, <1>4, <1>6, <1>9 DEF o, old
  <1>. QED BY <1>7, <1>8, <1>9

ItemOf(x) == [x[2] EXCEPT !.owned = TRUE]

LEMMA OwnCases ==
  ASSUME Own
  PROVE  /\ worker.at = "own" /\ Elsewhere /\ UNCHANGED <<queued, faults, lagged>>
         /\ \E x \in worker.todo :
              \/ x[2] # store[x[1]] /\ Refused(x[1])
              \/ /\ worker' = [at |-> "status", kind |-> worker.kind,
                               item |-> <<x[1], ItemOf(x)>>, todo |-> worker.todo \ {x}]
                 /\ \/ x[2] = ItemOf(x) /\ Untouched
                    \/ x[2] = store[x[1]] /\ Write(x[1], ItemOf(x))
  BY DEF Own, Move, ItemOf

NewItem == [worker.item[2] EXCEPT !.status = NewStatus(worker.item[1], worker.item[2])]

LEMMA SetStatusCases ==
  ASSUME SetStatus
  PROVE  /\ worker.at = "status" /\ Elsewhere /\ UNCHANGED <<queued, faults, lagged>>
         /\ \/ worker.item[2] # store[worker.item[1]] /\ Refused(worker.item[1])
            \/ /\ worker' = [at |-> "own", kind |-> worker.kind, todo |-> worker.todo]
               /\ \/ /\ NewStatus(worker.item[1], worker.item[2]) = worker.item[2].status
                     /\ Untouched
                  \/ /\ NewStatus(worker.item[1], worker.item[2]) # worker.item[2].status
                     /\ worker.item[2] = store[worker.item[1]]
                     /\ Write(worker.item[1], NewItem)
  BY DEF SetStatus, Move, NewStatus, NewItem

LEMMA AppliedIsObject ==
  ASSUME TypeInv, worker.at = "operands", NEW old \in Object \cup {NoObject}
  PROVE  Applied(old) \in Object /\ Applied(old).spec = worker.env
  <1>1. worker.env \in Envs /\ worker.env \in Specs
    BY WorkerIs DEF Specs
  <1>. QED BY <1>1, NewObject, RespecObject DEF Applied

LEMMA NextWorker ==
  ASSUME TypeInv, worker.at = "operands"
  PROVE  /\ AfterOperand \in Worker
         /\ \/ worker.step = Len(Order) /\ AfterOperand = [at |-> "versions"]
            \/ /\ worker.step # Len(Order) /\ AfterOperand.at = "operands"
               /\ AfterOperand.env = worker.env /\ AfterOperand.step = worker.step + 1
  <1>. DEFINE W == [at : {"operands"}, env : Envs, step : DOMAIN Order]
              next == [worker EXCEPT !.step = @ + 1]
  <1>1. worker \in W /\ worker.step \in 1..Len(Order) /\ Len(Order) \in Nat
    BY WorkerIs, Names
  <1>2. CASE worker.step = Len(Order)
    BY <1>2 DEF AfterOperand, Worker
  <1>3. CASE worker.step # Len(Order)
    <2>1. worker.step + 1 \in DOMAIN Order
      BY <1>1, <1>3, Names
    <2>2. next \in W /\ next.at = "operands" /\ next.env = worker.env
      BY <1>1, <2>1
    <2>3. next.step = worker.step + 1
      BY <1>1
    <2>4. next \in Worker
      BY <2>2 DEF Worker
    <2>5. AfterOperand = next
      BY <1>3 DEF AfterOperand
    <2>. QED BY <1>3, <2>2, <2>3, <2>4, <2>5
  <1>. QED BY <1>2, <1>3

-----------------------------------------------------------------------------
(***************************************************************************)
(* The worker's steps keep the types.                                      *)
(***************************************************************************)
LEMMA KeptFlags ==
  ASSUME TypeInv, UNCHANGED <<queued, faults, lagged>>
  PROVE  queued' \in BOOLEAN /\ faults' \in 0..load.faults /\ lagged' \in BOOLEAN
  BY DEF TypeInv, OperatorTypeOK

LEMMA BeginTypes == ASSUME TypeInv, Begin PROVE TypeInv'
  <1>1. queued' \in BOOLEAN /\ faults' \in 0..load.faults /\ lagged' \in BOOLEAN
    BY DEF Begin, TypeInv, OperatorTypeOK
  <1>2. worker' \in Worker /\ worker'.at \in {"idle", "operands"}
    <2>1. CASE cache["hub"] = NoObject
      BY <2>1 DEF Begin, Move, Idling, Worker
    <2>2. CASE cache["hub"] # NoObject
      <3>1. cache["hub"].spec \in Envs /\ 1 \in DOMAIN Order
        BY <2>2, Names DEF TypeInv, HubInv
      <3>2. worker' = [at |-> "operands", env |-> cache["hub"].spec, step |-> 1]
        BY <2>2 DEF Begin, Move
      <3>. QED BY <3>1, <3>2 DEF Worker
    <2>. QED BY <2>1, <2>2
  <1>3. KindInv'
    BY <1>2 DEF KindInv
  <1>4. Untouched /\ Elsewhere
    BY DEF Begin
  <1>. QED BY <1>1, <1>2, <1>3, <1>4, UntouchedTypes, WorkerTypes

LEMMA ApplyTypes == ASSUME TypeInv, Apply PROVE TypeInv'
  <1>. DEFINE o == Order[worker.step]
  <1>1. worker.at = "operands" /\ Elsewhere /\ UNCHANGED <<queued, faults, lagged>> /\ o \in Operands
    BY ApplyCases
  <1>2. o \in Objects \ {"hub"}
    BY <1>1, Names
  <1>3. CASE Refused(o)
    BY <1>1, <1>2, <1>3, RefusedTypes
  <1>4. ASSUME worker' = AfterOperand PROVE worker' \in Worker /\ KindInv'
    BY <1>1, <1>4, NextWorker DEF KindInv
  <1>5. CASE worker' = AfterOperand /\ Untouched
    BY <1>1, <1>4, <1>5, KeptFlags, UntouchedTypes, WorkerTypes
  <1>6. CASE worker' = AfterOperand /\ Write(o, Applied(Existing(o)))
    <2>1. Existing(o) \in Object \cup {NoObject}
      BY <1>2 DEF Existing, TypeInv, OperatorTypeOK
    <2>2. Applied(Existing(o)) \in Object
      BY <1>1, <2>1, AppliedIsObject
    <2>. QED BY <1>1, <1>2, <1>4, <1>6, <2>2, KeptFlags, WriteTypes, WorkerTypes
  <1>. QED BY <1>3, <1>5, <1>6, ApplyCases

LEMMA ListTypes == ASSUME TypeInv, List PROVE TypeInv'
  <1>. DEFINE names == IF worker.at = "versions" THEN VersionCRs ELSE CatalogCRs
              todo == {<<o, cache[o]>> : o \in {n \in names : cache[n] # NoObject}}
  <1>1. /\ worker.at \in {"versions", "catalogs"} /\ Untouched /\ Elsewhere
        /\ UNCHANGED <<queued, faults>>
        /\ worker' = [at |-> "own", kind |-> worker.at, todo |-> todo]
    BY DEF List, Move
  <1>2. names = ResourcesOf(worker.at)
    BY DEF ResourcesOf
  <1>3. \A x \in todo : x[1] \in ResourcesOf(worker.at) /\ x \in Listed
    <2>1. SUFFICES ASSUME NEW o \in names, cache[o] # NoObject
                   PROVE  <<o, cache[o]>> \in Listed
      BY <1>2
    <2>2. o \in Resources /\ o \in Objects
      BY <1>2, ResourceFacts, Names
    <2>. QED BY <2>1, <2>2 DEF Listed, Resources, TypeInv, OperatorTypeOK
  <1>4. worker' \in Worker
    BY <1>1, <1>3 DEF Worker
  <1>5. KindInv'
    BY <1>1, <1>3 DEF KindInv, ResourcesOf
  <1>6. lagged' \in BOOLEAN
    BY DEF List, TypeInv, OperatorTypeOK
  <1>7. queued' \in BOOLEAN /\ faults' \in 0..load.faults
    BY <1>1 DEF TypeInv, OperatorTypeOK
  <1>. QED BY <1>1, <1>4, <1>5, <1>6, <1>7, UntouchedTypes, WorkerTypes

LEMMA ListDoneTypes == ASSUME TypeInv, ListDone PROVE TypeInv'
  <1>1. /\ Untouched /\ Elsewhere /\ UNCHANGED <<queued, faults, lagged>>
        /\ \/ worker' = [at |-> "catalogs"]
           \/ worker' = [at |-> "report", ready |-> TRUE, step |-> "none", cause |-> "done"]
    BY DEF ListDone, Move, Report
  <1>2. worker' \in Worker /\ worker'.at \in {"catalogs", "report"}
    <2>1. CASE worker' = [at |-> "catalogs"]
      BY <2>1 DEF Worker
    <2>2. CASE worker' = [at |-> "report", ready |-> TRUE, step |-> "none", cause |-> "done"]
      <3>1. [at |-> "report", ready |-> TRUE, step |-> "none", cause |-> "done"] \in Worker
        BY ReportIsWorker DEF Causes
      <3>. QED BY <2>2, <3>1
    <2>. QED BY <1>1, <2>1, <2>2
  <1>3. KindInv'
    BY <1>2 DEF KindInv
  <1>. QED BY <1>1, <1>2, <1>3, KeptFlags, UntouchedTypes, WorkerTypes

LEMMA OwnTypes == ASSUME TypeInv, Own PROVE TypeInv'
  <1>1. worker.at = "own" /\ Elsewhere /\ UNCHANGED <<queued, faults, lagged>>
    BY OwnCases
  <1>2. worker.kind \in {"versions", "catalogs"} /\ worker.todo \subseteq Listed
    BY <1>1, WorkerIs
  <1>3. PICK x \in worker.todo :
           \/ Refused(x[1])
           \/ /\ worker' = [at |-> "status", kind |-> worker.kind,
                            item |-> <<x[1], ItemOf(x)>>, todo |-> worker.todo \ {x}]
              /\ \/ Untouched
                 \/ Write(x[1], ItemOf(x))
    BY OwnCases
  <1>4. x[1] \in ResourcesOf(worker.kind) /\ x[1] \in Resources /\ x[1] \in Objects \ {"hub"}
        /\ x[2] \in Object
    BY <1>1, <1>2, ResourceFacts, Names DEF TypeInv, KindInv
  <1>5. ItemOf(x) \in Object
    BY <1>4, OwnedObject DEF ItemOf
  <1>6. CASE Refused(x[1])
    BY <1>1, <1>4, <1>6, RefusedTypes
  <1>7. CASE worker' = [at |-> "status", kind |-> worker.kind,
                        item |-> <<x[1], ItemOf(x)>>, todo |-> worker.todo \ {x}]
    <2>1. <<x[1], ItemOf(x)>> \in Listed
      BY <1>4, <1>5 DEF Listed, Resources
    <2>2. worker' \in Worker
      BY <1>2, <1>7, <2>1 DEF Worker
    <2>3. KindInv'
      BY <1>1, <1>4, <1>7 DEF KindInv, TypeInv, ResourcesOf
    <2>4. Untouched \/ Write(x[1], ItemOf(x))
      BY <1>3, <1>7 DEF Refused, Report, Move
    <2>. QED BY <1>1, <1>4, <1>5, <2>2, <2>3, <2>4, KeptFlags, UntouchedTypes, WriteTypes,
                WorkerTypes
  <1>. QED BY <1>3, <1>6, <1>7

LEMMA ItemFacts ==
  ASSUME TypeInv, worker.at = "status"
  PROVE  /\ worker.item[1] \in ResourcesOf(worker.kind) /\ worker.item[1] \in Resources
         /\ worker.item[1] \in Objects \ {"hub"} /\ worker.item[2] \in Object
         /\ NewItem \in Object
  <1>1. worker.item \in Listed
    BY WorkerIs
  <1>2. worker.item[1] \in Resources /\ worker.item[2] \in Object
    BY <1>1, ResourceFacts
  <1>3. NewItem \in Object
    BY <1>2, StatusObject DEF NewItem
  <1>. QED BY <1>2, <1>3, Names DEF TypeInv, KindInv

LEMMA SetStatusTypes == ASSUME TypeInv, SetStatus PROVE TypeInv'
  <1>1. worker.at = "status" /\ Elsewhere /\ UNCHANGED <<queued, faults, lagged>>
    BY SetStatusCases
  <1>2. worker.kind \in {"versions", "catalogs"} /\ worker.todo \subseteq Listed
    BY <1>1, WorkerIs
  <1>3. CASE Refused(worker.item[1])
    BY <1>1, <1>3, ItemFacts, RefusedTypes
  <1>4. CASE worker' = [at |-> "own", kind |-> worker.kind, todo |-> worker.todo]
    <2>1. worker' \in Worker
      BY <1>2, <1>4 DEF Worker
    <2>2. KindInv'
      BY <1>1, <1>4 DEF KindInv, TypeInv, ResourcesOf
    <2>3. Untouched \/ Write(worker.item[1], NewItem)
      BY <1>4, SetStatusCases DEF Refused, Report, Move
    <2>. QED BY <1>1, <2>1, <2>2, <2>3, ItemFacts, KeptFlags, UntouchedTypes, WriteTypes,
                WorkerTypes
  <1>. QED BY <1>3, <1>4, SetStatusCases

(***************************************************************************)
(* AssetHub, as updateStatus writes it.                                    *)
(***************************************************************************)
Reported ==
    [store["hub"] EXCEPT !.status = [@ EXCEPT !.ready = worker.ready, !.step = worker.step,
                                              !.cause = worker.cause]]

LEMMA ReportedIsObject ==
  ASSUME TypeInv, worker.at = "report"
  PROVE  /\ Reported \in Object /\ Reported.uid = store["hub"].uid
         /\ Reported.gen = store["hub"].gen /\ Reported.spec = store["hub"].spec
         /\ Reported.status.ready = worker.ready
  <1>. DEFINE hub == store["hub"]
              status == [hub.status EXCEPT !.ready = worker.ready, !.step = worker.step,
                                           !.cause = worker.cause]
  <1>1. hub \in Object
    BY Names DEF TypeInv, OperatorTypeOK, HubInv
  <1>2. hub.status \in Status
    BY <1>1 DEF Object
  <1>3. worker.ready \in BOOLEAN /\ worker.step \in Objects \cup {"none", "list"}
        /\ worker.cause \in Causes
    BY WorkerIs
  <1>4. status \in Status /\ status.ready = worker.ready
    BY <1>2, <1>3 DEF Status
  <1>5. Reported = [hub EXCEPT !.status = status]
    BY DEF Reported
  <1>. HIDE DEF status, hub
  <1>6. /\ Reported \in Object /\ Reported.uid = hub.uid /\ Reported.gen = hub.gen
        /\ Reported.spec = hub.spec /\ Reported.status = status
    BY <1>1, <1>4, <1>5 DEF Object
  <1>. QED BY <1>4, <1>6 DEF hub

LEMMA UpdateStatusCases ==
  ASSUME UpdateStatus
  PROVE  /\ worker.at = "report" /\ worker' = Idling /\ Elsewhere
         /\ UNCHANGED <<faults, lagged, told>>
         /\ \/ "hub" \in dirty /\ queued' = TRUE /\ UNCHANGED <<store, dirty>>
            \/ "hub" \notin dirty /\ Put("hub", Reported) /\ UNCHANGED queued
  BY DEF UpdateStatus, Move, Reported

LEMMA UpdateStatusTypes == ASSUME TypeInv, UpdateStatus PROVE TypeInv'
  <1>1. worker.at = "report" /\ worker' = Idling /\ Elsewhere /\ UNCHANGED <<faults, lagged, told>>
    BY UpdateStatusCases
  <1>2. worker' \in Worker /\ KindInv'
    BY <1>1 DEF Idling, Worker, KindInv
  <1>3. queued' \in BOOLEAN
    BY UpdateStatusCases DEF TypeInv, OperatorTypeOK
  <1>4. faults' \in 0..load.faults /\ lagged' \in BOOLEAN
        /\ told' \subseteq CatalogCRs \X Nat \X Nat \X Nat
    BY <1>1 DEF TypeInv, OperatorTypeOK
  <1>5. /\ store' \in [Objects -> Object \cup {NoObject}] /\ dirty' \subseteq Objects
        /\ store'["hub"] # NoObject /\ store'["hub"].spec = store["hub"].spec
    <2>1. CASE UNCHANGED <<store, dirty>>
      BY <2>1 DEF TypeInv, OperatorTypeOK, HubInv
    <2>2. CASE Put("hub", Reported)
      <3>1. Reported \in Object /\ Reported.spec = store["hub"].spec
        BY <1>1, ReportedIsObject
      <3>2. /\ store' \in [Objects -> Object \cup {NoObject}] /\ dirty' \subseteq Objects
            /\ store'["hub"] = Reported
        BY <2>2, <3>1, PutTable, Names
      <3>. QED BY <3>1, <3>2, ObjectAbsentAssumption
    <2>. QED BY <2>1, <2>2, UpdateStatusCases
  <1>. QED BY <1>1, <1>2, <1>3, <1>4, <1>5, WorkerTypes

LEMMA CallFailsCases ==
  ASSUME CallFails
  PROVE  /\ Untouched /\ Elsewhere /\ UNCHANGED lagged /\ worker # Idling
         /\ faults < load.faults /\ faults' = faults + 1
         /\ \/ worker' = Idling /\ queued' = TRUE
            \/ /\ worker' = [at |-> "report", ready |-> FALSE, step |-> Working, cause |-> "fault"]
               /\ worker.at # "report" /\ UNCHANGED queued
  BY DEF CallFails, Report, Move, Fault

LEMMA CallFailsTypes == ASSUME TypeInv, CallFails PROVE TypeInv'
  <1>1. Working \in Objects \cup {"none", "list"}
    <2>1. CASE worker.at = "operands"
      <3>1. worker.step \in DOMAIN Order
        BY <2>1, WorkerIs
      <3>. QED BY <2>1, <3>1, Names DEF Working
    <2>2. CASE worker.at = "status"
      BY <2>2, ItemFacts DEF Working
    <2>. QED BY <2>1, <2>2 DEF Working
  <1>2. worker' \in Worker /\ worker'.at \in {"idle", "report"}
    <2>1. CASE worker' = Idling
      BY <2>1 DEF Idling, Worker
    <2>2. CASE worker' = [at |-> "report", ready |-> FALSE, step |-> Working, cause |-> "fault"]
      <3>1. [at |-> "report", ready |-> FALSE, step |-> Working, cause |-> "fault"] \in Worker
        BY <1>1, ReportIsWorker DEF Causes
      <3>. QED BY <2>2, <3>1
    <2>. QED BY <2>1, <2>2, CallFailsCases
  <1>3. KindInv'
    BY <1>2 DEF KindInv
  <1>4. faults' \in 0..load.faults
    BY Bounds, CallFailsCases
  <1>5. queued' \in BOOLEAN /\ lagged' \in BOOLEAN
    BY CallFailsCases DEF TypeInv, OperatorTypeOK
  <1>6. Untouched /\ Elsewhere
    BY CallFailsCases
  <1>. QED BY <1>2, <1>3, <1>4, <1>5, <1>6, UntouchedTypes, WorkerTypes

-----------------------------------------------------------------------------
(***************************************************************************)
(* What others do.  An edit writes one object: AssetHub, for another       *)
(* environment; a resource, as a new one or with a new generation, or it   *)
(* deletes it; an operand, which it deletes or changes.                    *)
(***************************************************************************)
EditOf(o, obj) ==
    \/ o = "hub" /\ \E env \in Envs \ {store["hub"].spec} : obj = Respec(store["hub"], env)
    \/ o \in Resources /\ store[o] # NoObject /\ obj = NoObject
    \/ o \in Resources /\ store[o] = NoObject /\ \E spec \in Specs : obj = New(edits + 1, spec)
    \/ o \in Resources /\ store[o] # NoObject /\ \E spec \in Specs : obj = Respec(store[o], spec)
    \/ o \in Operands /\ store[o] # NoObject /\ obj \in {NoObject, Respec(store[o], "drifted")}

Edits == EditHub \/ WriteResource \/ DeleteResource \/ Drift

LEMMA EditCases ==
  ASSUME Edits
  PROVE  /\ edits < load.edits /\ edits' = edits + 1
         /\ UNCHANGED <<cache, queued, worker, running, load, faults, lagged, told>>
         /\ \E o \in Objects : \E obj : EditOf(o, obj) /\ Put(o, obj)
  <1>1. CASE EditHub
    BY <1>1, Names DEF EditHub, Edit, Change, EditOf
  <1>2. CASE WriteResource
    BY <1>2, Names DEF WriteResource, Edit, Change, EditOf, Resources, Specs
  <1>3. CASE DeleteResource
    BY <1>3, Names DEF DeleteResource, Edit, Change, EditOf, Resources
  <1>4. CASE Drift
    BY <1>4, Names DEF Drift, Edit, Change, EditOf
  <1>. QED BY <1>1, <1>2, <1>3, <1>4 DEF Edits

LEMMA EditObject ==
  ASSUME TypeInv, NEW o \in Objects, NEW obj, EditOf(o, obj)
  PROVE  /\ obj \in Object \cup {NoObject} /\ obj # store[o]
         /\ o = "hub" => obj # NoObject /\ obj.spec \in Envs
  <1>1. store[o] \in Object \cup {NoObject} /\ store["hub"] \in Object
    BY Names DEF TypeInv, OperatorTypeOK, HubInv
  <1>2. edits + 1 \in Nat /\ Envs \subseteq Specs /\ "drifted" \in Specs
    BY Bounds DEF Specs
  <1>3. CASE o = "hub"
    <2>1. PICK env \in Envs \ {store["hub"].spec} : obj = Respec(store["hub"], env)
      BY <1>3, Names DEF EditOf
    <2>. QED BY <1>1, <1>2, <1>3, <2>1, RespecObject, ObjectAbsentAssumption
  <1>4. CASE o # "hub"
    <2>1. CASE obj = NoObject /\ store[o] # NoObject
      BY <1>4, <2>1
    <2>2. CASE store[o] = NoObject /\ \E spec \in Specs : obj = New(edits + 1, spec)
      <3>1. PICK spec \in Specs : obj = New(edits + 1, spec)
        BY <2>2
      <3>2. New(edits + 1, spec) \in Object
        BY <1>2, NewObject
      <3>. QED BY <1>4, <2>2, <3>1, <3>2, ObjectAbsentAssumption
    <2>3. CASE store[o] # NoObject /\ \E spec \in Specs : obj = Respec(store[o], spec)
      BY <1>1, <1>4, <2>3, RespecObject
    <2>. QED BY <1>2, <1>4, <2>1, <2>2, <2>3 DEF EditOf
  <1>. QED BY <1>3, <1>4

LEMMA EditsTypes == ASSUME TypeInv, Edits PROVE TypeInv'
  <1>1. /\ edits < load.edits /\ edits' = edits + 1
        /\ UNCHANGED <<cache, queued, worker, running, load, faults, lagged, told>>
    BY EditCases
  <1>0. PICK o \in Objects : \E obj : EditOf(o, obj) /\ Put(o, obj)
    BY EditCases
  <1>2. PICK obj : EditOf(o, obj) /\ Put(o, obj)
    BY <1>0
  <1>3. obj \in Object \cup {NoObject} /\ (o = "hub" => obj # NoObject /\ obj.spec \in Envs)
    BY <1>2, EditObject
  <1>4. /\ store' \in [Objects -> Object \cup {NoObject}] /\ dirty' \subseteq Objects
        /\ store'[o] = obj /\ \A p \in Objects \ {o} : store'[p] = store[p]
    BY <1>2, <1>3, PutTable
  <1>5. store'["hub"] # NoObject /\ store'["hub"].spec \in Envs
    BY <1>3, <1>4, Names DEF TypeInv, HubInv
  <1>6. edits' \in 0..load.edits
    BY <1>1, Bounds
  <1>7. KindInv'
    BY <1>1 DEF TypeInv, KindInv, ResourcesOf
  <1>. QED BY <1>1, <1>4, <1>5, <1>6, <1>7 DEF TypeInv, OperatorTypeOK, HubInv

LEMMA DeliverTypes == ASSUME TypeInv, NEW o \in Objects, Deliver(o) PROVE TypeInv'
  <1>1. cache' = [cache EXCEPT ![o] = store[o]] /\ dirty' = dirty \ {o}
        /\ UNCHANGED <<store, worker, running, edits, faults, lagged, told, load>>
    BY DEF Deliver
  <1>2. queued' \in BOOLEAN
    BY DEF Deliver, Triggers, TypeInv, OperatorTypeOK
  <1>3. cache' \in [Objects -> Object \cup {NoObject}]
    BY <1>1 DEF TypeInv, OperatorTypeOK
  <1>4. HubInv'
    BY <1>1 DEF TypeInv, OperatorTypeOK, HubInv
  <1>5. KindInv'
    BY <1>1 DEF TypeInv, KindInv, ResourcesOf
  <1>. QED BY <1>1, <1>2, <1>3, <1>4, <1>5 DEF TypeInv, OperatorTypeOK

LEMMA DownTypes == ASSUME TypeInv, Down PROVE TypeInv'
  <1>1. /\ running' = FALSE /\ queued' = FALSE /\ worker' = Idling /\ faults' = faults + 1
        /\ faults < load.faults
        /\ UNCHANGED <<store, cache, dirty, edits, lagged, told, load>>
    BY DEF Down, Fault
  <1>2. faults' \in 0..load.faults
    BY <1>1, Bounds
  <1>3. worker' \in Worker /\ KindInv'
    BY <1>1 DEF Idling, Worker, KindInv
  <1>. QED BY <1>1, <1>2, <1>3 DEF TypeInv, OperatorTypeOK, HubInv

LEMMA UpTypes == ASSUME TypeInv, Up PROVE TypeInv'
  <1>1. /\ running' = TRUE /\ cache' = store /\ dirty' = {} /\ queued' = TRUE
        /\ UNCHANGED <<store, worker, edits, faults, lagged, told, load>>
    BY DEF Up
  <1>2. KindInv'
    BY <1>1 DEF TypeInv, KindInv, ResourcesOf
  <1>. QED BY <1>1, <1>2 DEF TypeInv, OperatorTypeOK, HubInv

(***************************************************************************)
(* What happens elsewhere in the cluster leaves the operator alone, but    *)
(* for the bounds it shares.                                               *)
(***************************************************************************)
Still == UNCHANGED <<store, cache, dirty, queued, worker, running, load, lagged, told>>

Calm ==
    /\ Still
    /\ edits <= edits' /\ edits' \in 0..load.edits /\ faults' \in 0..load.faults

LEMMA CalmTypes == ASSUME TypeInv, Calm PROVE TypeInv'
  <1>1. KindInv'
    BY DEF Calm, Still, TypeInv, KindInv, ResourcesOf
  <1>. QED BY <1>1 DEF Calm, Still, TypeInv, OperatorTypeOK, HubInv

Operation ==
    \/ Edits
    \/ \E o \in Objects : Deliver(o)
    \/ Down \/ Up
    \/ Step
    \/ CallFails

LEMMA NextCases == ASSUME TypeInv, [Next]_vars PROVE Operation \/ Calm
  <1>1. edits \in 0..load.edits /\ faults \in 0..load.faults /\ edits \in Nat /\ faults \in Nat
        /\ load.edits \in Nat /\ load.faults \in Nat
    BY Bounds DEF TypeInv, OperatorTypeOK
  <1>2. /\ Still
        /\ edits' = edits \/ (edits < load.edits /\ edits' = edits + 1)
        /\ faults' = faults \/ (faults < load.faults /\ faults' = faults + 1)
        => Calm
    BY <1>1 DEF Calm
  <1>3. ASSUME NEW what, Change(what) PROVE edits < load.edits /\ edits' = edits + 1
    BY <1>3 DEF Change
  <1>4. ASSUME NEW what, Fault(what) PROVE faults < load.faults /\ faults' = faults + 1
    BY <1>4 DEF Fault
  <1>5. CASE PluginsNext
    <2>1. CASE OperatorNext
      BY <2>1 DEF OperatorNext, Operation, Edits
    <2>2. CASE DownPlugins \/ UpPlugins
      BY <2>2 DEF DownPlugins, UpPlugins, Operation
    <2>3. CASE (WritePlugin \/ DeletePlugin \/ ChangeAnswer) /\ OperatorCalm
      <3>1. Still /\ faults' = faults
        BY <2>3 DEF OperatorCalm, Still
      <3>2. \E what : Change(what)
        BY <2>3 DEF WritePlugin, DeletePlugin, ChangeAnswer
      <3>. QED BY <1>2, <1>3, <3>1, <3>2
    <2>4. CASE OperatorCalm /\ UNCHANGED edits
      <3>1. Still /\ faults' = faults /\ edits' = edits
        BY <2>4 DEF OperatorCalm, Still
      <3>. QED BY <1>2, <3>1
    <2>. QED BY <1>5, <2>1, <2>2, <2>3, <2>4 DEF PluginsNext
  <1>6. CASE RestartAll /\ OperatorCalm
    <2>1. Still /\ faults' = faults
      BY <1>6 DEF OperatorCalm, Still
    <2>2. Change("server")
      BY <1>6 DEF RestartAll, RestartServer
    <2>. QED BY <1>2, <1>3, <2>1, <2>2
  <1>7. CASE Requests
    <2>1. Still
      BY <1>7 DEF Requests, Still
    <2>2. CASE CreateCatalog \/ Expire
      <3>1. faults' = faults /\ (edits' = edits \/ \E what : Change(what))
        BY <2>2 DEF CreateCatalog, Expire
      <3>. QED BY <1>2, <1>3, <2>1, <3>1
    <2>3. ASSUME NEW q \in Callers, Request(q) PROVE Calm
      <3>1. ASSUME NEW op, Start(q, op) PROVE Calm
        <4>1. Change(op) /\ faults' = faults
          BY <3>1 DEF Start
        <4>. QED BY <1>2, <1>3, <2>1, <4>1
      <3>2. ASSUME NEW op, At(q, op) PROVE Calm
        <4>1. edits' = edits /\ faults' = faults
          BY <3>2 DEF At, Within
        <4>. QED BY <1>2, <2>1, <4>1
      <3>3. ASSUME NEW op, Within(q, op), Fault("database") \/ UNCHANGED faults PROVE Calm
        <4>1. edits' = edits
          BY <3>3 DEF Within
        <4>2. faults' = faults \/ Fault("database")
          BY <3>3
        <4>. QED BY <1>2, <1>4, <2>1, <4>1, <4>2
      <3>4. \/ \E op : Start(q, op)
            \/ \E op : At(q, op)
            \/ \E op : Within(q, op) /\ (Fault("database") \/ UNCHANGED faults)
            \/ \E op : ChangeUnmarked(q, op)
        <4>1. CASE CreateBinding(q) \/ UpdateBinding(q) \/ RunBinding(q) \/ DeleteBinding(q)
                   \/ PublishPreview(q) \/ PublishCatalog(q) \/ Validate(q) \/ DeleteCatalog(q)
          BY <4>1 DEF CreateBinding, UpdateBinding, RunBinding, DeleteBinding, PublishPreview,
                      PublishCatalog, Validate, DeleteCatalog
        <4>2. CASE EditInstance(q) \/ EditPins(q)
          BY <4>2 DEF EditInstance, EditPins, ChangeContent
        <4>3. CASE WriteBinding(q) \/ ExecuteBinding(q) \/ StorePreview(q) \/ Publish(q)
                   \/ Reset(q) \/ SetValidationStatus(q) \/ DeleteRow(q)
          BY <4>3 DEF WriteBinding, ExecuteBinding, StorePreview, Publish, Reset,
                      SetValidationStatus, DeleteRow
        <4>4. CASE ResetFails(q) \/ DeleteBindings(q)
          BY <4>4 DEF ResetFails, DeleteBindings
        <4>5. CASE EditTypes(q) \/ RejectCreation(q)
          BY <4>5 DEF EditTypes, RejectCreation
        <4>. QED BY <2>3, <4>1, <4>2, <4>3, <4>4, <4>5 DEF Request
      <3>5. ASSUME NEW op, ChangeUnmarked(q, op) PROVE Calm
        <4>1. Change(op) /\ faults' = faults
          BY <3>5 DEF ChangeUnmarked
        <4>. QED BY <1>2, <1>3, <2>1, <4>1
      <3>. QED BY <3>1, <3>2, <3>3, <3>4, <3>5
    <2>. QED BY <1>7, <2>2, <2>3 DEF Requests
  <1>8. CASE UNCHANGED vars
    <2>1. Still /\ edits' = edits /\ faults' = faults
      BY <1>8 DEF vars, operatorVars, Still
    <2>. QED BY <1>2, <2>1
  <1>. QED BY <1>5, <1>6, <1>7, <1>8 DEF Next

LEMMA TypeStep == ASSUME TypeInv, [Next]_vars PROVE TypeInv'
  <1>1. CASE Step
    BY <1>1, BeginTypes, ApplyTypes, ListTypes, ListDoneTypes, OwnTypes, SetStatusTypes,
       UpdateStatusTypes DEF Step
  <1>2. CASE ~Step
    BY <1>2, NextCases, EditsTypes, DeliverTypes, DownTypes, UpTypes, CallFailsTypes, CalmTypes
       DEF Operation
  <1>. QED BY <1>1, <1>2

LEMMA AskedIsObject ==
  ASSUME load \in Workloads
  PROVE  Asked \in Object /\ Asked.uid = 0 /\ Asked.spec = "development"
         /\ Asked.status.ready = load.installed
  <1>. DEFINE cause == IF load.installed THEN "done" ELSE "none"
              status == [NoStatus EXCEPT !.ready = load.installed, !.cause = cause]
              new == New(0, "development")
  <1>1. load.installed \in BOOLEAN /\ cause \in Causes
    BY OperatorAssumption DEF Causes
  <1>2. new \in Object /\ new.uid = 0 /\ new.spec = "development" /\ new.status = NoStatus
    <2>1. "development" \in Specs /\ 0 \in Nat
      BY DEF Specs, Envs
    <2>. QED BY <2>1, NewObject
  <1>3. NoStatus \in Status
    BY <1>2 DEF Object
  <1>4. status \in Status /\ status.ready = load.installed
    BY <1>1, <1>3 DEF Status
  <1>5. Asked = [new EXCEPT !.status = [@ EXCEPT !.ready = load.installed, !.cause = cause]]
    BY DEF Asked
  <1>. HIDE DEF new, cause
  <1>6. Asked = [new EXCEPT !.status = status]
    BY <1>2, <1>5
  <1>. HIDE DEF status
  <1>7. Asked \in Object /\ Asked.uid = new.uid /\ Asked.spec = new.spec /\ Asked.status = status
    BY <1>2, <1>4, <1>6 DEF Object
  <1>. QED BY <1>2, <1>4, <1>7

LEMMA TypeInit == ASSUME OperatorInit PROVE TypeInv
  <1>. DEFINE owned == [New(0, "development") EXCEPT !.owned = TRUE]
  <1>1. load \in Workloads /\ load.edits \in Nat /\ load.faults \in Nat
    BY OperatorAssumption DEF OperatorInit
  <1>2. Asked \in Object /\ Asked.spec \in Envs
    BY <1>1, AskedIsObject DEF Envs
  <1>3. owned \in Object
    BY NewObject DEF Specs, Envs
  <1>4. store = [o \in Objects |->
                  IF o = "hub" THEN Asked
                    ELSE IF o \in Watched /\ load.installed THEN owned ELSE NoObject]
    BY DEF OperatorInit
  <1>. HIDE DEF owned
  <1>5. store \in [Objects -> Object \cup {NoObject}] /\ store["hub"] = Asked
    BY <1>2, <1>3, <1>4, Names
  <1>6. cache = IF load.installed THEN store ELSE [o \in Objects |-> NoObject]
    BY DEF OperatorInit
  <1>7. cache \in [Objects -> Object \cup {NoObject}] /\ cache["hub"] \in {Asked, NoObject}
    BY <1>5, <1>6, Names
  <1>8. HubInv
    BY <1>2, <1>5, <1>7, ObjectAbsentAssumption DEF HubInv
  <1>9. worker \in Worker /\ KindInv
    BY DEF OperatorInit, Idling, Worker, KindInv
  <1>10. /\ dirty \subseteq Objects /\ queued \in BOOLEAN /\ running \in BOOLEAN
         /\ lagged \in BOOLEAN /\ edits \in 0..load.edits /\ faults \in 0..load.faults
         /\ told \subseteq CatalogCRs \X Nat \X Nat \X Nat
    <2>1. dirty \subseteq Objects
      BY Names DEF OperatorInit
    <2>2. edits \in 0..load.edits /\ faults \in 0..load.faults
      BY <1>1 DEF OperatorInit
    <2>. QED BY <2>1, <2>2 DEF OperatorInit
  <1>. QED BY <1>1, <1>5, <1>7, <1>8, <1>9, <1>10 DEF TypeInv, OperatorTypeOK

-----------------------------------------------------------------------------
(***************************************************************************)
(* Which step writes what.  A write of the worker to a resource leaves its *)
(* incarnation and its spec, and undoes nothing.                           *)
(***************************************************************************)
Tended(o, old, new) ==
    /\ old # NoObject /\ new # NoObject
    /\ new.uid = old.uid /\ new.gen = old.gen /\ new.spec = old.spec
    /\ old.owned => new.owned
    /\ StatusDone(o, old) => StatusDone(o, new)

WorkerStep == Step \/ CallFails

LEMMA TendedItem ==
  ASSUME TypeInv, NEW x \in Listed
  PROVE  /\ ItemOf(x) \in Object /\ ItemOf(x).owned /\ ItemOf(x).uid = x[2].uid
         /\ ItemOf(x).gen = x[2].gen /\ ItemOf(x).spec = x[2].spec
         /\ ItemOf(x).status = x[2].status
         /\ Tended(x[1], x[2], ItemOf(x))
  <1>1. x[2] \in Object /\ x[2] # NoObject
    BY ResourceFacts, ObjectAbsentAssumption
  <1>2. /\ ItemOf(x) \in Object /\ ItemOf(x).owned /\ ItemOf(x).uid = x[2].uid
        /\ ItemOf(x).gen = x[2].gen /\ ItemOf(x).spec = x[2].spec /\ ItemOf(x).status = x[2].status
    BY <1>1, OwnedObject DEF ItemOf
  <1>. QED BY <1>1, <1>2, ObjectAbsentAssumption DEF Tended, StatusDone

LEMMA TendedStatus ==
  ASSUME TypeInv, worker.at = "status"
  PROVE  /\ Tended(worker.item[1], worker.item[2], NewItem)
         /\ StatusDone(worker.item[1], NewItem) /\ NewItem.owned = worker.item[2].owned
  <1>. DEFINE o == worker.item[1]
              obj == worker.item[2]
  <1>1. obj \in Object /\ obj # NoObject /\ NewItem \in Object /\ NewItem # NoObject
    BY ItemFacts, ObjectAbsentAssumption
  <1>2. NewItem = [obj EXCEPT !.status = NewStatus(o, obj)]
    BY DEF NewItem
  <1>. HIDE DEF o, obj
  <1>3. /\ NewItem.uid = obj.uid /\ NewItem.gen = obj.gen /\ NewItem.spec = obj.spec
        /\ NewItem.owned = obj.owned /\ StatusDone(o, NewItem)
    BY <1>1, <1>2, StatusObject
  <1>. QED BY <1>1, <1>3 DEF Tended, o, obj

(***************************************************************************)
(* The writes of a worker's step: none, to an operand, to AssetHub (its    *)
(* status), or to a resource.                                              *)
(***************************************************************************)
Writes(o, obj) ==
    /\ Put(o, obj)
    /\ \/ o \in Operands /\ worker.at = "operands" /\ obj.spec = worker.env
       \/ o = "hub" /\ obj.spec = store["hub"].spec
       \/ o \in Resources /\ Tended(o, store[o], obj)

LEMMA WorkerWrites ==
  ASSUME TypeInv, WorkerStep
  PROVE  /\ Elsewhere
         /\ \/ UNCHANGED <<store, dirty>>
            \/ \E o \in Objects, obj \in Object : Writes(o, obj)
  <1>1. CASE Begin \/ List \/ ListDone
    BY <1>1 DEF Begin, List, ListDone, Untouched
  <1>2. CASE Apply
    <2>. DEFINE o == Order[worker.step]
    <2>1. worker.at = "operands" /\ Elsewhere /\ o \in Operands /\ o \in Objects
      BY <1>2, ApplyCases, Names
    <2>2. CASE Untouched \/ Refused(o)
      BY <2>1, <2>2 DEF Untouched, Refused
    <2>3. CASE Write(o, Applied(Existing(o)))
      <3>1. Existing(o) \in Object \cup {NoObject}
        BY <2>1 DEF Existing, TypeInv, OperatorTypeOK
      <3>2. Applied(Existing(o)) \in Object /\ Applied(Existing(o)).spec = worker.env
        BY <2>1, <3>1, AppliedIsObject
      <3>3. Writes(o, Applied(Existing(o)))
        BY <2>1, <2>3, <3>2 DEF Writes, Write
      <3>. QED BY <2>1, <3>2, <3>3
    <2>. QED BY <1>2, <2>2, <2>3, ApplyCases
  <1>3. CASE Own
    <2>1. Elsewhere /\ worker.at = "own"
      BY <1>3, OwnCases
    <2>2. PICK x \in worker.todo :
             \/ Refused(x[1])
             \/ Untouched
             \/ x[2] = store[x[1]] /\ Write(x[1], ItemOf(x))
      BY <1>3, OwnCases
    <2>3. x \in Listed
      BY <2>1, WorkerIs
    <2>4. x[1] \in Resources /\ x[1] \in Objects /\ ItemOf(x) \in Object
          /\ Tended(x[1], x[2], ItemOf(x))
      BY <2>3, ResourceFacts, TendedItem
    <2>. QED BY <2>1, <2>2, <2>4 DEF Refused, Untouched, Write, Writes
  <1>4. CASE SetStatus
    <2>1. Elsewhere /\ worker.at = "status"
      BY <1>4, SetStatusCases
    <2>2. \/ Refused(worker.item[1])
          \/ Untouched
          \/ worker.item[2] = store[worker.item[1]] /\ Write(worker.item[1], NewItem)
      BY <1>4, SetStatusCases
    <2>. QED BY <2>1, <2>2, ItemFacts, TendedStatus DEF Refused, Untouched, Write, Writes
  <1>5. CASE UpdateStatus
    <2>1. Elsewhere /\ worker.at = "report"
      BY <1>5, UpdateStatusCases
    <2>2. UNCHANGED <<store, dirty>> \/ Put("hub", Reported)
      BY <1>5, UpdateStatusCases
    <2>. QED BY <2>1, <2>2, ReportedIsObject, Names DEF Writes
  <1>6. CASE CallFails
    BY <1>6, CallFailsCases DEF Untouched
  <1>. QED BY <1>1, <1>2, <1>3, <1>4, <1>5, <1>6 DEF WorkerStep, Step

(***************************************************************************)
(* What may become of a resource in a step: it stays, goes, is made anew,  *)
(* gets a new generation, or is tended.                                    *)
(***************************************************************************)
Follows(o, old, new) ==
    \/ new = old
    \/ new = NoObject
    \/ edits < new.uid /\ new.uid <= edits'
    \/ old # NoObject /\ new.uid = old.uid /\ old.gen < new.gen
    \/ Tended(o, old, new)

LEMMA StepFollows ==
  ASSUME TypeInv, [Next]_vars
  PROVE  edits <= edits' /\ \A o \in Resources : Follows(o, store[o], store'[o])
  <1>1. edits \in Nat /\ Resources \subseteq Objects
    BY Bounds, Names
  <1>2. CASE store' = store /\ edits <= edits'
    BY <1>2 DEF Follows
  <1>3. CASE Edits
    <2>0. PICK p \in Objects : \E obj : EditOf(p, obj) /\ Put(p, obj)
      BY <1>3, EditCases
    <2>1. PICK obj : EditOf(p, obj) /\ Put(p, obj)
      BY <2>0
    <2>2. edits' = edits + 1
      BY <1>3, EditCases
    <2>3. obj \in Object \cup {NoObject}
      BY <2>1, EditObject
    <2>4. SUFFICES ASSUME NEW o \in Resources PROVE Follows(o, store[o], store'[o])
      BY <1>1, <2>2
    <2>5. CASE o # p
      BY <1>1, <2>1, <2>3, <2>5, PutTable DEF Follows
    <2>6. CASE o = p
      <3>1. store'[o] = obj /\ o # "hub" /\ o \notin Operands
        BY <2>1, <2>3, <2>6, PutTable, Names
      <3>2. CASE obj = NoObject
        BY <3>1, <3>2 DEF Follows
      <3>3. CASE \E spec \in Specs : obj = New(edits + 1, spec)
        <4>1. PICK spec \in Specs : obj = New(edits + 1, spec)
          BY <3>3
        <4>2. edits + 1 \in Nat
          BY <1>1
        <4>3. obj.uid = edits + 1
          BY <4>1, <4>2, NewObject
        <4>. QED BY <1>1, <2>2, <3>1, <4>3 DEF Follows
      <3>4. CASE store[o] # NoObject /\ \E spec \in Specs : obj = Respec(store[o], spec)
        <4>1. store[o] \in Object /\ store[o].gen \in Nat
          BY <1>1, <3>4 DEF TypeInv, OperatorTypeOK, Object
        <4>. QED BY <3>1, <3>4, <4>1, RespecObject DEF Follows
      <3>. QED BY <2>1, <2>6, <3>1, <3>2, <3>3, <3>4 DEF EditOf
    <2>. QED BY <2>5, <2>6
  <1>4. CASE WorkerStep
    <2>1. edits' = edits
      BY <1>4, WorkerWrites DEF Elsewhere
    <2>2. ASSUME NEW p \in Objects, NEW obj \in Object, Writes(p, obj), NEW o \in Resources
          PROVE  Follows(o, store[o], store'[o])
      <3>1. Put(p, obj)
        BY <2>2 DEF Writes
      <3>2. store'[p] = obj /\ (o # p => store'[o] = store[o])
        BY <1>1, <3>1, PutTable
      <3>3. o = p => Tended(o, store[o], obj)
        BY <2>2, Names DEF Writes
      <3>. QED BY <3>2, <3>3 DEF Follows
    <2>. QED BY <1>1, <1>2, <1>4, <2>1, <2>2, WorkerWrites
  <1>5. CASE Calm \/ Down \/ Up \/ \E o \in Objects : Deliver(o)
    BY <1>1, <1>2, <1>5 DEF Calm, Still, Down, Up, Deliver
  <1>. QED BY <1>3, <1>4, <1>5, NextCases DEF Operation, WorkerStep

(***************************************************************************)
(* A copy stays the copy of what its resource becomes.                     *)
(***************************************************************************)
LEMMA CopyFollows ==
  ASSUME TypeInv, TypeInv', [Next]_vars, NEW o \in Resources, NEW c \in Object, Copied(o, c)
  PROVE  c.uid <= edits' /\ CopyOf(o, c, store'[o])
  <1>1. edits \in Nat /\ edits' \in Nat /\ edits <= edits' /\ Follows(o, store[o], store'[o])
    BY Bounds, StepFollows DEF TypeInv, OperatorTypeOK
  <1>2. store[o] \in Object \cup {NoObject} /\ store'[o] \in Object \cup {NoObject}
    BY Names DEF TypeInv, OperatorTypeOK
  <1>3. c.uid \in Nat /\ c.gen \in Nat /\ c.uid <= edits /\ CopyOf(o, c, store[o])
    BY DEF Object, Copied
  <1>4. c.uid <= edits'
    BY <1>1, <1>3
  <1>. DEFINE old == store[o]
              new == store'[o]
  <1>5. old # NoObject => old.uid \in Nat /\ old.gen \in Nat
    BY <1>2 DEF Object
  <1>6. new # NoObject => new.uid \in Nat /\ new.gen \in Nat
    BY <1>2 DEF Object
  <1>. HIDE DEF old, new
  <1>7. CASE new = old \/ new = NoObject
    BY <1>3, <1>4, <1>7 DEF CopyOf, Equal, old, new
  <1>8. CASE new # NoObject /\ edits < new.uid
    BY <1>1, <1>3, <1>4, <1>6, <1>8 DEF CopyOf, Equal, new
  <1>9. CASE new # NoObject /\ old # NoObject /\ new.uid = old.uid /\ old.gen < new.gen
    BY <1>3, <1>4, <1>5, <1>6, <1>9 DEF CopyOf, Equal, new, old
  <1>10. CASE Tended(o, old, new)
    BY <1>3, <1>4, <1>10 DEF CopyOf, Equal, Tended, new, old
  <1>. QED BY <1>1, <1>7, <1>8, <1>9, <1>10 DEF Follows, old, new

(***************************************************************************)
(* What is written and has a watch is dirty.                               *)
(***************************************************************************)
LEMMA Tables ==
  ASSUME TypeInv, Edits \/ WorkerStep \/ Calm
  PROVE  /\ cache' = cache /\ running' = running /\ dirty \subseteq dirty'
         /\ \A o \in Objects \ {"routes"} : store'[o] # store[o] => o \in dirty'
  <1>1. CASE UNCHANGED <<store, dirty>>
    <2>1. cache' = cache /\ running' = running
      BY EditCases, WorkerWrites DEF Calm, Still, Elsewhere
    <2>. QED BY <1>1, <2>1
  <1>2. ASSUME NEW p \in Objects, NEW obj \in Object \cup {NoObject}, Put(p, obj)
        PROVE  /\ dirty \subseteq dirty'
               /\ \A o \in Objects \ {"routes"} : store'[o] # store[o] => o \in dirty'
    BY <1>2, PutTable
  <1>3. CASE Edits
    BY <1>2, <1>3, EditCases, EditObject
  <1>4. CASE WorkerStep
    <2>1. cache' = cache /\ running' = running
      BY <1>4, WorkerWrites DEF Elsewhere
    <2>. QED BY <1>1, <1>2, <1>4, <2>1, WorkerWrites DEF Writes
  <1>. QED BY <1>1, <1>3, <1>4 DEF Calm, Still

(***************************************************************************)
(* The copies the worker has, one action at a time.                        *)
(***************************************************************************)
Copies ==
    /\ worker.at \in {"own", "status"} => \A x \in worker.todo : Copied(x[1], x[2])
    /\ worker.at = "status" => Copied(worker.item[1], worker.item[2])

LEMMA CopiesFollow ==
  ASSUME TypeInv, TypeInv', CopyInv, [Next]_vars, worker.at \in {"own", "status"},
         NEW x \in worker.todo
  PROVE  x[2].uid <= edits' /\ CopyOf(x[1], x[2], store'[x[1]])
  <1>1. x[1] \in Resources /\ x[2] \in Object
    BY WorkerIs, ResourceFacts
  <1>2. Copied(x[1], x[2])
    BY DEF CopyInv
  <1>. QED BY <1>1, <1>2, CopyFollows

LEMMA NoCopies == ASSUME worker'.at \notin {"own", "status"} PROVE Copies'
  BY DEF Copies

LEMMA SameCopies ==
  ASSUME TypeInv, TypeInv', CopyInv, [Next]_vars, worker' = worker
  PROVE  Copies'
  <1>1. worker.at \in {"own", "status"} => (\A x \in worker.todo : Copied(x[1], x[2]))'
    BY CopiesFollow DEF Copied
  <1>2. worker.at = "status" => Copied(worker.item[1], worker.item[2])'
    <2>1. SUFFICES ASSUME worker.at = "status" PROVE Copied(worker.item[1], worker.item[2])'
      OBVIOUS
    <2>2. Copied(worker.item[1], worker.item[2])
      BY <2>1 DEF CopyInv
    <2>3. worker.item[2].uid <= edits' /\ CopyOf(worker.item[1], worker.item[2], store'[worker.item[1]])
      BY <2>1, <2>2, ItemFacts, CopyFollows
    <2>. QED BY <2>3 DEF Copied
  <1>. QED BY <1>1, <1>2 DEF Copies

LEMMA ListCopies == ASSUME TypeInv, TypeInv', CopyInv, List PROVE Copies'
  <1>. DEFINE names == IF worker.at = "versions" THEN VersionCRs ELSE CatalogCRs
              todo == {<<o, cache[o]>> : o \in {n \in names : cache[n] # NoObject}}
  <1>1. worker'.at = "own" /\ worker'.todo = todo /\ store' = store /\ edits' = edits
    BY DEF List, Move, Untouched, Elsewhere
  <1>2. \A x \in todo : Copied(x[1], x[2])
    BY DEF CopyInv, Resources
  <1>3. \A x \in todo : x[2].uid <= edits' /\ CopyOf(x[1], x[2], store'[x[1]])
    BY <1>1, <1>2 DEF Copied
  <1>. QED BY <1>1, <1>3 DEF Copies, Copied

LEMMA OwnCopies == ASSUME TypeInv, TypeInv', CopyInv, [Next]_vars, Own PROVE Copies'
  <1>1. worker.at = "own" /\ worker.todo \subseteq Listed
    BY OwnCases, WorkerIs
  <1>2. PICK x \in worker.todo :
           \/ Refused(x[1])
           \/ /\ worker' = [at |-> "status", kind |-> worker.kind,
                            item |-> <<x[1], ItemOf(x)>>, todo |-> worker.todo \ {x}]
              /\ \/ x[2] = ItemOf(x) /\ Untouched
                 \/ x[2] = store[x[1]] /\ Write(x[1], ItemOf(x))
    BY OwnCases
  <1>3. x \in Listed /\ x[1] \in Objects /\ x[2] \in Object
    BY <1>1, ResourceFacts
  <1>4. CASE Refused(x[1])
    BY <1>4, NoCopies DEF Refused, Report, Move
  <1>5. CASE worker' = [at |-> "status", kind |-> worker.kind,
                        item |-> <<x[1], ItemOf(x)>>, todo |-> worker.todo \ {x}]
    <2>1. worker'.at = "status" /\ worker'.todo = worker.todo \ {x}
          /\ worker'.item[1] = x[1] /\ worker'.item[2] = ItemOf(x)
      BY <1>5
    <2>2. \A y \in worker.todo : y[2].uid <= edits' /\ CopyOf(y[1], y[2], store'[y[1]])
      BY <1>1, CopiesFollow
    <2>3. ItemOf(x).uid <= edits' /\ CopyOf(x[1], ItemOf(x), store'[x[1]])
      <3>1. CASE x[2] = ItemOf(x)
        BY <2>2, <3>1
      <3>2. CASE Write(x[1], ItemOf(x))
        <4>1. ItemOf(x) \in Object /\ ItemOf(x).uid = x[2].uid
          BY <1>3, TendedItem
        <4>2. store'[x[1]] = ItemOf(x)
          BY <1>3, <3>2, <4>1, PutTable DEF Write
        <4>3. ItemOf(x).gen <= ItemOf(x).gen
          BY <4>1 DEF Object
        <4>. QED BY <2>2, <4>1, <4>2, <4>3 DEF CopyOf
      <3>. QED BY <1>2, <1>5, <3>1, <3>2 DEF Refused, Report, Move
    <2>. QED BY <2>1, <2>2, <2>3 DEF Copies, Copied
  <1>. QED BY <1>2, <1>4, <1>5

LEMMA SetStatusCopies == ASSUME TypeInv, TypeInv', CopyInv, [Next]_vars, SetStatus PROVE Copies'
  <1>1. worker.at = "status"
    BY SetStatusCases
  <1>2. CASE Refused(worker.item[1])
    BY <1>2, NoCopies DEF Refused, Report, Move
  <1>3. CASE worker' = [at |-> "own", kind |-> worker.kind, todo |-> worker.todo]
    <2>1. worker'.at = "own" /\ worker'.todo = worker.todo
      BY <1>3
    <2>2. \A y \in worker.todo : y[2].uid <= edits' /\ CopyOf(y[1], y[2], store'[y[1]])
      BY <1>1, CopiesFollow
    <2>. QED BY <2>1, <2>2 DEF Copies, Copied
  <1>. QED BY <1>2, <1>3, SetStatusCases

LEMMA WorkerCopies ==
  ASSUME TypeInv, TypeInv', CopyInv, [Next]_vars, WorkerStep
  PROVE  Copies'
  <1>1. CASE Begin
    BY <1>1, NoCopies DEF Begin, Move, Idling
  <1>2. CASE Apply
    <2>1. worker.at = "operands"
      BY <1>2, ApplyCases
    <2>2. worker' = AfterOperand \/ worker'.at = "report"
      BY <1>2, ApplyCases DEF Refused, Report, Move
    <2>3. worker'.at \notin {"own", "status"}
      BY <2>1, <2>2, NextWorker
    <2>. QED BY <2>3, NoCopies
  <1>3. CASE ListDone \/ UpdateStatus
    BY <1>3, NoCopies DEF ListDone, UpdateStatus, Move, Report, Idling
  <1>4. CASE CallFails
    <2>1. worker' = Idling \/ \E step : worker' = [at |-> "report", ready |-> FALSE,
                                                   step |-> step, cause |-> "fault"]
      BY <1>4, CallFailsCases
    <2>2. worker'.at \in {"idle", "report"}
      BY <2>1 DEF Idling
    <2>. QED BY <2>2, NoCopies
  <1>. QED BY <1>1, <1>2, <1>3, <1>4, ListCopies, OwnCopies, SetStatusCopies DEF WorkerStep, Step

LEMMA CopyStep == ASSUME TypeInv, TypeInv', CopyInv, [Next]_vars PROVE CopyInv'
  <1>1. edits \in Nat /\ edits' \in Nat /\ edits <= edits' /\ Resources \subseteq Objects
        /\ "routes" \notin Resources
    BY Bounds, StepFollows, Names DEF TypeInv, OperatorTypeOK
  <1>2. Copies'
    <2>1. CASE WorkerStep
      BY <2>1, WorkerCopies
    <2>2. CASE Down
      BY <2>2, NoCopies DEF Down, Idling
    <2>3. CASE Edits \/ Calm \/ Up \/ \E o \in Objects : Deliver(o)
      BY <2>3, EditCases, SameCopies DEF Calm, Still, Up, Deliver
    <2>. QED BY <2>1, <2>2, <2>3, NextCases DEF Operation, WorkerStep
  <1>3. \A o \in Resources : store'[o] # NoObject => store'[o].uid <= edits'
    <2>1. SUFFICES ASSUME NEW o \in Resources, store'[o] # NoObject
                   PROVE  store'[o].uid <= edits'
      OBVIOUS
    <2>2. store[o] # NoObject => store[o].uid \in Nat /\ store[o].uid <= edits
      BY <1>1 DEF CopyInv, TypeInv, OperatorTypeOK, Object
    <2>3. Follows(o, store[o], store'[o])
      BY StepFollows
    <2>. QED BY <1>1, <2>1, <2>2, <2>3 DEF Follows, Tended
  <1>4. \A o \in Resources : cache'[o] # NoObject =>
           cache'[o].uid <= edits' /\ CopyOf(o, cache'[o], store'[o])
    <2>1. SUFFICES ASSUME NEW o \in Resources, cache'[o] # NoObject
                   PROVE  cache'[o].uid <= edits' /\ CopyOf(o, cache'[o], store'[o])
      OBVIOUS
    <2>2. cache'[o] = cache[o] \/ cache'[o] = store[o]
      <3>1. CASE Edits \/ WorkerStep \/ Calm
        BY <3>1, Tables
      <3>2. CASE Down \/ Up
        BY <3>2 DEF Down, Up
      <3>3. ASSUME NEW p \in Objects, Deliver(p) PROVE cache'[o] = cache[o] \/ cache'[o] = store[o]
        BY <1>1, <3>3 DEF Deliver, TypeInv, OperatorTypeOK
      <3>. QED BY <3>1, <3>2, <3>3, NextCases DEF Operation, WorkerStep
    <2>3. CASE cache'[o] = cache[o]
      <3>1. cache[o] \in Object /\ Copied(o, cache[o])
        BY <1>1, <2>1, <2>3 DEF CopyInv, TypeInv, OperatorTypeOK
      <3>. QED BY <2>3, <3>1, CopyFollows
    <2>4. CASE cache'[o] = store[o]
      <3>1. store[o] \in Object
        BY <1>1, <2>1, <2>4 DEF TypeInv, OperatorTypeOK
      <3>2. Copied(o, store[o])
        <4>1. store[o].gen <= store[o].gen
          BY <3>1 DEF Object
        <4>. QED BY <2>1, <2>4, <4>1 DEF CopyInv, Copied, CopyOf
      <3>. QED BY <2>4, <3>1, <3>2, CopyFollows
    <2>. QED BY <2>2, <2>3, <2>4
  <1>5. running' => \A o \in Objects \ {"routes"} : o \notin dirty' => cache'[o] = store'[o]
    <2>1. CASE Edits \/ WorkerStep \/ Calm
      BY <2>1, Tables DEF CopyInv
    <2>2. CASE Down \/ Up
      BY <2>2 DEF Down, Up
    <2>3. ASSUME NEW p \in Objects, Deliver(p)
          PROVE  \A o \in Objects \ {"routes"} : o \notin dirty' => cache'[o] = store'[o]
      BY <2>3 DEF Deliver, TypeInv, OperatorTypeOK, CopyInv
    <2>. QED BY <2>1, <2>2, <2>3, NextCases DEF Operation, WorkerStep
  <1>. QED BY <1>2, <1>3, <1>4, <1>5 DEF CopyInv, Copies, Copied

LEMMA CopyInit == ASSUME OperatorInit PROVE CopyInv
  <1>. DEFINE owned == [New(0, "development") EXCEPT !.owned = TRUE]
  <1>1. store = [o \in Objects |->
                  IF o = "hub" THEN Asked
                    ELSE IF o \in Watched /\ load.installed THEN owned ELSE NoObject]
    BY DEF OperatorInit
  <1>. HIDE DEF owned
  <1>2. \A o \in Resources : store[o] = NoObject
    BY <1>1, Names
  <1>3. cache = (IF load.installed THEN store ELSE [o \in Objects |-> NoObject])
        /\ dirty = (IF load.installed THEN {} ELSE {"hub"}) /\ worker = Idling
    BY DEF OperatorInit
  <1>4. \A o \in Resources : cache[o] = NoObject
    BY <1>2, <1>3, Names
  <1>5. \A o \in Objects \ {"routes"} : o \notin dirty => cache[o] = store[o]
    BY <1>1, <1>3
  <1>. QED BY <1>2, <1>3, <1>4, <1>5 DEF CopyInv, Idling

-----------------------------------------------------------------------------
(***************************************************************************)
(* Data versions: steps that tell nothing, and the writes of a catalog.    *)
(***************************************************************************)
LEMMA ToldTypes == ASSUME TypeInv PROVE \A x \in told : x[2] \in Nat /\ x[3] \in Nat /\ x[4] \in Nat
  BY DEF TypeInv, OperatorTypeOK

Versioned(o, old, new) ==
    \/ new = old
    \/ new = NoObject
    \/ edits < new.uid /\ new.uid <= edits'
    \/ old # NoObject /\ new.uid = old.uid /\ new.status = old.status

LEMMA TellNothing ==
  ASSUME TypeInv, TypeInv', ToldInv, told' = told, edits <= edits',
         \A o \in CatalogCRs : Versioned(o, store[o], store'[o])
  PROVE  ToldInv'
  <1>1. edits \in Nat /\ edits' \in Nat /\ CatalogCRs \subseteq Objects
    BY Bounds DEF TypeInv, OperatorTypeOK, Objects
  <1>2. \A x \in told' : x[2] <= edits'
    BY <1>1, ToldTypes DEF ToldInv
  <1>3. ASSUME NEW o \in CatalogCRs, store'[o] # NoObject
        PROVE  /\ store'[o].uid <= edits'
               /\ \A x \in told : x[1] = o /\ x[2] = store'[o].uid =>
                    /\ x[3] <= store'[o].status.dataVersion
                    /\ x[3] = store'[o].status.dataVersion => x[4] = store'[o].status.seen
    <2>1. store[o] # NoObject => ToldOf(o, store[o])
      BY DEF ToldInv
    <2>2. store'[o].uid \in Nat /\ (store[o] # NoObject => store[o].uid \in Nat)
      BY <1>1, <1>3 DEF TypeInv, OperatorTypeOK, Object
    <2>3. CASE store[o] # NoObject /\ store'[o].uid = store[o].uid
               /\ store'[o].status = store[o].status
      BY <1>1, <2>1, <2>2, <2>3 DEF ToldOf
    <2>4. CASE edits < store'[o].uid /\ store'[o].uid <= edits'
      BY <1>1, <2>2, <2>4, ToldTypes DEF ToldInv
    <2>. QED BY <1>3, <2>3, <2>4 DEF Versioned
  <1>4. DataVersionIdentifiesSpec'
    BY DEF ToldInv, DataVersionIdentifiesSpec
  <1>. QED BY <1>2, <1>3, <1>4 DEF ToldInv, ToldOf

LEMMA TellWrite ==
  ASSUME TypeInv, TypeInv', ToldInv, NEW o \in CatalogCRs, NEW obj \in Object, Write(o, obj),
         edits' = edits, store[o] # NoObject, obj.uid = store[o].uid,
         \/ obj.status = store[o].status
         \/ obj.status.dataVersion = store[o].status.dataVersion + 1 /\ obj.status.seen = obj.gen
  PROVE  ToldInv'
  <1>. DEFINE v == obj.status.dataVersion
              new == <<o, obj.uid, v, obj.gen>>
              ready == obj.status.ready /\ obj.status.seen = obj.gen
  <1>1. edits \in Nat /\ o \in Objects /\ \A p \in CatalogCRs : p \in Objects
    BY Bounds DEF Objects
  <1>2. store'[o] = obj /\ \A p \in CatalogCRs \ {o} : store'[p] = store[p]
    BY <1>1, PutTable DEF Write
  <1>3. told' = IF ready THEN told \cup {new} ELSE told
    BY DEF Write, Tell
  <1>4. ToldOf(o, store[o])
    BY DEF ToldInv
  <1>5. store[o] \in Object /\ store[o].status.dataVersion \in Nat /\ v \in Nat
    BY <1>1 DEF TypeInv, OperatorTypeOK, Object, Status
  <1>6. \A x \in told : x[1] = o /\ x[2] = obj.uid =>
           x[3] <= v /\ (x[3] = v => x[4] = obj.status.seen)
    <2>1. CASE obj.status = store[o].status
      BY <1>4, <2>1 DEF ToldOf
    <2>2. CASE v = store[o].status.dataVersion + 1
      BY <1>4, <1>5, <2>2, ToldTypes DEF ToldOf
    <2>. QED BY <2>1, <2>2
  <1>7. obj.uid <= edits
    BY <1>4 DEF ToldOf
  <1>8. new[1] = o /\ new[2] = obj.uid /\ new[3] = v /\ new[4] = obj.gen
    OBVIOUS
  <1>. HIDE DEF new, v, ready
  <1>9. \A x \in told' : x \in told \/ (x = new /\ ready)
    BY <1>3
  <1>10. \A x \in told' : x[2] <= edits'
    BY <1>7, <1>8, <1>9 DEF ToldInv
  <1>11. \A x \in told' : x[1] = o /\ x[2] = obj.uid =>
            x[3] <= v /\ (x[3] = v => x[4] = obj.status.seen)
    BY <1>5, <1>6, <1>8, <1>9 DEF ready
  <1>12. \A p \in CatalogCRs : store'[p] # NoObject => ToldOf(p, store[p])'
    <2>1. SUFFICES ASSUME NEW p \in CatalogCRs, store'[p] # NoObject
                   PROVE  ToldOf(p, store[p])'
      OBVIOUS
    <2>2. CASE p = o
      BY <1>2, <1>7, <1>11, <2>2 DEF ToldOf, v
    <2>3. CASE p # o
      <3>1. store'[p] = store[p] /\ ToldOf(p, store[p])
        BY <1>2, <2>1, <2>3 DEF ToldInv
      <3>2. \A x \in told' : x[1] = p => x \in told
        BY <1>8, <1>9, <2>3
      <3>. QED BY <3>1, <3>2 DEF ToldOf
    <2>. QED BY <2>2, <2>3
  <1>13. DataVersionIdentifiesSpec'
    <2>1. SUFFICES ASSUME NEW x \in told', NEW y \in told',
                          x[1] = y[1], x[2] = y[2], x[3] = y[3]
                   PROVE  x = y
      BY DEF DataVersionIdentifiesSpec
    <2>2. x \in told /\ y \in told => x = y
      BY <2>1 DEF ToldInv, DataVersionIdentifiesSpec
    <2>3. ASSUME NEW z \in told, ready, z[1] = o, z[2] = obj.uid, z[3] = v PROVE z = new
      <3>1. z[4] = obj.gen
        BY <1>6, <2>3 DEF ready
      <3>2. z = <<z[1], z[2], z[3], z[4]>>
        BY DEF TypeInv, OperatorTypeOK
      <3>. QED BY <2>3, <3>1, <3>2 DEF new
    <2>. QED BY <1>8, <1>9, <2>1, <2>2, <2>3
  <1>. QED BY <1>10, <1>12, <1>13 DEF ToldInv

(***************************************************************************)
(* A write to something other than a catalog tells nothing.                *)
(***************************************************************************)
LEMMA OtherWrite ==
  ASSUME TypeInv, TypeInv', ToldInv, NEW o \in Objects \ CatalogCRs, NEW obj \in Object,
         Put(o, obj), told' = told, edits' = edits
  PROVE  ToldInv'
  <1>1. edits \in Nat /\ CatalogCRs \subseteq Objects
    BY Bounds DEF Objects
  <1>2. \A p \in CatalogCRs : store'[p] = store[p]
    BY <1>1, PutTable
  <1>. QED BY <1>1, <1>2, TellNothing DEF Versioned

LEMMA QuietTold ==
  ASSUME TypeInv, TypeInv', ToldInv, store' = store, told' = told, edits <= edits'
  PROVE  ToldInv'
  BY TellNothing DEF Versioned

LEMMA EditTold == ASSUME TypeInv, TypeInv', ToldInv, Edits PROVE ToldInv'
  <1>0. PICK p \in Objects : \E obj : EditOf(p, obj) /\ Put(p, obj)
    BY EditCases
  <1>1. PICK obj : EditOf(p, obj) /\ Put(p, obj)
    BY <1>0
  <1>2. edits' = edits + 1 /\ told' = told /\ edits \in Nat /\ edits + 1 \in Nat
    BY EditCases, Bounds
  <1>3. obj \in Object \cup {NoObject}
    BY <1>1, EditObject
  <1>4. ASSUME NEW o \in CatalogCRs PROVE Versioned(o, store[o], store'[o])
    <2>1. o \in Resources /\ o \in Objects /\ o # "hub" /\ o \notin Operands
      BY Names DEF Resources
    <2>2. CASE o # p
      BY <1>1, <1>3, <2>1, <2>2, PutTable DEF Versioned
    <2>3. CASE o = p
      <3>1. store'[o] = obj
        BY <1>1, <1>3, <2>3, PutTable
      <3>2. CASE obj = NoObject
        BY <3>1, <3>2 DEF Versioned
      <3>3. CASE \E spec \in Specs : obj = New(edits + 1, spec)
        <4>1. obj.uid = edits + 1
          <5>1. PICK spec \in Specs : obj = New(edits + 1, spec)
            BY <3>3
          <5>. QED BY <1>2, <5>1, NewObject
        <4>. QED BY <1>2, <3>1, <4>1 DEF Versioned
      <3>4. CASE store[o] # NoObject /\ \E spec \in Specs : obj = Respec(store[o], spec)
        <4>1. store[o] \in Object
          BY <2>1, <3>4 DEF TypeInv, OperatorTypeOK
        <4>. QED BY <3>1, <3>4, <4>1, RespecObject DEF Versioned
      <3>. QED BY <1>1, <2>1, <2>3, <3>2, <3>3, <3>4 DEF EditOf
    <2>. QED BY <2>2, <2>3
  <1>. QED BY <1>2, <1>4, TellNothing

LEMMA ApplyTold == ASSUME TypeInv, TypeInv', ToldInv, Apply PROVE ToldInv'
  <1>. DEFINE o == Order[worker.step]
  <1>1. worker.at = "operands" /\ edits' = edits /\ o \in Operands /\ edits \in Nat
    BY ApplyCases, Bounds DEF Elsewhere
  <1>2. o \in Objects \ CatalogCRs
    BY <1>1, Names DEF Resources
  <1>3. CASE Untouched \/ Refused(o)
    <2>1. store' = store /\ told' = told
      BY <1>3 DEF Untouched, Refused
    <2>. QED BY <1>1, <2>1, QuietTold
  <1>4. CASE Write(o, Applied(Existing(o)))
    <2>1. Existing(o) \in Object \cup {NoObject}
      BY <1>2 DEF Existing, TypeInv, OperatorTypeOK
    <2>2. Applied(Existing(o)) \in Object
      BY <1>1, <2>1, AppliedIsObject
    <2>3. told' = told
      BY <1>2, <1>4 DEF Write, Tell
    <2>. QED BY <1>1, <1>2, <1>4, <2>2, <2>3, OtherWrite DEF Write
  <1>. QED BY <1>3, <1>4, ApplyCases

LEMMA OwnTold == ASSUME TypeInv, TypeInv', ToldInv, Own PROVE ToldInv'
  <1>1. worker.at = "own" /\ edits' = edits /\ edits \in Nat /\ worker.todo \subseteq Listed
    BY OwnCases, Bounds, WorkerIs DEF Elsewhere
  <1>2. PICK x \in worker.todo :
           \/ Refused(x[1])
           \/ Untouched
           \/ x[2] = store[x[1]] /\ Write(x[1], ItemOf(x))
    BY OwnCases
  <1>3. x[1] \in Objects /\ x[2] \in Object /\ x[2] # NoObject /\ ItemOf(x) \in Object
        /\ ItemOf(x).uid = x[2].uid /\ ItemOf(x).status = x[2].status
    BY <1>1, ResourceFacts, TendedItem, ObjectAbsentAssumption
  <1>4. CASE Untouched \/ Refused(x[1])
    <2>1. store' = store /\ told' = told
      BY <1>4 DEF Untouched, Refused
    <2>. QED BY <1>1, <2>1, QuietTold
  <1>5. CASE x[2] = store[x[1]] /\ Write(x[1], ItemOf(x)) /\ x[1] \in CatalogCRs
    BY <1>1, <1>3, <1>5, TellWrite
  <1>6. CASE Write(x[1], ItemOf(x)) /\ x[1] \notin CatalogCRs
    BY <1>1, <1>3, <1>6, OtherWrite DEF Write, Tell
  <1>. QED BY <1>2, <1>4, <1>5, <1>6

LEMMA SetStatusTold == ASSUME TypeInv, TypeInv', ToldInv, SetStatus PROVE ToldInv'
  <1>. DEFINE o == worker.item[1]
              obj == worker.item[2]
  <1>1. worker.at = "status" /\ edits' = edits /\ edits \in Nat
    BY SetStatusCases, Bounds DEF Elsewhere
  <1>2. o \in Objects /\ obj \in Object /\ obj # NoObject /\ NewItem \in Object
    BY <1>1, ItemFacts, ObjectAbsentAssumption
  <1>3. CASE Untouched \/ Refused(o)
    <2>1. store' = store /\ told' = told
      BY <1>3 DEF Untouched, Refused
    <2>. QED BY <1>1, <2>1, QuietTold
  <1>4. CASE Write(o, NewItem) /\ o \notin CatalogCRs
    BY <1>1, <1>2, <1>4, OtherWrite DEF Write, Tell
  <1>5. CASE /\ NewStatus(o, obj) # obj.status /\ obj = store[o]
             /\ Write(o, NewItem) /\ o \in CatalogCRs
    <2>1. NewItem = [obj EXCEPT !.status = NewStatus(o, obj)]
      BY DEF NewItem
    <2>. HIDE DEF o, obj
    <2>2. NewItem.uid = obj.uid /\ NewItem.gen = obj.gen /\ NewItem.status = NewStatus(o, obj)
      BY <1>2, <2>1, StatusObject
    <2>3. NewStatus(o, obj).dataVersion = obj.status.dataVersion + 1
          /\ NewStatus(o, obj).seen = obj.gen
      BY <1>2, <1>5, StatusObject
    <2>. QED BY <1>1, <1>2, <1>5, <2>2, <2>3, TellWrite
  <1>. QED BY <1>3, <1>4, <1>5, SetStatusCases

LEMMA ToldStep == ASSUME TypeInv, TypeInv', ToldInv, [Next]_vars PROVE ToldInv'
  <1>1. edits \in Nat /\ edits <= edits'
    BY Bounds, StepFollows
  <1>2. CASE Begin \/ List \/ ListDone
    BY <1>1, <1>2, QuietTold DEF Begin, List, ListDone, Untouched
  <1>3. CASE CallFails
    BY <1>1, <1>3, CallFailsCases, QuietTold DEF Untouched
  <1>4. CASE UpdateStatus
    <2>1. worker.at = "report" /\ edits' = edits /\ told' = told
          /\ (UNCHANGED <<store, dirty>> \/ Put("hub", Reported))
      BY <1>4, UpdateStatusCases DEF Elsewhere
    <2>2. "hub" \in Objects \ CatalogCRs /\ Reported \in Object
      BY <2>1, ReportedIsObject, Names DEF Resources
    <2>. QED BY <1>1, <2>1, <2>2, QuietTold, OtherWrite
  <1>5. CASE Down \/ Up \/ Calm \/ \E o \in Objects : Deliver(o)
    BY <1>1, <1>5, QuietTold DEF Down, Up, Calm, Still, Deliver
  <1>. QED BY <1>2, <1>3, <1>4, <1>5, EditTold, ApplyTold, OwnTold, SetStatusTold, NextCases
       DEF Operation, Step

LEMMA ToldInit == ASSUME OperatorInit PROVE ToldInv
  <1>1. \A o \in CatalogCRs : store[o] = NoObject
    BY Names DEF OperatorInit, Resources
  <1>. QED BY <1>1 DEF OperatorInit, ToldInv, DataVersionIdentifiesSpec

-----------------------------------------------------------------------------
(***************************************************************************)
(* Progress.  A copy that is behind its resource stays behind it.          *)
(***************************************************************************)
LEMMA StaysBehind ==
  ASSUME TypeInv, TypeInv', [Next]_vars, NEW o \in Resources, NEW c \in Object, Copied(o, c),
         Equal(c, store'[o])
  PROVE  Equal(c, store[o])
  <1>1. edits \in Nat /\ edits' \in Nat /\ Follows(o, store[o], store'[o])
    BY Bounds, StepFollows DEF TypeInv, OperatorTypeOK
  <1>2. store[o] \in Object \cup {NoObject} /\ store'[o] \in Object \cup {NoObject}
    BY Names DEF TypeInv, OperatorTypeOK
  <1>3. c.uid \in Nat /\ c.gen \in Nat /\ c.uid <= edits /\ CopyOf(o, c, store[o])
    BY DEF Object, Copied
  <1>. DEFINE old == store[o]
              new == store'[o]
  <1>4. new # NoObject /\ c # NoObject /\ c.uid = new.uid /\ c.gen = new.gen
    BY DEF Equal
  <1>5. old # NoObject => old.uid \in Nat /\ old.gen \in Nat
    BY <1>2 DEF Object
  <1>. HIDE DEF old, new
  <1>6. ~(edits < new.uid)
    BY <1>1, <1>3, <1>4
  <1>7. old # NoObject /\ new.uid = old.uid => ~(old.gen < new.gen)
    BY <1>3, <1>4, <1>5 DEF CopyOf, old
  <1>8. new = old \/ Tended(o, old, new)
    BY <1>1, <1>4, <1>6, <1>7 DEF Follows, old, new
  <1>. QED BY <1>4, <1>8 DEF Tended, Equal, old

LEMMA TriggersAre ==
  ASSUME TypeInv, NEW o \in Objects, NEW old \in Object \cup {NoObject},
         NEW new \in Object \cup {NoObject}
  PROVE  /\ o \in {"hub"} \cup Watched => Triggers(o, old, new)
         /\ o \in Resources => (Triggers(o, old, new) <=> ~Equal(old, new))
         /\ Triggers(o, old, new) => o \in {"hub"} \cup Watched \cup Resources
  BY Names DEF Triggers, Equal, Resources

LEMMA ComingStays ==
  ASSUME TypeInv, TypeInv', CopyInv, [Next]_vars, Edits \/ WorkerStep \/ Calm, Coming,
         queued => queued'
  PROVE  Coming'
  <1>1. /\ cache' = cache /\ running' = running /\ dirty \subseteq dirty'
    BY Tables
  <1>2. CASE ~running \/ queued
    BY <1>1, <1>2 DEF Coming
  <1>3. ASSUME NEW o \in Objects, Pending(o) PROVE Coming'
    <2>1. o \in dirty' /\ Triggers(o, cache[o], store[o])
      BY <1>1, <1>3 DEF Pending
    <2>2. /\ cache[o] \in Object \cup {NoObject} /\ store[o] \in Object \cup {NoObject}
          /\ store'[o] \in Object \cup {NoObject}
      BY DEF TypeInv, OperatorTypeOK
    <2>3. Triggers(o, cache[o], store'[o])
      <3>1. CASE o \in {"hub"} \cup Watched
        BY <2>2, <3>1, TriggersAre
      <3>2. CASE o \in Resources
        <4>1. ~Equal(cache[o], store[o])
          BY <2>1, <2>2, <3>2, TriggersAre
        <4>2. cache[o] # NoObject => Copied(o, cache[o])
          BY <3>2 DEF CopyInv
        <4>3. ~Equal(cache[o], store'[o])
          <5>1. CASE cache[o] = NoObject
            BY <5>1 DEF Equal
          <5>2. CASE cache[o] # NoObject
            BY <2>2, <3>2, <4>1, <4>2, <5>2, StaysBehind
          <5>. QED BY <5>1, <5>2
        <4>. QED BY <2>2, <3>2, <4>3, TriggersAre
      <3>. QED BY <2>1, <2>2, <3>1, <3>2, TriggersAre
    <2>4. Pending(o)'
      BY <1>1, <2>1, <2>3 DEF Pending
    <2>. QED BY <2>4 DEF Coming
  <1>. QED BY <1>2, <1>3 DEF Coming

(***************************************************************************)
(* When no reconciliation is coming, the copies are good.                  *)
(***************************************************************************)
LEMMA NothingComing ==
  ASSUME TypeInv, CopyInv, ~Coming
  PROVE  /\ running /\ ~queued
         /\ \A o \in {"hub"} \cup Watched : o \notin dirty /\ cache[o] = store[o]
         /\ \A o \in Resources : store[o] # NoObject => Equal(cache[o], store[o])
         /\ \A o \in Resources : cache[o] # NoObject => Equal(cache[o], store[o])
  <1>1. running /\ ~queued /\ \A o \in Objects : ~Pending(o)
    BY DEF Coming
  <1>2. \A o \in Objects \ {"routes"} : o \notin dirty => cache[o] = store[o]
    BY <1>1 DEF CopyInv
  <1>3. \A o \in Objects : cache[o] \in Object \cup {NoObject} /\ store[o] \in Object \cup {NoObject}
    BY DEF TypeInv, OperatorTypeOK
  <1>4. ASSUME NEW o \in {"hub"} \cup Watched PROVE o \notin dirty /\ cache[o] = store[o]
    <2>1. o \in Objects /\ o # "routes"
      BY Names
    <2>2. Triggers(o, cache[o], store[o])
      BY <1>3, <2>1, TriggersAre
    <2>. QED BY <1>1, <1>2, <2>1, <2>2 DEF Pending
  <1>5. ASSUME NEW o \in Resources
        PROVE  Equal(cache[o], store[o]) \/ (cache[o] = NoObject /\ store[o] = NoObject)
    <2>1. o \in Objects /\ o # "routes"
      BY Names
    <2>2. CASE o \notin dirty
      BY <1>2, <2>1, <2>2 DEF Equal
    <2>3. CASE o \in dirty
      BY <1>1, <1>3, <2>1, <2>3, TriggersAre DEF Pending
    <2>. QED BY <2>2, <2>3
  <1>. QED BY <1>1, <1>4, <1>5

(***************************************************************************)
(* Steps that leave the worker where it is.                                *)
(***************************************************************************)
LEMMA ProgressSame ==
  ASSUME TypeInv, Progress, worker' = worker, \A o \in Objects \ {"routes"} : store'[o] = store[o]
  PROVE  Progress'
  <1>1. store'["hub"] = store["hub"] /\ \A o \in Watched \cup Resources : store'[o] = store[o]
    BY Names
  <1>2. \A o \in VersionCRs \cup CatalogCRs : store'[o] = store[o]
    BY <1>1 DEF Resources
  <1>3. \A o : InPlace(o) => InPlace(o)'
    BY <1>1 DEF InPlace
  <1>4. \A o \in Resources : Done(o) => Done(o)'
    BY <1>1 DEF Done
  <1>5. OperandsDone => OperandsDone'
    BY <1>3 DEF OperandsDone
  <1>6. \A kind : Before(kind) => Before(kind)'
    BY <1>4, <1>5 DEF Before, Resources
  <1>7. Reconciled => Reconciled'
    BY <1>1, <1>2 DEF Reconciled
  <1>8. worker.at = "operands" =>
          /\ worker.env = store'["hub"].spec
          /\ \A i \in 1..(worker.step - 1) : InPlace(Order[i])'
    BY <1>1, <1>3 DEF Progress
  <1>9. worker.at \in {"versions", "catalogs"} => Before(worker.at)'
    BY <1>6 DEF Progress, Before
  <1>10. worker.at \in {"own", "status"} => Before(worker.kind)'
    BY <1>6 DEF Progress, Before
  <1>11. worker.at \in {"own", "status"} => \A x \in worker.todo : Equal(x[2], store'[x[1]])
    <2>1. worker.at \in {"own", "status"} => \A x \in worker.todo : x[1] \in Resources
      BY WorkerIs, ResourceFacts
    <2>. QED BY <1>1, <2>1 DEF Progress
  <1>12. worker.at = "status" =>
           Equal(worker.item[2], store'[worker.item[1]]) /\ worker.item[2].owned
    BY <1>1, ItemFacts DEF Progress
  <1>13. worker.at = "own" =>
           \A o \in ResourcesOf(worker.kind) : Done(o)' \/ o \in Remaining
    BY <1>4, ResourceFacts DEF Progress
  <1>14. worker.at = "status" =>
           \A o \in ResourcesOf(worker.kind) : Done(o)' \/ o \in Remaining \/ o = worker.item[1]
    BY <1>4, ResourceFacts DEF Progress
  <1>15. (worker.at = "report" /\ worker.ready => Reconciled')
         /\ (worker.at = "idle" /\ store'["hub"].status.ready => Reconciled')
    BY <1>1, <1>7 DEF Progress
  <1>16. Remaining' = Remaining
    BY DEF Remaining
  <1>. QED BY <1>8, <1>9, <1>10, <1>11, <1>12, <1>13, <1>14, <1>15, <1>16 DEF Progress

LEMMA EditComing ==
  ASSUME TypeInv, TypeInv', CopyInv, [Next]_vars, Edits, ~Coming, Progress
  PROVE  Coming' \/ Progress'
  <1>0. PICK p \in Objects : \E obj : EditOf(p, obj) /\ Put(p, obj)
    BY EditCases
  <1>1. PICK obj : EditOf(p, obj) /\ Put(p, obj)
    BY <1>0
  <1>2. /\ edits' = edits + 1 /\ edits \in Nat
        /\ cache' = cache /\ running' = running /\ worker' = worker /\ queued' = queued
    BY EditCases, Bounds
  <1>3. obj \in Object \cup {NoObject} /\ obj # store[p]
    BY <1>1, EditObject
  <1>4. /\ store'[p] = obj /\ (\A o \in Objects \ {p} : store'[o] = store[o])
        /\ p # "routes" => p \in dirty'
    BY <1>1, <1>3, PutTable
  <1>5. cache[p] \in Object \cup {NoObject} /\ store[p] \in Object \cup {NoObject}
    BY DEF TypeInv, OperatorTypeOK
  <1>6. ASSUME p # "routes", Triggers(p, cache[p], obj) PROVE Coming'
    BY <1>2, <1>4, <1>6 DEF Coming, Pending
  <1>7. CASE p = "routes"
    BY <1>2, <1>4, <1>7, ProgressSame
  <1>8. CASE p \in {"hub"} \cup Watched
    BY <1>3, <1>5, <1>6, <1>8, TriggersAre, Names
  <1>9. CASE p \in Resources
    <2>1. cache[p] # NoObject \/ store[p] # NoObject => Equal(cache[p], store[p])
      BY <1>9, NothingComing
    <2>2. ~Equal(cache[p], obj)
      <3>1. CASE obj = NoObject
        BY <3>1 DEF Equal
      <3>2. CASE store[p] = NoObject
        BY <2>1, <3>2 DEF Equal
      <3>3. CASE store[p] # NoObject /\ \E spec \in Specs : obj = Respec(store[p], spec)
        <4>1. store[p] \in Object /\ store[p].gen \in Nat
          BY <1>5, <3>3 DEF Object
        <4>2. obj.gen = store[p].gen + 1
          BY <3>3, <4>1, RespecObject
        <4>. QED BY <2>1, <3>3, <4>1, <4>2 DEF Equal
      <3>. QED BY <1>1, <1>9, <3>1, <3>2, <3>3, Names DEF EditOf
    <2>. QED BY <1>3, <1>5, <1>6, <1>9, <2>2, TriggersAre, Names
  <1>. QED BY <1>7, <1>8, <1>9, Names DEF Watched

LEMMA DeliverQuiet ==
  ASSUME TypeInv, QuietInv, NEW o \in Objects, Deliver(o)
  PROVE  QuietInv'
  <1>1. /\ store' = store /\ worker' = worker /\ running' = running
        /\ dirty' = dirty \ {o} /\ cache' = [cache EXCEPT ![o] = store[o]]
        /\ queued' = (queued \/ Triggers(o, cache[o], store[o]))
    BY DEF Deliver
  <1>2. CASE ~running \/ queued
    BY <1>1, <1>2 DEF QuietInv, Coming
  <1>3. ASSUME NEW p \in Objects, Pending(p) PROVE Coming'
    <2>1. CASE p = o
      BY <1>1, <1>3, <2>1 DEF Pending, Coming
    <2>2. CASE p # o
      <3>1. cache'[p] = cache[p]
        BY <1>1, <2>2 DEF TypeInv, OperatorTypeOK
      <3>. QED BY <1>1, <1>3, <2>2, <3>1 DEF Pending, Coming
    <2>. QED BY <2>1, <2>2
  <1>4. CASE Progress
    BY <1>1, <1>4, ProgressSame DEF QuietInv
  <1>. QED BY <1>2, <1>3, <1>4 DEF QuietInv, Coming

(***************************************************************************)
(* The worker's own steps, when no reconciliation is coming.               *)
(***************************************************************************)
LEMMA ReportsFailure ==
  ASSUME NEW step, NEW cause,
         worker' = [at |-> "report", ready |-> FALSE, step |-> step, cause |-> cause]
  PROVE  Progress'
  BY DEF Progress

LEMMA RefusedProgress == ASSUME NEW o, Refused(o) PROVE Progress'
  BY ReportsFailure DEF Refused, Report, Move

LEMMA BeginQuiet == ASSUME TypeInv, CopyInv, QuietInv, Begin PROVE QuietInv'
  <1>1. /\ store' = store /\ dirty' = dirty /\ cache' = cache /\ running' = running
        /\ worker' = IF cache["hub"] = NoObject THEN Idling
                       ELSE [at |-> "operands", env |-> cache["hub"].spec, step |-> 1]
    BY DEF Begin, Untouched, Elsewhere, Move
  <1>2. "hub" \in Objects /\ "hub" # "routes" /\ store["hub"] # NoObject
    BY Names DEF TypeInv, HubInv
  <1>3. CASE ~running
    BY <1>1, <1>3 DEF QuietInv, Coming
  <1>4. CASE "hub" \in dirty
    <2>1. Pending("hub")'
      BY <1>1, <1>4 DEF Pending, Triggers
    <2>. QED BY <1>2, <2>1 DEF QuietInv, Coming
  <1>5. CASE running /\ "hub" \notin dirty
    <2>1. cache["hub"] = store["hub"]
      BY <1>2, <1>5 DEF CopyInv
    <2>2. worker' = [at |-> "operands", env |-> store'["hub"].spec, step |-> 1]
      BY <1>1, <1>2, <2>1
    <2>3. Progress'
      <3>1. worker'.at = "operands" /\ worker'.env = store'["hub"].spec /\ worker'.step = 1
        BY <2>2
      <3>. QED BY <3>1 DEF Progress
    <2>. QED BY <2>3 DEF QuietInv
  <1>. QED BY <1>3, <1>4, <1>5

LEMMA ApplyProgress ==
  ASSUME TypeInv, TypeInv', CopyInv, Apply, ~Coming, Progress
  PROVE  Progress'
  <1>. SUFFICES ASSUME NEW o, o = Order[worker.step] PROVE Progress'
    OBVIOUS
  <1>1. worker.at = "operands" /\ o \in Operands /\ o \in Objects /\ o # "hub"
    BY ApplyCases, Names
  <1>2. worker.env = store["hub"].spec /\ worker.step \in 1..Len(Order) /\ Len(Order) \in Nat
        /\ \A i \in 1..(worker.step - 1) : InPlace(Order[i])
    BY <1>1, WorkerIs, Names DEF Progress
  <1>3. ASSUME worker' = AfterOperand, store'["hub"] = store["hub"],
               \A p \in Watched : InPlace(p) => InPlace(p)', InPlace(o)'
        PROVE  Progress'
    <2>1. \A i \in 1..worker.step : InPlace(Order[i])'
      <3>1. ASSUME NEW i \in 1..worker.step PROVE InPlace(Order[i])'
        <4>1. CASE i = worker.step
          BY <1>3, <4>1
        <4>2. CASE i # worker.step
          <5>1. InPlace(Order[i])
            BY <1>2, <4>2
          <5>. QED BY <1>3, <5>1 DEF InPlace
        <4>. QED BY <4>1, <4>2
      <3>. QED BY <3>1
    <2>2. CASE worker.step = Len(Order)
      <3>1. worker'.at = "versions"
        BY <1>1, <1>3, <2>2, NextWorker
      <3>2. \A p \in Watched : InPlace(p)'
        <4>1. SUFFICES ASSUME NEW p \in Watched PROVE InPlace(p)'
          OBVIOUS
        <4>2. PICK i \in 1..Len(Order) : p = Order[i]
          BY Names DEF Watched, Operands
        <4>. QED BY <2>1, <2>2, <4>2
      <3>3. Before("versions")'
        BY <3>2 DEF Before, OperandsDone
      <3>. QED BY <3>1, <3>3 DEF Progress
    <2>3. CASE worker.step # Len(Order)
      <3>1. worker'.at = "operands" /\ worker'.env = worker.env /\ worker'.step = worker.step + 1
        BY <1>1, <1>3, <2>3, NextWorker
      <3>2. worker'.step - 1 = worker.step
        BY <1>2, <3>1
      <3>3. worker'.env = store'["hub"].spec
        BY <1>2, <1>3, <3>1
      <3>. QED BY <2>1, <3>1, <3>2, <3>3 DEF Progress
    <2>. QED BY <2>2, <2>3
  <1>4. CASE Refused(o)
    BY <1>4, RefusedProgress
  <1>5. CASE /\ o \in Watched => cache[o] # NoObject /\ cache[o].spec = worker.env
             /\ worker' = AfterOperand /\ Untouched
    <2>1. o \in Watched => store[o] # NoObject /\ store[o].spec = worker.env
      BY <1>5, NothingComing
    <2>2. store' = store
      BY <1>5 DEF Untouched
    <2>. QED BY <1>2, <1>3, <1>5, <2>1, <2>2 DEF InPlace
  <1>6. CASE worker' = AfterOperand /\ Write(o, Applied(Existing(o)))
    <2>1. Existing(o) \in Object \cup {NoObject}
      BY <1>1 DEF Existing, TypeInv, OperatorTypeOK
    <2>2. Applied(Existing(o)) \in Object /\ Applied(Existing(o)).spec = worker.env
      BY <1>1, <2>1, AppliedIsObject
    <2>3. store'[o] = Applied(Existing(o)) /\ \A p \in Objects \ {o} : store'[p] = store[p]
      BY <1>1, <1>6, <2>2, PutTable DEF Write
    <2>4. store'["hub"] = store["hub"] /\ store'[o] # NoObject /\ store'[o].spec = worker.env
      BY <1>1, <2>2, <2>3, Names, ObjectAbsentAssumption
    <2>5. \A p \in Watched \ {o} : store'[p] = store[p]
      BY <2>3, Names
    <2>. QED BY <1>2, <1>3, <1>6, <2>4, <2>5 DEF InPlace
  <1>. QED BY <1>4, <1>5, <1>6, ApplyCases

LEMMA ListProgress ==
  ASSUME TypeInv, CopyInv, List, ~Coming, Progress
  PROVE  Progress'
  <1>. DEFINE names == IF worker.at = "versions" THEN VersionCRs ELSE CatalogCRs
              todo == {<<o, cache[o]>> : o \in {n \in names : cache[n] # NoObject}}
  <1>1. /\ worker.at \in {"versions", "catalogs"} /\ store' = store
        /\ worker' = [at |-> "own", kind |-> worker.at, todo |-> todo]
    BY DEF List, Move, Untouched
  <1>2. names = ResourcesOf(worker.at) /\ names \subseteq Resources
    BY DEF ResourcesOf, Resources
  <1>3. OperandsDone' /\ (worker.at = "catalogs" => \A o \in VersionCRs : Done(o)')
    BY <1>1 DEF Progress, Before, OperandsDone, InPlace, Done
  <1>4. \A x \in todo : Equal(x[2], store'[x[1]])
    BY <1>1, <1>2, NothingComing
  <1>5. \A o \in names : Done(o)' \/ o \in Remaining'
    <2>1. SUFFICES ASSUME NEW o \in names PROVE Done(o)' \/ o \in Remaining'
      OBVIOUS
    <2>2. CASE cache[o] = NoObject
      <3>1. store[o] = NoObject
        BY <1>2, <2>2, NothingComing DEF Equal
      <3>. QED BY <1>1, <3>1 DEF Done
    <2>3. CASE cache[o] # NoObject
      <3>1. <<o, cache[o]>> \in worker'.todo
        BY <1>1, <2>3
      <3>. QED BY <3>1 DEF Remaining
    <2>. QED BY <2>2, <2>3
  <1>6. worker'.at = "own" /\ worker'.kind = worker.at /\ worker'.todo = todo
    BY <1>1
  <1>. HIDE DEF todo, names
  <1>7. Before(worker.kind)'
    BY <1>3, <1>6 DEF Before
  <1>. QED BY <1>2, <1>4, <1>5, <1>6, <1>7 DEF Progress, ResourcesOf

LEMMA ListDoneProgress ==
  ASSUME TypeInv, ListDone, Progress
  PROVE  Progress'
  <1>1. worker.at = "own" /\ worker.todo = {} /\ store' = store
    BY DEF ListDone, Untouched
  <1>2. Before(worker.kind) /\ \A o \in ResourcesOf(worker.kind) : Done(o)
    BY <1>1 DEF Progress, Remaining
  <1>3. CASE worker.kind = "versions"
    <2>1. worker'.at = "catalogs"
      BY <1>3 DEF ListDone, Move
    <2>2. Before("catalogs")
      BY <1>2, <1>3 DEF Before, ResourcesOf
    <2>3. Before("catalogs")'
      BY <1>1, <2>2 DEF Before, OperandsDone, InPlace, Done
    <2>. QED BY <2>1, <2>3 DEF Progress
  <1>4. CASE worker.kind # "versions"
    <2>1. worker'.at = "report"
      BY <1>4 DEF ListDone, Move, Report
    <2>2. worker.kind = "catalogs"
      BY <1>1, <1>4, WorkerIs
    <2>3. Reconciled
      <3>1. \A o \in Watched : store[o] # NoObject /\ store[o].spec = store["hub"].spec
        BY <1>2 DEF Before, OperandsDone, InPlace
      <3>2. \A o \in VersionCRs : Done(o) /\ o \notin CatalogCRs
        BY <1>2, <2>2, OperatorAssumption DEF Before
      <3>3. \A o \in CatalogCRs : Done(o)
        BY <1>2, <2>2 DEF ResourcesOf
      <3>. QED BY <3>1, <3>2, <3>3 DEF Done, StatusDone, Reconciled
    <2>4. Reconciled'
      BY <1>1, <2>3 DEF Reconciled
    <2>. QED BY <2>1, <2>4 DEF Progress
  <1>. QED BY <1>3, <1>4

(***************************************************************************)
(* A step that tends one resource, or none, undoes nothing.                *)
(***************************************************************************)
Tends(o) ==
    /\ \A p \in Objects \ {o} : store'[p] = store[p]
    /\ store'[o] = store[o] \/ Tended(o, store[o], store'[o])

LEMMA Tending ==
  ASSUME TypeInv, NEW o \in Resources, Tends(o)
  PROVE  /\ OperandsDone => OperandsDone'
         /\ \A p \in Resources : Done(p) => Done(p)'
         /\ \A p \in Resources : \A c : Equal(c, store[p]) => Equal(c, store'[p])
  <1>1. \A p \in {"hub"} \cup Watched : store'[p] = store[p]
    BY Names DEF Tends
  <1>2. \A p \in Resources : store'[p] = store[p] \/ Tended(p, store[p], store'[p])
    BY Names DEF Tends
  <1>3. OperandsDone => OperandsDone'
    BY <1>1 DEF OperandsDone, InPlace
  <1>4. \A p \in Resources : Done(p) => Done(p)'
    BY <1>2 DEF Done, Tended
  <1>5. \A p \in Resources : \A c : Equal(c, store[p]) => Equal(c, store'[p])
    BY <1>2 DEF Equal, Tended
  <1>. QED BY <1>3, <1>4, <1>5

LEMMA WrittenTends ==
  ASSUME TypeInv, NEW o \in Resources, NEW obj \in Object, Write(o, obj),
         Tended(o, store[o], obj)
  PROVE  Tends(o) /\ store'[o] = obj
  <1>1. o \in Objects
    BY Names
  <1>. QED BY <1>1, PutTable DEF Write, Tends

LEMMA OwnProgress ==
  ASSUME TypeInv, Own, Progress
  PROVE  Progress'
  <1>1. worker.at = "own" /\ worker.todo \subseteq Listed
    BY OwnCases, WorkerIs
  <1>2. PICK x \in worker.todo :
           \/ Refused(x[1])
           \/ /\ worker' = [at |-> "status", kind |-> worker.kind,
                            item |-> <<x[1], ItemOf(x)>>, todo |-> worker.todo \ {x}]
              /\ \/ x[2] = ItemOf(x) /\ Untouched
                 \/ x[2] = store[x[1]] /\ Write(x[1], ItemOf(x))
    BY OwnCases
  <1>3. CASE Refused(x[1])
    BY <1>3, RefusedProgress
  <1>4. CASE worker' = [at |-> "status", kind |-> worker.kind,
                        item |-> <<x[1], ItemOf(x)>>, todo |-> worker.todo \ {x}]
    <2>1. x \in Listed /\ x[1] \in Resources /\ x[2] \in Object
      BY <1>1, ResourceFacts
    <2>2. /\ ItemOf(x) \in Object /\ ItemOf(x).owned /\ ItemOf(x).uid = x[2].uid
          /\ ItemOf(x).gen = x[2].gen /\ Tended(x[1], x[2], ItemOf(x))
      BY <2>1, TendedItem
    <2>3. Tends(x[1])
      <3>1. CASE Untouched
        BY <3>1 DEF Untouched, Tends
      <3>2. CASE x[2] = store[x[1]] /\ Write(x[1], ItemOf(x))
        BY <2>1, <2>2, <3>2, WrittenTends
      <3>. QED BY <1>2, <1>4, <3>1, <3>2 DEF Refused, Report, Move
    <2>4. /\ worker'.at = "status" /\ worker'.kind = worker.kind
          /\ worker'.todo = worker.todo \ {x}
          /\ worker'.item[1] = x[1] /\ worker'.item[2] = ItemOf(x)
      BY <1>4
    <2>5. /\ OperandsDone /\ (worker.kind = "catalogs" => \A o \in VersionCRs : Done(o))
          /\ \A y \in worker.todo : Equal(y[2], store[y[1]])
          /\ \A o \in ResourcesOf(worker.kind) : Done(o) \/ o \in Remaining
      BY <1>1 DEF Progress, Before
    <2>6. OperandsDone' /\ (worker.kind = "catalogs" => \A o \in VersionCRs : Done(o)')
      BY <2>1, <2>3, <2>5, Tending DEF Resources
    <2>7. Before(worker.kind)'
      BY <2>4, <2>6 DEF Before
    <2>8. \A y \in worker.todo : Equal(y[2], store'[y[1]])
      BY <1>1, <2>1, <2>3, <2>5, Tending, ResourceFacts
    <2>9. Equal(ItemOf(x), store'[x[1]])
      BY <2>2, <2>8, ObjectAbsentAssumption DEF Equal
    <2>10. \A o \in ResourcesOf(worker.kind) : Done(o)' \/ o \in Remaining' \/ o = x[1]
      <3>1. SUFFICES ASSUME NEW o \in ResourcesOf(worker.kind), o # x[1]
                     PROVE  Done(o)' \/ o \in Remaining'
        OBVIOUS
      <3>2. CASE Done(o)
        BY <2>1, <2>3, <3>2, Tending, ResourceFacts
      <3>3. CASE o \in Remaining
        <4>1. PICK y \in worker.todo : y[1] = o
          BY <3>3 DEF Remaining
        <4>2. y \in worker'.todo
          BY <2>4, <3>1, <4>1
        <4>. QED BY <4>1, <4>2 DEF Remaining
      <3>. QED BY <2>5, <3>2, <3>3
    <2>11. \A y \in worker'.todo : Equal(y[2], store'[y[1]])
      BY <2>4, <2>8
    <2>. QED BY <2>2, <2>4, <2>7, <2>9, <2>10, <2>11 DEF Progress, ResourcesOf
  <1>. QED BY <1>2, <1>3, <1>4

LEMMA SetStatusProgress ==
  ASSUME TypeInv, CopyInv, SetStatus, Progress
  PROVE  Progress'
  <1>1. worker.at = "status" /\ worker.todo \subseteq Listed
    BY SetStatusCases, WorkerIs
  <1>2. CASE Refused(worker.item[1])
    BY <1>2, RefusedProgress
  <1>3. CASE worker' = [at |-> "own", kind |-> worker.kind, todo |-> worker.todo]
    <2>1. SUFFICES ASSUME NEW o, NEW c, o = worker.item[1], c = worker.item[2] PROVE Progress'
      OBVIOUS
    <2>2. o \in Resources /\ c \in Object /\ NewItem \in Object
      BY <1>1, <2>1, ItemFacts
    <2>3. Tended(o, c, NewItem) /\ StatusDone(o, NewItem) /\ NewItem.owned = c.owned
      BY <1>1, <2>1, TendedStatus
    <2>4. \/ NewStatus(o, c) = c.status /\ Untouched
          \/ c = store[o] /\ Write(o, NewItem)
      BY <1>3, <2>1, SetStatusCases DEF Refused, Report, Move
    <2>5. /\ OperandsDone /\ (worker.kind = "catalogs" => \A p \in VersionCRs : Done(p))
          /\ \A y \in worker.todo : Equal(y[2], store[y[1]])
          /\ Equal(c, store[o]) /\ c.owned
          /\ \A p \in ResourcesOf(worker.kind) : Done(p) \/ p \in Remaining \/ p = o
      BY <1>1, <2>1 DEF Progress, Before
    <2>6. Tends(o) /\ Done(o)'
      <3>1. CASE NewStatus(o, c) = c.status /\ Untouched
        <4>1. CopyOf(o, c, store[o]) /\ StatusDone(o, c)
          BY <1>1, <2>1, <2>2, <3>1, StatusObject DEF CopyInv, Copied
        <4>2. store[o].owned /\ StatusDone(o, store[o])
          BY <2>5, <4>1 DEF CopyOf
        <4>. QED BY <3>1, <4>2 DEF Untouched, Tends, Done
      <3>2. CASE c = store[o] /\ Write(o, NewItem)
        <4>1. Tends(o) /\ store'[o] = NewItem
          BY <2>2, <2>3, <3>2, WrittenTends
        <4>. QED BY <2>3, <2>5, <4>1 DEF Done
      <3>. QED BY <2>4, <3>1, <3>2
    <2>7. /\ worker'.at = "own" /\ worker'.kind = worker.kind /\ worker'.todo = worker.todo
      BY <1>3
    <2>8. OperandsDone' /\ (worker.kind = "catalogs" => \A p \in VersionCRs : Done(p)')
      BY <2>2, <2>5, <2>6, Tending DEF Resources
    <2>9. Before(worker.kind)'
      BY <2>7, <2>8 DEF Before
    <2>10. \A y \in worker'.todo : Equal(y[2], store'[y[1]])
      BY <1>1, <2>2, <2>5, <2>6, <2>7, Tending, ResourceFacts
    <2>11. \A p \in ResourcesOf(worker.kind) : Done(p)' \/ p \in Remaining'
      <3>1. Remaining' = Remaining
        BY <2>7 DEF Remaining
      <3>. QED BY <2>2, <2>5, <2>6, <3>1, Tending, ResourceFacts
    <2>. QED BY <2>7, <2>9, <2>10, <2>11 DEF Progress, ResourcesOf
  <1>. QED BY <1>2, <1>3, SetStatusCases

LEMMA UpdateStatusProgress ==
  ASSUME TypeInv, UpdateStatus, Progress
  PROVE  Coming' \/ Progress'
  <1>1. worker.at = "report" /\ worker' = Idling
    BY UpdateStatusCases
  <1>2. CASE queued' = TRUE
    BY <1>2 DEF Coming
  <1>3. CASE Put("hub", Reported)
    <2>1. Reported \in Object /\ Reported.spec = store["hub"].spec
          /\ Reported.status.ready = worker.ready
      BY <1>1, ReportedIsObject
    <2>2. store'["hub"] = Reported /\ \A p \in Objects \ {"hub"} : store'[p] = store[p]
      BY <1>3, <2>1, PutTable, Names
    <2>3. \A p \in Watched \cup VersionCRs \cup CatalogCRs : store'[p] = store[p]
      BY <2>2, Names DEF Resources
    <2>4. Reconciled => Reconciled'
      BY <2>1, <2>2, <2>3 DEF Reconciled
    <2>5. store'["hub"].status.ready => Reconciled'
      BY <1>1, <2>1, <2>2, <2>4 DEF Progress
    <2>. QED BY <1>1, <2>5 DEF Progress, Idling
  <1>. QED BY <1>2, <1>3, UpdateStatusCases

LEMMA CallFailsProgress == ASSUME CallFails PROVE Coming' \/ Progress'
  BY CallFailsCases, ReportsFailure DEF Coming

LEMMA QuietStep ==
  ASSUME TypeInv, TypeInv', CopyInv, QuietInv, [Next]_vars
  PROVE  QuietInv'
  <1>1. CASE Begin
    BY <1>1, BeginQuiet
  <1>2. CASE WorkerStep /\ ~Begin
    <2>1. queued => queued'
      BY <1>2, ApplyCases, OwnCases, SetStatusCases, UpdateStatusCases, CallFailsCases
         DEF WorkerStep, Step, List, ListDone
    <2>2. CASE Coming
      BY <1>2, <2>1, <2>2, ComingStays DEF QuietInv
    <2>3. CASE ~Coming
      <3>1. Progress
        BY <2>3 DEF QuietInv
      <3>. QED BY <1>2, <2>3, <3>1, ApplyProgress, ListProgress, ListDoneProgress, OwnProgress,
                  SetStatusProgress, UpdateStatusProgress, CallFailsProgress
               DEF WorkerStep, Step, QuietInv
    <2>. QED BY <2>2, <2>3
  <1>3. CASE Edits
    <2>1. queued' = queued
      BY <1>3, EditCases
    <2>. QED BY <1>3, <2>1, ComingStays, EditComing DEF QuietInv
  <1>4. CASE Calm
    <2>1. queued' = queued /\ worker' = worker /\ store' = store
      BY <1>4 DEF Calm, Still
    <2>. QED BY <1>4, <2>1, ComingStays, ProgressSame DEF QuietInv
  <1>5. CASE Down \/ Up
    BY <1>5 DEF Down, Up, QuietInv, Coming
  <1>6. CASE \E o \in Objects : Deliver(o)
    BY <1>6, DeliverQuiet
  <1>. QED BY <1>1, <1>2, <1>3, <1>4, <1>5, <1>6, NextCases DEF Operation, WorkerStep

LEMMA QuietInit == ASSUME OperatorInit PROVE QuietInv
  <1>. DEFINE owned == [New(0, "development") EXCEPT !.owned = TRUE]
  <1>1. load \in Workloads /\ load.installed \in BOOLEAN
    BY OperatorAssumption DEF OperatorInit
  <1>2. Asked \in Object /\ Asked.spec = "development" /\ Asked.status.ready = load.installed
    BY <1>1, AskedIsObject
  <1>3. owned \in Object /\ owned.spec = "development"
    <2>1. "development" \in Specs /\ 0 \in Nat
      BY DEF Specs, Envs
    <2>. QED BY <2>1, NewObject
  <1>4. store = [o \in Objects |->
                  IF o = "hub" THEN Asked
                    ELSE IF o \in Watched /\ load.installed THEN owned ELSE NoObject]
    BY DEF OperatorInit
  <1>. HIDE DEF owned
  <1>5. store["hub"] = Asked /\ (\A o \in Resources : store[o] = NoObject)
        /\ (load.installed => \A o \in Watched : store[o] = owned)
    BY <1>4, Names
  <1>6. CASE load.installed
    <2>1. Reconciled
      BY <1>2, <1>3, <1>5, <1>6, ObjectAbsentAssumption DEF Reconciled, Resources
    <2>2. worker.at = "idle"
      BY DEF OperatorInit, Idling
    <2>. QED BY <2>1, <2>2 DEF QuietInv, Progress
  <1>7. CASE ~load.installed
    <2>1. "hub" \in dirty
      BY <1>7 DEF OperatorInit
    <2>2. Pending("hub")
      BY <2>1 DEF Pending, Triggers
    <2>. QED BY <2>2, Names DEF QuietInv, Coming
  <1>. QED BY <1>6, <1>7

-----------------------------------------------------------------------------
(***************************************************************************)
(* The invariant, and what it says.                                        *)
(***************************************************************************)
LEMMA Inductive == ASSUME IInv, [Next]_vars PROVE IInv'
  <1>1. TypeInv'
    BY TypeStep DEF IInv
  <1>. QED BY <1>1, CopyStep, ToldStep, QuietStep DEF IInv

LEMMA Invariant == Spec => []IInv
  <1>1. Init => IInv
    BY TypeInit, CopyInit, ToldInit, QuietInit DEF Init, IInv
  <1>2. IInv /\ [Next]_vars => IInv'
    BY Inductive
  <1>. QED BY <1>1, <1>2, PTL DEF Spec

(***************************************************************************)
(* The operator's variables have their types, in any cluster: the worker   *)
(* applies operands for an environment, and lists and adopts objects.      *)
(***************************************************************************)
THEOREM OperatorTypes == Spec => []OperatorTypeOK
  <1>1. IInv => OperatorTypeOK
    BY DEF IInv, TypeInv
  <1>. QED BY <1>1, Invariant, PTL

(***************************************************************************)
(* Of one incarnation of a Catalog resource, consumers never read two      *)
(* specs under one data version, whatever is edited, deleted and made      *)
(* again, refused or restarted while the operator writes its status.       *)
(***************************************************************************)
THEOREM DataVersions == Spec => []DataVersionIdentifiesSpec
  <1>1. IInv => DataVersionIdentifiesSpec
    BY DEF IInv, ToldInv
  <1>. QED BY <1>1, Invariant, PTL

(***************************************************************************)
(* When the operator has nothing to do and AssetHub is reported ready, the *)
(* operands it watches are what AssetHub asks for, and every resource is   *)
(* adopted and carries the status of its present spec.                     *)
(***************************************************************************)
THEOREM QuietIsDone == Spec => []QuietMeansDone
  <1>1. IInv => QuietMeansDone
    <2>1. SUFFICES ASSUME IInv, Quiet, store["hub"].status.ready PROVE Reconciled
      BY DEF QuietMeansDone
    <2>2. ~Coming
      BY <2>1 DEF Quiet, Coming, Pending
    <2>3. worker.at = "idle"
      BY <2>1 DEF Quiet, Idling
    <2>. QED BY <2>1, <2>2, <2>3 DEF IInv, QuietInv, Progress
  <1>. QED BY <1>1, Invariant, PTL

-----------------------------------------------------------------------------
(***************************************************************************)
(* The types of the other parts of the cluster: the plugins, and the       *)
(* requests for bindings and previews.                                     *)
(***************************************************************************)
LEMMA Counted == ASSUME TypeInv PROVE edits \in Nat
  BY OperatorAssumption DEF TypeInv, OperatorTypeOK

LEMMA WebhookTyped == ASSUME NEW r \in Plugin PROVE Webhook(r) \in Exporter
  BY DEF Plugin, Phases, Webhook, Exporter

LEMMA BuiltInTyped ==
  /\ Fresh \in [Plugins -> Exporter \cup {NoObject}]
  /\ Nothing \in [Plugins -> Plugin \cup {NoObject}]
  BY DEF Fresh, Nothing, Exporter

LEMMA PluginsInitTyped == ASSUME PluginsInit PROVE PluginsTypeOK
  <1>1. plugins \in [Plugins -> Plugin \cup {NoObject}]
    BY DEF PluginsInit, Plugin, Phases
  <1>2. seen \in [Plugins -> Plugin \cup {NoObject}]
    BY <1>1 DEF PluginsInit
  <1>3. registry \in [Plugins -> Exporter \cup {NoObject}]
    <2>1. ASSUME NEW p \in Plugins
          PROVE  (IF plugins[p] = NoObject THEN Fresh[p] ELSE Webhook(plugins[p]))
                   \in Exporter \cup {NoObject}
      BY <1>1, WebhookTyped, BuiltInTyped
    <2>. QED BY <2>1 DEF PluginsInit
  <1>4. /\ answers \in [Plugins -> Answers] /\ age \in [Plugins -> 0..StaleAfter + 1]
        /\ due \subseteq Plugins /\ probe \in [Plugins -> Plugin \cup {NoObject}]
    BY BuiltInTyped DEF PluginsInit, Answers, StaleAfter
  <1>. QED BY <1>1, <1>2, <1>3, <1>4 DEF PluginsTypeOK

LEMMA WritePluginTyped == ASSUME TypeInv, PluginsTypeOK, WritePlugin PROVE PluginsTypeOK'
  <1>1. PICK p \in Plugins, valid \in BOOLEAN :
          /\ plugins' = [plugins EXCEPT ![p] =
               IF @ = NoObject
                 THEN [uid |-> edits + 1, spec |-> edits + 1, valid |-> valid, phase |-> "none"]
                 ELSE [@ EXCEPT !.spec = edits + 1, !.valid = valid]]
          /\ due' = Triggered(p)
          /\ UNCHANGED <<answers, age, probe, seen, registry>>
    BY DEF WritePlugin
  <1>. DEFINE new == IF plugins[p] = NoObject
                 THEN [uid |-> edits + 1, spec |-> edits + 1, valid |-> valid, phase |-> "none"]
                 ELSE [plugins[p] EXCEPT !.spec = edits + 1, !.valid = valid]
  <1>2. plugins' = [plugins EXCEPT ![p] = new]
    BY <1>1
  <1>3. new \in Plugin
    <2>1. plugins[p] \in Plugin \cup {NoObject} /\ edits + 1 \in Nat
      BY Counted DEF PluginsTypeOK
    <2>. QED BY <2>1 DEF Plugin, Phases
  <1>. HIDE DEF new
  <1>4. due' \subseteq Plugins
    BY <1>1 DEF Triggered, PluginsTypeOK
  <1>. QED BY <1>1, <1>2, <1>3, <1>4 DEF PluginsTypeOK

LEMMA PluginWriteTyped ==
  ASSUME PluginsTypeOK, DeletePlugin \/ ChangeAnswer \/ Interval
  PROVE  PluginsTypeOK'
  <1>1. CASE DeletePlugin
    BY <1>1 DEF PluginsTypeOK, DeletePlugin, Triggered, StaleAfter
  <1>2. CASE ChangeAnswer
    BY <1>2 DEF PluginsTypeOK, ChangeAnswer
  <1>3. CASE Interval
    <2>1. \A p \in Plugins :
            (IF plugins[p] = NoObject \/ age[p] > StaleAfter THEN age[p] ELSE age[p] + 1)
               \in 0..StaleAfter + 1
      BY DEF PluginsTypeOK, StaleAfter
    <2>2. age' \in [Plugins -> 0..StaleAfter + 1]
      BY <1>3, <2>1 DEF Interval
    <2>3. due' \subseteq Plugins /\ UNCHANGED <<plugins, answers, probe, seen, registry>>
      BY <1>3 DEF Interval, PluginsTypeOK
    <2>. QED BY <2>2, <2>3 DEF PluginsTypeOK
  <1>. QED BY <1>1, <1>2, <1>3

LEMMA ProbeTyped ==
  ASSUME PluginsTypeOK, NEW p \in Plugins, ProbeStart(p) \/ ProbeEnd(p)
  PROVE  PluginsTypeOK'
  <1>1. CASE ProbeStart(p)
    <2>1. plugins[p] \in Plugin \cup {NoObject}
      BY DEF PluginsTypeOK
    <2>2. CASE plugins[p] # NoObject /\ Stale(p)
      <3>1. [plugins[p] EXCEPT !.phase = "Unknown"] \in Plugin
        BY <2>1, <2>2 DEF Plugin, Phases
      <3>2. plugins' = [plugins EXCEPT ![p] = [plugins[p] EXCEPT !.phase = "Unknown"]]
            /\ UNCHANGED <<due, probe, answers, age, seen, registry>>
        BY <1>1, <2>2 DEF ProbeStart
      <3>. QED BY <3>1, <3>2 DEF PluginsTypeOK
    <2>3. CASE ~(plugins[p] # NoObject /\ Stale(p))
      <3>1. due' = due \ {p} /\ probe' = [probe EXCEPT ![p] = plugins[p]]
            /\ UNCHANGED <<plugins, answers, age, seen, registry>>
        BY <1>1, <2>3 DEF ProbeStart
      <3>. QED BY <2>1, <3>1 DEF PluginsTypeOK
    <2>. QED BY <2>2, <2>3
  <1>2. CASE ProbeEnd(p)
    <2>. DEFINE new == [probe[p] EXCEPT !.phase = Classify(answers[p])]
    <2>1. new \in Plugin
      <3>1. probe[p] \in Plugin /\ answers[p] \in Answers
        BY <1>2 DEF ProbeEnd, PluginsTypeOK
      <3>2. Classify(answers[p]) \in Phases
        BY <3>1 DEF Classify, Answers, Phases
      <3>. QED BY <3>1, <3>2 DEF Plugin
    <2>2. probe' = [probe EXCEPT ![p] = NoObject] /\ UNCHANGED <<answers, seen, registry>>
      BY <1>2 DEF ProbeEnd
    <2>3. \/ UNCHANGED <<plugins, age, due>>
          \/ /\ plugins' = [plugins EXCEPT ![p] = new] /\ age' = [age EXCEPT ![p] = 0]
             /\ due' \in {due, due \cup {p}}
      BY <1>2 DEF ProbeEnd
    <2>. HIDE DEF new
    <2>. QED BY <2>1, <2>2, <2>3 DEF PluginsTypeOK, StaleAfter
  <1>. QED BY <1>1, <1>2

LEMMA HandleTyped == ASSUME PluginsTypeOK, NEW p \in Plugins, Handle(p) PROVE PluginsTypeOK'
  <1>1. plugins[p] \in Plugin \cup {NoObject}
    BY DEF PluginsTypeOK
  <1>2. UNCHANGED <<plugins, answers, age, due, probe>>
    BY DEF Handle
  <1>3. CASE plugins[p] # NoObject /\ RegisterWebhook(p, plugins[p])
             /\ seen' = [seen EXCEPT ![p] = plugins[p]]
    <2>1. Webhook(plugins[p]) \in Exporter
      BY <1>1, <1>3, WebhookTyped
    <2>2. registry' \in {registry, [registry EXCEPT ![p] = Webhook(plugins[p])]}
      BY <1>3 DEF RegisterWebhook
    <2>. QED BY <1>1, <1>2, <1>3, <2>1, <2>2 DEF PluginsTypeOK
  <1>4. CASE Deregister(p) /\ seen' = [seen EXCEPT ![p] = NoObject]
    BY <1>2, <1>4 DEF Deregister, PluginsTypeOK
  <1>. QED BY <1>3, <1>4 DEF Handle

LEMMA PluginsTyped == ASSUME TypeInv, PluginsTypeOK, PluginsNext PROVE PluginsTypeOK'
  <1>1. CASE UNCHANGED pluginVars
    BY <1>1 DEF pluginVars, PluginsTypeOK
  <1>2. CASE DownPlugins
    BY <1>2, BuiltInTyped DEF DownPlugins, PluginsTypeOK
  <1>3. CASE UpPlugins
    BY <1>3 DEF UpPlugins, PluginsTypeOK
  <1>. QED
    BY <1>1, <1>2, <1>3, WritePluginTyped, PluginWriteTyped, ProbeTyped, HandleTyped
    DEF PluginsNext

-----------------------------------------------------------------------------
(***************************************************************************)
(* Requests.  A request moves from one well-typed state to another; the    *)
(* rows it writes are typed when it has read or made them.                 *)
(***************************************************************************)
LEMMA CallsTyped ==
  ASSUME ExportTypeOK, NEW q \in Callers, NEW c \in Call, Goto(q, c)
  PROVE  calls' \in [Callers -> Call]
  BY DEF ExportTypeOK, Goto

LEMMA IdleTyped == IdleCall \in Call
  BY DEF IdleCall, Call

LEMMA CallIs ==
  ASSUME ExportTypeOK, NEW q \in Callers
  PROVE  /\ calls[q].op = "publish" => calls[q].session \in Session \cup {NoObject}
         /\ calls[q].op \in {"insert", "save"} => calls[q].b \in Bindings /\ calls[q].row \in Row
         /\ calls[q].op = "preview" => /\ calls[q] \in [op : {"preview"},
                                             todo : [Bindings -> Row \cup {NoObject}], session : Session]
                                       /\ calls[q].todo \in [Bindings -> Row \cup {NoObject}]
                                       /\ calls[q].session \in Session
         /\ calls[q].op \in {"reset", "resetPins"} => calls[q].id \in Nat
         /\ calls[q].op = "setStatus" => calls[q].id \in Nat /\ calls[q].valid \in BOOLEAN
         /\ calls[q].op = "delete" => /\ calls[q] \in [op : {"delete"}, id : Nat, step : 1..2]
                                      /\ calls[q].id \in Nat /\ calls[q].step \in 1..2
  <1>1. calls[q] \in Call
    BY DEF ExportTypeOK
  <1>. QED BY <1>1 DEF Call

LEMMA SaveTyped ==
  ASSUME ExportTypeOK, NEW b \in Bindings, NEW row \in Row, SaveBinding(b, row)
  PROVE  bindings' \in [Bindings -> Row \cup {NoObject}] /\ late' \subseteq Bindings
  BY DEF ExportTypeOK, SaveBinding

LEMMA RowTyped ==
  ASSUME ExportTypeOK, RowKept \/ \E row \in Catalog : Touch(row)
  PROVE  catalog' \in Catalog \cup {NoObject} /\ clock' \in Nat /\ unmarked' \in BOOLEAN
  <1>1. CASE RowKept
    BY <1>1 DEF RowKept, ExportTypeOK
  <1>2. ASSUME NEW row \in Catalog, Touch(row)
        PROVE  catalog' \in Catalog \cup {NoObject} /\ clock' \in Nat /\ unmarked' \in BOOLEAN
    <2>1. clock + 1 \in Nat
      BY DEF ExportTypeOK
    <2>. QED BY <1>2, <2>1 DEF Touch, Tick, Catalog
  <1>. QED BY <1>1, <1>2

LEMMA BindingCallsTyped ==
  ASSUME TypeInv, PluginsTypeOK, ExportTypeOK, NEW q \in Callers,
         CreateBinding(q) \/ UpdateBinding(q) \/ RunBinding(q) \/ WriteBinding(q) \/ DeleteBinding(q)
  PROVE  ExportTypeOK'
  <1>1. CASE CreateBinding(q)
    <2>1. PICK b \in Bindings \ spent, p \in Plugins :
            /\ spent' = spent \cup {b}
            /\ Goto(q, [op |-> "insert", b |-> b, row |->
                 [of |-> catalog.id, exporter |-> p, params |-> 0, enabled |-> TRUE, last |-> "never"]])
      BY <1>1 DEF CreateBinding
    <2>2. catalog.id \in Nat
      BY <1>1 DEF CreateBinding, ExportTypeOK, Catalog
    <2>3. [op |-> "insert", b |-> b, row |->
             [of |-> catalog.id, exporter |-> p, params |-> 0, enabled |-> TRUE, last |-> "never"]] \in Call
      BY <2>2 DEF Call, Row, Runs
    <2>4. UNCHANGED <<catalog, bindings, sessions, clock, unmarked, late>>
      BY <1>1 DEF CreateBinding, Start
    <2>. QED BY <2>1, <2>3, <2>4, CallsTyped DEF ExportTypeOK
  <1>2. CASE UpdateBinding(q)
    <2>1. PICK b \in Bindings : Mine(b) /\
            \E row \in {[bindings[b] EXCEPT !.params = edits + 1],
                        [bindings[b] EXCEPT !.enabled = ~@]} :
               Goto(q, [op |-> "save", b |-> b, row |-> row])
      BY <1>2 DEF UpdateBinding
    <2>2. bindings[b] \in Row /\ edits + 1 \in Nat
      BY <2>1, Counted DEF Mine, ExportTypeOK
    <2>3. PICK row \in {[bindings[b] EXCEPT !.params = edits + 1],
                        [bindings[b] EXCEPT !.enabled = ~@]} :
               Goto(q, [op |-> "save", b |-> b, row |-> row])
      BY <2>1
    <2>4. row \in Row
      BY <2>2, <2>3 DEF Row
    <2>5. [op |-> "save", b |-> b, row |-> row] \in Call
      BY <2>4 DEF Call
    <2>6. UNCHANGED <<catalog, bindings, spent, sessions, clock, unmarked, late>>
      BY <1>2 DEF UpdateBinding, Start
    <2>. QED BY <2>3, <2>5, <2>6, CallsTyped DEF ExportTypeOK
  <1>3. CASE RunBinding(q)
    <2>1. PICK b \in Bindings, ok \in BOOLEAN : Mine(b)
            /\ Goto(q, [op |-> "save", b |-> b, row |-> [bindings[b] EXCEPT !.last = RanAs(ok)]])
      BY <1>3 DEF RunBinding
    <2>2. [bindings[b] EXCEPT !.last = RanAs(ok)] \in Row
      BY <2>1 DEF Mine, ExportTypeOK, Row, RanAs, Runs
    <2>3. [op |-> "save", b |-> b, row |-> [bindings[b] EXCEPT !.last = RanAs(ok)]] \in Call
      BY <2>2 DEF Call
    <2>4. UNCHANGED <<catalog, bindings, spent, sessions, clock, unmarked, late>>
      BY <1>3 DEF RunBinding, Start
    <2>. QED BY <2>1, <2>3, <2>4, CallsTyped DEF ExportTypeOK
  <1>4. CASE WriteBinding(q)
    <2>1. calls[q].b \in Bindings /\ calls[q].row \in Row
      BY <1>4, CallIs DEF WriteBinding, At, Within
    <2>2. bindings' \in [Bindings -> Row \cup {NoObject}] /\ late' \subseteq Bindings
      BY <1>4, <2>1, SaveTyped DEF WriteBinding
    <2>3. Goto(q, IdleCall) /\ UNCHANGED <<catalog, spent, sessions, clock, unmarked>>
      BY <1>4 DEF WriteBinding
    <2>. QED BY <2>2, <2>3, IdleTyped, CallsTyped DEF ExportTypeOK
  <1>5. CASE DeleteBinding(q)
    BY <1>5 DEF DeleteBinding, Start, ExportTypeOK
  <1>. QED BY <1>1, <1>2, <1>3, <1>4, <1>5

LEMMA PreviewCallsTyped ==
  ASSUME ExportTypeOK, NEW q \in Callers,
         PublishPreview(q) \/ ExecuteBinding(q) \/ StorePreview(q) \/ PublishCatalog(q) \/ Publish(q)
  PROVE  ExportTypeOK'
  <1>1. CASE PublishPreview(q)
    <2>. DEFINE todo == [b \in Bindings |-> IF Mine(b) /\ bindings[b].enabled
                                              THEN bindings[b] ELSE NoObject]
                session == [stamp |-> catalog.stamp, made |-> NoArtifacts]
    <2>1. todo \in [Bindings -> Row \cup {NoObject}]
      BY DEF ExportTypeOK
    <2>2. session \in Session
      BY <1>1 DEF PublishPreview, ExportTypeOK, Catalog, Session, NoArtifacts
    <2>3. Goto(q, [op |-> "preview", todo |-> todo, session |-> session])
          /\ UNCHANGED <<catalog, bindings, spent, sessions, clock, unmarked, late>>
      BY <1>1 DEF PublishPreview, Start
    <2>. HIDE DEF todo, session
    <2>4. [op |-> "preview", todo |-> todo, session |-> session] \in Call
      BY <2>1, <2>2 DEF Call
    <2>. QED BY <2>3, <2>4, CallsTyped DEF ExportTypeOK
  <1>2. CASE ExecuteBinding(q)
    <2>1. calls[q] \in [op : {"preview"}, todo : [Bindings -> Row \cup {NoObject}], session : Session]
      BY <1>2, CallIs DEF ExecuteBinding, At, Within
    <2>2. PICK b \in Bindings, result \in {"unavailable", "failed", "success"} :
            /\ calls[q].todo[b] # NoObject
            /\ Goto(q, [calls[q] EXCEPT !.todo[b] = NoObject,
                   !.session = IF result = "success" THEN Exported(calls[q].session, b)
                                 ELSE calls[q].session])
            /\ IF result = "unavailable" THEN UNCHANGED <<bindings, late>>
                 ELSE SaveBinding(b, [calls[q].todo[b] EXCEPT !.last = RanAs(result = "success")])
      BY <1>2 DEF ExecuteBinding
    <2>. DEFINE session == IF result = "success" THEN Exported(calls[q].session, b)
                             ELSE calls[q].session
                c == [calls[q] EXCEPT !.todo[b] = NoObject, !.session = session]
    <2>3. session \in Session
      BY <2>1 DEF Exported, Session, ExportTypeOK, Catalog
    <2>4. Goto(q, c)
      BY <2>2
    <2>5. c \in Call
      <3>. HIDE DEF session
      <3>. QED BY <2>1, <2>3 DEF Call
    <2>. HIDE DEF c, session
    <2>6. bindings' \in [Bindings -> Row \cup {NoObject}] /\ late' \subseteq Bindings
      <3>1. CASE result = "unavailable"
        BY <2>2, <3>1 DEF ExportTypeOK
      <3>2. CASE result # "unavailable"
        <4>1. [calls[q].todo[b] EXCEPT !.last = RanAs(result = "success")] \in Row
          BY <2>1, <2>2 DEF Row, RanAs, Runs
        <4>. QED BY <2>2, <3>2, <4>1, SaveTyped
      <3>. QED BY <3>1, <3>2
    <2>7. UNCHANGED <<catalog, spent, sessions, clock, unmarked>>
      BY <1>2 DEF ExecuteBinding
    <2>. QED BY <2>4, <2>5, <2>6, <2>7, CallsTyped DEF ExportTypeOK
  <1>3. CASE StorePreview(q)
    <2>1. calls[q].session \in Session
      BY <1>3, CallIs DEF StorePreview, At, Within
    <2>2. sessions' = sessions \cup {calls[q].session} /\ Goto(q, IdleCall)
          /\ UNCHANGED <<catalog, bindings, spent, clock, unmarked, late>>
      BY <1>3 DEF StorePreview
    <2>. QED BY <2>1, <2>2, IdleTyped, CallsTyped DEF ExportTypeOK
  <1>4. CASE PublishCatalog(q)
    <2>1. PICK s \in sessions \cup {NoObject} :
            Goto(q, [op |-> "publish", session |-> s, at |-> catalog.stamp])
      BY <1>4 DEF PublishCatalog
    <2>2. s \in Session \cup {NoObject} /\ catalog.stamp \in Nat
      BY <1>4, <2>1 DEF PublishCatalog, ExportTypeOK, Catalog
    <2>3. [op |-> "publish", session |-> s, at |-> catalog.stamp] \in Call
      BY <2>2 DEF Call
    <2>4. UNCHANGED <<catalog, bindings, spent, sessions, clock, unmarked, late>>
      BY <1>4 DEF PublishCatalog, Start
    <2>. QED BY <2>1, <2>3, <2>4, CallsTyped DEF ExportTypeOK
  <1>5. CASE Publish(q)
    <2>1. RowKept \/ \E row \in Catalog : Touch(row)
      <3>1. catalog # NoObject => [catalog EXCEPT !.published = TRUE] \in Catalog
        BY DEF ExportTypeOK, Catalog
      <3>. QED BY <1>5, <3>1 DEF Publish
    <2>2. Goto(q, IdleCall) /\ UNCHANGED <<bindings, spent, sessions, late>>
      BY <1>5 DEF Publish
    <2>. QED BY <2>1, <2>2, RowTyped, IdleTyped, CallsTyped DEF ExportTypeOK
  <1>. QED BY <1>1, <1>2, <1>3, <1>4, <1>5

LEMMA ContentCallsTyped ==
  ASSUME ExportTypeOK, NEW q \in Callers,
         \/ EditInstance(q) \/ EditPins(q) \/ EditTypes(q) \/ RejectCreation(q)
         \/ Reset(q) \/ ResetFails(q) \/ Validate(q) \/ SetValidationStatus(q)
  PROVE  ExportTypeOK'
  <1>1. ASSUME NEW op, NEW then \in {"reset", "resetPins"}, ChangeContent(q, op, then)
        PROVE  ExportTypeOK'
    <2>1. catalog \in Catalog /\ clock \in Nat
      BY <1>1 DEF ChangeContent, ExportTypeOK
    <2>2. catalog' \in Catalog /\ clock' \in Nat
      BY <1>1, <2>1 DEF ChangeContent, Tick, Catalog
    <2>3. [op |-> then, id |-> catalog.id] \in Call
      BY <2>1 DEF Catalog, Call
    <2>4. Goto(q, [op |-> then, id |-> catalog.id])
          /\ UNCHANGED <<bindings, spent, sessions, unmarked, late>>
      BY <1>1 DEF ChangeContent, Start
    <2>. QED BY <2>2, <2>3, <2>4, CallsTyped DEF ExportTypeOK
  <1>2. CASE EditInstance(q) \/ EditPins(q)
    BY <1>1, <1>2 DEF EditInstance, EditPins
  <1>3. CASE Reset(q)
    <2>1. RowKept \/ \E row \in Catalog : Touch(row)
      <3>1. catalog # NoObject => [catalog EXCEPT !.valid = FALSE] \in Catalog
        BY DEF ExportTypeOK, Catalog
      <3>. QED BY <1>3, <3>1 DEF Reset, Marked, Exists
    <2>2. Goto(q, IdleCall) /\ UNCHANGED <<bindings, spent, sessions, late>>
      BY <1>3 DEF Reset
    <2>. QED BY <2>1, <2>2, RowTyped, IdleTyped, CallsTyped DEF ExportTypeOK
  <1>4. CASE ResetFails(q)
    BY <1>4, IdleTyped, CallsTyped DEF ResetFails, ExportTypeOK
  <1>5. CASE Validate(q)
    <2>1. PICK valid \in BOOLEAN :
            Goto(q, [op |-> "setStatus", id |-> catalog.id, valid |-> valid])
      BY <1>5 DEF Validate
    <2>2. [op |-> "setStatus", id |-> catalog.id, valid |-> valid] \in Call
      BY <1>5 DEF Validate, ExportTypeOK, Catalog, Call
    <2>3. UNCHANGED <<catalog, bindings, spent, sessions, clock, unmarked, late>>
      BY <1>5 DEF Validate, Start
    <2>. QED BY <2>1, <2>2, <2>3, CallsTyped DEF ExportTypeOK
  <1>6. CASE SetValidationStatus(q)
    <2>1. RowKept \/ \E row \in Catalog : Touch(row)
      <3>1. calls[q].valid \in BOOLEAN
        BY <1>6, CallIs DEF SetValidationStatus, At, Within
      <3>2. catalog # NoObject => [catalog EXCEPT !.valid = calls[q].valid] \in Catalog
        BY <3>1 DEF ExportTypeOK, Catalog
      <3>. QED BY <1>6, <3>2 DEF SetValidationStatus, Exists
    <2>2. Goto(q, IdleCall) /\ UNCHANGED <<bindings, spent, sessions, late>>
      BY <1>6 DEF SetValidationStatus
    <2>. QED BY <2>1, <2>2, RowTyped, IdleTyped, CallsTyped DEF ExportTypeOK
  <1>7. ASSUME NEW op, ChangeUnmarked(q, op) PROVE ExportTypeOK'
    <2>1. catalog' \in Catalog /\ clock' \in Nat
      BY <1>7 DEF ChangeUnmarked, Tick, Catalog, ExportTypeOK
    <2>. QED BY <1>7, <2>1 DEF ChangeUnmarked, ExportTypeOK
  <1>8. CASE EditTypes(q) \/ RejectCreation(q)
    BY <1>7, <1>8 DEF EditTypes, RejectCreation
  <1>. QED BY <1>2, <1>3, <1>4, <1>5, <1>6, <1>8

LEMMA CatalogCallsTyped ==
  ASSUME ExportTypeOK,
         CreateCatalog \/ \E q \in Callers : DeleteCatalog(q) \/ DeleteBindings(q) \/ DeleteRow(q)
  PROVE  ExportTypeOK'
  <1>1. CASE CreateCatalog
    <2>1. catalog' \in Catalog /\ clock' \in Nat
      BY <1>1 DEF CreateCatalog, Tick, Catalog, ExportTypeOK
    <2>. QED BY <1>1, <2>1 DEF CreateCatalog, ExportTypeOK
  <1>2. ASSUME NEW q \in Callers, DeleteCatalog(q) PROVE ExportTypeOK'
    <2>1. [op |-> "delete", id |-> catalog.id, step |-> 1] \in Call
      BY <1>2 DEF DeleteCatalog, ExportTypeOK, Catalog, Call
    <2>2. Goto(q, [op |-> "delete", id |-> catalog.id, step |-> 1])
          /\ UNCHANGED <<catalog, bindings, spent, sessions, clock, unmarked, late>>
      BY <1>2 DEF DeleteCatalog, Start
    <2>. QED BY <2>1, <2>2, CallsTyped DEF ExportTypeOK
  <1>3. ASSUME NEW q \in Callers, calls[q].op = "delete", NextStep(q)
        PROVE  calls' \in [Callers -> Call]
    <2>1. calls[q] \in [op : {"delete"}, id : Nat, step : 1..2]
      BY <1>3, CallIs
    <2>2. [calls[q] EXCEPT !.step = 2] \in Call
      BY <2>1 DEF Call
    <2>. QED BY <1>3, <2>2, IdleTyped, CallsTyped DEF NextStep
  <1>4. ASSUME NEW q \in Callers, DeleteBindings(q) PROVE ExportTypeOK'
    <2>1. calls' \in [Callers -> Call]
      BY <1>3, <1>4 DEF DeleteBindings, Within
    <2>2. bindings' \in [Bindings -> Row \cup {NoObject}] /\ late' \subseteq Bindings
      BY <1>4 DEF DeleteBindings, ExportTypeOK, OfCatalog
    <2>. QED BY <1>4, <2>1, <2>2 DEF DeleteBindings, ExportTypeOK
  <1>5. ASSUME NEW q \in Callers, DeleteRow(q) PROVE ExportTypeOK'
    <2>1. calls' \in [Callers -> Call]
      BY <1>3, <1>5 DEF DeleteRow, At, Within
    <2>2. late' \subseteq Bindings
      BY <1>5 DEF DeleteRow, ExportTypeOK, OfCatalog
    <2>. QED BY <1>5, <2>1, <2>2 DEF DeleteRow, ExportTypeOK
  <1>. QED BY <1>1, <1>2, <1>4, <1>5

LEMMA ExportInitTyped == ASSUME ExportInit PROVE ExportTypeOK
  <1>. DEFINE some == "catalog" \in load.does
  <1>1. catalog \in Catalog \cup {NoObject}
    BY DEF ExportInit, Catalog
  <1>2. spent \subseteq Bindings
    BY BindingsAssumption DEF ExportInit
  <1>3. PICK p \in Plugins :
          bindings = [x \in Bindings |-> IF x \in spent
             THEN [of |-> 1, exporter |-> p, params |-> 0, enabled |-> TRUE, last |-> "never"]
             ELSE NoObject]
    BY DEF ExportInit
  <1>4. bindings \in [Bindings -> Row \cup {NoObject}]
    BY <1>3 DEF Row, Runs
  <1>5. calls \in [Callers -> Call]
    BY IdleTyped DEF ExportInit
  <1>. QED BY <1>1, <1>2, <1>4, <1>5 DEF ExportInit, ExportTypeOK

LEMMA RequestTyped ==
  ASSUME TypeInv, PluginsTypeOK, ExportTypeOK, Requests
  PROVE  ExportTypeOK'
  <1>1. ASSUME NEW q \in Callers, Request(q) PROVE ExportTypeOK'
    BY <1>1, BindingCallsTyped, PreviewCallsTyped, ContentCallsTyped, CatalogCallsTyped DEF Request
  <1>2. CASE Expire
    BY <1>2 DEF Expire, ExportTypeOK
  <1>. QED BY <1>1, <1>2, CatalogCallsTyped DEF Requests

LEMMA RestartTyped ==
  ASSUME PluginsTypeOK, ExportTypeOK, RestartAll
  PROVE  PluginsTypeOK' /\ ExportTypeOK'
  <1>1. PluginsTypeOK'
    BY BuiltInTyped DEF RestartAll, RestartServer, PluginsTypeOK
  <1>2. ExportTypeOK'
    BY IdleTyped DEF RestartAll, ExportTypeOK
  <1>. QED BY <1>1, <1>2

LEMMA ClusterStepTyped ==
  ASSUME TypeInv, PluginsTypeOK, ExportTypeOK, [Next]_vars
  PROVE  PluginsTypeOK' /\ ExportTypeOK'
  <1>1. CASE PluginsNext /\ UNCHANGED exportVars
    BY <1>1, PluginsTyped DEF exportVars, ExportTypeOK
  <1>2. CASE Requests
    <2>1. PluginsTypeOK'
      BY <1>2 DEF Requests, pluginVars, PluginsTypeOK
    <2>. QED BY <1>2, <2>1, RequestTyped
  <1>3. CASE UNCHANGED vars
    BY <1>3 DEF vars, pluginVars, exportVars, PluginsTypeOK, ExportTypeOK
  <1>. QED BY <1>1, <1>2, <1>3, RestartTyped DEF Next

(***************************************************************************)
(* All variables of the cluster have their types: what the plugins' prober *)
(* and the server's registry keep, too, and every request for a binding or *)
(* a preview.                                                              *)
(***************************************************************************)
THEOREM ClusterTypes == Spec => []ClusterTypeOK
  <1>. DEFINE Types == PluginsTypeOK /\ ExportTypeOK
  <1>1. Init => Types
    BY PluginsInitTyped, ExportInitTyped DEF Init
  <1>2. IInv /\ Types /\ [Next]_vars => Types'
    BY ClusterStepTyped DEF IInv
  <1>3. IInv /\ Types => ClusterTypeOK
    BY DEF IInv, TypeInv, ClusterTypeOK
  <1>. HIDE DEF Types
  <1>. QED BY <1>1, <1>2, <1>3, Invariant, PTL DEF Spec
=============================================================================
