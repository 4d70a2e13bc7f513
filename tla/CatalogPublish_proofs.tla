----------------------- MODULE CatalogPublish_proofs -----------------------
(***************************************************************************)
(* Proofs about CatalogPublish, for every set of catalogs, names and       *)
(* requests: only validated catalogs are ever published or exposed.        *)
(***************************************************************************)
EXTENDS CatalogPublish, TLAPS

Good(r, vs) == r \in Request /\ WellFormed(r) /\ Trusted(r, vs)

(***************************************************************************)
(* A request that has ended is harmless.                                   *)
(***************************************************************************)
LEMMA IdleGood == ASSUME NEW vs PROVE Good(Idle, vs)
  BY DEF Good, Idle, Call, Request, WellFormed, Trusted, Steps, Operations

(***************************************************************************)
(* A step that changes one request, and forgets no validation, keeps the   *)
(* invariant of all requests if the changed one is good.                   *)
(***************************************************************************)
LEMMA OneRequest ==
  ASSUME TypeOK, RequestInv, NEW q \in Reqs, NEW r,
         req' = [req EXCEPT ![q] = r], Good(r, validated'), validated \subseteq validated'
  PROVE  (req \in [Reqs -> Request])' /\ RequestInv'
  <1>1. (req \in [Reqs -> Request])'
    BY DEF TypeOK, Good
  <1>2. ASSUME NEW p \in Reqs PROVE WellFormed(req'[p]) /\ Trusted(req'[p], validated')
    BY DEF TypeOK, RequestInv, Good, Trusted, Vouched
  <1>. QED BY <1>1, <1>2 DEF RequestInv

(***************************************************************************)
(* The same for a request that ends, and for one that moves on.            *)
(***************************************************************************)
LEMMA Ends ==
  ASSUME TypeOK, RequestInv, NEW q \in Reqs, Finish(q), validated \subseteq validated'
  PROVE  (req \in [Reqs -> Request])' /\ RequestInv'
  BY IdleGood, OneRequest DEF Finish

(***************************************************************************)
(* What a handler takes from a row is typed and vouched for.               *)
(***************************************************************************)
LEMMA Reads ==
  ASSUME TypeOK, RowInv, NEW c \in Live
  PROVE  /\ c \in Cats /\ row[c] \in Row
         /\ SnapOf(c) \in Snap /\ SnapOf(c).id = c /\ SnapOf(c).row = row[c]
         /\ Vouched(SnapOf(c).id, SnapOf(c).row, validated)
  BY DEF TypeOK, RowInv, Live, SnapOf, Snap

(***************************************************************************)
(* A handler that has found its row remembers it and moves on.             *)
(***************************************************************************)
LEMMA Remembers ==
  ASSUME TypeOK, RequestInv, RowInv, NEW q \in Reqs, NEW c \in Owners(req[q].name),
         NEW pc \in {"scan", "setPublished", "setUnpublished", "apply", "dropCR",
                     "dropRow", "readTarget"},
         Remember(q, c, pc), req[q].pc = "read", validated' = validated,
         pc = "setPublished" => row[c].status = "valid"
  PROVE  (req \in [Reqs -> Request])' /\ RequestInv'
  <1>. DEFINE r == [req[q] EXCEPT !.snap = SnapOf(c), !.pc = pc]
  <1>. c \in Live
    BY DEF Owners
  <1>1. Good(req[q], validated)
    BY DEF TypeOK, RequestInv, Good
  <1>. pc \in Steps
    BY DEF Steps
  <1>2. r \in Request
    BY <1>1, Reads DEF Good, Request
  <1>3. WellFormed(r)
    BY <1>1, Reads DEF Good, Request, WellFormed
  <1>4. Trusted(r, validated)
    BY <1>1, Reads DEF Good, Request, Trusted
  <1>5. req' = [req EXCEPT ![q] = r]
    BY <1>1 DEF Remember, TypeOK, Good, Request
  <1>. QED BY <1>2, <1>3, <1>4, <1>5, OneRequest DEF Good

(***************************************************************************)
(* A handler that already holds its row moves to a step that needs no more *)
(* than it has.                                                            *)
(***************************************************************************)
LEMMA Moves ==
  ASSUME TypeOK, RequestInv, NEW q \in Reqs,
         NEW pc \in Steps \ {"setPublished", "swap", "dropArchiveCR", "syncWrite",
                             "checkName", "record", "insert"},
         Goto(q, pc), req[q].pc \notin {"idle", "read", "insert"},
         validated \subseteq validated',
         pc = "rename" => req[q].other \in Names,
         pc = "writeCR" => req[q].pc = "setPublished"
  PROVE  (req \in [Reqs -> Request])' /\ RequestInv'
  <1>. DEFINE r == [req[q] EXCEPT !.pc = pc]
  <1>1. Good(req[q], validated)
    BY DEF TypeOK, RequestInv, Good
  <1>2. r \in Request
    BY <1>1 DEF Good, Request
  <1>3. WellFormed(r)
    BY <1>1 DEF Good, Request, WellFormed
  <1>4. Trusted(r, validated')
    BY <1>1 DEF Good, Request, Trusted, Vouched
  <1>5. req' = [req EXCEPT ![q] = r]
    BY <1>1 DEF Goto, TypeOK, Good, Request
  <1>. QED BY <1>2, <1>3, <1>4, <1>5, OneRequest DEF Good

(***************************************************************************)
(* Frames: what is left to show when a step leaves the rest alone.         *)
(***************************************************************************)
LEMMA RequestsOnly ==
  ASSUME IInv, UNCHANGED <<tables, cr, validated>>,
         trouble' \subseteq {"overlap", "db", "k8s", "badInput"},
         (req \in [Reqs -> Request])', RequestInv'
  PROVE  IInv'
  BY DEF IInv, TypeOK, tables, RowInv, ExposedWasValidated

LEMMA RowOnly ==
  ASSUME IInv, UNCHANGED <<used, data, cr, validated, trouble>>,
         (row \in [Cats -> Row \cup {NoRow}])', RowInv',
         (req \in [Reqs -> Request])', RequestInv'
  PROVE  IInv'
  BY DEF IInv, TypeOK, ExposedWasValidated

LEMMA ClusterOnly ==
  ASSUME IInv, UNCHANGED <<tables, validated, trouble>>,
         NEW n \in Names, NEW x, cr' = [cr EXCEPT ![n] = x],
         x = NoCR \/ (x \in CR /\ x.source \in validated),
         (req \in [Reqs -> Request])', RequestInv'
  PROVE  IInv'
  BY DEF IInv, TypeOK, tables, RowInv, ExposedWasValidated

(***************************************************************************)
(* The UPDATE statements keep the rows typed; a status other than valid    *)
(* and a withdrawal need no validation.                                    *)
(***************************************************************************)
LEMMA StatusWrite ==
  ASSUME TypeOK, RowInv, NEW c \in Live, NEW s \in Status, row' = WithStatus(c, s),
         validated \subseteq validated', s = "valid" => c \in validated'
  PROVE  (row \in [Cats -> Row \cup {NoRow}])' /\ RowInv'
  BY AbsentAssumption DEF TypeOK, RowInv, WithStatus, Live, Row, Status, Vouched

LEMMA PublishedWrite ==
  ASSUME TypeOK, RowInv, NEW c \in Live, NEW b \in BOOLEAN, row' = WithPublished(c, b),
         validated' = validated, b => c \in validated
  PROVE  (row \in [Cats -> Row \cup {NoRow}])' /\ RowInv'
  BY AbsentAssumption DEF TypeOK, RowInv, WithPublished, Live, Row, Vouched

-----------------------------------------------------------------------------
(***************************************************************************)
(* One lemma per operation.                                                *)
(***************************************************************************)
LEMMA CallGood ==
  ASSUME NEW op \in Operations, NEW pc \in {"read", "insert"},
         NEW role \in Roles \cup {"none"}, NEW n \in Names,
         NEW m \in Names \cup {None}, NEW a \in Names \cup {None},
         NEW v \in CVs \cup {None}, NEW d \in BOOLEAN, NEW vs,
         op \in {"copy", "replace"} => m \in Names,
         op = "replace" => a \in Names,
         op = "create" => v \in CVs,
         pc = "insert" <=> op = "create"
  PROVE  Good(Call(op, pc, role, n, m, a, v, d), vs)
  <1>. DEFINE r == Call(op, pc, role, n, m, a, v, d)
  <1>1. r \in Request
    BY CatalogAssumption DEF Request, Steps, Call
  <1>2. WellFormed(r)
    BY DEF WellFormed, Call
  <1>3. Trusted(r, vs)
    BY DEF Trusted, Call
  <1>. QED BY <1>1, <1>2, <1>3 DEF Good

LEMMA CallsGood ==
  ASSUME NEW r \in OpenCalls \cup GuardedCalls, NEW vs
  PROVE  Good(r, vs)
  <1>. USE CatalogAssumption DEF Operations
  <1>1. ASSUME NEW n \in Names, NEW v \in CVs
        PROVE  Good(Call("create", "insert", "none", n, None, None, v, FALSE), vs)
    BY CallGood
  <1>2. ASSUME NEW n \in Names, NEW m \in Names
        PROVE  Good(Call("copy", "read", "none", n, m, None, None, FALSE), vs)
    BY CallGood
  <1>3. ASSUME NEW n \in Names, NEW m \in Names, NEW a \in Names
        PROVE  Good(Call("replace", "read", "none", n, m, a, None, FALSE), vs)
    BY CallGood
  <1>4. ASSUME NEW op \in {"delete", "validate", "mutate", "addInstance", "publish",
                           "unpublish"},
               NEW role \in Roles, NEW n \in Names
        PROVE  Good(Call(op, "read", role, n, None, None, None, FALSE), vs)
    BY CallGood
  <1>5. ASSUME NEW role \in Roles, NEW n \in Names, NEW m \in Names \cup {None},
               NEW v \in CVs \cup {None}, NEW d \in BOOLEAN
        PROVE  Good(Call("update", "read", role, n, m, None, v, d), vs)
    BY CallGood
  <1>6. CASE r \in OpenCalls
    <2>1. \/ \E n \in Names, v \in CVs :
                r = Call("create", "insert", "none", n, None, None, v, FALSE)
          \/ \E n \in Names, m \in Names :
                r = Call("copy", "read", "none", n, m, None, None, FALSE)
          \/ \E n \in Names, m \in Names, a \in Names :
                r = Call("replace", "read", "none", n, m, a, None, FALSE)
      BY <1>6 DEF OpenCalls, Call
    <2>. QED BY <1>1, <1>2, <1>3, <2>1 DEF Call
  <1>7. CASE r \in GuardedCalls
    <2>1. \/ \E op \in {"delete", "validate", "mutate", "addInstance", "publish",
                        "unpublish"}, role \in Roles, n \in Names :
                r = Call(op, "read", role, n, None, None, None, FALSE)
          \/ \E role \in Roles, n \in Names, m \in Names \cup {None},
                v \in CVs \cup {None}, d \in BOOLEAN :
                r = Call("update", "read", role, n, m, None, v, d)
      BY <1>7 DEF GuardedCalls, Call
    <2>. QED BY <1>4, <1>5, <2>1 DEF Call
  <1>. QED BY <1>6, <1>7

LEMMA ArriveStep == ASSUME IInv, NEW q \in Reqs, Arrive(q) PROVE IInv'
  <1>1. PICK r \in OpenCalls \cup GuardedCalls : req' = [req EXCEPT ![q] = r]
    BY DEF Arrive
  <1>2. (req \in [Reqs -> Request])' /\ RequestInv'
    BY <1>1, CallsGood, OneRequest DEF IInv, Arrive
  <1>3. trouble' \subseteq {"overlap", "db", "k8s", "badInput"}
    BY DEF Arrive, IInv, TypeOK
  <1>. QED BY <1>2, <1>3, RequestsOnly DEF Arrive

(***************************************************************************)
(* Steps that only read: the handler ends or remembers what it has read.   *)
(***************************************************************************)
ReadStep(q) ==
    \/ ReadMisses(q) \/ CopyRead(q) \/ ValidateRead(q) \/ PublishRead(q)
    \/ UnpublishRead(q) \/ MutateRead(q) \/ DeleteRead(q) \/ ReplaceRead(q)

LEMMA ReadSteps == ASSUME IInv, NEW q \in Reqs, ReadStep(q) PROVE IInv'
  <1>. USE DEF IInv
  <1>. UNCHANGED <<tables, cr, validated, trouble>> /\ req[q].pc = "read"
    BY DEF ReadStep, ReadMisses, CopyRead, ValidateRead, PublishRead, UnpublishRead,
           MutateRead, DeleteRead, ReplaceRead, At
  <1>1. CASE Finish(q)
    BY <1>1, Ends, RequestsOnly DEF TypeOK
  <1>2. CASE \E c \in Owners(req[q].name) :
               \E pc \in {"scan", "setPublished", "setUnpublished", "apply", "dropCR",
                          "dropRow", "readTarget"} :
                  Remember(q, c, pc) /\ (pc = "setPublished" => row[c].status = "valid")
    BY <1>2, Remembers, RequestsOnly DEF TypeOK
  <1>. QED BY <1>1, <1>2 DEF ReadStep, ReadMisses, CopyRead, ValidateRead, PublishRead,
                             UnpublishRead, MutateRead, DeleteRead, ReplaceRead

(***************************************************************************)
(* CreateCatalog and CopyCatalog insert a draft that is not published.     *)
(***************************************************************************)
LEMMA Inserts ==
  ASSUME IInv, NEW q \in Reqs, NEW n \in Names, NEW v \in CVs, NEW d \in Data,
         Insert(q, n, v, d), Finish(q), UNCHANGED <<cr, validated, trouble>>
  PROVE  IInv'
  <1>. USE DEF IInv
  <1>1. (req \in [Reqs -> Request])' /\ RequestInv'
    BY Ends
  <1>2. CASE UNCHANGED tables
    BY <1>1, <1>2, RequestsOnly DEF TypeOK
  <1>3. ASSUME NEW c \in Cats \ used,
               row' = [row EXCEPT ![c] = [name |-> n, cv |-> v, status |-> "draft",
                                          published |-> FALSE]],
               used' = used \cup {c}, data' = [data EXCEPT ![c] = d]
        PROVE  IInv'
    <2>. DEFINE new == [name |-> n, cv |-> v, status |-> "draft", published |-> FALSE]
    <2>0. new \in Row
      BY DEF Row, Status
    <2>1. new \in Row /\ new # NoRow /\ Vouched(c, new, validated)
      BY <2>0, AbsentAssumption DEF Vouched
    <2>2. TypeOK'
      BY <1>1, <1>3, <2>1 DEF TypeOK
    <2>3. RowInv'
      BY <1>3, <2>1 DEF RowInv, TypeOK
    <2>. QED BY <1>1, <2>2, <2>3 DEF ExposedWasValidated
  <1>. QED BY <1>2, <1>3 DEF Insert

LEMMA CreateStep == ASSUME IInv, NEW q \in Reqs, CreateInsert(q) PROVE IInv'
  <1>1. req[q].name \in Names /\ req[q].cv \in CVs
    BY DEF IInv, RequestInv, WellFormed, CreateInsert, At
  <1>. QED BY <1>1, Inserts, CatalogAssumption DEF CreateInsert

(***************************************************************************)
(* The scans of CopyCatalog and Validate keep what the request knew.       *)
(***************************************************************************)
LEMMA ScanSteps == ASSUME IInv, NEW q \in Reqs, CopyScan(q) \/ ValidateScan(q) PROVE IInv'
  <1>. USE DEF IInv
  <1>1. PICK pc \in {"insert", "record"} :
           /\ req[q].pc = "scan" /\ req[q].op \in {"copy", "validate"}
           /\ pc = "insert" => req[q].op = "copy"
           /\ req' = [req EXCEPT ![q].seen = data[req[q].snap.id], ![q].pc = pc]
           /\ UNCHANGED <<tables, cr, validated, trouble>>
    BY DEF CopyScan, ValidateScan, At
  <1>. DEFINE r == [req[q] EXCEPT !.seen = data[req[q].snap.id], !.pc = pc]
  <1>2. Good(req[q], validated) /\ pc \in Steps
    BY DEF TypeOK, RequestInv, Good, Steps
  <1>3. data[req[q].snap.id] \in Data
    BY <1>1, <1>2 DEF Good, WellFormed, TypeOK, Snap
  <1>4. r \in Request /\ WellFormed(r) /\ Trusted(r, validated)
    <2>1. r \in Request
      BY <1>1, <1>2, <1>3 DEF Good, Request
    <2>2. WellFormed(r)
      BY <1>1, <1>2, <1>3 DEF Good, Request, WellFormed
    <2>3. Trusted(r, validated)
      BY <1>1, <1>2 DEF Good, Request, Trusted
    <2>. QED BY <2>1, <2>2, <2>3
  <1>5. req' = [req EXCEPT ![q] = r]
    BY <1>1, <1>2 DEF TypeOK, Good, Request
  <1>6. (req \in [Reqs -> Request])' /\ RequestInv'
    BY <1>1, <1>4, <1>5, OneRequest DEF Good, tables
  <1>. QED BY <1>1, <1>6, RequestsOnly DEF TypeOK

LEMMA CopyInsertStep == ASSUME IInv, NEW q \in Reqs, CopyInsert(q) PROVE IInv'
  <1>1. /\ req[q].other \in Names /\ req[q].snap.row.cv \in CVs
        /\ req[q].seen \in Data /\ req[q].snap.id \in Cats
    BY DEF IInv, RequestInv, WellFormed, CopyInsert, At, Snap, Row
  <1>. QED BY <1>1, Inserts DEF CopyInsert, IInv, TypeOK

(***************************************************************************)
(* The verdict of a validation: recording it as valid is what vouches.     *)
(***************************************************************************)
LEMMA ValidateRecordStep == ASSUME IInv, NEW q \in Reqs, ValidateRecord(q) PROVE IInv'
  <1>. USE DEF IInv
  <1>1. validated \subseteq validated' /\ validated' \subseteq Cats
    BY DEF ValidateRecord, Live, TypeOK
  <1>2. (req \in [Reqs -> Request])' /\ RequestInv'
    BY <1>1, Ends DEF ValidateRecord
  <1>3. (row \in [Cats -> Row \cup {NoRow}])' /\ RowInv'
    <2>1. CASE req[q].snap.id \in Live
      <3>1. Verdict(req[q]) \in Status
        BY DEF Verdict, Status
      <3>2. Verdict(req[q]) = "valid" => req[q].snap.id \in validated'
        BY <2>1 DEF ValidateRecord
      <3>. QED BY <1>1, <2>1, <3>1, <3>2, StatusWrite DEF ValidateRecord
    <2>2. CASE req[q].snap.id \notin Live
      BY <2>2 DEF ValidateRecord, TypeOK, RowInv
    <2>. QED BY <2>1, <2>2
  <1>. QED BY <1>1, <1>2, <1>3 DEF ValidateRecord, TypeOK, ExposedWasValidated

(***************************************************************************)
(* Publish acts on a snapshot whose status was valid: its catalog has been *)
(* validated, whatever has become of the row since.                        *)
(***************************************************************************)
LEMMA Holds ==
  ASSUME IInv, NEW q \in Reqs, req[q].pc \notin {"idle", "read", "insert"}
  PROVE  /\ Good(req[q], validated) /\ req[q].snap \in Snap /\ req[q].snap # NoSnap
         /\ req[q].op # "create"
         /\ req[q].snap.id \in Cats /\ req[q].snap.row \in Row
         /\ Vouched(req[q].snap.id, req[q].snap.row, validated)
  BY AbsentAssumption DEF IInv, TypeOK, RequestInv, Good, WellFormed, Trusted, Snap

LEMMA HitStep ==
  ASSUME IInv, NEW q \in Reqs, NEW b \in BOOLEAN, NEW next \in {"writeCR", "dropCR"},
         Hit(q, req[q].snap.id, WithPublished(req[q].snap.id, b), next),
         req[q].pc \notin {"idle", "read", "insert"},
         b => req[q].snap.id \in validated,
         next = "writeCR" => req[q].pc = "setPublished",
         UNCHANGED <<used, data, cr, validated, trouble>>
  PROVE  IInv'
  <1>. USE DEF IInv
  <1>1. CASE req[q].snap.id \in Live
    <2>1. row' = WithPublished(req[q].snap.id, b) /\ Goto(q, next)
      BY <1>1 DEF Hit
    <2>2. (row \in [Cats -> Row \cup {NoRow}])' /\ RowInv'
      BY <1>1, <2>1, PublishedWrite
    <2>3. next \in Steps
      BY DEF Steps
    <2>4. (req \in [Reqs -> Request])' /\ RequestInv'
      BY <2>1, <2>3, Moves
    <2>. QED BY <2>2, <2>4, RowOnly
  <1>2. CASE req[q].snap.id \notin Live
    <2>1. row' = row /\ Finish(q)
      BY <1>2 DEF Hit
    <2>2. (req \in [Reqs -> Request])' /\ RequestInv'
      BY <2>1, Ends
    <2>. QED BY <2>1, <2>2, RowOnly DEF TypeOK, RowInv
  <1>. QED BY <1>1, <1>2

LEMMA PublishSetStep == ASSUME IInv, NEW q \in Reqs, PublishSet(q) PROVE IInv'
  <1>1. req[q].pc = "setPublished" /\ req[q].op = "publish"
    BY DEF PublishSet, At
  <1>2. req[q].snap.id \in validated
    BY <1>1, Holds DEF Good, Trusted, Vouched
  <1>. QED BY <1>1, <1>2, HitStep DEF PublishSet

LEMMA UnpublishSetStep == ASSUME IInv, NEW q \in Reqs, UnpublishSet(q) PROVE IInv'
  BY HitStep DEF UnpublishSet, At

LEMMA SnapCR ==
  ASSUME NEW s \in Snap, NEW vs, s.row.published \/ s.row.status = "valid",
         Vouched(s.id, s.row, vs)
  PROVE  CROf(s) \in CR /\ CROf(s).source \in vs
  BY DEF CROf, CR, Snap, Row, Vouched

LEMMA PublishWriteCRStep == ASSUME IInv, NEW q \in Reqs, PublishWriteCR(q) PROVE IInv'
  <1>1. req[q].pc = "writeCR" /\ req[q].op = "publish"
    BY DEF PublishWriteCR, At
  <1>2. /\ CROf(req[q].snap) \in CR /\ CROf(req[q].snap).source \in validated
        /\ req[q].snap.row.name \in Names
    BY <1>1, Holds, SnapCR DEF Good, Trusted, Row
  <1>3. (req \in [Reqs -> Request])' /\ RequestInv'
    BY Ends DEF PublishWriteCR, IInv
  <1>. QED BY <1>2, <1>3, ClusterOnly DEF PublishWriteCR

LEMMA PublishRollbackStep == ASSUME IInv, NEW q \in Reqs, PublishRollback(q) PROVE IInv'
  <1>. USE DEF IInv
  <1>1. (req \in [Reqs -> Request])' /\ RequestInv'
    BY Ends DEF PublishRollback
  <1>2. (row \in [Cats -> Row \cup {NoRow}])' /\ RowInv'
    BY PublishedWrite DEF PublishRollback, TypeOK, RowInv
  <1>. QED BY <1>1, <1>2, RowOnly DEF PublishRollback

LEMMA UnpublishDropCRStep == ASSUME IInv, NEW q \in Reqs, UnpublishDropCR(q) PROVE IInv'
  <1>1. req[q].snap.row.name \in Names
    BY Holds DEF UnpublishDropCR, At, Row
  <1>2. (req \in [Reqs -> Request])' /\ RequestInv'
    BY Ends DEF UnpublishDropCR, IInv
  <1>. QED BY <1>1, <1>2, ClusterOnly DEF UnpublishDropCR

-----------------------------------------------------------------------------
(***************************************************************************)
(* SyncCR, and what follows it.                                            *)
(***************************************************************************)
LEMMA AfterSyncs ==
  ASSUME IInv, NEW q \in Reqs, AfterSync(q), validated' = validated,
         req[q].pc \in {"syncRead", "syncWrite"}
  PROVE  (req \in [Reqs -> Request])' /\ RequestInv'
  <1>1. Goto(q, "dropSourceCR") \/ Finish(q)
    BY DEF AfterSync
  <1>2. "dropSourceCR" \in Steps
    BY DEF Steps
  <1>. QED BY <1>1, <1>2, Moves, Ends DEF IInv

LEMMA SyncReadStep == ASSUME IInv, NEW q \in Reqs, SyncRead(q) PROVE IInv'
  <1>. USE DEF IInv
  <1>1. CASE AfterSync(q)
    BY <1>1, AfterSyncs, RequestsOnly DEF SyncRead, TypeOK
  <1>2. ASSUME NEW c \in Owners(SyncName(req[q])), row[c].published,
               req' = [req EXCEPT ![q].snap2 = SnapOf(c), ![q].pc = "syncWrite"]
        PROVE  IInv'
    <2>. DEFINE r == [req[q] EXCEPT !.snap2 = SnapOf(c), !.pc = "syncWrite"]
    <2>1. c \in Live /\ "syncWrite" \in Steps
      BY DEF Owners, Steps
    <2>2. Good(req[q], validated) /\ req[q].snap \in Snap
      BY Holds DEF SyncRead
    <2>3. r \in Request
      BY <2>1, <2>2, Reads DEF Good, Request
    <2>4. WellFormed(r)
      BY <2>1, <2>2, <1>2, Reads DEF Good, Request, WellFormed, SyncRead
    <2>5. Trusted(r, validated)
      BY <2>1, <2>2, <1>2, Reads DEF Good, Request, Trusted, SyncRead
    <2>6. req' = [req EXCEPT ![q] = r]
      BY <1>2, <2>2 DEF TypeOK, Good, Request
    <2>7. (req \in [Reqs -> Request])' /\ RequestInv'
      BY <2>3, <2>4, <2>5, <2>6, OneRequest DEF Good, SyncRead
    <2>. QED BY <2>7, RequestsOnly DEF SyncRead, TypeOK
  <1>. QED BY <1>1, <1>2 DEF SyncRead

LEMMA SyncWriteStep == ASSUME IInv, NEW q \in Reqs, SyncWrite(q) PROVE IInv'
  <1>1. /\ req[q].snap2 \in Snap /\ req[q].snap2.row.published
        /\ Vouched(req[q].snap2.id, req[q].snap2.row, validated)
    BY Holds, AbsentAssumption DEF SyncWrite, Good, WellFormed, Trusted
  <1>2. /\ CROf(req[q].snap2) \in CR /\ CROf(req[q].snap2).source \in validated
        /\ req[q].snap2.row.name \in Names
    BY <1>1, SnapCR DEF Snap, Row
  <1>3. (req \in [Reqs -> Request])' /\ RequestInv'
    BY AfterSyncs DEF SyncWrite
  <1>. QED BY <1>2, <1>3, ClusterOnly DEF SyncWrite

(***************************************************************************)
(* Mutations change the contents and then reset the status.                *)
(***************************************************************************)
LEMMA Contents_ ==
  ASSUME IInv, NEW q \in Reqs, NEW c, NEW d \in Data, data' = [data EXCEPT ![c] = d],
         UNCHANGED <<row, used, cr, validated>>,
         trouble' \subseteq {"overlap", "db", "k8s", "badInput"},
         (req \in [Reqs -> Request])', RequestInv'
  PROVE  IInv'
  BY DEF IInv, TypeOK, RowInv, ExposedWasValidated

LEMMA MutateApplyStep == ASSUME IInv, NEW q \in Reqs, MutateApply(q) PROVE IInv'
  <1>. USE DEF IInv
  <1>1. (req \in [Reqs -> Request])' /\ RequestInv'
    BY Moves DEF MutateApply, Steps
  <1>. QED BY <1>1, Contents_ DEF MutateApply, Contents, TypeOK

LEMMA AddInstanceRejectedStep ==
  ASSUME IInv, NEW q \in Reqs, AddInstanceRejected(q) PROVE IInv'
  <1>. USE DEF IInv
  <1>1. (req \in [Reqs -> Request])' /\ RequestInv'
    BY Ends DEF AddInstanceRejected
  <1>. QED BY <1>1, Contents_ DEF AddInstanceRejected, Contents, TypeOK

LEMMA MutateResetStep == ASSUME IInv, NEW q \in Reqs, MutateReset(q) PROVE IInv'
  <1>. USE DEF IInv
  <1>1. (req \in [Reqs -> Request])' /\ RequestInv'
    BY Moves DEF MutateReset, Steps
  <1>2. (row \in [Cats -> Row \cup {NoRow}])' /\ RowInv'
    BY StatusWrite DEF MutateReset, TypeOK, RowInv, Status
  <1>. QED BY <1>1, <1>2, RowOnly DEF MutateReset

(***************************************************************************)
(* Delete removes rows and CRs only.                                       *)
(***************************************************************************)
LEMMA DeleteDropCRStep == ASSUME IInv, NEW q \in Reqs, DeleteDropCR(q) PROVE IInv'
  <1>1. req[q].snap.row.name \in Names
    BY Holds DEF DeleteDropCR, At, Row
  <1>2. (req \in [Reqs -> Request])' /\ RequestInv'
    BY Moves DEF DeleteDropCR, At, IInv, Steps
  <1>. QED BY <1>1, <1>2, ClusterOnly DEF DeleteDropCR

LEMMA DeleteDropRowStep == ASSUME IInv, NEW q \in Reqs, DeleteDropRow(q) PROVE IInv'
  <1>. USE DEF IInv
  <1>1. (req \in [Reqs -> Request])' /\ RequestInv'
    BY Ends DEF DeleteDropRow
  <1>. QED BY <1>1, CatalogAssumption DEF DeleteDropRow, TypeOK, RowInv, Live, ExposedWasValidated

-----------------------------------------------------------------------------
(***************************************************************************)
(* UpdateMetadata: every name and status it writes comes from a snapshot.  *)
(***************************************************************************)
LEMMA Advances ==
  ASSUME TypeOK, RequestInv, NEW q \in Reqs, NEW r \in Request,
         Trusted(r, validated), validated' = validated,
         r.op \in {"update", "replace"}, r.name \in Names, r.snap \in Snap,
         r.op = "replace" => r.other \in Names /\ r.archive \in Names /\ r.snap2 \in Snap,
         NEW pc \in {"idle", "checkName", "rename", "save", "reset", "syncRead",
                     "dropArchiveCR", "dropSourceCR"},
         pc \in {"checkName", "rename"} => r.other \in Names,
         pc = "dropArchiveCR" => r.op = "replace",
         Advance(q, r, pc)
  PROVE  (req \in [Reqs -> Request])' /\ RequestInv'
  <1>1. CASE pc = "idle"
    BY <1>1, IdleGood, OneRequest DEF Advance
  <1>2. CASE pc # "idle"
    <2>. DEFINE new == [r EXCEPT !.pc = pc]
    <2>0. pc \in Steps
      BY DEF Steps
    <2>1. new \in Request
      BY <2>0 DEF Request
    <2>2. WellFormed(new)
      BY <1>2 DEF Request, WellFormed
    <2>3. Trusted(new, validated')
      BY <1>2 DEF Request, Trusted
    <2>4. req' = [req EXCEPT ![q] = new]
      BY <1>2 DEF Advance
    <2>. QED BY <2>1, <2>2, <2>3, <2>4, OneRequest DEF Good
  <1>. QED BY <1>1, <1>2

LEMMA AfterRenamePC == ASSUME NEW r PROVE AfterRename(r) \in {"idle", "save", "reset", "syncRead"}
                                          /\ AfterSave(r) \in {"idle", "reset", "syncRead"}
  BY DEF AfterRename, AfterSave

LEMMA UpdateReadStep == ASSUME IInv, NEW q \in Reqs, UpdateRead(q) PROVE IInv'
  <1>. USE DEF IInv
  <1>1. CASE Finish(q)
    BY <1>1, Ends, RequestsOnly DEF UpdateRead, TypeOK
  <1>2. ASSUME NEW c \in Owners(req[q].name), NEW r, r = [req[q] EXCEPT !.snap = SnapOf(c)],
               Advance(q, r, IF Renames(r) THEN "checkName" ELSE AfterRename(r))
        PROVE  IInv'
    <2>1. c \in Live
      BY DEF Owners
    <2>2. Good(req[q], validated) /\ req[q].op = "update" /\ req[q].pc = "read"
      BY DEF UpdateRead, At, TypeOK, RequestInv, Good
    <2>3. r \in Request
      BY <1>2, <2>1, <2>2, Reads DEF Good, Request
    <2>4. /\ r.op = "update" /\ r.name \in Names /\ r.snap \in Snap /\ r.pc = "read"
          /\ Trusted(r, validated)
      BY <1>2, <2>1, <2>2, Reads DEF Good, Request, WellFormed, Trusted
    <2>5. Renames(r) => r.other \in Names
      BY <2>3 DEF Renames, Request
    <2>6. (IF Renames(r) THEN "checkName" ELSE AfterRename(r))
             \in {"idle", "checkName", "save", "reset", "syncRead"}
      BY AfterRenamePC
    <2>7. (IF Renames(r) THEN "checkName" ELSE AfterRename(r)) = "checkName" => Renames(r)
      BY AfterRenamePC
    <2>8. validated' = validated
      BY DEF UpdateRead
    <2>9. (req \in [Reqs -> Request])' /\ RequestInv'
      BY <1>2, <2>3, <2>4, <2>5, <2>6, <2>7, <2>8, Advances
    <2>. QED BY <2>9, RequestsOnly DEF UpdateRead, TypeOK
  <1>. QED BY <1>1, <1>2 DEF UpdateRead

LEMMA UpdateCheckNameStep == ASSUME IInv, NEW q \in Reqs, UpdateCheckName(q) PROVE IInv'
  <1>. USE DEF IInv
  <1>1. CASE Finish(q)
    BY <1>1, Ends, RequestsOnly DEF UpdateCheckName, TypeOK
  <1>2. CASE Goto(q, "rename")
    <2>1. req[q].other \in Names /\ "rename" \in Steps
      BY Holds DEF UpdateCheckName, At, Good, WellFormed, Steps
    <2>2. (req \in [Reqs -> Request])' /\ RequestInv'
      BY <1>2, <2>1, Moves DEF UpdateCheckName, At
    <2>. QED BY <2>2, RequestsOnly DEF UpdateCheckName, TypeOK
  <1>. QED BY <1>1, <1>2 DEF UpdateCheckName

LEMMA UpdateAdvances ==
  ASSUME IInv, NEW q \in Reqs, req[q].op = "update", req[q].pc \in {"rename", "save"},
         NEW pc \in {"idle", "save", "reset", "syncRead"}, Advance(q, req[q], pc),
         validated' = validated
  PROVE  (req \in [Reqs -> Request])' /\ RequestInv'
  <1>1. /\ req[q] \in Request /\ Trusted(req[q], validated)
        /\ req[q].name \in Names /\ req[q].snap \in Snap
    BY Holds DEF Good, WellFormed
  <1>. QED BY <1>1, Advances DEF IInv

(***************************************************************************)
(* A table of typed and vouched rows stays one when a name is written, or  *)
(* the published flag of a validated catalog.                              *)
(***************************************************************************)
Sound(f, vs) ==
    /\ f \in [Cats -> Row \cup {NoRow}]
    /\ \A c \in Cats : f[c] # NoRow => Vouched(c, f[c], vs)

LEMMA NameWrite ==
  ASSUME NEW f, NEW vs, Sound(f, vs), NEW c \in Cats, f[c] # NoRow, NEW n \in Names
  PROVE  /\ Sound([f EXCEPT ![c].name = n], vs)
         /\ \A d \in Cats : f[d] # NoRow => [f EXCEPT ![c].name = n][d] # NoRow
  <1>. DEFINE x == [f[c] EXCEPT !.name = n]
  <1>1. x \in Row /\ x.status = f[c].status /\ x.published = f[c].published
    BY DEF Sound, Row
  <1>2. [f EXCEPT ![c].name = n] = [f EXCEPT ![c] = x]
    OBVIOUS
  <1>. HIDE DEF x
  <1>. QED BY <1>1, <1>2, AbsentAssumption DEF Sound, Vouched

LEMMA FlagWrite ==
  ASSUME NEW f, NEW vs, Sound(f, vs), NEW c \in Cats, f[c] # NoRow, NEW b \in BOOLEAN,
         b => c \in vs
  PROVE  /\ Sound([f EXCEPT ![c].published = b], vs)
         /\ \A d \in Cats : f[d] # NoRow => [f EXCEPT ![c].published = b][d] # NoRow
  <1>. DEFINE x == [f[c] EXCEPT !.published = b]
  <1>1. x \in Row /\ x.status = f[c].status /\ x.published = b
    BY DEF Sound, Row
  <1>2. [f EXCEPT ![c].published = b] = [f EXCEPT ![c] = x]
    OBVIOUS
  <1>. HIDE DEF x
  <1>. QED BY <1>1, <1>2, AbsentAssumption DEF Sound, Vouched

LEMMA UpdateRenameStep == ASSUME IInv, NEW q \in Reqs, UpdateRename(q) PROVE IInv'
  <1>. USE DEF IInv
  <1>1. CASE row' = row /\ Finish(q)
    <2>1. (req \in [Reqs -> Request])' /\ RequestInv'
      BY <1>1, Ends DEF UpdateRename
    <2>. QED BY <1>1, <2>1, RowOnly DEF UpdateRename, TypeOK, RowInv
  <1>2. ASSUME req[q].snap.id \in Live,
               row' = [row EXCEPT ![req[q].snap.id].name = req[q].other],
               Advance(q, req[q], AfterRename(req[q]))
        PROVE  IInv'
    <2>1. req[q].other \in Names
      BY Holds DEF UpdateRename, At, Good, WellFormed
    <2>2. Sound(row', validated)
      <3>1. Sound(row, validated)
        BY DEF TypeOK, RowInv, Sound
      <3>2. req[q].snap.id \in Cats /\ row[req[q].snap.id] # NoRow
        BY <1>2 DEF Live
      <3>. QED BY <1>2, <2>1, <3>1, <3>2, NameWrite
    <2>3. (req \in [Reqs -> Request])' /\ RequestInv'
      BY <1>2, UpdateAdvances, AfterRenamePC DEF UpdateRename, At
    <2>. QED BY <2>2, <2>3, RowOnly DEF UpdateRename, Sound, RowInv
  <1>. QED BY <1>1, <1>2 DEF UpdateRename

(***************************************************************************)
(* Saving a stale row writes back a status and a flag that were vouched    *)
(* for when they were read, and a validation is never forgotten.           *)
(***************************************************************************)
LEMMA UpdateSaveStep == ASSUME IInv, NEW q \in Reqs, UpdateSave(q) PROVE IInv'
  <1>. USE DEF IInv
  <1>. DEFINE r == req[q]
              x == [r.snap.row EXCEPT !.name = NameAfter(r),
                                      !.cv = IF Repins(r) THEN r.cv ELSE @]
  <1>1. CASE row' = row /\ Finish(q)
    <2>1. (req \in [Reqs -> Request])' /\ RequestInv'
      BY <1>1, Ends DEF UpdateSave
    <2>. QED BY <1>1, <2>1, RowOnly DEF UpdateSave, TypeOK, RowInv
  <1>2. CASE row' = [row EXCEPT ![r.snap.id] = x] /\ Advance(q, r, AfterSave(r))
    <2>1. /\ Good(r, validated) /\ r.snap.id \in Cats /\ r.snap.row \in Row
          /\ Vouched(r.snap.id, r.snap.row, validated)
      BY Holds DEF UpdateSave, At
    <2>2. r.pc = "save" /\ r.op = "update"
      BY DEF UpdateSave, At
    <2>3. NameAfter(r) \in Names /\ (Repins(r) => r.cv \in CVs)
      BY <2>1, <2>2 DEF Good, Request, WellFormed, NameAfter, Renames, Repins
    <2>4. x \in Row /\ x.status = r.snap.row.status /\ x.published = r.snap.row.published
      BY <2>1, <2>3 DEF Row
    <2>. HIDE DEF x
    <2>5. (row \in [Cats -> Row \cup {NoRow}])' /\ RowInv'
      BY <1>2, <2>1, <2>4 DEF TypeOK, RowInv, Vouched, UpdateSave
    <2>6. (req \in [Reqs -> Request])' /\ RequestInv'
      BY <1>2, <2>2, UpdateAdvances, AfterRenamePC DEF UpdateSave
    <2>. QED BY <2>5, <2>6, RowOnly DEF UpdateSave
  <1>. QED BY <1>1, <1>2 DEF UpdateSave

LEMMA UpdateResetStep == ASSUME IInv, NEW q \in Reqs, UpdateReset(q) PROVE IInv'
  <1>. USE DEF IInv
  <1>1. (req \in [Reqs -> Request])' /\ RequestInv'
    BY Ends DEF UpdateReset
  <1>2. (row \in [Cats -> Row \cup {NoRow}])' /\ RowInv'
    BY StatusWrite DEF UpdateReset, TypeOK, RowInv, Status
  <1>. QED BY <1>1, <1>2, RowOnly DEF UpdateReset

-----------------------------------------------------------------------------
(***************************************************************************)
(* ReplaceCatalog hands the published flag to a source read as valid.      *)
(***************************************************************************)
LEMMA ReplaceReadTargetStep ==
  ASSUME IInv, NEW q \in Reqs, ReplaceReadTarget(q) PROVE IInv'
  <1>. USE DEF IInv
  <1>1. CASE Finish(q)
    BY <1>1, Ends, RequestsOnly DEF ReplaceReadTarget, TypeOK
  <1>2. ASSUME NEW c \in Owners(req[q].other), req[q].snap.row.status = "valid",
               req' = [req EXCEPT ![q].snap2 = SnapOf(c), ![q].pc = "swap"]
        PROVE  IInv'
    <2>. DEFINE r == [req[q] EXCEPT !.snap2 = SnapOf(c), !.pc = "swap"]
    <2>1. c \in Live /\ "swap" \in Steps
      BY DEF Owners, Steps
    <2>2. Good(req[q], validated) /\ req[q].snap \in Snap
      BY Holds DEF ReplaceReadTarget, At
    <2>3. r \in Request
      BY <2>1, <2>2, Reads DEF Good, Request
    <2>4. WellFormed(r)
      BY <2>1, <2>2, <1>2, Reads DEF Good, Request, WellFormed, ReplaceReadTarget, At
    <2>5. Trusted(r, validated)
      BY <2>1, <2>2, <1>2, Reads DEF Good, Request, Trusted, ReplaceReadTarget, At
    <2>6. req' = [req EXCEPT ![q] = r]
      BY <1>2, <2>2 DEF TypeOK, Good, Request
    <2>7. (req \in [Reqs -> Request])' /\ RequestInv'
      BY <2>3, <2>4, <2>5, <2>6, OneRequest DEF Good, ReplaceReadTarget
    <2>. QED BY <2>7, RequestsOnly DEF ReplaceReadTarget, TypeOK
  <1>. QED BY <1>1, <1>2 DEF ReplaceReadTarget

LEMMA ReplaceSwapStep == ASSUME IInv, NEW q \in Reqs, ReplaceSwap(q) PROVE IInv'
  <1>. USE DEF IInv
  <1>. DEFINE r == req[q]
              s == r.snap.id
              t == r.snap2.id
              archived == [row EXCEPT ![t].name = r.archive]
              renamed == [archived EXCEPT ![s].name = r.other]
  <1>1. CASE row' = row /\ Finish(q)
    <2>1. (req \in [Reqs -> Request])' /\ RequestInv'
      BY <1>1, Ends DEF ReplaceSwap
    <2>. QED BY <1>1, <2>1, RowOnly DEF ReplaceSwap, TypeOK, RowInv
  <1>2. ASSUME {s, t} \subseteq Live, row' = Swapped(r), Advance(q, r, AfterSwap(r))
        PROVE  IInv'
    <2>1. /\ Good(r, validated) /\ r.snap \in Snap /\ r.pc = "swap" /\ r.op = "replace"
          /\ Vouched(s, r.snap.row, validated)
      BY Holds DEF ReplaceSwap, At
    <2>2. /\ r.name \in Names /\ r.other \in Names /\ r.archive \in Names
          /\ r.snap2 \in Snap /\ r.snap.row.status = "valid"
      BY <2>1 DEF Good, WellFormed, Trusted
    <2>3. s \in validated /\ s \in Cats /\ t \in Cats /\ row[s] # NoRow /\ row[t] # NoRow
      BY <1>2, <2>1, <2>2 DEF Vouched, Live
    <2>4. Sound(row, validated)
      BY DEF TypeOK, RowInv, Sound
    <2>5. Sound(archived, validated) /\ archived[s] # NoRow /\ archived[t] # NoRow
      BY <2>2, <2>3, <2>4, NameWrite
    <2>6. Sound(renamed, validated) /\ renamed[s] # NoRow /\ renamed[t] # NoRow
      <3>. HIDE DEF archived
      <3>. QED BY <2>2, <2>3, <2>5, NameWrite
    <2>7. Sound([[renamed EXCEPT ![s].published = TRUE] EXCEPT ![t].published = FALSE], validated)
      <3>. HIDE DEF renamed
      <3>1. /\ Sound([renamed EXCEPT ![s].published = TRUE], validated)
            /\ [renamed EXCEPT ![s].published = TRUE][t] # NoRow
        BY <2>3, <2>6, FlagWrite
      <3>. QED BY <2>3, <3>1, FlagWrite
    <2>8. Sound([renamed EXCEPT ![s].published = FALSE], validated)
      <3>. HIDE DEF renamed
      <3>. QED BY <2>3, <2>6, FlagWrite
    <2>9. Sound(row', validated)
      BY <1>2, <2>6, <2>7, <2>8 DEF Swapped
    <2>10. /\ AfterSwap(r) \in {"idle", "dropArchiveCR", "dropSourceCR"}
      BY DEF AfterSwap
    <2>11. (req \in [Reqs -> Request])' /\ RequestInv'
      BY <1>2, <2>1, <2>2, <2>10, Advances DEF ReplaceSwap, Good
    <2>. QED BY <2>9, <2>11, RowOnly DEF ReplaceSwap, Sound, RowInv
  <1>. QED BY <1>1, <1>2 DEF ReplaceSwap

LEMMA ReplaceDropArchiveCRStep ==
  ASSUME IInv, NEW q \in Reqs, ReplaceDropArchiveCR(q) PROVE IInv'
  <1>1. req[q].archive \in Names
    BY Holds DEF ReplaceDropArchiveCR, At, Good, WellFormed
  <1>2. (req \in [Reqs -> Request])' /\ RequestInv'
    BY Moves DEF ReplaceDropArchiveCR, At, IInv, Steps
  <1>. QED BY <1>1, <1>2, ClusterOnly DEF ReplaceDropArchiveCR

LEMMA ReplaceDropSourceCRStep ==
  ASSUME IInv, NEW q \in Reqs, ReplaceDropSourceCR(q) PROVE IInv'
  <1>1. req[q].name \in Names
    BY Holds DEF ReplaceDropSourceCR, At, Good, WellFormed
  <1>2. (req \in [Reqs -> Request])' /\ RequestInv'
    BY Ends DEF ReplaceDropSourceCR, IInv
  <1>. QED BY <1>1, <1>2, ClusterOnly DEF ReplaceDropSourceCR

-----------------------------------------------------------------------------
(***************************************************************************)
(* A failing statement or call ends its handler, or sends it on its error  *)
(* path, and changes nothing else.                                         *)
(***************************************************************************)
LEMMA DBFailsStep == ASSUME IInv, NEW q \in Reqs, DBFails(q) PROVE IInv'
  <1>. USE DEF IInv
  <1>1. validated' = validated /\ trouble' \subseteq {"overlap", "db", "k8s", "badInput"}
    BY DEF DBFails, TypeOK
  <1>2. CASE Finish(q)
    BY <1>1, <1>2, Ends, RequestsOnly DEF DBFails
  <1>3. CASE req[q].pc = "reset" /\ Goto(q, "syncRead")
    BY <1>1, <1>3, Moves, RequestsOnly DEF DBFails, Steps
  <1>4. CASE req[q].pc = "syncRead" /\ AfterSync(q)
    <2>1. req[q].op # "create"
      BY <1>4, Holds
    <2>. QED BY <1>1, <1>4, <2>1, AfterSyncs, RequestsOnly DEF DBFails
  <1>. QED BY <1>2, <1>3, <1>4 DEF DBFails

LEMMA K8sFailsStep == ASSUME IInv, NEW q \in Reqs, K8sFails(q) PROVE IInv'
  <1>. USE DEF IInv
  <1>1. validated' = validated /\ trouble' \subseteq {"overlap", "db", "k8s", "badInput"}
    BY DEF K8sFails, TypeOK
  <1>2. CASE Finish(q)
    BY <1>1, <1>2, Ends, RequestsOnly DEF K8sFails
  <1>3. CASE req[q].pc = "writeCR" /\ Goto(q, "rollback")
    BY <1>1, <1>3, Moves, RequestsOnly DEF K8sFails, Steps
  <1>4. CASE req[q].pc = "dropArchiveCR" /\ Goto(q, "syncRead")
    BY <1>1, <1>4, Moves, RequestsOnly DEF K8sFails, Steps
  <1>5. CASE req[q].pc = "syncWrite" /\ AfterSync(q)
    <2>1. req[q].op # "create"
      BY <1>5, Holds
    <2>. QED BY <1>1, <1>5, <2>1, AfterSyncs, RequestsOnly DEF K8sFails
  <1>. QED BY <1>2, <1>3, <1>4, <1>5 DEF K8sFails

-----------------------------------------------------------------------------
(***************************************************************************)
(* The invariant.                                                          *)
(***************************************************************************)
LEMMA InitInv == Init => IInv
  <1>. SUFFICES ASSUME Init PROVE IInv
    OBVIOUS
  <1>1. \A q \in Reqs : Good(req[q], validated)
    BY IdleGood DEF Init
  <1>2. TypeOK
    BY <1>1, CatalogAssumption DEF Init, TypeOK, Good
  <1>. QED BY <1>1, <1>2 DEF Init, IInv, RequestInv, RowInv, ExposedWasValidated, Good

LEMMA NextInv == IInv /\ [Next]_vars => IInv'
  <1>. SUFFICES ASSUME IInv, [Next]_vars PROVE IInv'
    OBVIOUS
  <1>1. CASE UNCHANGED vars
    BY <1>1 DEF vars, tables, IInv, TypeOK, RequestInv, RowInv, ExposedWasValidated
  <1>2. ASSUME NEW q \in Reqs, Handle(q) PROVE IInv'
    <2>1. CASE Arrive(q) \/ ReadStep(q) \/ CreateInsert(q) \/ CopyScan(q) \/ CopyInsert(q)
      BY <2>1, ArriveStep, ReadSteps, CreateStep, ScanSteps, CopyInsertStep
    <2>2. CASE ValidateScan(q) \/ ValidateRecord(q) \/ PublishSet(q) \/ PublishWriteCR(q)
               \/ PublishRollback(q) \/ UnpublishSet(q) \/ UnpublishDropCR(q)
      BY <2>2, ScanSteps, ValidateRecordStep, PublishSetStep, PublishWriteCRStep,
         PublishRollbackStep, UnpublishSetStep, UnpublishDropCRStep
    <2>3. CASE SyncRead(q) \/ SyncWrite(q) \/ MutateApply(q) \/ MutateReset(q)
               \/ AddInstanceRejected(q)
      BY <2>3, SyncReadStep, SyncWriteStep, MutateApplyStep, MutateResetStep,
         AddInstanceRejectedStep
    <2>4. CASE UpdateRead(q) \/ UpdateCheckName(q) \/ UpdateRename(q) \/ UpdateSave(q)
               \/ UpdateReset(q)
      BY <2>4, UpdateReadStep, UpdateCheckNameStep, UpdateRenameStep, UpdateSaveStep,
         UpdateResetStep
    <2>5. CASE DeleteDropCR(q) \/ DeleteDropRow(q) \/ ReplaceReadTarget(q) \/ ReplaceSwap(q)
               \/ ReplaceDropArchiveCR(q) \/ ReplaceDropSourceCR(q)
      BY <2>5, DeleteDropCRStep, DeleteDropRowStep, ReplaceReadTargetStep, ReplaceSwapStep,
         ReplaceDropArchiveCRStep, ReplaceDropSourceCRStep
    <2>6. CASE DBFails(q) \/ K8sFails(q)
      BY <2>6, DBFailsStep, K8sFailsStep
    <2>. QED BY <1>2, <2>1, <2>2, <2>3, <2>4, <2>5, <2>6 DEF Handle, ReadStep
  <1>. QED BY <1>1, <1>2 DEF Next

THEOREM Invariance == Spec => []IInv
  BY InitInv, NextInv, PTL DEF Spec

(***************************************************************************)
(* Every variable stays in its type.                                       *)
(***************************************************************************)
THEOREM TypeCorrect == Spec => []TypeOK
  <1>1. IInv => TypeOK
    BY DEF IInv
  <1>. QED BY <1>1, Invariance, PTL

(***************************************************************************)
(* No catalog is ever published that no validation recorded as valid:      *)
(* Publish and ReplaceCatalog act on stale rows, and that is why the       *)
(* invariant speaks of the snapshots too.                                  *)
(***************************************************************************)
THEOREM OnlyValidatedArePublished == Spec => []PublishedWasValidated
  <1>1. IInv => PublishedWasValidated
    BY DEF IInv, RowInv, Vouched, PublishedWasValidated, Published, Live
  <1>. QED BY <1>1, Invariance, PTL

(***************************************************************************)
(* No CR ever points at a catalog that no validation recorded as valid.    *)
(***************************************************************************)
THEOREM OnlyValidatedAreExposed == Spec => []ExposedWasValidated
  <1>1. IInv => ExposedWasValidated
    BY DEF IInv
  <1>. QED BY <1>1, Invariance, PTL

-----------------------------------------------------------------------------
(***************************************************************************)
(* The lifecycle implements DiscoveryBoard.  A step that changes rows only *)
(* is a Regrant, because what it publishes has been validated; one that    *)
(* changes a CR posts or clears one name; recording a verdict approves.    *)
(***************************************************************************)
LEMMA RowsStep ==
  ASSUME IInv, IInv', UNCHANGED <<cr, validated>>
  PROVE  [Board!Next]_Board!boardVars
  <1>. DEFINE on == Published'
              off == Published \ Published'
  <1>1. on \subseteq validated /\ on \in SUBSET Cats /\ off \in SUBSET Cats
    BY DEF IInv, RowInv, Vouched, Published, Live
  <1>2. Published' = (Published \cup on) \ off
    OBVIOUS
  <1>3. Board!Regrant(on, off)
    BY <1>1, <1>2 DEF Board!Regrant
  <1>. QED BY <1>1, <1>3 DEF Board!Next

LEMMA ClusterStep ==
  ASSUME IInv, IInv', UNCHANGED <<row, validated>>,
         NEW n \in Names, NEW x, cr' = [cr EXCEPT ![n] = x]
  PROVE  [Board!Next]_Board!boardVars
  <1>. DEFINE view == [m \in Names |-> IF cr[m] = NoCR THEN None ELSE cr[m].source]
  <1>1. Published' = Published
    BY DEF Published, Live
  <1>2. cr'[n] = x /\ \A m \in Names \ {n} : cr'[m] = cr[m]
    BY DEF IInv, TypeOK
  <1>3. CASE x = NoCR
    <2>0. \A m \in Names : (IF cr'[m] = NoCR THEN None ELSE cr'[m].source)
                            = IF m = n THEN None ELSE view[m]
      BY <1>2, <1>3
    <2>1. view' = [view EXCEPT ![n] = None]
      BY <2>0
    <2>2. Board!Clear(n)
      BY <1>1, <2>1 DEF Board!Clear
    <2>. QED BY <2>2 DEF Board!Next
  <1>4. CASE x # NoCR
    <2>0. \A m \in Names : (IF cr'[m] = NoCR THEN None ELSE cr'[m].source)
                            = IF m = n THEN x.source ELSE view[m]
      BY <1>2, <1>4
    <2>1. view' = [view EXCEPT ![n] = x.source]
      BY <2>0
    <2>2. x.source \in validated /\ x.source \in Cats
      BY <1>2, <1>4 DEF IInv, ExposedWasValidated, TypeOK
    <2>3. Board!Post(n, x.source)
      BY <1>1, <2>1, <2>2 DEF Board!Post
    <2>. QED BY <2>2, <2>3 DEF Board!Next
  <1>. QED BY <1>3, <1>4

LEMMA VerdictStep ==
  ASSUME IInv, NEW q \in Reqs, ValidateRecord(q)
  PROVE  [Board!Next]_Board!boardVars
  <1>. DEFINE c == req[q].snap.id
  <1>1. Published' = Published
    <2>1. CASE c \in Live /\ row' = WithStatus(c, Verdict(req[q]))
      <3>. DEFINE x == [row[c] EXCEPT !.status = Verdict(req[q])]
      <3>1. row' = [row EXCEPT ![c] = x] /\ c \in Cats /\ row[c] # NoRow
        BY <2>1 DEF WithStatus, Live
      <3>2. x \in Row /\ x.published = row[c].published
        BY <3>1 DEF IInv, TypeOK, Row, Verdict, Status
      <3>. HIDE DEF x
      <3>3. \A d \in Cats : /\ row'[d] # NoRow <=> row[d] # NoRow
                            /\ row'[d] # NoRow => row'[d].published = row[d].published
        BY <3>1, <3>2, AbsentAssumption DEF IInv, TypeOK
      <3>. QED BY <3>3 DEF Published, Live
    <2>2. CASE row' = row
      BY <2>2 DEF Published, Live
    <2>. QED BY <2>1, <2>2 DEF ValidateRecord
  <1>2. cr' = cr /\ c \in Cats
    BY Holds DEF ValidateRecord, At
  <1>3. validated' = validated \/ validated' = validated \cup {c}
    BY DEF ValidateRecord
  <1>4. CASE validated' = validated
    BY <1>1, <1>2, <1>4 DEF Board!boardVars
  <1>5. CASE validated' = validated \cup {c}
    <2>1. Board!Approve(c)
      BY <1>1, <1>2, <1>5 DEF Board!Approve
    <2>. QED BY <1>2, <2>1 DEF Board!Next
  <1>. QED BY <1>3, <1>4, <1>5

LEMMA BoardStep == IInv /\ IInv' /\ [Next]_vars => [Board!Next]_Board!boardVars
  <1>. SUFFICES ASSUME IInv, IInv', [Next]_vars PROVE [Board!Next]_Board!boardVars
    OBVIOUS
  <1>1. CASE UNCHANGED vars
    BY <1>1, RowsStep DEF vars
  <1>2. ASSUME NEW q \in Reqs, Handle(q) PROVE [Board!Next]_Board!boardVars
    <2>1. CASE ValidateRecord(q)
      BY <2>1, VerdictStep
    <2>2. CASE UNCHANGED <<cr, validated>>
      BY <2>2, RowsStep
    <2>3. CASE PublishWriteCR(q)
      BY <2>3, ClusterStep, Holds DEF PublishWriteCR, At, Row, tables
    <2>4. CASE UnpublishDropCR(q)
      BY <2>4, ClusterStep, Holds DEF UnpublishDropCR, At, Row, tables
    <2>5. CASE DeleteDropCR(q)
      BY <2>5, ClusterStep, Holds DEF DeleteDropCR, At, Row, tables
    <2>6. CASE SyncWrite(q)
      <3>1. req[q].snap2.row.name \in Names
        BY <2>6, Holds DEF SyncWrite, Good, WellFormed, Snap, Row
      <3>. QED BY <2>6, <3>1, ClusterStep DEF SyncWrite, tables
    <2>7. CASE ReplaceDropArchiveCR(q)
      <3>1. req[q].archive \in Names
        BY <2>7, Holds DEF ReplaceDropArchiveCR, At, Good, WellFormed
      <3>. QED BY <2>7, <3>1, ClusterStep DEF ReplaceDropArchiveCR, tables
    <2>8. CASE ReplaceDropSourceCR(q)
      <3>1. req[q].name \in Names
        BY <2>8, Holds DEF ReplaceDropSourceCR, At, Good, WellFormed
      <3>. QED BY <2>8, <3>1, ClusterStep DEF ReplaceDropSourceCR, tables
    <2>. QED
      BY <1>2, <2>1, <2>2, <2>3, <2>4, <2>5, <2>6, <2>7, <2>8
      DEF Handle, Arrive, ReadMisses, CreateInsert, CopyRead, CopyScan, CopyInsert,
          ValidateRead, ValidateScan, PublishRead, PublishSet, PublishRollback,
          UnpublishRead, UnpublishSet, SyncRead, MutateRead, MutateApply, MutateReset,
          AddInstanceRejected, UpdateRead, UpdateCheckName, UpdateRename, UpdateSave,
          UpdateReset, DeleteRead, DeleteDropRow, ReplaceRead, ReplaceReadTarget,
          ReplaceSwap, DBFails, K8sFails
  <1>. QED BY <1>1, <1>2 DEF Next

(***************************************************************************)
(* Every behaviour of the lifecycle, seen through its published rows and   *)
(* its CRs, is one of the board: consumers only ever find approved         *)
(* catalogs, one name changes at a time, and approval is never lost.       *)
(***************************************************************************)
THEOREM Refinement == Spec => ImplementsBoard
  <1>1. Init => Board!Init
    BY DEF Init, Board!Init, Published, Live
  <1>. QED BY <1>1, Invariance, BoardStep, PTL DEF Spec, ImplementsBoard, Board!Spec

=============================================================================
