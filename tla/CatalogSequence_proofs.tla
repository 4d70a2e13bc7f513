----------------------- MODULE CatalogSequence_proofs -----------------------
(***************************************************************************)
(* Proofs about CatalogPublish while requests come one at a time, for any  *)
(* catalogs, names, contents and schemas: what the cluster shows, what a   *)
(* status says of the contents, and what may change of a published         *)
(* catalog.                                                                *)
(***************************************************************************)
EXTENDS CatalogPublish_proofs

Single == \A p, q \in Reqs : req[p].pc # "idle" /\ req[q].pc # "idle" => p = q

NamesUnique == \A c, d \in Live : row[c].name = row[d].name => c = d

LiveUsed == Live \subseteq used

(***************************************************************************)
(* What the snapshots of the one request at work say of the row it works   *)
(* on: it is the row, or the row but for what the request has written.     *)
(***************************************************************************)
Unwritten(r) ==
    \/ r.pc \in {"scan", "record", "setPublished", "setUnpublished", "apply", "readTarget",
                 "checkName", "rename", "swap", "dropRow"}
    \/ r.op = "copy" /\ r.pc = "insert"
    \/ r.op = "delete" /\ r.pc = "dropCR"

RowIs(c, value) == c \in Live /\ row[c] = value

Flagged(s, b) == [s EXCEPT !.published = b]

Named(s, n) == [s EXCEPT !.name = n]

SnapCurrent(r) ==
    LET c == r.snap.id
        s == r.snap.row
    IN /\ r.snap # NoSnap => s.name = r.name
       /\ Unwritten(r) => RowIs(c, s)
       /\ r.op = "publish" /\ r.pc \in {"writeCR", "rollback"} =>
            RowIs(c, Flagged(s, TRUE))
       /\ r.op = "unpublish" /\ r.pc = "dropCR" => RowIs(c, Flagged(s, FALSE))
       /\ r.pc = "save" => RowIs(c, Named(s, NameAfter(r)))
       /\ r.pc \in {"checkName", "rename"} => Renames(r)
       /\ r.op = "delete" /\ r.pc = "dropRow" => (s.published => cr[r.name] = NoCR)
       /\ r.pc = "record" \/ (r.op = "copy" /\ r.pc = "insert") => r.seen = data[c]
       /\ r.pc = "swap" => RowIs(r.snap2.id, r.snap2.row) /\ r.snap2.row.name = r.other
       /\ r.pc = "syncWrite" => RowIs(r.snap2.id, r.snap2.row) /\ r.snap2.row.name = SyncName(r)

(***************************************************************************)
(* A published catalog is in the hands of a SuperAdmin, who may not rename *)
(* or re-pin it.                                                           *)
(***************************************************************************)
Mutates(r) == r.op \in {"mutate", "addInstance"}

Guarded(r) ==
    /\ Mutates(r) /\ r.pc = "read" =>
         \A c \in Owners(r.name) : row[c].published => r.role = "SuperAdmin"
    /\ Mutates(r) /\ r.pc = "apply" =>
         (r.snap.row.published => r.role = "SuperAdmin")
    /\ r.pc \in {"checkName", "rename", "save"} =>
         (r.snap.row.published => r.other = None /\ r.cv = None)

(***************************************************************************)
(* A replace has given away the name it was called on.                     *)
(***************************************************************************)
Handed(r) ==
    r.op = "replace" =>
      /\ r.name # r.other
      /\ r.pc \in {"dropArchiveCR", "syncRead", "syncWrite", "dropSourceCR"} => Owners(r.name) = {}
      /\ r.pc \in {"dropArchiveCR", "syncRead", "syncWrite"} =>
           r.snap.id \in Owners(r.other) /\ row[r.snap.id].published
      /\ r.pc = "dropArchiveCR" => \A c \in Owners(r.archive) : ~row[c].published

Current(r) == SnapCurrent(r) /\ Guarded(r) /\ Handed(r)

(***************************************************************************)
(* What the request at work still owes: the reset of a status, the CR of a *)
(* published catalog, and the CRs that are not what the tables say.        *)
(***************************************************************************)
OwesReset(r, c) == r.pc = "reset" /\ r.snap.id = c

OwesCR(r, c) ==
    /\ r.snap # NoSnap /\ r.snap.id = c
    /\ \/ r.op = "publish" /\ r.pc \in {"writeCR", "rollback"}
       \/ r.op = "delete" /\ r.pc = "dropRow"

Owes(r, n) ==
    \/ r.op = "publish" /\ r.pc = "writeCR" /\ n = r.name
    \/ r.op = "unpublish" /\ r.pc = "dropCR" /\ n = r.name
    \/ r.op = "delete" /\ r.pc = "dropRow" /\ n = r.name /\ cr[n] = NoCR
    \/ r.op = "replace" /\ r.pc \in {"dropArchiveCR", "syncRead", "syncWrite"} /\ n = r.other
    \/ /\ r.op = "replace" /\ r.pc \in {"dropArchiveCR", "syncRead", "syncWrite", "dropSourceCR"}
       /\ n = r.name /\ r.snap.row.published

VerdictOK(c) == row[c].status = "valid" => <<data[c], row[c].cv>> \in Conforming

Owed(r) ==
    /\ trouble \subseteq {"k8s"} => \A c \in Live : VerdictOK(c) \/ OwesReset(r, c)
    /\ trouble \subseteq {"badInput", "k8s"} =>
         \A c \in Published : cr[row[c].name] # NoCR \/ OwesCR(r, c)
    /\ trouble \subseteq {"badInput"} => \A n \in Names : Mirrors(n) \/ Owes(r, n)
    /\ r.pc = "rollback" => "k8s" \in trouble

(***************************************************************************)
(* The invariant: at most one request is at work, and as long as nothing   *)
(* has overlapped every handler finds the state it left.  A request at     *)
(* rest owes nothing.                                                      *)
(***************************************************************************)
Undisturbed(r) == NamesUnique /\ LiveUsed /\ Current(r) /\ Owed(r)

Alone(q) == \A p \in Reqs \ {q} : req[p].pc = "idle"

Sequential ==
    /\ Single /\ NamesUnique /\ LiveUsed
    /\ \A q \in Reqs : Current(req[q]) /\ (Alone(q) => Owed(req[q]))
    /\ Quiescent => Owed(Idle)

SeqInv == "overlap" \notin trouble => Sequential

-----------------------------------------------------------------------------
(***************************************************************************)
(* A handler at one of these steps owes nothing.                           *)
(***************************************************************************)
Free == {"idle", "read", "readTarget", "insert", "scan", "record", "setPublished",
         "setUnpublished", "checkName", "rename", "save", "apply", "swap"}

LEMMA Nothing ==
  ASSUME NEW r, r.pc \in Free
  PROVE  /\ \A c : ~OwesReset(r, c) /\ ~OwesCR(r, c)
         /\ \A n : ~Owes(r, n)
         /\ \A n : ~Owes(r, n)'
         /\ r.pc # "rollback"
  BY DEF Free, OwesReset, OwesCR, Owes

LEMMA IdleCurrent == ASSUME NEW r, r = Idle PROVE Current(r) /\ Current(r)'
  BY DEF Idle, Call, Current, SnapCurrent, Unwritten, Guarded, Mutates, Handed

(***************************************************************************)
(* A handler that has ended.                                               *)
(***************************************************************************)
LEMMA Finished ==
  ASSUME TypeOK, NEW q \in Reqs, Finish(q), NEW r, req' = [req EXCEPT ![q] = r]
  PROVE  r = Idle /\ r.pc = "idle" /\ r.pc \in Free /\ Current(r) /\ Current(r)'
  <1>1. r = Idle
    BY DEF TypeOK, Finish
  <1>2. r.pc = "idle" /\ r.pc \in Free
    BY <1>1 DEF Idle, Call, Free
  <1>. QED BY <1>1, <1>2, IdleCurrent

(***************************************************************************)
(* Steps that leave the tables and the cluster alone: what was owed must   *)
(* still be, unless a failure has released it.                             *)
(***************************************************************************)
LEMMA OnlyRequest ==
  ASSUME NEW o, Undisturbed(o), UNCHANGED <<tables, cr>>, trouble \subseteq trouble',
         NEW r, Current(r),
         trouble' \subseteq {"k8s"} => \A c : OwesReset(o, c) => OwesReset(r, c),
         trouble' \subseteq {"badInput", "k8s"} => \A c : OwesCR(o, c) => OwesCR(r, c),
         trouble' \subseteq {"badInput"} => \A n : Owes(o, n) => Owes(r, n),
         r.pc = "rollback" => "k8s" \in trouble'
  PROVE  Undisturbed(r)'
  <1>. USE DEF tables, Live, Owners
  <1>1. NamesUnique' /\ LiveUsed'
    BY DEF Undisturbed, NamesUnique, LiveUsed
  <1>2. Current(r)'
    BY DEF Current, SnapCurrent, Guarded, Handed, RowIs, Flagged, Named
  <1>3. Owed(o)
    BY DEF Undisturbed
  <1>4. trouble' \subseteq {"k8s"} => \A c \in Live' : VerdictOK(c)' \/ OwesReset(r, c)
    BY <1>3 DEF Owed, VerdictOK
  <1>5. trouble' \subseteq {"badInput", "k8s"} =>
          \A c \in Published' : cr'[row'[c].name] # NoCR \/ OwesCR(r, c)
    BY <1>3 DEF Owed, Published
  <1>6. trouble' \subseteq {"badInput"} => \A n \in Names : Mirrors(n)' \/ Owes(r, n)'
    <2>1. \A n \in Names : (Mirrors(n)' <=> Mirrors(n)) /\ (Owes(r, n)' <=> Owes(r, n))
      BY DEF Mirrors, Published, Owes
    <2>. QED BY <1>3, <2>1 DEF Owed
  <1>. QED BY <1>1, <1>2, <1>4, <1>5, <1>6 DEF Undisturbed, Owed, OwesReset, OwesCR

(***************************************************************************)
(* In particular a handler that owed nothing may end or move on.           *)
(***************************************************************************)
LEMMA FreeStep ==
  ASSUME NEW o, Undisturbed(o), o.pc \in Free, UNCHANGED <<tables, cr>>,
         trouble \subseteq trouble', NEW r, Current(r), r.pc # "rollback"
  PROVE  Undisturbed(r)'
  BY Nothing, OnlyRequest

-----------------------------------------------------------------------------
(***************************************************************************)
(* Steps that only read.                                                   *)
(***************************************************************************)
LEMMA ArriveUndisturbed ==
  ASSUME IInv, NEW q \in Reqs, Undisturbed(req[q]), Arrive(q),
         NEW r, req' = [req EXCEPT ![q] = r]
  PROVE  Undisturbed(r)'
  <1>1. r \in OpenCalls \cup GuardedCalls /\ Admits(r)
    BY DEF Arrive, IInv, TypeOK
  <1>2. /\ r.pc \in {"read", "insert"} /\ r.snap = NoSnap
        /\ r.op = "replace" => r.name # r.other
        /\ Mutates(r) => r \in GuardedCalls
        /\ r.op = "copy" => r.pc = "read"
    BY <1>1 DEF OpenCalls, GuardedCalls, Call, Mutates
  <1>3. Guarded(r)
    BY <1>1, <1>2 DEF Admits, Guarded
  <1>4. SnapCurrent(r) /\ Handed(r)
    BY <1>2 DEF SnapCurrent, Unwritten, Handed
  <1>5. req[q].pc \in Free /\ trouble \subseteq trouble' /\ UNCHANGED <<tables, cr>>
    BY DEF Arrive, Free
  <1>. QED BY <1>2, <1>3, <1>4, <1>5, FreeStep DEF Current

(***************************************************************************)
(* What a handler has just read is current, and the catalog it is called   *)
(* on is the one it has read.                                              *)
(***************************************************************************)
LEMMA ReadUndisturbed ==
  ASSUME IInv, NEW q \in Reqs, Undisturbed(req[q]), ReadStep(q),
         NEW r, req' = [req EXCEPT ![q] = r]
  PROVE  Undisturbed(r)'
  <1>. USE DEF IInv
  <1>1. UNCHANGED <<tables, cr, validated, trouble>> /\ req[q].pc = "read"
    BY DEF ReadStep, ReadMisses, CopyRead, ValidateRead, PublishRead, UnpublishRead,
           MutateRead, DeleteRead, ReplaceRead, At
  <1>2. req[q].pc \in Free
    BY <1>1 DEF Free
  <1>3. CASE Finish(q)
    <2>1. r.pc = "idle" /\ Current(r)
      BY <1>3, Finished
    <2>. QED BY <1>1, <1>2, <2>1, FreeStep
  <1>4. ASSUME NEW c \in Owners(req[q].name),
               NEW pc \in {"scan", "setPublished", "setUnpublished", "apply", "dropCR",
                           "dropRow", "readTarget"}, Remember(q, c, pc),
               pc = "apply" <=> Mutates(req[q]),
               pc = "dropCR" => req[q].op = "delete",
               pc = "dropRow" => ~row[c].published
        PROVE  Undisturbed(r)'
    <2>1. /\ r.pc = pc /\ r.op = req[q].op /\ r.role = req[q].role /\ r.name = req[q].name
          /\ r.other = req[q].other /\ r.snap = SnapOf(c)
      <3>1. req[q] \in Request
        BY DEF TypeOK
      <3>2. r = [req[q] EXCEPT !.snap = SnapOf(c), !.pc = pc]
        BY <1>4, <3>1 DEF TypeOK, Remember, Request
      <3>. QED BY <3>1, <3>2 DEF Request
    <2>2. c \in Live /\ row[c].name = r.name
      BY <2>1 DEF Owners
    <2>3. r.snap.id = c /\ r.snap.row = row[c]
      BY <2>1 DEF SnapOf
    <2>4. Guarded(req[q]) /\ Handed(req[q])
      BY DEF Undisturbed, Current
    <2>5. Guarded(r) /\ Handed(r)
      BY <1>1, <1>4, <2>1, <2>3, <2>4 DEF Guarded, Handed, Mutates
    <2>6. SnapCurrent(r)
      BY <1>4, <2>1, <2>2, <2>3 DEF SnapCurrent, Unwritten, RowIs
    <2>7. r.pc # "rollback"
      BY <2>1
    <2>. QED BY <1>1, <1>2, <2>5, <2>6, <2>7, FreeStep DEF Current
  <1>5. \/ Finish(q)
        \/ \E c \in Owners(req[q].name) :
             \E pc \in {"scan", "setPublished", "setUnpublished", "apply", "dropCR",
                        "dropRow", "readTarget"} :
               /\ Remember(q, c, pc)
               /\ pc = "apply" <=> Mutates(req[q])
               /\ pc = "dropCR" => req[q].op = "delete"
               /\ pc = "dropRow" => ~row[c].published
    BY DEF ReadStep, ReadMisses, CopyRead, ValidateRead, PublishRead, UnpublishRead,
           MutateRead, DeleteRead, ReplaceRead, At, Mutates
  <1>. QED BY <1>3, <1>4, <1>5

(***************************************************************************)
(* The scans of CopyCatalog and Validate see the contents as they are.     *)
(***************************************************************************)
LEMMA ScanUndisturbed ==
  ASSUME IInv, NEW q \in Reqs, Undisturbed(req[q]), CopyScan(q) \/ ValidateScan(q),
         NEW r, req' = [req EXCEPT ![q] = r]
  PROVE  Undisturbed(r)'
  <1>1. PICK pc \in {"insert", "record"} :
           /\ req[q].pc = "scan" /\ req[q].op \in {"copy", "validate"}
           /\ req' = [req EXCEPT ![q].seen = data[req[q].snap.id], ![q].pc = pc]
           /\ UNCHANGED <<tables, cr, validated, trouble>>
    BY DEF CopyScan, ValidateScan, At
  <1>2. req[q] \in Request
    BY DEF IInv, TypeOK
  <1>3. r = [req[q] EXCEPT !.seen = data[req[q].snap.id], !.pc = pc]
    BY <1>1, <1>2 DEF IInv, TypeOK, Request
  <1>4. /\ r.pc = pc /\ r.op = req[q].op /\ r.name = req[q].name /\ r.snap = req[q].snap
        /\ r.seen = data[req[q].snap.id]
    BY <1>2, <1>3 DEF Request
  <1>5. SnapCurrent(r)
    BY <1>1, <1>4 DEF Undisturbed, Current, SnapCurrent, Unwritten
  <1>6. Guarded(r) /\ Handed(r)
    BY <1>1, <1>4 DEF Guarded, Handed, Mutates
  <1>7. req[q].pc \in Free /\ r.pc # "rollback"
    BY <1>1, <1>4 DEF Free
  <1>. QED BY <1>1, <1>5, <1>6, <1>7, FreeStep DEF Current

LEMMA UpdateReadUndisturbed ==
  ASSUME IInv, NEW q \in Reqs, Undisturbed(req[q]), UpdateRead(q),
         NEW r, req' = [req EXCEPT ![q] = r]
  PROVE  Undisturbed(r)'
  <1>. USE DEF IInv
  <1>1. UNCHANGED <<tables, cr, validated, trouble>> /\ At(q, "update", "read")
    BY DEF UpdateRead
  <1>2. req[q].pc \in Free
    BY <1>1 DEF Free, At
  <1>3. CASE r.pc = "idle" /\ Current(r)
    BY <1>1, <1>2, <1>3, FreeStep
  <1>4. CASE Finish(q)
    BY <1>3, <1>4, Finished
  <1>5. ASSUME NEW c \in Owners(req[q].name), NEW x, x = [req[q] EXCEPT !.snap = SnapOf(c)],
               Allowed(x, c),
               Advance(q, x, IF Renames(x) THEN "checkName" ELSE AfterRename(x))
        PROVE  Undisturbed(r)'
    <2>. DEFINE pc == IF Renames(x) THEN "checkName" ELSE AfterRename(x)
    <2>1. req[q] \in Request
      BY DEF TypeOK
    <2>2. /\ x.op = "update" /\ x.name = req[q].name /\ x.snap = SnapOf(c)
          /\ x = [x EXCEPT !.snap = SnapOf(c)]
      BY <1>1, <1>5, <2>1 DEF Request, At
    <2>3. c \in Live /\ row[c].name = x.name /\ row[c] \in Row
      BY <2>2, Reads DEF Owners
    <2>4. x.snap.id = c /\ x.snap.row = row[c]
      BY <2>2 DEF SnapOf
    <2>5. pc \in {"idle", "checkName", "save"} /\ (pc = "checkName" <=> Renames(x))
      BY DEF AfterRename, AfterSave, Saves
    <2>6. CASE pc = "idle"
      BY <1>3, <1>5, <2>6, Finished DEF Advance, Finish
    <2>7. CASE pc # "idle"
      <3>1. r = [x EXCEPT !.pc = pc]
        BY <1>5, <2>7 DEF Advance, TypeOK
      <3>2. /\ r.pc = pc /\ r.op = x.op /\ r.name = x.name /\ r.snap = x.snap
            /\ r.other = x.other /\ r.cv = x.cv
        BY <1>5, <2>1, <3>1 DEF Request
      <3>3. Renames(r) = Renames(x) /\ NameAfter(r) = NameAfter(x)
        BY <3>2 DEF Renames, NameAfter
      <3>4. r.pc = "save" => NameAfter(r) = row[c].name
        BY <2>3, <2>5, <3>2, <3>3 DEF NameAfter
      <3>5. Named(row[c], row[c].name) = row[c]
        BY <2>3 DEF Row, Named
      <3>. HIDE DEF pc
      <3>6. SnapCurrent(r)
        BY <2>2, <2>3, <2>4, <2>5, <2>7, <3>2, <3>3, <3>4, <3>5
           DEF SnapCurrent, Unwritten, RowIs
      <3>7. Guarded(r) /\ Handed(r)
        BY <1>5, <2>2, <2>4, <2>5, <3>2 DEF Guarded, Handed, Mutates, Allowed
      <3>8. r.pc # "rollback"
        BY <2>5, <3>2
      <3>. QED BY <1>1, <1>2, <3>6, <3>7, <3>8, FreeStep DEF Current
    <2>. QED BY <2>6, <2>7
  <1>. QED BY <1>4, <1>5 DEF UpdateRead

LEMMA CheckNameUndisturbed ==
  ASSUME IInv, NEW q \in Reqs, Undisturbed(req[q]), UpdateCheckName(q),
         NEW r, req' = [req EXCEPT ![q] = r]
  PROVE  Undisturbed(r)'
  <1>1. UNCHANGED <<tables, cr, validated, trouble>> /\ At(q, "update", "checkName")
    BY DEF UpdateCheckName
  <1>2. req[q].pc \in Free /\ TypeOK
    BY <1>1 DEF Free, At, IInv
  <1>3. CASE Finish(q)
    BY <1>1, <1>2, <1>3, Finished, FreeStep
  <1>4. CASE Goto(q, "rename")
    <2>1. req[q] \in Request /\ r = [req[q] EXCEPT !.pc = "rename"]
      BY <1>2, <1>4 DEF Goto, TypeOK
    <2>2. /\ r.pc = "rename" /\ r.op = req[q].op /\ r.name = req[q].name
          /\ r.other = req[q].other /\ r.cv = req[q].cv /\ r.snap = req[q].snap
      BY <2>1 DEF Request
    <2>3. SnapCurrent(r)
      BY <1>1, <2>2 DEF At, Undisturbed, Current, SnapCurrent, Unwritten, Renames
    <2>4. Guarded(r) /\ Handed(r)
      BY <1>1, <2>2 DEF At, Undisturbed, Current, Guarded, Mutates, Handed
    <2>. QED BY <1>1, <1>2, <2>2, <2>3, <2>4, FreeStep DEF Current
  <1>. QED BY <1>3, <1>4 DEF UpdateCheckName

LEMMA ReadTargetUndisturbed ==
  ASSUME IInv, NEW q \in Reqs, Undisturbed(req[q]), ReplaceReadTarget(q),
         NEW r, req' = [req EXCEPT ![q] = r]
  PROVE  Undisturbed(r)'
  <1>1. UNCHANGED <<tables, cr, validated, trouble>> /\ At(q, "replace", "readTarget")
    BY DEF ReplaceReadTarget
  <1>2. req[q].pc \in Free /\ TypeOK
    BY <1>1 DEF Free, At, IInv
  <1>3. CASE Finish(q)
    BY <1>1, <1>2, <1>3, Finished, FreeStep
  <1>4. ASSUME NEW c \in Owners(req[q].other),
               req' = [req EXCEPT ![q].snap2 = SnapOf(c), ![q].pc = "swap"]
        PROVE  Undisturbed(r)'
    <2>1. req[q] \in Request
      BY <1>2 DEF TypeOK
    <2>2. r = [req[q] EXCEPT !.snap2 = SnapOf(c), !.pc = "swap"]
      BY <1>2, <1>4, <2>1 DEF TypeOK, Request
    <2>3. /\ r.pc = "swap" /\ r.op = req[q].op /\ r.name = req[q].name
          /\ r.other = req[q].other /\ r.snap = req[q].snap /\ r.snap2 = SnapOf(c)
      BY <2>1, <2>2 DEF Request
    <2>4. RowIs(r.snap2.id, r.snap2.row) /\ r.snap2.row.name = r.other
      BY <2>3 DEF RowIs, Owners, SnapOf
    <2>5. SnapCurrent(r)
      BY <1>1, <2>3, <2>4 DEF At, Undisturbed, Current, SnapCurrent, Unwritten
    <2>6. Guarded(r) /\ Handed(r)
      BY <1>1, <2>3 DEF At, Undisturbed, Current, Guarded, Mutates, Handed
    <2>. QED BY <1>1, <1>2, <2>3, <2>5, <2>6, FreeStep DEF Current
  <1>. QED BY <1>3, <1>4 DEF ReplaceReadTarget

(***************************************************************************)
(* SyncCR reads the row it is called on again.  A replace always finds it  *)
(* published; so only a handler that owes nothing ends here.               *)
(***************************************************************************)
LEMMA SyncReadUndisturbed ==
  ASSUME IInv, NEW q \in Reqs, Undisturbed(req[q]), SyncRead(q),
         NEW r, req' = [req EXCEPT ![q] = r]
  PROVE  Undisturbed(r)'
  <1>. DEFINE o == req[q]
  <1>1. UNCHANGED <<tables, cr, validated, trouble>> /\ o.pc = "syncRead"
    BY DEF SyncRead
  <1>2. TypeOK /\ o \in Request /\ SnapCurrent(o) /\ Guarded(o) /\ Handed(o)
    BY DEF IInv, TypeOK, Undisturbed, Current
  <1>3. ASSUME {c \in Owners(SyncName(o)) : row[c].published} = {}, AfterSync(q)
        PROVE  Undisturbed(r)'
    <2>1. o.op # "replace"
      BY <1>1, <1>2, <1>3 DEF Handed, SyncName
    <2>2. r.pc = "idle" /\ Current(r)
      BY <1>2, <1>3, <2>1, Finished DEF AfterSync
    <2>3. /\ \A c : ~OwesReset(o, c) /\ ~OwesCR(o, c)
          /\ \A n : ~Owes(o, n)
      BY <1>1, <2>1 DEF OwesReset, OwesCR, Owes
    <2>. QED BY <1>1, <2>2, <2>3, OnlyRequest
  <1>4. ASSUME NEW c \in Owners(SyncName(o)), row[c].published,
               req' = [req EXCEPT ![q].snap2 = SnapOf(c), ![q].pc = "syncWrite"]
        PROVE  Undisturbed(r)'
    <2>1. r = [o EXCEPT !.snap2 = SnapOf(c), !.pc = "syncWrite"]
      BY <1>2, <1>4 DEF TypeOK, Request
    <2>2. /\ r.pc = "syncWrite" /\ r.op = o.op /\ r.name = o.name
          /\ r.other = o.other /\ r.snap = o.snap /\ r.snap2 = SnapOf(c)
      BY <1>2, <2>1 DEF Request
    <2>3. RowIs(r.snap2.id, r.snap2.row) /\ r.snap2.row.name = SyncName(r)
      BY <2>2 DEF RowIs, Owners, SnapOf, SyncName
    <2>4. SnapCurrent(r)
      BY <1>2, <2>2, <2>3 DEF SnapCurrent, Unwritten
    <2>5. Guarded(r) /\ Handed(r)
      BY <1>1, <1>2, <2>2 DEF Guarded, Mutates, Handed
    <2>6. /\ \A d : ~OwesReset(o, d) /\ ~OwesCR(o, d)
          /\ \A n : Owes(o, n) => Owes(r, n)
      BY <1>1, <2>2 DEF OwesReset, OwesCR, Owes
    <2>. QED BY <1>1, <2>2, <2>4, <2>5, <2>6, OnlyRequest DEF Current
  <1>. QED BY <1>3, <1>4 DEF SyncRead

(***************************************************************************)
(* A handler that goes on after SyncCR is a replace.                       *)
(***************************************************************************)
LEMMA AfterSyncCases ==
  ASSUME IInv, NEW q \in Reqs, AfterSync(q), Current(req[q]),
         req[q].pc \in {"syncRead", "syncWrite"},
         NEW r, req' = [req EXCEPT ![q] = r]
  PROVE  \/ r.pc = "idle" /\ ~(req[q].op = "replace" /\ req[q].snap.row.published)
         \/ /\ r.pc = "dropSourceCR" /\ r.op = "replace" /\ req[q].op = "replace"
            /\ r.name = req[q].name /\ r.other = req[q].other /\ r.snap = req[q].snap
            /\ req[q].snap.row.published
            /\ SnapCurrent(r) /\ Guarded(r) /\ r.name # r.other /\ Owners(r.name) = {}
  <1>. DEFINE o == req[q]
  <1>1. TypeOK /\ o \in Request
    BY DEF IInv, TypeOK
  <1>2. CASE ~(o.op = "replace" /\ o.snap.row.published)
    <2>1. Finish(q)
      BY <1>2 DEF AfterSync
    <2>. QED BY <1>1, <1>2, <2>1, Finished
  <1>3. CASE o.op = "replace" /\ o.snap.row.published
    <2>1. r = [o EXCEPT !.pc = "dropSourceCR"]
      BY <1>1, <1>3 DEF AfterSync, Goto, TypeOK
    <2>2. /\ r.pc = "dropSourceCR" /\ r.op = o.op /\ r.name = o.name
          /\ r.other = o.other /\ r.snap = o.snap
      BY <1>1, <2>1 DEF Request
    <2>3. SnapCurrent(o) /\ Handed(o)
      BY DEF Current
    <2>4. SnapCurrent(r) /\ Guarded(r)
      BY <1>3, <2>2, <2>3 DEF SnapCurrent, Unwritten, Guarded, Mutates
    <2>5. r.name # r.other /\ Owners(r.name) = {}
      BY <1>3, <2>2, <2>3 DEF Handed
    <2>. QED BY <1>3, <2>2, <2>4, <2>5
  <1>. QED BY <1>2, <1>3

LEMMA AfterSyncUndisturbed ==
  ASSUME IInv, NEW q \in Reqs, AfterSync(q), Undisturbed(req[q]),
         req[q].pc \in {"syncRead", "syncWrite"}, UNCHANGED <<tables, cr>>,
         trouble \subseteq trouble', trouble' \cap {"db", "k8s"} # {},
         NEW r, req' = [req EXCEPT ![q] = r]
  PROVE  Undisturbed(r)'
  <1>1. Current(req[q])
    BY DEF Undisturbed
  <1>2. /\ r.pc \in {"idle", "dropSourceCR"} /\ Current(r)
    <2>1. CASE r.pc = "idle"
      <3>1. Finish(q)
        BY <2>1 DEF AfterSync, Goto, IInv, TypeOK, Request
      <3>. QED BY <2>1, <3>1, Finished DEF IInv
    <2>2. CASE r.pc # "idle"
      BY <1>1, <2>2, AfterSyncCases DEF Current, Handed
    <2>. QED BY <1>1, <2>1, <2>2, AfterSyncCases
  <1>3. \A c : ~OwesReset(req[q], c) /\ (OwesCR(req[q], c) => OwesCR(r, c))
    BY DEF OwesReset, OwesCR
  <1>4. ~(trouble' \subseteq {"badInput"})
    OBVIOUS
  <1>. QED BY <1>2, <1>3, <1>4, OnlyRequest

(***************************************************************************)
(* Failures.  A failing statement ends a handler, and releases it of all;  *)
(* a failing Kubernetes call ends it, sends it on or has it roll back.     *)
(***************************************************************************)
LEMMA DBFailsUndisturbed ==
  ASSUME IInv, NEW q \in Reqs, Undisturbed(req[q]), DBFails(q),
         NEW r, req' = [req EXCEPT ![q] = r]
  PROVE  Undisturbed(r)'
  <1>. DEFINE o == req[q]
  <1>1. UNCHANGED <<tables, cr>> /\ trouble \subseteq trouble' /\ "db" \in trouble'
    BY DEF DBFails
  <1>2. TypeOK /\ o \in Request
    BY DEF IInv, TypeOK
  <1>3. ASSUME Current(r), r.pc # "rollback" PROVE Undisturbed(r)'
    BY <1>1, <1>3, OnlyRequest
  <1>4. CASE Finish(q)
    BY <1>2, <1>3, <1>4, Finished
  <1>5. CASE o.pc = "reset" /\ Mutates(o) /\ Goto(q, "syncRead")
    <2>1. r = [o EXCEPT !.pc = "syncRead"]
      BY <1>2, <1>5 DEF Goto, TypeOK
    <2>2. r.pc = "syncRead" /\ r.op = o.op /\ r.name = o.name /\ r.snap = o.snap
      BY <1>2, <2>1 DEF Request
    <2>3. Current(r)
      BY <1>5, <2>2 DEF Undisturbed, Current, SnapCurrent, Unwritten, Guarded, Mutates, Handed
    <2>. QED BY <1>3, <2>2, <2>3
  <1>6. CASE o.pc = "syncRead" /\ AfterSync(q)
    BY <1>1, <1>6, AfterSyncUndisturbed
  <1>. QED BY <1>4, <1>5, <1>6 DEF DBFails, Mutates

LEMMA K8sFailsUndisturbed ==
  ASSUME IInv, NEW q \in Reqs, Undisturbed(req[q]), K8sFails(q),
         NEW r, req' = [req EXCEPT ![q] = r]
  PROVE  Undisturbed(r)'
  <1>. DEFINE o == req[q]
  <1>1. UNCHANGED <<tables, cr>> /\ trouble \subseteq trouble' /\ "k8s" \in trouble'
    BY DEF K8sFails
  <1>2. TypeOK /\ o \in Request /\ Current(o)
    BY DEF IInv, TypeOK, Undisturbed
  <1>3. ASSUME o.pc # "reset", \A c : OwesCR(o, c) => OwesCR(r, c), Current(r)
        PROVE  Undisturbed(r)'
    BY <1>1, <1>3, OnlyRequest DEF OwesReset
  <1>4. CASE o.pc \in {"dropCR", "dropSourceCR"} /\ Finish(q)
    BY <1>2, <1>3, <1>4, Finished DEF OwesCR
  <1>5. ASSUME NEW pc \in {"rollback", "syncRead"}, Goto(q, pc),
               pc = "rollback" => o.pc = "writeCR", pc = "syncRead" => o.pc = "dropArchiveCR"
        PROVE  Undisturbed(r)'
    <2>1. r = [o EXCEPT !.pc = pc]
      BY <1>2, <1>5 DEF Goto, TypeOK
    <2>2. /\ r.pc = pc /\ r.op = o.op /\ r.name = o.name /\ r.other = o.other
          /\ r.archive = o.archive /\ r.snap = o.snap
      BY <1>2, <2>1 DEF Request
    <2>3. SnapCurrent(r)
      BY <1>2, <1>5, <2>2 DEF Current, SnapCurrent, Unwritten
    <2>4. Guarded(r) /\ Handed(r)
      BY <1>2, <1>5, <2>2 DEF Current, Guarded, Mutates, Handed
    <2>5. \A c : OwesCR(o, c) => OwesCR(r, c)
      BY <1>5, <2>2 DEF OwesCR
    <2>. QED BY <1>3, <1>5, <2>3, <2>4, <2>5 DEF Current
  <1>6. CASE o.pc = "syncWrite" /\ AfterSync(q)
    BY <1>1, <1>6, AfterSyncUndisturbed
  <1>7. CASE o.pc = "writeCR" /\ Goto(q, "rollback")
    BY <1>5, <1>7
  <1>8. CASE o.pc = "dropArchiveCR" /\ Goto(q, "syncRead")
    BY <1>5, <1>8
  <1>. QED BY <1>4, <1>6, <1>7, <1>8 DEF K8sFails

-----------------------------------------------------------------------------
(***************************************************************************)
(* The CR of a name mirrors the tables after a step exactly if it did      *)
(* before, when the step leaves the CR alone and serves the name with the  *)
(* same catalogs at the same pins.                                         *)
(***************************************************************************)
Serves(c, n) == c \in Live /\ row[c].published /\ row[c].name = n

LEMMA MirrorsKept ==
  ASSUME NEW n, cr'[n] = cr[n],
         \A c \in Cats : Serves(c, n)' <=> Serves(c, n),
         \A c \in Cats : Serves(c, n) => row'[c].cv = row[c].cv
  PROVE  Mirrors(n)' <=> Mirrors(n)
  BY DEF Mirrors, Serves, Owners, Published, Live

(***************************************************************************)
(* What it takes for a step to keep the invariant, when the handler ends   *)
(* at it.                                                                  *)
(***************************************************************************)
LEMMA EndsUndisturbed ==
  ASSUME IInv, NEW q \in Reqs, Finish(q), NamesUnique', LiveUsed',
         trouble' \subseteq {"k8s"} => \A c \in Live' : VerdictOK(c)',
         trouble' \subseteq {"badInput", "k8s"} => \A c \in Published' : cr'[row'[c].name] # NoCR,
         trouble' \subseteq {"badInput"} => \A n \in Names : Mirrors(n)',
         NEW r, req' = [req EXCEPT ![q] = r]
  PROVE  Undisturbed(r)'
  <1>1. r.pc \in Free /\ Current(r)'
    BY Finished DEF IInv
  <1>. QED BY <1>1, Nothing DEF Undisturbed, Owed

(***************************************************************************)
(* CreateCatalog and CopyCatalog: a draft under a name nobody has.         *)
(***************************************************************************)
LEMMA InsertUndisturbed ==
  ASSUME IInv, NEW q \in Reqs, Undisturbed(req[q]), req[q].pc \in Free,
         NEW n \in Names, NEW v, NEW d, Insert(q, n, v, d), Finish(q),
         UNCHANGED <<cr, validated, trouble>>,
         NEW r, req' = [req EXCEPT ![q] = r]
  PROVE  Undisturbed(r)'
  <1>1. CASE UNCHANGED tables
    <2>1. r.pc = "idle" /\ Current(r)
      BY Finished DEF IInv
    <2>. QED BY <1>1, <2>1, FreeStep
  <1>2. ASSUME NEW c \in Cats \ used, Owners(n) = {},
               row' = [row EXCEPT ![c] = [name |-> n, cv |-> v, status |-> "draft",
                                          published |-> FALSE]],
               used' = used \cup {c}, data' = [data EXCEPT ![c] = d]
        PROVE  Undisturbed(r)'
    <2>. DEFINE new == [name |-> n, cv |-> v, status |-> "draft", published |-> FALSE]
    <2>1. c \notin Live /\ NamesUnique /\ LiveUsed /\ Owed(req[q])
      BY <1>2 DEF Undisturbed, LiveUsed
    <2>2. /\ row'[c] = new /\ data'[c] = d
          /\ \A e \in Cats \ {c} : row'[e] = row[e] /\ data'[e] = data[e]
      BY <1>2 DEF IInv, TypeOK
    <2>3. new.name = n /\ new.status = "draft" /\ new.published = FALSE
      OBVIOUS
    <2>. HIDE DEF new
    <2>4. Live' \subseteq Live \cup {c} /\ Live \subseteq Live' /\ Live \subseteq Cats
      BY <2>1, <2>2 DEF Live
    <2>5. Published' = Published
      BY <2>1, <2>2, <2>3, <2>4 DEF Published
    <2>6. NamesUnique'
      BY <1>2, <2>1, <2>2, <2>3, <2>4 DEF NamesUnique, Owners
    <2>7. LiveUsed'
      BY <1>2, <2>1, <2>4 DEF LiveUsed
    <2>8. trouble' \subseteq {"k8s"} => \A e \in Live' : VerdictOK(e)'
      BY <2>1, <2>2, <2>3, <2>4, Nothing DEF Owed, VerdictOK
    <2>9. trouble' \subseteq {"badInput", "k8s"} =>
            \A e \in Published' : cr'[row'[e].name] # NoCR
      <3>1. \A e \in Published : row'[e] = row[e]
        BY <2>1, <2>2, <2>4 DEF Published
      <3>2. trouble \subseteq {"badInput", "k8s"} => \A e \in Published : cr[row[e].name] # NoCR
        BY <2>1, Nothing DEF Owed
      <3>. QED BY <2>5, <3>1, <3>2
    <2>10. trouble' \subseteq {"badInput"} => \A m \in Names : Mirrors(m)'
      <3>1. \A m \in Names, e \in Cats : /\ Serves(e, m)' <=> Serves(e, m)
                                         /\ Serves(e, m) => row'[e].cv = row[e].cv
        BY <2>1, <2>2, <2>3, <2>4 DEF Serves, Live
      <3>2. \A m \in Names : Mirrors(m)' <=> Mirrors(m)
        BY <3>1, MirrorsKept
      <3>. QED BY <2>1, <3>2, Nothing DEF Owed
    <2>. QED BY <2>6, <2>7, <2>8, <2>9, <2>10, EndsUndisturbed
  <1>. QED BY <1>1, <1>2 DEF Insert

LEMMA CreateUndisturbed ==
  ASSUME IInv, NEW q \in Reqs, Undisturbed(req[q]), CreateInsert(q) \/ CopyInsert(q),
         NEW r, req' = [req EXCEPT ![q] = r]
  PROVE  Undisturbed(r)'
  <1>1. req[q].pc \in Free
    BY DEF CreateInsert, CopyInsert, At, Free
  <1>2. CASE CreateInsert(q)
    <2>1. req[q].name \in Names
      BY <1>2 DEF CreateInsert, At, IInv, RequestInv, WellFormed
    <2>. QED BY <1>1, <1>2, <2>1, InsertUndisturbed DEF CreateInsert
  <1>3. CASE CopyInsert(q)
    <2>1. req[q].other \in Names
      BY <1>3 DEF CopyInsert, At, IInv, RequestInv, WellFormed
    <2>. QED BY <1>1, <1>3, <2>1, InsertUndisturbed DEF CopyInsert
  <1>. QED BY <1>2, <1>3

-----------------------------------------------------------------------------
(***************************************************************************)
(* An UPDATE of one row.                                                   *)
(***************************************************************************)
LEMMA RowWrite ==
  ASSUME TypeOK, NEW c \in Live, NEW x \in Row, row' = [row EXCEPT ![c] = x]
  PROVE  /\ Live' = Live /\ c \in Cats /\ row'[c] = x
         /\ \A d \in Cats \ {c} : row'[d] = row[d]
  BY AbsentAssumption DEF TypeOK, Live

(***************************************************************************)
(* Statuses alone have changed: the names, the served catalogs and what    *)
(* mirrors them are as they were.                                          *)
(***************************************************************************)
SameButStatus ==
    /\ Live' = Live
    /\ \A d \in Live : /\ row'[d].name = row[d].name /\ row'[d].cv = row[d].cv
                       /\ row'[d].published = row[d].published

LEMMA StatusUndisturbed ==
  ASSUME NEW o, Undisturbed(o), o.pc \in {"record", "reset"}, SameButStatus,
         UNCHANGED <<used, data, cr, trouble>>,
         NEW r, Current(r)', r.pc # "rollback",
         trouble' \subseteq {"k8s"} => \A d \in Live' : VerdictOK(d)'
  PROVE  Undisturbed(r)'
  <1>1. NamesUnique' /\ LiveUsed'
    BY DEF SameButStatus, Undisturbed, NamesUnique, LiveUsed
  <1>2. \A c, n : ~OwesCR(o, c) /\ ~Owes(o, n)
    BY DEF OwesCR, Owes
  <1>3. trouble' \subseteq {"badInput", "k8s"} => \A d \in Published' : cr'[row'[d].name] # NoCR
    BY <1>2 DEF SameButStatus, Undisturbed, Owed, Published
  <1>4. trouble' \subseteq {"badInput"} => \A n \in Names : Mirrors(n)'
    <2>1. \A n \in Names, d \in Cats : /\ Serves(d, n)' <=> Serves(d, n)
                                       /\ Serves(d, n) => row'[d].cv = row[d].cv
      BY DEF SameButStatus, Serves
    <2>2. \A n \in Names : Mirrors(n)' <=> Mirrors(n)
      BY <2>1, MirrorsKept
    <2>. QED BY <1>2, <2>2 DEF Undisturbed, Owed
  <1>. QED BY <1>1, <1>3, <1>4 DEF Undisturbed, Owed

LEMMA StatusWritten ==
  ASSUME TypeOK, NEW c \in Live, NEW s \in Status, row' = WithStatus(c, s)
  PROVE  SameButStatus /\ row'[c].status = s /\ \A d \in Cats \ {c} : row'[d] = row[d]
  <1>. DEFINE x == [row[c] EXCEPT !.status = s]
  <1>1. row' = [row EXCEPT ![c] = x]
    BY DEF WithStatus, TypeOK, Live
  <1>2. row[c] \in Row
    BY DEF TypeOK, Live
  <1>3. /\ x \in Row /\ x.name = row[c].name /\ x.cv = row[c].cv
        /\ x.published = row[c].published /\ x.status = s
    BY <1>2 DEF Row
  <1>. HIDE DEF x
  <1>4. /\ Live' = Live /\ row'[c] = x /\ \A d \in Cats \ {c} : row'[d] = row[d]
    BY <1>1, <1>3, RowWrite
  <1>. QED BY <1>3, <1>4 DEF SameButStatus, Live

(***************************************************************************)
(* A verdict is about the contents and the pin as they still are.          *)
(***************************************************************************)
LEMMA RecordUndisturbed ==
  ASSUME IInv, NEW q \in Reqs, Undisturbed(req[q]), ValidateRecord(q),
         NEW r, req' = [req EXCEPT ![q] = r]
  PROVE  Undisturbed(r)'
  <1>. DEFINE o == req[q]
              c == o.snap.id
              v == Verdict(o)
  <1>1. /\ o.pc = "record" /\ Finish(q) /\ TypeOK
        /\ UNCHANGED <<used, data, cr, trouble>>
    BY DEF ValidateRecord, At, IInv
  <1>2. c \in Live /\ row[c] = o.snap.row /\ o.seen = data[c]
    BY <1>1 DEF Undisturbed, Current, SnapCurrent, Unwritten, RowIs
  <1>3. row' = WithStatus(c, v) /\ v \in Status
    BY <1>2 DEF ValidateRecord, Verdict, Status
  <1>. HIDE DEF v
  <1>4. SameButStatus /\ row'[c].status = v /\ \A d \in Cats \ {c} : row'[d] = row[d]
    BY <1>1, <1>2, <1>3, StatusWritten
  <1>5. trouble' \subseteq {"k8s"} => \A d \in Live' : VerdictOK(d)'
    <2>1. v = "valid" => <<data[c], row[c].cv>> \in Conforming
      BY <1>2 DEF v, Verdict
    <2>2. trouble \subseteq {"k8s"} => \A d \in Live : VerdictOK(d)
      BY <1>1 DEF Undisturbed, Owed, OwesReset
    <2>. QED BY <1>1, <1>2, <1>4, <2>1, <2>2 DEF SameButStatus, VerdictOK, Live
  <1>6. r.pc # "rollback" /\ Current(r)'
    BY <1>1, Finished
  <1>. QED BY <1>1, <1>4, <1>5, <1>6, StatusUndisturbed

(***************************************************************************)
(* A reset pays what the handler owed.                                     *)
(***************************************************************************)
LEMMA ResetUndisturbed ==
  ASSUME IInv, NEW q \in Reqs, Undisturbed(req[q]), UpdateReset(q) \/ MutateReset(q),
         NEW r, req' = [req EXCEPT ![q] = r]
  PROVE  Undisturbed(r)'
  <1>. DEFINE o == req[q]
              c == o.snap.id
  <1>1. /\ o.pc = "reset" /\ TypeOK /\ o \in Request /\ c \in Cats
        /\ row' = IF c \in Live THEN WithStatus(c, "draft") ELSE row
        /\ UNCHANGED <<used, data, cr, validated, trouble>>
    BY Holds DEF UpdateReset, MutateReset, At, IInv, TypeOK
  <1>2. /\ SameButStatus /\ \A d \in Cats \ {c} : row'[d] = row[d]
        /\ c \in Live => row'[c].status = "draft"
    <2>1. CASE c \in Live
      BY <1>1, <2>1, StatusWritten DEF Status
    <2>2. CASE c \notin Live
      BY <1>1, <2>2 DEF SameButStatus, Live
    <2>. QED BY <2>1, <2>2
  <1>3. trouble' \subseteq {"k8s"} => \A d \in Live' : VerdictOK(d)'
    <2>1. trouble \subseteq {"k8s"} => \A d \in Live \ {c} : VerdictOK(d)
      BY DEF Undisturbed, Owed, OwesReset
    <2>. QED BY <1>1, <1>2, <2>1 DEF SameButStatus, VerdictOK, Live
  <1>4. r.pc # "rollback" /\ Current(r)'
    <2>1. CASE UpdateReset(q)
      BY <1>1, <2>1, Finished DEF UpdateReset
    <2>2. CASE MutateReset(q)
      <3>1. r = [o EXCEPT !.pc = "syncRead"] /\ Mutates(o)
        BY <1>1, <2>2 DEF MutateReset, Goto, TypeOK, Mutates
      <3>2. r.pc = "syncRead" /\ r.op = o.op /\ r.name = o.name /\ r.snap = o.snap
        BY <1>1, <3>1 DEF Request
      <3>3. o.snap # NoSnap => o.snap.row.name = o.name
        BY DEF Undisturbed, Current, SnapCurrent
      <3>. QED BY <3>1, <3>2, <3>3
               DEF Current, SnapCurrent, Unwritten, Guarded, Mutates, Handed
    <2>. QED BY <2>1, <2>2
  <1>. QED BY <1>1, <1>2, <1>3, <1>4, StatusUndisturbed

-----------------------------------------------------------------------------
(***************************************************************************)
(* The published flag: set and withdrawn by Publish and Unpublish, which   *)
(* then owe the CR of the name.                                            *)
(***************************************************************************)
LEMMA FlagWritten ==
  ASSUME TypeOK, NEW c \in Live, NEW b \in BOOLEAN, row' = WithPublished(c, b)
  PROVE  /\ Live' = Live /\ c \in Cats /\ row'[c] = Flagged(row[c], b)
         /\ \A d \in Cats \ {c} : row'[d] = row[d]
         /\ row'[c].published = b /\ row'[c].name = row[c].name
         /\ row'[c].cv = row[c].cv /\ row'[c].status = row[c].status
  <1>. DEFINE x == [row[c] EXCEPT !.published = b]
  <1>1. row' = [row EXCEPT ![c] = x]
    BY DEF WithPublished, TypeOK, Live
  <1>2. row[c] \in Row
    BY DEF TypeOK, Live
  <1>3. /\ x \in Row /\ x.name = row[c].name /\ x.cv = row[c].cv
        /\ x.published = b /\ x.status = row[c].status
    BY <1>2 DEF Row
  <1>. QED BY <1>1, <1>3, RowWrite DEF Flagged

LEMMA FlagUndisturbed ==
  ASSUME TypeOK, NEW o, Undisturbed(o), o.pc # "reset",
         NEW c \in Live, NEW b \in BOOLEAN, row' = WithPublished(c, b),
         UNCHANGED <<used, data, cr, trouble>>,
         \A d : OwesCR(o, d) => d = c,
         NEW r, Current(r)', r.pc # "rollback", b => OwesCR(r, c),
         NEW n, n = row[c].name,
         trouble \subseteq {"badInput"} => Owes(r, n)' /\ \A m : ~Owes(o, m)
  PROVE  Undisturbed(r)'
  <1>1. /\ Live' = Live /\ c \in Cats /\ \A d \in Cats \ {c} : row'[d] = row[d]
        /\ row'[c].published = b /\ row'[c].name = row[c].name
        /\ row'[c].cv = row[c].cv /\ row'[c].status = row[c].status
    BY FlagWritten
  <1>2. Live \subseteq Cats
    BY DEF Live
  <1>3. NamesUnique' /\ LiveUsed'
    BY <1>1, <1>2 DEF Undisturbed, NamesUnique, LiveUsed
  <1>4. trouble' \subseteq {"k8s"} => \A d \in Live' : VerdictOK(d)'
    <2>1. trouble \subseteq {"k8s"} => \A d \in Live : VerdictOK(d)
      BY DEF Undisturbed, Owed, OwesReset
    <2>. QED BY <1>1, <1>2, <2>1 DEF VerdictOK
  <1>5. trouble' \subseteq {"badInput", "k8s"} =>
          \A d \in Published' : cr'[row'[d].name] # NoCR \/ OwesCR(r, d)
    <2>1. \A d \in Published' : (d = c /\ b) \/ d \in Published \ {c}
      BY <1>1, <1>2 DEF Published
    <2>2. trouble \subseteq {"badInput", "k8s"} =>
            \A d \in Published \ {c} : cr[row[d].name] # NoCR
      BY DEF Undisturbed, Owed
    <2>3. \A d \in Published \ {c} : row'[d] = row[d]
      BY <1>1, <1>2 DEF Published
    <2>. QED BY <2>1, <2>2, <2>3
  <1>6. trouble' \subseteq {"badInput"} => \A m \in Names : Mirrors(m)' \/ Owes(r, m)'
    <2>1. \A m \in Names \ {n}, d \in Cats : /\ Serves(d, m)' <=> Serves(d, m)
                                             /\ Serves(d, m) => row'[d].cv = row[d].cv
      BY <1>1 DEF Serves
    <2>2. \A m \in Names \ {n} : Mirrors(m)' <=> Mirrors(m)
      BY <2>1, MirrorsKept
    <2>3. trouble \subseteq {"badInput"} => \A m \in Names : Mirrors(m)
      BY DEF Undisturbed, Owed
    <2>4. ASSUME trouble' \subseteq {"badInput"}, NEW m \in Names PROVE Mirrors(m)' \/ Owes(r, m)'
      <3>1. CASE m = n
        BY <2>4, <3>1
      <3>2. CASE m # n
        BY <2>2, <2>3, <2>4, <3>2
      <3>. QED BY <3>1, <3>2
    <2>. QED BY <2>4
  <1>. QED BY <1>3, <1>4, <1>5, <1>6 DEF Undisturbed, Owed, OwesCR

LEMMA SetUndisturbed ==
  ASSUME IInv, NEW q \in Reqs, Undisturbed(req[q]), PublishSet(q) \/ UnpublishSet(q),
         NEW r, req' = [req EXCEPT ![q] = r]
  PROVE  Undisturbed(r)'
  <1>. DEFINE o == req[q]
  <1>0. /\ TypeOK /\ o \in Request
        /\ UNCHANGED <<used, data, cr, trouble>>
        /\ \/ o.op = "publish" /\ o.pc = "setPublished"
           \/ o.op = "unpublish" /\ o.pc = "setUnpublished"
    BY DEF PublishSet, UnpublishSet, At, IInv, TypeOK
  <1>1. PICK c \in Cats, s \in Row : o.snap.id = c /\ o.snap.row = s /\ o.snap # NoSnap
    BY <1>0, Holds
  <1>2. c \in Live /\ row[c] = s /\ row[c].name = o.name
    BY <1>0, <1>1 DEF Undisturbed, Current, SnapCurrent, Unwritten, RowIs
  <1>3. PICK b \in BOOLEAN, pc \in {"writeCR", "dropCR"} :
          /\ row' = WithPublished(c, b) /\ Goto(q, pc)
          /\ b = (pc = "writeCR") /\ b = (o.op = "publish")
    BY <1>0, <1>1, <1>2 DEF PublishSet, UnpublishSet, Hit, At
  <1>4. r = [o EXCEPT !.pc = pc]
    BY <1>0, <1>3 DEF Goto, TypeOK
  <1>5. r.pc = pc /\ r.op = o.op /\ r.name = o.name /\ r.snap = o.snap
    BY <1>0, <1>4 DEF Request
  <1>6. c \in Live' /\ row'[c] = Flagged(s, b)
    BY <1>0, <1>2, <1>3, FlagWritten
  <1>7. Current(r)'
    <2>1. SnapCurrent(r)'
      BY <1>0, <1>1, <1>2, <1>3, <1>5, <1>6 DEF SnapCurrent, Unwritten, RowIs
    <2>. QED BY <1>0, <1>3, <1>5, <2>1 DEF Current, Guarded, Mutates, Handed
  <1>8. /\ \A d : ~OwesCR(o, d) /\ ~Owes(o, d)
        /\ b => OwesCR(r, c)
        /\ r.pc # "rollback" /\ o.pc # "reset"
    BY <1>0, <1>1, <1>3, <1>5 DEF OwesCR, Owes
  <1>9. \A n : n = row[c].name => Owes(r, n)'
    BY <1>0, <1>2, <1>3, <1>5 DEF Owes
  <1>. QED BY <1>0, <1>2, <1>3, <1>7, <1>8, <1>9, FlagUndisturbed

LEMMA RollbackUndisturbed ==
  ASSUME IInv, NEW q \in Reqs, Undisturbed(req[q]), PublishRollback(q),
         NEW r, req' = [req EXCEPT ![q] = r]
  PROVE  Undisturbed(r)'
  <1>. DEFINE o == req[q]
              c == o.snap.id
  <1>1. /\ TypeOK /\ o.op = "publish" /\ o.pc = "rollback" /\ Finish(q)
        /\ UNCHANGED <<used, data, cr, trouble>>
    BY DEF PublishRollback, At, IInv
  <1>2. c \in Live
    BY <1>1 DEF Undisturbed, Current, SnapCurrent, RowIs
  <1>3. row' = WithPublished(c, FALSE) /\ o.pc # "reset"
    BY <1>1, <1>2 DEF PublishRollback
  <1>4. r.pc # "rollback" /\ Current(r)'
    BY <1>1, Finished
  <1>5. "k8s" \in trouble /\ \A d : OwesCR(o, d) => d = c
    BY <1>1 DEF Undisturbed, Owed, OwesCR
  <1>. QED BY <1>1, <1>2, <1>3, <1>4, <1>5, FlagUndisturbed

-----------------------------------------------------------------------------
(***************************************************************************)
(* Steps that write or delete the CR of one name.                          *)
(***************************************************************************)
LEMMA CurrentKept ==
  ASSUME UNCHANGED <<row, data>>, NEW r, Current(r), ~(r.op = "delete" /\ r.pc = "dropRow")
  PROVE  Current(r)'
  BY DEF Current, SnapCurrent, Guarded, Handed, RowIs, Flagged, Named, Live, Owners

LEMMA NoneServed ==
  ASSUME row' = row, NEW n, cr'[n] = NoCR, \A c \in Published : row[c].name # n
  PROVE  Mirrors(n)'
  BY DEF Mirrors, Published, Owners, Live

LEMMA ServedIsMirrored ==
  ASSUME row' = row, NEW c \in Published, NEW n, row[c].name = n, cr'[n] # NoCR,
         cr'[n].source = c, cr'[n].cv = row[c].cv
  PROVE  Mirrors(n)'
  BY DEF Mirrors, Published, Owners, Live

LEMMA CRUndisturbed ==
  ASSUME TypeOK, NEW o, Undisturbed(o), o.pc # "reset", UNCHANGED <<tables, trouble>>,
         NEW n \in Names, NEW x, cr' = [cr EXCEPT ![n] = x],
         NEW r, Current(r)', r.pc # "rollback",
         x = NoCR => \A c \in Published : row[c].name = n => OwesCR(r, c),
         \A c \in Published : OwesCR(o, c) => row[c].name = n,
         trouble \subseteq {"badInput"} => Mirrors(n)' \/ Owes(r, n)',
         \A m \in Names \ {n} : Owes(o, m) => Owes(r, m)'
  PROVE  Undisturbed(r)'
  <1>. USE DEF tables
  <1>1. cr'[n] = x /\ \A m \in Names \ {n} : cr'[m] = cr[m]
    BY DEF TypeOK
  <1>2. Live' = Live /\ Published' = Published /\ \A c \in Live : row[c].name \in Names
    BY DEF Live, Published, TypeOK, Row
  <1>3. NamesUnique' /\ LiveUsed'
    BY <1>2 DEF Undisturbed, NamesUnique, LiveUsed
  <1>4. trouble' \subseteq {"k8s"} => \A d \in Live' : VerdictOK(d)'
    BY <1>2 DEF Undisturbed, Owed, OwesReset, VerdictOK
  <1>5. ASSUME trouble' \subseteq {"badInput", "k8s"}, NEW d \in Published
        PROVE  cr'[row[d].name] # NoCR \/ OwesCR(r, d)
    <2>1. cr[row[d].name] # NoCR \/ OwesCR(o, d)
      BY <1>5 DEF Undisturbed, Owed
    <2>2. row[d].name \in Names
      BY <1>2 DEF Published
    <2>. QED BY <1>1, <2>1, <2>2
  <1>6. ASSUME trouble' \subseteq {"badInput"}, NEW m \in Names
        PROVE  Mirrors(m)' \/ Owes(r, m)'
    <2>1. CASE m = n
      BY <1>6, <2>1
    <2>2. CASE m # n
      <3>1. Mirrors(m) \/ Owes(o, m)
        BY <1>6 DEF Undisturbed, Owed
      <3>2. Mirrors(m)' <=> Mirrors(m)
        BY <1>1, <1>2, <2>2 DEF Mirrors, Owners
      <3>. QED BY <2>2, <3>1, <3>2
    <2>. QED BY <2>1, <2>2
  <1>. QED BY <1>2, <1>3, <1>4, <1>5, <1>6 DEF Undisturbed, Owed, OwesCR

LEMMA PublishWriteUndisturbed ==
  ASSUME IInv, NEW q \in Reqs, Undisturbed(req[q]), PublishWriteCR(q),
         NEW r, req' = [req EXCEPT ![q] = r]
  PROVE  Undisturbed(r)'
  <1>. DEFINE o == req[q]
  <1>1. /\ TypeOK /\ o.op = "publish" /\ o.pc = "writeCR" /\ Finish(q)
        /\ UNCHANGED <<tables, trouble>>
    BY DEF PublishWriteCR, At, IInv
  <1>2. PICK c \in Cats, s \in Snap :
          /\ o.snap = s /\ s.id = c /\ s # NoSnap /\ s.row \in Row
          /\ CROf(s) \in CR
    BY <1>1, Holds, SnapCR DEF Good, Trusted
  <1>3. c \in Live /\ row[c] = Flagged(s.row, TRUE) /\ s.row.name = o.name
    BY <1>1, <1>2 DEF Undisturbed, Current, SnapCurrent, RowIs
  <1>4. row[c].published /\ row[c].name = o.name /\ row[c].cv = s.row.cv
    BY <1>2, <1>3 DEF Flagged, Row
  <1>5. PICK n \in Names : n = o.name
    BY <1>1, Holds DEF Good, WellFormed
  <1>6. cr' = [cr EXCEPT ![n] = CROf(s)]
    BY <1>2, <1>3, <1>5 DEF PublishWriteCR
  <1>7. cr'[n] = CROf(s) /\ CROf(s) # NoCR
    BY <1>1, <1>2, <1>6, AbsentAssumption DEF TypeOK
  <1>8. Mirrors(n)'
    <2>1. row' = row /\ c \in Published /\ row[c].name = n
      BY <1>1, <1>3, <1>4, <1>5 DEF Published, tables
    <2>2. cr'[n].source = c /\ cr'[n].cv = row[c].cv
      BY <1>2, <1>4, <1>7 DEF CROf
    <2>. QED BY <1>7, <2>1, <2>2, ServedIsMirrored
  <1>9. r.pc # "rollback" /\ Current(r)'
    BY <1>1, Finished
  <1>10. /\ \A d \in Published : OwesCR(o, d) => row[d].name = n
         /\ \A m \in Names \ {n} : ~Owes(o, m)
    BY <1>1, <1>2, <1>4, <1>5 DEF OwesCR, Owes
  <1>. QED BY <1>1, <1>6, <1>7, <1>8, <1>9, <1>10, CRUndisturbed

(***************************************************************************)
(* The CR of a catalog that is no longer published.                        *)
(***************************************************************************)
LEMMA UnpublishDropUndisturbed ==
  ASSUME IInv, NEW q \in Reqs, Undisturbed(req[q]), UnpublishDropCR(q),
         NEW r, req' = [req EXCEPT ![q] = r]
  PROVE  Undisturbed(r)'
  <1>. DEFINE o == req[q]
  <1>1. /\ TypeOK /\ o.op = "unpublish" /\ o.pc = "dropCR" /\ Finish(q)
        /\ UNCHANGED <<tables, trouble>>
    BY DEF UnpublishDropCR, At, IInv
  <1>2. PICK c \in Cats, s \in Row : o.snap.id = c /\ o.snap.row = s /\ o.snap # NoSnap
    BY <1>1, Holds
  <1>3. c \in Live /\ row[c] = Flagged(s, FALSE) /\ s.name = o.name
    BY <1>1, <1>2 DEF Undisturbed, Current, SnapCurrent, RowIs
  <1>4. ~row[c].published /\ row[c].name = o.name
    BY <1>3 DEF Flagged, Row
  <1>5. PICK n \in Names : n = o.name
    BY <1>1, Holds DEF Good, WellFormed
  <1>6. \A d \in Published : row[d].name # n
    BY <1>3, <1>4, <1>5 DEF Undisturbed, NamesUnique, Published
  <1>7. cr' = [cr EXCEPT ![n] = NoCR]
    BY <1>2, <1>3, <1>5 DEF UnpublishDropCR
  <1>8. Mirrors(n)'
    BY <1>1, <1>6, <1>7, NoneServed DEF TypeOK, tables
  <1>9. r.pc # "rollback" /\ Current(r)'
    BY <1>1, Finished
  <1>10. /\ \A d \in Published : ~OwesCR(o, d)
         /\ \A m \in Names \ {n} : ~Owes(o, m)
    BY <1>1, <1>5 DEF OwesCR, Owes
  <1>. QED BY <1>1, <1>6, <1>7, <1>8, <1>9, <1>10, CRUndisturbed

LEMMA DeleteDropUndisturbed ==
  ASSUME IInv, NEW q \in Reqs, Undisturbed(req[q]), DeleteDropCR(q),
         NEW r, req' = [req EXCEPT ![q] = r]
  PROVE  Undisturbed(r)'
  <1>. DEFINE o == req[q]
  <1>1. /\ TypeOK /\ o \in Request /\ o.op = "delete" /\ o.pc = "dropCR"
        /\ UNCHANGED <<tables, trouble>>
    BY DEF DeleteDropCR, At, IInv, TypeOK
  <1>2. PICK c \in Cats, s \in Row : o.snap.id = c /\ o.snap.row = s /\ o.snap # NoSnap
    BY <1>1, Holds
  <1>3. c \in Live /\ row[c] = s /\ s.name = o.name
    BY <1>1, <1>2 DEF Undisturbed, Current, SnapCurrent, Unwritten, RowIs
  <1>4. PICK n \in Names : n = o.name
    BY <1>1, Holds DEF Good, WellFormed
  <1>5. \A d \in Published : row[d].name = n => d = c
    BY <1>3, <1>4 DEF Undisturbed, NamesUnique, Published
  <1>6. cr' = [cr EXCEPT ![n] = NoCR] /\ cr'[n] = NoCR
    BY <1>1, <1>2, <1>3, <1>4 DEF DeleteDropCR, TypeOK
  <1>7. r = [o EXCEPT !.pc = "dropRow"]
    BY <1>1 DEF DeleteDropCR, Goto, TypeOK
  <1>8. r.pc = "dropRow" /\ r.op = "delete" /\ r.name = n /\ r.snap = o.snap
    BY <1>1, <1>4, <1>7 DEF Request
  <1>9. Current(r)'
    BY <1>1, <1>2, <1>3, <1>4, <1>6, <1>8
       DEF Current, SnapCurrent, Unwritten, RowIs, Guarded, Mutates, Handed, Live, tables
  <1>10. OwesCR(r, c) /\ Owes(r, n)'
    BY <1>2, <1>6, <1>8 DEF OwesCR, Owes
  <1>11. /\ \A d \in Published : ~OwesCR(o, d)
         /\ \A m \in Names \ {n} : ~Owes(o, m)
    BY <1>1 DEF OwesCR, Owes
  <1>12. \A d \in Published : row[d].name = n => OwesCR(r, d)
    BY <1>5, <1>10
  <1>13. o.pc # "reset" /\ r.pc # "rollback"
    BY <1>1, <1>8
  <1>. QED BY <1>1, <1>6, <1>9, <1>10, <1>11, <1>12, <1>13, CRUndisturbed

(***************************************************************************)
(* A replace drops the CRs of the two names no published catalog has now.  *)
(***************************************************************************)
LEMMA ArchiveDropUndisturbed ==
  ASSUME IInv, NEW q \in Reqs, Undisturbed(req[q]), ReplaceDropArchiveCR(q),
         NEW r, req' = [req EXCEPT ![q] = r]
  PROVE  Undisturbed(r)'
  <1>. DEFINE o == req[q]
  <1>1. /\ TypeOK /\ o \in Request /\ o.op = "replace" /\ o.pc = "dropArchiveCR"
        /\ UNCHANGED <<tables, trouble>>
    BY DEF ReplaceDropArchiveCR, At, IInv, TypeOK
  <1>2. PICK n \in Names : n = o.archive
    BY <1>1, Holds DEF Good, WellFormed
  <1>3. SnapCurrent(o) /\ Handed(o)
    BY DEF Undisturbed, Current
  <1>4. \A d \in Published : row[d].name # n
    BY <1>1, <1>2, <1>3 DEF Handed, Owners, Published
  <1>5. cr' = [cr EXCEPT ![n] = NoCR]
    BY <1>2 DEF ReplaceDropArchiveCR
  <1>6. Mirrors(n)'
    BY <1>1, <1>4, <1>5, NoneServed DEF TypeOK, tables
  <1>7. r = [o EXCEPT !.pc = "syncRead"]
    BY <1>1 DEF ReplaceDropArchiveCR, Goto, TypeOK
  <1>8. /\ r.pc = "syncRead" /\ r.op = "replace" /\ r.name = o.name
        /\ r.other = o.other /\ r.snap = o.snap
    BY <1>1, <1>7 DEF Request
  <1>9. Current(r)
    BY <1>1, <1>3, <1>8 DEF Current, SnapCurrent, Unwritten, Guarded, Mutates, Handed
  <1>10. Current(r)'
    BY <1>1, <1>8, <1>9, CurrentKept DEF tables
  <1>11. /\ \A d \in Published : ~OwesCR(o, d)
         /\ \A m \in Names : Owes(o, m) => Owes(r, m)'
    BY <1>1, <1>8 DEF OwesCR, Owes
  <1>. QED BY <1>1, <1>4, <1>5, <1>6, <1>8, <1>10, <1>11, CRUndisturbed

LEMMA SourceDropUndisturbed ==
  ASSUME IInv, NEW q \in Reqs, Undisturbed(req[q]), ReplaceDropSourceCR(q),
         NEW r, req' = [req EXCEPT ![q] = r]
  PROVE  Undisturbed(r)'
  <1>. DEFINE o == req[q]
  <1>1. /\ TypeOK /\ o.op = "replace" /\ o.pc = "dropSourceCR" /\ Finish(q)
        /\ UNCHANGED <<tables, trouble>>
    BY DEF ReplaceDropSourceCR, At, IInv
  <1>2. PICK n \in Names : n = o.name
    BY <1>1, Holds DEF Good, WellFormed
  <1>3. \A d \in Published : row[d].name # n
    BY <1>1, <1>2 DEF Undisturbed, Current, Handed, Owners, Published
  <1>4. cr' = [cr EXCEPT ![n] = NoCR]
    BY <1>2 DEF ReplaceDropSourceCR
  <1>5. Mirrors(n)'
    BY <1>1, <1>3, <1>4, NoneServed DEF TypeOK, tables
  <1>6. r.pc # "rollback" /\ Current(r)'
    BY <1>1, Finished
  <1>7. /\ \A d \in Published : ~OwesCR(o, d)
        /\ \A m \in Names \ {n} : ~Owes(o, m)
    BY <1>1, <1>2 DEF OwesCR, Owes
  <1>. QED BY <1>1, <1>3, <1>4, <1>5, <1>6, <1>7, CRUndisturbed

LEMMA SyncWriteUndisturbed ==
  ASSUME IInv, NEW q \in Reqs, Undisturbed(req[q]), SyncWrite(q),
         NEW r, req' = [req EXCEPT ![q] = r]
  PROVE  Undisturbed(r)'
  <1>. DEFINE o == req[q]
  <1>1. /\ TypeOK /\ o.pc = "syncWrite" /\ AfterSync(q) /\ Current(o)
        /\ UNCHANGED <<tables, trouble>>
    BY DEF SyncWrite, IInv, Undisturbed
  <1>2. PICK c \in Cats, s \in Snap :
          /\ o.snap2 = s /\ s.id = c /\ s.row \in Row /\ s.row.published /\ CROf(s) \in CR
    <2>1. /\ o.snap2 \in Snap /\ o.snap2.row.published
          /\ Vouched(o.snap2.id, o.snap2.row, validated)
      BY <1>1, Holds, AbsentAssumption DEF Good, WellFormed, Trusted
    <2>. QED BY <2>1, SnapCR DEF Snap
  <1>3. c \in Live /\ row[c] = s.row /\ s.row.name = SyncName(o)
    BY <1>1, <1>2 DEF Current, SnapCurrent, RowIs
  <1>4. PICK n \in Names : n = SyncName(o) /\ row[c].name = n
    BY <1>2, <1>3 DEF Row
  <1>5. cr' = [cr EXCEPT ![n] = CROf(s)]
    BY <1>2, <1>3, <1>4 DEF SyncWrite
  <1>6. cr'[n] = CROf(s) /\ CROf(s) # NoCR
    BY <1>1, <1>2, <1>5, AbsentAssumption DEF TypeOK
  <1>7. Mirrors(n)'
    BY <1>1, <1>2, <1>3, <1>4, <1>6, ServedIsMirrored DEF Published, CROf, tables
  <1>8. r.pc # "rollback" /\ Current(r)'
    <2>1. CASE r.pc = "idle"
      <3>1. Finish(q)
        BY <1>1, <2>1 DEF AfterSync, Goto, TypeOK, Request
      <3>. QED BY <1>1, <2>1, <3>1, Finished
    <2>2. CASE r.pc # "idle"
      <3>1. Current(r) /\ r.pc = "dropSourceCR"
        BY <1>1, <2>2, AfterSyncCases DEF Current, Handed
      <3>. QED BY <1>1, <3>1, CurrentKept DEF tables
    <2>. QED BY <2>1, <2>2
  <1>9. \A m \in Names \ {n} : Owes(o, m) => Owes(r, m)'
    <2>1. ASSUME NEW m \in Names \ {n}, Owes(o, m)
          PROVE  o.op = "replace" /\ o.snap.row.published /\ m = o.name
      BY <1>1, <1>4, <2>1 DEF Owes, SyncName
    <2>. QED BY <1>1, <2>1, AfterSyncCases DEF Owes
  <1>10. \A d \in Published : ~OwesCR(o, d)
    BY <1>1 DEF OwesCR
  <1>. QED BY <1>1, <1>5, <1>6, <1>7, <1>8, <1>9, <1>10, CRUndisturbed

-----------------------------------------------------------------------------
(***************************************************************************)
(* A mutation of the contents owes the reset of the status, unless the     *)
(* rejected input of an addInstance is the trouble.                        *)
(***************************************************************************)
LEMMA DataUndisturbed ==
  ASSUME TypeOK, NEW o, Undisturbed(o), o.pc \in Free, UNCHANGED <<row, used, cr>>,
         trouble \subseteq trouble', NEW c \in Cats, NEW d, data' = [data EXCEPT ![c] = d],
         NEW r, Current(r)', r.pc # "rollback",
         trouble' \subseteq {"k8s"} => OwesReset(r, c)
  PROVE  Undisturbed(r)'
  <1>1. \A e \in Cats \ {c} : data'[e] = data[e]
    BY DEF TypeOK
  <1>2. Live' = Live /\ Published' = Published /\ Live \subseteq Cats
    BY DEF Live, Published
  <1>3. NamesUnique' /\ LiveUsed'
    BY <1>2 DEF Undisturbed, NamesUnique, LiveUsed
  <1>4. trouble' \subseteq {"k8s"} => \A e \in Live' : VerdictOK(e)' \/ OwesReset(r, e)
    BY <1>1, <1>2, Nothing DEF Undisturbed, Owed, VerdictOK
  <1>5. trouble' \subseteq {"badInput", "k8s"} => \A e \in Published' : cr'[row'[e].name] # NoCR
    BY <1>2, Nothing DEF Undisturbed, Owed
  <1>6. trouble' \subseteq {"badInput"} => \A n \in Names : Mirrors(n)'
    <2>1. \A n \in Names : Mirrors(n)' <=> Mirrors(n)
      BY <1>2 DEF Mirrors, Owners
    <2>. QED BY <2>1, Nothing DEF Undisturbed, Owed
  <1>. QED BY <1>3, <1>4, <1>5, <1>6 DEF Undisturbed, Owed, OwesReset

LEMMA ApplyUndisturbed ==
  ASSUME IInv, NEW q \in Reqs, Undisturbed(req[q]), MutateApply(q) \/ AddInstanceRejected(q),
         NEW r, req' = [req EXCEPT ![q] = r]
  PROVE  Undisturbed(r)'
  <1>. DEFINE o == req[q]
  <1>1. /\ TypeOK /\ o \in Request /\ Mutates(o) /\ o.pc = "apply" /\ o.pc \in Free
        /\ UNCHANGED <<row, used, cr>> /\ trouble \subseteq trouble'
    BY DEF MutateApply, AddInstanceRejected, At, IInv, TypeOK, Mutates, Free
  <1>2. PICK c \in Cats : o.snap.id = c
    BY <1>1, Holds
  <1>3. \E d : data' = [data EXCEPT ![c] = d]
    BY <1>2 DEF MutateApply, AddInstanceRejected
  <1>4. CASE MutateApply(q)
    <2>1. r = [o EXCEPT !.pc = "reset"]
      BY <1>1, <1>4 DEF MutateApply, Goto, TypeOK
    <2>2. r.pc = "reset" /\ r.op = o.op /\ r.name = o.name /\ r.snap = o.snap
      BY <1>1, <2>1 DEF Request
    <2>3. o.snap # NoSnap => o.snap.row.name = o.name
      BY DEF Undisturbed, Current, SnapCurrent
    <2>4. Current(r)'
      BY <1>1, <2>2, <2>3 DEF Current, SnapCurrent, Unwritten, Guarded, Mutates, Handed
    <2>5. OwesReset(r, c)
      BY <1>2, <2>2 DEF OwesReset
    <2>. QED BY <1>1, <1>3, <2>2, <2>4, <2>5, DataUndisturbed
  <1>5. CASE AddInstanceRejected(q)
    <2>1. r.pc # "rollback" /\ Current(r)'
      BY <1>1, <1>5, Finished DEF AddInstanceRejected
    <2>2. ~(trouble' \subseteq {"k8s"})
      BY <1>5 DEF AddInstanceRejected
    <2>. QED BY <1>1, <1>3, <2>1, <2>2, DataUndisturbed
  <1>. QED BY <1>4, <1>5

(***************************************************************************)
(* A deleted row takes nothing with it: its CR is already gone.            *)
(***************************************************************************)
LEMMA NoneLeft ==
  ASSUME NEW n, cr'[n] = NoCR, \A c \in Cats : ~Serves(c, n)'
  PROVE  Mirrors(n)'
  BY DEF Mirrors, Published, Owners, Live, Serves

LEMMA Unserved ==
  ASSUME NEW n, Mirrors(n), \A c \in Cats : ~Serves(c, n)
  PROVE  cr[n] = NoCR
  BY DEF Mirrors, Published, Owners, Live, Serves

LEMMA DropRowUndisturbed ==
  ASSUME IInv, NEW q \in Reqs, Undisturbed(req[q]), DeleteDropRow(q),
         NEW r, req' = [req EXCEPT ![q] = r]
  PROVE  Undisturbed(r)'
  <1>. DEFINE o == req[q]
  <1>1. /\ TypeOK /\ o.op = "delete" /\ o.pc = "dropRow" /\ Finish(q)
        /\ UNCHANGED <<used, cr, trouble>>
    BY DEF DeleteDropRow, At, IInv
  <1>2. PICK c \in Cats, s \in Row : o.snap.id = c /\ o.snap.row = s /\ o.snap # NoSnap
    BY <1>1, Holds
  <1>3. /\ c \in Live /\ row[c] = s /\ s.name = o.name
        /\ s.published => cr[s.name] = NoCR
    BY <1>1, <1>2 DEF Undisturbed, Current, SnapCurrent, Unwritten, RowIs
  <1>4. row'[c] = NoRow /\ \A d \in Cats \ {c} : row'[d] = row[d] /\ data'[d] = data[d]
    BY <1>1, <1>2, <1>3 DEF DeleteDropRow, TypeOK
  <1>5. Live' = Live \ {c} /\ Live \subseteq Cats
    BY <1>4 DEF Live
  <1>6. NamesUnique' /\ LiveUsed'
    BY <1>1, <1>4, <1>5 DEF Undisturbed, NamesUnique, LiveUsed
  <1>7. trouble' \subseteq {"k8s"} => \A d \in Live' : VerdictOK(d)'
    BY <1>1, <1>4, <1>5 DEF Undisturbed, Owed, OwesReset, VerdictOK
  <1>8. trouble' \subseteq {"badInput", "k8s"} => \A d \in Published' : cr'[row'[d].name] # NoCR
    <2>1. \A d \in Published' : d \in Published \ {c} /\ row'[d] = row[d]
      BY <1>4, <1>5 DEF Published
    <2>2. \A d \in Published \ {c} : ~OwesCR(o, d)
      BY <1>2 DEF OwesCR
    <2>. QED BY <1>1, <2>1, <2>2 DEF Undisturbed, Owed
  <1>9. ASSUME trouble' \subseteq {"badInput"}, NEW n \in Names PROVE Mirrors(n)'
    <2>1. Mirrors(n) \/ Owes(o, n)
      BY <1>1, <1>9 DEF Undisturbed, Owed
    <2>2. CASE n # s.name
      <3>1. \A d \in Cats : /\ Serves(d, n)' <=> Serves(d, n)
                            /\ Serves(d, n) => row'[d].cv = row[d].cv
        BY <1>3, <1>4, <1>5, <2>2 DEF Serves
      <3>2. ~Owes(o, n)
        BY <1>1, <1>3, <2>2 DEF Owes
      <3>. QED BY <1>1, <2>1, <3>1, <3>2, MirrorsKept
    <2>3. CASE n = s.name
      <3>1. \A d \in Cats : Serves(d, n) => d = c
        BY <1>3, <2>3 DEF Serves, Undisturbed, NamesUnique
      <3>2. cr[n] = NoCR
        <4>1. CASE Owes(o, n)
          BY <1>1, <4>1 DEF Owes
        <4>2. CASE Mirrors(n) /\ ~s.published
          BY <1>3, <3>1, <4>2, Unserved DEF Serves
        <4>3. CASE s.published
          BY <1>3, <2>3, <4>3
        <4>. QED BY <2>1, <4>1, <4>2, <4>3
      <3>3. \A d \in Cats : ~Serves(d, n)'
        BY <1>4, <1>5, <3>1 DEF Serves
      <3>. QED BY <1>1, <3>2, <3>3, NoneLeft
    <2>. QED BY <2>2, <2>3
  <1>. QED BY <1>1, <1>6, <1>7, <1>8, <1>9, EndsUndisturbed

-----------------------------------------------------------------------------
(***************************************************************************)
(* UpdateMetadata.  What it renames or re-pins is not published, and a new *)
(* pin owes the reset of the status.                                       *)
(***************************************************************************)
LEMMA UpdatedUndisturbed ==
  ASSUME NEW o, Undisturbed(o), o.pc \in Free, UNCHANGED <<used, data, cr, trouble>>,
         Live' = Live, NamesUnique',
         \A d \in Live : row'[d].published = row[d].published /\ row'[d].status = row[d].status,
         \A d \in Published : row'[d].name = row[d].name /\ row'[d].cv = row[d].cv,
         NEW r, Current(r)', r.pc # "rollback",
         \A d \in Live : row'[d].cv = row[d].cv \/ OwesReset(r, d)
  PROVE  Undisturbed(r)'
  <1>1. Published' = Published /\ Published \subseteq Live /\ Live \subseteq Cats
    BY DEF Published, Live
  <1>2. LiveUsed'
    BY DEF Undisturbed, LiveUsed
  <1>3. trouble' \subseteq {"k8s"} => \A d \in Live' : VerdictOK(d)' \/ OwesReset(r, d)
    <2>1. trouble \subseteq {"k8s"} => \A d \in Live : VerdictOK(d)
      BY Nothing DEF Undisturbed, Owed
    <2>. QED BY <2>1 DEF VerdictOK
  <1>4. trouble' \subseteq {"badInput", "k8s"} => \A d \in Published' : cr'[row'[d].name] # NoCR
    <2>1. trouble \subseteq {"badInput", "k8s"} => \A d \in Published : cr[row[d].name] # NoCR
      BY Nothing DEF Undisturbed, Owed
    <2>. QED BY <1>1, <2>1
  <1>5. trouble' \subseteq {"badInput"} => \A n \in Names : Mirrors(n)'
    <2>1. \A n \in Names, d \in Cats : /\ Serves(d, n)' <=> Serves(d, n)
                                       /\ Serves(d, n) => row'[d].cv = row[d].cv
      BY <1>1 DEF Serves, Published
    <2>2. \A n \in Names : Mirrors(n)' <=> Mirrors(n)
      BY <2>1, MirrorsKept
    <2>. QED BY <2>2, Nothing DEF Undisturbed, Owed
  <1>. QED BY <1>2, <1>3, <1>4, <1>5 DEF Undisturbed, Owed, OwesReset

LEMMA RenameUndisturbed ==
  ASSUME IInv, NEW q \in Reqs, Undisturbed(req[q]), UpdateRename(q),
         NEW r, req' = [req EXCEPT ![q] = r]
  PROVE  Undisturbed(r)'
  <1>. DEFINE o == req[q]
  <1>1. /\ TypeOK /\ o \in Request /\ o.op = "update" /\ o.pc = "rename" /\ o.pc \in Free
        /\ UNCHANGED <<used, data, cr, trouble>>
    BY DEF UpdateRename, At, IInv, TypeOK, Free
  <1>2. CASE row' = row /\ Finish(q)
    BY <1>1, <1>2, Finished, FreeStep DEF tables
  <1>3. ASSUME o.snap.id \in Live, Owners(o.other) \subseteq {o.snap.id},
               row' = [row EXCEPT ![o.snap.id].name = o.other],
               Advance(q, o, AfterRename(o))
        PROVE  Undisturbed(r)'
    <2>1. PICK c \in Cats, s \in Row : o.snap.id = c /\ o.snap.row = s /\ o.snap # NoSnap
      BY <1>1, Holds
    <2>2. PICK n \in Names : n = o.other
      BY <1>1, Holds DEF Good, WellFormed
    <2>3. c \in Live /\ row[c] = s /\ s.name = o.name
      BY <1>1, <2>1 DEF Undisturbed, Current, SnapCurrent, Unwritten, RowIs
    <2>4. Renames(o) /\ ~s.published
      BY <1>1, <2>1, <2>2, CatalogAssumption
         DEF Undisturbed, Current, SnapCurrent, Guarded
    <2>5. Named(s, n) \in Row /\ row' = [row EXCEPT ![c] = Named(s, n)]
      BY <1>1, <1>3, <2>1, <2>2, <2>3 DEF Named, Row, TypeOK
    <2>6. /\ Named(s, n).name = n /\ Named(s, n).cv = s.cv
          /\ Named(s, n).status = s.status /\ Named(s, n).published = s.published
      BY DEF Named, Row
    <2>7. /\ Live' = Live /\ row'[c] = Named(s, n)
          /\ \A d \in Cats \ {c} : row'[d] = row[d]
      BY <1>1, <2>3, <2>5, RowWrite
    <2>8. NamesUnique'
      BY <1>3, <2>1, <2>2, <2>3, <2>6, <2>7 DEF Undisturbed, NamesUnique, Owners, Live
    <2>9. PICK pc \in {"save", "reset"} : pc = AfterRename(o)
      BY <2>4 DEF AfterRename, AfterSave
    <2>10. r = [o EXCEPT !.pc = pc]
      BY <1>1, <1>3, <2>9 DEF Advance, TypeOK
    <2>11. /\ r.pc = pc /\ r.op = "update" /\ r.name = o.name /\ r.other = o.other
           /\ r.cv = o.cv /\ r.snap = o.snap
      BY <1>1, <2>10 DEF Request
    <2>12. NameAfter(r) = n
      BY <2>2, <2>4, <2>11 DEF NameAfter, Renames
    <2>13. Current(r)'
      <3>1. SnapCurrent(r)'
        BY <2>1, <2>3, <2>7, <2>11, <2>12 DEF SnapCurrent, Unwritten, RowIs
      <3>. QED BY <2>1, <2>4, <2>11, <3>1 DEF Current, Guarded, Mutates, Handed
    <2>14. /\ \A d \in Live : /\ row'[d].published = row[d].published
                              /\ row'[d].status = row[d].status
                              /\ row'[d].cv = row[d].cv
           /\ \A d \in Published : row'[d].name = row[d].name /\ row'[d].cv = row[d].cv
           /\ r.pc # "rollback"
      BY <2>3, <2>4, <2>6, <2>7, <2>11 DEF Published, Live
    <2>. QED BY <1>1, <2>7, <2>8, <2>13, <2>14, UpdatedUndisturbed
  <1>. QED BY <1>2, <1>3 DEF UpdateRename

(***************************************************************************)
(* The row is saved as it was read, but for the new pin.                   *)
(***************************************************************************)
LEMMA SaveUndisturbed ==
  ASSUME IInv, NEW q \in Reqs, Undisturbed(req[q]), UpdateSave(q),
         NEW r, req' = [req EXCEPT ![q] = r]
  PROVE  Undisturbed(r)'
  <1>. DEFINE o == req[q]
  <1>1. /\ TypeOK /\ o \in Request /\ o.op = "update" /\ o.pc = "save" /\ o.pc \in Free
        /\ UNCHANGED <<used, data, cr, trouble>>
    BY DEF UpdateSave, At, IInv, TypeOK, Free
  <1>2. CASE row' = row /\ Finish(q)
    BY <1>1, <1>2, Finished, FreeStep DEF tables
  <1>. DEFINE x == [o.snap.row EXCEPT !.name = NameAfter(o),
                                      !.cv = IF Repins(o) THEN o.cv ELSE @]
  <1>3. ASSUME row' = [row EXCEPT ![o.snap.id] = x], Advance(q, o, AfterSave(o))
        PROVE  Undisturbed(r)'
    <2>1. PICK c \in Cats, s \in Row : o.snap.id = c /\ o.snap.row = s /\ o.snap # NoSnap
      BY <1>1, Holds
    <2>2. PICK n \in Names : n = NameAfter(o)
      BY <1>1, Holds DEF Good, WellFormed, NameAfter, Renames, Request
    <2>3. c \in Live /\ row[c] = Named(s, n) /\ s.name = o.name
      BY <1>1, <2>1, <2>2 DEF Undisturbed, Current, SnapCurrent, RowIs
    <2>4. Repins(o) => ~s.published /\ o.cv \in CVs
      BY <1>1, <2>1 DEF Undisturbed, Current, Guarded, Repins, Request
    <2>5. PICK y \in Row : /\ x = y /\ y.name = n /\ y.status = s.status
                           /\ y.published = s.published /\ (~Repins(o) => y.cv = s.cv)
      <3>1. PICK v \in CVs : v = IF Repins(o) THEN o.cv ELSE s.cv
        BY <2>4 DEF Row
      <3>2. x = [s EXCEPT !.name = n, !.cv = v]
        BY <2>1, <2>2, <3>1
      <3>. HIDE DEF x
      <3>3. x \in Row
        BY <3>2 DEF Row
      <3>4. /\ x.name = n /\ x.status = s.status /\ x.published = s.published
            /\ ~Repins(o) => x.cv = s.cv
        BY <3>1, <3>2 DEF Row
      <3>. QED BY <3>3, <3>4
    <2>. HIDE DEF x
    <2>6. /\ row[c].name = n /\ row[c].status = s.status
          /\ row[c].published = s.published /\ row[c].cv = s.cv
      BY <2>3 DEF Named, Row
    <2>7. /\ Live' = Live /\ row'[c] = y /\ \A d \in Cats \ {c} : row'[d] = row[d]
      BY <1>1, <1>3, <2>1, <2>3, <2>5, RowWrite
    <2>8. NamesUnique'
      BY <2>3, <2>5, <2>6, <2>7 DEF Undisturbed, NamesUnique, Live
    <2>9. PICK pc \in {"idle", "reset", "syncRead"} :
             pc = AfterSave(o) /\ (Repins(o) => pc = "reset")
      BY DEF AfterSave
    <2>10. /\ r.pc = pc /\ Current(r)'
           /\ pc = "reset" => r.snap = o.snap
      <3>1. CASE pc = "idle"
        BY <1>1, <1>3, <2>9, <3>1, Finished DEF Advance, Finish
      <3>2. CASE pc # "idle"
        <4>1. r = [o EXCEPT !.pc = pc]
          BY <1>1, <1>3, <2>9, <3>2 DEF Advance, TypeOK
        <4>2. r.pc = pc /\ r.op = "update" /\ r.name = o.name /\ r.snap = o.snap
          BY <1>1, <4>1 DEF Request
        <4>. QED BY <2>1, <2>3, <3>2, <4>2
                 DEF Current, SnapCurrent, Unwritten, Guarded, Mutates, Handed
      <3>. QED BY <3>1, <3>2
    <2>11. \A d \in Live : row'[d].cv = row[d].cv \/ OwesReset(r, d)
      BY <2>1, <2>5, <2>6, <2>7, <2>9, <2>10 DEF OwesReset, Live
    <2>12. /\ \A d \in Live : /\ row'[d].published = row[d].published
                              /\ row'[d].status = row[d].status
           /\ \A d \in Published : row'[d].name = row[d].name /\ row'[d].cv = row[d].cv
           /\ r.pc # "rollback"
      BY <2>3, <2>4, <2>5, <2>6, <2>7, <2>10 DEF Published, Live
    <2>. QED BY <1>1, <2>7, <2>8, <2>10, <2>11, <2>12, UpdatedUndisturbed
  <1>. QED BY <1>2, <1>3 DEF UpdateSave

-----------------------------------------------------------------------------
(***************************************************************************)
(* ReplaceCatalog.  The transaction exchanges names: the source has the    *)
(* name and the published flag of the target, the target the archive name  *)
(* and no flag.                                                            *)
(***************************************************************************)
Exchanged(s, t, rs, rt, m, a) ==
    /\ Live' = Live
    /\ \A d \in Cats \ {s, t} : row'[d] = row[d]
    /\ row'[s].name = m /\ row'[s].cv = rs.cv /\ row'[s].status = rs.status
    /\ row'[s].published = rt.published
    /\ row'[t].name = a /\ row'[t].cv = rt.cv /\ row'[t].status = rt.status
    /\ row'[t].published = FALSE

LEMMA SwappedRows ==
  ASSUME TypeOK, NEW o \in Request, NEW s \in Live, NEW t \in Live, s # t,
         NEW rs \in Row, NEW rt \in Row, row[s] = rs, row[t] = rt,
         NEW m \in Names, NEW a \in Names,
         o.snap.id = s, o.snap.row = rs, o.snap2.id = t, o.snap2.row = rt,
         o.other = m, o.archive = a, row' = Swapped(o)
  PROVE  Exchanged(s, t, rs, rt, m, a)
  <1>. DEFINE ns == [rs EXCEPT !.name = m]
              nt == [rt EXCEPT !.name = a]
              renamed == [[row EXCEPT ![t].name = a] EXCEPT ![s].name = m]
  <1>1. s \in Cats /\ t \in Cats /\ row \in [Cats -> Row \cup {NoRow}]
    BY DEF TypeOK, Live
  <1>2. renamed = [[row EXCEPT ![t] = nt] EXCEPT ![s] = ns]
    BY <1>1
  <1>3. /\ ns \in Row /\ ns.name = m /\ ns.cv = rs.cv /\ ns.status = rs.status
        /\ ns.published = rs.published
    BY DEF Row
  <1>4. /\ nt \in Row /\ nt.name = a /\ nt.cv = rt.cv /\ nt.status = rt.status
        /\ nt.published = rt.published
    BY DEF Row
  <1>. HIDE DEF ns, nt
  <1>5. /\ renamed \in [Cats -> Row \cup {NoRow}] /\ renamed[s] = ns /\ renamed[t] = nt
        /\ \A d \in Cats \ {s, t} : renamed[d] = row[d]
    BY <1>1, <1>2, <1>3, <1>4
  <1>. HIDE DEF renamed
  <1>6. /\ \A d \in Cats \ {s, t} : row'[d] = row[d]
        /\ row'[s] \in Row /\ row'[t] \in Row
        /\ row'[s].name = m /\ row'[s].cv = rs.cv /\ row'[s].status = rs.status
        /\ row'[s].published = rt.published
        /\ row'[t].name = a /\ row'[t].cv = rt.cv /\ row'[t].status = rt.status
        /\ row'[t].published = FALSE
    <2>1. CASE rt.published
      <3>. DEFINE us == [ns EXCEPT !.published = TRUE]
                  ut == [nt EXCEPT !.published = FALSE]
      <3>1. row' = [[renamed EXCEPT ![s].published = TRUE] EXCEPT ![t].published = FALSE]
        BY <2>1 DEF Swapped, renamed
      <3>2. row' = [[renamed EXCEPT ![s] = us] EXCEPT ![t] = ut]
        BY <1>1, <1>5, <3>1
      <3>3. /\ us \in Row /\ us.name = m /\ us.cv = rs.cv /\ us.status = rs.status
            /\ us.published = TRUE
        BY <1>3 DEF Row
      <3>4. /\ ut \in Row /\ ut.name = a /\ ut.cv = rt.cv /\ ut.status = rt.status
            /\ ut.published = FALSE
        BY <1>4 DEF Row
      <3>. HIDE DEF us, ut
      <3>5. row'[s] = us /\ row'[t] = ut /\ \A d \in Cats \ {s, t} : row'[d] = row[d]
        BY <1>1, <1>5, <3>2
      <3>6. rt.published = TRUE
        BY <2>1 DEF Row
      <3>. QED BY <3>3, <3>4, <3>5, <3>6
    <2>2. CASE ~rt.published /\ rs.published
      <3>. DEFINE us == [ns EXCEPT !.published = FALSE]
      <3>1. row' = [renamed EXCEPT ![s].published = FALSE]
        BY <2>2 DEF Swapped, renamed
      <3>2. row' = [renamed EXCEPT ![s] = us]
        BY <1>1, <1>5, <3>1
      <3>3. /\ us \in Row /\ us.name = m /\ us.cv = rs.cv /\ us.status = rs.status
            /\ us.published = FALSE
        BY <1>3 DEF Row
      <3>. HIDE DEF us
      <3>4. row'[s] = us /\ row'[t] = nt /\ \A d \in Cats \ {s, t} : row'[d] = row[d]
        BY <1>1, <1>5, <3>2
      <3>5. rt.published = FALSE
        BY <2>2 DEF Row
      <3>. QED BY <1>4, <3>3, <3>4, <3>5
    <2>3. CASE ~rt.published /\ ~rs.published
      <3>1. row' = renamed
        BY <2>3 DEF Swapped, renamed
      <3>2. rt.published = FALSE /\ rs.published = FALSE
        BY <2>3 DEF Row
      <3>. QED BY <1>3, <1>4, <1>5, <3>1, <3>2
    <2>. QED BY <2>1, <2>2, <2>3
  <1>7. Live' = Live
    BY <1>1, <1>6, AbsentAssumption DEF Live
  <1>. QED BY <1>6, <1>7 DEF Exchanged

LEMMA SwapUndisturbed ==
  ASSUME IInv, NEW q \in Reqs, Undisturbed(req[q]), ReplaceSwap(q),
         NEW r, req' = [req EXCEPT ![q] = r]
  PROVE  Undisturbed(r)'
  <1>. DEFINE o == req[q]
  <1>1. /\ TypeOK /\ o \in Request /\ o.op = "replace" /\ o.pc = "swap" /\ o.pc \in Free
        /\ UNCHANGED <<used, data, cr, trouble>>
    BY DEF ReplaceSwap, At, IInv, TypeOK, Free
  <1>2. CASE row' = row /\ Finish(q)
    BY <1>1, <1>2, Finished, FreeStep DEF tables
  <1>3. ASSUME NameFree(row, o.archive, o.snap2.id),
               NameFree([row EXCEPT ![o.snap2.id].name = o.archive], o.other, o.snap.id),
               row' = Swapped(o), Advance(q, o, AfterSwap(o))
        PROVE  Undisturbed(r)'
    <2>1. PICK s \in Cats, rs \in Row : o.snap.id = s /\ o.snap.row = rs /\ o.snap # NoSnap
      BY <1>1, Holds
    <2>2. PICK t \in Cats, rt \in Row : o.snap2.id = t /\ o.snap2.row = rt
      BY <1>1, Holds DEF Good, WellFormed, Snap
    <2>3. PICK n \in Names, m \in Names, a \in Names : n = o.name /\ m = o.other /\ a = o.archive
      BY <1>1, Holds DEF Good, WellFormed
    <2>4. /\ s \in Live /\ row[s] = rs /\ rs.name = n
          /\ t \in Live /\ row[t] = rt /\ rt.name = m /\ n # m /\ s # t
      BY <1>1, <2>1, <2>2, <2>3
         DEF Undisturbed, Current, SnapCurrent, Unwritten, RowIs, Handed
    <2>5. /\ Live' = Live
          /\ \A d \in Cats \ {s, t} : row'[d] = row[d]
          /\ row'[s].name = m /\ row'[s].cv = rs.cv /\ row'[s].status = rs.status
          /\ row'[s].published = rt.published
          /\ row'[t].name = a /\ row'[t].cv = rt.cv /\ row'[t].status = rt.status
          /\ row'[t].published = FALSE
      <3>1. /\ TypeOK /\ row' = Swapped(o) /\ o.snap.id = s /\ o.snap.row = rs
            /\ o.snap2.id = t /\ o.snap2.row = rt /\ o.other = m /\ o.archive = a
        BY <1>1, <1>3, <2>1, <2>2, <2>3
      <3>2. Exchanged(s, t, rs, rt, m, a)
        BY <1>1, <2>4, <3>1, SwappedRows
      <3>. QED BY <3>2 DEF Exchanged
    <2>6. a # n /\ a # m /\ \A d \in Live \ {s, t} : row[d].name \notin {n, m, a}
      <3>1. \A d \in Live \ {t} : row[d].name # a
        BY <1>3, <2>2, <2>3 DEF NameFree, Live
      <3>2. a # m
        <4>. DEFINE f == [row EXCEPT ![t].name = a]
                    x == [rt EXCEPT !.name = a]
        <4>1. f[t] = x
          BY <1>1, <2>2, <2>4 DEF TypeOK
        <4>2. x \in Row /\ x.name = a
          BY DEF Row
        <4>3. f[t] # NoRow => f[t].name # m
          BY <1>3, <2>1, <2>2, <2>3, <2>4 DEF NameFree
        <4>. QED BY <4>1, <4>2, <4>3, AbsentAssumption
      <3>3. \A d \in Live \ {s, t} : row[d].name \notin {n, m}
        BY <2>4 DEF Undisturbed, NamesUnique
      <3>. QED BY <2>4, <3>1, <3>2, <3>3
    <2>7. PICK pc \in {"idle", "dropArchiveCR", "dropSourceCR"} :
             /\ pc = AfterSwap(o)
             /\ pc = "dropArchiveCR" <=> rt.published
             /\ rs.published => pc # "idle"
      BY <2>1, <2>2 DEF AfterSwap
    <2>8. Live \subseteq Cats /\ NamesUnique' /\ LiveUsed'
      BY <1>1, <2>4, <2>5, <2>6 DEF Undisturbed, NamesUnique, LiveUsed, Live
    <2>9. Owners(n)' = {} /\ (\A d \in Owners(a)' : ~row'[d].published) /\ s \in Owners(m)'
      BY <2>4, <2>5, <2>6, <2>8 DEF Owners
    <2>10. r.pc = pc /\ Current(r)' /\ (pc # "idle" => /\ r.op = "replace" /\ r.name = n
                                                       /\ r.other = m /\ r.snap = o.snap)
      <3>1. CASE pc = "idle"
        BY <1>1, <1>3, <2>7, <3>1, Finished DEF Advance, Finish
      <3>2. CASE pc # "idle"
        <4>1. r = [o EXCEPT !.pc = pc]
          BY <1>1, <1>3, <2>7, <3>2 DEF Advance, TypeOK
        <4>2. /\ r.pc = pc /\ r.op = "replace" /\ r.name = n /\ r.other = m
              /\ r.archive = a /\ r.snap = o.snap
          BY <1>1, <2>3, <4>1 DEF Request
        <4>3. SnapCurrent(r)' /\ Guarded(r)'
          BY <2>1, <2>4, <2>7, <3>2, <4>2 DEF SnapCurrent, Unwritten, Guarded, Mutates
        <4>4. Handed(r)'
          BY <2>1, <2>4, <2>5, <2>7, <2>9, <4>2 DEF Handed
        <4>. QED BY <4>2, <4>3, <4>4 DEF Current
      <3>. QED BY <3>1, <3>2
    <2>11. trouble' \subseteq {"k8s"} => \A d \in Live' : VerdictOK(d)'
      <3>1. trouble \subseteq {"k8s"} => \A d \in Live : VerdictOK(d)
        BY <1>1, Nothing DEF Undisturbed, Owed
      <3>2. \A d \in Live : row'[d].status = row[d].status /\ row'[d].cv = row[d].cv
        BY <2>4, <2>5, <2>8
      <3>. QED BY <1>1, <2>5, <3>1, <3>2 DEF VerdictOK
    <2>12. trouble' \subseteq {"badInput", "k8s"} => \A d \in Published' : cr'[row'[d].name] # NoCR
      <3>1. trouble \subseteq {"badInput", "k8s"} => \A d \in Published : cr[row[d].name] # NoCR
        BY <1>1, Nothing DEF Undisturbed, Owed
      <3>2. \A d \in Published' : \E e \in Published : row'[d].name = row[e].name
        BY <2>4, <2>5, <2>8 DEF Published
      <3>. QED BY <1>1, <3>1, <3>2
    <2>13. ASSUME trouble' \subseteq {"badInput"}, NEW k \in Names
           PROVE  Mirrors(k)' \/ Owes(r, k)'
      <3>1. Mirrors(k)
        BY <1>1, <2>13, Nothing DEF Undisturbed, Owed
      <3>2. CASE k \notin {n, m, a}
        <4>1. \A d \in Cats : /\ Serves(d, k)' <=> Serves(d, k)
                              /\ Serves(d, k) => row'[d].cv = row[d].cv
          BY <2>4, <2>5, <3>2 DEF Serves
        <4>. QED BY <1>1, <3>1, <4>1, MirrorsKept
      <3>3. ASSUME \A d \in Cats : ~Serves(d, k), \A d \in Cats : ~Serves(d, k)'
            PROVE  Mirrors(k)'
        BY <1>1, <3>1, <3>3, Unserved, NoneLeft
      <3>4. CASE k = a
        BY <2>4, <2>5, <2>6, <3>3, <3>4 DEF Serves
      <3>5. CASE k = n /\ ~rs.published
        BY <2>4, <2>5, <2>6, <3>3, <3>5 DEF Serves
      <3>6. CASE k = n /\ rs.published
        BY <2>1, <2>7, <2>10, <3>6 DEF Owes
      <3>7. CASE k = m /\ ~rt.published
        BY <2>4, <2>5, <2>6, <3>3, <3>7 DEF Serves
      <3>8. CASE k = m /\ rt.published
        BY <2>7, <2>10, <3>8 DEF Owes
      <3>. QED BY <3>2, <3>4, <3>5, <3>6, <3>7, <3>8
    <2>. QED BY <2>7, <2>8, <2>10, <2>11, <2>12, <2>13 DEF Undisturbed, Owed, OwesReset, OwesCR
  <1>. QED BY <1>2, <1>3 DEF ReplaceSwap

-----------------------------------------------------------------------------
(***************************************************************************)
(* Every step of the one request at work.                                  *)
(***************************************************************************)
LEMMA StepUndisturbed ==
  ASSUME IInv, NEW q \in Reqs, Undisturbed(req[q]), Handle(q),
         NEW r, req' = [req EXCEPT ![q] = r]
  PROVE  Undisturbed(r)'
  <1>1. CASE Arrive(q) \/ ReadStep(q) \/ CreateInsert(q) \/ CopyScan(q) \/ CopyInsert(q)
    BY <1>1, ArriveUndisturbed, ReadUndisturbed, CreateUndisturbed, ScanUndisturbed
  <1>2. CASE ValidateScan(q) \/ ValidateRecord(q) \/ PublishSet(q) \/ PublishWriteCR(q)
             \/ PublishRollback(q) \/ UnpublishSet(q) \/ UnpublishDropCR(q)
    BY <1>2, ScanUndisturbed, RecordUndisturbed, SetUndisturbed, PublishWriteUndisturbed,
       RollbackUndisturbed, UnpublishDropUndisturbed
  <1>3. CASE SyncRead(q) \/ SyncWrite(q) \/ MutateApply(q) \/ MutateReset(q)
             \/ AddInstanceRejected(q)
    BY <1>3, SyncReadUndisturbed, SyncWriteUndisturbed, ApplyUndisturbed, ResetUndisturbed
  <1>4. CASE UpdateRead(q) \/ UpdateCheckName(q) \/ UpdateRename(q) \/ UpdateSave(q)
             \/ UpdateReset(q)
    BY <1>4, UpdateReadUndisturbed, CheckNameUndisturbed, RenameUndisturbed,
       SaveUndisturbed, ResetUndisturbed
  <1>5. CASE DeleteDropCR(q) \/ DeleteDropRow(q) \/ ReplaceReadTarget(q) \/ ReplaceSwap(q)
             \/ ReplaceDropArchiveCR(q) \/ ReplaceDropSourceCR(q)
    BY <1>5, DeleteDropUndisturbed, DropRowUndisturbed, ReadTargetUndisturbed,
       SwapUndisturbed, ArchiveDropUndisturbed, SourceDropUndisturbed
  <1>6. CASE DBFails(q) \/ K8sFails(q)
    BY <1>6, DBFailsUndisturbed, K8sFailsUndisturbed
  <1>. QED BY <1>1, <1>2, <1>3, <1>4, <1>5, <1>6 DEF Handle, ReadStep

(***************************************************************************)
(* It changes only itself, and it is alone.                                *)
(***************************************************************************)
LEMMA OneAtWork ==
  ASSUME TypeOK, NEW q \in Reqs, Handle(q)
  PROVE  \E r : req' = [req EXCEPT ![q] = r]
  BY DEF Handle, Arrive, ReadMisses, CreateInsert, CopyRead, CopyScan, CopyInsert,
         ValidateRead, ValidateScan, ValidateRecord, PublishRead, PublishSet,
         PublishWriteCR, PublishRollback, UnpublishRead, UnpublishSet, UnpublishDropCR,
         SyncRead, SyncWrite, MutateRead, MutateApply, MutateReset, AddInstanceRejected,
         UpdateRead, UpdateCheckName, UpdateRename, UpdateSave, UpdateReset, DeleteRead,
         DeleteDropCR, DeleteDropRow, ReplaceRead, ReplaceReadTarget, ReplaceSwap,
         ReplaceDropArchiveCR, ReplaceDropSourceCR, DBFails, K8sFails,
         Finish, Goto, Remember, Advance, AfterSync, Hit, Insert

LEMMA Troubles ==
  ASSUME NEW q \in Reqs, Handle(q)
  PROVE  trouble \subseteq trouble'
  BY DEF Handle, Arrive, ReadMisses, CreateInsert, CopyRead, CopyScan, CopyInsert,
         ValidateRead, ValidateScan, ValidateRecord, PublishRead, PublishSet,
         PublishWriteCR, PublishRollback, UnpublishRead, UnpublishSet, UnpublishDropCR,
         SyncRead, SyncWrite, MutateRead, MutateApply, MutateReset, AddInstanceRejected,
         UpdateRead, UpdateCheckName, UpdateRename, UpdateSave, UpdateReset, DeleteRead,
         DeleteDropCR, DeleteDropRow, ReplaceRead, ReplaceReadTarget, ReplaceSwap,
         ReplaceDropArchiveCR, ReplaceDropSourceCR, DBFails, K8sFails

LEMMA OnlyArrivals ==
  ASSUME NEW q \in Reqs, Handle(q), req[q].pc = "idle"
  PROVE  Arrive(q)
  BY DEF Handle, ReadMisses, CreateInsert, CopyRead, CopyScan, CopyInsert,
         ValidateRead, ValidateScan, ValidateRecord, PublishRead, PublishSet,
         PublishWriteCR, PublishRollback, UnpublishRead, UnpublishSet, UnpublishDropCR,
         SyncRead, SyncWrite, MutateRead, MutateApply, MutateReset, AddInstanceRejected,
         UpdateRead, UpdateCheckName, UpdateRename, UpdateSave, UpdateReset, DeleteRead,
         DeleteDropCR, DeleteDropRow, ReplaceRead, ReplaceReadTarget, ReplaceSwap,
         ReplaceDropArchiveCR, ReplaceDropSourceCR, DBFails, K8sFails, DBSteps, At

LEMMA WorksAlone ==
  ASSUME Single, NEW q \in Reqs, Handle(q), "overlap" \notin trouble'
  PROVE  Alone(q)
  <1>1. CASE req[q].pc = "idle"
    BY <1>1, OnlyArrivals DEF Arrive, Alone
  <1>2. CASE req[q].pc # "idle"
    BY <1>2 DEF Single, Alone
  <1>. QED BY <1>1, <1>2

(***************************************************************************)
(* What holds of the request as it is after the step, said of its slot.    *)
(***************************************************************************)
LEMMA InSlot ==
  ASSUME NEW q \in Reqs, NEW r, req'[q] = r, Undisturbed(r)'
  PROVE  Current(req[q])' /\ Owed(req[q])'
  <1>1. Current(req[q])'
    <2>1. SnapCurrent(req[q])'
      BY ZenonT(60) DEF Undisturbed, Current, SnapCurrent, Unwritten, SyncName, NameAfter, Renames
    <2>2. Guarded(req[q])' /\ Handed(req[q])'
      BY DEF Undisturbed, Current, Guarded, Mutates, Handed
    <2>. QED BY <2>1, <2>2 DEF Current
  <1>2. Owed(req[q])'
    BY DEF Undisturbed, Owed, OwesReset, OwesCR, Owes
  <1>. QED BY <1>1, <1>2

LEMMA RestCurrent ==
  ASSUME NEW q \in Reqs, req'[q] = req[q], req[q].pc = "idle", Current(req[q])
  PROVE  Current(req[q])'
  BY DEF Current, SnapCurrent, Unwritten, Guarded, Mutates, Handed

LEMMA RestOwed ==
  ASSUME NEW q \in Reqs, NEW r, r.pc = "idle", Owed(r)', req'[q].pc = "idle"
  PROVE  Owed(req[q])'
  BY DEF Owed, OwesReset, OwesCR, Owes

LEMMA IdleOwed ==
  ASSUME NEW r, r.pc = "idle", Owed(r)'
  PROVE  Owed(Idle)'
  BY DEF Owed, OwesReset, OwesCR, Owes, Idle, Call

LEMMA SequentialStep ==
  ASSUME IInv, IInv', Sequential, NEW q \in Reqs, Handle(q), "overlap" \notin trouble'
  PROVE  Sequential'
  <1>1. Alone(q) /\ TypeOK
    BY WorksAlone DEF Sequential, IInv
  <1>2. PICK r : req' = [req EXCEPT ![q] = r]
    BY <1>1, OneAtWork
  <1>3. Undisturbed(req[q])
    BY <1>1 DEF Sequential, Undisturbed
  <1>4. Undisturbed(r)'
    BY <1>2, <1>3, StepUndisturbed
  <1>5. req'[q] = r /\ \A p \in Reqs \ {q} : req'[p] = req[p] /\ req'[p].pc = "idle"
    BY <1>1, <1>2 DEF Alone, TypeOK
  <1>6. Single'
    BY <1>5 DEF Single
  <1>7. NamesUnique' /\ LiveUsed' /\ Owed(r)'
    BY <1>4 DEF Undisturbed
  <1>8. ASSUME NEW p \in Reqs PROVE Current(req[p])' /\ (Alone(p)' => Owed(req[p])')
    <2>1. CASE p = q
      BY <1>4, <1>5, <2>1, InSlot
    <2>2. CASE p # q
      <3>1. Current(req[p])'
        BY <1>5, <2>2, RestCurrent DEF Sequential
      <3>2. Alone(p)' => r.pc = "idle"
        BY <1>5, <2>2 DEF Alone
      <3>. QED BY <1>5, <1>7, <2>2, <3>1, <3>2, RestOwed
    <2>. QED BY <2>1, <2>2
  <1>9. Quiescent' => Owed(Idle)'
    BY <1>5, <1>7, IdleOwed DEF Quiescent
  <1>. QED BY <1>6, <1>7, <1>8, <1>9 DEF Sequential

LEMMA Stutter ==
  ASSUME UNCHANGED vars, Sequential
  PROVE  Sequential'
  <1>. USE DEF vars, tables
  <1>1. Single' /\ NamesUnique' /\ LiveUsed'
    BY DEF Sequential, Single, NamesUnique, LiveUsed, Live
  <1>2. \A p \in Reqs : Current(req[p])'
    <2>1. ASSUME NEW p \in Reqs PROVE SnapCurrent(req[p])'
      BY DEF Sequential, Current, SnapCurrent, RowIs, Live
    <2>2. ASSUME NEW p \in Reqs PROVE Guarded(req[p])' /\ Handed(req[p])'
      BY DEF Sequential, Current, Guarded, Mutates, Handed, Owners, Live
    <2>. QED BY <2>1, <2>2 DEF Current
  <1>3. ASSUME NEW r, Owed(r) PROVE Owed(r)'
    BY <1>3 DEF Owed, VerdictOK, Published, Live, Mirrors, Owners, OwesReset, OwesCR, Owes
  <1>4. \A p \in Reqs : Alone(p)' => Owed(req[p])'
    <2>. SUFFICES ASSUME NEW p \in Reqs, Alone(p)' PROVE Owed(req[p])'
      OBVIOUS
    <2>1. PICK r : r = req[p]
      OBVIOUS
    <2>2. Owed(r)
      BY <2>1 DEF Sequential, Alone
    <2>3. Owed(r)' /\ req'[p] = r
      BY <1>3, <2>1, <2>2
    <2>. QED BY <2>3 DEF Owed, OwesReset, OwesCR, Owes
  <1>5. Quiescent' => Owed(Idle)'
    <2>1. Quiescent' => Owed(Idle)
      BY DEF Sequential, Quiescent
    <2>. QED BY <2>1 DEF Owed, VerdictOK, Published, Live, Mirrors, Owners, OwesReset,
                         OwesCR, Owes
  <1>. QED BY <1>1, <1>2, <1>4, <1>5 DEF Sequential

LEMMA SeqInit == Init => SeqInv
  <1>. SUFFICES ASSUME Init PROVE Sequential
    BY DEF SeqInv
  <1>1. Live = {} /\ Published = {}
    BY DEF Init, Live, Published
  <1>2. \A q \in Reqs : req[q] = Idle /\ Current(req[q])
    BY IdleCurrent DEF Init
  <1>3. Idle.pc = "idle"
    BY DEF Idle, Call
  <1>4. \A n \in Names : Mirrors(n)
    BY <1>1 DEF Init, Mirrors
  <1>5. Owed(Idle)
    BY <1>1, <1>3, <1>4 DEF Owed
  <1>6. Single /\ NamesUnique /\ LiveUsed
    BY <1>1, <1>2, <1>3 DEF Single, NamesUnique, LiveUsed
  <1>. QED BY <1>2, <1>5, <1>6 DEF Sequential

LEMMA SeqNext == IInv /\ IInv' /\ SeqInv /\ [Next]_vars => SeqInv'
  <1>. SUFFICES ASSUME IInv, IInv', SeqInv, [Next]_vars, "overlap" \notin trouble'
                PROVE  Sequential'
    BY DEF SeqInv
  <1>1. CASE UNCHANGED vars
    BY <1>1, Stutter DEF SeqInv, vars
  <1>2. ASSUME NEW q \in Reqs, Handle(q) PROVE Sequential'
    BY <1>2, Troubles, SequentialStep DEF SeqInv
  <1>. QED BY <1>1, <1>2 DEF Next

(***************************************************************************)
(* As long as requests come one at a time, every handler finds the rows it *)
(* has read as they are, and what the cluster or a status lacks is what    *)
(* the handler at work still owes.                                         *)
(***************************************************************************)
THEOREM SequenceInvariance == Spec => []SeqInv
  BY InitInv, NextInv, SeqInit, SeqNext, PTL DEF Spec

-----------------------------------------------------------------------------
(***************************************************************************)
(* Between requests that come one at a time nothing is owed.               *)
(***************************************************************************)
LEMMA AtRest ==
  ASSUME SeqInv, Quiescent, "overlap" \notin trouble
  PROVE  /\ trouble \subseteq {"k8s"} => \A c \in Live : VerdictOK(c)
         /\ trouble \subseteq {"badInput", "k8s"} => \A c \in Published : cr[row[c].name] # NoCR
         /\ trouble \subseteq {"badInput"} => \A n \in Names : Mirrors(n)
  <1>1. Owed(Idle) /\ Idle.pc \in Free
    BY DEF SeqInv, Sequential, Free, Idle, Call
  <1>. QED BY <1>1, Nothing DEF Owed

(***************************************************************************)
(* Requests that come one at a time, none of which fails, leave in the     *)
(* cluster exactly the CRs of the published catalogs, each pointing at its *)
(* row and pin: the database is written first, and what Publish,           *)
(* Unpublish, Delete, ReplaceCatalog and SyncCR still owe is paid.         *)
(***************************************************************************)
THEOREM ClusterMirrors == Spec => []ClusterMirrorsDatabase
  <1>1. SeqInv => ClusterMirrorsDatabase
    BY AtRest DEF ClusterMirrorsDatabase
  <1>. QED BY <1>1, SequenceInvariance, PTL

(***************************************************************************)
(* Even if any Kubernetes call fails, a published catalog keeps a CR of    *)
(* its name between such requests.                                         *)
(***************************************************************************)
THEOREM Discoverable == Spec => []PublishedIsDiscoverable
  <1>1. SeqInv => PublishedIsDiscoverable
    BY AtRest DEF PublishedIsDiscoverable
  <1>. QED BY <1>1, SequenceInvariance, PTL

(***************************************************************************)
(* A status `valid' is, between such requests, about the contents and the  *)
(* pin as they are: every mutation, rename and new pin resets it.          *)
(***************************************************************************)
THEOREM ValidConforms == Spec => []ValidMeansConforming
  <1>1. SeqInv => ValidMeansConforming
    BY AtRest DEF ValidMeansConforming, VerdictsHold, VerdictOK
  <1>. QED BY <1>1, SequenceInvariance, PTL

-----------------------------------------------------------------------------
(***************************************************************************)
(* What a step may do to a published catalog: a status or a flag, an       *)
(* insertion and the deletion of another row leave its contents, name and  *)
(* pin alone.                                                              *)
(***************************************************************************)
Spared(c) == data'[c] = data[c] /\ row'[c].name = row[c].name /\ row'[c].cv = row[c].cv

LEMMA InsertSpares ==
  ASSUME IInv, LiveUsed, NEW q, NEW n, NEW v, NEW d, Insert(q, n, v, d), NEW c \in Published
  PROVE  Spared(c)
  <1>1. c \in used /\ c \in Cats
    BY DEF LiveUsed, Published, Live
  <1>2. CASE UNCHANGED tables
    BY <1>2 DEF tables, Spared
  <1>3. ASSUME NEW e \in Cats \ used, NEW x, row' = [row EXCEPT ![e] = x],
               data' = [data EXCEPT ![e] = d]
        PROVE  Spared(c)
    <2>1. row'[c] = row[c] /\ data'[c] = data[c]
      BY <1>1, <1>3 DEF IInv, TypeOK
    <2>. QED BY <2>1 DEF Spared
  <1>. QED BY <1>2, <1>3 DEF Insert

LEMMA WriteSpares ==
  ASSUME TypeOK, data' = data, NEW c \in Published, NEW e,
         \/ row' = row
         \/ e \in Live /\ \E s \in Status : row' = WithStatus(e, s)
         \/ e \in Live /\ \E b \in BOOLEAN : row' = WithPublished(e, b)
  PROVE  Spared(c)
  <1>0. c \in Live /\ c \in Cats
    BY DEF Published, Live
  <1>1. CASE row' = row
    BY <1>1 DEF Spared
  <1>2. ASSUME e \in Live, NEW s \in Status, row' = WithStatus(e, s) PROVE Spared(c)
    BY <1>0, <1>2, StatusWritten DEF SameButStatus, Spared
  <1>3. ASSUME e \in Live, NEW b \in BOOLEAN, row' = WithPublished(e, b) PROVE Spared(c)
    <2>1. row'[c].name = row[c].name /\ row'[c].cv = row[c].cv
      BY <1>0, <1>3, FlagWritten
    <2>. QED BY <2>1 DEF Spared
  <1>. QED BY <1>1, <1>2, <1>3

LEMMA UpdateSpares ==
  ASSUME IInv, NEW q \in Reqs, Current(req[q]), UpdateRename(q) \/ UpdateSave(q),
         NEW c \in Published
  PROVE  Spared(c)
  <1>. DEFINE o == req[q]
  <1>1. /\ TypeOK /\ o \in Request /\ o.op = "update" /\ o.pc \in {"rename", "save"}
        /\ data' = data
    BY DEF UpdateRename, UpdateSave, At, IInv, TypeOK
  <1>2. PICK e \in Cats, s \in Row : o.snap.id = e /\ o.snap.row = s /\ o.snap # NoSnap
    BY <1>1, Holds
  <1>3. c \in Live /\ c \in Cats
    BY DEF Published, Live
  <1>4. CASE c # e \/ row' = row
    <2>1. row'[c] = row[c]
      BY <1>1, <1>2, <1>3, <1>4 DEF UpdateRename, UpdateSave, TypeOK
    <2>. QED BY <1>1, <2>1 DEF Spared
  <1>5. CASE c = e /\ UpdateRename(q)
    <2>1. o.other \in Names /\ o.pc = "rename"
      BY <1>1, <1>5, Holds DEF UpdateRename, At, Good, WellFormed
    <2>2. row[c] = s /\ ~s.published
      BY <1>2, <1>5, <2>1, CatalogAssumption
         DEF Current, SnapCurrent, Unwritten, RowIs, Guarded
    <2>. QED BY <2>2 DEF Published
  <1>6. CASE c = e /\ UpdateSave(q) /\ row' # row
    <2>1. o.pc = "save"
      BY <1>6 DEF UpdateSave, At
    <2>2. row[c] = Named(s, NameAfter(o))
      BY <1>2, <1>6, <2>1 DEF Current, SnapCurrent, RowIs
    <2>3. row[c].published = s.published /\ row[c].name = NameAfter(o) /\ row[c].cv = s.cv
      BY <2>2 DEF Named, Row
    <2>4. ~Repins(o)
      BY <1>2, <2>1, <2>3 DEF Published, Current, Guarded, Repins
    <2>5. row'[c] = [s EXCEPT !.name = NameAfter(o), !.cv = s.cv]
      BY <1>1, <1>2, <1>3, <1>6, <2>4 DEF UpdateSave, TypeOK
    <2>6. row'[c].name = NameAfter(o) /\ row'[c].cv = s.cv
      BY <2>5 DEF Row
    <2>. QED BY <1>1, <2>3, <2>6 DEF Spared
  <1>. QED BY <1>4, <1>5, <1>6

Protected(c) ==
    (c \in Live' /\ Touched(c)) =>
      \E q \in Reqs :
         \/ req[q].role = "SuperAdmin" /\ req[q].pc = "apply"
         \/ req[q].op = "replace" /\ req[q].pc = "swap" /\ ~(row'[c].published /\ c = req[q].snap2.id)

LEMMA SparedProtected == ASSUME NEW c, Spared(c) PROVE Protected(c)
  BY DEF Spared, Touched, Protected

LEMMA StepProtects ==
  ASSUME IInv, Sequential, NEW q \in Reqs, Handle(q), NEW c \in Published
  PROVE  Protected(c)
  <1>. DEFINE o == req[q]
  <1>1. TypeOK /\ LiveUsed /\ Current(o) /\ c \in Live /\ c \in Cats
    BY DEF IInv, Sequential, Published, Live
  <1>2. CASE UNCHANGED <<row, data>>
    BY <1>1, <1>2, WriteSpares, SparedProtected
  <1>3. CASE CreateInsert(q) \/ CopyInsert(q)
    BY <1>1, <1>3, InsertSpares, SparedProtected DEF CreateInsert, CopyInsert
  <1>4. CASE ValidateRecord(q) \/ UpdateReset(q) \/ MutateReset(q)
    <2>1. data' = data /\ \/ row' = row
                          \/ o.snap.id \in Live /\ \E s \in Status : row' = WithStatus(o.snap.id, s)
      BY <1>4 DEF ValidateRecord, UpdateReset, MutateReset, Verdict, Status
    <2>. QED BY <1>1, <2>1, WriteSpares, SparedProtected
  <1>5. CASE PublishSet(q) \/ UnpublishSet(q) \/ PublishRollback(q)
    <2>1. data' = data /\ \/ row' = row
                          \/ /\ o.snap.id \in Live
                             /\ \E b \in BOOLEAN : row' = WithPublished(o.snap.id, b)
      BY <1>5 DEF PublishSet, UnpublishSet, PublishRollback, Hit
    <2>. QED BY <1>1, <2>1, WriteSpares, SparedProtected
  <1>6. CASE UpdateRename(q) \/ UpdateSave(q)
    BY <1>1, <1>6, UpdateSpares, SparedProtected
  <1>7. CASE MutateApply(q) \/ AddInstanceRejected(q)
    <2>1. Mutates(o) /\ o.pc = "apply" /\ row' = row
      BY <1>7 DEF MutateApply, AddInstanceRejected, At, Mutates
    <2>2. \E d : data' = [data EXCEPT ![o.snap.id] = d]
      BY <1>7 DEF MutateApply, AddInstanceRejected
    <2>3. CASE c # o.snap.id
      BY <1>1, <2>1, <2>2, <2>3, SparedProtected DEF Spared, TypeOK
    <2>4. CASE c = o.snap.id
      BY <1>1, <2>1, <2>4
         DEF Published, Current, SnapCurrent, Unwritten, RowIs, Guarded, Protected
    <2>. QED BY <2>3, <2>4
  <1>8. CASE DeleteDropRow(q)
    <2>1. c \notin Live' \/ (row'[c] = row[c] /\ data'[c] = data[c])
      BY <1>1, <1>8 DEF DeleteDropRow, Live, TypeOK
    <2>. QED BY <2>1 DEF Protected, Touched
  <1>9. CASE ReplaceSwap(q)
    <2>1. o.op = "replace" /\ o.pc = "swap"
      BY <1>9 DEF ReplaceSwap, At
    <2>2. CASE row' = row
      BY <1>1, <1>9, <2>2, WriteSpares, SparedProtected DEF ReplaceSwap
    <2>3. CASE row' # row
      <3>1. /\ row' = Swapped(o) /\ {o.snap.id, o.snap2.id} \subseteq Live
        BY <1>9, <2>3 DEF ReplaceSwap
      <3>2. PICK s \in Live, rs \in Row, t \in Live, rt \in Row, m \in Names, a \in Names :
               /\ o.snap.id = s /\ o.snap.row = rs /\ o.snap2.id = t /\ o.snap2.row = rt
               /\ o.other = m /\ o.archive = a
        BY <2>1, <3>1, Holds DEF Good, WellFormed, Snap
      <3>3. row[s] = rs /\ rs.name = o.name /\ row[t] = rt /\ rt.name = m /\ o.name # m
        BY <1>1, <2>1, <3>2, Holds DEF Current, SnapCurrent, Unwritten, RowIs, Handed
      <3>4. o \in Request /\ s # t
        BY <1>1, <3>3 DEF TypeOK
      <3>5. Exchanged(s, t, rs, rt, m, a)
        BY <1>1, <3>1, <3>2, <3>3, <3>4, SwappedRows
      <3>6. c = o.snap2.id => ~row'[c].published
        BY <3>2, <3>5 DEF Exchanged
      <3>. QED BY <2>1, <3>6 DEF Protected
    <2>. QED BY <2>2, <2>3
  <1>. QED BY <1>2, <1>3, <1>4, <1>5, <1>6, <1>7, <1>8, <1>9
    DEF Handle, Arrive, ReadMisses, CopyRead, CopyScan, ValidateRead, ValidateScan,
        PublishRead, PublishWriteCR, UnpublishRead, UnpublishDropCR, SyncRead, SyncWrite,
        MutateRead, UpdateRead, UpdateCheckName, DeleteRead, DeleteDropCR, ReplaceRead,
        ReplaceReadTarget, ReplaceDropArchiveCR, ReplaceDropSourceCR, DBFails, K8sFails,
        tables

(***************************************************************************)
(* A CR is dropped only when no published catalog has its name, but for    *)
(* the one a delete is about to take away.                                 *)
(***************************************************************************)
LEMMA DropsUnserved ==
  ASSUME IInv, NamesUnique, NEW q \in Reqs, Current(req[q]),
         UnpublishDropCR(q) \/ ReplaceDropArchiveCR(q) \/ ReplaceDropSourceCR(q)
  PROVE  \E n : cr' = [cr EXCEPT ![n] = NoCR] /\ \A d \in Published : row[d].name # n
  <1>. DEFINE o == req[q]
  <1>1. CASE UnpublishDropCR(q)
    <2>1. o.op = "unpublish" /\ o.pc = "dropCR"
      BY <1>1 DEF UnpublishDropCR, At
    <2>2. PICK c \in Cats, s \in Row : o.snap.id = c /\ o.snap.row = s
      BY <2>1, Holds
    <2>3. c \in Live /\ row[c] = Flagged(s, FALSE)
      BY <2>1, <2>2 DEF Current, SnapCurrent, RowIs
    <2>4. ~row[c].published /\ row[c].name = s.name
      BY <2>3 DEF Flagged, Row
    <2>5. \A d \in Published : row[d].name # s.name
      BY <2>3, <2>4 DEF NamesUnique, Published
    <2>. QED BY <1>1, <2>2, <2>5 DEF UnpublishDropCR
  <1>2. CASE ReplaceDropArchiveCR(q)
    <2>1. \A d \in Published : row[d].name # o.archive
      BY <1>2 DEF ReplaceDropArchiveCR, At, Current, Handed, Owners, Published
    <2>. QED BY <1>2, <2>1 DEF ReplaceDropArchiveCR
  <1>3. CASE ReplaceDropSourceCR(q)
    <2>1. \A d \in Published : row[d].name # o.name
      BY <1>3 DEF ReplaceDropSourceCR, At, Current, Handed, Owners, Published
    <2>. QED BY <1>3, <2>1 DEF ReplaceDropSourceCR
  <1>. QED BY <1>1, <1>2, <1>3

LEMMA StepServes ==
  ASSUME IInv, Sequential, NEW q \in Reqs, Handle(q), NEW c \in Published,
         cr[row[c].name] # NoCR, cr'[row[c].name] = NoCR
  PROVE  \E p \in Reqs : At(p, "delete", "dropCR")
  <1>1. /\ TypeOK /\ NamesUnique /\ Current(req[q]) /\ c \in Live
        /\ row[c] \in Row /\ row[c].name \in Names
    BY DEF IInv, Sequential, Published, Live, TypeOK, Row
  <1>2. CASE cr' = cr
    BY <1>2
  <1>3. CASE DeleteDropCR(q)
    BY <1>3 DEF DeleteDropCR
  <1>4. CASE UnpublishDropCR(q) \/ ReplaceDropArchiveCR(q) \/ ReplaceDropSourceCR(q)
    <2>1. PICK n : cr' = [cr EXCEPT ![n] = NoCR] /\ \A d \in Published : row[d].name # n
      BY <1>1, <1>4, DropsUnserved
    <2>2. cr'[row[c].name] = cr[row[c].name]
      BY <1>1, <2>1 DEF TypeOK
    <2>. QED BY <2>2
  <1>5. ASSUME NEW n, NEW x, cr' = [cr EXCEPT ![n] = x], x # NoCR PROVE FALSE
    BY <1>1, <1>5 DEF TypeOK
  <1>6. CASE PublishWriteCR(q)
    <2>1. CROf(req[q].snap) \in CR
      BY <1>6, Holds, SnapCR DEF PublishWriteCR, At, Good, Trusted
    <2>. QED BY <1>5, <1>6, <2>1, AbsentAssumption DEF PublishWriteCR
  <1>7. CASE SyncWrite(q)
    <2>1. req[q].snap2 \in Snap /\ req[q].snap2.row.published
          /\ Vouched(req[q].snap2.id, req[q].snap2.row, validated)
      BY <1>7, Holds, AbsentAssumption DEF SyncWrite, Good, WellFormed, Trusted
    <2>2. CROf(req[q].snap2) \in CR
      BY <2>1, SnapCR
    <2>. QED BY <1>5, <1>7, <2>2, AbsentAssumption DEF SyncWrite
  <1>. QED BY <1>2, <1>3, <1>4, <1>6, <1>7
    DEF Handle, Arrive, ReadMisses, CreateInsert, CopyRead, CopyScan, CopyInsert,
        ValidateRead, ValidateScan, ValidateRecord, PublishRead, PublishSet,
        PublishRollback, UnpublishRead, UnpublishSet, SyncRead, MutateRead, MutateApply,
        MutateReset, AddInstanceRejected, UpdateRead, UpdateCheckName, UpdateRename,
        UpdateSave, UpdateReset, DeleteRead, DeleteDropRow, ReplaceRead,
        ReplaceReadTarget, ReplaceSwap, DBFails, K8sFails

(***************************************************************************)
(* Without overlap, whatever fails, a published catalog changes its        *)
(* contents only at the hand of a SuperAdmin, and keeps its name and pin   *)
(* until a replace archives it: RequireWriteAccess and UpdateMetadata      *)
(* decide on a row that is still current when it is written.               *)
(***************************************************************************)
THEOREM Protection == Spec => PublishedIsProtected
  <1>1. IInv /\ SeqInv /\ [Next]_vars =>
          [ "overlap" \notin trouble => \A c \in Published : Protected(c) ]_vars
    <2>. SUFFICES ASSUME IInv, SeqInv, NEW q \in Reqs, Handle(q), "overlap" \notin trouble,
                         NEW c \in Published
                  PROVE  Protected(c)
      BY DEF Next
    <2>. QED BY StepProtects DEF SeqInv
  <1>. QED BY <1>1, Invariance, SequenceInvariance, PTL
           DEF Spec, PublishedIsProtected, Protected

(***************************************************************************)
(* Without overlap, whatever fails, only Delete takes down the CR of a     *)
(* catalog that is published: ReplaceCatalog never leaves the name it      *)
(* takes over unserved.                                                    *)
(***************************************************************************)
THEOREM Service == Spec => ServedUntilWithdrawn
  <1>1. IInv /\ SeqInv /\ [Next]_vars =>
          [ "overlap" \notin trouble =>
              \A c \in Published :
                cr[row[c].name] # NoCR /\ cr'[row[c].name] = NoCR
                  => \E q \in Reqs : At(q, "delete", "dropCR") ]_vars
    <2>. SUFFICES ASSUME IInv, SeqInv, NEW q \in Reqs, Handle(q), "overlap" \notin trouble,
                         NEW c \in Published, cr[row[c].name] # NoCR,
                         cr'[row[c].name] = NoCR
                  PROVE  \E p \in Reqs : At(p, "delete", "dropCR")
      BY DEF Next
    <2>. QED BY StepServes DEF SeqInv
  <1>. QED BY <1>1, Invariance, SequenceInvariance, PTL DEF Spec, ServedUntilWithdrawn

=============================================================================
