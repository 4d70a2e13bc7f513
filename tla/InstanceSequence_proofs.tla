---------------------- MODULE InstanceSequence_proofs -----------------------
(***************************************************************************)
(* Proofs about InstanceStore while requests come one at a time, for any   *)
(* instances, types, attributes and links: that nothing is orphaned, no    *)
(* link is made twice, versions are counted one by one, and the values of  *)
(* every version stay.                                                     *)
(***************************************************************************)
EXTENDS InstanceStore_proofs, FiniteSetTheorems

Single == \A p, q \in Reqs : req[p].pc # "idle" /\ req[q].pc # "idle" => p = q

RowIs(i, x) == i \in live /\ inst[i] = x

(***************************************************************************)
(* The steps before the row that was read is saved, and those at which the *)
(* second row that was read has not been saved.                            *)
(***************************************************************************)
Unsaved(r) ==
    r.pc \in {"readValues", "save", "readOther", "checkName", "checkLink", "insertLink",
              "dropLink", "bump"}

Paired(r) ==
    \/ r.op = "contain" /\ r.pc # "idle"
    \/ r.op = "setParent" /\ r.pc \in {"checkName", "bump"} /\ r.other # NoInst
    \/ r.op = "link" /\ r.pc \in {"checkLink", "insertLink", "bump"}
    \/ r.op = "unlink" /\ r.pc \in {"dropLink", "bump"}

(***************************************************************************)
(* An instance moved under itself or linked to itself is bumped twice from *)
(* the same row: the second bump writes the version and the values that    *)
(* the first has written.                                                  *)
(***************************************************************************)
Rebumps(i, x) ==
    /\ i \in live
    /\ inst[i].version = x.version + 1 /\ inst[i].name = x.name
    /\ cells = BumpedCells(i, x.version)

(***************************************************************************)
(* The values an update carries into the next version.                     *)
(***************************************************************************)
NextCells(r) ==
    {[c EXCEPT !.version = r.row.version + 1] :
        c \in {d \in CellsOf(r.id, r.row.version) : d.attr # r.attr}}
      \cup Given(r, r.id, r.row.version + 1)

Fresh(r) ==
    /\ Unsaved(r) => RowIs(r.id, r.row)
    /\ Paired(r) => RowIs(r.other, r.otherRow)
    /\ r.pc = "insert" => r.row.version = 1
    /\ r.pc = "values" => r.id \in live /\ inst[r.id].version = 1
    /\ r.pc = "insertLink" => \A l \in LiveLinks : links[l] # LinkOf(r)
    /\ r.pc = "save" => r.cells = NextCells(r)
    /\ r.pc = "setValues" =>
         /\ r.row \in Row
         /\ r.id \in live /\ inst[r.id].version = r.row.version + 1
         /\ CellsOf(r.id, inst[r.id].version) = {}
         /\ r.cells = NextCells(r)
    /\ r.pc = "bumpOther" => RowIs(r.other, r.otherRow) \/ Rebumps(r.other, r.otherRow)

(***************************************************************************)
(* No instance has a value of a version it has not reached.                *)
(***************************************************************************)
Counted ==
    \A c \in cells : inst[c.id] # NoRow /\ c.version <= inst[c.id].version

Distinct == \A l, m \in LiveLinks : links[l] = links[m] => l = m

(***************************************************************************)
(* Two successive versions differ in one attribute at most.  An update     *)
(* that has saved the row still owes the values of its last version.       *)
(***************************************************************************)
Carries(i, v) ==
    \E a \in Attrs \cup {None} : \A b \in Attrs \ {a} : ValuesAt(i, v, b) = ValuesAt(i, v + 1, b)

OwesValues(r, i, v) == r.pc = "setValues" /\ r.id = i /\ v + 1 = inst[i].version

Carried ==
    \A i \in live : \A v \in 1..(inst[i].version - 1) :
        Carries(i, v) \/ \E q \in Reqs : OwesValues(req[q], i, v)

Sequential ==
    /\ Single /\ Counted /\ Distinct
    /\ trouble = {} => Carried
    /\ \A q \in Reqs : Fresh(req[q])

SeqInv == "overlap" \notin trouble => Sequential

-----------------------------------------------------------------------------
(***************************************************************************)
(* The containment tree and the cascade.  Every child of an instance the   *)
(* cascade has begun to visit is still to visit, or being visited.         *)
(***************************************************************************)
Rooting(x) == x.parent \in live \cup {NoInst}

Covered(s, j) ==
    /\ s[j].id \in Insts
    /\ \A c \in Children(s[j].id) : c \in s[j].kids \/ (j < Len(s) /\ c = s[j + 1].id)

Visits(r) ==
    /\ r.pc \in {"cascade", "dropRow"} => \A j \in 2..Len(r.stack) : Covered(r.stack, j)
    /\ r.pc = "dropRow" =>
         LET top == r.stack[Len(r.stack)]
         IN  /\ top.kids = {}
             /\ \A l \in LiveLinks : top.id \notin {links[l].from, links[l].to}

Attaches(r) ==
    /\ r.pc = "insert" => Rooting(r.row)
    /\ r.pc = "bumpOther" => Rooting(r.otherRow)

Whole ==
    /\ IsFiniteSet(live)
    /\ \A i \in live : Rooting(inst[i])
    /\ \A l \in LiveLinks : {links[l].from, links[l].to} \subseteq live
    /\ \A q \in Reqs : Attaches(req[q]) /\ Visits(req[q])

TreeInv == "overlap" \notin trouble => Whole

FewChildren == \A i \in Insts : Cardinality(Children(i)) <= ListLimit

-----------------------------------------------------------------------------
(***************************************************************************)
(* What is true of the tables and of the request at work.                  *)
(***************************************************************************)
CarriedBut(o) ==
    \A i \in live : \A v \in 1..(inst[i].version - 1) : Carries(i, v) \/ OwesValues(o, i, v)

Undisturbed(o) ==
    /\ Fresh(o) /\ Counted /\ Distinct
    /\ trouble = {} => CarriedBut(o)

LEMMA IdleFresh ==
  ASSUME NEW r, r = Idle
  PROVE  r.pc = "idle" /\ Fresh(r) /\ Fresh(r)'
  BY DEF Idle, Fresh, Unsaved, Paired

LEMMA Finished ==
  ASSUME IInv, NEW q \in Reqs, Finish(q), NEW r, req' = [req EXCEPT ![q] = r]
  PROVE  r = Idle /\ r.pc = "idle" /\ Fresh(r) /\ Fresh(r)'
  <1>1. r = Idle
    BY DEF IInv, TypeOK, Finish
  <1>. QED BY <1>1, IdleFresh

(***************************************************************************)
(* A step that leaves the tables alone.                                    *)
(***************************************************************************)
LEMMA Reads ==
  ASSUME NEW o, Undisturbed(o), UNCHANGED <<rows, cells, linkTable>>,
         trouble \subseteq trouble', trouble' = {} => o.pc # "setValues",
         NEW r, Fresh(r)
  PROVE  Undisturbed(r)'
  <1>. USE DEF rows, linkTable
  <1>1. Fresh(r)'
    BY DEF Fresh, RowIs, LiveLinks, NextCells, CellsOf, Rebumps, BumpedCells
  <1>2. Counted' /\ Distinct'
    BY DEF Undisturbed, Counted, Distinct, LiveLinks
  <1>3. ASSUME trouble' = {} PROVE CarriedBut(r)'
    <2>1. trouble = {} /\ o.pc # "setValues"
      BY <1>3
    <2>2. \A i \in live : \A v \in 1..(inst[i].version - 1) : Carries(i, v)
      BY <2>1 DEF Undisturbed, CarriedBut, OwesValues
    <2>3. \A i, v, b : ValuesAt(i, v, b)' = ValuesAt(i, v, b)
      BY DEF ValuesAt, CellsOf
    <2>. QED BY <2>2, <2>3 DEF CarriedBut, Carries
  <1>. QED BY <1>1, <1>2, <1>3 DEF Undisturbed

LEMMA EndsUndisturbed ==
  ASSUME IInv, NEW q \in Reqs, Undisturbed(req[q]), Finish(q),
         UNCHANGED <<rows, cells, linkTable>>, trouble \subseteq trouble',
         trouble' = {} => req[q].pc # "setValues",
         NEW r, req' = [req EXCEPT ![q] = r]
  PROVE  Undisturbed(r)'
  BY Finished, Reads

LEMMA GoesOn ==
  ASSUME IInv, NEW q \in Reqs, Undisturbed(req[q]), req[q].pc # "setValues",
         UNCHANGED <<rows, cells, linkTable, trouble>>,
         NEW r, req' = [req EXCEPT ![q] = r], Fresh(r)
  PROVE  Undisturbed(r)'
  BY Reads

(***************************************************************************)
(* The first read of a request.                                            *)
(***************************************************************************)
LEMMA StartUndisturbed ==
  ASSUME IInv, NEW q \in Reqs, Undisturbed(req[q]), NEW x \in Request, Start(q, x),
         UNCHANGED <<rows, cells, linkTable>>, Fresh(x),
         NEW r, req' = [req EXCEPT ![q] = r]
  PROVE  Undisturbed(r)'
  <1>1. r = x
    BY DEF IInv, TypeOK, Start
  <1>2. req[q].pc # "setValues" /\ trouble \subseteq trouble'
    BY DEF Start
  <1>. QED BY <1>1, <1>2, Reads

LEMMA FirstReadUndisturbed ==
  ASSUME IInv, NEW q \in Reqs, Undisturbed(req[q]),
         \/ CreateRead(q) \/ ContainRead(q) \/ UpdateRead(q) \/ SetParentRead(q)
         \/ LinkRead(q) \/ UnlinkRead(q) \/ DeleteRead(q),
         NEW r, req' = [req EXCEPT ![q] = r]
  PROVE  Undisturbed(r)'
  <1>1. req[q].pc = "idle" /\ trouble \subseteq trouble' /\ UNCHANGED <<rows, cells, linkTable>>
    BY DEF CreateRead, ContainRead, UpdateRead, SetParentRead, LinkRead, UnlinkRead,
           DeleteRead, Start
  <1>0. ASSUME NEW x, Start(q, x) PROVE r = x
    BY <1>0 DEF IInv, TypeOK, Start
  <1>2. CASE CreateRead(q)
    <2>1. PICK c \in Catalogs, t \in Types, n \in Names, ax \in Inputs :
            r = [Idle EXCEPT !.op = "create", !.pc = "insert", !.row = NewRow(c, t, NoInst, n),
                             !.attr = ax[1], !.value = ax[2]]
      BY <1>0, <1>2 DEF CreateRead
    <2>2. r.pc = "insert" /\ r.op = "create" /\ r.row.version = 1
      BY <2>1 DEF NewRow, Idle
    <2>. QED BY <1>1, <2>2, Reads DEF Fresh, Unsaved, Paired
  <1>3. CASE ContainRead(q)
    <2>1. PICK p \in live, t \in Types, n \in Names, ax \in Inputs :
            r = [Idle EXCEPT !.op = "contain", !.pc = "insert", !.other = p, !.otherRow = inst[p],
                             !.row = NewRow(inst[p].catalog, t, p, n),
                             !.attr = ax[1], !.value = ax[2]]
      BY <1>0, <1>3 DEF ContainRead
    <2>2. /\ r.pc = "insert" /\ r.op = "contain" /\ r.row.version = 1
          /\ r.other = p /\ r.otherRow = inst[p]
      BY <2>1 DEF NewRow, Idle
    <2>. QED BY <1>1, <2>2, Reads DEF Fresh, Unsaved, Paired, RowIs
  <1>4. CASE UpdateRead(q)
    <2>1. PICK i \in live, n \in Names \cup {None}, ax \in Inputs :
            \E v \in 1..inst[i].version :
              /\ Accepts(i, v)
              /\ Start(q, [Idle EXCEPT !.op = "update", !.pc = "readValues", !.id = i,
                                       !.row = [inst[i] EXCEPT !.version = v],
                                       !.name = n, !.attr = ax[1], !.value = ax[2]])
      BY <1>4 DEF UpdateRead
    <2>2. PICK v \in 1..inst[i].version :
            /\ Accepts(i, v)
            /\ r = [Idle EXCEPT !.op = "update", !.pc = "readValues", !.id = i,
                                !.row = [inst[i] EXCEPT !.version = v],
                                !.name = n, !.attr = ax[1], !.value = ax[2]]
      BY <1>0, <2>1
    <2>3. [inst[i] EXCEPT !.version = v] = inst[i]
      BY <2>2, Holds DEF Accepts, Row
    <2>4. r.pc = "readValues" /\ r.op = "update" /\ r.id = i /\ r.row = inst[i]
      BY <2>2, <2>3 DEF Idle
    <2>. QED BY <1>1, <2>4, Reads DEF Fresh, Unsaved, Paired, RowIs
  <1>5. CASE SetParentRead(q)
    <2>1. PICK i \in live, p \in Insts \cup {NoInst} :
            r = [Idle EXCEPT !.op = "setParent", !.id = i, !.row = inst[i], !.other = p,
                             !.pc = IF p = NoInst THEN "checkName" ELSE "readOther"]
      BY <1>0, <1>5 DEF SetParentRead
    <2>2. /\ r.op = "setParent" /\ r.id = i /\ r.row = inst[i]
          /\ r.pc \in {"checkName", "readOther"} /\ (r.pc = "checkName" => r.other = NoInst)
      BY <2>1 DEF Idle
    <2>. QED BY <1>1, <2>2, Reads DEF Fresh, Unsaved, Paired, RowIs
  <1>6. CASE LinkRead(q)
    <2>1. PICK i \in live, j \in Insts, a \in Assocs :
            r = [Idle EXCEPT !.op = "link", !.pc = "readOther", !.id = i,
                             !.row = inst[i], !.other = j, !.assoc = a]
      BY <1>0, <1>6 DEF LinkRead
    <2>2. r.op = "link" /\ r.pc = "readOther" /\ r.id = i /\ r.row = inst[i]
      BY <2>1 DEF Idle
    <2>. QED BY <1>1, <2>2, Reads DEF Fresh, Unsaved, Paired, RowIs
  <1>7. CASE UnlinkRead(q)
    <2>1. PICK l \in LiveLinks :
            /\ links[l].from \in live
            /\ r = [Idle EXCEPT !.op = "unlink", !.pc = "readOther", !.link = l,
                                !.id = links[l].from, !.row = inst[links[l].from],
                                !.other = links[l].to, !.assoc = links[l].assoc]
      BY <1>0, <1>7 DEF UnlinkRead
    <2>2. /\ r.op = "unlink" /\ r.pc = "readOther" /\ r.id = links[l].from
          /\ r.row = inst[links[l].from]
      BY <2>1 DEF Idle
    <2>. QED BY <1>1, <2>1, <2>2, Reads DEF Fresh, Unsaved, Paired, RowIs
  <1>8. CASE DeleteRead(q)
    <2>1. PICK i \in live :
            r = [Idle EXCEPT !.op = "delete", !.pc = "cascade", !.id = i,
                             !.stack = <<[id |-> NoInst, kids |-> {i}]>>]
      BY <1>0, <1>8 DEF DeleteRead
    <2>2. r.op = "delete" /\ r.pc = "cascade"
      BY <2>1 DEF Idle
    <2>. QED BY <1>1, <2>2, Reads DEF Fresh, Unsaved, Paired
  <1>. QED BY <1>2, <1>3, <1>4, <1>5, <1>6, <1>7, <1>8

(***************************************************************************)
(* The steps of a request that read on, and compute what is to be written. *)
(***************************************************************************)
LEMMA ReadValuesUndisturbed ==
  ASSUME IInv, NEW q \in Reqs, Undisturbed(req[q]), UpdateReadValues(q),
         NEW r, req' = [req EXCEPT ![q] = r]
  PROVE  Undisturbed(r)'
  <1>1. req[q].op = "update" /\ req[q].pc = "readValues" /\ req[q] \in Request
    BY Holds DEF UpdateReadValues, At
  <1>2. /\ r.pc = "save" /\ r.op = "update" /\ r.id = req[q].id /\ r.row = req[q].row
        /\ r.cells = NextCells(req[q])
        /\ r.attr = req[q].attr /\ r.value = req[q].value
    <2>1. req' = [req EXCEPT ![q].pc = "save", ![q].cells = NextCells(req[q])]
      BY DEF UpdateReadValues, NextCells
    <2>2. r = [req[q] EXCEPT !.pc = "save", !.cells = NextCells(req[q])]
      BY <1>1, <2>1 DEF IInv, TypeOK, Request
    <2>. QED BY <1>1, <2>2 DEF Request
  <1>3. NextCells(r) = NextCells(req[q])
    BY <1>2 DEF NextCells, Given
  <1>4. RowIs(r.id, r.row)
    BY <1>1, <1>2 DEF Undisturbed, Fresh, Unsaved
  <1>5. Fresh(r)
    BY <1>2, <1>3, <1>4 DEF Fresh, Unsaved, Paired
  <1>. QED BY <1>1, <1>5, GoesOn DEF UpdateReadValues

LEMMA SecondReadUndisturbed ==
  ASSUME IInv, NEW q \in Reqs, Undisturbed(req[q]),
         SetParentReadParent(q) \/ LinkReadTarget(q) \/ UnlinkReadTarget(q),
         NEW r, req' = [req EXCEPT ![q] = r]
  PROVE  Undisturbed(r)'
  <1>1. /\ req[q].pc = "readOther" /\ req[q].op \in {"setParent", "link", "unlink"}
        /\ req[q] \in Request
        /\ UNCHANGED <<rows, cells, linkTable, trouble>>
    BY Holds DEF SetParentReadParent, LinkReadTarget, UnlinkReadTarget, At
  <1>2. CASE Finish(q)
    BY <1>1, <1>2, EndsUndisturbed
  <1>3. ASSUME NEW pc \in {"checkName", "checkLink", "dropLink"}, req[q].other \in live,
               req' = [req EXCEPT ![q].otherRow = inst[req[q].other], ![q].pc = pc]
        PROVE  Undisturbed(r)'
    <2>1. r = [req[q] EXCEPT !.otherRow = inst[req[q].other], !.pc = pc]
      BY <1>1, <1>3 DEF IInv, TypeOK, Request
    <2>2. /\ r.pc = pc /\ r.op = req[q].op /\ r.id = req[q].id /\ r.row = req[q].row
          /\ r.other = req[q].other /\ r.otherRow = inst[req[q].other]
      BY <1>1, <2>1 DEF Request
    <2>3. RowIs(r.id, r.row) /\ RowIs(r.other, r.otherRow)
      BY <1>1, <1>3, <2>2 DEF Undisturbed, Fresh, Unsaved, RowIs
    <2>4. Fresh(r)
      BY <1>1, <2>2, <2>3 DEF Fresh
    <2>. QED BY <1>1, <2>4, GoesOn
  <1>4. \/ Finish(q)
        \/ \E pc \in {"checkName", "checkLink", "dropLink"} :
             /\ req[q].other \in live
             /\ req' = [req EXCEPT ![q].otherRow = inst[req[q].other], ![q].pc = pc]
    BY DEF SetParentReadParent, LinkReadTarget, UnlinkReadTarget, MayContain, MayLink
  <1>. QED BY <1>2, <1>3, <1>4

LEMMA CheckUndisturbed ==
  ASSUME IInv, NEW q \in Reqs, Undisturbed(req[q]), SetParentCheckName(q) \/ LinkCheck(q),
         NEW r, req' = [req EXCEPT ![q] = r]
  PROVE  Undisturbed(r)'
  <1>1. /\ req[q].pc \in {"checkName", "checkLink"} /\ req[q] \in Request
        /\ req[q].op \in {"setParent", "link"}
        /\ req[q].pc = "checkName" <=> req[q].op = "setParent"
        /\ UNCHANGED <<rows, cells, linkTable, trouble>>
    BY Holds DEF SetParentCheckName, LinkCheck, At
  <1>2. CASE Finish(q)
    BY <1>1, <1>2, EndsUndisturbed
  <1>3. ASSUME NEW pc \in {"bump", "insertLink"}, Goto(q, pc),
               pc = "insertLink" => /\ req[q].op = "link"
                                    /\ \A l \in LiveLinks : links[l] # LinkOf(req[q]),
               pc = "bump" => req[q].op = "setParent"
        PROVE  Undisturbed(r)'
    <2>1. r = [req[q] EXCEPT !.pc = pc]
      BY <1>1, <1>3 DEF Goto, IInv, TypeOK, Request
    <2>2. /\ r.pc = pc /\ r.op = req[q].op /\ r.id = req[q].id /\ r.row = req[q].row
          /\ r.other = req[q].other /\ r.otherRow = req[q].otherRow /\ r.assoc = req[q].assoc
      BY <1>1, <2>1 DEF Request
    <2>3. Fresh(req[q])
      BY DEF Undisturbed
    <2>4. RowIs(r.id, r.row) /\ (Paired(r) => RowIs(r.other, r.otherRow))
      BY <1>1, <1>3, <2>2, <2>3 DEF Fresh, Unsaved, Paired
    <2>5. LinkOf(r) = LinkOf(req[q])
      BY <2>2 DEF LinkOf
    <2>6. Fresh(r)
      BY <1>3, <2>2, <2>4, <2>5 DEF Fresh
    <2>. QED BY <1>1, <2>6, GoesOn
  <1>4. \/ Finish(q)
        \/ \E pc \in {"bump", "insertLink"} :
             /\ Goto(q, pc)
             /\ pc = "insertLink" => /\ req[q].op = "link"
                                     /\ \A l \in LiveLinks : links[l] # LinkOf(req[q])
             /\ pc = "bump" => req[q].op = "setParent"
    BY DEF SetParentCheckName, LinkCheck, At
  <1>. QED BY <1>2, <1>3, <1>4

LEMMA ReadOldUndisturbed ==
  ASSUME IInv, NEW q \in Reqs, Undisturbed(req[q]), SetParentReadOld(q),
         NEW r, req' = [req EXCEPT ![q] = r]
  PROVE  Undisturbed(r)'
  <1>. DEFINE p == req[q].row.parent
  <1>1. /\ req[q].pc = "readOld" /\ req[q].op = "setParent" /\ req[q] \in Request
        /\ UNCHANGED <<rows, cells, linkTable, trouble>>
    BY Holds DEF SetParentReadOld, At
  <1>2. CASE p \notin live
    BY <1>1, <1>2, EndsUndisturbed DEF SetParentReadOld
  <1>3. CASE p \in live
    <2>1. req' = [req EXCEPT ![q].other = p, ![q].otherRow = inst[p], ![q].pc = "bumpOther"]
      BY <1>3 DEF SetParentReadOld
    <2>. HIDE DEF p
    <2>2. r = [req[q] EXCEPT !.other = p, !.otherRow = inst[p], !.pc = "bumpOther"]
      BY <1>1, <2>1 DEF IInv, TypeOK, Request
    <2>3. /\ r.pc = "bumpOther" /\ r.op = "setParent" /\ r.other = p /\ r.otherRow = inst[p]
      BY <1>1, <2>2 DEF Request
    <2>4. Fresh(r)
      BY <1>3, <2>3 DEF Fresh, Unsaved, Paired, RowIs
    <2>. QED BY <1>1, <2>4, GoesOn
  <1>. QED BY <1>2, <1>3

(***************************************************************************)
(* The cascade finds its way, a request is rejected, the database fails,   *)
(* the process runs out of stack.                                          *)
(***************************************************************************)
LEMMA ListUndisturbed ==
  ASSUME IInv, NEW q \in Reqs, Undisturbed(req[q]), CascadeList(q),
         NEW r, req' = [req EXCEPT ![q] = r]
  PROVE  Undisturbed(r)'
  <1>1. /\ req[q].pc = "cascade" /\ req[q].op = "delete" /\ req[q] \in Request
        /\ UNCHANGED <<rows, cells, linkTable, trouble>>
    BY Holds DEF CascadeList, At
  <1>2. PICK x : req' = [req EXCEPT ![q].stack = x]
    BY DEF CascadeList
  <1>3. r = [req[q] EXCEPT !.stack = x]
    BY <1>1, <1>2 DEF IInv, TypeOK, Request
  <1>4. r.pc = "cascade" /\ r.op = "delete"
    BY <1>1, <1>3 DEF Request
  <1>. QED BY <1>1, <1>4, GoesOn DEF Fresh, Unsaved, Paired

LEMMA FailUndisturbed ==
  ASSUME IInv, NEW q \in Reqs, Undisturbed(req[q]), CreateRejected(q) \/ DBFails(q),
         NEW r, req' = [req EXCEPT ![q] = r]
  PROVE  Undisturbed(r)'
  BY EndsUndisturbed DEF CreateRejected, DBFails

LEMMA OverflowUndisturbed ==
  ASSUME IInv, NEW q \in Reqs, Undisturbed(req[q]), CascadeOverflows(q),
         NEW r, req' = [req EXCEPT ![q] = r]
  PROVE  Undisturbed(r)'
  <1>1. r = Idle
    BY DEF CascadeOverflows, IInv, TypeOK
  <1>. QED BY <1>1, IdleFresh, Reads DEF CascadeOverflows

-----------------------------------------------------------------------------
(***************************************************************************)
(* Values.  Whether two versions agree depends on their values alone.      *)
(***************************************************************************)
LEMMA CarriesSame ==
  ASSUME NEW i, NEW v, CellsOf(i, v)' = CellsOf(i, v), CellsOf(i, v + 1)' = CellsOf(i, v + 1)
  PROVE  Carries(i, v)' <=> Carries(i, v)
  <1>1. \A b : ValuesAt(i, v, b)' = ValuesAt(i, v, b)
    BY DEF ValuesAt
  <1>2. \A b : ValuesAt(i, v + 1, b)' = ValuesAt(i, v + 1, b)
    BY DEF ValuesAt
  <1>. QED BY <1>1, <1>2 DEF Carries

LEMMA CellsTyped ==
  ASSUME IInv
  PROVE  \A c \in cells : /\ c \in Cell /\ c.id \in Insts /\ c.version \in Nat
                          /\ c = [id |-> c.id, version |-> c.version, attr |-> c.attr,
                                  value |-> c.value]
  BY DEF IInv, TypeOK, Cell

(***************************************************************************)
(* New values belong to the version an instance has reached.               *)
(***************************************************************************)
LEMMA CellsOfOther ==
  ASSUME NEW i, NEW v, NEW new, cells' = cells \cup new, \A c \in new : c.id # i \/ c.version # v
  PROVE  CellsOf(i, v)' = CellsOf(i, v)
  BY DEF CellsOf

LEMMA NextCellsAre ==
  ASSUME IInv, NEW r \in Request, r.id \in Insts, r.row \in Row
  PROVE  \A c \in NextCells(r) : c.id = r.id /\ c.version = r.row.version + 1 /\ c \in Cell
  <1>. DEFINE v == r.row.version
  <1>1. v \in Nat
    BY DEF Row
  <1>2. Given(r, r.id, v + 1) \subseteq Cell
    BY <1>1, GivenTyped
  <1>3. \A c \in Given(r, r.id, v + 1) : c.id = r.id /\ c.version = v + 1
    BY DEF Given
  <1>4. ASSUME NEW d \in CellsOf(r.id, v)
        PROVE  LET c == [d EXCEPT !.version = v + 1]
               IN  c.id = r.id /\ c.version = v + 1 /\ c \in Cell
    <2>1. d \in Cell /\ d.id = r.id
      BY CellsTyped DEF CellsOf
    <2>. QED BY <1>1, <2>1 DEF Cell
  <1>. QED BY <1>2, <1>3, <1>4 DEF NextCells

(***************************************************************************)
(* The two versions an update leads from and to.                           *)
(***************************************************************************)
LEMMA NextCarries ==
  ASSUME IInv, NEW r \in Request, r.id \in Insts, r.row \in Row,
         CellsOf(r.id, r.row.version)' = CellsOf(r.id, r.row.version),
         CellsOf(r.id, r.row.version + 1)' = NextCells(r)
  PROVE  Carries(r.id, r.row.version)'
  <1>. DEFINE v == r.row.version
              i == r.id
  <1>1. ASSUME NEW b, b # r.attr
        PROVE  ValuesAt(i, v, b)' = ValuesAt(i, v + 1, b)'
    <2>1. ASSUME NEW x \in ValuesAt(i, v, b)' PROVE x \in ValuesAt(i, v + 1, b)'
      <3>1. PICK d \in CellsOf(i, v) : d.attr = b /\ x = d.value
        BY <2>1 DEF ValuesAt
      <3>2. d \in Cell
        BY CellsTyped DEF CellsOf
      <3>. DEFINE c == [d EXCEPT !.version = v + 1]
      <3>3. c.attr = b /\ c.value = x
        BY <3>1, <3>2 DEF Cell
      <3>4. c \in NextCells(r)
        BY <1>1, <3>1 DEF NextCells
      <3>. HIDE DEF c
      <3>. QED BY <3>3, <3>4 DEF ValuesAt
    <2>2. ASSUME NEW x \in ValuesAt(i, v + 1, b)' PROVE x \in ValuesAt(i, v, b)'
      <3>1. PICK c \in NextCells(r) : c.attr = b /\ x = c.value
        BY <2>2 DEF ValuesAt
      <3>2. c \notin Given(r, i, v + 1)
        BY <1>1, <3>1 DEF Given
      <3>3. PICK d \in CellsOf(i, v) : c = [d EXCEPT !.version = v + 1]
        BY <3>1, <3>2 DEF NextCells
      <3>4. d \in Cell
        BY CellsTyped DEF CellsOf
      <3>5. d.attr = b /\ d.value = x
        BY <3>1, <3>3, <3>4 DEF Cell
      <3>. QED BY <3>5 DEF ValuesAt
    <2>. QED BY <2>1, <2>2
  <1>2. r.attr \in Attrs \cup {None}
    BY DEF Request
  <1>. HIDE DEF v, i
  <1>3. Carries(i, v)'
    BY <1>1, <1>2 DEF Carries
  <1>. QED BY <1>3 DEF i, v

(***************************************************************************)
(* BumpInstanceVersion copies the values of a version.                     *)
(***************************************************************************)
Copies(i, v) == {[c EXCEPT !.version = v + 1] : c \in CellsOf(i, v)}

LEMMA CopiesAre ==
  ASSUME IInv, NEW i \in Insts, NEW v \in Nat
  PROVE  /\ \A c \in Copies(i, v) : c.id = i /\ c.version = v + 1 /\ c \in Cell
         /\ \A d \in CellsOf(i, v) : LET c == [d EXCEPT !.version = v + 1]
                                     IN  c \in Copies(i, v) /\ c.attr = d.attr /\ c.value = d.value
         /\ \A c \in Copies(i, v) : \E d \in CellsOf(i, v) : c.attr = d.attr /\ c.value = d.value
  <1>1. ASSUME NEW d \in CellsOf(i, v)
        PROVE  LET c == [d EXCEPT !.version = v + 1]
               IN  /\ c.id = i /\ c.version = v + 1 /\ c \in Cell
                   /\ c.attr = d.attr /\ c.value = d.value
    <2>1. d \in Cell /\ d.id = i
      BY CellsTyped DEF CellsOf
    <2>. QED BY <2>1 DEF Cell
  <1>. QED BY <1>1 DEF Copies

LEMMA BumpedAre ==
  ASSUME IInv, NEW i \in Insts, NEW v \in Nat, cells' = BumpedCells(i, v)
  PROVE  /\ CellsOf(i, v)' = CellsOf(i, v)
         /\ CellsOf(i, v + 1)' = Copies(i, v)
         /\ \A j, w : j # i \/ w # v + 1 => CellsOf(j, w)' = CellsOf(j, w)
         /\ cells' = (cells \ CellsOf(i, v + 1)) \cup Copies(i, v)
  <1>1. cells' = (cells \ CellsOf(i, v + 1)) \cup Copies(i, v)
    BY DEF BumpedCells, Copies
  <1>2. \A c \in Copies(i, v) : c.id = i /\ c.version = v + 1
    BY CopiesAre
  <1>3. \A j, w : j # i \/ w # v + 1 => CellsOf(j, w)' = CellsOf(j, w)
    BY <1>1, <1>2 DEF CellsOf
  <1>4. CellsOf(i, v + 1)' = Copies(i, v)
    BY <1>1, <1>2 DEF CellsOf
  <1>. QED BY <1>1, <1>3, <1>4

LEMMA BumpCarries ==
  ASSUME IInv, NEW i \in Insts, NEW v \in Nat, cells' = BumpedCells(i, v)
  PROVE  Carries(i, v)'
  <1>1. ASSUME NEW b PROVE ValuesAt(i, v, b)' = ValuesAt(i, v + 1, b)'
    <2>1. ASSUME NEW x \in ValuesAt(i, v, b)' PROVE x \in ValuesAt(i, v + 1, b)'
      <3>1. PICK d \in CellsOf(i, v) : d.attr = b /\ x = d.value
        BY <2>1, BumpedAre DEF ValuesAt
      <3>. DEFINE c == [d EXCEPT !.version = v + 1]
      <3>2. c \in Copies(i, v) /\ c.attr = b /\ x = c.value
        BY <3>1, CopiesAre
      <3>. HIDE DEF c
      <3>. QED BY <3>2, BumpedAre DEF ValuesAt
    <2>2. ASSUME NEW x \in ValuesAt(i, v + 1, b)' PROVE x \in ValuesAt(i, v, b)'
      <3>1. PICK c \in Copies(i, v) : c.attr = b /\ x = c.value
        BY <2>2, BumpedAre DEF ValuesAt
      <3>2. PICK d \in CellsOf(i, v) : d.attr = b /\ x = d.value
        BY <3>1, CopiesAre
      <3>. QED BY <3>2, BumpedAre DEF ValuesAt
    <2>. QED BY <2>1, <2>2
  <1>. QED BY <1>1 DEF Carries

(***************************************************************************)
(* A second bump from the same row writes what is there.                   *)
(***************************************************************************)
LEMMA BumpTwice ==
  ASSUME IInv, NEW i \in Insts, NEW v \in Nat, cells' = BumpedCells(i, v)
  PROVE  cells' = BumpedCells(i, v)'
  <1>1. Copies(i, v)' = Copies(i, v)
    BY BumpedAre DEF Copies
  <1>2. BumpedCells(i, v)' = (cells' \ CellsOf(i, v + 1)') \cup Copies(i, v)'
    BY DEF BumpedCells, Copies
  <1>. QED BY <1>1, <1>2, BumpedAre

-----------------------------------------------------------------------------
(***************************************************************************)
(* Steps that write a row.                                                 *)
(***************************************************************************)
LEMMA Saved ==
  ASSUME IInv, NEW i \in Insts, NEW x, Save(i, x)
  PROVE  /\ i \in live' /\ inst'[i] = x /\ live \subseteq live' /\ live' = live \cup {i}
         /\ \A j \in Insts \ {i} : inst'[j] = inst[j]
         /\ \A j : j # i => (j \in live' <=> j \in live)
  BY DEF Save, IInv, TypeOK

LEMMA InsertUndisturbed ==
  ASSUME IInv, NEW q \in Reqs, Undisturbed(req[q]), CreateInsert(q),
         NEW r, req' = [req EXCEPT ![q] = r]
  PROVE  Undisturbed(r)'
  <1>1. req[q].pc = "insert" /\ req[q] \in Request /\ UNCHANGED <<cells, linkTable, trouble>>
    BY Holds DEF CreateInsert
  <1>2. CASE Finish(q) /\ UNCHANGED rows
    BY <1>1, <1>2, EndsUndisturbed
  <1>3. ASSUME NEW i \in Unborn, Save(i, req[q].row),
               req' = [req EXCEPT ![q].id = i, ![q].pc = "values"]
        PROVE  Undisturbed(r)'
    <2>1. r = [req[q] EXCEPT !.id = i, !.pc = "values"]
      BY <1>1, <1>3 DEF IInv, TypeOK, Request
    <2>2. /\ r.pc = "values" /\ r.op = req[q].op /\ r.id = i
          /\ r.other = req[q].other /\ r.otherRow = req[q].otherRow
      BY <1>1, <2>1 DEF Request
    <2>3. i \in Insts /\ inst[i] = NoRow /\ i \notin live
      BY DEF Unborn, IInv
    <2>4. /\ i \in live' /\ inst'[i] = req[q].row /\ live' = live \cup {i}
          /\ \A j \in Insts \ {i} : inst'[j] = inst[j]
      BY <1>3, <2>3, Saved
    <2>5. Fresh(req[q]) /\ req[q].row.version = 1 /\ req[q].row # NoRow
      BY <1>1, Holds, StoreAbsentAssumption DEF Undisturbed, Fresh, Held, RowsHeld
    <2>6. Paired(r) => RowIs(r.other, r.otherRow)'
      <3>1. Paired(r) => Paired(req[q])
        BY <1>1, <2>2 DEF Paired
      <3>. QED BY <2>2, <2>3, <2>4, <2>5, <3>1 DEF Fresh, RowIs, IInv, TypeOK
    <2>7. Fresh(r)'
      BY <2>2, <2>4, <2>5, <2>6 DEF Fresh, Unsaved, Paired
    <2>8. Counted'
      BY <1>1, <2>3, <2>4, CellsTyped DEF Undisturbed, Counted
    <2>9. Distinct'
      BY <1>1 DEF Undisturbed, Distinct, LiveLinks, linkTable
    <2>10. ASSUME trouble' = {} PROVE CarriedBut(r)'
      <3>1. \A j \in live : \A v \in 1..(inst[j].version - 1) : Carries(j, v)
        BY <1>1, <2>10 DEF Undisturbed, CarriedBut, OwesValues
      <3>2. \A j, v : Carries(j, v)' <=> Carries(j, v)
        BY <1>1, CarriesSame DEF CellsOf
      <3>3. ASSUME NEW j \in live', NEW v \in 1..(inst'[j].version - 1) PROVE Carries(j, v)'
        <4>1. j # i
          BY <2>4, <2>5, <3>3
        <4>2. j \in live /\ inst'[j] = inst[j]
          BY <2>4, <4>1 DEF IInv, TypeOK
        <4>. QED BY <3>1, <3>2, <3>3, <4>2
      <3>. QED BY <3>3 DEF CarriedBut
    <2>. QED BY <2>7, <2>8, <2>9, <2>10 DEF Undisturbed
  <1>. QED BY <1>2, <1>3 DEF CreateInsert

LEMMA ValuesUndisturbed ==
  ASSUME IInv, NEW q \in Reqs, Undisturbed(req[q]), CreateValues(q),
         NEW r, req' = [req EXCEPT ![q] = r]
  PROVE  Undisturbed(r)'
  <1>. DEFINE o == req[q]
              new == Given(o, o.id, 1)
  <1>1. o.pc = "values" /\ o \in Request /\ Held(inst, o) /\ Fresh(o)
    BY Holds DEF CreateValues, Undisturbed
  <1>2. /\ inst' = inst /\ live' = live /\ links' = links /\ trouble' = trouble
        /\ cells' = cells \cup new
    BY DEF CreateValues, rows, linkTable
  <1>3. o.id \in Insts /\ o.id \in live /\ inst[o.id].version = 1 /\ inst[o.id] # NoRow
    BY <1>1 DEF Held, RowsHeld, Fresh, IInv
  <1>4. \A c \in new : c.id = o.id /\ c.version = 1
    BY DEF Given
  <1>. HIDE DEF new
  <1>5. Fresh(r)'
    <2>1. CASE o.op # "contain"
      BY <2>1, Finished DEF CreateValues
    <2>2. CASE o.op = "contain"
      <3>1. r = [o EXCEPT !.pc = "bumpOther"]
        BY <1>1, <2>2 DEF CreateValues, Goto, IInv, TypeOK, Request
      <3>2. /\ r.pc = "bumpOther" /\ r.op = "contain"
            /\ r.other = o.other /\ r.otherRow = o.otherRow
        BY <1>1, <2>2, <3>1 DEF Request
      <3>3. RowIs(r.other, r.otherRow)
        BY <1>1, <2>2, <3>2 DEF Fresh, Paired
      <3>. QED BY <1>2, <3>2, <3>3 DEF Fresh, Unsaved, RowIs
    <2>. QED BY <2>1, <2>2
  <1>6. Counted' /\ Distinct'
    BY <1>2, <1>3, <1>4 DEF Undisturbed, Counted, Distinct, LiveLinks
  <1>7. ASSUME trouble' = {} PROVE CarriedBut(r)'
    <2>1. \A j \in live : \A v \in 1..(inst[j].version - 1) : Carries(j, v)
      BY <1>1, <1>2, <1>7 DEF Undisturbed, CarriedBut, OwesValues
    <2>2. ASSUME NEW j \in live, NEW v \in 1..(inst[j].version - 1) PROVE Carries(j, v)'
      <3>1. j # o.id
        BY <1>3, <2>2
      <3>2. CellsOf(j, v)' = CellsOf(j, v) /\ CellsOf(j, v + 1)' = CellsOf(j, v + 1)
        BY <1>2, <1>4, <3>1, CellsOfOther
      <3>. QED BY <2>1, <3>2, CarriesSame
    <2>. QED BY <1>2, <2>2 DEF CarriedBut
  <1>. QED BY <1>5, <1>6, <1>7 DEF Undisturbed

LEMMA UpdateSaveUndisturbed ==
  ASSUME IInv, NEW q \in Reqs, Undisturbed(req[q]), UpdateSave(q),
         NEW r, req' = [req EXCEPT ![q] = r]
  PROVE  Undisturbed(r)'
  <1>. DEFINE o == req[q]
              n == IF o.name = None THEN o.row.name ELSE o.name
              new == [o.row EXCEPT !.name = n, !.version = o.row.version + 1]
  <1>1. /\ o.pc = "save" /\ o.op = "update" /\ o \in Request /\ Held(inst, o) /\ Fresh(o)
        /\ UNCHANGED <<cells, linkTable, trouble>>
    BY Holds DEF UpdateSave, Undisturbed, At
  <1>2. CASE Finish(q) /\ UNCHANGED rows
    BY <1>1, <1>2, EndsUndisturbed
  <1>3. CASE Save(o.id, new) /\ Goto(q, "setValues")
    <2>1. /\ o.id \in live /\ inst[o.id] = o.row /\ o.cells = NextCells(o)
          /\ o.id \in Insts /\ o.row \in Row
      BY <1>1 DEF Fresh, Unsaved, RowIs, Held, RowsHeld, Agrees
    <2>2. r = [o EXCEPT !.pc = "setValues"]
      BY <1>1, <1>3 DEF Goto, IInv, TypeOK, Request
    <2>3. /\ r.pc = "setValues" /\ r.op = "update" /\ r.id = o.id /\ r.row = o.row
          /\ r.cells = o.cells /\ r.attr = o.attr /\ r.value = o.value
      BY <1>1, <2>2 DEF Request
    <2>4. new.version = o.row.version + 1 /\ o.row.version \in Nat /\ new # NoRow
      <3>1. n \in Names
        BY <1>1, <2>1 DEF Request, Row
      <3>. HIDE DEF n
      <3>2. new \in Row
        BY <2>1, <3>1, NextRow
      <3>. QED BY <2>1, <3>2, StoreAbsentAssumption DEF Row
    <2>. HIDE DEF new
    <2>5. /\ live' = live /\ inst'[o.id] = new
          /\ \A j \in Insts \ {o.id} : inst'[j] = inst[j]
      BY <1>3, <2>1, Saved
    <2>6. CellsOf(o.id, o.row.version + 1) = {}
      BY <2>1, <2>4, CellsTyped DEF Undisturbed, Counted, CellsOf
    <2>7. Fresh(r)'
      <3>1. CellsOf(r.id, inst[r.id].version)' = {}
        BY <1>1, <2>3, <2>4, <2>5, <2>6 DEF CellsOf
      <3>2. r.cells = NextCells(r)'
        BY <1>1, <2>1, <2>3 DEF NextCells, Given, CellsOf
      <3>. QED BY <2>1, <2>3, <2>4, <2>5, <3>1, <3>2 DEF Fresh, Unsaved, Paired
    <2>8. Counted'
      BY <1>1, <2>1, <2>4, <2>5, CellsTyped DEF Undisturbed, Counted
    <2>9. Distinct'
      BY <1>1 DEF Undisturbed, Distinct, LiveLinks, linkTable
    <2>10. ASSUME trouble' = {} PROVE CarriedBut(r)'
      <3>1. \A j \in live : \A v \in 1..(inst[j].version - 1) : Carries(j, v)
        BY <1>1, <2>10 DEF Undisturbed, CarriedBut, OwesValues
      <3>2. \A j, v : Carries(j, v)' <=> Carries(j, v)
        BY <1>1, CarriesSame DEF CellsOf
      <3>3. ASSUME NEW j \in live, NEW v \in 1..(inst'[j].version - 1)
            PROVE  Carries(j, v)' \/ OwesValues(r, j, v)'
        <4>1. CASE j # o.id
          BY <2>5, <3>1, <3>2, <3>3, <4>1 DEF IInv, TypeOK
        <4>2. CASE j = o.id /\ v # o.row.version
          <5>1. v \in 1..(inst[j].version - 1)
            BY <2>1, <2>4, <2>5, <3>3, <4>2
          <5>. QED BY <3>1, <3>2, <5>1
        <4>3. CASE j = o.id /\ v = o.row.version
          BY <2>3, <2>4, <2>5, <4>3 DEF OwesValues
        <4>. QED BY <4>1, <4>2, <4>3
      <3>. QED BY <2>5, <3>3 DEF CarriedBut
    <2>. QED BY <2>7, <2>8, <2>9, <2>10 DEF Undisturbed
  <1>. QED BY <1>2, <1>3 DEF UpdateSave

(***************************************************************************)
(* An update pays the values it owes: those of its last version.           *)
(***************************************************************************)
LEMMA SetValuesUndisturbed ==
  ASSUME IInv, NEW q \in Reqs, Undisturbed(req[q]), UpdateSetValues(q),
         NEW r, req' = [req EXCEPT ![q] = r]
  PROVE  Undisturbed(r)'
  <1>0. PICK o, v : o = req[q] /\ v = o.row.version
    OBVIOUS
  <1>1. /\ o.pc = "setValues" /\ o.op = "update" /\ o \in Request /\ Fresh(o) /\ Finish(q)
        /\ inst' = inst /\ live' = live /\ links' = links /\ trouble' = trouble
    BY <1>0, Holds DEF UpdateSetValues, Undisturbed, At, rows, linkTable
  <1>2. /\ o.id \in live /\ o.id \in Insts /\ o.row \in Row /\ v \in Nat
        /\ inst[o.id].version = v + 1
        /\ CellsOf(o.id, v + 1) = {} /\ o.cells = NextCells(o)
    BY <1>0, <1>1, Holds DEF Fresh, Row
  <1>3. \A c \in NextCells(o) : c.id = o.id /\ c.version = v + 1
    BY <1>0, <1>1, <1>2, NextCellsAre
  <1>4. cells' = cells \cup NextCells(o)
    BY <1>0, <1>2, <1>3 DEF UpdateSetValues
  <1>5. Fresh(r)' /\ r.pc = "idle"
    BY <1>1, Finished
  <1>6. Counted' /\ Distinct'
    BY <1>0, <1>1, <1>2, <1>3, <1>4 DEF Undisturbed, Counted, Distinct, LiveLinks, IInv
  <1>7. ASSUME trouble' = {} PROVE CarriedBut(r)'
    <2>1. \A j \in live : \A w \in 1..(inst[j].version - 1) :
             Carries(j, w) \/ (j = o.id /\ w + 1 = v + 1)
      BY <1>0, <1>1, <1>2, <1>7 DEF Undisturbed, CarriedBut, OwesValues
    <2>2. Carries(o.id, v)'
      <3>1. CellsOf(o.id, v)' = CellsOf(o.id, v)
        BY <1>2, <1>3, <1>4, CellsOfOther
      <3>2. CellsOf(o.id, v + 1)' = NextCells(o)
        BY <1>2, <1>3, <1>4 DEF CellsOf
      <3>. QED BY <1>0, <1>1, <1>2, <3>1, <3>2, NextCarries
    <2>3. ASSUME NEW j \in live, NEW w \in 1..(inst[j].version - 1) PROVE Carries(j, w)'
      <3>1. CASE j = o.id /\ w = v
        BY <2>2, <3>1
      <3>2. CASE ~(j = o.id /\ w = v)
        <4>1. inst[j].version \in Nat
          BY Holds DEF Row
        <4>2. Carries(j, w)
          BY <1>2, <2>1, <2>3, <3>2, <4>1
        <4>3. j # o.id \/ (w # v + 1 /\ w + 1 # v + 1)
          BY <1>2, <2>3, <3>2, <4>1
        <4>4. /\ \A c \in NextCells(o) : c.id # j \/ c.version # w
              /\ \A c \in NextCells(o) : c.id # j \/ c.version # w + 1
          BY <1>3, <4>3
        <4>5. CellsOf(j, w)' = CellsOf(j, w)
          BY <1>4, <4>4, CellsOfOther
        <4>6. CellsOf(j, w + 1)' = CellsOf(j, w + 1)
          BY <1>4, <4>4, CellsOfOther
        <4>. QED BY <4>2, <4>5, <4>6, CarriesSame
      <3>. QED BY <3>1, <3>2
    <2>. QED BY <1>1, <2>3 DEF CarriedBut
  <1>. QED BY <1>5, <1>6, <1>7 DEF Undisturbed

-----------------------------------------------------------------------------
(***************************************************************************)
(* Bumps.  What was read of the instance is its row, or was already saved  *)
(* by the first bump of the same request.                                  *)
(***************************************************************************)
LEMMA BumpWrites ==
  ASSUME IInv, NEW i \in Insts, NEW x \in Row, Bump(i, x), i \in live
  PROVE  /\ live' = live /\ inst'[i] \in Row
         /\ inst'[i].version = x.version + 1 /\ inst'[i].name = x.name
         /\ inst'[i].parent = x.parent
         /\ \A j \in Insts \ {i} : inst'[j] = inst[j]
         /\ cells' = BumpedCells(i, x.version) /\ x.version \in Nat
  <1>. DEFINE y == [x EXCEPT !.version = x.version + 1]
  <1>1. Save(i, y) /\ cells' = BumpedCells(i, x.version)
    BY DEF Bump
  <1>2. /\ y \in Row /\ y.version = x.version + 1 /\ y.name = x.name /\ y.parent = x.parent
        /\ x.version \in Nat
    BY DEF Row
  <1>. HIDE DEF y
  <1>3. live' = live /\ inst'[i] = y /\ \A j \in Insts \ {i} : inst'[j] = inst[j]
    BY <1>1, Saved
  <1>. QED BY <1>1, <1>2, <1>3

LEMMA BumpKeeps ==
  ASSUME IInv, NEW o, Undisturbed(o), o.pc # "setValues",
         NEW i \in Insts, NEW x \in Row, Bump(i, x), UNCHANGED <<linkTable, trouble>>,
         i \in live,
         \/ inst[i].version = x.version
         \/ Rebumps(i, x),
         NEW r, Fresh(r)'
  PROVE  Undisturbed(r)'
  <1>. DEFINE v == x.version
  <1>1. /\ live' = live /\ inst'[i] \in Row /\ inst'[i].version = v + 1 /\ v \in Nat
        /\ \A j \in Insts \ {i} : inst'[j] = inst[j]
        /\ cells' = BumpedCells(i, v)
    BY BumpWrites
  <1>. HIDE DEF v
  <1>2. Distinct'
    BY DEF Undisturbed, Distinct, LiveLinks, linkTable
  <1>3. /\ \A c \in Copies(i, v) : c.id = i /\ c.version = v + 1
        /\ cells' = (cells \ CellsOf(i, v + 1)) \cup Copies(i, v)
    BY <1>1, CopiesAre, BumpedAre
  <1>4. inst[i].version \in {v, v + 1} /\ inst[i] # NoRow /\ inst'[i] # NoRow
    BY <1>1, StoreAbsentAssumption DEF Rebumps, v, IInv
  <1>5. Counted'
    BY <1>1, <1>3, <1>4, CellsTyped DEF Undisturbed, Counted
  <1>6. ASSUME trouble' = {} PROVE CarriedBut(r)'
    <2>1. \A j \in live : \A w \in 1..(inst[j].version - 1) : Carries(j, w)
      BY <1>6 DEF Undisturbed, CarriedBut, OwesValues
    <2>2. \A j, w : j # i \/ w # v + 1 => CellsOf(j, w)' = CellsOf(j, w)
      BY <1>1, BumpedAre
    <2>3. ASSUME NEW j \in live, NEW w \in 1..(inst'[j].version - 1) PROVE Carries(j, w)'
      <3>1. CASE j # i
        <4>1. inst'[j] = inst[j]
          BY <1>1, <3>1, Holds DEF IInv, TypeOK
        <4>2. CellsOf(j, w)' = CellsOf(j, w) /\ CellsOf(j, w + 1)' = CellsOf(j, w + 1)
          BY <2>2, <3>1
        <4>. QED BY <2>1, <2>3, <4>1, <4>2, CarriesSame
      <3>2. CASE j = i /\ w # v
        <4>1. w \in 1..(inst[j].version - 1) /\ w # v + 1 /\ w + 1 # v + 1
          BY <1>1, <1>4, <2>3, <3>2
        <4>2. CellsOf(j, w)' = CellsOf(j, w) /\ CellsOf(j, w + 1)' = CellsOf(j, w + 1)
          BY <2>2, <4>1
        <4>. QED BY <2>1, <4>1, <4>2, CarriesSame
      <3>3. CASE j = i /\ w = v
        BY <1>1, <3>3, BumpCarries
      <3>. QED BY <3>1, <3>2, <3>3
    <2>. QED BY <1>1, <2>3 DEF CarriedBut
  <1>. QED BY <1>2, <1>5, <1>6 DEF Undisturbed

LEMMA BumpOtherUndisturbed ==
  ASSUME IInv, NEW q \in Reqs, Undisturbed(req[q]), BumpOther(q),
         NEW r, req' = [req EXCEPT ![q] = r]
  PROVE  Undisturbed(r)'
  <1>. DEFINE o == req[q]
  <1>1. /\ o.pc = "bumpOther" /\ Finish(q) /\ UNCHANGED <<linkTable, trouble>>
        /\ Held(inst, o) /\ Fresh(o)
    BY Holds DEF BumpOther, Undisturbed
  <1>2. CASE UNCHANGED <<rows, cells>>
    BY <1>1, <1>2, EndsUndisturbed
  <1>3. CASE Bump(o.other, o.otherRow)
    <2>1. o.other \in Insts /\ o.otherRow \in Row
      BY <1>1 DEF Held, RowsHeld, Agrees
    <2>2. o.other \in live /\ (inst[o.other] = o.otherRow \/ Rebumps(o.other, o.otherRow))
      BY <1>1 DEF Fresh, RowIs, Rebumps
    <2>3. Fresh(r)'
      BY <1>1, Finished
    <2>. QED BY <1>1, <1>3, <2>1, <2>2, <2>3, BumpKeeps
  <1>. QED BY <1>2, <1>3 DEF BumpOther

LEMMA BumpFirstUndisturbed ==
  ASSUME IInv, NEW q \in Reqs, Undisturbed(req[q]), BumpFirst(q),
         NEW r, req' = [req EXCEPT ![q] = r]
  PROVE  Undisturbed(r)'
  <1>. DEFINE o == req[q]
              new == IF o.op = "setParent" THEN [o.row EXCEPT !.parent = o.other] ELSE o.row
              pc == AfterBump(o)
  <1>1. /\ o.pc = "bump" /\ UNCHANGED <<linkTable, trouble>> /\ o \in Request
        /\ Held(inst, o) /\ Fresh(o)
    BY Holds DEF BumpFirst, Undisturbed
  <1>2. /\ o.id \in live /\ o.id \in Insts /\ inst[o.id] = o.row /\ o.row \in Row
        /\ o.op \in {"setParent", "link", "unlink"}
    BY <1>1, Holds DEF Fresh, Unsaved, RowIs, Held, RowsHeld, Agrees, Checked
  <1>3. CASE Finish(q) /\ UNCHANGED <<rows, cells>>
    BY <1>1, <1>3, EndsUndisturbed
  <1>4. CASE Bump(o.id, new) /\ IF pc = "idle" THEN Finish(q) ELSE Goto(q, pc)
    <2>1. new \in Row /\ new.version = o.row.version /\ new.name = o.row.name
      BY <1>1, <1>2 DEF Row, Request
    <2>2. pc \in {"idle", "bumpOther", "readOld"}
      BY DEF AfterBump, AfterMove, AfterLink
    <2>3. pc = "bumpOther" => Paired(o)
      BY <1>1, <1>2 DEF Paired, AfterBump, AfterMove, AfterLink
    <2>. HIDE DEF new, pc
    <2>4. /\ live' = live
          /\ inst'[o.id].version = o.row.version + 1 /\ inst'[o.id].name = o.row.name
          /\ \A j \in Insts \ {o.id} : inst'[j] = inst[j]
          /\ cells' = BumpedCells(o.id, o.row.version) /\ o.row.version \in Nat
      BY <1>2, <1>4, <2>1, BumpWrites
    <2>5. Fresh(r)'
      <3>1. CASE pc = "idle"
        BY <1>4, <3>1, Finished
      <3>2. CASE pc # "idle"
        <4>1. r = [o EXCEPT !.pc = pc]
          BY <1>1, <1>4, <3>2 DEF Goto, IInv, TypeOK, Request
        <4>2. /\ r.pc = pc /\ r.op = o.op /\ r.other = o.other /\ r.otherRow = o.otherRow
          BY <1>1, <2>2, <4>1 DEF Request
        <4>3. ASSUME pc = "bumpOther" PROVE RowIs(r.other, r.otherRow)' \/ Rebumps(r.other, r.otherRow)'
          <5>1. o.other \in live /\ inst[o.other] = o.otherRow
            BY <1>1, <2>3, <4>3 DEF Fresh, RowIs
          <5>2. CASE o.other # o.id
            BY <2>4, <4>2, <5>1, <5>2, Holds DEF RowIs
          <5>3. CASE o.other = o.id
            <6>1. o.otherRow = o.row
              BY <1>2, <5>1, <5>3
            <6>2. PICK k \in Insts, w \in Nat : k = o.id /\ w = o.row.version
              BY <1>2, <2>4
            <6>3. cells' = BumpedCells(k, w)'
              BY <2>4, <6>2, BumpTwice
            <6>. QED BY <2>4, <4>2, <5>1, <5>3, <6>1, <6>2, <6>3 DEF Rebumps
          <5>. QED BY <5>2, <5>3
        <4>. QED BY <1>2, <2>2, <3>2, <4>2, <4>3 DEF Fresh, Unsaved, Paired
      <3>. QED BY <3>1, <3>2
    <2>. QED BY <1>1, <1>2, <1>4, <2>1, <2>5, BumpKeeps
  <1>. QED BY <1>3, <1>4 DEF BumpFirst

-----------------------------------------------------------------------------
(***************************************************************************)
(* Links come and go; a deletion takes a row.                              *)
(***************************************************************************)
LEMMA LinksWritten ==
  ASSUME NEW o, Undisturbed(o), o.pc # "setValues", UNCHANGED <<inst, cells, trouble>>,
         live' \subseteq live, Distinct', NEW r, Fresh(r)'
  PROVE  Undisturbed(r)'
  <1>1. Counted'
    BY DEF Undisturbed, Counted
  <1>2. ASSUME trouble' = {} PROVE CarriedBut(r)'
    <2>1. \A i \in live : \A v \in 1..(inst[i].version - 1) : Carries(i, v)
      BY <1>2 DEF Undisturbed, CarriedBut, OwesValues
    <2>2. \A i, v : Carries(i, v)' <=> Carries(i, v)
      BY CarriesSame DEF CellsOf
    <2>. QED BY <2>1, <2>2 DEF CarriedBut
  <1>. QED BY <1>1, <1>2 DEF Undisturbed

LEMMA LinkInsertUndisturbed ==
  ASSUME IInv, NEW q \in Reqs, Undisturbed(req[q]), LinkInsert(q),
         NEW r, req' = [req EXCEPT ![q] = r]
  PROVE  Undisturbed(r)'
  <1>1. /\ req[q].pc = "insertLink" /\ req[q].op = "link" /\ req[q] \in Request
        /\ Fresh(req[q]) /\ UNCHANGED <<rows, cells, trouble>>
    BY Holds DEF LinkInsert, At, Undisturbed
  <1>2. CASE Finish(q) /\ UNCHANGED linkTable
    BY <1>1, <1>2, EndsUndisturbed
  <1>3. ASSUME NEW l \in LinkIds \ usedLinks, links' = [links EXCEPT ![l] = LinkOf(req[q])],
               Goto(q, "bump")
        PROVE  Undisturbed(r)'
    <2>1. PICK k : k = LinkOf(req[q])
      OBVIOUS
    <2>2. \A m \in LiveLinks : links[m] # k
      BY <1>1, <2>1 DEF Fresh
    <2>3. \A m \in LiveLinks' : m = l \/ (m \in LiveLinks /\ links'[m] = links[m])
      BY <1>3 DEF LiveLinks, IInv, TypeOK
    <2>4. l \in LiveLinks' => links'[l] = k
      BY <1>3, <2>1 DEF LiveLinks, IInv, TypeOK
    <2>5. Distinct'
      BY <2>2, <2>3, <2>4 DEF Undisturbed, Distinct
    <2>6. r = [req[q] EXCEPT !.pc = "bump"]
      BY <1>1, <1>3 DEF Goto, IInv, TypeOK, Request
    <2>7. /\ r.pc = "bump" /\ r.op = "link" /\ r.id = req[q].id /\ r.row = req[q].row
          /\ r.other = req[q].other /\ r.otherRow = req[q].otherRow
      BY <1>1, <2>6 DEF Request
    <2>8. RowIs(r.id, r.row) /\ RowIs(r.other, r.otherRow)
      BY <1>1, <2>7 DEF Fresh, Unsaved, Paired
    <2>9. Fresh(r)'
      BY <1>1, <2>7, <2>8 DEF Fresh, RowIs, rows
    <2>. QED BY <1>1, <2>5, <2>9, LinksWritten DEF rows
  <1>. QED BY <1>2, <1>3 DEF LinkInsert

LEMMA UnlinkDropUndisturbed ==
  ASSUME IInv, NEW q \in Reqs, Undisturbed(req[q]), UnlinkDrop(q),
         NEW r, req' = [req EXCEPT ![q] = r]
  PROVE  Undisturbed(r)'
  <1>1. /\ req[q].pc = "dropLink" /\ req[q].op = "unlink" /\ req[q] \in Request
        /\ Fresh(req[q]) /\ UNCHANGED <<rows, cells, usedLinks, trouble>>
    BY Holds DEF UnlinkDrop, At, Undisturbed
  <1>2. CASE Finish(q) /\ UNCHANGED links
    BY <1>1, <1>2, EndsUndisturbed DEF linkTable
  <1>3. CASE links' = [links EXCEPT ![req[q].link] = NoLink] /\ Goto(q, "bump")
    <2>1. \A m \in LiveLinks' : m \in LiveLinks /\ links'[m] = links[m]
      BY <1>3 DEF LiveLinks, IInv, TypeOK
    <2>2. Distinct'
      BY <2>1 DEF Undisturbed, Distinct
    <2>3. r = [req[q] EXCEPT !.pc = "bump"]
      BY <1>1, <1>3 DEF Goto, IInv, TypeOK, Request
    <2>4. /\ r.pc = "bump" /\ r.op = "unlink" /\ r.id = req[q].id /\ r.row = req[q].row
          /\ r.other = req[q].other /\ r.otherRow = req[q].otherRow
      BY <1>1, <2>3 DEF Request
    <2>5. RowIs(r.id, r.row) /\ RowIs(r.other, r.otherRow)
      BY <1>1, <2>4 DEF Fresh, Unsaved, Paired
    <2>6. Fresh(r)'
      BY <1>1, <2>4, <2>5 DEF Fresh, RowIs, rows
    <2>. QED BY <1>1, <2>2, <2>6, LinksWritten DEF rows
  <1>. QED BY <1>2, <1>3 DEF UnlinkDrop

LEMMA CascadeUndisturbed ==
  ASSUME IInv, NEW q \in Reqs, Undisturbed(req[q]), CascadeUnlink(q) \/ CascadeDropRow(q),
         NEW r, req' = [req EXCEPT ![q] = r]
  PROVE  Undisturbed(r)'
  <1>1. /\ req[q].pc \in {"cascade", "dropRow"} /\ req[q].op = "delete" /\ req[q] \in Request
        /\ UNCHANGED <<inst, cells, trouble>> /\ live' \subseteq live
    BY Holds DEF CascadeUnlink, CascadeDropRow, At, rows
  <1>2. \A m \in LiveLinks' : m \in LiveLinks /\ links'[m] = links[m]
    BY DEF CascadeUnlink, CascadeDropRow, LiveLinks, linkTable
  <1>3. Distinct'
    BY <1>2 DEF Undisturbed, Distinct
  <1>4. Fresh(r)'
    <2>1. CASE Finish(q)
      BY <2>1, Finished
    <2>2. CASE Goto(q, "dropRow")
      <3>1. r = [req[q] EXCEPT !.pc = "dropRow"]
        BY <1>1, <2>2 DEF Goto, IInv, TypeOK, Request
      <3>2. r.pc = "dropRow" /\ r.op = "delete"
        BY <1>1, <3>1 DEF Request
      <3>. QED BY <3>2 DEF Fresh, Unsaved, Paired
    <2>3. ASSUME NEW u, req' = [req EXCEPT ![q].stack = u, ![q].pc = "cascade"]
          PROVE  Fresh(r)'
      <3>1. r = [req[q] EXCEPT !.stack = u, !.pc = "cascade"]
        BY <1>1, <2>3 DEF IInv, TypeOK, Request
      <3>2. r.pc = "cascade" /\ r.op = "delete"
        BY <1>1, <3>1 DEF Request
      <3>. QED BY <3>2 DEF Fresh, Unsaved, Paired
    <2>4. \/ Finish(q) \/ Goto(q, "dropRow")
          \/ \E u : req' = [req EXCEPT ![q].stack = u, ![q].pc = "cascade"]
      BY DEF CascadeUnlink, CascadeDropRow
    <2>. QED BY <2>1, <2>2, <2>3, <2>4
  <1>. QED BY <1>1, <1>3, <1>4, LinksWritten

-----------------------------------------------------------------------------
(***************************************************************************)
(* All steps together.                                                     *)
(***************************************************************************)
LEMMA StepUndisturbed ==
  ASSUME IInv, NEW q \in Reqs, Undisturbed(req[q]), Handle(q),
         NEW r, req' = [req EXCEPT ![q] = r]
  PROVE  Undisturbed(r)'
  <1>1. CASE \/ CreateRead(q) \/ ContainRead(q) \/ UpdateRead(q) \/ SetParentRead(q)
             \/ LinkRead(q) \/ UnlinkRead(q) \/ DeleteRead(q)
    BY <1>1, FirstReadUndisturbed
  <1>2. CASE \/ UpdateReadValues(q) \/ SetParentReadParent(q) \/ LinkReadTarget(q)
             \/ UnlinkReadTarget(q) \/ SetParentCheckName(q) \/ LinkCheck(q)
             \/ SetParentReadOld(q)
    BY <1>2, ReadValuesUndisturbed, SecondReadUndisturbed, CheckUndisturbed, ReadOldUndisturbed
  <1>3. CASE CascadeList(q) \/ CreateRejected(q) \/ DBFails(q) \/ CascadeOverflows(q)
    BY <1>3, ListUndisturbed, FailUndisturbed, OverflowUndisturbed
  <1>4. CASE \/ CreateInsert(q) \/ CreateValues(q) \/ UpdateSave(q) \/ UpdateSetValues(q)
             \/ BumpFirst(q) \/ BumpOther(q)
    BY <1>4, InsertUndisturbed, ValuesUndisturbed, UpdateSaveUndisturbed,
       SetValuesUndisturbed, BumpFirstUndisturbed, BumpOtherUndisturbed
  <1>5. CASE LinkInsert(q) \/ UnlinkDrop(q) \/ CascadeUnlink(q) \/ CascadeDropRow(q)
    BY <1>5, LinkInsertUndisturbed, UnlinkDropUndisturbed, CascadeUndisturbed
  <1>. QED BY <1>1, <1>2, <1>3, <1>4, <1>5 DEF Handle

Alone(q) == \A p \in Reqs \ {q} : req[p].pc = "idle"

LEMMA Troubles ==
  ASSUME NEW q \in Reqs, Handle(q)
  PROVE  trouble \subseteq trouble'
  BY DEF Handle, CreateRead, ContainRead, CreateInsert, CreateValues, CreateRejected,
         UpdateRead, UpdateReadValues, UpdateSave, UpdateSetValues, BumpFirst, BumpOther,
         SetParentRead, SetParentReadParent, SetParentCheckName, SetParentReadOld,
         LinkRead, LinkReadTarget, LinkCheck, LinkInsert, UnlinkRead, UnlinkReadTarget,
         UnlinkDrop, DeleteRead, CascadeList, CascadeOverflows, CascadeUnlink,
         CascadeDropRow, DBFails, Start

LEMMA WorksAlone ==
  ASSUME Single, NEW q \in Reqs, Handle(q), "overlap" \notin trouble'
  PROVE  Alone(q)
  <1>1. CASE req[q].pc = "idle"
    <2>1. \E x : Start(q, x)
      BY <1>1 DEF Handle, CreateRead, ContainRead, CreateInsert, CreateValues, CreateRejected,
         UpdateRead, UpdateReadValues, UpdateSave, UpdateSetValues, BumpFirst, BumpOther,
         SetParentRead, SetParentReadParent, SetParentCheckName, SetParentReadOld,
         LinkRead, LinkReadTarget, LinkCheck, LinkInsert, UnlinkRead, UnlinkReadTarget,
         UnlinkDrop, DeleteRead, CascadeList, CascadeOverflows, CascadeUnlink,
         CascadeDropRow, DBFails, At
    <2>. QED BY <2>1 DEF Start, Alone
  <1>2. CASE req[q].pc # "idle"
    BY <1>2 DEF Single, Alone
  <1>. QED BY <1>1, <1>2

(***************************************************************************)
(* A step changes the request it belongs to, and the others at most to     *)
(* idle ones.                                                              *)
(***************************************************************************)
LEMMA OneChanges ==
  ASSUME TypeOK, NEW q \in Reqs, Handle(q), Alone(q)
  PROVE  /\ \A p \in Reqs \ {q} : req'[p] = req[p] \/ req'[p] = Idle
         /\ ~CascadeOverflows(q) => \E r : req' = [req EXCEPT ![q] = r]
  <1>1. CASE CascadeOverflows(q)
    BY <1>1 DEF CascadeOverflows
  <1>2. CASE ~CascadeOverflows(q)
    <2>1. \E r : req' = [req EXCEPT ![q] = r]
      BY <1>2 DEF Handle, CreateRead, ContainRead, CreateInsert, CreateValues, CreateRejected,
         UpdateRead, UpdateReadValues, UpdateSave, UpdateSetValues, BumpFirst, BumpOther,
         SetParentRead, SetParentReadParent, SetParentCheckName, SetParentReadOld,
         LinkRead, LinkReadTarget, LinkCheck, LinkInsert, UnlinkRead, UnlinkReadTarget,
         UnlinkDrop, DeleteRead, CascadeList, CascadeOverflows, CascadeUnlink,
         CascadeDropRow, DBFails, Start, Finish, Goto
    <2>. QED BY <2>1 DEF TypeOK
  <1>. QED BY <1>1, <1>2

LEMMA SequentialStep ==
  ASSUME IInv, Sequential, NEW q \in Reqs, Handle(q), "overlap" \notin trouble'
  PROVE  Undisturbed(req[q]) /\ Sequential'
  <1>1. Alone(q) /\ TypeOK
    BY WorksAlone DEF Sequential, IInv
  <1>2. Undisturbed(req[q])
    <2>1. \A i, v : \A p \in Reqs : OwesValues(req[p], i, v) => p = q
      BY <1>1 DEF OwesValues, Alone
    <2>2. trouble = {} => CarriedBut(req[q])
      BY <2>1 DEF Sequential, Carried, CarriedBut
    <2>. QED BY <2>2 DEF Sequential, Undisturbed
  <1>3. PICK r : req'[q] = r /\ Undisturbed(r)'
    <2>1. CASE CascadeOverflows(q)
      <3>1. PICK r : r = Idle
        OBVIOUS
      <3>2. Undisturbed(r)'
        BY <1>2, <2>1, <3>1, IdleFresh, Reads DEF CascadeOverflows
      <3>3. req'[q] = r
        BY <2>1, <3>1 DEF CascadeOverflows
      <3>. QED BY <3>2, <3>3
    <2>2. CASE ~CascadeOverflows(q)
      <3>1. PICK r : req' = [req EXCEPT ![q] = r]
        BY <1>1, <2>2, OneChanges
      <3>. QED BY <1>1, <1>2, <3>1, StepUndisturbed DEF TypeOK
    <2>. QED BY <2>1, <2>2
  <1>4. \A p \in Reqs \ {q} : req'[p].pc = "idle"
    BY <1>1, OneChanges DEF Alone, Idle
  <1>5. Single'
    BY <1>4 DEF Single
  <1>6. ASSUME NEW p \in Reqs PROVE Fresh(req[p])'
    <2>1. CASE p # q
      BY <1>4, <2>1 DEF Fresh, Unsaved, Paired
    <2>2. CASE p = q
      <3>1. req'[p] = r /\ Fresh(r)'
        BY <1>3, <2>2 DEF Undisturbed
      <3>. QED BY <3>1 DEF Fresh, Unsaved, Paired, RowIs, Rebumps, LinkOf, NextCells, Given
    <2>. QED BY <2>1, <2>2
  <1>7. Counted' /\ Distinct'
    BY <1>3 DEF Undisturbed
  <1>8. trouble' = {} => Carried'
    BY <1>3 DEF Undisturbed, CarriedBut, Carried, OwesValues
  <1>. QED BY <1>2, <1>5, <1>6, <1>7, <1>8 DEF Sequential

LEMMA SeqInit == Init => SeqInv
  <1>. SUFFICES ASSUME Init PROVE Sequential
    BY DEF SeqInv
  <1>1. \A q \in Reqs : req[q] = Idle /\ Fresh(req[q])
    BY IdleFresh DEF Init
  <1>2. Single
    BY <1>1, IdleFresh DEF Single
  <1>3. Counted /\ Distinct /\ Carried
    BY DEF Init, Counted, Distinct, Carried, LiveLinks
  <1>. QED BY <1>1, <1>2, <1>3 DEF Sequential

LEMMA Stutter ==
  ASSUME UNCHANGED vars, Sequential
  PROVE  Sequential'
  <1>. USE DEF vars
  <1>1. Single' /\ Counted' /\ Distinct'
    BY DEF Sequential, Single, Counted, Distinct, LiveLinks
  <1>2. \A q \in Reqs : Fresh(req[q])'
    BY DEF Sequential, Fresh, Unsaved, Paired, RowIs, Rebumps, BumpedCells, LiveLinks, LinkOf,
           NextCells, Given, CellsOf
  <1>3. trouble' = {} => Carried'
    <2>1. \A i, v : Carries(i, v)' <=> Carries(i, v)
      BY CarriesSame DEF CellsOf
    <2>. QED BY <2>1 DEF Sequential, Carried, OwesValues
  <1>. QED BY <1>1, <1>2, <1>3 DEF Sequential

LEMMA SeqNext == IInv /\ SeqInv /\ [Next]_vars => SeqInv'
  <1>. SUFFICES ASSUME IInv, SeqInv, [Next]_vars, "overlap" \notin trouble'
                PROVE  Sequential'
    BY DEF SeqInv
  <1>1. CASE UNCHANGED vars
    BY <1>1, Stutter DEF SeqInv, vars
  <1>2. ASSUME NEW q \in Reqs, Handle(q) PROVE Sequential'
    BY <1>2, Troubles, SequentialStep DEF SeqInv
  <1>. QED BY <1>1, <1>2 DEF Next

(***************************************************************************)
(* As long as requests come one at a time, what a request has read is what *)
(* it writes back, and the values of every version are in place, except    *)
(* those the update at work still owes.                                    *)
(***************************************************************************)
THEOREM SequenceInvariance == Spec => []SeqInv
  BY InitInv, NextInv, SeqInit, SeqNext, PTL DEF Spec

(***************************************************************************)
(* The same two instances are never linked twice by one association: the   *)
(* look for an existing link is as good as a unique index, one request at  *)
(* a time.                                                                 *)
(***************************************************************************)
THEOREM LinkedOnce == Spec => []NoDuplicateLinks
  <1>1. SeqInv => NoDuplicateLinks
    BY DEF SeqInv, Sequential, Distinct, NoDuplicateLinks
  <1>. QED BY <1>1, SequenceInvariance, PTL

(***************************************************************************)
(* An update changes the values of one attribute at most, and moves, links *)
(* and insertions below an instance change none, although each of them     *)
(* makes a version of its own and copies the values.                       *)
(***************************************************************************)
THEOREM OneAttributeAtATime == Spec => []CarriedForward
  <1>1. SeqInv => CarriedForward
    <2>. SUFFICES ASSUME SeqInv, Quiescent, trouble = {},
                         NEW i \in live, NEW v \in 1..(inst[i].version - 1)
                  PROVE  Cardinality({a \in Attrs : ValuesAt(i, v, a) # ValuesAt(i, v + 1, a)}) <= 1
      BY DEF CarriedForward
    <2>. DEFINE changed == {a \in Attrs : ValuesAt(i, v, a) # ValuesAt(i, v + 1, a)}
    <2>1. Carries(i, v)
      BY DEF SeqInv, Sequential, Carried, OwesValues, Quiescent
    <2>2. PICK a : changed \subseteq {a}
      BY <2>1 DEF Carries
    <2>. HIDE DEF changed
    <2>3. changed = {} \/ changed = {a}
      BY <2>2
    <2>4. Cardinality({}) = 0 /\ Cardinality({a}) = 1
      BY FS_EmptySet, FS_Singleton
    <2>5. Cardinality(changed) <= 1
      BY <2>3, <2>4
    <2>. QED BY <2>5 DEF changed
  <1>. QED BY <1>1, SequenceInvariance, PTL

-----------------------------------------------------------------------------
(***************************************************************************)
(* What a step may do to the versions that instances have had.             *)
(***************************************************************************)
History ==
    /\ \A c \in cells \ cells' : c.version > inst[c.id].version
    /\ \A c \in cells' \ cells : c.version >= inst[c.id].version

Advances ==
    \A i \in live \cap live' :
        \/ inst'[i].version = inst[i].version + 1
        \/ inst'[i].version = inst[i].version /\ inst'[i].name = inst[i].name

LEMMA BumpHistory ==
  ASSUME IInv, NEW i \in Insts, NEW x \in Row, Bump(i, x), i \in live,
         inst[i].version = x.version \/ Rebumps(i, x)
  PROVE  History /\ Advances
  <1>1. /\ live' = live
        /\ inst'[i].version = x.version + 1 /\ inst'[i].name = x.name
        /\ \A j \in Insts \ {i} : inst'[j] = inst[j]
        /\ cells' = BumpedCells(i, x.version) /\ x.version \in Nat
    BY BumpWrites
  <1>2. Advances
    BY <1>1 DEF Advances, Rebumps, IInv, TypeOK
  <1>3. History
    <2>1. CASE Rebumps(i, x)
      BY <1>1, <2>1 DEF History, Rebumps
    <2>2. CASE inst[i].version = x.version
      <3>1. /\ \A c \in Copies(i, x.version) : c.id = i /\ c.version = x.version + 1
            /\ cells' = (cells \ CellsOf(i, x.version + 1)) \cup Copies(i, x.version)
        BY <1>1, CopiesAre, BumpedAre
      <3>. QED BY <1>1, <2>2, <3>1 DEF History, CellsOf
    <2>. QED BY <2>1, <2>2
  <1>. QED BY <1>2, <1>3

LEMMA StepHistory ==
  ASSUME IInv, NEW q \in Reqs, Undisturbed(req[q]), Handle(q)
  PROVE  History /\ Advances
  <1>0. IInv => (\A i \in live : i \in Insts /\ inst[i] \in Row)
    BY Holds
  <1>1. CASE UNCHANGED <<inst, cells>>
    BY <1>1 DEF History, Advances
  <1>2. CASE CreateInsert(q)
    <2>1. cells' = cells
      BY <1>2 DEF CreateInsert
    <2>2. ASSUME NEW j \in live PROVE inst'[j] = inst[j]
      BY <1>2, <2>2, Saved DEF CreateInsert, Unborn, IInv, TypeOK, rows
    <2>. QED BY <2>1, <2>2 DEF History, Advances
  <1>3. CASE CreateValues(q)
    <2>1. inst[req[q].id].version = 1
      BY <1>3 DEF CreateValues, Undisturbed, Fresh
    <2>2. /\ cells' = cells \cup Given(req[q], req[q].id, 1) /\ inst' = inst
          /\ \A c \in Given(req[q], req[q].id, 1) : c.id = req[q].id /\ c.version = 1
      BY <1>3 DEF CreateValues, rows, Given
    <2>. QED BY <2>1, <2>2 DEF History, Advances
  <1>4. CASE UpdateSave(q)
    <2>. DEFINE o == req[q]
                n == IF o.name = None THEN o.row.name ELSE o.name
                new == [o.row EXCEPT !.name = n, !.version = o.row.version + 1]
    <2>1. cells' = cells /\ (Save(o.id, new) \/ UNCHANGED rows) /\ o.pc = "save"
      BY <1>4 DEF UpdateSave, At
    <2>2. CASE UNCHANGED rows
      BY <2>1, <2>2 DEF History, Advances, rows
    <2>3. CASE Save(o.id, new)
      <3>1. inst[o.id] = o.row /\ o.id \in Insts /\ o.row \in Row
        BY <2>1, Holds DEF Undisturbed, Fresh, Unsaved, RowIs
      <3>2. new.version = o.row.version + 1
        BY <3>1 DEF Row
      <3>. HIDE DEF new
      <3>3. inst'[o.id] = new /\ \A j \in Insts \ {o.id} : inst'[j] = inst[j]
        BY <2>3, <3>1, Saved
      <3>. QED BY <2>1, <3>1, <3>2, <3>3, Holds DEF History, Advances
    <2>. QED BY <2>1, <2>2, <2>3
  <1>5. CASE UpdateSetValues(q)
    <2>1. PICK o : o = req[q]
      OBVIOUS
    <2>2. /\ o.pc = "setValues" /\ inst' = inst /\ cells' \in {cells, cells \cup o.cells}
      BY <1>5, <2>1 DEF UpdateSetValues, At, rows
    <2>3. /\ o.cells = NextCells(o) /\ o.row \in Row /\ o.id \in Insts /\ o \in Request
          /\ inst[o.id].version = o.row.version + 1 /\ o.row.version \in Nat
      BY <2>1, <2>2, Holds DEF Undisturbed, Fresh, Row
    <2>4. \A c \in o.cells : c.id = o.id /\ c.version = o.row.version + 1
      BY <2>3, NextCellsAre
    <2>. QED BY <2>2, <2>3, <2>4 DEF History, Advances
  <1>6. CASE BumpFirst(q)
    <2>. DEFINE o == req[q]
                new == IF o.op = "setParent" THEN [o.row EXCEPT !.parent = o.other] ELSE o.row
    <2>1. o.pc = "bump" /\ (Bump(o.id, new) \/ UNCHANGED <<rows, cells>>)
      BY <1>6 DEF BumpFirst
    <2>2. /\ inst[o.id] = o.row /\ o.id \in live /\ o.id \in Insts /\ o.row \in Row
          /\ o \in Request
      BY <2>1, Holds DEF Undisturbed, Fresh, Unsaved, RowIs
    <2>3. new \in Row /\ new.version = o.row.version
      BY <2>2 DEF Row, Request
    <2>. HIDE DEF new
    <2>. QED BY <1>1, <2>1, <2>2, <2>3, BumpHistory DEF rows
  <1>7. CASE BumpOther(q)
    <2>. DEFINE o == req[q]
    <2>1. o.pc = "bumpOther" /\ (Bump(o.other, o.otherRow) \/ UNCHANGED <<rows, cells>>)
      BY <1>7 DEF BumpOther
    <2>2. Held(inst, o) /\ Fresh(o)
      BY Holds DEF Undisturbed
    <2>3. /\ o.other \in live /\ o.other \in Insts /\ o.otherRow \in Row
          /\ inst[o.other].version = o.otherRow.version \/ Rebumps(o.other, o.otherRow)
      BY <2>1, <2>2 DEF Held, RowsHeld, Agrees, Fresh, RowIs, Rebumps
    <2>. QED BY <1>1, <2>1, <2>3, BumpHistory DEF rows
  <1>8. \/ UNCHANGED <<inst, cells>>
        \/ CreateInsert(q) \/ CreateValues(q) \/ UpdateSave(q) \/ UpdateSetValues(q)
        \/ BumpFirst(q) \/ BumpOther(q)
    BY DEF Handle, CreateRead, ContainRead, CreateRejected, UpdateRead, UpdateReadValues,
         SetParentRead, SetParentReadParent, SetParentCheckName, SetParentReadOld,
         LinkRead, LinkReadTarget, LinkCheck, LinkInsert, UnlinkRead, UnlinkReadTarget,
         UnlinkDrop, DeleteRead, CascadeList, CascadeOverflows, CascadeUnlink,
         CascadeDropRow, DBFails, rows
  <1>. QED BY <1>1, <1>2, <1>3, <1>4, <1>5, <1>6, <1>7, <1>8

LEMMA NextHistory ==
  IInv /\ SeqInv /\ [Next]_vars /\ "overlap" \notin trouble' => History /\ Advances
  <1>. SUFFICES ASSUME IInv, SeqInv, [Next]_vars, "overlap" \notin trouble'
                PROVE  History /\ Advances
    OBVIOUS
  <1>1. CASE UNCHANGED vars
    BY <1>1 DEF vars, History, Advances
  <1>2. ASSUME NEW q \in Reqs, Handle(q) PROVE History /\ Advances
    BY <1>2, Troubles, SequentialStep, StepHistory DEF SeqInv
  <1>. QED BY <1>1, <1>2 DEF Next

(***************************************************************************)
(* The values of a version an instance has reached are never removed, and  *)
(* none are added to a version it has left, also when an instance is bumped*)
(* twice by one request, is deleted, or a statement fails.                 *)
(***************************************************************************)
THEOREM HistoryIsRetained == Spec => HistoryRetained
  <1>1. IInv /\ SeqInv /\ [Next]_vars => ["overlap" \notin trouble' =>
          /\ \A c \in cells \ cells' : c.version > inst[c.id].version
          /\ \A c \in cells' \ cells : c.version >= inst[c.id].version]_vars
    BY NextHistory DEF History
  <1>. QED BY <1>1, Invariance, SequenceInvariance, PTL DEF Spec, HistoryRetained

(***************************************************************************)
(* Versions are counted one by one, and the name of an instance does not   *)
(* change within a version.                                                *)
(***************************************************************************)
THEOREM VersionsCounted == Spec => VersionsAdvance
  <1>1. IInv /\ SeqInv /\ [Next]_vars => ["overlap" \notin trouble' =>
          \A i \in live \cap live' :
             \/ inst'[i].version = inst[i].version + 1
             \/ inst'[i].version = inst[i].version /\ inst'[i].name = inst[i].name]_vars
    BY NextHistory DEF Advances
  <1>. QED BY <1>1, Invariance, SequenceInvariance, PTL DEF Spec, VersionsAdvance

-----------------------------------------------------------------------------
(***************************************************************************)
(* The tree: what is true of the tables and of the request at work.        *)
(***************************************************************************)
Standing(o) ==
    /\ IsFiniteSet(live)
    /\ \A i \in live : Rooting(inst[i])
    /\ \A l \in LiveLinks : {links[l].from, links[l].to} \subseteq live
    /\ Attaches(o) /\ Visits(o)

LEMMA Stands ==
  ASSUME NEW o, Standing(o), UNCHANGED <<rows, links>>, NEW r, Attaches(r), Visits(r)
  PROVE  Standing(r)'
  <1>. USE DEF rows
  <1>1. Attaches(r)'
    BY DEF Attaches, Rooting
  <1>2. Visits(r)'
    BY DEF Visits, Covered, Children, LiveLinks
  <1>3. (\A i \in live : Rooting(inst[i]))'
    BY DEF Standing, Rooting
  <1>4. (\A l \in LiveLinks : {links[l].from, links[l].to} \subseteq live)'
    BY DEF Standing, LiveLinks
  <1>. QED BY <1>1, <1>2, <1>3, <1>4 DEF Standing

(***************************************************************************)
(* Most steps attach nothing and visit nothing.                            *)
(***************************************************************************)
Plain(r) == r.pc \notin {"insert", "bumpOther", "cascade", "dropRow"}

LEMMA PlainOwesNothing ==
  ASSUME NEW r, Plain(r)
  PROVE  Attaches(r) /\ Visits(r) /\ Attaches(r)' /\ Visits(r)'
  BY DEF Plain, Attaches, Visits

LEMMA IdlePlain == ASSUME NEW r, r = Idle PROVE Plain(r)
  BY DEF Idle, Plain

LEMMA EndsPlain ==
  ASSUME IInv, NEW q \in Reqs, Finish(q), NEW r, req' = [req EXCEPT ![q] = r]
  PROVE  Plain(r)
  <1>1. r = Idle
    BY DEF Finish, IInv, TypeOK
  <1>. QED BY <1>1, IdlePlain

LEMMA Moves ==
  ASSUME IInv, NEW q \in Reqs, NEW pc, Goto(q, pc), NEW r, req' = [req EXCEPT ![q] = r]
  PROVE  r.pc = pc /\ r.stack = req[q].stack
  <1>1. req[q] \in Request
    BY Holds
  <1>2. r = [req[q] EXCEPT !.pc = pc]
    BY <1>1 DEF Goto, IInv, TypeOK, Request
  <1>. QED BY <1>1, <1>2 DEF Request

LEMMA FirstReadStands ==
  ASSUME IInv, NEW q \in Reqs, Standing(req[q]),
         \/ CreateRead(q) \/ ContainRead(q) \/ UpdateRead(q) \/ SetParentRead(q)
         \/ LinkRead(q) \/ UnlinkRead(q) \/ DeleteRead(q),
         NEW r, req' = [req EXCEPT ![q] = r]
  PROVE  Standing(r)'
  <1>1. UNCHANGED <<rows, links>>
    BY DEF CreateRead, ContainRead, UpdateRead, SetParentRead, LinkRead, UnlinkRead,
           DeleteRead, linkTable
  <1>2. ASSUME NEW x, Start(q, x) PROVE r = x
    BY <1>2 DEF IInv, TypeOK, Start
  <1>3. CASE CreateRead(q)
    <2>1. PICK c \in Catalogs, t \in Types, n \in Names, ax \in Inputs :
            r = [Idle EXCEPT !.op = "create", !.pc = "insert", !.row = NewRow(c, t, NoInst, n),
                             !.attr = ax[1], !.value = ax[2]]
      BY <1>2, <1>3 DEF CreateRead
    <2>2. r.pc = "insert" /\ r.row.parent = NoInst
      BY <2>1 DEF NewRow, Idle
    <2>. QED BY <1>1, <2>2, Stands DEF Attaches, Visits, Rooting
  <1>4. CASE ContainRead(q)
    <2>1. PICK p \in live, t \in Types, n \in Names, ax \in Inputs :
            r = [Idle EXCEPT !.op = "contain", !.pc = "insert", !.other = p, !.otherRow = inst[p],
                             !.row = NewRow(inst[p].catalog, t, p, n),
                             !.attr = ax[1], !.value = ax[2]]
      BY <1>2, <1>4 DEF ContainRead
    <2>2. r.pc = "insert" /\ r.row.parent = p
      BY <2>1 DEF NewRow, Idle
    <2>. QED BY <1>1, <2>2, Stands DEF Attaches, Visits, Rooting
  <1>5. CASE DeleteRead(q)
    <2>1. PICK i \in live :
            r = [Idle EXCEPT !.op = "delete", !.pc = "cascade", !.id = i,
                             !.stack = <<[id |-> NoInst, kids |-> {i}]>>]
      BY <1>2, <1>5 DEF DeleteRead
    <2>2. r.pc = "cascade" /\ r.stack = <<[id |-> NoInst, kids |-> {i}]>>
      BY <2>1 DEF Idle
    <2>3. Len(r.stack) = 1
      BY <2>2
    <2>4. \A j \in 2..Len(r.stack) : FALSE
      BY <2>3
    <2>5. Attaches(r) /\ Visits(r)
      BY <2>2, <2>4 DEF Attaches, Visits
    <2>. QED BY <1>1, <2>5, Stands
  <1>6. CASE UpdateRead(q) \/ SetParentRead(q) \/ LinkRead(q) \/ UnlinkRead(q)
    <2>1. Plain(r)
      <3>1. CASE UpdateRead(q)
        <4>1. PICK i \in live, n \in Names \cup {None}, ax \in Inputs :
                \E v \in 1..inst[i].version :
                   Start(q, [Idle EXCEPT !.op = "update", !.pc = "readValues", !.id = i,
                                         !.row = [inst[i] EXCEPT !.version = v],
                                         !.name = n, !.attr = ax[1], !.value = ax[2]])
          BY <3>1 DEF UpdateRead
        <4>2. PICK v : r = [Idle EXCEPT !.op = "update", !.pc = "readValues", !.id = i,
                                        !.row = [inst[i] EXCEPT !.version = v],
                                        !.name = n, !.attr = ax[1], !.value = ax[2]]
          BY <1>2, <4>1
        <4>. QED BY <4>2 DEF Idle, Plain
      <3>2. CASE SetParentRead(q)
        <4>1. PICK i \in live, p \in Insts \cup {NoInst} :
                r = [Idle EXCEPT !.op = "setParent", !.id = i, !.row = inst[i], !.other = p,
                                 !.pc = IF p = NoInst THEN "checkName" ELSE "readOther"]
          BY <1>2, <3>2 DEF SetParentRead
        <4>2. r.pc \in {"checkName", "readOther"}
          BY <4>1 DEF Idle
        <4>. QED BY <4>2 DEF Plain
      <3>3. CASE LinkRead(q)
        <4>1. PICK i \in live, j \in Insts, a \in Assocs :
                r = [Idle EXCEPT !.op = "link", !.pc = "readOther", !.id = i,
                                 !.row = inst[i], !.other = j, !.assoc = a]
          BY <1>2, <3>3 DEF LinkRead
        <4>. QED BY <4>1 DEF Idle, Plain
      <3>4. CASE UnlinkRead(q)
        <4>1. PICK l \in LiveLinks :
                r = [Idle EXCEPT !.op = "unlink", !.pc = "readOther", !.link = l,
                                 !.id = links[l].from, !.row = inst[links[l].from],
                                 !.other = links[l].to, !.assoc = links[l].assoc]
          BY <1>2, <3>4 DEF UnlinkRead
        <4>. QED BY <4>1 DEF Idle, Plain
      <3>. QED BY <1>6, <3>1, <3>2, <3>3, <3>4
    <2>. QED BY <1>1, <2>1, PlainOwesNothing, Stands
  <1>. QED BY <1>3, <1>4, <1>5, <1>6

LEMMA ReadStands ==
  ASSUME IInv, NEW q \in Reqs, Standing(req[q]),
         \/ UpdateReadValues(q) \/ SetParentReadParent(q) \/ LinkReadTarget(q)
         \/ UnlinkReadTarget(q) \/ SetParentCheckName(q) \/ LinkCheck(q)
         \/ CreateRejected(q) \/ DBFails(q),
         NEW r, req' = [req EXCEPT ![q] = r]
  PROVE  Standing(r)'
  <1>1. UNCHANGED <<rows, links>>
    BY DEF UpdateReadValues, SetParentReadParent, LinkReadTarget, UnlinkReadTarget,
           SetParentCheckName, LinkCheck, CreateRejected, DBFails, linkTable
  <1>2. CASE Finish(q)
    BY <1>1, <1>2, EndsPlain, PlainOwesNothing, Stands
  <1>3. ASSUME NEW pc \in {"bump", "insertLink"}, Goto(q, pc) PROVE Standing(r)'
    BY <1>1, <1>3, Moves, PlainOwesNothing, Stands DEF Plain
  <1>4. ASSUME NEW pc \in {"checkName", "checkLink", "dropLink"}, NEW x,
               req' = [req EXCEPT ![q].otherRow = x, ![q].pc = pc]
        PROVE  Standing(r)'
    <2>1. req[q] \in Request
      BY Holds
    <2>2. r = [req[q] EXCEPT !.otherRow = x, !.pc = pc]
      BY <1>4, <2>1 DEF IInv, TypeOK, Request
    <2>3. Plain(r)
      BY <2>1, <2>2 DEF Plain, Request
    <2>. QED BY <1>1, <2>3, PlainOwesNothing, Stands
  <1>5. ASSUME NEW x, req' = [req EXCEPT ![q].pc = "save", ![q].cells = x] PROVE Standing(r)'
    <2>1. req[q] \in Request
      BY Holds
    <2>2. r = [req[q] EXCEPT !.pc = "save", !.cells = x]
      BY <1>5, <2>1 DEF IInv, TypeOK, Request
    <2>3. Plain(r)
      BY <2>1, <2>2 DEF Plain, Request
    <2>. QED BY <1>1, <2>3, PlainOwesNothing, Stands
  <1>6. \/ Finish(q)
        \/ \E pc \in {"bump", "insertLink"} : Goto(q, pc)
        \/ \E pc \in {"checkName", "checkLink", "dropLink"} : \E x :
             req' = [req EXCEPT ![q].otherRow = x, ![q].pc = pc]
        \/ \E x : req' = [req EXCEPT ![q].pc = "save", ![q].cells = x]
    BY DEF UpdateReadValues, SetParentReadParent, LinkReadTarget, UnlinkReadTarget,
           SetParentCheckName, LinkCheck, CreateRejected, DBFails
  <1>. QED BY <1>2, <1>3, <1>4, <1>5, <1>6

LEMMA ReadOldStands ==
  ASSUME IInv, NEW q \in Reqs, Standing(req[q]), SetParentReadOld(q),
         NEW r, req' = [req EXCEPT ![q] = r]
  PROVE  Standing(r)'
  <1>. DEFINE p == req[q].row.parent
  <1>1. UNCHANGED <<rows, links>> /\ req[q] \in Request
    BY Holds DEF SetParentReadOld, linkTable
  <1>2. CASE p \notin live
    BY <1>1, <1>2, EndsPlain, PlainOwesNothing, Stands DEF SetParentReadOld
  <1>3. CASE p \in live
    <2>1. req' = [req EXCEPT ![q].other = p, ![q].otherRow = inst[p], ![q].pc = "bumpOther"]
      BY <1>3 DEF SetParentReadOld
    <2>. HIDE DEF p
    <2>2. r = [req[q] EXCEPT !.other = p, !.otherRow = inst[p], !.pc = "bumpOther"]
      BY <1>1, <2>1 DEF IInv, TypeOK, Request
    <2>3. r.pc = "bumpOther" /\ r.otherRow = inst[p]
      BY <1>1, <2>2 DEF Request
    <2>4. Attaches(r) /\ Visits(r)
      BY <1>3, <2>3 DEF Standing, Attaches, Visits
    <2>. QED BY <1>1, <2>4, Stands
  <1>. QED BY <1>2, <1>3

-----------------------------------------------------------------------------
(***************************************************************************)
(* Steps that write rows and links: a row is saved under a live parent or  *)
(* none, and a link between live instances.                                *)
(***************************************************************************)
LEMMA RowSavedStands ==
  ASSUME IInv, NEW o, Standing(o), NEW i \in Insts, NEW x, Save(i, x), Rooting(x),
         links' = links, NEW r, Attaches(r)', Visits(r)'
  PROVE  Standing(r)'
  <1>1. /\ inst'[i] = x /\ live' = live \cup {i}
        /\ \A j \in Insts \ {i} : inst'[j] = inst[j]
    BY Saved
  <1>2. IsFiniteSet(live')
    BY <1>1, FS_AddElement DEF Standing
  <1>3. ASSUME NEW j \in live' PROVE inst'[j].parent \in live' \cup {NoInst}
    <2>1. j = i \/ (j \in live /\ inst'[j] = inst[j])
      BY <1>1 DEF IInv, TypeOK
    <2>. QED BY <1>1, <2>1 DEF Standing, Rooting
  <1>4. (\A l \in LiveLinks : {links[l].from, links[l].to} \subseteq live)'
    BY <1>1 DEF Standing, LiveLinks
  <1>. QED BY <1>2, <1>3, <1>4 DEF Standing, Rooting

LEMMA InsertStands ==
  ASSUME IInv, NEW q \in Reqs, Standing(req[q]), CreateInsert(q),
         NEW r, req' = [req EXCEPT ![q] = r]
  PROVE  Standing(r)'
  <1>1. req[q].pc = "insert" /\ req[q] \in Request /\ links' = links
    BY Holds DEF CreateInsert, linkTable
  <1>2. CASE Finish(q) /\ UNCHANGED rows
    BY <1>1, <1>2, EndsPlain, PlainOwesNothing, Stands
  <1>3. ASSUME NEW i \in Unborn, Save(i, req[q].row),
               req' = [req EXCEPT ![q].id = i, ![q].pc = "values"]
        PROVE  Standing(r)'
    <2>1. r = [req[q] EXCEPT !.id = i, !.pc = "values"]
      BY <1>1, <1>3 DEF IInv, TypeOK, Request
    <2>2. Plain(r)
      BY <1>1, <2>1 DEF Plain, Request
    <2>3. Rooting(req[q].row) /\ i \in Insts
      BY <1>1 DEF Standing, Attaches, Unborn
    <2>. QED BY <1>1, <1>3, <2>2, <2>3, PlainOwesNothing, RowSavedStands
  <1>. QED BY <1>2, <1>3 DEF CreateInsert

LEMMA ValuesStands ==
  ASSUME IInv, NEW q \in Reqs, Undisturbed(req[q]), Standing(req[q]),
         CreateValues(q) \/ UpdateSetValues(q),
         NEW r, req' = [req EXCEPT ![q] = r]
  PROVE  Standing(r)'
  <1>1. UNCHANGED <<rows, links>> /\ req[q] \in Request
    BY Holds DEF CreateValues, UpdateSetValues, linkTable
  <1>2. CASE Finish(q)
    BY <1>1, <1>2, EndsPlain, PlainOwesNothing, Stands
  <1>3. CASE req[q].pc = "values" /\ req[q].op = "contain" /\ Goto(q, "bumpOther")
    <2>1. r = [req[q] EXCEPT !.pc = "bumpOther"]
      BY <1>1, <1>3 DEF Goto, IInv, TypeOK, Request
    <2>2. r.pc = "bumpOther" /\ r.otherRow = req[q].otherRow
      BY <1>1, <2>1 DEF Request
    <2>3. req[q].other \in live /\ inst[req[q].other] = req[q].otherRow
      BY <1>3 DEF Undisturbed, Fresh, Paired, RowIs
    <2>4. Attaches(r) /\ Visits(r)
      BY <2>2, <2>3 DEF Standing, Attaches, Visits
    <2>. QED BY <1>1, <2>4, Stands
  <1>. QED BY <1>2, <1>3 DEF CreateValues, UpdateSetValues

LEMMA UpdateSaveStands ==
  ASSUME IInv, NEW q \in Reqs, Undisturbed(req[q]), Standing(req[q]), UpdateSave(q),
         NEW r, req' = [req EXCEPT ![q] = r]
  PROVE  Standing(r)'
  <1>. DEFINE o == req[q]
              n == IF o.name = None THEN o.row.name ELSE o.name
              new == [o.row EXCEPT !.name = n, !.version = o.row.version + 1]
  <1>1. o.pc = "save" /\ links' = links /\ o \in Request
    BY Holds DEF UpdateSave, At, linkTable
  <1>2. CASE Finish(q) /\ UNCHANGED rows
    BY <1>1, <1>2, EndsPlain, PlainOwesNothing, Stands
  <1>3. CASE Save(o.id, new) /\ Goto(q, "setValues")
    <2>1. o.id \in live /\ o.id \in Insts /\ inst[o.id] = o.row /\ o.row \in Row
      BY <1>1, Holds DEF Undisturbed, Fresh, Unsaved, RowIs
    <2>2. new.parent = o.row.parent
      BY <2>1 DEF Row
    <2>3. Rooting(new)
      BY <2>1, <2>2 DEF Standing, Rooting
    <2>. HIDE DEF new
    <2>4. r = [o EXCEPT !.pc = "setValues"]
      BY <1>1, <1>3 DEF Goto, IInv, TypeOK, Request
    <2>5. Plain(r)
      BY <1>1, <2>4 DEF Plain, Request
    <2>. QED BY <1>1, <1>3, <2>1, <2>3, <2>5, PlainOwesNothing, RowSavedStands
  <1>. QED BY <1>2, <1>3 DEF UpdateSave

LEMMA BumpStands ==
  ASSUME IInv, NEW o, Standing(o), NEW i \in Insts, NEW x \in Row, Bump(i, x), i \in live,
         Rooting(x), links' = links, NEW r, Attaches(r)', Visits(r)'
  PROVE  Standing(r)'
  <1>. DEFINE y == [x EXCEPT !.version = x.version + 1]
  <1>1. Save(i, y)
    BY DEF Bump
  <1>2. Rooting(y)
    BY DEF Rooting, Row
  <1>. HIDE DEF y
  <1>. QED BY <1>1, <1>2, RowSavedStands

LEMMA BumpOtherStands ==
  ASSUME IInv, NEW q \in Reqs, Undisturbed(req[q]), Standing(req[q]), BumpOther(q),
         NEW r, req' = [req EXCEPT ![q] = r]
  PROVE  Standing(r)'
  <1>. DEFINE o == req[q]
  <1>1. /\ o.pc = "bumpOther" /\ Finish(q) /\ links' = links
        /\ Held(inst, o) /\ Fresh(o)
    BY Holds DEF BumpOther, Undisturbed, linkTable
  <1>2. Plain(r)
    BY <1>1, EndsPlain
  <1>3. CASE UNCHANGED <<rows, cells>>
    BY <1>1, <1>2, <1>3, PlainOwesNothing, Stands
  <1>4. CASE Bump(o.other, o.otherRow)
    <2>1. o.other \in Insts /\ o.otherRow \in Row
      BY <1>1 DEF Held, RowsHeld, Agrees
    <2>2. o.other \in live
      BY <1>1 DEF Fresh, RowIs, Rebumps
    <2>3. Rooting(o.otherRow)
      BY <1>1 DEF Standing, Attaches
    <2>. QED BY <1>1, <1>2, <1>4, <2>1, <2>2, <2>3, PlainOwesNothing, BumpStands
  <1>. QED BY <1>3, <1>4 DEF BumpOther

LEMMA BumpFirstStands ==
  ASSUME IInv, NEW q \in Reqs, Undisturbed(req[q]), Standing(req[q]), BumpFirst(q),
         NEW r, req' = [req EXCEPT ![q] = r]
  PROVE  Standing(r)'
  <1>. DEFINE o == req[q]
              new == IF o.op = "setParent" THEN [o.row EXCEPT !.parent = o.other] ELSE o.row
              pc == AfterBump(o)
  <1>1. /\ o.pc = "bump" /\ links' = links /\ o \in Request
        /\ Held(inst, o) /\ Fresh(o)
    BY Holds DEF BumpFirst, Undisturbed, linkTable
  <1>2. /\ o.id \in live /\ o.id \in Insts /\ inst[o.id] = o.row /\ o.row \in Row
        /\ o.op \in {"setParent", "link", "unlink"}
    BY <1>1, Holds DEF Fresh, Unsaved, RowIs, Held, Checked
  <1>3. CASE Finish(q) /\ UNCHANGED <<rows, cells>>
    BY <1>1, <1>3, EndsPlain, PlainOwesNothing, Stands
  <1>4. CASE Bump(o.id, new) /\ IF pc = "idle" THEN Finish(q) ELSE Goto(q, pc)
    <2>1. new \in Row
      BY <1>1, <1>2 DEF Row, Request
    <2>2. Rooting(new)
      <3>1. CASE o.op # "setParent"
        BY <1>2, <3>1 DEF Standing, Rooting
      <3>2. CASE o.op = "setParent"
        <4>1. new.parent = o.other
          BY <1>2, <3>2 DEF Row
        <4>2. o.other = NoInst \/ Paired(o)
          BY <1>1, <3>2 DEF Paired
        <4>. QED BY <1>1, <4>1, <4>2 DEF Fresh, RowIs, Rooting
      <3>. QED BY <3>1, <3>2
    <2>3. pc \in {"idle", "bumpOther", "readOld"}
      BY DEF AfterBump, AfterMove, AfterLink
    <2>4. pc = "bumpOther" => Paired(o)
      BY <1>1, <1>2 DEF Paired, AfterBump, AfterMove, AfterLink
    <2>. HIDE DEF new, pc
    <2>5. Attaches(r)' /\ Visits(r)'
      <3>1. CASE pc = "idle"
        BY <1>4, <3>1, EndsPlain, PlainOwesNothing
      <3>2. CASE pc = "readOld"
        <4>1. Plain(r)
          BY <1>4, <3>2, Moves DEF Plain
        <4>. QED BY <4>1, PlainOwesNothing
      <3>3. CASE pc = "bumpOther"
        <4>1. r = [o EXCEPT !.pc = "bumpOther"]
          BY <1>1, <1>4, <3>3 DEF Goto, IInv, TypeOK, Request
        <4>2. r.pc = "bumpOther" /\ r.otherRow = o.otherRow
          BY <1>1, <4>1 DEF Request
        <4>3. Rooting(o.otherRow)
          BY <1>1, <2>4, <3>3 DEF Fresh, RowIs, Standing
        <4>4. live' = live
          BY <1>2, <1>4, <2>1, BumpWrites
        <4>. QED BY <4>2, <4>3, <4>4 DEF Attaches, Visits, Rooting
      <3>. QED BY <2>3, <3>1, <3>2, <3>3
    <2>. QED BY <1>1, <1>2, <1>4, <2>1, <2>2, <2>5, BumpStands
  <1>. QED BY <1>3, <1>4 DEF BumpFirst

LEMMA LinkStands ==
  ASSUME IInv, NEW q \in Reqs, Undisturbed(req[q]), Standing(req[q]),
         LinkInsert(q) \/ UnlinkDrop(q),
         NEW r, req' = [req EXCEPT ![q] = r]
  PROVE  Standing(r)'
  <1>1. UNCHANGED rows /\ inst' = inst /\ live' = live
    BY DEF LinkInsert, UnlinkDrop, rows
  <1>2. Plain(r)
    <2>1. Finish(q) \/ Goto(q, "bump")
      BY DEF LinkInsert, UnlinkDrop
    <2>2. CASE Finish(q)
      BY <2>2, EndsPlain
    <2>3. CASE Goto(q, "bump")
      <3>1. req[q] \in Request
        BY Holds
      <3>2. r = [req[q] EXCEPT !.pc = "bump"]
        BY <2>3, <3>1 DEF Goto, IInv, TypeOK, Request
      <3>. QED BY <3>1, <3>2 DEF Plain, Request
    <2>. QED BY <2>1, <2>2, <2>3
  <1>3. ASSUME NEW m \in LinkIds, links'[m] # NoLink
        PROVE  links'[m].from \in live /\ links'[m].to \in live
    <2>1. CASE links'[m] = links[m]
      BY <1>3, <2>1 DEF Standing, LiveLinks
    <2>2. CASE links'[m] # links[m]
      <3>1. LinkInsert(q) /\ links'[m] = LinkOf(req[q])
        BY <1>3, <2>2 DEF LinkInsert, UnlinkDrop, linkTable, IInv, TypeOK
      <3>2. req[q].id \in live /\ req[q].other \in live
        BY <3>1 DEF LinkInsert, At, Undisturbed, Fresh, Unsaved, Paired, RowIs
      <3>. QED BY <3>1, <3>2 DEF LinkOf
    <2>. QED BY <2>1, <2>2
  <1>4. (\A l \in LiveLinks : {links[l].from, links[l].to} \subseteq live)'
    BY <1>1, <1>3 DEF LiveLinks
  <1>5. (\A i \in live : Rooting(inst[i]))'
    BY <1>1 DEF Standing, Rooting
  <1>. QED BY <1>1, <1>2, <1>4, <1>5, PlainOwesNothing DEF Standing

-----------------------------------------------------------------------------
(***************************************************************************)
(* The cascade.  Where no instance has more children than one page lists,  *)
(* the page is all of them.                                                *)
(***************************************************************************)
LEMMA WholePage ==
  ASSUME IInv, FewChildren, IsFiniteSet(live), NEW i \in Insts, NEW page \in Page(i)
  PROVE  page = Children(i)
  <1>1. IsFiniteSet(Children(i))
    BY FS_Subset DEF Children
  <1>2. Cardinality(Children(i)) <= ListLimit /\ Cardinality(Children(i)) \in Nat
    BY <1>1, FS_CardinalityType DEF FewChildren
  <1>3. page \subseteq Children(i) /\ Cardinality(page) = Cardinality(Children(i))
    BY <1>2, StoreAssumption DEF Page
  <1>. QED BY <1>1, <1>3, FS_Subset

LEMMA ListStands ==
  ASSUME IInv, FewChildren, NEW q \in Reqs, Standing(req[q]), CascadeList(q),
         NEW r, req' = [req EXCEPT ![q] = r]
  PROVE  Standing(r)'
  <1>1. /\ req[q].pc = "cascade" /\ req[q] \in Request /\ Held(inst, req[q])
        /\ UNCHANGED <<rows, links>>
    BY Holds DEF CascadeList, At, linkTable
  <1>2. PICK s : s = req[q].stack
    OBVIOUS
  <1>3. s \in Seq(Frame) /\ Len(s) \in Nat /\ Len(s) >= 1 /\ s[Len(s)] \in Frame
    <2>1. s \in Seq(Frame) /\ Len(s) \in Nat /\ Len(s) >= 1
      BY <1>1, <1>2 DEF Held, Stacked, Request
    <2>. QED BY <2>1
  <1>4. PICK k \in s[Len(s)].kids :
          \E page \in Page(k) :
             req' = [req EXCEPT ![q].stack =
                       Append([s EXCEPT ![Len(s)].kids = @ \ {k}], [id |-> k, kids |-> page])]
    BY <1>2 DEF CascadeList, Top
  <1>5. PICK page \in Page(k) :
          req' = [req EXCEPT ![q].stack =
                    Append([s EXCEPT ![Len(s)].kids = @ \ {k}], [id |-> k, kids |-> page])]
    BY <1>4
  <1>6. k \in Insts
    BY <1>3 DEF Frame
  <1>7. page = Children(k)
    BY <1>6, WholePage DEF Standing
  <1>. DEFINE top == [s[Len(s)] EXCEPT !.kids = @ \ {k}]
              f == [id |-> k, kids |-> page]
              t == [s EXCEPT ![Len(s)] = top]
              u == Append(t, f)
  <1>8. top \in Frame /\ top.id = s[Len(s)].id /\ top.kids = s[Len(s)].kids \ {k}
    BY <1>3 DEF Frame
  <1>9. f \in Frame /\ f.id = k /\ f.kids = Children(k)
    BY <1>6, <1>7 DEF Frame, Children, IInv, TypeOK
  <1>10. req' = [req EXCEPT ![q].stack = u]
    BY <1>3, <1>5
  <1>. HIDE DEF top, f
  <1>11. /\ t \in Seq(Frame) /\ Len(t) = Len(s) /\ t[Len(s)] = top
         /\ \A j \in 1..Len(s) : j # Len(s) => t[j] = s[j]
    BY <1>3, <1>8
  <1>. HIDE DEF t
  <1>12. /\ Len(u) = Len(s) + 1 /\ u[Len(s) + 1] = f
         /\ \A j \in 1..Len(s) : u[j] = t[j]
    BY <1>3, <1>9, <1>11
  <1>. HIDE DEF u
  <1>13. r.pc = "cascade" /\ r.stack = u
    <2>1. r = [req[q] EXCEPT !.stack = u]
      BY <1>1, <1>10 DEF IInv, TypeOK, Request
    <2>. QED BY <1>1, <2>1 DEF Request
  <1>14. \A j \in 2..Len(s) : Covered(s, j)
    BY <1>1, <1>2 DEF Standing, Visits
  <1>15. ASSUME NEW j \in 2..Len(u) PROVE Covered(u, j)
    <2>1. CASE j = Len(s) + 1
      BY <1>6, <1>9, <1>12, <2>1 DEF Covered
    <2>2. CASE j = Len(s)
      <3>1. u[j].id = s[j].id /\ u[j].kids = s[j].kids \ {k} /\ u[j + 1].id = k
        BY <1>3, <1>8, <1>9, <1>11, <1>12, <2>2
      <3>2. j \in 2..Len(s) /\ j < Len(u) /\ ~(j < Len(s))
        BY <1>3, <1>12, <1>15, <2>2
      <3>. QED BY <1>14, <3>1, <3>2 DEF Covered
    <2>3. CASE j < Len(s)
      <3>1. j \in 1..Len(s) /\ j + 1 \in 1..Len(s) /\ j \in 2..Len(s) /\ j < Len(u)
        BY <1>3, <1>12, <1>15, <2>3
      <3>2. u[j] = s[j]
        BY <1>11, <1>12, <2>3, <3>1
      <3>3. u[j + 1].id = s[j + 1].id
        BY <1>8, <1>11, <1>12, <3>1
      <3>. QED BY <1>14, <2>3, <3>1, <3>2, <3>3 DEF Covered
    <2>. QED BY <1>3, <1>12, <2>1, <2>2, <2>3
  <1>16. Attaches(r) /\ Visits(r)
    BY <1>13, <1>15 DEF Attaches, Visits
  <1>. QED BY <1>1, <1>16, Stands

LEMMA UnlinkStands ==
  ASSUME IInv, NEW q \in Reqs, Standing(req[q]), CascadeUnlink(q),
         NEW r, req' = [req EXCEPT ![q] = r]
  PROVE  Standing(r)'
  <1>1. /\ req[q].pc = "cascade" /\ req[q] \in Request
        /\ Top(q).kids = {} /\ inst' = inst /\ live' = live
    BY Holds DEF CascadeUnlink, At, rows
  <1>2. PICK s : s = req[q].stack
    OBVIOUS
  <1>3. r.pc = "dropRow" /\ r.stack = s
    <2>1. r = [req[q] EXCEPT !.pc = "dropRow"]
      BY <1>1 DEF CascadeUnlink, Goto, IInv, TypeOK, Request
    <2>. QED BY <1>1, <1>2, <2>1 DEF Request
  <1>4. \A l \in LiveLinks' : /\ l \in LiveLinks /\ links'[l] = links[l]
                              /\ s[Len(s)].id \notin {links'[l].from, links'[l].to}
    BY <1>2 DEF CascadeUnlink, LiveLinks, Top
  <1>5. \A j \in 2..Len(s) : Covered(s, j)'
    BY <1>1, <1>2 DEF Standing, Visits, Covered, Children
  <1>6. s[Len(s)].kids = {}
    BY <1>1, <1>2 DEF Top
  <1>7. Attaches(r)' /\ Visits(r)'
    BY <1>3, <1>4, <1>5, <1>6 DEF Attaches, Visits
  <1>8. (\A l \in LiveLinks : {links[l].from, links[l].to} \subseteq live)'
    BY <1>1, <1>4 DEF Standing
  <1>9. (\A i \in live : Rooting(inst[i]))' /\ IsFiniteSet(live')
    BY <1>1 DEF Standing, Rooting
  <1>. QED BY <1>7, <1>8, <1>9 DEF Standing

LEMMA DropStands ==
  ASSUME IInv, NEW q \in Reqs, Standing(req[q]), CascadeDropRow(q),
         NEW r, req' = [req EXCEPT ![q] = r]
  PROVE  Standing(r)'
  <1>1. /\ req[q].pc = "dropRow" /\ req[q].op = "delete" /\ req[q] \in Request
        /\ Held(inst, req[q]) /\ inst' = inst /\ links' = links
    BY Holds DEF CascadeDropRow, At, linkTable
  <1>2. PICK s : s = req[q].stack
    OBVIOUS
  <1>. DEFINE n == Len(s)
              top == s[n]
  <1>3. s \in Seq(Frame) /\ n \in Nat /\ n >= 2
    BY <1>1, <1>2 DEF Held, Stacked, Request
  <1>4. live' = live \ {top.id}
    BY <1>2 DEF CascadeDropRow, Top
  <1>5. \A j \in 2..n : Covered(s, j)
    BY <1>1, <1>2 DEF Standing, Visits
  <1>6. top.kids = {} /\ \A l \in LiveLinks : top.id \notin {links[l].from, links[l].to}
    BY <1>1, <1>2 DEF Standing, Visits
  <1>. HIDE DEF n
  <1>7. top.id \in Insts /\ Children(top.id) = {}
    BY <1>3, <1>5, <1>6 DEF Covered, n
  <1>8. IsFiniteSet(live')
    BY <1>4, FS_Subset DEF Standing
  <1>9. (\A i \in live : Rooting(inst[i]))'
    BY <1>1, <1>4, <1>7 DEF Standing, Rooting, Children
  <1>10. (\A l \in LiveLinks : {links[l].from, links[l].to} \subseteq live)'
    BY <1>1, <1>4, <1>6 DEF Standing, LiveLinks
  <1>11. Attaches(r)' /\ Visits(r)'
    <2>1. CASE Finish(q)
      BY <2>1, EndsPlain, PlainOwesNothing
    <2>2. CASE top.id \in live /\ n # 2
      <3>. DEFINE u == SubSeq(s, 1, n - 1)
      <3>1. Len(u) = n - 1 /\ \A j \in 1..(n - 1) : u[j] = s[j]
        BY <1>3 DEF n
      <3>2. req' = [req EXCEPT ![q].stack = u, ![q].pc = "cascade"]
        BY <1>2, <2>2 DEF CascadeDropRow, Top, n
      <3>. HIDE DEF u
      <3>3. r.pc = "cascade" /\ r.stack = u
        <4>1. r = [req[q] EXCEPT !.stack = u, !.pc = "cascade"]
          BY <1>1, <3>2 DEF IInv, TypeOK, Request
        <4>. QED BY <1>1, <4>1 DEF Request
      <3>4. ASSUME NEW j \in 2..Len(u) PROVE Covered(u, j)'
        <4>1. j \in 2..n /\ j \in 1..(n - 1) /\ j < n
          BY <1>3, <3>1, <3>4 DEF n
        <4>2. u[j] = s[j] /\ Covered(s, j)
          BY <1>5, <3>1, <4>1
        <4>3. j < Len(u) => u[j + 1] = s[j + 1]
          BY <1>3, <3>1, <4>1 DEF n
        <4>4. ~(j < Len(u)) => j + 1 = n
          BY <1>3, <3>1, <4>1 DEF n
        <4>5. \A c \in Children(s[j].id)' : c \in Children(s[j].id) /\ c # top.id
          BY <1>1, <1>4 DEF Children
        <4>. QED BY <3>1, <4>1, <4>2, <4>3, <4>4, <4>5 DEF Covered, n
      <3>. QED BY <3>3, <3>4 DEF Attaches, Visits
    <2>. QED BY <1>2, <2>1, <2>2 DEF CascadeDropRow, Top, n
  <1>. QED BY <1>8, <1>9, <1>10, <1>11 DEF Standing

-----------------------------------------------------------------------------
(***************************************************************************)
(* All steps together.                                                     *)
(***************************************************************************)
LEMMA StepStands ==
  ASSUME IInv, FewChildren, NEW q \in Reqs, Undisturbed(req[q]), Standing(req[q]), Handle(q),
         NEW r, req' = [req EXCEPT ![q] = r]
  PROVE  Standing(r)'
  <1>1. CASE \/ CreateRead(q) \/ ContainRead(q) \/ UpdateRead(q) \/ SetParentRead(q)
             \/ LinkRead(q) \/ UnlinkRead(q) \/ DeleteRead(q)
    BY <1>1, FirstReadStands
  <1>2. CASE \/ UpdateReadValues(q) \/ SetParentReadParent(q) \/ LinkReadTarget(q)
             \/ UnlinkReadTarget(q) \/ SetParentCheckName(q) \/ LinkCheck(q)
             \/ CreateRejected(q) \/ DBFails(q) \/ SetParentReadOld(q)
    BY <1>2, ReadStands, ReadOldStands
  <1>3. CASE \/ CreateInsert(q) \/ CreateValues(q) \/ UpdateSave(q) \/ UpdateSetValues(q)
             \/ BumpFirst(q) \/ BumpOther(q) \/ LinkInsert(q) \/ UnlinkDrop(q)
    BY <1>3, InsertStands, ValuesStands, UpdateSaveStands, BumpFirstStands, BumpOtherStands,
       LinkStands
  <1>4. CASE CascadeList(q) \/ CascadeUnlink(q) \/ CascadeDropRow(q)
    BY <1>4, ListStands, UnlinkStands, DropStands
  <1>5. CASE CascadeOverflows(q)
    <2>1. r = Idle
      BY <1>5 DEF CascadeOverflows, IInv, TypeOK
    <2>2. UNCHANGED <<rows, links>>
      BY <1>5 DEF CascadeOverflows, linkTable
    <2>. QED BY <2>1, <2>2, IdlePlain, PlainOwesNothing, Stands
  <1>. QED BY <1>1, <1>2, <1>3, <1>4, <1>5 DEF Handle

LEMMA TreeStep ==
  ASSUME IInv, Sequential, Whole, FewChildren, NEW q \in Reqs, Handle(q),
         "overlap" \notin trouble'
  PROVE  Whole'
  <1>1. Alone(q) /\ Undisturbed(req[q]) /\ Standing(req[q]) /\ TypeOK
    BY WorksAlone, SequentialStep DEF Sequential, Whole, Standing, IInv
  <1>2. PICK r : req'[q] = r /\ Standing(r)'
    <2>1. CASE CascadeOverflows(q)
      <3>1. PICK r : r = Idle
        OBVIOUS
      <3>2. UNCHANGED <<rows, links>> /\ req'[q] = r
        BY <2>1, <3>1 DEF CascadeOverflows, linkTable
      <3>. QED BY <1>1, <3>1, <3>2, IdlePlain, PlainOwesNothing, Stands
    <2>2. CASE ~CascadeOverflows(q)
      <3>1. PICK r : req' = [req EXCEPT ![q] = r]
        BY <1>1, <2>2, OneChanges
      <3>. QED BY <1>1, <3>1, StepStands DEF TypeOK
    <2>. QED BY <2>1, <2>2
  <1>3. \A p \in Reqs \ {q} : req'[p].pc = "idle"
    BY <1>1, OneChanges DEF Alone, Idle
  <1>4. ASSUME NEW p \in Reqs PROVE Attaches(req[p])' /\ Visits(req[p])'
    <2>1. CASE p # q
      BY <1>3, <2>1 DEF Attaches, Visits
    <2>2. CASE p = q
      <3>1. req'[p] = r /\ Attaches(r)' /\ Visits(r)'
        BY <1>2, <2>2 DEF Standing
      <3>. QED BY <3>1 DEF Attaches, Rooting, Visits, Covered, Children
    <2>. QED BY <2>1, <2>2
  <1>. QED BY <1>2, <1>4 DEF Standing, Whole

LEMMA TreeInit == Init => TreeInv
  <1>. SUFFICES ASSUME Init PROVE Whole
    BY DEF TreeInv
  <1>1. IsFiniteSet(live)
    BY FS_EmptySet DEF Init
  <1>2. \A q \in Reqs : Attaches(req[q]) /\ Visits(req[q])
    BY IdlePlain, PlainOwesNothing DEF Init
  <1>. QED BY <1>1, <1>2 DEF Init, Whole, LiveLinks

LEMMA TreeStutter ==
  ASSUME UNCHANGED vars, Whole
  PROVE  Whole'
  BY DEF vars, Whole, Rooting, LiveLinks, Attaches, Visits, Covered, Children

LEMMA TreeNext == IInv /\ SeqInv /\ TreeInv /\ FewChildren /\ [Next]_vars => TreeInv'
  <1>. SUFFICES ASSUME IInv, SeqInv, TreeInv, FewChildren, [Next]_vars,
                       "overlap" \notin trouble'
                PROVE  Whole'
    BY DEF TreeInv
  <1>1. CASE UNCHANGED vars
    BY <1>1, TreeStutter DEF TreeInv, vars
  <1>2. ASSUME NEW q \in Reqs, Handle(q) PROVE Whole'
    BY <1>2, Troubles, TreeStep DEF SeqInv, TreeInv
  <1>. QED BY <1>1, <1>2 DEF Next

(***************************************************************************)
(* No instance loses its parent and no link an end, at any point of a      *)
(* cascading delete and also when it fails halfway, as long as requests    *)
(* come one at a time and no instance has more children than the one page  *)
(* of ListLimit that the cascade asks for (1000 in the code).              *)
(***************************************************************************)
THEOREM NothingOrphaned == Spec /\ []FewChildren => []NoOrphans
  <1>1. TreeInv => NoOrphans
    BY DEF TreeInv, Whole, Rooting, NoOrphans
  <1>2. Spec /\ []FewChildren => []TreeInv
    BY InitInv, NextInv, SeqInit, SeqNext, TreeInit, TreeNext, PTL DEF Spec
  <1>. QED BY <1>1, <1>2, PTL
=============================================================================
