----------------------- MODULE InstanceStore_proofs ------------------------
(***************************************************************************)
(* Proofs about InstanceStore, for every set of instances, catalogs, types *)
(* and requests: typing, and that parents and links stay in their catalog  *)
(* and fit the schema, however requests interleave.                        *)
(***************************************************************************)
EXTENDS InstanceStore, TLAPS

Table == [Insts -> Row \cup {NoRow}]

(***************************************************************************)
(* What no statement does to the rows: forget one, or move an instance to  *)
(* another catalog or another type.                                        *)
(***************************************************************************)
Keeps(t, u) ==
    \A i \in Insts : t[i] # NoRow =>
        u[i] # NoRow /\ u[i].catalog = t[i].catalog /\ u[i].type = t[i].type

LEMMA KeepsSelf == ASSUME NEW t PROVE Keeps(t, t)
  BY DEF Keeps

(***************************************************************************)
(* What a request holds, and a link joins, outlives such a change.         *)
(***************************************************************************)
LEMMA AgreesStable ==
  ASSUME NEW t, NEW u, Keeps(t, u), NEW i, NEW r, Agrees(t, i, r)
  PROVE  Agrees(u, i, r)
  BY DEF Agrees, Keeps, Rooted, Row

LEMMA LinkableStable ==
  ASSUME NEW t, NEW u, Keeps(t, u), NEW a, NEW i, NEW j, Linkable(t, a, i, j)
  PROVE  Linkable(u, a, i, j)
  BY DEF Linkable, Keeps, Fits

LEMMA HeldStable ==
  ASSUME NEW t, NEW u, Keeps(t, u), NEW r \in Request, Held(t, r)
  PROVE  Held(u, r)
  <1>1. RowsHeld(u, r)
    <2>1. ASSUME r.pc = "insert" PROVE Rooted(u, r.row)
      BY <2>1 DEF Held, RowsHeld, Rooted, Keeps, Row
    <2>. QED BY <2>1, AgreesStable DEF Held, RowsHeld
  <1>2. Checked(u, r)
    <2>1. ASSUME r.op = "setParent", r.pc \in {"checkName", "bump"}, r.other # NoInst
          PROVE  u[r.other].catalog = r.row.catalog
      BY <2>1 DEF Held, Checked, RowsHeld, Agrees, Keeps
    <2>. QED BY <2>1, LinkableStable DEF Held, Checked
  <1>. QED BY <1>1, <1>2 DEF Held

(***************************************************************************)
(* A step that changes one request, and keeps the rows, keeps the          *)
(* invariant of all requests if the changed one holds what it should.      *)
(***************************************************************************)
LEMMA OneRequest ==
  ASSUME TypeOK, RequestInv, NEW q \in Reqs, NEW r \in Request,
         req' = [req EXCEPT ![q] = r], Keeps(inst, inst'), Held(inst', r)
  PROVE  (req \in [Reqs -> Request])' /\ RequestInv'
  <1>1. (req \in [Reqs -> Request])'
    BY DEF TypeOK
  <1>2. ASSUME NEW p \in Reqs PROVE Held(inst', req'[p])
    <2>1. CASE p = q
      BY <2>1 DEF TypeOK
    <2>2. CASE p # q
      <3>1. req'[p] = req[p] /\ req[p] \in Request /\ Held(inst, req[p])
        BY <2>2 DEF TypeOK, RequestInv
      <3>. QED BY <3>1, HeldStable
    <2>. QED BY <2>1, <2>2
  <1>. QED BY <1>1, <1>2 DEF RequestInv

LEMMA IdleHeld == ASSUME NEW t PROVE Idle \in Request /\ Held(t, Idle)
  <1>1. Idle \in Request
    BY DEF Idle, Request, Steps
  <1>2. Held(t, Idle)
    BY DEF Idle, Held, RowsHeld, Checked, Stacked
  <1>. QED BY <1>1, <1>2

LEMMA Ends ==
  ASSUME TypeOK, RequestInv, NEW q \in Reqs, Finish(q), Keeps(inst, inst')
  PROVE  (req \in [Reqs -> Request])' /\ RequestInv'
  BY IdleHeld, OneRequest DEF Finish

(***************************************************************************)
(* Frames: what is left to show when a step leaves the rest alone.         *)
(***************************************************************************)
LEMMA RequestsOnly ==
  ASSUME IInv, UNCHANGED <<rows, cells, linkTable>>,
         trouble' \subseteq {"overlap", "db", "badInput", "overflow"},
         (req \in [Reqs -> Request])', RequestInv'
  PROVE  IInv'
  <1>. UNCHANGED <<inst, live, cells, links, usedLinks>>
    BY DEF rows, linkTable
  <1>1. TypeOK'
    BY DEF IInv, TypeOK
  <1>2. RowInv' /\ LinkInv' /\ (\A i \in live : inst[i] # NoRow)'
    BY DEF IInv, RowInv, LinkInv, LiveLinks
  <1>. QED BY <1>1, <1>2 DEF IInv

(***************************************************************************)
(* A row saved for an id that has none yet, or that agrees with the one it *)
(* had, keeps the rows and the links as they should be.                    *)
(***************************************************************************)
LEMMA Saves ==
  ASSUME IInv, NEW i \in Insts, NEW r \in Row, Save(i, r), UNCHANGED linkTable,
         Rooted(inst, r), inst[i] = NoRow \/ Agrees(inst, i, r)
  PROVE  /\ Keeps(inst, inst')
         /\ inst' \in Table /\ live' \subseteq Insts
         /\ inst'[i] = r
         /\ RowInv' /\ LinkInv' /\ (\A j \in live : inst[j] # NoRow)'
  <1>1. inst' = [inst EXCEPT ![i] = r] /\ live' = live \cup {i} /\ inst \in Table
    BY DEF Save, IInv, TypeOK, Table
  <1>2. inst' \in Table /\ live' \subseteq Insts /\ inst'[i] = r /\ r # NoRow
    BY <1>1, StoreAbsentAssumption DEF IInv, TypeOK, Table
  <1>3. Keeps(inst, inst')
    BY <1>1, <1>2 DEF Keeps, Agrees, Table
  <1>4. RowInv'
    <2>1. ASSUME NEW j \in Insts, inst'[j] # NoRow PROVE Rooted(inst', inst'[j])
      <3>1. Rooted(inst, inst'[j]) /\ inst'[j] \in Row
        BY <1>1, <1>2, <2>1 DEF IInv, RowInv, Table
      <3>. QED BY <1>3, <3>1 DEF Rooted, Keeps, Row
    <2>. QED BY <2>1 DEF RowInv
  <1>5. LinkInv'
    <2>1. links' = links
      BY DEF linkTable
    <2>2. ASSUME NEW l \in LiveLinks
          PROVE  Linkable(inst', links[l].assoc, links[l].from, links[l].to)
      BY <1>3, LinkableStable DEF IInv, LinkInv
    <2>. QED BY <2>1, <2>2 DEF LinkInv, LiveLinks
  <1>6. (\A j \in live : inst[j] # NoRow)'
    BY <1>1, <1>2 DEF IInv, Table, TypeOK
  <1>. QED BY <1>2, <1>3, <1>4, <1>5, <1>6

LEMMA SaveStep ==
  ASSUME IInv, NEW i \in Insts, NEW r \in Row, Save(i, r), UNCHANGED <<linkTable, trouble>>,
         Rooted(inst, r), inst[i] = NoRow \/ Agrees(inst, i, r),
         cells' \subseteq Cell, (req \in [Reqs -> Request])', RequestInv'
  PROVE  IInv'
  <1>1. TypeOK'
    BY Saves DEF IInv, TypeOK, Table, linkTable
  <1>. QED BY <1>1, Saves DEF IInv

LEMMA Holds ==
  ASSUME IInv, NEW q \in Reqs
  PROVE  /\ req[q] \in Request /\ Held(inst, req[q])
         /\ inst \in Table /\ live \subseteq Insts
         /\ \A i \in live : inst[i] \in Row /\ Agrees(inst, i, inst[i])
  BY DEF IInv, TypeOK, RequestInv, RowInv, Table, Agrees

LEMMA RowsSame ==
  ASSUME UNCHANGED <<rows, cells, linkTable>>
  PROVE  inst' = inst /\ Keeps(inst, inst')
  BY DEF rows, Keeps

-----------------------------------------------------------------------------
(***************************************************************************)
(* Steps that begin, continue or end a request and write nothing.          *)
(***************************************************************************)
LEMMA StartStep ==
  ASSUME IInv, NEW q \in Reqs, NEW r \in Request, Start(q, r),
         UNCHANGED <<rows, cells, linkTable>>, Held(inst, r)
  PROVE  IInv'
  <1>1. (req \in [Reqs -> Request])' /\ RequestInv'
    BY OneRequest, RowsSame DEF IInv, Start
  <1>2. trouble' \subseteq {"overlap", "db", "badInput", "overflow"}
    BY DEF Start, IInv, TypeOK
  <1>. QED BY <1>1, <1>2, RequestsOnly

LEMMA ContinueStep ==
  ASSUME IInv, NEW q \in Reqs, NEW r \in Request, req' = [req EXCEPT ![q] = r],
         UNCHANGED <<rows, cells, linkTable, trouble>>, Held(inst, r)
  PROVE  IInv'
  <1>1. (req \in [Reqs -> Request])' /\ RequestInv'
    BY OneRequest, RowsSame DEF IInv
  <1>. QED BY <1>1, RequestsOnly DEF IInv, TypeOK

LEMMA EndStep ==
  ASSUME IInv, NEW q \in Reqs, Finish(q), UNCHANGED <<rows, cells, linkTable>>,
         trouble' \subseteq {"overlap", "db", "badInput", "overflow"}
  PROVE  IInv'
  BY Ends, RowsSame, RequestsOnly DEF IInv

LEMMA NewRows ==
  ASSUME NEW c \in Catalogs, NEW t \in Types, NEW p \in Insts \cup {NoInst}, NEW n \in Names
  PROVE  NewRow(c, t, p, n) \in Row
  BY DEF NewRow, Row

LEMMA InputTypes ==
  ASSUME NEW ax \in Inputs
  PROVE  ax[1] \in Attrs \cup {None} /\ ax[2] \in Values \cup {None}
  BY DEF Inputs

LEMMA CreateReadStep == ASSUME IInv, NEW q \in Reqs, CreateRead(q) PROVE IInv'
  <1>1. PICK c \in Catalogs, t \in Types, n \in Names, ax \in Inputs :
          /\ Start(q, [Idle EXCEPT !.op = "create", !.pc = "insert",
                                   !.row = NewRow(c, t, NoInst, n),
                                   !.attr = ax[1], !.value = ax[2]])
          /\ UNCHANGED <<rows, cells, linkTable>>
    BY DEF CreateRead
  <1>. DEFINE r == [Idle EXCEPT !.op = "create", !.pc = "insert",
                                !.row = NewRow(c, t, NoInst, n),
                                !.attr = ax[1], !.value = ax[2]]
  <1>2. NewRow(c, t, NoInst, n) \in Row /\ NewRow(c, t, NoInst, n).parent = NoInst
    BY NewRows DEF NewRow
  <1>3. r \in Request
    BY <1>2, IdleHeld, InputTypes DEF Idle, Request, Steps, Operations
  <1>4. Held(inst, r)
    BY <1>2 DEF Idle, Held, RowsHeld, Checked, Stacked, Rooted
  <1>. QED BY <1>1, <1>3, <1>4, StartStep

LEMMA ContainReadStep == ASSUME IInv, NEW q \in Reqs, ContainRead(q) PROVE IInv'
  <1>1. PICK p \in live, t \in Types, n \in Names, ax \in Inputs :
          /\ Start(q, [Idle EXCEPT !.op = "contain", !.pc = "insert", !.other = p,
                                   !.otherRow = inst[p],
                                   !.row = NewRow(inst[p].catalog, t, p, n),
                                   !.attr = ax[1], !.value = ax[2]])
          /\ UNCHANGED <<rows, cells, linkTable>>
    BY DEF ContainRead
  <1>. DEFINE x == NewRow(inst[p].catalog, t, p, n)
              r == [Idle EXCEPT !.op = "contain", !.pc = "insert", !.other = p,
                                !.otherRow = inst[p], !.row = x,
                                !.attr = ax[1], !.value = ax[2]]
  <1>2. p \in Insts /\ inst[p] \in Row /\ Agrees(inst, p, inst[p])
    BY Holds
  <1>3. x \in Row /\ Rooted(inst, x)
    BY <1>2, StoreAbsentAssumption DEF NewRow, Row, Rooted
  <1>. HIDE DEF x
  <1>4. r \in Request
    BY <1>2, <1>3, IdleHeld, InputTypes DEF Idle, Request, Steps, Operations
  <1>5. Held(inst, r)
    BY <1>2, <1>3, StoreAbsentAssumption DEF Idle, Held, RowsHeld, Checked, Stacked
  <1>. QED BY <1>1, <1>4, <1>5, StartStep DEF x

LEMMA UpdateReadStep == ASSUME IInv, NEW q \in Reqs, UpdateRead(q) PROVE IInv'
  <1>0. PICK i \in live, n \in Names \cup {None}, ax \in Inputs :
          \E v \in 1..inst[i].version :
             /\ Start(q, [Idle EXCEPT !.op = "update", !.pc = "readValues", !.id = i,
                                      !.row = [inst[i] EXCEPT !.version = v],
                                      !.name = n, !.attr = ax[1], !.value = ax[2]])
             /\ UNCHANGED <<rows, cells, linkTable>>
    BY DEF UpdateRead
  <1>1. PICK v \in 1..inst[i].version :
          /\ Start(q, [Idle EXCEPT !.op = "update", !.pc = "readValues", !.id = i,
                                   !.row = [inst[i] EXCEPT !.version = v],
                                   !.name = n, !.attr = ax[1], !.value = ax[2]])
          /\ UNCHANGED <<rows, cells, linkTable>>
    BY <1>0
  <1>. DEFINE x == [inst[i] EXCEPT !.version = v]
              r == [Idle EXCEPT !.op = "update", !.pc = "readValues", !.id = i, !.row = x,
                                !.name = n, !.attr = ax[1], !.value = ax[2]]
  <1>2. i \in Insts /\ inst[i] \in Row /\ Agrees(inst, i, inst[i])
    BY Holds
  <1>3. x \in Row /\ Agrees(inst, i, x)
    BY <1>2 DEF Agrees, Row, Rooted
  <1>. HIDE DEF x
  <1>4. r \in Request
    BY <1>2, <1>3, IdleHeld, InputTypes DEF Idle, Request, Steps, Operations
  <1>5. Held(inst, r)
    BY <1>2, <1>3 DEF Idle, Held, RowsHeld, Checked, Stacked
  <1>. QED BY <1>1, <1>4, <1>5, StartStep DEF x

LEMMA SetParentReadStep == ASSUME IInv, NEW q \in Reqs, SetParentRead(q) PROVE IInv'
  <1>1. PICK i \in live, p \in Insts \cup {NoInst} :
          /\ Start(q, [Idle EXCEPT !.op = "setParent", !.id = i, !.row = inst[i], !.other = p,
                                   !.pc = IF p = NoInst THEN "checkName" ELSE "readOther"])
          /\ UNCHANGED <<rows, cells, linkTable>>
    BY DEF SetParentRead
  <1>. DEFINE pc == IF p = NoInst THEN "checkName" ELSE "readOther"
              r == [Idle EXCEPT !.op = "setParent", !.id = i, !.row = inst[i], !.other = p,
                                !.pc = pc]
  <1>2. i \in Insts /\ inst[i] \in Row /\ Agrees(inst, i, inst[i])
    BY Holds
  <1>0. pc \in {"checkName", "readOther"} /\ (pc = "checkName" => p = NoInst)
    OBVIOUS
  <1>. HIDE DEF pc
  <1>3. r \in Request
    BY <1>0, <1>2, IdleHeld DEF Idle, Request, Steps, Operations
  <1>4. Held(inst, r)
    BY <1>0, <1>2 DEF Idle, Held, RowsHeld, Checked, Stacked
  <1>. QED BY <1>1, <1>3, <1>4, StartStep DEF pc

LEMMA LinkReadStep == ASSUME IInv, NEW q \in Reqs, LinkRead(q) PROVE IInv'
  <1>1. PICK i \in live, j \in Insts, a \in Assocs :
          /\ Start(q, [Idle EXCEPT !.op = "link", !.pc = "readOther", !.id = i,
                                   !.row = inst[i], !.other = j, !.assoc = a])
          /\ UNCHANGED <<rows, cells, linkTable>>
    BY DEF LinkRead
  <1>. DEFINE r == [Idle EXCEPT !.op = "link", !.pc = "readOther", !.id = i,
                                !.row = inst[i], !.other = j, !.assoc = a]
  <1>2. i \in Insts /\ inst[i] \in Row /\ Agrees(inst, i, inst[i])
    BY Holds
  <1>3. r \in Request
    BY <1>2, IdleHeld DEF Idle, Request, Steps, Operations
  <1>4. Held(inst, r)
    BY <1>2 DEF Idle, Held, RowsHeld, Checked, Stacked
  <1>. QED BY <1>1, <1>3, <1>4, StartStep

LEMMA UnlinkReadStep == ASSUME IInv, NEW q \in Reqs, UnlinkRead(q) PROVE IInv'
  <1>1. PICK l \in LiveLinks :
          /\ links[l].from \in live
          /\ Start(q, [Idle EXCEPT !.op = "unlink", !.pc = "readOther", !.link = l,
                                   !.id = links[l].from, !.row = inst[links[l].from],
                                   !.other = links[l].to, !.assoc = links[l].assoc])
          /\ UNCHANGED <<rows, cells, linkTable>>
    BY DEF UnlinkRead
  <1>. DEFINE i == links[l].from
              r == [Idle EXCEPT !.op = "unlink", !.pc = "readOther", !.link = l,
                                !.id = i, !.row = inst[i],
                                !.other = links[l].to, !.assoc = links[l].assoc]
  <1>2. i \in Insts /\ inst[i] \in Row /\ Agrees(inst, i, inst[i])
    BY <1>1, Holds
  <1>3. l \in LinkIds /\ links[l] \in Link
    BY DEF LiveLinks, IInv, TypeOK
  <1>4. r \in Request
    BY <1>2, <1>3, IdleHeld DEF Idle, Request, Steps, Operations, Link
  <1>5. Held(inst, r)
    BY <1>2 DEF Idle, Held, RowsHeld, Checked, Stacked
  <1>. QED BY <1>1, <1>4, <1>5, StartStep

LEMMA DeleteReadStep == ASSUME IInv, NEW q \in Reqs, DeleteRead(q) PROVE IInv'
  <1>1. PICK i \in live :
          /\ Start(q, [Idle EXCEPT !.op = "delete", !.pc = "cascade", !.id = i,
                                   !.stack = <<[id |-> NoInst, kids |-> {i}]>>])
          /\ UNCHANGED <<rows, cells, linkTable>>
    BY DEF DeleteRead
  <1>. DEFINE s == <<[id |-> NoInst, kids |-> {i}]>>
              r == [Idle EXCEPT !.op = "delete", !.pc = "cascade", !.id = i, !.stack = s]
  <1>2. i \in Insts
    BY Holds
  <1>3. s \in Seq(Frame) /\ Len(s) = 1 /\ s[1].kids # {}
    BY <1>2 DEF Frame
  <1>. HIDE DEF s
  <1>4. r \in Request
    BY <1>2, <1>3, IdleHeld DEF Idle, Request, Steps, Operations
  <1>5. Held(inst, r)
    BY <1>3 DEF Idle, Held, RowsHeld, Checked, Stacked
  <1>. QED BY <1>1, <1>4, <1>5, StartStep DEF s

(***************************************************************************)
(* A read that finds what it looks for.                                    *)
(***************************************************************************)
LEMMA CarriedTyped ==
  ASSUME IInv, NEW i \in Insts, NEW v \in Nat
  PROVE  /\ {[c EXCEPT !.version = v + 1] : c \in CellsOf(i, v)} \subseteq Cell
         /\ BumpedCells(i, v) \subseteq Cell
  <1>1. CellsOf(i, v) \subseteq cells /\ cells \subseteq Cell
    BY DEF CellsOf, IInv, TypeOK
  <1>2. ASSUME NEW c \in CellsOf(i, v) PROVE [c EXCEPT !.version = v + 1] \in Cell
    BY <1>1 DEF Cell
  <1>. QED BY <1>1, <1>2 DEF BumpedCells

LEMMA GivenTyped ==
  ASSUME NEW r \in Request, NEW i \in Insts, NEW v \in Nat
  PROVE  Given(r, i, v) \subseteq Cell
  BY DEF Given, Cell, Request

LEMMA UpdateReadValuesStep == ASSUME IInv, NEW q \in Reqs, UpdateReadValues(q) PROVE IInv'
  <1>. DEFINE v == req[q].row.version
              kept == {c \in CellsOf(req[q].id, v) : c.attr # req[q].attr}
              cs == {[c EXCEPT !.version = v + 1] : c \in kept} \cup Given(req[q], req[q].id, v + 1)
              r == [req[q] EXCEPT !.pc = "save", !.cells = cs]
  <1>1. req[q].op = "update" /\ req[q].pc = "readValues" /\ req[q] \in Request
        /\ Held(inst, req[q])
    BY Holds DEF UpdateReadValues, At
  <1>2. Agrees(inst, req[q].id, req[q].row)
    BY <1>1 DEF Held, RowsHeld
  <1>3. req[q].id \in Insts /\ v \in Nat
    BY <1>2 DEF Agrees, Row
  <1>4. cs \subseteq Cell
    BY <1>1, <1>3, CarriedTyped, GivenTyped
  <1>5. req' = [req EXCEPT ![q].pc = "save", ![q].cells = cs]
    BY DEF UpdateReadValues
  <1>. HIDE DEF cs
  <1>6. r \in Request
    BY <1>1, <1>4 DEF Request, Steps
  <1>7. Held(inst, r)
    BY <1>1, <1>2 DEF Held, RowsHeld, Checked, Stacked, Request
  <1>8. req' = [req EXCEPT ![q] = r]
    BY <1>5 DEF IInv, TypeOK, Request
  <1>. QED BY <1>6, <1>7, <1>8, ContinueStep DEF UpdateReadValues

LEMMA GotoStep ==
  ASSUME IInv, NEW q \in Reqs, NEW pc \in Steps, Goto(q, pc),
         UNCHANGED <<rows, cells, linkTable, trouble>>,
         Held(inst, [req[q] EXCEPT !.pc = pc])
  PROVE  IInv'
  <1>. DEFINE r == [req[q] EXCEPT !.pc = pc]
  <1>1. r \in Request
    BY Holds DEF Request
  <1>2. req' = [req EXCEPT ![q] = r]
    BY DEF Goto, IInv, TypeOK, Request
  <1>. QED BY <1>1, <1>2, ContinueStep

LEMMA EndsHere ==
  ASSUME IInv, NEW q \in Reqs, Finish(q), UNCHANGED <<rows, cells, linkTable, trouble>>
  PROVE  IInv'
  BY EndStep DEF IInv, TypeOK

LEMMA SetParentReadParentStep ==
  ASSUME IInv, NEW q \in Reqs, SetParentReadParent(q) PROVE IInv'
  <1>. DEFINE r == [req[q] EXCEPT !.otherRow = inst[req[q].other], !.pc = "checkName"]
  <1>1. CASE ~MayContain(req[q])
    BY <1>1, EndsHere DEF SetParentReadParent
  <1>2. CASE MayContain(req[q])
    <2>1. req[q].op = "setParent" /\ req[q].pc = "readOther"
      BY DEF SetParentReadParent, At
    <2>2. req[q] \in Request /\ Held(inst, req[q])
      BY Holds
    <2>3. req[q].other \in live /\ inst[req[q].other].catalog = req[q].row.catalog
      BY <1>2 DEF MayContain
    <2>4. inst[req[q].other] \in Row /\ Agrees(inst, req[q].other, inst[req[q].other])
      BY <2>3, Holds
    <2>5. r \in Request
      BY <2>2, <2>4 DEF Request, Steps
    <2>6. Held(inst, r)
      BY <2>1, <2>2, <2>3, <2>4, StoreAbsentAssumption
      DEF Held, RowsHeld, Checked, Stacked, Request
    <2>7. req' = [req EXCEPT ![q] = r]
      BY <1>2 DEF SetParentReadParent, IInv, TypeOK, Request
    <2>. QED BY <2>5, <2>6, <2>7, ContinueStep DEF SetParentReadParent
  <1>. QED BY <1>1, <1>2

LEMMA SetParentCheckNameStep ==
  ASSUME IInv, NEW q \in Reqs, SetParentCheckName(q) PROVE IInv'
  <1>1. CASE Finish(q)
    BY <1>1, EndsHere DEF SetParentCheckName
  <1>2. CASE Goto(q, "bump")
    <2>1. req[q].op = "setParent" /\ req[q].pc = "checkName"
      BY DEF SetParentCheckName, At
    <2>2. req[q] \in Request /\ Held(inst, req[q])
      BY Holds
    <2>3. Held(inst, [req[q] EXCEPT !.pc = "bump"])
      BY <2>1, <2>2 DEF Held, RowsHeld, Checked, Stacked, Request
    <2>. QED BY <1>2, <2>3, GotoStep DEF SetParentCheckName, Steps
  <1>. QED BY <1>1, <1>2 DEF SetParentCheckName

LEMMA SetParentReadOldStep ==
  ASSUME IInv, NEW q \in Reqs, SetParentReadOld(q) PROVE IInv'
  <1>. DEFINE p == req[q].row.parent
              r == [req[q] EXCEPT !.other = p, !.otherRow = inst[p], !.pc = "bumpOther"]
  <1>1. CASE p \notin live
    BY <1>1, EndsHere DEF SetParentReadOld
  <1>2. CASE p \in live
    <2>1. req[q].op = "setParent" /\ req[q].pc = "readOld"
      BY DEF SetParentReadOld, At
    <2>2. req[q] \in Request /\ Held(inst, req[q])
      BY Holds
    <2>3. p \in Insts /\ inst[p] \in Row /\ Agrees(inst, p, inst[p])
      BY <1>2, Holds
    <2>4. req' = [req EXCEPT ![q].other = p, ![q].otherRow = inst[p], ![q].pc = "bumpOther"]
      BY <1>2 DEF SetParentReadOld
    <2>. HIDE DEF p
    <2>5. r \in Request
      BY <2>2, <2>3 DEF Request, Steps
    <2>6. Held(inst, r)
      BY <2>1, <2>2, <2>3, StoreAbsentAssumption DEF Held, RowsHeld, Checked, Stacked, Request
    <2>7. req' = [req EXCEPT ![q] = r]
      BY <2>4 DEF IInv, TypeOK, Request
    <2>. QED BY <2>5, <2>6, <2>7, ContinueStep DEF SetParentReadOld
  <1>. QED BY <1>1, <1>2

LEMMA LinkReadTargetStep == ASSUME IInv, NEW q \in Reqs, LinkReadTarget(q) PROVE IInv'
  <1>. DEFINE j == req[q].other
              r == [req[q] EXCEPT !.otherRow = inst[j], !.pc = "checkLink"]
  <1>1. CASE ~MayLink(req[q])
    BY <1>1, EndsHere DEF LinkReadTarget
  <1>2. CASE MayLink(req[q])
    <2>1. req[q].op = "link" /\ req[q].pc = "readOther"
      BY DEF LinkReadTarget, At
    <2>2. req[q] \in Request /\ Held(inst, req[q]) /\ Agrees(inst, req[q].id, req[q].row)
      BY <2>1, Holds DEF Held, RowsHeld
    <2>3. /\ j \in Insts /\ inst[j] \in Row /\ Agrees(inst, j, inst[j])
          /\ inst[j].catalog = req[q].row.catalog
          /\ Fits(req[q].assoc, req[q].row, inst[j])
      BY <1>2, Holds DEF MayLink
    <2>4. Linkable(inst, req[q].assoc, req[q].id, j)
      BY <2>2, <2>3, StoreAbsentAssumption DEF Linkable, Agrees, Fits
    <2>5. req' = [req EXCEPT ![q].otherRow = inst[j], ![q].pc = "checkLink"]
      BY <1>2 DEF LinkReadTarget
    <2>6. r \in Request
      BY <2>2, <2>3 DEF Request, Steps
    <2>7. Held(inst, r)
      BY <2>1, <2>2, <2>3, <2>4, StoreAbsentAssumption
      DEF Held, RowsHeld, Checked, Stacked, Request
    <2>8. req' = [req EXCEPT ![q] = r]
      BY <2>5 DEF IInv, TypeOK, Request
    <2>. QED BY <2>6, <2>7, <2>8, ContinueStep DEF LinkReadTarget
  <1>. QED BY <1>1, <1>2

LEMMA LinkCheckStep == ASSUME IInv, NEW q \in Reqs, LinkCheck(q) PROVE IInv'
  <1>1. CASE Finish(q)
    BY <1>1, EndsHere DEF LinkCheck
  <1>2. CASE Goto(q, "insertLink")
    <2>1. req[q].op = "link" /\ req[q].pc = "checkLink"
      BY DEF LinkCheck, At
    <2>2. req[q] \in Request /\ Held(inst, req[q])
      BY Holds
    <2>3. Held(inst, [req[q] EXCEPT !.pc = "insertLink"])
      BY <2>1, <2>2 DEF Held, RowsHeld, Checked, Stacked, Request
    <2>. QED BY <1>2, <2>3, GotoStep DEF LinkCheck, Steps
  <1>. QED BY <1>1, <1>2 DEF LinkCheck

LEMMA UnlinkReadTargetStep == ASSUME IInv, NEW q \in Reqs, UnlinkReadTarget(q) PROVE IInv'
  <1>. DEFINE j == req[q].other
              r == [req[q] EXCEPT !.otherRow = inst[j], !.pc = "dropLink"]
  <1>1. CASE j \notin live
    BY <1>1, EndsHere DEF UnlinkReadTarget
  <1>2. CASE j \in live
    <2>1. req[q].op = "unlink" /\ req[q].pc = "readOther"
      BY DEF UnlinkReadTarget, At
    <2>2. req[q] \in Request /\ Held(inst, req[q])
      BY Holds
    <2>3. inst[j] \in Row /\ Agrees(inst, j, inst[j])
      BY <1>2, Holds
    <2>4. r \in Request
      BY <2>2, <2>3 DEF Request, Steps
    <2>5. Held(inst, r)
      BY <2>1, <2>2, <2>3, StoreAbsentAssumption DEF Held, RowsHeld, Checked, Stacked, Request
    <2>6. req' = [req EXCEPT ![q] = r]
      BY <1>2 DEF UnlinkReadTarget, IInv, TypeOK, Request
    <2>. QED BY <2>4, <2>5, <2>6, ContinueStep DEF UnlinkReadTarget
  <1>. QED BY <1>1, <1>2

LEMMA CreateRejectedStep == ASSUME IInv, NEW q \in Reqs, CreateRejected(q) PROVE IInv'
  BY EndStep DEF CreateRejected, IInv, TypeOK

LEMMA DBFailsStep == ASSUME IInv, NEW q \in Reqs, DBFails(q) PROVE IInv'
  BY EndStep DEF DBFails, IInv, TypeOK

(***************************************************************************)
(* The cascade's stack.                                                    *)
(***************************************************************************)
LEMMA CascadeListStep == ASSUME IInv, NEW q \in Reqs, CascadeList(q) PROVE IInv'
  <1>. DEFINE s == req[q].stack
  <1>1. /\ req[q].op = "delete" /\ req[q].pc = "cascade"
        /\ req[q] \in Request /\ Held(inst, req[q])
    BY Holds DEF CascadeList, At
  <1>2. s \in Seq(Frame) /\ Len(s) >= 1 /\ Len(s) \in Nat
    BY <1>1 DEF Held, Stacked, Request
  <1>0. PICK k \in Top(q).kids :
          \E page \in Page(k) :
             req' = [req EXCEPT ![q].stack =
                       Append([s EXCEPT ![Len(s)].kids = @ \ {k}], [id |-> k, kids |-> page])]
    BY DEF CascadeList
  <1>3. PICK page \in Page(k) :
          req' = [req EXCEPT ![q].stack =
                    Append([s EXCEPT ![Len(s)].kids = @ \ {k}], [id |-> k, kids |-> page])]
    BY <1>0
  <1>4. s[Len(s)] \in Frame
    BY <1>2
  <1>5. k \in Insts /\ page \subseteq Insts
    BY <1>3, <1>4 DEF Top, Frame, Page, Children, IInv, TypeOK
  <1>. DEFINE top == [s[Len(s)] EXCEPT !.kids = @ \ {k}]
              f == [id |-> k, kids |-> page]
              u == Append([s EXCEPT ![Len(s)] = top], f)
              r == [req[q] EXCEPT !.stack = u]
  <1>6. top \in Frame /\ f \in Frame
    BY <1>4, <1>5 DEF Frame
  <1>7. u \in Seq(Frame) /\ Len(u) = Len(s) + 1
    <2>. HIDE DEF top, f
    <2>1. [s EXCEPT ![Len(s)] = top] \in Seq(Frame) /\ Len([s EXCEPT ![Len(s)] = top]) = Len(s)
      BY <1>2, <1>6
    <2>. QED BY <1>6, <2>1
  <1>8. req' = [req EXCEPT ![q].stack = u]
    BY <1>2, <1>3
  <1>. HIDE DEF u
  <1>9. r \in Request
    BY <1>1, <1>7 DEF Request
  <1>10. Held(inst, r)
    BY <1>1, <1>2, <1>7 DEF Held, RowsHeld, Checked, Stacked, Request
  <1>11. req' = [req EXCEPT ![q] = r]
    BY <1>8 DEF IInv, TypeOK, Request
  <1>. QED BY <1>9, <1>10, <1>11, ContinueStep DEF CascadeList

LEMMA CascadeOverflowsStep == ASSUME IInv, NEW q \in Reqs, CascadeOverflows(q) PROVE IInv'
  <1>1. (req \in [Reqs -> Request])' /\ RequestInv'
    BY IdleHeld DEF CascadeOverflows, RequestInv
  <1>2. trouble' \subseteq {"overlap", "db", "badInput", "overflow"}
    BY DEF CascadeOverflows, IInv, TypeOK
  <1>. QED BY <1>1, <1>2, RequestsOnly DEF CascadeOverflows

-----------------------------------------------------------------------------
(***************************************************************************)
(* Steps that write.  First, those that save a row.                        *)
(***************************************************************************)
LEMMA SaveThen ==
  ASSUME IInv, NEW q \in Reqs, NEW r \in Request, req' = [req EXCEPT ![q] = r],
         Held(inst, r), NEW i \in Insts, NEW x \in Row, Save(i, x),
         UNCHANGED <<linkTable, trouble>>, cells' \subseteq Cell,
         Rooted(inst, x), inst[i] = NoRow \/ Agrees(inst, i, x)
  PROVE  IInv'
  <1>1. Keeps(inst, inst')
    BY Saves
  <1>2. (req \in [Reqs -> Request])' /\ RequestInv'
    BY <1>1, HeldStable, OneRequest DEF IInv
  <1>. QED BY <1>2, SaveStep

LEMMA CreateInsertStep == ASSUME IInv, NEW q \in Reqs, CreateInsert(q) PROVE IInv'
  <1>1. CASE Finish(q) /\ UNCHANGED rows
    BY <1>1, EndsHere DEF CreateInsert
  <1>2. CASE \E i \in Unborn :
               /\ NameFree(i, req[q].row)
               /\ Save(i, req[q].row)
               /\ req' = [req EXCEPT ![q].id = i, ![q].pc = "values"]
    <2>1. PICK i \in Unborn : /\ Save(i, req[q].row)
                              /\ req' = [req EXCEPT ![q].id = i, ![q].pc = "values"]
      BY <1>2
    <2>. DEFINE r == [req[q] EXCEPT !.id = i, !.pc = "values"]
    <2>2. i \in Insts /\ inst[i] = NoRow
      BY DEF Unborn
    <2>3. req[q] \in Request /\ Held(inst, req[q]) /\ req[q].pc = "insert"
      BY Holds DEF CreateInsert
    <2>4. req[q].row \in Row /\ Rooted(inst, req[q].row)
      BY <2>3 DEF Held, RowsHeld
    <2>5. r \in Request
      BY <2>2, <2>3 DEF Request, Steps
    <2>6. Held(inst, r)
      BY <2>2, <2>3 DEF Held, RowsHeld, Checked, Stacked, Request
    <2>7. req' = [req EXCEPT ![q] = r]
      BY <2>1 DEF IInv, TypeOK, Request
    <2>8. cells' \subseteq Cell /\ UNCHANGED <<linkTable, trouble>>
      BY DEF CreateInsert, IInv, TypeOK
    <2>. QED BY <2>1, <2>2, <2>4, <2>5, <2>6, <2>7, <2>8, SaveThen
  <1>. QED BY <1>1, <1>2 DEF CreateInsert

LEMMA NextRow ==
  ASSUME NEW x \in Row, NEW n \in Names
  PROVE  LET y == [x EXCEPT !.name = n, !.version = x.version + 1]
         IN  y \in Row /\ y.catalog = x.catalog /\ y.type = x.type /\ y.parent = x.parent
  <1>. DEFINE z == [x EXCEPT !.name = n]
  <1>1. z \in Row /\ z.catalog = x.catalog /\ z.type = x.type /\ z.parent = x.parent
        /\ z.version = x.version /\ x.version \in Nat
    BY DEF Row
  <1>2. [x EXCEPT !.name = n, !.version = x.version + 1] = [z EXCEPT !.version = z.version + 1]
    BY <1>1
  <1>. HIDE DEF z
  <1>. QED BY <1>1, <1>2 DEF Row

LEMMA UpdateSaveStep == ASSUME IInv, NEW q \in Reqs, UpdateSave(q) PROVE IInv'
  <1>. DEFINE n == IF req[q].name = None THEN req[q].row.name ELSE req[q].name
              new == [req[q].row EXCEPT !.name = n, !.version = req[q].row.version + 1]
              r == [req[q] EXCEPT !.pc = "setValues"]
  <1>1. CASE Finish(q) /\ UNCHANGED rows
    BY <1>1, EndsHere DEF UpdateSave
  <1>2. CASE Save(req[q].id, new) /\ Goto(q, "setValues")
    <2>1. /\ req[q].op = "update" /\ req[q].pc = "save"
          /\ req[q] \in Request /\ Held(inst, req[q])
      BY Holds DEF UpdateSave, At
    <2>2. Agrees(inst, req[q].id, req[q].row) /\ n \in Names
      BY <2>1 DEF Held, RowsHeld, Agrees, Row, Request
    <2>. HIDE DEF n
    <2>3. new \in Row /\ Agrees(inst, req[q].id, new)
      <3>1. req[q].row \in Row
        BY <2>2 DEF Agrees
      <3>2. /\ new \in Row
            /\ new.catalog = req[q].row.catalog /\ new.type = req[q].row.type
            /\ new.parent = req[q].row.parent
        BY <2>2, <3>1, NextRow
      <3>. HIDE DEF new
      <3>. QED BY <2>2, <3>2 DEF Agrees, Rooted
    <2>. HIDE DEF new
    <2>4. r \in Request
      BY <2>1 DEF Request, Steps
    <2>5. Held(inst, r)
      BY <2>1, <2>2 DEF Held, RowsHeld, Checked, Stacked, Request, Agrees
    <2>6. req' = [req EXCEPT ![q] = r]
      BY <1>2 DEF Goto, IInv, TypeOK, Request
    <2>7. cells' \subseteq Cell /\ UNCHANGED <<linkTable, trouble>>
      BY DEF UpdateSave, IInv, TypeOK
    <2>8. req[q].id \in Insts /\ Rooted(inst, new)
      BY <2>3 DEF Agrees
    <2>. QED BY <1>2, <2>3, <2>4, <2>5, <2>6, <2>7, <2>8, SaveThen
  <1>3. \/ Finish(q) /\ UNCHANGED rows
        \/ Save(req[q].id, new) /\ Goto(q, "setValues")
    BY DEF UpdateSave
  <1>. QED BY <1>1, <1>2, <1>3

(***************************************************************************)
(* Bumping a row that agrees with the table and gives it a parent in its   *)
(* own catalog.                                                            *)
(***************************************************************************)
LEMMA BumpThen ==
  ASSUME IInv, NEW q \in Reqs, NEW r \in Request, req' = [req EXCEPT ![q] = r],
         Held(inst, r), NEW i, NEW x, Agrees(inst, i, x), Bump(i, x),
         UNCHANGED <<linkTable, trouble>>
  PROVE  IInv'
  <1>. DEFINE y == [x EXCEPT !.version = x.version + 1]
  <1>1. i \in Insts /\ x.version \in Nat /\ y \in Row
    BY DEF Agrees, Row
  <1>2. Rooted(inst, y) /\ Agrees(inst, i, y)
    BY <1>1 DEF Agrees, Rooted, Row
  <1>3. Save(i, y) /\ cells' = BumpedCells(i, x.version)
    BY DEF Bump
  <1>4. cells' \subseteq Cell
    BY <1>1, <1>3, CarriedTyped
  <1>. QED BY <1>1, <1>2, <1>3, <1>4, SaveThen

LEMMA BumpOtherStep == ASSUME IInv, NEW q \in Reqs, BumpOther(q) PROVE IInv'
  <1>1. CASE UNCHANGED <<rows, cells>>
    BY <1>1, EndsHere DEF BumpOther
  <1>2. CASE Bump(req[q].other, req[q].otherRow)
    <2>1. Agrees(inst, req[q].other, req[q].otherRow)
      BY Holds DEF BumpOther, Held, RowsHeld
    <2>2. req' = [req EXCEPT ![q] = Idle] /\ Idle \in Request /\ Held(inst, Idle)
      BY IdleHeld DEF BumpOther, Finish
    <2>. QED BY <1>2, <2>1, <2>2, BumpThen DEF BumpOther
  <1>. QED BY <1>1, <1>2 DEF BumpOther

LEMMA BumpFirstStep == ASSUME IInv, NEW q \in Reqs, BumpFirst(q) PROVE IInv'
  <1>. DEFINE new == IF req[q].op = "setParent"
                       THEN [req[q].row EXCEPT !.parent = req[q].other] ELSE req[q].row
              pc == AfterBump(req[q])
              r == [req[q] EXCEPT !.pc = pc]
  <1>1. CASE Finish(q) /\ UNCHANGED <<rows, cells>>
    BY <1>1, EndsHere DEF BumpFirst
  <1>2. CASE /\ Bump(req[q].id, new)
             /\ IF pc = "idle" THEN Finish(q) ELSE Goto(q, pc)
    <2>1. req[q].pc = "bump" /\ req[q] \in Request /\ Held(inst, req[q])
      BY Holds DEF BumpFirst
    <2>2. Agrees(inst, req[q].id, req[q].row)
          /\ req[q].op \in {"setParent", "link", "unlink"}
      BY <2>1 DEF Held, RowsHeld, Checked
    <2>3. Agrees(inst, req[q].id, new)
      <3>1. CASE req[q].op # "setParent"
        BY <2>2, <3>1
      <3>2. CASE req[q].op = "setParent"
        <4>1. req[q].other \in Insts \cup {NoInst}
          BY <2>1 DEF Request
        <4>2. req[q].other # NoInst =>
                inst[req[q].other] # NoRow /\ inst[req[q].other].catalog = req[q].row.catalog
          BY <2>1, <3>2 DEF Held, Checked, RowsHeld, Agrees
        <4>. QED BY <2>2, <3>2, <4>1, <4>2 DEF Agrees, Row, Rooted
      <3>. QED BY <3>1, <3>2
    <2>. HIDE DEF new
    <2>4. CASE pc = "idle"
      <3>1. req' = [req EXCEPT ![q] = Idle] /\ Idle \in Request /\ Held(inst, Idle)
        BY <1>2, <2>4, IdleHeld DEF Finish
      <3>. QED BY <1>2, <2>3, <3>1, BumpThen DEF BumpFirst
    <2>5. CASE pc # "idle"
      <3>1. pc \in {"bumpOther", "readOld"}
        BY <2>5 DEF AfterBump, AfterMove, AfterLink
      <3>2. pc = "bumpOther" => req[q].otherRow # NoRow
        BY <2>1, <2>2, <3>1 DEF Held, Checked, AfterBump, AfterMove, AfterLink
      <3>3. req' = [req EXCEPT ![q] = r]
        BY <1>2, <2>5 DEF Goto, IInv, TypeOK, Request
      <3>. HIDE DEF pc
      <3>4. r \in Request
        BY <2>1, <3>1 DEF Request, Steps
      <3>5. Held(inst, r)
        BY <2>1, <2>2, <3>1, <3>2 DEF Held, RowsHeld, Checked, Stacked, Request
      <3>. QED BY <1>2, <2>3, <3>3, <3>4, <3>5, BumpThen DEF BumpFirst
    <2>. QED BY <2>4, <2>5
  <1>3. \/ Finish(q) /\ UNCHANGED <<rows, cells>>
        \/ Bump(req[q].id, new) /\ IF pc = "idle" THEN Finish(q) ELSE Goto(q, pc)
    BY DEF BumpFirst
  <1>. QED BY <1>1, <1>2, <1>3

(***************************************************************************)
(* Then those that leave the rows of live instances as they are: values    *)
(* are written, links come and go, an instance is deleted.                 *)
(***************************************************************************)
LEMMA OtherWrite ==
  ASSUME IInv, NEW q \in Reqs, NEW r \in Request, req' = [req EXCEPT ![q] = r],
         Held(inst, r), inst' = inst, live' \subseteq live, cells' \subseteq Cell,
         trouble' = trouble, usedLinks' \subseteq LinkIds,
         links' \in [LinkIds -> Link \cup {NoLink}],
         \A l \in LinkIds : \/ links'[l] \in {links[l], NoLink}
                            \/ Linkable(inst, links'[l].assoc, links'[l].from, links'[l].to)
  PROVE  IInv'
  <1>1. Keeps(inst, inst')
    BY KeepsSelf
  <1>2. (req \in [Reqs -> Request])' /\ RequestInv'
    BY <1>1, OneRequest DEF IInv
  <1>3. TypeOK'
    BY <1>2 DEF IInv, TypeOK
  <1>4. RowInv'
    BY DEF IInv, RowInv
  <1>5. LinkInv'
    BY DEF IInv, LinkInv, LiveLinks
  <1>6. (\A i \in live : inst[i] # NoRow)'
    BY DEF IInv
  <1>. QED BY <1>2, <1>3, <1>4, <1>5, <1>6 DEF IInv

LEMMA CreateValuesStep == ASSUME IInv, NEW q \in Reqs, CreateValues(q) PROVE IInv'
  <1>1. req[q] \in Request /\ Held(inst, req[q]) /\ req[q].pc = "values"
    BY Holds DEF CreateValues
  <1>2. Given(req[q], req[q].id, 1) \subseteq Cell
    BY <1>1, GivenTyped DEF Held, RowsHeld
  <1>3. /\ inst' = inst /\ live' = live /\ links' = links /\ usedLinks' = usedLinks
        /\ trouble' = trouble /\ cells' \subseteq Cell
    BY <1>2 DEF CreateValues, rows, linkTable, IInv, TypeOK
  <1>4. CASE req[q].op = "contain"
    <2>. DEFINE r == [req[q] EXCEPT !.pc = "bumpOther"]
    <2>1. r \in Request
      BY <1>1 DEF Request, Steps
    <2>2. Held(inst, r)
      BY <1>1, <1>4 DEF Held, RowsHeld, Checked, Stacked, Request
    <2>3. req' = [req EXCEPT ![q] = r]
      BY <1>4 DEF CreateValues, Goto, IInv, TypeOK, Request
    <2>. QED BY <1>3, <2>1, <2>2, <2>3, OtherWrite DEF IInv, TypeOK
  <1>5. CASE req[q].op # "contain"
    BY <1>3, <1>5, IdleHeld, OtherWrite DEF CreateValues, Finish, IInv, TypeOK
  <1>. QED BY <1>4, <1>5

LEMMA UpdateSetValuesStep == ASSUME IInv, NEW q \in Reqs, UpdateSetValues(q) PROVE IInv'
  <1>1. req[q].cells \subseteq Cell
    BY Holds DEF Request
  <1>2. cells' \subseteq Cell
    BY <1>1 DEF UpdateSetValues, IInv, TypeOK
  <1>3. /\ inst' = inst /\ live' = live /\ links' = links /\ usedLinks' = usedLinks
        /\ trouble' = trouble /\ req' = [req EXCEPT ![q] = Idle]
    BY DEF UpdateSetValues, Finish, rows, linkTable
  <1>. QED BY <1>2, <1>3, IdleHeld, OtherWrite DEF IInv, TypeOK

LEMMA LinkInsertStep == ASSUME IInv, NEW q \in Reqs, LinkInsert(q) PROVE IInv'
  <1>1. CASE Finish(q) /\ UNCHANGED linkTable
    BY <1>1, EndsHere DEF LinkInsert
  <1>2. CASE \E l \in LinkIds \ usedLinks :
               /\ links' = [links EXCEPT ![l] = LinkOf(req[q])]
               /\ usedLinks' = usedLinks \cup {l}
               /\ Goto(q, "bump")
    <2>1. PICK l \in LinkIds \ usedLinks :
            /\ links' = [links EXCEPT ![l] = LinkOf(req[q])]
            /\ usedLinks' = usedLinks \cup {l}
            /\ Goto(q, "bump")
      BY <1>2
    <2>. DEFINE r == [req[q] EXCEPT !.pc = "bump"]
                k == LinkOf(req[q])
    <2>2. /\ req[q].op = "link" /\ req[q].pc = "insertLink"
          /\ req[q] \in Request /\ Held(inst, req[q])
      BY Holds DEF LinkInsert, At
    <2>3. /\ Linkable(inst, req[q].assoc, req[q].id, req[q].other)
          /\ req[q].assoc \in Assocs
      BY <2>2 DEF Held, Checked
    <2>4. k \in Link /\ Linkable(inst, k.assoc, k.from, k.to)
      BY <2>3 DEF LinkOf, Link, Linkable
    <2>. HIDE DEF k
    <2>5. /\ links' \in [LinkIds -> Link \cup {NoLink}]
          /\ \A m \in LinkIds : links'[m] = links[m] \/ links'[m] = k
      BY <2>1, <2>4 DEF IInv, TypeOK, k
    <2>6. r \in Request
      BY <2>2 DEF Request, Steps
    <2>7. Held(inst, r)
      BY <2>2 DEF Held, RowsHeld, Checked, Stacked, Request
    <2>8. req' = [req EXCEPT ![q] = r]
      BY <2>1 DEF Goto, IInv, TypeOK, Request
    <2>9. inst' = inst /\ live' = live /\ cells' \subseteq Cell /\ trouble' = trouble
          /\ usedLinks' \subseteq LinkIds
      BY <2>1 DEF LinkInsert, rows, IInv, TypeOK
    <2>. QED BY <2>4, <2>5, <2>6, <2>7, <2>8, <2>9, OtherWrite
  <1>. QED BY <1>1, <1>2 DEF LinkInsert

LEMMA UnlinkDropStep == ASSUME IInv, NEW q \in Reqs, UnlinkDrop(q) PROVE IInv'
  <1>1. CASE Finish(q) /\ UNCHANGED links
    BY <1>1, EndsHere DEF UnlinkDrop, linkTable
  <1>2. CASE links' = [links EXCEPT ![req[q].link] = NoLink] /\ Goto(q, "bump")
    <2>. DEFINE r == [req[q] EXCEPT !.pc = "bump"]
    <2>1. /\ req[q].op = "unlink" /\ req[q].pc = "dropLink"
          /\ req[q] \in Request /\ Held(inst, req[q])
      BY Holds DEF UnlinkDrop, At
    <2>2. /\ links' \in [LinkIds -> Link \cup {NoLink}]
          /\ \A l \in LinkIds : links'[l] \in {links[l], NoLink}
      BY <1>2 DEF IInv, TypeOK
    <2>3. r \in Request
      BY <2>1 DEF Request, Steps
    <2>4. Held(inst, r)
      BY <2>1 DEF Held, RowsHeld, Checked, Stacked, Request
    <2>5. req' = [req EXCEPT ![q] = r]
      BY <1>2 DEF Goto, IInv, TypeOK, Request
    <2>6. inst' = inst /\ live' = live /\ cells' \subseteq Cell /\ trouble' = trouble
          /\ usedLinks' \subseteq LinkIds
      BY DEF UnlinkDrop, rows, IInv, TypeOK
    <2>. QED BY <2>2, <2>3, <2>4, <2>5, <2>6, OtherWrite
  <1>. QED BY <1>1, <1>2 DEF UnlinkDrop

LEMMA CascadeUnlinkStep == ASSUME IInv, NEW q \in Reqs, CascadeUnlink(q) PROVE IInv'
  <1>. DEFINE r == [req[q] EXCEPT !.pc = "dropRow"]
  <1>1. /\ req[q].op = "delete" /\ req[q].pc = "cascade" /\ Top(q).kids = {}
        /\ req[q] \in Request /\ Held(inst, req[q])
    BY Holds DEF CascadeUnlink, At
  <1>2. Len(req[q].stack) >= 2
    BY <1>1 DEF Held, Stacked, Top
  <1>3. /\ links' \in [LinkIds -> Link \cup {NoLink}]
        /\ \A l \in LinkIds : links'[l] \in {links[l], NoLink}
    BY DEF CascadeUnlink, IInv, TypeOK
  <1>4. r \in Request
    BY <1>1 DEF Request, Steps
  <1>5. Held(inst, r)
    BY <1>1, <1>2 DEF Held, RowsHeld, Checked, Stacked, Request
  <1>6. req' = [req EXCEPT ![q] = r]
    BY DEF CascadeUnlink, Goto, IInv, TypeOK, Request
  <1>7. inst' = inst /\ live' = live /\ cells' \subseteq Cell /\ trouble' = trouble
        /\ usedLinks' \subseteq LinkIds
    BY DEF CascadeUnlink, rows, IInv, TypeOK
  <1>. QED BY <1>3, <1>4, <1>5, <1>6, <1>7, OtherWrite

LEMMA CascadeDropRowStep == ASSUME IInv, NEW q \in Reqs, CascadeDropRow(q) PROVE IInv'
  <1>. DEFINE s == req[q].stack
              u == SubSeq(s, 1, Len(s) - 1)
              r == [req[q] EXCEPT !.stack = u, !.pc = "cascade"]
  <1>1. /\ inst' = inst /\ live' \subseteq live /\ cells' \subseteq Cell /\ trouble' = trouble
        /\ usedLinks' \subseteq LinkIds /\ links' = links
        /\ links \in [LinkIds -> Link \cup {NoLink}]
    BY DEF CascadeDropRow, linkTable, IInv, TypeOK
  <1>2. CASE Top(q).id \notin live \/ Len(s) = 2
    <2>1. req' = [req EXCEPT ![q] = Idle]
      BY <1>2 DEF CascadeDropRow, Finish
    <2>. QED BY <1>1, <2>1, IdleHeld, OtherWrite
  <1>3. CASE ~(Top(q).id \notin live \/ Len(s) = 2)
    <2>1. /\ req[q].op = "delete" /\ req[q].pc = "dropRow"
          /\ req[q] \in Request /\ Held(inst, req[q])
      BY Holds DEF CascadeDropRow, At
    <2>2. s \in Seq(Frame) /\ Len(s) \in Nat /\ Len(s) >= 3
      <3>1. s \in Seq(Frame) /\ Len(s) >= 2
        BY <2>1 DEF Held, Stacked, Request
      <3>2. Len(s) \in Nat
        BY <3>1
      <3>3. Len(s) # 2
        BY <1>3
      <3>4. Len(s) >= 3
        <4>1. \A n \in Nat : n >= 2 /\ n # 2 => n >= 3
          OBVIOUS
        <4>. QED BY <3>1, <3>2, <3>3, <4>1, Zenon
      <3>. QED BY <3>1, <3>2, <3>4
    <2>3. u \in Seq(Frame) /\ Len(u) >= 2
      BY <2>2
    <2>4. req' = [req EXCEPT ![q].stack = u, ![q].pc = "cascade"]
      BY <1>3 DEF CascadeDropRow
    <2>. HIDE DEF u
    <2>5. r \in Request
      BY <2>1, <2>3 DEF Request, Steps
    <2>6. Held(inst, r)
      BY <2>1, <2>3 DEF Held, RowsHeld, Checked, Stacked, Request
    <2>7. req' = [req EXCEPT ![q] = r]
      BY <2>4 DEF IInv, TypeOK, Request
    <2>. QED BY <1>1, <2>5, <2>6, <2>7, OtherWrite
  <1>. QED BY <1>2, <1>3

-----------------------------------------------------------------------------
(***************************************************************************)
(* The invariant, and what follows from it.                                *)
(***************************************************************************)
LEMMA InitInv == Init => IInv
  <1>. SUFFICES ASSUME Init PROVE IInv
    OBVIOUS
  <1>1. TypeOK
    BY IdleHeld DEF Init, TypeOK
  <1>2. RequestInv
    BY IdleHeld DEF Init, RequestInv
  <1>3. RowInv /\ LinkInv /\ \A i \in live : inst[i] # NoRow
    BY DEF Init, RowInv, LinkInv, LiveLinks
  <1>. QED BY <1>1, <1>2, <1>3 DEF IInv

LEMMA StutterInv == IInv /\ UNCHANGED vars => IInv'
  <1>. SUFFICES ASSUME IInv, UNCHANGED vars PROVE IInv'
    OBVIOUS
  <1>1. UNCHANGED <<inst, live, cells, links, usedLinks, req, trouble>>
    BY DEF vars
  <1>2. TypeOK'
    BY <1>1 DEF IInv, TypeOK
  <1>3. RequestInv' /\ RowInv' /\ LinkInv' /\ (\A i \in live : inst[i] # NoRow)'
    BY <1>1 DEF IInv, RequestInv, RowInv, LinkInv, LiveLinks
  <1>. QED BY <1>2, <1>3 DEF IInv

LEMMA NextInv == IInv /\ [Next]_vars => IInv'
  <1>1. CASE UNCHANGED vars
    BY <1>1, StutterInv
  <1>2. ASSUME IInv, NEW q \in Reqs, Handle(q) PROVE IInv'
    <2>1. CASE CreateRead(q)          BY <1>2, <2>1, CreateReadStep
    <2>2. CASE ContainRead(q)         BY <1>2, <2>2, ContainReadStep
    <2>3. CASE CreateInsert(q)        BY <1>2, <2>3, CreateInsertStep
    <2>4. CASE CreateValues(q)        BY <1>2, <2>4, CreateValuesStep
    <2>5. CASE CreateRejected(q)      BY <1>2, <2>5, CreateRejectedStep
    <2>6. CASE UpdateRead(q)          BY <1>2, <2>6, UpdateReadStep
    <2>7. CASE UpdateReadValues(q)    BY <1>2, <2>7, UpdateReadValuesStep
    <2>8. CASE UpdateSave(q)          BY <1>2, <2>8, UpdateSaveStep
    <2>9. CASE UpdateSetValues(q)     BY <1>2, <2>9, UpdateSetValuesStep
    <2>10. CASE BumpFirst(q)          BY <1>2, <2>10, BumpFirstStep
    <2>11. CASE BumpOther(q)          BY <1>2, <2>11, BumpOtherStep
    <2>12. CASE SetParentRead(q)      BY <1>2, <2>12, SetParentReadStep
    <2>13. CASE SetParentReadParent(q) BY <1>2, <2>13, SetParentReadParentStep
    <2>14. CASE SetParentCheckName(q) BY <1>2, <2>14, SetParentCheckNameStep
    <2>15. CASE SetParentReadOld(q)   BY <1>2, <2>15, SetParentReadOldStep
    <2>16. CASE LinkRead(q)           BY <1>2, <2>16, LinkReadStep
    <2>17. CASE LinkReadTarget(q)     BY <1>2, <2>17, LinkReadTargetStep
    <2>18. CASE LinkCheck(q)          BY <1>2, <2>18, LinkCheckStep
    <2>19. CASE LinkInsert(q)         BY <1>2, <2>19, LinkInsertStep
    <2>20. CASE UnlinkRead(q)         BY <1>2, <2>20, UnlinkReadStep
    <2>21. CASE UnlinkReadTarget(q)   BY <1>2, <2>21, UnlinkReadTargetStep
    <2>22. CASE UnlinkDrop(q)         BY <1>2, <2>22, UnlinkDropStep
    <2>23. CASE DeleteRead(q)         BY <1>2, <2>23, DeleteReadStep
    <2>24. CASE CascadeList(q)        BY <1>2, <2>24, CascadeListStep
    <2>25. CASE CascadeOverflows(q)   BY <1>2, <2>25, CascadeOverflowsStep
    <2>26. CASE CascadeUnlink(q)      BY <1>2, <2>26, CascadeUnlinkStep
    <2>27. CASE CascadeDropRow(q)     BY <1>2, <2>27, CascadeDropRowStep
    <2>28. CASE DBFails(q)            BY <1>2, <2>28, DBFailsStep
    <2>. QED BY <1>2, <2>1, <2>2, <2>3, <2>4, <2>5, <2>6, <2>7, <2>8, <2>9, <2>10, <2>11,
                <2>12, <2>13, <2>14, <2>15, <2>16, <2>17, <2>18, <2>19, <2>20, <2>21, <2>22,
                <2>23, <2>24, <2>25, <2>26, <2>27, <2>28 DEF Handle
  <1>. QED BY <1>1, <1>2 DEF Next

(***************************************************************************)
(* Every reachable state satisfies the inductive invariant: rows, live or  *)
(* deleted, held by a request or in the table, keep the catalog and the    *)
(* type their instance was created with.                                   *)
(***************************************************************************)
THEOREM Invariance == Spec => []IInv
  BY InitInv, NextInv, PTL DEF Spec

(***************************************************************************)
(* The tables and the requests are what the type invariant says.           *)
(***************************************************************************)
THEOREM StoreTypeCorrect == Spec => []TypeOK
  <1>1. IInv => TypeOK
    BY DEF IInv
  <1>. QED BY <1>1, Invariance, PTL

(***************************************************************************)
(* A parent and its child, and the two ends of a link, are in the same     *)
(* catalog, whatever requests interleave, fail, and write back stale rows. *)
(***************************************************************************)
THEOREM ReferencesStayInCatalog == Spec => []StaysInCatalog
  <1>1. IInv => StaysInCatalog
    <2>. SUFFICES ASSUME IInv PROVE StaysInCatalog
      OBVIOUS
    <2>1. ASSUME NEW i \in live, inst[i].parent \in live
          PROVE  inst[inst[i].parent].catalog = inst[i].catalog
      BY <2>1, StoreAssumption DEF IInv, TypeOK, RowInv, Rooted
    <2>2. ASSUME NEW l \in LiveLinks
          PROVE  inst[links[l].from].catalog = inst[links[l].to].catalog
      BY DEF IInv, LinkInv, Linkable
    <2>. QED BY <2>1, <2>2 DEF StaysInCatalog
  <1>. QED BY <1>1, Invariance, PTL

(***************************************************************************)
(* A link leads to an instance of the type its association leads to, or    *)
(* joins the two types in reverse, although the types are compared long    *)
(* before the link is inserted.                                            *)
(***************************************************************************)
THEOREM AllLinksFit == Spec => []LinksFit
  <1>1. IInv => LinksFit
    BY DEF IInv, LinkInv, Linkable, LinksFit
  <1>. QED BY <1>1, Invariance, PTL

=============================================================================
