---------------------- MODULE VersionsSequence_proofs -----------------------
(***************************************************************************)
(* Proofs about the life of entity types and catalog versions, for any     *)
(* number of types, fields, catalog versions, pins, labels and catalogs,   *)
(* while requests come one at a time: the log, the stage and the custom    *)
(* resource of a version agree, catalogs are valid for what is pinned,     *)
(* production stays as it is, edits keep the attributes, the associations  *)
(* and the containment tree of the types, and the values of a catalog      *)
(* follow its pins.                                                        *)
(***************************************************************************)
EXTENDS CatalogVersions_proofs

-----------------------------------------------------------------------------
(***************************************************************************)
(* The log is a chain that ends in the stage, or, between the write of a   *)
(* stage and its entry, in the stage before.                               *)
(***************************************************************************)
Chain(l, s) ==
    LET n == Len(l)
    IN /\ s = IF n = 0 THEN "development" ELSE l[n].to
       /\ n > 0 => l[1].from \in {None, "development"}
       /\ \A i \in 2..n : l[i].from = l[i - 1].to

ToLog(r, c) == Moving(r) /\ r.pc = "log" /\ r.cv = c

Chained(r) ==
    \A c \in Live :
       \/ r.op = "createCV" /\ r.cv = c
       \/ Chain(log[c], IF ToLog(r, c) THEN r.from ELSE cv[c].stage)

LEMMA ChainStarts ==
  ASSUME NEW e \in Transition, e.from \in {None, "development"}
  PROVE  Chain(Append(<< >>, e), e.to)
  BY DEF Chain, Transition

LEMMA ChainGrows ==
  ASSUME NEW l \in Seq(Transition), NEW e \in Transition, Chain(l, e.from)
  PROVE  Chain(Append(l, e), e.to)
  <1>1. /\ Len(Append(l, e)) = Len(l) + 1 /\ Len(l) \in Nat /\ Append(l, e)[Len(l) + 1] = e
        /\ \A i \in 1..Len(l) : Append(l, e)[i] = l[i]
    OBVIOUS
  <1>. QED BY <1>1 DEF Chain, Transition

LEMMA ChainEmpty == Chain(<< >>, "development")
  BY DEF Chain

LEMMA LogKept ==
  ASSUME NEW o, NEW s, Chained(o), cv' = cv, log' = log,
         ~(Moving(o) /\ o.pc = "log"), ~(Moving(s) /\ s.pc = "log"),
         o.op = "createCV" => s.op = "createCV" /\ s.cv = o.cv
  PROVE  Chained(s)'
  BY DEF Chained, ToLog, Live

LEMMA LogTypes ==
  ASSUME StandingInv, NEW q \in Reqs, NEW o, NEW s, Steps(q, o, s), Chained(o), TypesMove(q),
         log' = log
  PROVE  Chained(s)'
  <1>1. cv' = cv
    BY TypesPinned DEF StandingInv, TypedInv
  <1>2. (o = Idle \/ o.op \in SchemaOps) /\ (s = Idle \/ s.op \in SchemaOps)
    BY TypesFrom, TypesCurrent DEF StandingInv
  <1>3. ~Moving(o) /\ ~Moving(s) /\ o.op # "createCV"
    BY <1>2 DEF Moving, Idle, SchemaOps, EditOps
  <1>. QED BY <1>1, <1>3, LogKept

LEMMA LogCreate ==
  ASSUME StandingInv, NEW q \in Reqs, NEW o, NEW s, Steps(q, o, s), Chained(o),
         CreateCatalogVersion(q)
  PROVE  Chained(s)'
  <1>1. o = Idle /\ log' = log
    BY CreateStep
  <1>2. PICK c \in CVs, l \in Labels :
           /\ s.op = "createCV" /\ s.cv = c
           /\ cv' = [cv EXCEPT ![c] = [live |-> TRUE, label |-> l, stage |-> "development"]]
    BY CreateStep
  <1>4. ASSUME NEW d \in Live', d # c
        PROVE  d \in Live /\ cv'[d] = cv[d]
    BY <1>2, <1>4 DEF Live, StandingInv, TypedInv, TypeInv, CVTables
  <1>5. \A d \in Live : Chain(log[d], cv[d].stage)
    BY <1>1 DEF Chained, ToLog, Moving, Idle
  <1>6. \A d \in Live' : d = c \/ Chain(log'[d], cv'[d].stage)
    BY <1>1, <1>4, <1>5
  <1>7. s.op = "createCV" /\ s.cv = c /\ ~Moving(s)
    BY <1>2 DEF Moving
  <1>. QED BY <1>6, <1>7 DEF Chained, ToLog

LEMMA LogWriteStage ==
  ASSUME StandingInv, NEW q \in Reqs, NEW o, NEW s, Steps(q, o, s), Current(o), Chained(o),
         WriteStage(q)
  PROVE  Chained(s)'
  <1>1. /\ Moving(o) /\ o.pc = "stage" /\ Same(o, s) /\ s.pc = "log" /\ o.cv \in Live
        /\ cv[o.cv].stage = o.from
        /\ cv' = [cv EXCEPT ![o.cv] = [cv[o.cv] EXCEPT !.stage = o.to]]
    BY WriteStageCurrent
  <1>2. log' = log
    BY DEF WriteStage
  <1>3. Moving(s) /\ s.cv = o.cv /\ s.from = o.from
    BY <1>1 DEF Same, Moving
  <1>4. o.op # "createCV"
    BY <1>1 DEF Moving
  <1>5. \A d \in Live : Chain(log[d], cv[d].stage)
    BY <1>1, <1>4 DEF Chained, ToLog
  <1>6. ASSUME NEW d \in Live', d # o.cv PROVE d \in Live /\ cv'[d] = cv[d]
    BY <1>1, <1>6 DEF Live, StandingInv, TypedInv, TypeInv, CVTables
  <1>7. Chain(log'[o.cv], s.from)
    BY <1>1, <1>2, <1>3, <1>5
  <1>8. \A d \in Live' : Chain(log'[d], IF d = s.cv THEN s.from ELSE cv'[d].stage)
    BY <1>2, <1>3, <1>5, <1>6, <1>7
  <1>. QED BY <1>1, <1>3, <1>8 DEF Chained, ToLog

LEMMA LogWriteLog ==
  ASSUME StandingInv, NEW q \in Reqs, NEW o, NEW s, Steps(q, o, s), Current(o), Chained(o),
         WriteLog(q)
  PROVE  Chained(s)'
  <1>. DEFINE e == [from |-> o.from, to |-> IF o.op = "createCV" THEN "development" ELSE o.to]
  <1>1. /\ Shaped(o) /\ o.pc = "log" /\ o.cv \in Live
        /\ log' = [log EXCEPT ![o.cv] = Append(log[o.cv], e)]
        /\ \/ o.op = "createCV" /\ s = Idle /\ log[o.cv] = << >> /\ cv[o.cv].stage = "development"
           \/ Moving(o) /\ Same(o, s) /\ s.pc = "cr" /\ cv[o.cv].stage = o.to
    BY WriteLogCurrent
  <1>2. cv' = cv /\ Live' = Live
    BY DEF WriteLog, Live
  <1>3. e \in Transition /\ (o.op = "createCV" => o.from = None)
    <2>1. o.op = "createCV" => o.from = None
      BY <1>1 DEF Shaped
    <2>2. Moving(o) => o.from \in Stages /\ o.to \in Stages
      BY <1>1 DEF Shaped, Moving
    <2>3. "development" \in Stages
      BY DEF Stages
    <2>. QED BY <1>1, <2>1, <2>2, <2>3 DEF Transition, Moving
  <1>4. log[o.cv] \in Seq(Transition) /\ o.cv \in CVs
    BY <1>1 DEF Live, StandingInv, TypedInv, TypeInv, CVTables
  <1>5. log'[o.cv] = Append(log[o.cv], e) /\ \A d \in Live \ {o.cv} : log'[d] = log[d]
    BY <1>1, <1>4 DEF Live, StandingInv, TypedInv, TypeInv, CVTables
  <1>6. e.from = o.from /\ e.to = cv[o.cv].stage
    BY <1>1 DEF Moving
  <1>. HIDE DEF e
  <1>7. Chain(log'[o.cv], cv[o.cv].stage)
    <2>1. CASE o.op = "createCV"
      <3>1. log[o.cv] = << >>
        BY <1>1, <2>1 DEF Moving
      <3>. QED BY <1>3, <1>5, <1>6, <2>1, <3>1, ChainStarts
    <2>2. CASE Moving(o)
      <3>1. Chain(log[o.cv], o.from)
        BY <1>1, <2>2 DEF Chained, ToLog, Moving
      <3>. QED BY <1>3, <1>4, <1>5, <1>6, <3>1, ChainGrows
    <2>. QED BY <1>1, <2>1, <2>2
  <1>8. \A d \in Live \ {o.cv} : Chain(log[d], cv[d].stage)
    BY <1>1 DEF Chained, ToLog
  <1>9. \A d \in Live : Chain(log'[d], cv[d].stage)
    BY <1>5, <1>7, <1>8
  <1>10. s.pc # "log"
    BY <1>1 DEF Idle
  <1>. QED BY <1>2, <1>9, <1>10 DEF Chained, ToLog

LEMMA LogDropRow ==
  ASSUME StandingInv, NEW q \in Reqs, NEW o, NEW s, Steps(q, o, s), Current(o), Chained(o),
         DropRow(q)
  PROVE  Chained(s)'
  <1>1. /\ o.op = "deleteCV" /\ Same(o, s) /\ o.cv \notin Live'
        /\ \A d : d # o.cv => ((d \in Live)' <=> d \in Live) /\ cv'[d] = cv[d] /\ log'[d] = log[d]
    BY DropRowCurrent
  <1>2. ~Moving(o) /\ ~Moving(s)
    BY <1>1 DEF Moving, Same
  <1>3. \A d \in Live : Chain(log[d], cv[d].stage)
    BY <1>1, <1>2 DEF Chained, ToLog
  <1>4. \A d \in Live' : d \in Live /\ Chain(log'[d], cv'[d].stage)
    BY <1>1, <1>3
  <1>. QED BY <1>2, <1>4 DEF Chained, ToLog

LEMMA LogSaveCV ==
  ASSUME StandingInv, NEW q \in Reqs, NEW o, NEW s, Steps(q, o, s), Current(o), Chained(o),
         SaveCV(q)
  PROVE  Chained(s)'
  <1>1. o = req[q] /\ o.op = "updateCV" /\ log' = log
    BY DEF Steps, SaveCV, AtCV
  <1>2. s = Idle
    BY EndsCurrent DEF LastOf
  <1>3. o.cv \in Live /\ o.row.live /\ o.row.stage = cv[o.cv].stage
    BY <1>1 DEF Current, CurUpdate
  <1>4. cv' = cv \/ cv' = [cv EXCEPT ![o.cv] = o.row]
    BY <1>1 DEF SaveCV
  <1>5. \A d \in Live : Chain(log[d], cv[d].stage)
    BY <1>1 DEF Chained, ToLog, Moving
  <1>6. \A d \in Live' : d \in Live /\ cv'[d].stage = cv[d].stage
    BY <1>3, <1>4 DEF Live, StandingInv, TypedInv, TypeInv, CVTables
  <1>7. \A d \in Live' : Chain(log'[d], cv'[d].stage)
    BY <1>1, <1>5, <1>6
  <1>. QED BY <1>2, <1>7 DEF Chained, ToLog, Moving, Idle

LEMMA RestStill ==
  ASSUME StandingInv, NEW q \in Reqs, NEW o, NEW s, Steps(q, o, s), Current(o),
         "db" \notin trouble',
         \/ WriteCR(q) \/ DropCR(q) \/ InsertPin(q) \/ DropPin(q) \/ Remap(q) \/ SavePin(q)
         \/ Commit(q) \/ CVFail(q) \/ ListCatalogs(q) \/ ResetCatalog(q) \/ Wholes(q)
  PROVE  /\ UNCHANGED <<cv, log>> /\ o.op # "createCV"
         /\ ~(Moving(o) /\ o.pc = "log") /\ ~(Moving(s) /\ s.pc = "log")
  <1>0. UNCHANGED <<cv, log>>
    BY DEF WriteCR, DropCR, InsertPin, DropPin, Remap, SavePin, Commit, CVFail, ListCatalogs,
           ResetCatalog, Wholes, CreateCatalog, Validate, SetValue, Whole, versionVars
  <1>1. CASE InsertPin(q)
    <2>1. o.op = "addPin" /\ (s = Idle \/ Same(o, s))
      BY <1>1, InsertPinCurrent
    <2>. QED BY <1>0, <2>1 DEF Moving, Same, Idle
  <1>2. CASE DropPin(q)
    <2>1. o.op = "removePin" /\ Same(o, s)
      BY <1>2, DropPinCurrent
    <2>. QED BY <1>0, <2>1 DEF Moving, Same, Idle
  <1>3. CASE Remap(q) \/ SavePin(q)
    <2>1. o.op = "updatePin" /\ (s = Idle \/ Same(o, s))
      BY <1>3, RemapCurrent, SavePinCurrent
    <2>. QED BY <1>0, <2>1 DEF Moving, Same, Idle
  <1>4. CASE ListCatalogs(q) \/ ResetCatalog(q)
    <2>1. o.op \in {"addPin", "removePin"} /\ (s = Idle \/ Same(o, s))
      BY <1>4, ListCurrent
    <2>. QED BY <1>0, <2>1 DEF Moving, Same, Idle
  <1>5. CASE Wholes(q)
    <2>1. o = Idle /\ s = Idle
      BY <1>5, WholesCurrent
    <2>. QED BY <1>0, <2>1 DEF Moving, Idle
  <1>6. CASE WriteCR(q) \/ DropCR(q) \/ Commit(q) \/ CVFail(q)
    <2>1. s = Idle
      BY <1>6, EndsCurrent DEF LastOf
    <2>2. o = req[q]
      BY DEF Steps
    <2>3. o.pc \in {"cr", "dropCR", "commit"}
      <3>1. CASE CVFail(q)
        BY <2>2, <3>1 DEF CVFail
      <3>. QED BY <1>6, <2>2, <3>1 DEF WriteCR, DropCR, Commit, AtCV
    <2>4. o.op \in CVOps \/ o.pc = "cr"
      BY <1>6, <2>2 DEF DropCR, Commit, AtCV, CVOps, WriteCR, CVFail
    <2>5. o.op # "createCV"
      BY <2>2, <2>3, <2>4, AtWhich DEF StandingInv, Moving
    <2>. QED BY <1>0, <2>1, <2>3, <2>5 DEF Idle, Moving
  <1>. QED BY <1>1, <1>2, <1>3, <1>4, <1>5, <1>6

LEMMA ChainVersions ==
  ASSUME StandingInv, NEW q \in Reqs, NEW o, NEW s, Steps(q, o, s), Current(o), Chained(o),
         "db" \notin trouble', VersionsMove(q)
  PROVE  Chained(s)'
  <1>1. CASE Begins(q) /\ ~CreateCatalogVersion(q)
    <2>1. o = Idle /\ s.pc # "log" /\ UNCHANGED <<cv, log>>
      BY <1>1, OpeningStays
    <2>. QED BY <2>1, LogKept DEF Idle, Moving
  <1>2. CASE InsertPins(q)
    <2>0. o.op = "createCV" /\ (Same(o, s) \/ s = Idle)
      BY <1>2, InsertGoes DEF PinInserted
    <2>1. /\ o.op = "createCV" /\ UNCHANGED <<cv, log>>
          /\ Same(o, s) \/ s = Idle
      BY <1>2, <2>0 DEF InsertPins
    <2>2. CASE Same(o, s)
      BY <2>1, <2>2, LogKept DEF Same, Moving
    <2>3. CASE s = Idle
      <3>1. \A c \in Live : c = o.cv \/ Chain(log[c], cv[c].stage)
        BY <2>1 DEF Chained, ToLog, Moving
      <3>2. Chain(log[o.cv], cv[o.cv].stage)
        BY <2>1, ChainEmpty DEF Current, CurCreate
      <3>3. \A c \in Live : Chain(log[c], cv[c].stage)
        BY <3>1, <3>2
      <3>. QED BY <2>1, <2>3, <3>3, LiveStays DEF Chained, ToLog, Moving, Idle
    <2>. QED BY <2>1, <2>2, <2>3
  <1>3. CASE Statement(q) /\ ~InsertPins(q)
    BY <1>3, LogWriteStage, LogWriteLog, LogDropRow, LogSaveCV, RestStill, LogKept DEF Statement
  <1>4. CASE CreateCatalogVersion(q)
    BY <1>4, LogCreate
  <1>. QED BY <1>1, <1>2, <1>3, <1>4, RestStill, LogKept, MoveKinds

-----------------------------------------------------------------------------
(***************************************************************************)
(* The log of a version begins with its creation, once it is created and   *)
(* unless a request to create one named a version twice.                   *)
(***************************************************************************)
Creating(r, c) == r.op = "createCV" /\ r.cv = c

Entered(l) == Len(l) > 0 /\ l[1].from = None

EntriesBegun(r) == "repeated" \notin trouble => \A c \in Live : Creating(r, c) \/ Entered(log[c])

LEMMA BegunKept ==
  ASSUME NEW o, NEW s, EntriesBegun(o), trouble \subseteq trouble',
         "repeated" \notin trouble' => \A d \in Live' :
            \/ Creating(s, d)
            \/ d \in Live /\ ~Creating(o, d) /\ log'[d] = log[d]
  PROVE  EntriesBegun(s)'
  BY DEF EntriesBegun

LEMMA BegunWriteLog ==
  ASSUME StandingInv, NEW q \in Reqs, NEW o, NEW s, Steps(q, o, s), Current(o), EntriesBegun(o),
         WriteLog(q)
  PROVE  EntriesBegun(s)'
  <1>. DEFINE e == [from |-> o.from, to |-> IF o.op = "createCV" THEN "development" ELSE o.to]
  <1>1. /\ Shaped(o) /\ o.cv \in Live
        /\ log' = [log EXCEPT ![o.cv] = Append(log[o.cv], e)]
        /\ (o.op = "createCV" /\ log[o.cv] = << >>) \/ Moving(o)
    BY WriteLogCurrent
  <1>2. cv' = cv /\ Live' = Live /\ trouble' = trouble
    BY DEF WriteLog, Live
  <1>3. log[o.cv] \in Seq(Transition) /\ o.cv \in CVs
    BY <1>1 DEF Live, StandingInv, TypedInv, TypeInv, CVTables
  <1>4. log'[o.cv] = Append(log[o.cv], e) /\ \A d \in Live \ {o.cv} : log'[d] = log[d]
    BY <1>1, <1>3 DEF Live, StandingInv, TypedInv, TypeInv, CVTables
  <1>5. e.from = o.from
    OBVIOUS
  <1>. HIDE DEF e
  <1>6. ASSUME "repeated" \notin trouble PROVE Entered(log'[o.cv])
    <2>1. CASE o.op = "createCV" /\ log[o.cv] = << >>
      <3>1. e.from = None
        BY <1>1, <1>5, <2>1 DEF Shaped
      <3>. QED BY <1>4, <2>1, <3>1 DEF Entered
    <2>2. CASE Moving(o)
      <3>1. Entered(log[o.cv])
        BY <1>1, <1>6, <2>2 DEF EntriesBegun, Creating, Moving
      <3>2. Len(Append(log[o.cv], e)) = Len(log[o.cv]) + 1 /\ Len(log[o.cv]) \in Nat
            /\ \A i \in 1..Len(log[o.cv]) : Append(log[o.cv], e)[i] = log[o.cv][i]
        BY <1>3
      <3>. QED BY <1>4, <3>1, <3>2 DEF Entered
    <2>. QED BY <1>1, <2>1, <2>2
  <1>7. ASSUME "repeated" \notin trouble, NEW d \in Live PROVE Entered(log'[d])
    <2>1. CASE d # o.cv
      BY <1>4, <1>7, <2>1 DEF EntriesBegun, Creating
    <2>. QED BY <1>6, <1>7, <2>1
  <1>. QED BY <1>2, <1>7 DEF EntriesBegun

LEMMA BegunTypes ==
  ASSUME StandingInv, NEW q \in Reqs, NEW o, NEW s, Steps(q, o, s), EntriesBegun(o), TypesMove(q),
         log' = log
  PROVE  EntriesBegun(s)'
  <1>1. cv' = cv
    BY TypesPinned DEF StandingInv, TypedInv
  <1>2. o.op # "createCV"
    BY TypesFrom DEF StandingInv, Idle, SchemaOps, EditOps
  <1>. QED BY <1>1, <1>2, BegunKept, LiveStays DEF Creating, Steps

LEMMA BegunVersions ==
  ASSUME StandingInv, NEW q \in Reqs, NEW o, NEW s, Steps(q, o, s), Current(o), EntriesBegun(o),
         "db" \notin trouble', VersionsMove(q)
  PROVE  EntriesBegun(s)'
  <1>0. trouble \subseteq trouble'
    BY DEF Steps
  <1>1. CASE o.op # "createCV" /\ UNCHANGED <<cv, log>>
    BY <1>0, <1>1, BegunKept, LiveStays DEF Creating
  <1>2. CASE Begins(q) /\ ~CreateCatalogVersion(q)
    <2>1. o = Idle /\ UNCHANGED <<cv, log>>
      BY <1>2, OpeningStays
    <2>. QED BY <1>1, <2>1 DEF Idle
  <1>3. CASE InsertPins(q)
    <2>1. /\ UNCHANGED <<cv, log>>
          /\ Same(o, s) \/ "repeated" \in trouble'
      BY <1>0, <1>3, InsertGoes DEF InsertPins, PinInserted
    <2>2. \A d : Same(o, s) => (Creating(o, d) <=> Creating(s, d))
      BY DEF Same, Creating
    <2>. QED BY <1>0, <2>1, <2>2, BegunKept, LiveStays
  <1>4. CASE CreateCatalogVersion(q)
    <2>1. o = Idle /\ log' = log
      BY <1>4, CreateStep
    <2>2. PICK c \in CVs, l \in Labels :
             /\ s.op = "createCV" /\ s.cv = c
             /\ cv' = [cv EXCEPT ![c] = [live |-> TRUE, label |-> l, stage |-> "development"]]
      BY <1>4, CreateStep
    <2>3. ASSUME NEW d \in Live', d # c PROVE d \in Live
      BY <2>2, <2>3 DEF Live, StandingInv, TypedInv, TypeInv, CVTables
    <2>4. ~\E d : Creating(o, d)
      BY <2>1 DEF Creating, Idle
    <2>. QED BY <1>0, <2>1, <2>2, <2>3, <2>4, BegunKept DEF Creating
  <1>5. CASE WriteStage(q)
    <2>1. /\ Moving(o) /\ o.cv \in Live
          /\ cv' = [cv EXCEPT ![o.cv] = [cv[o.cv] EXCEPT !.stage = o.to]]
      BY <1>5, WriteStageCurrent
    <2>2. log' = log
      BY <1>5 DEF WriteStage
    <2>3. ASSUME NEW d \in Live' PROVE d \in Live
      BY <2>1, <2>3 DEF Live, StandingInv, TypedInv, TypeInv, CVTables
    <2>. QED BY <1>0, <2>1, <2>2, <2>3, BegunKept DEF Creating, Moving
  <1>6. CASE DropRow(q)
    <2>1. /\ o.op = "deleteCV" /\ o.cv \notin Live'
          /\ \A d : d # o.cv => ((d \in Live)' <=> d \in Live) /\ log'[d] = log[d]
      BY <1>6, DropRowCurrent
    <2>. QED BY <1>0, <2>1, BegunKept DEF Creating
  <1>7. CASE SaveCV(q)
    <2>1. o = req[q] /\ o.op = "updateCV" /\ log' = log
      BY <1>7 DEF Steps, SaveCV, AtCV
    <2>2. o.cv \in Live
      BY <2>1 DEF Current, CurUpdate
    <2>3. cv' = cv \/ cv' = [cv EXCEPT ![o.cv] = o.row]
      BY <1>7, <2>1 DEF SaveCV
    <2>4. ASSUME NEW d \in Live' PROVE d \in Live
      BY <2>2, <2>3, <2>4 DEF Live, StandingInv, TypedInv, TypeInv, CVTables
    <2>. QED BY <1>0, <2>1, <2>4, BegunKept DEF Creating
  <1>8. CASE WriteLog(q)
    BY <1>8, BegunWriteLog
  <1>. QED BY <1>1, <1>2, <1>3, <1>4, <1>5, <1>6, <1>7, <1>8, RestStill, MoveKinds DEF Statement

(***************************************************************************)
(* The log as it should be while a request is at work.                     *)
(***************************************************************************)
LogFine(r) == Chained(r) /\ EntriesBegun(r)

LEMMA LogVersions ==
  ASSUME StandingInv, NEW q \in Reqs, NEW o, NEW s, Steps(q, o, s), Current(o), LogFine(o),
         "db" \notin trouble', VersionsMove(q)
  PROVE  LogFine(s)'
  BY ChainVersions, BegunVersions DEF LogFine

LEMMA LogTypesFine ==
  ASSUME StandingInv, NEW q \in Reqs, NEW o, NEW s, Steps(q, o, s), LogFine(o), TypesMove(q),
         log' = log
  PROVE  LogFine(s)'
  BY LogTypes, BegunTypes DEF LogFine

-----------------------------------------------------------------------------
(***************************************************************************)
(* The catalogs that a change of pins has to reset.                        *)
(***************************************************************************)
Owes(r, k) ==
    \/ /\ r.op \in {"addPin", "removePin"} /\ catalogs[k].cv = r.cv
       /\ r.pc = "list" \/ (r.pc = "reset" /\ k \in r.cats)
    \/ r.op = "updatePin" /\ r.pc = "commit" /\ catalogs[k].cv = r.cv

Valid(k) == catalogs[k] # None /\ catalogs[k].status = "valid"

ValidFine(r) ==
    \A k \in Catalogs :
       Valid(k) => \/ catalogs[k].checked = PinnedVersions(catalogs[k].cv)
                   \/ Owes(r, k)

Unowed(r) == \/ r.op \notin {"addPin", "removePin", "updatePin"}
             \/ r.pc \notin {"list", "reset", "commit"}

LEMMA ValidMoves ==
  ASSUME NEW o, NEW s, ValidFine(o), Unowed(o), catalogs' = catalogs, NEW c,
         \A d : d # c => PinnedVersions(d)' = PinnedVersions(d),
         \A k \in BuiltOn(c) : Owes(s, k)'
  PROVE  ValidFine(s)'
  <1>. SUFFICES ASSUME NEW k \in Catalogs, Valid(k)
                PROVE  catalogs[k].checked = PinnedVersions(catalogs[k].cv)' \/ Owes(s, k)'
    BY DEF ValidFine, Valid
  <1>1. catalogs[k].checked = PinnedVersions(catalogs[k].cv)
    BY DEF ValidFine, Unowed, Owes
  <1>2. CASE catalogs[k].cv = c
    <2>1. k \in BuiltOn(c)
      BY <1>2 DEF BuiltOn, Valid
    <2>. QED BY <2>1
  <1>3. CASE catalogs[k].cv # c
    <2>1. PICK d : d = catalogs[k].cv
      OBVIOUS
    <2>2. PinnedVersions(d)' = PinnedVersions(d)
      BY <1>3, <2>1
    <2>. QED BY <1>1, <2>1, <2>2 DEF PinnedVersions, PinsOf
  <1>. QED BY <1>2, <1>3

LEMMA ValidKept ==
  ASSUME NEW o, NEW s, ValidFine(o), Unowed(o), catalogs' = catalogs, pins' = pins
  PROVE  ValidFine(s)'
  BY DEF ValidFine, Valid, Unowed, Owes, PinnedVersions, PinsOf

LEMMA ValidTypes ==
  ASSUME StandingInv, NEW q \in Reqs, NEW o, NEW s, Steps(q, o, s), ValidFine(o), TypesMove(q),
         catalogs' = catalogs
  PROVE  ValidFine(s)'
  <1>1. pins' = pins
    BY TypesPinned DEF StandingInv, TypedInv
  <1>2. o = Idle \/ o.op \in SchemaOps
    BY TypesFrom DEF StandingInv
  <1>3. Unowed(o)
    BY <1>2 DEF Unowed, Idle, SchemaOps, EditOps
  <1>. QED BY <1>1, <1>3, ValidKept

LEMMA ValidBegins ==
  ASSUME StandingInv, NEW q \in Reqs, NEW o, NEW s, Steps(q, o, s), ValidFine(o), Begins(q)
  PROVE  ValidFine(s)'
  <1>1. o = Idle /\ pins' = pins /\ catalogs' = catalogs
    BY CreateStep, OpeningStays
  <1>2. Unowed(o)
    BY <1>1 DEF Unowed, Idle
  <1>. QED BY <1>1, <1>2, ValidKept

(***************************************************************************)
(* A step changes the pins of one catalog version at most, and of one that *)
(* is not in production or is being deleted.                               *)
(***************************************************************************)
PinsMove(q) == InsertPins(q) \/ DropRow(q) \/ InsertPin(q) \/ DropPin(q) \/ SavePin(q)

LEMMA PinnedElsewhere ==
  ASSUME StandingInv, NEW q \in Reqs, NEW o, NEW s, Steps(q, o, s), Current(o), PinsMove(q)
  PROVE  /\ \A d : d # o.cv => PinnedVersions(d)' = PinnedVersions(d)
         /\ Draftable(o.cv) \/ o.cv \notin Live'
  <1>0. ASSUME pins' = pins PROVE \A d : PinnedVersions(d)' = PinnedVersions(d)
    BY <1>0 DEF PinnedVersions, PinsOf
  <1>1. CASE InsertPins(q)
    <2>1. /\ o.op = "createCV" /\ o \in CVRequest /\ o.cv \in Live
          /\ \/ pins' = pins
             \/ \E x \in o.todo : \E p \in Free :
                    pins' = [pins EXCEPT ![p] = [cv |-> o.cv, type |-> x[1], ver |-> x[2]]]
      BY <1>1, InsertGoes
    <2>2. Draftable(o.cv)
      BY <2>1 DEF Current, CurCreate, Draftable
    <2>3. CASE \E x \in o.todo : \E p \in Free :
                    pins' = [pins EXCEPT ![p] = [cv |-> o.cv, type |-> x[1], ver |-> x[2]]]
      <3>1. PICK x \in o.todo : \E p \in Free :
                    pins' = [pins EXCEPT ![p] = [cv |-> o.cv, type |-> x[1], ver |-> x[2]]]
        BY <2>3
      <3>2. PICK p \in Free :
                    pins' = [pins EXCEPT ![p] = [cv |-> o.cv, type |-> x[1], ver |-> x[2]]]
        BY <3>1
      <3>3. PICK new : new = [cv |-> o.cv, type |-> x[1], ver |-> x[2]]
        OBVIOUS
      <3>4. x \in Types \X Nat
        BY <2>1 DEF CVRequest
      <3>5. new \in Pin /\ new.cv = o.cv
        BY <2>1, <3>3, <3>4 DEF Pin, Live
      <3>. QED BY <2>2, <3>2, <3>3, <3>5, PinWritten DEF StandingInv, TypedInv, Free
    <2>. QED BY <1>0, <2>1, <2>2, <2>3
  <1>2. CASE DropRow(q)
    <2>1. /\ o.cv \notin Live'
          /\ pins' = [p \in Pins |-> IF p \in PinsOf(o.cv) THEN None ELSE pins[p]]
      BY <1>2, DropRowCurrent
    <2>2. ASSUME NEW d, d # o.cv PROVE PinnedVersions(d)' = PinnedVersions(d)
      <3>1. \A p \in PinsOf(d) : pins'[p] = pins[p]
        BY <2>1, <2>2 DEF PinsOf
      <3>2. PinsOf(d)' = PinsOf(d)
        BY <2>1, <2>2 DEF PinsOf
      <3>. QED BY <3>1, <3>2 DEF PinnedVersions
    <2>. QED BY <2>1, <2>2
  <1>3. CASE InsertPin(q)
    <2>1. /\ o.new \in Pin /\ o.new.cv = o.cv /\ Draftable(o.cv)
          /\ pins' = pins \/ \E p \in Free : pins' = [pins EXCEPT ![p] = o.new]
      BY <1>3, InsertPinCurrent
    <2>2. CASE \E p \in Free : pins' = [pins EXCEPT ![p] = o.new]
      <3>1. PICK p \in Free : pins' = [pins EXCEPT ![p] = o.new]
        BY <2>2
      <3>. QED BY <2>1, <3>1, PinWritten DEF StandingInv, TypedInv, Free
    <2>. QED BY <1>0, <2>1, <2>2
  <1>4. CASE DropPin(q)
    <2>1. o.pin \in PinsOf(o.cv) /\ Draftable(o.cv) /\ pins' = [pins EXCEPT ![o.pin] = None]
      BY <1>4, DropPinCurrent
    <2>2. \A k \in Pins \ {o.pin} : pins'[k] = pins[k]
      BY <2>1 DEF StandingInv, TypedInv, TypeInv, CVTables
    <2>3. pins'[o.pin] = None /\ o.pin \in Pins /\ pins[o.pin].cv = o.cv
      BY <2>1 DEF StandingInv, TypedInv, TypeInv, CVTables, PinsOf
    <2>4. ASSUME NEW d, d # o.cv PROVE PinnedVersions(d)' = PinnedVersions(d)
      <3>1. o.pin \notin PinsOf(d) /\ o.pin \notin PinsOf(d)'
        BY <2>3, <2>4 DEF PinsOf
      <3>2. PinsOf(d)' = PinsOf(d)
        BY <2>2, <3>1 DEF PinsOf
      <3>. QED BY <2>2, <3>1, <3>2 DEF PinnedVersions, PinsOf
    <2>. QED BY <2>1, <2>4
  <1>5. CASE SavePin(q)
    <2>1. /\ o.new \in Pin /\ o.new.cv = o.cv /\ o.pin \in PinsOf(o.cv) /\ Draftable(o.cv)
          /\ pins' = pins \/ pins' = [pins EXCEPT ![o.pin] = o.new]
      BY <1>5, SavePinCurrent
    <2>2. CASE pins' = [pins EXCEPT ![o.pin] = o.new]
      <3>1. o.pin \in Pins
        BY <2>1 DEF PinsOf
      <3>. QED BY <2>1, <2>2, <3>1, PinWritten DEF StandingInv, TypedInv
    <2>. QED BY <1>0, <2>1, <2>2
  <1>. QED BY <1>1, <1>2, <1>3, <1>4, <1>5 DEF PinsMove

LEMMA ValidInsertPins ==
  ASSUME StandingInv, NEW q \in Reqs, NEW o, NEW s, Steps(q, o, s), Current(o), ValidFine(o),
         InsertPins(q)
  PROVE  ValidFine(s)'
  <1>1. o.op = "createCV"
    BY InsertGoes
  <1>2. catalogs' = catalogs /\ Unowed(o) /\ BuiltOn(o.cv) = {}
    BY <1>1 DEF InsertPins, catalogVars, Unowed, Current, CurCreate
  <1>. QED BY <1>2, PinnedElsewhere, ValidMoves DEF PinsMove

LEMMA ValidDropRow ==
  ASSUME StandingInv, NEW q \in Reqs, NEW o, NEW s, Steps(q, o, s), Current(o), ValidFine(o),
         DropRow(q)
  PROVE  ValidFine(s)'
  <1>1. o.op = "deleteCV" /\ BuiltOn(o.cv) = {}
    BY DropRowCurrent
  <1>2. catalogs' = catalogs /\ Unowed(o)
    BY <1>1 DEF DropRow, catalogVars, Unowed
  <1>. QED BY <1>1, <1>2, PinnedElsewhere, ValidMoves DEF PinsMove

LEMMA ValidPins ==
  ASSUME StandingInv, NEW q \in Reqs, NEW o, NEW s, Steps(q, o, s), Current(o), ValidFine(o),
         InsertPin(q) \/ DropPin(q) \/ SavePin(q)
  PROVE  ValidFine(s)'
  <1>0. catalogs' = catalogs /\ o = req[q]
    BY DEF InsertPin, DropPin, SavePin, catalogVars, Steps
  <1>1. Unowed(o)
    BY <1>0 DEF InsertPin, DropPin, SavePin, AtCV, Unowed
  <1>2. CASE pins' = pins
    BY <1>0, <1>1, <1>2, ValidKept
  <1>3. ASSUME Same(o, s),
               \/ s.op \in {"addPin", "removePin"} /\ s.pc = "list"
               \/ s.op = "updatePin" /\ s.pc = "commit"
        PROVE  ValidFine(s)'
    <2>1. s.cv = o.cv
      BY <1>3 DEF Same
    <2>2. \A k \in BuiltOn(o.cv) : Owes(s, k)'
      BY <1>0, <1>3, <2>1 DEF BuiltOn, Owes
    <2>3. \A d : d # o.cv => PinnedVersions(d)' = PinnedVersions(d)
      BY PinnedElsewhere DEF PinsMove
    <2>. QED BY <1>0, <1>1, <2>2, <2>3, ValidMoves
  <1>4. CASE InsertPin(q)
    <2>1. o.op = "addPin" /\ (pins' = pins \/ (Same(o, s) /\ s.pc = "list"))
      BY <1>4, InsertPinCurrent
    <2>2. Same(o, s) => s.op \in {"addPin", "removePin"}
      BY <2>1 DEF Same
    <2>. QED BY <1>2, <1>3, <2>1, <2>2
  <1>5. CASE DropPin(q)
    <2>1. o.op = "removePin" /\ Same(o, s) /\ s.pc = "list"
      BY <1>5, DropPinCurrent
    <2>2. s.op \in {"addPin", "removePin"}
      BY <2>1 DEF Same
    <2>. QED BY <1>3, <2>1, <2>2
  <1>6. CASE SavePin(q)
    <2>1. o.op = "updatePin" /\ (pins' = pins \/ (Same(o, s) /\ s.pc = "commit"))
      BY <1>6, SavePinCurrent
    <2>2. Same(o, s) => s.op = "updatePin"
      BY <2>1 DEF Same
    <2>. QED BY <1>2, <1>3, <2>1, <2>2
  <1>. QED BY <1>4, <1>5, <1>6

(***************************************************************************)
(* resetDependentCatalogs and the commit of updatePin.                     *)
(***************************************************************************)
LEMMA CatalogKnown ==
  ASSUME TypeInv, NEW k \in Catalogs, Valid(k)
  PROVE  catalogs[k] \in Catalog
  BY DEF TypeInv, CVTables, Valid

LEMMA ValidList ==
  ASSUME StandingInv, NEW q \in Reqs, NEW o, NEW s, Steps(q, o, s), Current(o), ValidFine(o),
         ListCatalogs(q)
  PROVE  ValidFine(s)'
  <1>1. o = req[q] /\ o.pc = "list" /\ UNCHANGED <<pins, catalogs>>
    BY DEF Steps, ListCatalogs, versionVars, catalogVars
  <1>2. o.op \in {"addPin", "removePin"} /\ o \in CVRequest
    BY <1>1, AtWhich DEF StandingInv
  <1>3. PICK cats : cats = {k \in BuiltOn(o.cv) : catalogs[k].status # "draft"}
    OBVIOUS
  <1>4. req' = [req EXCEPT ![q] = IF cats = {} THEN Idle
                                    ELSE [o EXCEPT !.cats = cats, !.pc = "reset"]]
    BY <1>1, <1>3 DEF ListCatalogs
  <1>5. s = IF cats = {} THEN Idle ELSE [o EXCEPT !.cats = cats, !.pc = "reset"]
    BY <1>4 DEF Steps, StandingInv, TypedInv, SchemaInv, Requested
  <1>6. cats # {} => s.op = o.op /\ s.cv = o.cv /\ s.pc = "reset" /\ s.cats = cats
    BY <1>2, <1>5 DEF CVRequest
  <1>. SUFFICES ASSUME NEW k \in Catalogs, Valid(k)
                PROVE  \/ catalogs[k].checked = PinnedVersions(catalogs[k].cv)
                       \/ Owes(s, k)
    BY <1>1 DEF ValidFine, Valid, Owes, PinnedVersions, PinsOf
  <1>7. CASE Owes(o, k)
    <2>1. k \in cats
      BY <1>1, <1>2, <1>3, <1>7 DEF Owes, BuiltOn, Valid
    <2>. QED BY <1>2, <1>6, <1>7, <2>1 DEF Owes
  <1>. QED BY <1>7 DEF ValidFine

LEMMA Drafts ==
  ASSUME TypeInv, NEW D, D \subseteq Catalogs, \A k \in D : catalogs[k] # None,
         \A k \in D : catalogs'[k] = [catalogs[k] EXCEPT !.status = "draft"],
         \A k \in Catalogs \ D : catalogs'[k] = catalogs[k]
  PROVE  \A k \in Catalogs : Valid(k)' => k \notin D /\ Valid(k)
  BY DEF TypeInv, CVTables, Catalog, Valid

LEMMA ValidReset ==
  ASSUME StandingInv, NEW q \in Reqs, NEW o, NEW s, Steps(q, o, s), Current(o), ValidFine(o),
         ResetCatalog(q)
  PROVE  ValidFine(s)'
  <1>1. o = req[q] /\ o.pc = "reset" /\ pins' = pins
    BY DEF Steps, ResetCatalog, versionVars
  <1>2. o.op \in {"addPin", "removePin"} /\ o \in CVRequest /\ o.op \in CVOps
    BY <1>1, AtWhich DEF StandingInv
  <1>3. PICK n \in o.cats :
          /\ catalogs' = [catalogs EXCEPT ![n].status = "draft"]
          /\ req' = [req EXCEPT ![q] = IF o.cats = {n} THEN Idle
                                         ELSE [o EXCEPT !.cats = o.cats \ {n}]]
    BY <1>1 DEF ResetCatalog
  <1>4. s = IF o.cats = {n} THEN Idle ELSE [o EXCEPT !.cats = o.cats \ {n}]
    BY <1>3 DEF Steps, StandingInv, TypedInv, SchemaInv, Requested
  <1>5. o.cats # {n} => s.op = o.op /\ s.cv = o.cv /\ s.pc = "reset" /\ s.cats = o.cats \ {n}
    BY <1>1, <1>2, <1>4 DEF CVRequest
  <1>6. n \in Catalogs /\ catalogs[n] # None
    BY <1>1, <1>2, RowsAre DEF StandingInv, TypedInv, ListInv, Listed, Built
  <1>7. /\ catalogs'[n] = [catalogs[n] EXCEPT !.status = "draft"]
        /\ \A k \in Catalogs \ {n} : catalogs'[k] = catalogs[k]
    BY <1>3, <1>6 DEF StandingInv, TypedInv, TypeInv, CVTables
  <1>8. \A k \in Catalogs : Valid(k)' => k # n /\ Valid(k)
    <2>1. PICK D : D = {n}
      OBVIOUS
    <2>2. \A k \in Catalogs : Valid(k)' => k \notin D /\ Valid(k)
      BY <1>6, <1>7, <2>1, Drafts DEF StandingInv, TypedInv
    <2>. QED BY <2>1, <2>2
  <1>. SUFFICES ASSUME NEW k \in Catalogs, Valid(k)'
                PROVE  (\/ catalogs[k].checked = PinnedVersions(catalogs[k].cv)
                        \/ Owes(s, k))'
    BY DEF ValidFine
  <1>9. k # n /\ Valid(k) /\ catalogs'[k] = catalogs[k]
    BY <1>7, <1>8
  <1>10. CASE Owes(o, k)
    <2>1. k \in o.cats \ {n} /\ catalogs[k].cv = o.cv
      BY <1>1, <1>2, <1>9, <1>10 DEF Owes
    <2>2. s.op = o.op /\ s.cv = o.cv /\ s.pc = "reset" /\ k \in s.cats
      BY <1>5, <2>1
    <2>. QED BY <1>2, <1>9, <2>1, <2>2 DEF Owes
  <1>11. CASE catalogs[k].checked = PinnedVersions(catalogs[k].cv)
    BY <1>1, <1>9, <1>11 DEF PinnedVersions, PinsOf
  <1>. QED BY <1>9, <1>10, <1>11 DEF ValidFine

LEMMA ValidCommit ==
  ASSUME StandingInv, NEW q \in Reqs, NEW o, NEW s, Steps(q, o, s), Current(o), ValidFine(o),
         Commit(q)
  PROVE  ValidFine(s)'
  <1>1. o = req[q] /\ o.pc = "commit" /\ o.op = "updatePin" /\ pins' = pins
    BY DEF Steps, Commit, AtCV, versionVars
  <1>2. s = Idle
    BY EndsCurrent DEF LastOf
  <1>3. catalogs' = [k \in Catalogs |-> IF k \in BuiltOn(o.cv)
                       THEN [catalogs[k] EXCEPT !.status = "draft"] ELSE catalogs[k]]
    BY <1>1 DEF Commit
  <1>4. \A k \in BuiltOn(o.cv) : catalogs[k] # None /\ k \in Catalogs
    BY DEF BuiltOn
  <1>5. \A k \in Catalogs : Valid(k)' => k \notin BuiltOn(o.cv) /\ Valid(k)
    BY <1>3, <1>4, Drafts DEF StandingInv, TypedInv
  <1>. SUFFICES ASSUME NEW k \in Catalogs, Valid(k)'
                PROVE  (catalogs[k].checked = PinnedVersions(catalogs[k].cv))'
    BY DEF ValidFine
  <1>6. Valid(k) /\ catalogs'[k] = catalogs[k] /\ catalogs[k].cv # o.cv
    BY <1>3, <1>5 DEF BuiltOn, Valid
  <1>7. ~Owes(o, k)
    BY <1>6 DEF Owes
  <1>8. catalogs[k].checked = PinnedVersions(catalogs[k].cv)
    BY <1>6, <1>7 DEF ValidFine
  <1>. QED BY <1>1, <1>6, <1>8 DEF PinnedVersions, PinsOf

LEMMA ValidWholes ==
  ASSUME StandingInv, NEW q \in Reqs, NEW o, NEW s, Steps(q, o, s), ValidFine(o), Wholes(q)
  PROVE  ValidFine(s)'
  <1>1. o = Idle /\ s = Idle
    BY WholesCurrent
  <1>2. pins' = pins
    BY DEF Wholes, CreateCatalog, Validate, SetValue, Whole, versionVars
  <1>3. \A k \in Catalogs : Valid(k) => catalogs[k].checked = PinnedVersions(catalogs[k].cv)
    BY <1>1 DEF ValidFine, Owes, Idle
  <1>. SUFFICES ASSUME NEW k \in Catalogs, Valid(k)'
                PROVE  (catalogs[k].checked = PinnedVersions(catalogs[k].cv))'
    BY DEF ValidFine
  <1>4. CASE catalogs'[k] = catalogs[k]
    BY <1>2, <1>3, <1>4 DEF Valid, PinnedVersions, PinsOf
  <1>5. CASE CreateCatalog(q)
    <2>1. PICK n \in Catalogs, c \in Live :
            catalogs' = [catalogs EXCEPT ![n] = [cv |-> c, status |-> "draft", checked |-> {}]]
      BY <1>5 DEF CreateCatalog
    <2>2. k # n
      BY <2>1 DEF Valid, StandingInv, TypedInv, TypeInv, CVTables
    <2>. QED BY <1>4, <2>1, <2>2 DEF StandingInv, TypedInv, TypeInv, CVTables
  <1>6. CASE SetValue(q)
    <2>1. PICK n \in Catalogs : /\ catalogs[n] # None
                                /\ catalogs' = [catalogs EXCEPT ![n].status = "draft"]
      BY <1>6 DEF SetValue
    <2>2. /\ catalogs'[n] = [catalogs[n] EXCEPT !.status = "draft"]
          /\ \A m \in Catalogs \ {n} : catalogs'[m] = catalogs[m]
      BY <2>1 DEF StandingInv, TypedInv, TypeInv, CVTables
    <2>3. k # n
      BY <2>1, <2>2, Drafts DEF StandingInv, TypedInv
    <2>. QED BY <1>4, <2>2, <2>3
  <1>7. CASE Validate(q)
    <2>1. PICK n \in Catalogs, verdict \in {"valid", "invalid"} :
            /\ catalogs[n] # None
            /\ catalogs' = [catalogs EXCEPT ![n].status = verdict,
                                            ![n].checked = PinnedVersions(catalogs[n].cv)]
      BY <1>7 DEF Validate
    <2>2. catalogs[n] \in Catalog
      BY <2>1 DEF StandingInv, TypedInv, TypeInv, CVTables
    <2>3. /\ catalogs'[n] = [catalogs[n] EXCEPT !.status = verdict,
                                                !.checked = PinnedVersions(catalogs[n].cv)]
          /\ \A m \in Catalogs \ {n} : catalogs'[m] = catalogs[m]
      BY <2>1 DEF StandingInv, TypedInv, TypeInv, CVTables
    <2>4. catalogs'[n].cv = catalogs[n].cv /\ catalogs'[n].checked = PinnedVersions(catalogs[n].cv)
      BY <2>2, <2>3 DEF Catalog
    <2>5. CASE k = n
      BY <1>2, <2>4, <2>5 DEF PinnedVersions, PinsOf
    <2>. QED BY <1>4, <2>3, <2>5
  <1>. QED BY <1>5, <1>6, <1>7 DEF Wholes

LEMMA ValidRest ==
  ASSUME StandingInv, NEW q \in Reqs, NEW o, NEW s, Steps(q, o, s), ValidFine(o),
         "db" \notin trouble',
         \/ WriteStage(q) \/ WriteLog(q) \/ WriteCR(q) \/ DropCR(q) \/ SaveCV(q) \/ Remap(q)
         \/ CVFail(q)
  PROVE  ValidFine(s)'
  <1>1. pins' = pins /\ catalogs' = catalogs /\ o = req[q]
    BY DEF Steps, WriteStage, WriteLog, WriteCR, DropCR, SaveCV, Remap, CVFail, versionVars,
           catalogVars
  <1>2. o.pc \in {"stage", "log", "cr", "dropCR", "save", "remap"}
    <2>1. CASE CVFail(q)
      BY <1>1, <2>1 DEF CVFail
    <2>. QED BY <1>1, <2>1 DEF WriteStage, WriteLog, WriteCR, DropCR, SaveCV, Remap, AtCV
  <1>3. Unowed(o)
    BY <1>2 DEF Unowed
  <1>. QED BY <1>1, <1>3, ValidKept

LEMMA ValidVersions ==
  ASSUME StandingInv, NEW q \in Reqs, NEW o, NEW s, Steps(q, o, s), Current(o), ValidFine(o),
         "db" \notin trouble', VersionsMove(q)
  PROVE  ValidFine(s)'
  <1>1. CASE Statement(q)
    BY <1>1, ValidInsertPins, ValidDropRow, ValidPins, ValidCommit, ValidRest DEF Statement
  <1>. QED BY <1>1, ValidBegins, ValidList, ValidReset, ValidWholes, MoveKinds

-----------------------------------------------------------------------------
(***************************************************************************)
(* The resources say what the rows say, but for the stage that is being    *)
(* changed and the version that is being deleted.                          *)
(***************************************************************************)
NameOf(c) == CRName[cv[c].label]

Shown(c, s) == IF s = "development" THEN NameOf(c) = None \/ crs[NameOf(c)] = None
                 ELSE NameOf(c) # None /\ crs[NameOf(c)] = [source |-> c, stage |-> s]

InCR(r, c) == Moving(r) /\ r.pc \in {"log", "cr"} /\ r.cv = c

Dropping(r) == r.op = "deleteCV" /\ r.pc = "dropCR"

Distinct == \A c, d \in Live : NameOf(c) = NameOf(d) => c = d

ShownFine(r) == \A c \in Live : Shown(c, IF InCR(r, c) THEN r.from ELSE cv[c].stage)

SourcesFine(r) ==
    \A n \in CRNames : crs[n] # None =>
       \/ crs[n].source \in Live /\ NameOf(crs[n].source) = n
       \/ Dropping(r) /\ CRName[r.row.label] = n

UpdateFine(r) ==
    r.op = "updateCV" =>
       /\ \A d \in Live \ {r.cv} : NameOf(d) # CRName[r.row.label]
       /\ cv[r.cv].stage # "development" => r.row.label = cv[r.cv].label

DroppingFine(r) == Dropping(r) => \A d \in Live : NameOf(d) # CRName[r.row.label]

ShowFine(r) ==
    Distinct /\ ShownFine(r) /\ SourcesFine(r) /\ UpdateFine(r) /\ DroppingFine(r)

ShowFlaws ==
    {"overlap", "db", "k8s", "deleted", "unknown", "relabelled", "sharedName", "noName"}

Resting(r) == ~(Moving(r) /\ r.pc \in {"log", "cr"}) /\ ~Dropping(r)

LEMMA ShowKept ==
  ASSUME NEW o, NEW s, ShowFine(o), Resting(o), Resting(s), cv' = cv, crs' = crs,
         s.op # "updateCV"
  PROVE  ShowFine(s)'
  BY DEF ShowFine, Distinct, ShownFine, SourcesFine, UpdateFine, DroppingFine, Resting, InCR,
         NameOf, Shown, Live, Dropping

LEMMA IdleRests == Resting(Idle) /\ Idle.op # "updateCV"
  BY DEF Resting, Moving, Dropping, Idle

LEMMA SchemaRests ==
  ASSUME NEW s, s = Idle \/ s.op \in SchemaOps
  PROVE  Resting(s) /\ s.op # "updateCV"
  BY DEF Resting, Moving, Dropping, Idle, SchemaOps, EditOps

LEMMA PinsRest ==
  ASSUME NEW s, s = Idle \/ s.op \in {"addPin", "removePin", "updatePin", "createCV"}
  PROVE  Resting(s) /\ s.op # "updateCV"
  BY DEF Resting, Moving, Dropping, Idle

LEMMA ShowTypes ==
  ASSUME StandingInv, NEW q \in Reqs, NEW o, NEW s, Steps(q, o, s), ShowFine(o), TypesMove(q),
         crs' = crs
  PROVE  ShowFine(s)'
  <1>1. cv' = cv
    BY TypesPinned DEF StandingInv, TypedInv
  <1>2. (o = Idle \/ o.op \in SchemaOps) /\ (s = Idle \/ s.op \in SchemaOps)
    BY TypesFrom, TypesCurrent DEF StandingInv
  <1>. QED BY <1>1, <1>2, SchemaRests, ShowKept

(***************************************************************************)
(* A label whose resource would have the name of another's is noted.       *)
(***************************************************************************)
LEMMA Unshared ==
  ASSUME NEW c, NEW l, LabelFlaws(c, l) \subseteq trouble', trouble' \cap ShowFlaws = {}
  PROVE  \A d \in Live \ {c} : NameOf(d) # CRName[l]
  BY DEF LabelFlaws, ShowFlaws, NameOf

LEMMA ShowCreate ==
  ASSUME StandingInv, NEW q \in Reqs, NEW o, NEW s, Steps(q, o, s), ShowFine(o),
         trouble' \cap ShowFlaws = {}, CreateCatalogVersion(q)
  PROVE  ShowFine(s)'
  <1>1. o = Idle /\ crs' = crs
    BY CreateStep
  <1>2. PICK c \in CVs, l \in Labels :
           /\ s.op = "createCV" /\ s.pc = "pins" /\ s.cv = c
           /\ cv[c] = None /\ LabelFlaws(c, l) \subseteq trouble'
           /\ cv' = [cv EXCEPT ![c] = [live |-> TRUE, label |-> l, stage |-> "development"]]
    BY CreateStep
  <1>3. \A d \in Live \ {c} : NameOf(d) # CRName[l]
    BY <1>2, Unshared
  <1>4. c \notin Live
    BY <1>2 DEF Live
  <1>5. cv'[c] = [live |-> TRUE, label |-> l, stage |-> "development"]
        /\ \A d \in CVs \ {c} : cv'[d] = cv[d]
    BY <1>2 DEF StandingInv, TypedInv, TypeInv, CVTables
  <1>6. NameOf(c)' = CRName[l] /\ cv'[c].stage = "development"
    BY <1>5 DEF NameOf
  <1>7. \A d \in Live' : d = c \/ (d \in Live /\ cv'[d] = cv[d] /\ NameOf(d)' = NameOf(d))
    BY <1>5 DEF Live, NameOf
  <1>8. \A d \in Live : d # c /\ cv'[d] = cv[d] /\ d \in Live' /\ NameOf(d)' = NameOf(d)
    BY <1>4, <1>5 DEF Live, NameOf
  <1>9. Distinct'
    BY <1>3, <1>6, <1>7 DEF ShowFine, Distinct
  <1>10. Resting(o) /\ Resting(s) /\ s.op # "updateCV"
    BY <1>1, <1>2, IdleRests, PinsRest
  <1>11. \A n \in CRNames : crs[n] # None =>
           crs[n].source \in Live /\ NameOf(crs[n].source) = n
    BY <1>10 DEF ShowFine, SourcesFine, Resting
  <1>12. SourcesFine(s)'
    <2>. SUFFICES ASSUME NEW n \in CRNames, crs[n] # None
                  PROVE  (crs[n].source \in Live /\ NameOf(crs[n].source) = n)'
      BY <1>1 DEF SourcesFine
    <2>1. PICK d \in Live : d = crs[n].source /\ NameOf(d) = n
      BY <1>11
    <2>2. d \in Live' /\ NameOf(d)' = n
      BY <1>8, <2>1
    <2>. QED BY <1>1, <2>1, <2>2 DEF NameOf
  <1>13. ShownFine(s)'
    <2>. SUFFICES ASSUME NEW d \in Live' PROVE Shown(d, cv[d].stage)'
      BY <1>10 DEF ShownFine, InCR, Resting
    <2>1. CASE d = c
      <3>1. CRName[l] \in CRNames \cup {None}
        BY VersionsAssumption
      <3>2. CRName[l] = None \/ crs[CRName[l]] = None
        BY <1>3, <1>4, <1>11, <3>1
      <3>. QED BY <1>1, <1>6, <2>1, <3>2 DEF Shown
    <2>2. CASE d # c
      <3>1. d \in Live /\ cv'[d] = cv[d]
        BY <1>7, <2>2
      <3>2. Shown(d, cv[d].stage)
        BY <1>10, <3>1 DEF ShowFine, ShownFine, InCR, Resting
      <3>. QED BY <1>1, <3>1, <3>2 DEF Shown, NameOf
    <2>. QED BY <2>1, <2>2
  <1>14. UpdateFine(s)' /\ DroppingFine(s)'
    BY <1>10 DEF UpdateFine, DroppingFine, Resting
  <1>. QED BY <1>9, <1>12, <1>13, <1>14 DEF ShowFine

LEMMA ShowOpening ==
  ASSUME StandingInv, NEW q \in Reqs, NEW o, NEW s, Steps(q, o, s), ShowFine(o),
         trouble' \cap ShowFlaws = {}, Begins(q), ~CreateCatalogVersion(q)
  PROVE  ShowFine(s)'
  <1>1. /\ o = Idle /\ s.pc \in {"stage", "drop", "save", "insertPin", "dropPin", "remap"}
        /\ cv' = cv /\ crs' = crs
        /\ s.op = "updateCV" => UpdateCatalogVersion(q)
    BY OpeningStays
  <1>2. Resting(o) /\ Resting(s)
    BY <1>1, IdleRests DEF Resting, Dropping
  <1>3. CASE s.op # "updateCV"
    BY <1>1, <1>2, <1>3, ShowKept
  <1>4. CASE s.op = "updateCV"
    <2>1. PICK r : \E c \in Live, l \in Labels :
           /\ Opens(q, r) /\ cv' = cv /\ r.op = "updateCV" /\ r.pc = "save"
           /\ r.cv = c /\ r.row = [cv[c] EXCEPT !.label = l]
           /\ LabelFlaws(c, l) \subseteq trouble'
           /\ cv[c].stage # "development" /\ l # cv[c].label => "relabelled" \in trouble'
      BY <1>1, <1>4, UpdateOpens
    <2>2. s = r
      BY <2>1, StepOpens DEF StandingInv
    <2>3. PICK c \in Live, l \in Labels :
           /\ s.cv = c /\ s.row = [cv[c] EXCEPT !.label = l]
           /\ LabelFlaws(c, l) \subseteq trouble'
           /\ cv[c].stage # "development" /\ l # cv[c].label => "relabelled" \in trouble'
      BY <2>1, <2>2
    <2>4. cv[c] \in Version
      BY DEF Live, StandingInv, TypedInv, TypeInv, CVTables
    <2>5. s.row.label = l
      BY <2>3, <2>4 DEF Version
    <2>6. \A d \in Live \ {c} : NameOf(d) # CRName[l]
      BY <2>3, Unshared
    <2>7. cv[c].stage # "development" => l = cv[c].label
      BY <2>3 DEF ShowFlaws
    <2>8. UpdateFine(s)'
      BY <1>1, <2>3, <2>5, <2>6, <2>7 DEF UpdateFine, NameOf, Live
    <2>9. ShowFine(Idle)'
      BY <1>1, <1>2, IdleRests, ShowKept
    <2>. QED BY <1>2, <2>8, <2>9, IdleRests
         DEF ShowFine, ShownFine, SourcesFine, DroppingFine, InCR, Resting
  <1>. QED BY <1>3, <1>4

LEMMA ShowWriteStage ==
  ASSUME StandingInv, NEW q \in Reqs, NEW o, NEW s, Steps(q, o, s), Current(o), ShowFine(o),
         WriteStage(q)
  PROVE  ShowFine(s)'
  <1>1. /\ Moving(o) /\ o.pc = "stage" /\ Same(o, s) /\ s.pc = "log" /\ o.cv \in Live
        /\ cv[o.cv].stage = o.from
        /\ cv' = [cv EXCEPT ![o.cv] = [cv[o.cv] EXCEPT !.stage = o.to]]
    BY WriteStageCurrent
  <1>2. crs' = crs
    BY DEF WriteStage
  <1>3. Moving(s) /\ s.cv = o.cv /\ s.from = o.from /\ s.op # "updateCV" /\ ~Dropping(s)
    BY <1>1 DEF Same, Moving, Dropping
  <1>4. ~Dropping(o) /\ \A c : ~InCR(o, c)
    BY <1>1 DEF Moving, Dropping, InCR
  <1>5. cv[o.cv] \in Version /\ o.cv \in CVs
    BY <1>1 DEF Live, StandingInv, TypedInv, TypeInv, CVTables
  <1>6. /\ cv'[o.cv] = [cv[o.cv] EXCEPT !.stage = o.to]
        /\ \A c \in CVs \ {o.cv} : cv'[c] = cv[c]
    BY <1>1, <1>5 DEF StandingInv, TypedInv, TypeInv, CVTables
  <1>7. cv'[o.cv].live = cv[o.cv].live /\ cv'[o.cv].label = cv[o.cv].label
    BY <1>5, <1>6 DEF Version
  <1>8. o.cv \in Live'
    BY <1>1, WriteStageCurrent, <1>3 DEF Current, CurMove
  <1>9. /\ Live' = Live /\ \A c \in Live : cv'[c].label = cv[c].label
        /\ \A c \in Live : c # o.cv => cv'[c].stage = cv[c].stage
    BY <1>1, <1>6, <1>7, <1>8 DEF Live
  <1>10. \A c \in Live : Shown(c, cv[c].stage)
    BY <1>4 DEF ShowFine, ShownFine
  <1>11. \A c \in Live : Shown(c, IF c = o.cv THEN o.from ELSE cv[c].stage)
    BY <1>1, <1>10
  <1>12. ShownFine(s)'
    <2>1. \A c : InCR(s, c) <=> c = o.cv
      BY <1>1, <1>3 DEF InCR
    <2>. SUFFICES ASSUME NEW c \in Live
                  PROVE  Shown(c, IF c = o.cv THEN o.from ELSE cv[c].stage)'
      BY <1>3, <1>9, <2>1 DEF ShownFine, InCR
    <2>2. NameOf(c)' = NameOf(c)
      BY <1>9 DEF NameOf
    <2>3. CASE c = o.cv
      BY <1>2, <1>11, <2>2, <2>3 DEF Shown
    <2>4. CASE c # o.cv
      <3>1. cv'[c].stage = cv[c].stage
        BY <1>9, <2>4
      <3>. QED BY <1>2, <1>11, <2>2, <2>4, <3>1 DEF Shown
    <2>. QED BY <2>3, <2>4
  <1>13. Distinct' /\ SourcesFine(s)'
    BY <1>2, <1>4, <1>9 DEF ShowFine, Distinct, SourcesFine, NameOf
  <1>. QED BY <1>3, <1>12, <1>13 DEF ShowFine, UpdateFine, DroppingFine

LEMMA ShowWriteLog ==
  ASSUME StandingInv, NEW q \in Reqs, NEW o, NEW s, Steps(q, o, s), Current(o), ShowFine(o),
         WriteLog(q)
  PROVE  ShowFine(s)'
  <1>1. /\ o.pc = "log"
        /\ \/ o.op = "createCV" /\ s = Idle
           \/ Moving(o) /\ Same(o, s) /\ s.pc = "cr"
    BY WriteLogCurrent
  <1>2. cv' = cv /\ crs' = crs
    BY DEF WriteLog
  <1>3. CASE o.op = "createCV" /\ s = Idle
    <2>1. Resting(o)
      BY <1>3 DEF Resting, Moving, Dropping
    <2>. QED BY <1>2, <1>3, <2>1, IdleRests, ShowKept
  <1>4. CASE Moving(o) /\ Same(o, s) /\ s.pc = "cr"
    <2>1. \A c : InCR(o, c) <=> InCR(s, c)
      BY <1>1, <1>4 DEF InCR, Same, Moving
    <2>2. s.from = o.from /\ s.op # "updateCV" /\ ~Dropping(s) /\ ~Dropping(o)
      BY <1>4 DEF Same, Moving, Dropping
    <2>3. ShownFine(s)'
      BY <1>2, <2>1, <2>2, LiveStays DEF ShowFine, ShownFine, Shown, NameOf, InCR, Moving
    <2>4. Distinct' /\ SourcesFine(s)'
      BY <1>2, <2>2, LiveStays DEF ShowFine, Distinct, SourcesFine, NameOf
    <2>. QED BY <2>2, <2>3, <2>4 DEF ShowFine, UpdateFine, DroppingFine
  <1>. QED BY <1>1, <1>3, <1>4

(***************************************************************************)
(* The types that a version pins are there, and have names.                *)
(***************************************************************************)
LEMMA NeverOrphaned ==
  ASSUME StandingInv, trouble \cap {"deleted", "unknown"} = {}, NEW c
  PROVE  ~Orphaned(c)
  <1>. SUFFICES ASSUME NEW p \in PinsOf(c)
                PROVE  /\ Has(pins[p].type, pins[p].ver)
                       /\ types[pins[p].type] \in TypeNames
    BY DEF Orphaned, PinnedVersions
  <1>1. pins[p] \in Pin /\ p \in Pins
    BY DEF PinsOf, StandingInv, TypedInv, TypeInv, CVTables
  <1>2. pins[p].type \in Types /\ pins[p].ver \in Nat
    BY <1>1 DEF Pin
  <1>3. Has(pins[p].type, pins[p].ver)
    BY <1>1, <1>2 DEF PinsOf, StandingInv, PinsExist, Known
  <1>4. Latest(pins[p].type) > 0
    BY <1>2, <1>3, LatestNat DEF Has, StandingInv, TypedInv, SchemaInv
  <1>5. pins[p].type \in Named
    BY <1>2, <1>4 DEF StandingInv, BaseInv, HasNamed
  <1>. QED BY <1>2, <1>3, <1>5 DEF Named, StandingInv, TypedInv, SchemaInv, Tables

LEMMA ShowWriteCR ==
  ASSUME StandingInv, NEW q \in Reqs, NEW o, NEW s, Steps(q, o, s), Current(o), ShowFine(o),
         trouble' \cap ShowFlaws = {}, WriteCR(q)
  PROVE  ShowFine(s)'
  <1>0. LastOf(q)
    BY DEF LastOf
  <1>1. o = req[q] /\ o.pc = "cr" /\ cv' = cv /\ s = Idle
    <2>1. o = req[q] /\ o.pc = "cr" /\ cv' = cv
      BY DEF Steps, WriteCR
    <2>. QED BY <1>0, <2>1, EndsCurrent
  <1>2. Moving(o) /\ Shaped(o)
    BY <1>1, AtWhich DEF StandingInv
  <1>3. o.cv \in Live /\ cv[o.cv].stage = o.to /\ CRName[o.row.label] = NameOf(o.cv)
    BY <1>1, <1>2 DEF Current, CurMove, NameOf
  <1>4. PICK n : n = NameOf(o.cv)
    OBVIOUS
  <1>5. "noName" \notin trouble' /\ trouble' \cap {"deleted", "unknown"} = {}
    BY DEF ShowFlaws
  <1>6. n # None
    BY <1>1, <1>3, <1>4, <1>5 DEF WriteCR
  <1>7. n \in CRNames
    <2>1. cv[o.cv].label \in Labels
      BY <1>3 DEF Live, StandingInv, TypedInv, TypeInv, CVTables, Version
    <2>. QED BY <1>4, <1>6, <2>1, VersionsAssumption DEF NameOf
  <1>8. ~Orphaned(o.cv)
    BY <1>5, NeverOrphaned DEF Steps
  <1>9. crs' = IF o.to = "development" THEN [crs EXCEPT ![n] = None]
                 ELSE [crs EXCEPT ![n] = [source |-> o.cv, stage |-> o.to]]
    BY <1>1, <1>3, <1>4, <1>6, <1>8 DEF WriteCR
  <1>10. /\ crs'[n] = IF o.to = "development" THEN None
                        ELSE [source |-> o.cv, stage |-> o.to]
         /\ \A m \in CRNames \ {n} : crs'[m] = crs[m]
    BY <1>7, <1>9 DEF StandingInv, TypedInv, TypeInv, CVTables
  <1>11. ShownFine(s)'
    <2>. SUFFICES ASSUME NEW d \in Live' PROVE Shown(d, cv[d].stage)'
      BY <1>1 DEF ShownFine, InCR, Moving, Idle
    <2>1. d \in Live
      BY <1>1, LiveStays
    <2>2. CASE d = o.cv
      BY <1>1, <1>3, <1>4, <1>6, <1>10, <2>2 DEF Shown, NameOf
    <2>3. CASE d # o.cv
      <3>1. NameOf(d) # n
        BY <1>3, <1>4, <2>1, <2>3 DEF ShowFine, Distinct
      <3>2. Shown(d, cv[d].stage)
        BY <2>1, <2>3 DEF ShowFine, ShownFine, InCR
      <3>3. NameOf(d) = None \/ NameOf(d) \in CRNames
        <4>1. cv[d].label \in Labels
          BY <2>1 DEF Live, StandingInv, TypedInv, TypeInv, CVTables, Version
        <4>. QED BY <4>1, VersionsAssumption DEF NameOf
      <3>4. NameOf(d) # None => crs'[NameOf(d)] = crs[NameOf(d)]
        BY <1>10, <3>1, <3>3
      <3>5. NameOf(d)' = NameOf(d)
        BY <1>1 DEF NameOf
      <3>. QED BY <1>1, <3>2, <3>4, <3>5 DEF Shown
    <2>. QED BY <2>2, <2>3
  <1>12. SourcesFine(s)'
    <2>. SUFFICES ASSUME NEW m \in CRNames, crs'[m] # None
                  PROVE  (crs[m].source \in Live /\ NameOf(crs[m].source) = m)'
      BY DEF SourcesFine
    <2>1. CASE m = n
      <3>1. crs'[m].source = o.cv
        BY <1>10, <2>1
      <3>. QED BY <1>1, <1>3, <1>4, <2>1, <3>1, LiveStays DEF NameOf
    <2>2. CASE m # n
      <3>1. crs'[m] = crs[m] /\ ~Dropping(o)
        BY <1>2, <1>10, <2>2 DEF Moving, Dropping
      <3>. QED BY <1>1, <3>1, LiveStays DEF NameOf, ShowFine, SourcesFine
    <2>. QED BY <2>1, <2>2
  <1>13. Distinct'
    BY <1>1, LiveStays DEF ShowFine, Distinct, NameOf
  <1>. QED BY <1>1, <1>11, <1>12, <1>13, IdleRests DEF ShowFine, UpdateFine, DroppingFine, Resting

LEMMA ShowDropRow ==
  ASSUME StandingInv, NEW q \in Reqs, NEW o, NEW s, Steps(q, o, s), Current(o), ShowFine(o),
         DropRow(q)
  PROVE  ShowFine(s)'
  <1>1. /\ o.op = "deleteCV" /\ o.pc = "drop" /\ Same(o, s) /\ s.pc = "dropCR" /\ o.cv \in Live
        /\ o.row.label = cv[o.cv].label /\ o.cv \notin Live'
        /\ \A d : d # o.cv => ((d \in Live)' <=> d \in Live) /\ cv'[d] = cv[d]
    BY DropRowCurrent
  <1>2. crs' = crs
    BY DEF DropRow
  <1>3. Dropping(s) /\ s.row = o.row /\ s.op # "updateCV" /\ \A c : ~InCR(s, c)
    BY <1>1 DEF Same, Dropping, InCR, Moving
  <1>4. ~Dropping(o) /\ \A c : ~InCR(o, c)
    BY <1>1 DEF Moving, Dropping, InCR
  <1>5. CRName[s.row.label] = NameOf(o.cv)
    BY <1>1, <1>3 DEF NameOf
  <1>6. \A d \in Live' : d \in Live \ {o.cv} /\ cv'[d] = cv[d] /\ NameOf(d)' = NameOf(d)
    BY <1>1 DEF NameOf
  <1>7. \A d \in Live \ {o.cv} : d \in Live' /\ NameOf(d)' = NameOf(d)
    BY <1>1 DEF NameOf
  <1>8. Distinct' /\ DroppingFine(s)'
    BY <1>1, <1>5, <1>6 DEF ShowFine, Distinct, DroppingFine
  <1>9. ShownFine(s)'
    <2>. SUFFICES ASSUME NEW d \in Live' PROVE Shown(d, cv[d].stage)'
      BY <1>3 DEF ShownFine, InCR
    <2>1. Shown(d, cv[d].stage)
      BY <1>4, <1>6 DEF ShowFine, ShownFine
    <2>. QED BY <1>2, <1>6, <2>1 DEF Shown
  <1>10. SourcesFine(s)'
    <2>. SUFFICES ASSUME NEW n \in CRNames, crs[n] # None
                  PROVE  \/ (crs[n].source \in Live /\ NameOf(crs[n].source) = n)'
                         \/ CRName[s.row.label] = n
      BY <1>2, <1>3 DEF SourcesFine, Dropping
    <2>1. PICK d \in Live : d = crs[n].source /\ NameOf(d) = n
      BY <1>4 DEF ShowFine, SourcesFine
    <2>2. CASE d = o.cv
      BY <1>5, <2>1, <2>2
    <2>3. CASE d # o.cv
      BY <1>2, <1>7, <2>1, <2>3 DEF NameOf
    <2>. QED BY <2>2, <2>3
  <1>. QED BY <1>3, <1>8, <1>9, <1>10 DEF ShowFine, UpdateFine

LEMMA ShowDropCR ==
  ASSUME StandingInv, NEW q \in Reqs, NEW o, NEW s, Steps(q, o, s), ShowFine(o), DropCR(q)
  PROVE  ShowFine(s)'
  <1>0. LastOf(q)
    BY DEF LastOf
  <1>1. o = req[q] /\ Dropping(o) /\ cv' = cv /\ s = Idle
    <2>1. o = req[q] /\ Dropping(o) /\ cv' = cv
      BY DEF Steps, DropCR, AtCV, Dropping
    <2>. QED BY <1>0, <2>1, EndsCurrent
  <1>2. PICK n : n = CRName[o.row.label]
    OBVIOUS
  <1>3. crs' = IF n = None THEN crs ELSE [crs EXCEPT ![n] = None]
    BY <1>1, <1>2 DEF DropCR
  <1>4. \A m \in CRNames : m # n => crs'[m] = crs[m]
    BY <1>3 DEF StandingInv, TypedInv, TypeInv, CVTables
  <1>5. \A m \in CRNames : m = n => crs'[m] = None
    BY <1>3, VersionsAssumption DEF StandingInv, TypedInv, TypeInv, CVTables
  <1>6. \A d \in Live : NameOf(d) # n
    BY <1>1, <1>2 DEF ShowFine, DroppingFine
  <1>7. \A d \in Live : NameOf(d) = None \/ crs'[NameOf(d)] = crs[NameOf(d)]
    <2>. SUFFICES ASSUME NEW d \in Live, NameOf(d) # None PROVE NameOf(d) \in CRNames
      BY <1>4, <1>6
    <2>1. cv[d].label \in Labels
      BY DEF Live, StandingInv, TypedInv, TypeInv, CVTables, Version
    <2>. QED BY <2>1, VersionsAssumption DEF NameOf
  <1>8. \A c : ~InCR(o, c)
    BY <1>1 DEF InCR, Moving, Dropping
  <1>9. ShownFine(s)'
    <2>. SUFFICES ASSUME NEW d \in Live PROVE Shown(d, cv[d].stage)'
      BY <1>1, LiveStays DEF ShownFine, InCR, Moving, Idle
    <2>1. Shown(d, cv[d].stage)
      BY <1>8 DEF ShowFine, ShownFine
    <2>2. NameOf(d)' = NameOf(d)
      BY <1>1 DEF NameOf
    <2>. QED BY <1>1, <1>7, <2>1, <2>2 DEF Shown
  <1>10. SourcesFine(s)'
    <2>. SUFFICES ASSUME NEW m \in CRNames, crs'[m] # None
                  PROVE  (crs[m].source \in Live /\ NameOf(crs[m].source) = m)'
      BY DEF SourcesFine
    <2>1. m # n /\ crs'[m] = crs[m]
      BY <1>4, <1>5
    <2>2. crs[m].source \in Live /\ NameOf(crs[m].source) = m
      BY <1>2, <2>1 DEF ShowFine, SourcesFine
    <2>. QED BY <1>1, <2>1, <2>2, LiveStays DEF NameOf
  <1>11. Distinct'
    BY <1>1, LiveStays DEF ShowFine, Distinct, NameOf
  <1>. QED BY <1>1, <1>9, <1>10, <1>11, IdleRests DEF ShowFine, UpdateFine, DroppingFine, Resting

(***************************************************************************)
(* A new label comes with the stage the version has: nothing is shown of a *)
(* version in development, and the label of another stays.                 *)
(***************************************************************************)
LEMMA ShowSaveCV ==
  ASSUME StandingInv, NEW q \in Reqs, NEW o, NEW s, Steps(q, o, s), Current(o), ShowFine(o),
         SaveCV(q)
  PROVE  ShowFine(s)'
  <1>0. LastOf(q)
    BY DEF LastOf
  <1>1. o = req[q] /\ o.op = "updateCV" /\ o.pc = "save" /\ crs' = crs /\ s = Idle
    <2>1. o = req[q] /\ o.op = "updateCV" /\ o.pc = "save" /\ crs' = crs
      BY DEF Steps, SaveCV, AtCV
    <2>. QED BY <1>0, <2>1, EndsCurrent
  <1>2. o.cv \in Live /\ o.row.live /\ o.row.stage = cv[o.cv].stage
    BY <1>1 DEF Current, CurUpdate
  <1>3. o.row \in Version
    BY <1>1, AtWhich DEF CVOps, Shaped, StandingInv
  <1>4. Resting(o) /\ \A c : ~InCR(o, c)
    BY <1>1 DEF Resting, Moving, Dropping, InCR
  <1>5. cv' = cv \/ cv' = [cv EXCEPT ![o.cv] = o.row]
    BY <1>1 DEF SaveCV
  <1>6. CASE cv' = cv
    BY <1>1, <1>4, <1>6, IdleRests, ShowKept
  <1>7. CASE cv' = [cv EXCEPT ![o.cv] = o.row]
    <2>1. cv'[o.cv] = o.row /\ \A d \in CVs \ {o.cv} : cv'[d] = cv[d]
      BY <1>2, <1>7 DEF Live, StandingInv, TypedInv, TypeInv, CVTables
    <2>2. o.row # None
      BY <1>3, RowsAre
    <2>3. Live' = Live
      BY <1>2, <2>1, <2>2 DEF Live
    <2>4. PICK m : m = CRName[o.row.label]
      OBVIOUS
    <2>5. NameOf(o.cv)' = m /\ \A d \in Live \ {o.cv} : NameOf(d)' = NameOf(d)
      BY <2>1, <2>4 DEF NameOf, Live
    <2>6. /\ \A d \in Live \ {o.cv} : NameOf(d) # m
          /\ cv[o.cv].stage # "development" => m = NameOf(o.cv)
      BY <1>1, <2>4 DEF ShowFine, UpdateFine, NameOf
    <2>7. \A d \in Live : Shown(d, cv[d].stage)
      BY <1>4 DEF ShowFine, ShownFine
    <2>8. \A n \in CRNames : crs[n] # None =>
             crs[n].source \in Live /\ NameOf(crs[n].source) = n
      BY <1>4 DEF ShowFine, SourcesFine, Resting
    <2>9. \A d \in Live : cv'[d].stage = cv[d].stage
      BY <1>2, <2>1 DEF Live
    <2>10. cv[o.cv].stage = "development" => m = None \/ crs[m] = None
      <3>. SUFFICES ASSUME cv[o.cv].stage = "development", m # None, crs[m] # None PROVE FALSE
        OBVIOUS
      <3>1. m \in CRNames
        BY <1>3, <2>4, VersionsAssumption DEF Version
      <3>2. crs[m].source = o.cv /\ NameOf(o.cv) = m
        BY <2>6, <2>8, <3>1
      <3>. QED BY <1>2, <2>7, <3>2 DEF Shown
    <2>11. ShownFine(s)'
      <3>. SUFFICES ASSUME NEW d \in Live PROVE Shown(d, cv[d].stage)'
        BY <1>1, <2>3 DEF ShownFine, InCR, Moving, Idle
      <3>1. CASE d # o.cv
        BY <1>1, <2>5, <2>7, <2>9, <3>1 DEF Shown
      <3>2. CASE d = o.cv /\ cv[o.cv].stage = "development"
        BY <1>1, <2>5, <2>9, <2>10, <3>2 DEF Shown
      <3>3. CASE d = o.cv /\ cv[o.cv].stage # "development"
        BY <1>1, <2>5, <2>6, <2>7, <2>9, <3>3 DEF Shown
      <3>. QED BY <3>1, <3>2, <3>3
    <2>12. SourcesFine(s)'
      <3>. SUFFICES ASSUME NEW n \in CRNames, crs[n] # None
                    PROVE  (crs[n].source \in Live /\ NameOf(crs[n].source) = n)'
        BY <1>1 DEF SourcesFine
      <3>1. PICK d \in Live : d = crs[n].source /\ NameOf(d) = n
        BY <2>8
      <3>2. NameOf(d)' = n
        <4>1. CASE d = o.cv
          <5>1. cv[o.cv].stage # "development"
            <6>1. NameOf(d) # None
              BY <3>1, VersionsAssumption
            <6>. QED BY <2>7, <3>1, <4>1, <6>1 DEF Shown
          <5>. QED BY <2>5, <2>6, <3>1, <4>1, <5>1
        <4>. QED BY <2>5, <3>1, <4>1
      <3>. QED BY <1>1, <2>3, <3>1, <3>2 DEF NameOf
    <2>13. Distinct'
      BY <1>2, <2>3, <2>5, <2>6 DEF ShowFine, Distinct
    <2>. QED BY <1>1, <2>11, <2>12, <2>13, IdleRests
         DEF ShowFine, UpdateFine, DroppingFine, Resting
  <1>. QED BY <1>5, <1>6, <1>7

LEMMA ShowRest ==
  ASSUME StandingInv, NEW q \in Reqs, NEW o, NEW s, Steps(q, o, s), Current(o), ShowFine(o),
         trouble' \cap ShowFlaws = {},
         \/ InsertPins(q) \/ InsertPin(q) \/ DropPin(q) \/ Remap(q) \/ SavePin(q) \/ Commit(q)
         \/ CVFail(q) \/ ListCatalogs(q) \/ ResetCatalog(q) \/ Wholes(q)
  PROVE  ShowFine(s)'
  <1>0. UNCHANGED <<cv, crs>>
    BY DEF InsertPins, InsertPin, DropPin, Remap, SavePin, Commit, CVFail, ListCatalogs,
           ResetCatalog, Wholes, CreateCatalog, Validate, SetValue, Whole, versionVars
  <1>1. ~CVFail(q)
    BY DEF CVFail, ShowFlaws
  <1>2. ASSUME o.op \in {"addPin", "removePin", "updatePin", "createCV"}, s = Idle \/ Same(o, s)
        PROVE  ShowFine(s)'
    <2>1. s = Idle \/ s.op \in {"addPin", "removePin", "updatePin", "createCV"}
      BY <1>2 DEF Same
    <2>2. Resting(o) /\ Resting(s) /\ s.op # "updateCV"
      BY <1>2, <2>1, PinsRest
    <2>. QED BY <1>0, <2>2, ShowKept
  <1>3. CASE Wholes(q)
    <2>1. o = Idle /\ s = Idle
      BY <1>3, WholesCurrent
    <2>. QED BY <1>0, <2>1, IdleRests, ShowKept
  <1>4. CASE Commit(q)
    <2>1. LastOf(q) /\ o.op = "updatePin"
      BY <1>4 DEF LastOf, Steps, Commit, AtCV
    <2>. QED BY <1>2, <2>1, EndsCurrent
  <1>5. CASE InsertPins(q)
    <2>1. o.op = "createCV" /\ (s = Idle \/ Same(o, s))
      BY <1>5, InsertGoes DEF PinInserted
    <2>. QED BY <1>2, <2>1
  <1>6. CASE InsertPin(q) \/ DropPin(q) \/ Remap(q) \/ SavePin(q)
    BY <1>2, <1>6, InsertPinCurrent, DropPinCurrent, RemapCurrent, SavePinCurrent
  <1>7. CASE ListCatalogs(q) \/ ResetCatalog(q)
    BY <1>2, <1>7, ListCurrent
  <1>. QED BY <1>1, <1>3, <1>4, <1>5, <1>6, <1>7

LEMMA ShowVersions ==
  ASSUME StandingInv, NEW q \in Reqs, NEW o, NEW s, Steps(q, o, s), Current(o), ShowFine(o),
         trouble' \cap ShowFlaws = {}, VersionsMove(q)
  PROVE  ShowFine(s)'
  <1>1. CASE Begins(q)
    BY <1>1, ShowCreate, ShowOpening
  <1>2. CASE Statement(q)
    BY <1>2, ShowWriteStage, ShowWriteLog, ShowWriteCR, ShowDropRow, ShowDropCR, ShowSaveCV,
       ShowRest DEF Statement
  <1>. QED BY <1>1, <1>2, ShowRest, MoveKinds

-----------------------------------------------------------------------------
(***************************************************************************)
(* While requests come one at a time: what the one at work has read still  *)
(* holds, and the log, the results of validation and the custom resources  *)
(* are as they should be but for what it still has to write.               *)
(***************************************************************************)
Running ==
    /\ "overlap" \notin trouble => Alone /\ \A r : r = AtWork => Current(r)
    /\ trouble \cap {"overlap", "db"} = {} => \A r : r = AtWork => LogFine(r) /\ ValidFine(r)
    /\ trouble \cap ShowFlaws = {} => \A r : r = AtWork => ShowFine(r)

SeqInv == StandingInv /\ Running

LEMMA RunningStep ==
  ASSUME Running, NEW o, o = AtWork, NEW s, s = AtWork', trouble \subseteq trouble', Alone',
         "overlap" \notin trouble' => (Current(o) => Current(s)'),
         trouble' \cap {"overlap", "db"} = {} =>
            (LogFine(o) => LogFine(s)') /\ (ValidFine(o) => ValidFine(s)'),
         trouble' \cap ShowFlaws = {} => (ShowFine(o) => ShowFine(s)')
  PROVE  Running'
  <1>1. "overlap" \notin trouble' => \A r : r = AtWork' => Current(r)'
    BY DEF Running
  <1>2. trouble' \cap {"overlap", "db"} = {} =>
           \A r : r = AtWork' => LogFine(r)' /\ ValidFine(r)'
    BY DEF Running
  <1>3. trouble' \cap ShowFlaws = {} => \A r : r = AtWork' => ShowFine(r)'
    BY DEF Running
  <1>. QED BY <1>1, <1>2, <1>3 DEF Running

LEMMA VersionsGo ==
  ASSUME TypedInv, NEW q \in Reqs, VersionsMove(q)
  PROVE  \E s : req' = [req EXCEPT ![q] = s]
  <1>1. CASE Begins(q)
    BY <1>1, BeginsOpens DEF Opens
  <1>2. CASE Statement(q) \/ ListCatalogs(q) \/ ResetCatalog(q)
    BY <1>2, StatementGoes, ListGoes DEF TypedInv
  <1>3. CASE Wholes(q)
    BY <1>3, ReqSame DEF Wholes, CreateCatalog, Validate, SetValue, Whole
  <1>. QED BY <1>1, <1>2, <1>3, MoveKinds

LEMMA TypesGo ==
  ASSUME TypedInv, NEW q \in Reqs, TypesMove(q)
  PROVE  \E s : req' = [req EXCEPT ![q] = s]
  <1>1. CASE DeleteEntityType(q)
    BY <1>1, ReqSame DEF DeleteEntityType
  <1>2. CASE SchemaMoves(q)
    BY <1>2 DEF SchemaMoves
  <1>. QED BY <1>1, <1>2, TypesMoves DEF TypedInv

LEMMA RunningVersions ==
  ASSUME SeqInv, NEW q \in Reqs, VersionsMove(q)
  PROVE  Running'
  <1>0. TypedInv /\ StandingInv /\ trouble \subseteq trouble'
    BY Writers DEF SeqInv, StandingInv
  <1>1. CASE "overlap" \in trouble'
    BY <1>1 DEF Running, ShowFlaws
  <1>2. CASE "overlap" \notin trouble'
    <2>1. PICK s : req' = [req EXCEPT ![q] = s]
      BY <1>0, VersionsGo
    <2>2. PICK o : o = req[q]
      OBVIOUS
    <2>3. Steps(q, o, s)
      BY <1>0, <1>2, <2>1, <2>2, VersionsWork DEF SeqInv, Running
    <2>4. o = AtWork /\ s = AtWork' /\ Alone' /\ Running /\ Current(o)
      BY <1>0, <1>2, <2>3 DEF Steps, SeqInv, Running
    <2>5. Current(s)'
      BY <1>0, <2>3, <2>4, VersionsCurrent
    <2>6. "db" \notin trouble' =>
             (LogFine(o) => LogFine(s)') /\ (ValidFine(o) => ValidFine(s)')
      BY <1>0, <2>3, <2>4, LogVersions, ValidVersions
    <2>7. trouble' \cap ShowFlaws = {} => (ShowFine(o) => ShowFine(s)')
      BY <1>0, <2>3, <2>4, ShowVersions
    <2>. QED BY <1>0, <2>4, <2>5, <2>6, <2>7, RunningStep
  <1>. QED BY <1>1, <1>2

LEMMA RunningTypes ==
  ASSUME SeqInv, NEW q \in Reqs, TypesMove(q), UNCHANGED <<log, crs, catalogs>>
  PROVE  Running'
  <1>0. TypedInv /\ StandingInv /\ trouble \subseteq trouble'
    BY TypesMoves DEF SeqInv, StandingInv, TypedInv, SchemaMoves, DeleteEntityType, Note
  <1>1. CASE "overlap" \in trouble'
    BY <1>1 DEF Running, ShowFlaws
  <1>2. CASE "overlap" \notin trouble'
    <2>1. PICK s : req' = [req EXCEPT ![q] = s]
      BY <1>0, TypesGo
    <2>2. PICK o : o = req[q]
      OBVIOUS
    <2>3. Steps(q, o, s)
      BY <1>0, <1>2, <2>1, <2>2, TypesWork DEF SeqInv, Running
    <2>4. o = AtWork /\ s = AtWork' /\ Alone' /\ Running
      BY <2>3 DEF Steps, SeqInv
    <2>5. Current(s)'
      BY <1>0, <2>3, TypesCurrent
    <2>6. (LogFine(o) => LogFine(s)') /\ (ValidFine(o) => ValidFine(s)')
      BY <1>0, <2>3, LogTypesFine, ValidTypes
    <2>7. ShowFine(o) => ShowFine(s)'
      BY <1>0, <2>3, ShowTypes
    <2>. QED BY <1>0, <2>4, <2>5, <2>6, <2>7, RunningStep
  <1>. QED BY <1>1, <1>2

LEMMA SeqStart == Init => SeqInv
  <1>. SUFFICES ASSUME Init PROVE SeqInv
    OBVIOUS
  <1>1. Active = {} /\ AtWork = Idle /\ Live = {} /\ Alone
    BY DEF Init, TypesInit, Active, AtWork, Live, Alone
  <1>2. PICK r : r = AtWork
    OBVIOUS
  <1>3. Current(r)
    BY <1>1, <1>2, NoneCurrent
  <1>4. LogFine(r) /\ ValidFine(r)
    BY <1>1 DEF LogFine, Chained, EntriesBegun, ValidFine, Valid, Init
  <1>5. ShowFine(r)
    BY <1>1, <1>2, IdleRests DEF ShowFine, Distinct, ShownFine, SourcesFine, UpdateFine,
       DroppingFine, Resting, Init
  <1>. QED BY <1>1, <1>2, <1>3, <1>4, <1>5, StandingStart DEF SeqInv, Running

LEMMA SeqNext ==
  ASSUME SeqInv, [Next]_vars
  PROVE  SeqInv'
  <1>1. StandingInv'
    BY StandingNext DEF SeqInv
  <1>2. CASE TypesNext /\ UNCHANGED <<log, crs, catalogVars>>
    <2>1. PICK q \in Reqs : TypesMove(q)
      BY <1>2, MovesOf
    <2>. QED BY <1>1, <1>2, <2>1, RunningTypes DEF SeqInv, catalogVars
  <1>3. CASE VersionsNext
    <2>1. PICK q \in Reqs : VersionsMove(q)
      BY <1>3, MovesOf
    <2>. QED BY <1>1, <2>1, RunningVersions DEF SeqInv
  <1>4. CASE UNCHANGED vars
    <2>1. UNCHANGED <<cv, pins, log, crs, catalogs, trouble, req>>
      BY <1>4 DEF vars, versionVars, catalogVars
    <2>2. AtWork' = AtWork /\ Live' = Live /\ (Alone => Alone')
      BY <2>1, WorkStays, LiveStays
    <2>3. PICK o : o = AtWork
      OBVIOUS
    <2>4. Current(o) => Current(o)'
      BY <2>1, <2>2 DEF Current, CurCreate, CurMove, CurDelete, CurUpdate, CurPin, Draftable,
         PinsOf, BuiltOn, PinnedVersions, Free, Orderly
    <2>5. (LogFine(o) => LogFine(o)') /\ (ValidFine(o) => ValidFine(o)')
      BY <2>1, <2>2 DEF LogFine, Chained, EntriesBegun, ToLog, ValidFine, Valid, Owes, PinnedVersions, PinsOf
    <2>6. ShowFine(o) => ShowFine(o)'
      BY <2>1, <2>2 DEF ShowFine, Distinct, ShownFine, SourcesFine, UpdateFine, DroppingFine,
         Shown, NameOf, InCR
    <2>7. Running'
      <3>1. CASE "overlap" \in trouble'
        BY <3>1 DEF Running, ShowFlaws
      <3>2. CASE "overlap" \notin trouble'
        <4>1. Alone'
          BY <2>1, <2>2, <3>2 DEF SeqInv, Running
        <4>. QED BY <2>1, <2>2, <2>3, <2>4, <2>5, <2>6, <4>1, RunningStep DEF SeqInv
      <3>. QED BY <3>1, <3>2
    <2>. QED BY <1>1, <2>7 DEF SeqInv
  <1>. QED BY <1>2, <1>3, <1>4 DEF Next

LEMMA SeqHolds == Spec => []SeqInv
  BY SeqStart, SeqNext, PTL DEF Spec

LEMMA AtRest ==
  ASSUME Active = {}
  PROVE  AtWork = Idle
  BY DEF AtWork

(***************************************************************************)
(* Promote, Demote, UpdateCatalogVersion and CreateCatalogVersion, while   *)
(* requests come one at a time and no statement fails, keep the log of     *)
(* every catalog version a chain from development that ends in its stage.  *)
(* Its first entry is that of the creation, unless some request to create  *)
(* a version has named a pin twice and so ended before its entry.          *)
(***************************************************************************)
THEOREM LogsMatch == Spec => []StageMatchesLog
  <1>1. SeqInv => StageMatchesLog
    <2>. SUFFICES ASSUME SeqInv PROVE StageMatchesLog
      OBVIOUS
    <2>0. \A c \in Live : Len(log[c]) \in Nat
      <3>1. \A c \in Live : log[c] \in Seq(Transition)
        BY DEF SeqInv, StandingInv, TypedInv, TypeInv, CVTables, Live
      <3>. QED BY <3>1
    <2>1. ASSUME Settled({"overlap", "db"}), NEW c \in Live
          PROVE  /\ Chain(log[c], cv[c].stage)
                 /\ "repeated" \notin trouble => Entered(log[c])
      <3>1. LogFine(Idle)
        BY <2>1, AtRest DEF SeqInv, Running, Settled
      <3>. QED BY <3>1 DEF LogFine, Chained, EntriesBegun, Creating, ToLog, Moving, Idle
    <2>2. ASSUME Settled({"overlap", "db"}), NEW c \in Live
          PROVE  Len(log[c]) = 0 \/ log[c][1].from # None => "repeated" \in trouble
      BY <2>0, <2>1, <2>2 DEF Entered
    <2>. QED BY <2>1, <2>2 DEF StageMatchesLog, Chain
  <1>. QED BY <1>1, SeqHolds, PTL

(***************************************************************************)
(* While requests come one at a time and no statement fails, a catalog     *)
(* whose status is `valid' was validated against the versions that are     *)
(* pinned now: whatever changes a pin takes the status back.               *)
(***************************************************************************)
THEOREM PinsValidated == Spec => []ValidForPins
  <1>1. SeqInv => ValidForPins
    <2>. SUFFICES ASSUME SeqInv, Settled({"overlap", "db"}), NEW k \in Catalogs, Valid(k)
                  PROVE  catalogs[k].checked = PinnedVersions(catalogs[k].cv)
      BY DEF ValidForPins, Valid
    <2>1. ValidFine(Idle)
      BY AtRest DEF SeqInv, Running, Settled
    <2>. QED BY <2>1 DEF ValidFine, Owes, Idle
  <1>. QED BY <1>1, SeqHolds, PTL

(***************************************************************************)
(* While requests come one at a time, no step fails and the names of the   *)
(* resources are usable, the cluster shows exactly the promoted catalog    *)
(* versions, each at its stage, and no other.  Not if a pinned type was    *)
(* deleted or never existed: a promotion then stops before the resource.   *)
(***************************************************************************)
THEOREM ClusterAgrees == Spec => []ClusterShowsStage
  <1>1. SeqInv => ClusterShowsStage
    <2>. SUFFICES ASSUME SeqInv, Settled(ShowFlaws)
                  PROVE  /\ \A c \in Live :
                              LET n == CRName[cv[c].label]
                              IN IF cv[c].stage = "development" THEN n = None \/ crs[n] = None
                                   ELSE crs[n] = [source |-> c, stage |-> cv[c].stage]
                         /\ \A n \in CRNames : crs[n] # None => crs[n].source \in Live
      BY DEF ClusterShowsStage, ShowFlaws
    <2>1. ShowFine(Idle)
      BY AtRest DEF SeqInv, Running, Settled
    <2>2. \A c \in Live : Shown(c, cv[c].stage)
      BY <2>1 DEF ShowFine, ShownFine, InCR, Moving, Idle
    <2>3. \A n \in CRNames : crs[n] # None => crs[n].source \in Live
      BY <2>1 DEF ShowFine, SourcesFine, Dropping, Idle
    <2>. QED BY <2>2, <2>3 DEF Shown, NameOf
  <1>. QED BY <1>1, SeqHolds, PTL

-----------------------------------------------------------------------------
(***************************************************************************)
(* What a statement writes.  It sets the content of the version that its   *)
(* request is making, and of no other.                                     *)
(***************************************************************************)
LEMMA ContentSet ==
  ASSUME SchemaInv, NEW r, r.type \in Types, NEW c \in Finite, SetContent(r, c)
  PROVE  /\ \A t \in Types : Latest(t)' = Latest(t)
         /\ Has(r.type, r.made) => versions'[r.type][r.made] = c
         /\ \A t \in Types : \A v \in 1..Latest(t) :
               t # r.type \/ v # r.made => versions'[t][v] = versions[t][v]
  <1>1. CASE ~Has(r.type, r.made)
    <2>1. versions' = versions
      BY <1>1 DEF SetContent
    <2>. QED BY <1>1, <2>1 DEF Latest
  <1>2. CASE Has(r.type, r.made)
    <2>. DEFINE w == [versions[r.type] EXCEPT ![r.made] = c]
    <2>1. versions \in [Types -> Seq(Finite)] /\ versions[r.type] \in Seq(Finite)
      BY DEF SchemaInv, Tables
    <2>2. r.made \in 1..Len(versions[r.type])
      BY <1>2 DEF Has, Latest
    <2>3. /\ Len(w) = Len(versions[r.type])
          /\ \A j \in 1..Len(versions[r.type]) :
                w[j] = IF j = r.made THEN c ELSE versions[r.type][j]
      BY <2>1, <2>2, ReplaceInSeq
    <2>4. versions' = [versions EXCEPT ![r.type] = w]
      BY <1>2 DEF SetContent
    <2>. HIDE DEF w
    <2>5. versions'[r.type] = w /\ \A t \in Types \ {r.type} : versions'[t] = versions[t]
      BY <2>1, <2>4
    <2>6. \A t \in Types : Latest(t)' = Latest(t)
      BY <2>3, <2>5 DEF Latest
    <2>7. versions'[r.type][r.made] = c
      BY <2>2, <2>3, <2>5
    <2>8. ASSUME NEW t \in Types, NEW v \in 1..Latest(t), t # r.type \/ v # r.made
          PROVE  versions'[t][v] = versions[t][v]
      <3>1. CASE t = r.type
        BY <2>3, <2>5, <2>8, <3>1 DEF Latest
      <3>2. CASE t # r.type
        BY <2>5, <3>2
      <3>. QED BY <3>1, <3>2
    <2>. QED BY <2>6, <2>7, <2>8
  <1>. QED BY <1>1, <1>2

(***************************************************************************)
(* The content each statement gives to the version.                        *)
(***************************************************************************)
Writing(r, c) == r.type \in Types /\ c \in Finite /\ SetContent(r, c)

LEMMA AttrsSet ==
  ASSUME SchemaInv, NEW r, r.type \in Types, NEW A \in SUBSET Attr, IsFiniteSet(A),
         SetContent(r, [Made(r) EXCEPT !.attrs = A])
  PROVE  \E c : Writing(r, c) /\ c.attrs = A /\ c.assocs = Made(r).assocs
  <1>1. PICK c : c = [Made(r) EXCEPT !.attrs = A]
    OBVIOUS
  <1>2. c \in Finite /\ c.attrs = A /\ c.assocs = Made(r).assocs
    BY <1>1, MadeFinite, WithAttrs DEF SchemaInv
  <1>. QED BY <1>1, <1>2 DEF Writing

LEMMA AssocsSet ==
  ASSUME SchemaInv, NEW r, r.type \in Types, NEW A \in SUBSET Assoc,
         SetContent(r, [Made(r) EXCEPT !.assocs = A])
  PROVE  \E c : Writing(r, c) /\ c.assocs = A /\ c.attrs = Made(r).attrs
  <1>1. PICK c : c = [Made(r) EXCEPT !.assocs = A]
    OBVIOUS
  <1>2. c \in Finite /\ c.assocs = A /\ c.attrs = Made(r).attrs
    BY <1>1, MadeFinite, WithAssocs DEF SchemaInv, Finite, Content
  <1>. QED BY <1>1, <1>2 DEF Writing

LEMMA CopyWrites ==
  ASSUME SchemaInv, NEW q \in Reqs, NEW r, r = req[q]
  PROVE  /\ CopyAttrs(q) => \E c : /\ Writing(r, c)
                                   /\ c.attrs = Source(r).attrs /\ c.assocs = Made(r).assocs
         /\ CopyAssocs(q) => \E c : /\ Writing(r, c)
                                    /\ c.assocs = Source(r).assocs /\ c.attrs = Made(r).attrs
  <1>1. ASSUME CopyAttrs(q) \/ CopyAssocs(q)
        PROVE  /\ r.type \in Types /\ Source(r) \in Finite
               /\ Source(r).attrs \in SUBSET Attr /\ IsFiniteSet(Source(r).attrs)
               /\ Source(r).assocs \in SUBSET Assoc
    <2>1. r.type \in Types /\ r.from \in Types
      BY <1>1, EditingTyped DEF CopyAttrs, CopyAssocs, Fits
    <2>2. Source(r) \in Finite
      BY <2>1, SourceFinite DEF SchemaInv
    <2>. QED BY <2>1, <2>2, FiniteParts
  <1>2. ASSUME CopyAttrs(q)
        PROVE  \E c : Writing(r, c) /\ c.attrs = Source(r).attrs /\ c.assocs = Made(r).assocs
    <2>1. SetContent(r, [Made(r) EXCEPT !.attrs = Source(r).attrs])
      BY <1>2 DEF CopyAttrs
    <2>. QED BY <1>1, <1>2, <2>1, AttrsSet
  <1>3. ASSUME CopyAssocs(q)
        PROVE  \E c : Writing(r, c) /\ c.assocs = Source(r).assocs /\ c.attrs = Made(r).attrs
    <2>1. SetContent(r, [Made(r) EXCEPT !.assocs = Source(r).assocs])
      BY <1>3 DEF CopyAssocs
    <2>. QED BY <1>1, <1>3, <2>1, AssocsSet
  <1>. QED BY <1>2, <1>3

LEMMA MadeParts ==
  ASSUME SchemaInv, NEW r, r.type \in Types
  PROVE  /\ Made(r) \in Finite
         /\ Made(r).attrs \subseteq Attr /\ IsFiniteSet(Made(r).attrs)
         /\ Made(r).assocs \subseteq Assoc
  BY MadeFinite, FiniteParts DEF SchemaInv

LEMMA InsertAttrWrites ==
  ASSUME SchemaInv, NEW q \in Reqs, NEW r, r = req[q], InsertAttr(q)
  PROVE  /\ r.adds \in Seq(Attr) /\ r.adds # << >>
         /\ \/ Finish(q) /\ versions' = versions
            \/ /\ Has(r.type, r.made) /\ Head(r.adds).name \notin AttrNames(r.type, r.made)
               /\ req' = [req EXCEPT ![q] = IF Len(r.adds) = 1 THEN Idle
                                             ELSE [r EXCEPT !.adds = Tail(r.adds)]]
               /\ \E c : /\ Writing(r, c) /\ c.assocs = Made(r).assocs
                         /\ c.attrs = Made(r).attrs \cup {Head(r.adds)}
  <1>1. r \in Request /\ r.type \in Types /\ r.adds # << >>
    BY EditingTyped DEF InsertAttr
  <1>2. r.adds \in Seq(Attr)
    BY <1>1 DEF Request
  <1>3. CASE Has(r.type, r.made) /\ Head(r.adds).name \notin AttrNames(r.type, r.made)
    <2>1. SetContent(r, [Made(r) EXCEPT !.attrs = Made(r).attrs \cup {Head(r.adds)}])
      BY <1>3 DEF InsertAttr
    <2>2. Head(r.adds) \in Attr
      BY <1>1, <1>2
    <2>3. PICK A : A = Made(r).attrs \cup {Head(r.adds)}
      OBVIOUS
    <2>4. A \in SUBSET Attr /\ IsFiniteSet(A)
      BY <1>1, <2>2, <2>3, MadeParts, FS_AddElement
    <2>5. \E c : Writing(r, c) /\ c.attrs = A /\ c.assocs = Made(r).assocs
      <3>1. SetContent(r, [Made(r) EXCEPT !.attrs = A])
        BY <2>1, <2>3
      <3>. QED BY <1>1, <2>4, <3>1, AttrsSet
    <2>6. req' = [req EXCEPT ![q] = IF Len(r.adds) = 1 THEN Idle
                                      ELSE [r EXCEPT !.adds = Tail(r.adds)]]
      BY <1>3 DEF InsertAttr
    <2>. QED BY <1>1, <1>2, <1>3, <2>3, <2>5, <2>6
  <1>4. CASE ~(Has(r.type, r.made) /\ Head(r.adds).name \notin AttrNames(r.type, r.made))
    <2>1. Finish(q) /\ versions' = versions
      BY <1>4 DEF InsertAttr
    <2>. QED BY <1>1, <1>2, <2>1
  <1>. QED BY <1>3, <1>4

LEMMA DropWrites ==
  ASSUME SchemaInv, NEW q \in Reqs, NEW r, r = req[q]
  PROVE  /\ DropAttr(q) => \E c : /\ Writing(r, c) /\ c.assocs = Made(r).assocs
                                  /\ c.attrs = {a \in Made(r).attrs : a.name # r.name}
         /\ DropAssoc(q) => \E c : /\ Writing(r, c) /\ c.attrs = Made(r).attrs
                                   /\ c.assocs = {a \in Made(r).assocs : a.name # r.name}
  <1>1. ASSUME DropAttr(q)
        PROVE  \E c : /\ Writing(r, c) /\ c.assocs = Made(r).assocs
                      /\ c.attrs = {a \in Made(r).attrs : a.name # r.name}
    <2>1. r.type \in Types
      BY <1>1, EditingTyped DEF DropAttr, Changing
    <2>2. PICK A : A = {a \in Made(r).attrs : a.name # r.name}
      OBVIOUS
    <2>3. A \in SUBSET Attr /\ IsFiniteSet(A)
      BY <2>1, <2>2, MadeParts, FS_Subset
    <2>4. SetContent(r, [Made(r) EXCEPT !.attrs = A])
      BY <1>1, <2>2 DEF DropAttr
    <2>5. \E c : Writing(r, c) /\ c.attrs = A /\ c.assocs = Made(r).assocs
      BY <2>1, <2>3, <2>4, AttrsSet
    <2>. QED BY <2>2, <2>5
  <1>2. ASSUME DropAssoc(q)
        PROVE  \E c : /\ Writing(r, c) /\ c.attrs = Made(r).attrs
                      /\ c.assocs = {a \in Made(r).assocs : a.name # r.name}
    <2>1. r.type \in Types
      BY <1>2, EditingTyped DEF DropAssoc, Changing
    <2>2. PICK A : A = {a \in Made(r).assocs : a.name # r.name}
      OBVIOUS
    <2>3. A \in SUBSET Assoc
      BY <2>1, <2>2, MadeParts
    <2>4. SetContent(r, [Made(r) EXCEPT !.assocs = A])
      BY <1>2, <2>2 DEF DropAssoc
    <2>5. \E c : Writing(r, c) /\ c.assocs = A /\ c.attrs = Made(r).attrs
      BY <2>1, <2>3, <2>4, AssocsSet
    <2>. QED BY <2>2, <2>5
  <1>. QED BY <1>1, <1>2

Clash(r, S) == \E a \in S : a.name = r.to /\ r.to # r.name

ChangedAttrs(r) ==
    IF Clash(r, Made(r).attrs) THEN Made(r).attrs
      ELSE {IF a.name = r.name THEN EditedAttr(r, a) ELSE a : a \in Made(r).attrs}

ChangedAssocs(r) ==
    IF Clash(r, Made(r).assocs) THEN Made(r).assocs
      ELSE {IF a.name = r.name THEN EditedAssoc(r, a) ELSE a : a \in Made(r).assocs}

LEMMA SetWrites ==
  ASSUME SchemaInv, NEW q \in Reqs, NEW r, r = req[q]
  PROVE  /\ SetAttr(q) => \E c : /\ Writing(r, c) /\ c.assocs = Made(r).assocs
              /\ c.attrs = ChangedAttrs(r)
         /\ SetAssoc(q) => \E c : /\ Writing(r, c) /\ c.attrs = Made(r).attrs
              /\ c.assocs = ChangedAssocs(r)
         /\ InsertAssoc(q) => \E c : /\ Writing(r, c) /\ c.attrs = Made(r).attrs
              /\ c.assocs = IF \E a \in Made(r).assocs : a.name = r.assoc.name
                              THEN Made(r).assocs ELSE Made(r).assocs \cup {r.assoc}
  <1>1. ASSUME SetAttr(q)
        PROVE  \E c : /\ Writing(r, c) /\ c.assocs = Made(r).assocs
              /\ c.attrs = ChangedAttrs(r)
    <2>1. r.type \in Types /\ r \in Request
      BY <1>1, EditingTyped DEF SetAttr, Changing
    <2>. DEFINE changed(a) == IF a.name = r.name THEN EditedAttr(r, a) ELSE a
    <2>2. PICK A : A = IF Clash(r, Made(r).attrs) THEN Made(r).attrs
                         ELSE {changed(a) : a \in Made(r).attrs}
      OBVIOUS
    <2>3. A \in SUBSET Attr /\ IsFiniteSet(A)
      <3>1. Made(r).attrs \subseteq Attr /\ IsFiniteSet(Made(r).attrs)
        BY <2>1, MadeParts
      <3>2. {changed(a) : a \in Made(r).attrs} \subseteq Attr
        BY <2>1, <3>1, EditedAttrTyped
      <3>3. IsFiniteSet({changed(a) : a \in Made(r).attrs})
        <4>. HIDE DEF changed
        <4>1. PICK f : f = [a \in Made(r).attrs |-> changed(a)]
          OBVIOUS
        <4>2. IsFiniteSet({f[a] : a \in Made(r).attrs})
          BY <3>1, <4>1, ImageFinite
        <4>3. {f[a] : a \in Made(r).attrs} = {changed(a) : a \in Made(r).attrs}
          BY <4>1
        <4>. QED BY <4>2, <4>3
      <3>. QED BY <2>2, <3>1, <3>2, <3>3
    <2>4. SetContent(r, [Made(r) EXCEPT !.attrs = A])
      BY <1>1, <2>2 DEF SetAttr, Clash
    <2>5. \E c : Writing(r, c) /\ c.attrs = A /\ c.assocs = Made(r).assocs
      BY <2>1, <2>3, <2>4, AttrsSet
    <2>. QED BY <2>2, <2>5 DEF ChangedAttrs
  <1>2. ASSUME SetAssoc(q)
        PROVE  \E c : /\ Writing(r, c) /\ c.attrs = Made(r).attrs
              /\ c.assocs = ChangedAssocs(r)
    <2>1. r.type \in Types /\ r \in Request
      BY <1>2, EditingTyped DEF SetAssoc, Changing
    <2>2. PICK A : A = IF Clash(r, Made(r).assocs) THEN Made(r).assocs
                   ELSE {IF a.name = r.name THEN EditedAssoc(r, a) ELSE a : a \in Made(r).assocs}
      OBVIOUS
    <2>3. A \in SUBSET Assoc
      BY <2>1, <2>2, MadeParts, EditedAssocTyped
    <2>4. SetContent(r, [Made(r) EXCEPT !.assocs = A])
      BY <1>2, <2>2 DEF SetAssoc, Clash
    <2>5. \E c : Writing(r, c) /\ c.assocs = A /\ c.attrs = Made(r).attrs
      BY <2>1, <2>3, <2>4, AssocsSet
    <2>. QED BY <2>2, <2>5 DEF ChangedAssocs
  <1>3. ASSUME InsertAssoc(q)
        PROVE  \E c : /\ Writing(r, c) /\ c.attrs = Made(r).attrs
              /\ c.assocs = IF \E a \in Made(r).assocs : a.name = r.assoc.name
                              THEN Made(r).assocs ELSE Made(r).assocs \cup {r.assoc}
    <2>1. r.type \in Types /\ r.assoc \in Assoc
      <3>1. At(q, "change") /\ r.op = "createAssociation"
        BY <1>3 DEF InsertAssoc, Changing
      <3>. QED BY <3>1, EditingTyped DEF Fits
    <2>2. PICK A : A = IF \E a \in Made(r).assocs : a.name = r.assoc.name
                         THEN Made(r).assocs ELSE Made(r).assocs \cup {r.assoc}
      OBVIOUS
    <2>3. A \in SUBSET Assoc
      BY <2>1, <2>2, MadeParts
    <2>4. SetContent(r, [Made(r) EXCEPT !.assocs = A])
      BY <1>3, <2>2 DEF InsertAssoc
    <2>5. \E c : Writing(r, c) /\ c.assocs = A /\ c.attrs = Made(r).attrs
      BY <2>1, <2>3, <2>4, AssocsSet
    <2>. QED BY <2>2, <2>5
  <1>. QED BY <1>1, <1>2, <1>3

(***************************************************************************)
(* Reordering changes the ordinals and nothing else.                       *)
(***************************************************************************)
Renumbered(a, b) == b = [a EXCEPT !.ord = b.ord]

LEMMA RenumberWrites ==
  ASSUME SchemaInv, NEW q \in Reqs, NEW r, r = req[q], Renumber(q)
  PROVE  \E c, f : /\ Writing(r, c) /\ c.assocs = Made(r).assocs
                   /\ c.attrs = {f[a] : a \in Made(r).attrs}
                   /\ \A a \in Made(r).attrs : Renumbered(a, f[a])
  <1>1. r \in Request /\ r.type \in Types /\ At(q, "reorder")
    BY EditingTyped DEF Renumber
  <1>2. PICK old : old = Made(r).attrs
    OBVIOUS
  <1>3. old \subseteq Attr /\ IsFiniteSet(old)
    BY <1>1, <1>2, MadeParts
  <1>. DEFINE place(a) == {i \in DOMAIN r.order : r.order[i] = a.name}
              ordinal(a) == IF place(a) = {} THEN a.ord ELSE (CHOOSE i \in place(a) : TRUE) - 1
              moved(a) == [a EXCEPT !.ord = ordinal(a)]
  <1>4. PICK A : A = {moved(a) : a \in old}
    OBVIOUS
  <1>5. ASSUME NEW a \in old
        PROVE  moved(a) \in Attr /\ Renumbered(a, moved(a))
    <2>1. a \in Attr
      BY <1>3
    <2>2. PICK n : n = ordinal(a)
      OBVIOUS
    <2>3. n \in Nat
      <3>1. r.order \in Seq(Fields)
        BY <1>1 DEF Request
      <3>2. CASE place(a) = {}
        BY <2>1, <2>2, <3>2 DEF Attr
      <3>3. CASE place(a) # {}
        <4>1. (CHOOSE i \in place(a) : TRUE) \in place(a)
          BY <3>3
        <4>2. (CHOOSE i \in place(a) : TRUE) \in 1..Len(r.order)
          BY <3>1, <4>1
        <4>. HIDE DEF place
        <4>. QED BY <2>2, <3>1, <3>3, <4>2
      <3>. QED BY <3>2, <3>3
    <2>. HIDE DEF ordinal
    <2>. QED BY <2>1, <2>2, <2>3 DEF Attr, Renumbered
  <1>6. A \in SUBSET Attr /\ IsFiniteSet(A)
    <2>. HIDE DEF moved
    <2>1. PICK f : f = [a \in old |-> moved(a)]
      OBVIOUS
    <2>2. IsFiniteSet({f[a] : a \in old})
      BY <1>3, <2>1, ImageFinite
    <2>3. {f[a] : a \in old} = A
      BY <1>4, <2>1
    <2>. QED BY <1>4, <1>5, <2>2, <2>3
  <1>7. SetContent(r, [Made(r) EXCEPT !.attrs = A])
    BY <1>2, <1>4 DEF Renumber
  <1>8. \E c : Writing(r, c) /\ c.attrs = A /\ c.assocs = Made(r).assocs
    BY <1>1, <1>6, <1>7, AttrsSet
  <1>9. \E f : A = {f[a] : a \in old} /\ \A a \in old : Renumbered(a, f[a])
    <2>. HIDE DEF moved
    <2>1. PICK f : f = [a \in old |-> moved(a)]
      OBVIOUS
    <2>2. A = {f[a] : a \in old}
      BY <1>4, <2>1
    <2>3. \A a \in old : Renumbered(a, f[a])
      BY <1>5, <2>1
    <2>. QED BY <2>2, <2>3
  <1>. QED BY <1>2, <1>8, <1>9

-----------------------------------------------------------------------------
(***************************************************************************)
(* Where the type definition versions of the attributes come from: other   *)
(* attributes, and what the request at work was asked to write.            *)
(***************************************************************************)
Drawn(r, d) ==
    \/ InUse(d)
    \/ /\ r.op \in SchemaOps
       /\ \/ r.tdv # None /\ d = r.tdv
          \/ r.adds \in Seq(Attr) /\ r.adds # << >> /\ d = Head(r.adds).tdv

LEMMA MadeDraws ==
  ASSUME SchemaInv, NEW r, r.type \in Types
  PROVE  \A a \in Made(r).attrs : InUse(a.tdv)
  BY DEF Made, Has, Empty, InUse

LEMMA SourceDraws ==
  ASSUME SchemaInv, NEW r, r.from \in Types
  PROVE  \A a \in Source(r).attrs : InUse(a.tdv)
  BY DEF Source, Has, Empty, InUse

LEMMA WritingDraws ==
  ASSUME SchemaInv, NEW r, NEW c, Writing(r, c), \A b \in c.attrs : Drawn(r, b.tdv),
         NEW t \in Types, NEW v \in 1..Latest(t)', NEW a \in versions'[t][v].attrs
  PROVE  Drawn(r, a.tdv)
  <1>1. /\ v \in 1..Latest(t)
        /\ Has(r.type, r.made) => versions'[r.type][r.made] = c
        /\ t # r.type \/ v # r.made => versions'[t][v] = versions[t][v]
    BY ContentSet DEF Writing
  <1>2. CASE t = r.type /\ v = r.made
    BY <1>1, <1>2 DEF Has
  <1>3. CASE t # r.type \/ v # r.made
    BY <1>1, <1>3 DEF Drawn, InUse
  <1>. QED BY <1>2, <1>3

LEMMA SameDraws ==
  ASSUME SchemaInv, NEW r, versions' = versions,
         NEW t \in Types, NEW v \in 1..Latest(t)', NEW a \in versions'[t][v].attrs
  PROVE  Drawn(r, a.tdv)
  BY DEF Latest, Drawn, InUse

LEMMA CreateVersionDraws ==
  ASSUME SchemaInv, NEW q \in Reqs, NEW r, CreateVersion(q),
         NEW t \in Types, NEW v \in 1..Latest(t)', NEW a \in versions'[t][v].attrs
  PROVE  Drawn(r, a.tdv)
  <1>1. CASE versions' = versions
    BY <1>1, SameDraws
  <1>2. CASE versions' # versions
    <2>1. PICK u \in Types : versions' = [versions EXCEPT ![u] = Append(versions[u], Empty)]
      BY <1>2, EditingTyped DEF CreateVersion
    <2>2. versions \in [Types -> Seq(Finite)] /\ versions[u] \in Seq(Finite)
      BY DEF SchemaInv, Tables
    <2>3. CASE t = u
      <3>1. versions'[t] = Append(versions[u], Empty)
        BY <2>1, <2>2, <2>3
      <3>2. CASE v \in 1..Len(versions[u])
        <4>1. versions'[t][v] = versions[u][v]
          BY <2>2, <3>1, <3>2
        <4>. QED BY <3>2, <4>1 DEF Drawn, InUse, Latest
      <3>3. CASE v \notin 1..Len(versions[u])
        <4>1. v = Len(versions[u]) + 1
          BY <2>2, <3>1, <3>3 DEF Latest
        <4>2. versions'[t][v] = Empty
          BY <2>2, <3>1, <4>1
        <4>. QED BY <4>2 DEF Empty
      <3>. QED BY <3>2, <3>3
    <2>4. CASE t # u
      <3>1. versions'[t] = versions[t]
        BY <2>1, <2>2, <2>4
      <3>. QED BY <3>1 DEF Drawn, InUse, Latest
    <2>. QED BY <2>3, <2>4
  <1>. QED BY <1>1, <1>2

LEMMA DeleteTypeDraws ==
  ASSUME SchemaInv, NEW q \in Reqs, NEW r, DeleteEntityType(q),
         NEW t \in Types, NEW v \in 1..Latest(t)', NEW a \in versions'[t][v].attrs
  PROVE  Drawn(r, a.tdv)
  <1>1. PICK u \in Named : versions' = [versions EXCEPT ![u] = << >>]
    BY DEF DeleteEntityType
  <1>2. \A x \in Types : versions'[x] = IF x = u THEN << >> ELSE versions[x]
    BY <1>1 DEF SchemaInv, Tables, Named
  <1>3. CASE t = u
    BY <1>2, <1>3 DEF Latest
  <1>4. CASE t # u
    BY <1>2, <1>4 DEF Drawn, InUse, Latest
  <1>. QED BY <1>3, <1>4

LEMMA WritesDraw ==
  ASSUME SchemaInv, NEW q \in Reqs, NEW r, r = req[q],
         \/ CopyAttrs(q) \/ CopyAssocs(q) \/ InsertAttr(q) \/ DropAttr(q) \/ SetAttr(q)
         \/ InsertAssoc(q) \/ SetAssoc(q) \/ DropAssoc(q) \/ Renumber(q)
  PROVE  versions' = versions \/ \E c : Writing(r, c) /\ \A b \in c.attrs : Drawn(r, b.tdv)
  <1>1. r.type \in Types /\ r.op \in SchemaOps /\ Fits(r) /\ r \in Request
    BY EditingTyped DEF CopyAttrs, CopyAssocs, InsertAttr, DropAttr, SetAttr, InsertAssoc, SetAssoc,
       DropAssoc, Renumber, Changing
  <1>2. \A a \in Made(r).attrs : Drawn(r, a.tdv)
    BY <1>1, MadeDraws DEF Drawn
  <1>3. CASE CopyAttrs(q)
    <2>1. r.from \in Types
      BY <1>1, <1>3 DEF CopyAttrs, At, Fits
    <2>2. \A a \in Source(r).attrs : Drawn(r, a.tdv)
      BY <2>1, SourceDraws DEF Drawn
    <2>3. \E c : Writing(r, c) /\ c.attrs = Source(r).attrs /\ c.assocs = Made(r).assocs
      BY <1>3, CopyWrites
    <2>. QED BY <2>2, <2>3
  <1>4. CASE CopyAssocs(q)
    <2>1. \E c : Writing(r, c) /\ c.assocs = Source(r).assocs /\ c.attrs = Made(r).attrs
      BY <1>4, CopyWrites
    <2>. QED BY <1>2, <2>1
  <1>5. CASE InsertAttr(q)
    <2>1. r.adds \in Seq(Attr) /\ r.adds # << >>
      BY <1>5, InsertAttrWrites
    <2>2. \/ versions' = versions
          \/ \E c : /\ Writing(r, c) /\ c.assocs = Made(r).assocs
                    /\ c.attrs = Made(r).attrs \cup {Head(r.adds)}
      BY <1>5, InsertAttrWrites
    <2>3. Drawn(r, Head(r.adds).tdv)
      BY <1>1, <2>1 DEF Drawn
    <2>. QED BY <1>2, <2>2, <2>3
  <1>6. CASE DropAttr(q)
    <2>1. \E c : /\ Writing(r, c) /\ c.assocs = Made(r).assocs
                 /\ c.attrs = {a \in Made(r).attrs : a.name # r.name}
      BY <1>6, DropWrites
    <2>. QED BY <1>2, <2>1
  <1>7. CASE DropAssoc(q)
    <2>1. \E c : /\ Writing(r, c) /\ c.attrs = Made(r).attrs
                 /\ c.assocs = {a \in Made(r).assocs : a.name # r.name}
      BY <1>7, DropWrites
    <2>. QED BY <1>2, <2>1
  <1>8. CASE SetAttr(q)
    <2>1. PICK c : /\ Writing(r, c) /\ c.assocs = Made(r).assocs
              /\ c.attrs = ChangedAttrs(r)
      BY <1>8, SetWrites
    <2>2. ASSUME NEW a \in Made(r).attrs
          PROVE  Drawn(r, EditedAttr(r, a).tdv)
      <3>1. a \in Attr
        BY <1>1, MadeParts
      <3>2. EditedAttr(r, a).tdv = IF r.tdv = None THEN a.tdv ELSE r.tdv
        BY <3>1 DEF EditedAttr, Attr
      <3>. QED BY <1>1, <1>2, <3>2 DEF Drawn
    <2>3. \A b \in ChangedAttrs(r) : Drawn(r, b.tdv)
      BY <1>2, <2>2 DEF ChangedAttrs
    <2>. QED BY <2>1, <2>3
  <1>9. CASE SetAssoc(q)
    <2>1. \E c : /\ Writing(r, c) /\ c.attrs = Made(r).attrs
              /\ c.assocs = ChangedAssocs(r)
      BY <1>9, SetWrites
    <2>. QED BY <1>2, <2>1
  <1>10. CASE InsertAssoc(q)
    <2>1. \E c : /\ Writing(r, c) /\ c.attrs = Made(r).attrs
              /\ c.assocs = IF \E a \in Made(r).assocs : a.name = r.assoc.name
                              THEN Made(r).assocs ELSE Made(r).assocs \cup {r.assoc}
      BY <1>10, SetWrites
    <2>. QED BY <1>2, <2>1
  <1>11. CASE Renumber(q)
    <2>1. PICK c, f : /\ Writing(r, c) /\ c.attrs = {f[a] : a \in Made(r).attrs}
                      /\ \A a \in Made(r).attrs : Renumbered(a, f[a])
      BY <1>11, RenumberWrites
    <2>2. ASSUME NEW b \in c.attrs PROVE Drawn(r, b.tdv)
      <3>1. PICK a \in Made(r).attrs : Renumbered(a, b)
        BY <2>1
      <3>2. a \in Attr
        BY <1>1, MadeParts
      <3>3. b.tdv = a.tdv
        BY <3>1, <3>2 DEF Renumbered, Attr
      <3>. QED BY <1>2, <3>3
    <2>. QED BY <2>1, <2>2
  <1>. QED BY <1>3, <1>4, <1>5, <1>6, <1>7, <1>8, <1>9, <1>10, <1>11

LEMMA TdvsDrawn ==
  ASSUME SchemaInv, NEW q \in Reqs, NEW r, r = req[q], TypesMove(q),
         NEW t \in Types, NEW v \in 1..Latest(t)', NEW a \in versions'[t][v].attrs
  PROVE  Drawn(r, a.tdv)
  <1>1. CASE versions' = versions
    BY <1>1, SameDraws
  <1>2. CASE CreateVersion(q)
    BY <1>2, CreateVersionDraws
  <1>3. CASE DeleteEntityType(q)
    BY <1>3, DeleteTypeDraws
  <1>4. CASE \/ CopyAttrs(q) \/ CopyAssocs(q) \/ InsertAttr(q) \/ DropAttr(q) \/ SetAttr(q)
             \/ InsertAssoc(q) \/ SetAssoc(q) \/ DropAssoc(q) \/ Renumber(q)
    BY <1>1, <1>4, WritesDraw, WritingDraws
  <1>5. CASE \/ InsertType(q) \/ ReadType(q) \/ SaveType(q) \/ InsertDef(q) \/ InsertDefVersion(q)
             \/ DropDef(q) \/ Fail(q)
    BY <1>1, <1>5 DEF InsertType, ReadType, SaveType, InsertDef, InsertDefVersion, DropDef, Fail, schema
  <1>6. CASE \/ UpdateEntityType(q) \/ AddAttribute(q) \/ RemoveAttribute(q) \/ EditAttribute(q)
             \/ CopyAttributesFromType(q) \/ CreateAssociation(q) \/ EditAssociation(q)
             \/ DeleteAssociation(q)
    BY <1>1, <1>6, EditsBegin DEF EditBegun, StartEdit, schema
  <1>7. CASE \/ ReorderAttributes(q) \/ CreateEntityType(q) \/ CopyEntityType(q)
             \/ RenameEntityType(q) \/ CreateTypeDefinition(q) \/ UpdateTypeDefinition(q)
             \/ DeleteTypeDefinition(q)
    BY <1>1, <1>7 DEF ReorderAttributes, CreateEntityType, CopyEntityType, RenameEntityType,
       CreateTypeDefinition, UpdateTypeDefinition, DeleteTypeDefinition, schema
  <1>. QED BY <1>2, <1>3, <1>4, <1>5, <1>6, <1>7 DEF TypesMove

-----------------------------------------------------------------------------
(***************************************************************************)
(* While requests come one at a time: the type definition versions that    *)
(* attributes refer to exist, but for the empty ids that an edit has given; *)
(* the request at work refers to existing ones,                            *)
(* deletes a definition that no attribute uses, and renames a type that is *)
(* pinned by versions in development only, or that keeps its name.         *)
(***************************************************************************)
Given(d) == d \in DefVersions \/ (d = Untyped /\ "untyped" \in trouble)

TdvTables ==
    \A t \in Types : \A v \in 1..Latest(t) : \A a \in versions[t][v].attrs : Given(a.tdv)

TdvFine(r) ==
    r.op \in SchemaOps =>
       /\ r.tdv = None \/ Given(r.tdv)
       /\ \A i \in 1..Len(r.adds) : Given(r.adds[i].tdv)
       /\ r.pc = "dropDef" => ~DefInUse(r.def)

PinnedInDevelopment(t) ==
    \A p \in Pins : pins[p] # None /\ pins[p].type = t /\ Has(t, pins[p].ver)
                      => cv[pins[p].cv].stage = "development"

RenameCurrent(r) ==
    r.op \in SchemaOps /\ r.pc = "saveType" =>
       types[r.type] = r.typeName \/ PinnedInDevelopment(r.type)

LEMMA UsedExist ==
  ASSUME TdvTables, NEW d, InUse(d)
  PROVE  Given(d)
  BY DEF TdvTables, InUse

LEMMA GivenStays ==
  ASSUME NEW d, Given(d), DefVersions \subseteq DefVersions', trouble \subseteq trouble'
  PROVE  Given(d)'
  BY DEF Given

LEMMA DefsGrow ==
  ASSUME SchemaInv, NEW q \in Reqs, TypesMove(q)
  PROVE  DropDef(q) \/ DefVersions \subseteq DefVersions'
  <1>1. CASE InsertDefVersion(q)
    <2>1. PICK d : \/ defVers' = defVers
                   \/ d \in defs /\ defVers' = [defVers EXCEPT ![d] = defVers[d] + 1]
      BY <1>1 DEF InsertDefVersion
    <2>2. defVers \in [Defs -> 0..MaxDefVersions] /\ defs \subseteq Defs
      BY DEF SchemaInv, Tables
    <2>3. \A e \in Defs : defVers[e] \in Nat /\ defVers'[e] \in Nat /\ defVers[e] <= defVers'[e]
      BY <2>1, <2>2, SchemaAssumption
    <2>. QED BY <2>3, SchemaAssumption DEF DefVersions, DefVersion
  <1>2. CASE defVers' = defVers
    BY <1>2 DEF DefVersions
  <1>3. CASE \/ UpdateEntityType(q) \/ AddAttribute(q) \/ RemoveAttribute(q) \/ EditAttribute(q)
             \/ CopyAttributesFromType(q) \/ CreateAssociation(q) \/ EditAssociation(q)
             \/ DeleteAssociation(q)
    BY <1>2, <1>3, EditsBegin DEF EditBegun, StartEdit, definitions
  <1>4. CASE \/ ReorderAttributes(q) \/ CreateEntityType(q) \/ CopyEntityType(q)
             \/ RenameEntityType(q) \/ CreateTypeDefinition(q) \/ UpdateTypeDefinition(q)
             \/ DeleteTypeDefinition(q) \/ DeleteEntityType(q)
    BY <1>2, <1>4 DEF ReorderAttributes, CreateEntityType, CopyEntityType, RenameEntityType,
       CreateTypeDefinition, UpdateTypeDefinition, DeleteTypeDefinition, DeleteEntityType, definitions
  <1>5. CASE \/ CreateVersion(q) \/ CopyAttrs(q) \/ CopyAssocs(q) \/ InsertAttr(q)
             \/ DropAttr(q) \/ SetAttr(q) \/ InsertAssoc(q) \/ SetAssoc(q) \/ DropAssoc(q)
             \/ Renumber(q) \/ InsertType(q) \/ ReadType(q) \/ SaveType(q) \/ InsertDef(q) \/ Fail(q)
    BY <1>2, <1>5 DEF CreateVersion, CopyAttrs, CopyAssocs, InsertAttr, DropAttr, SetAttr,
       InsertAssoc, SetAssoc, DropAssoc, Changing, Renumber, InsertType, ReadType, SaveType,
       InsertDef, Fail, definitions
  <1>. QED BY <1>1, <1>3, <1>4, <1>5 DEF TypesMove

LEMMA TdvTablesMove ==
  ASSUME SchemaInv, TypeInv, TdvTables, NEW q \in Reqs, NEW r, r = req[q], TdvFine(r), TypesMove(q)
  PROVE  TdvTables'
  <1>0. trouble \subseteq trouble'
    BY TypesMoves DEF SchemaMoves, DeleteEntityType, Note
  <1>1. CASE DropDef(q)
    <2>1. /\ versions' = versions /\ defVers' = [defVers EXCEPT ![r.def] = 0] /\ trouble' = trouble
          /\ r.op \in SchemaOps /\ r.pc = "dropDef"
      BY <1>1 DEF DropDef, At, schema
    <2>2. ~DefInUse(r.def)
      BY <2>1 DEF TdvFine
    <2>3. ASSUME NEW t \in Types, NEW v \in 1..Latest(t), NEW a \in versions[t][v].attrs
          PROVE  Given(a.tdv)'
      <3>. SUFFICES ASSUME a.tdv \in DefVersions
                    PROVE  (a.tdv \in DefVersions)'
        BY <2>1, <2>3 DEF TdvTables, Given
      <3>1. a.tdv[1] # r.def
        BY <2>2, <2>3 DEF DefInUse, Uses
      <3>2. a.tdv \in DefVersion /\ a.tdv[2] <= defVers[a.tdv[1]]
        BY DEF DefVersions
      <3>3. a.tdv[1] \in Defs
        BY <3>2 DEF DefVersion
      <3>4. defVers'[a.tdv[1]] = defVers[a.tdv[1]]
        BY <2>1, <3>1, <3>3 DEF SchemaInv, Tables
      <3>. QED BY <3>2, <3>4 DEF DefVersions
    <2>. QED BY <2>1, <2>3 DEF TdvTables, Latest
  <1>2. CASE ~DropDef(q)
    <2>. SUFFICES ASSUME NEW t \in Types, NEW v \in 1..Latest(t)', NEW a \in versions'[t][v].attrs
                  PROVE  Given(a.tdv)'
      BY DEF TdvTables
    <2>1. DefVersions \subseteq DefVersions'
      BY <1>2, DefsGrow
    <2>2. PICK d : d = a.tdv
      OBVIOUS
    <2>3. Drawn(r, d)
      BY <2>2, TdvsDrawn
    <2>4. Given(d)
      <3>1. CASE InUse(d)
        BY <3>1, UsedExist
      <3>2. CASE r.op \in SchemaOps /\ r.tdv # None /\ d = r.tdv
        BY <3>2 DEF TdvFine
      <3>3. CASE r.op \in SchemaOps /\ r.adds \in Seq(Attr) /\ r.adds # << >> /\ d = Head(r.adds).tdv
        <4>1. 1 \in 1..Len(r.adds) /\ Head(r.adds) = r.adds[1]
          BY <3>3
        <4>. QED BY <3>3, <4>1 DEF TdvFine
      <3>. QED BY <2>3, <3>1, <3>2, <3>3 DEF Drawn
    <2>5. Given(d)'
      BY <1>0, <2>1, <2>4, GivenStays
    <2>. QED BY <2>2, <2>5
  <1>. QED BY <1>1, <1>2

-----------------------------------------------------------------------------
(***************************************************************************)
(* The request after a step.                                               *)
(***************************************************************************)
LEMMA IdleFine == TdvFine(Idle)' /\ RenameCurrent(Idle)'
  BY DEF TdvFine, RenameCurrent, Idle, SchemaOps, EditOps

LEMMA FreshFine ==
  ASSUME NEW s, s.tdv = None, s.adds = << >>, s.pc \notin {"dropDef", "saveType"}
  PROVE  TdvFine(s)' /\ RenameCurrent(s)'
  BY DEF TdvFine, RenameCurrent

LEMMA CarriedFine ==
  ASSUME NEW o, TdvFine(o), o.op \in SchemaOps, DefVersions \subseteq DefVersions',
         trouble \subseteq trouble', NEW s,
         s.tdv = o.tdv, s.pc \notin {"dropDef", "saveType"},
         s.adds = o.adds \/ (o.adds \in Seq(Attr) /\ o.adds # << >> /\ s.adds = Tail(o.adds))
  PROVE  TdvFine(s)' /\ RenameCurrent(s)'
  <1>1. RenameCurrent(s)'
    BY DEF RenameCurrent
  <1>2. \A i \in 1..Len(s.adds) : Given(s.adds[i].tdv)
    <2>1. CASE s.adds = o.adds
      BY <2>1 DEF TdvFine
    <2>2. CASE o.adds \in Seq(Attr) /\ o.adds # << >> /\ s.adds = Tail(o.adds)
      <3>1. \A i \in 1..Len(s.adds) : i + 1 \in 1..Len(o.adds) /\ s.adds[i] = o.adds[i + 1]
        BY <2>2
      <3>. QED BY <3>1 DEF TdvFine
    <2>. QED BY <2>1, <2>2
  <1>3. \A i \in 1..Len(s.adds) : Given(s.adds[i].tdv)'
    BY <1>2 DEF Given
  <1>4. s.tdv = None \/ Given(s.tdv)'
    BY DEF TdvFine, Given
  <1>. QED BY <1>1, <1>3, <1>4 DEF TdvFine

LEMMA EditFine ==
  ASSUME TypedInv, TdvTables, NEW q \in Reqs, NEW o, NEW s, Steps(q, o, s), EditBegun(q)
  PROVE  TdvFine(s)' /\ RenameCurrent(s)'
  <1>1. PICK r \in Request, flaws \in SUBSET {"copied", "retyped", "untyped"} :
          /\ StartEdit(q, r, flaws) /\ r.pc = "create"
          /\ r.tdv = None \/ r.tdv \in DefVersions \/ (r.tdv = Untyped /\ "untyped" \in flaws)
          /\ \A i \in 1..Len(r.adds) : r.adds[i].tdv \in DefVersions \/ InUse(r.adds[i].tdv)
    BY DEF EditBegun
  <1>2. PICK n : n = Latest(r.type)
    OBVIOUS
  <1>3. req' = [req EXCEPT ![q] = [r EXCEPT !.from = r.type, !.fromVer = n, !.base = n]]
    BY <1>1, <1>2 DEF StartEdit, Start
  <1>4. s = [r EXCEPT !.from = r.type, !.fromVer = n, !.base = n]
    BY <1>3 DEF Steps, TypedInv, SchemaInv, Requested
  <1>5. s.tdv = r.tdv /\ s.adds = r.adds /\ s.pc = "create"
    BY <1>1, <1>4 DEF Request
  <1>6. UNCHANGED defVers
    BY <1>1 DEF StartEdit, definitions
  <1>7. DefVersions' = DefVersions
    BY <1>6 DEF DefVersions
  <1>8. flaws \cup trouble \subseteq trouble'
    BY <1>1 DEF StartEdit, Start, Note
  <1>9. \A i \in 1..Len(s.adds) : Given(s.adds[i].tdv)
    BY <1>1, <1>5, UsedExist DEF Given
  <1>10. \A i \in 1..Len(s.adds) : Given(s.adds[i].tdv)'
    BY <1>7, <1>8, <1>9 DEF Given
  <1>11. s.tdv = None \/ Given(s.tdv)'
    BY <1>1, <1>5, <1>7, <1>8 DEF Given
  <1>. QED BY <1>5, <1>10, <1>11 DEF TdvFine, RenameCurrent

-----------------------------------------------------------------------------
LEMMA Started ==
  ASSUME TypedInv, NEW q \in Reqs, NEW o, NEW s, Steps(q, o, s), NEW r, NEW flaws, Start(q, r, flaws)
  PROVE  s = r
  BY DEF Steps, Start, TypedInv, SchemaInv, Requested

LEMMA NewRequestIs ==
  NewRequest = [op |-> "describe", pc |-> "create", type |-> None, from |-> None,
                fromVer |-> 0, base |-> 0, made |-> 0, typeName |-> None, name |-> None, to |-> None,
                tdv |-> None, adds |-> << >>, assoc |-> None, kind |-> None,
                single |-> None, order |-> << >>, def |-> None]
  BY DEF NewRequest

LEMMA OrdinaryStart ==
  ASSUME NEW q \in Reqs,
         \/ ReorderAttributes(q) \/ CreateEntityType(q) \/ CopyEntityType(q)
         \/ CreateTypeDefinition(q) \/ UpdateTypeDefinition(q)
  PROVE  \E r, flaws : /\ Start(q, r, flaws) /\ r.tdv = None /\ r.adds = << >>
                       /\ r.pc \notin {"dropDef", "saveType"}
  <1>1. CASE ReorderAttributes(q)
    <2>1. PICK t, n, order : Start(q, [NewRequest EXCEPT !.op = "reorder", !.pc = "reorder",
                                         !.type = t, !.made = n, !.order = order], {"reordered"})
      BY <1>1 DEF ReorderAttributes
    <2>2. PICK r : r = [NewRequest EXCEPT !.op = "reorder", !.pc = "reorder",
                                         !.type = t, !.made = n, !.order = order]
      OBVIOUS
    <2>3. r.tdv = None /\ r.adds = << >> /\ r.pc = "reorder"
      BY <2>2, NewRequestIs
    <2>. QED BY <2>1, <2>2, <2>3
  <1>2. CASE CreateEntityType(q)
    <2>1. PICK n : Start(q, [NewRequest EXCEPT !.op = "createType", !.pc = "insertType",
                                               !.typeName = n], {})
      BY <1>2 DEF CreateEntityType
    <2>2. PICK r : r = [NewRequest EXCEPT !.op = "createType", !.pc = "insertType", !.typeName = n]
      OBVIOUS
    <2>3. r.tdv = None /\ r.adds = << >> /\ r.pc = "insertType"
      BY <2>2, NewRequestIs
    <2>. QED BY <2>1, <2>2, <2>3
  <1>3. CASE CopyEntityType(q)
    <2>1. PICK n, t, v : Start(q, [NewRequest EXCEPT !.op = "copyType", !.pc = "insertType",
                                     !.typeName = n, !.from = t, !.fromVer = v], {})
      BY <1>3 DEF CopyEntityType
    <2>2. PICK r : r = [NewRequest EXCEPT !.op = "copyType", !.pc = "insertType",
                                     !.typeName = n, !.from = t, !.fromVer = v]
      OBVIOUS
    <2>3. r.tdv = None /\ r.adds = << >> /\ r.pc = "insertType"
      BY <2>2, NewRequestIs
    <2>. QED BY <2>1, <2>2, <2>3
  <1>4. CASE CreateTypeDefinition(q)
    <2>1. PICK d : Start(q, [NewRequest EXCEPT !.op = "createDef", !.pc = "insertDef", !.def = d], {})
      BY <1>4 DEF CreateTypeDefinition
    <2>2. PICK r : r = [NewRequest EXCEPT !.op = "createDef", !.pc = "insertDef", !.def = d]
      OBVIOUS
    <2>3. r.tdv = None /\ r.adds = << >> /\ r.pc = "insertDef"
      BY <2>2, NewRequestIs
    <2>. QED BY <2>1, <2>2, <2>3
  <1>5. CASE UpdateTypeDefinition(q)
    <2>1. PICK d, n : Start(q, [NewRequest EXCEPT !.op = "updateDef", !.pc = "insertDefVersion",
                                  !.def = d, !.base = n], {})
      BY <1>5 DEF UpdateTypeDefinition
    <2>2. PICK r : r = [NewRequest EXCEPT !.op = "updateDef", !.pc = "insertDefVersion",
                                  !.def = d, !.base = n]
      OBVIOUS
    <2>3. r.tdv = None /\ r.adds = << >> /\ r.pc = "insertDefVersion"
      BY <2>2, NewRequestIs
    <2>. QED BY <2>1, <2>2, <2>3
  <1>. QED BY <1>1, <1>2, <1>3, <1>4, <1>5

LEMMA DeleteDefFine ==
  ASSUME TypedInv, NEW q \in Reqs, NEW o, NEW s, Steps(q, o, s), DeleteTypeDefinition(q)
  PROVE  TdvFine(s)' /\ RenameCurrent(s)'
  <1>1. PICK d : /\ ~DefInUse(d)
                 /\ Start(q, [NewRequest EXCEPT !.op = "deleteDef", !.pc = "dropDef", !.def = d], {})
                 /\ UNCHANGED schema
    BY DEF DeleteTypeDefinition
  <1>2. PICK r : r = [NewRequest EXCEPT !.op = "deleteDef", !.pc = "dropDef", !.def = d]
    OBVIOUS
  <1>3. s = r
    BY <1>1, <1>2, Started
  <1>4. s.tdv = None /\ s.adds = << >> /\ s.pc = "dropDef" /\ s.def = d
    BY <1>2, <1>3, NewRequestIs
  <1>5. ~DefInUse(d)'
    BY <1>1 DEF schema, DefInUse, Uses, Latest
  <1>. QED BY <1>4, <1>5 DEF TdvFine, RenameCurrent

LEMMA NotCopied ==
  ASSUME TypeInv, NEW t \in Types, ~RequiresDeepCopy(t)
  PROVE  PinnedInDevelopment(t)
  BY DEF RequiresDeepCopy, PinnedIn, PinnedInDevelopment

LEMMA RenameFine ==
  ASSUME TypedInv, NEW q \in Reqs, NEW o, NEW s, Steps(q, o, s), RenameEntityType(q)
  PROVE  TdvFine(s)' /\ RenameCurrent(s)'
  <1>. DEFINE asked(n) == [NewRequest EXCEPT !.op = "rename", !.typeName = n]
  <1>1. PICK t \in Named, n \in TypeNames :
          /\ UNCHANGED <<schema, pinned>>
          /\ \/ Start(q, [asked(n) EXCEPT !.pc = "insertType", !.from = t,
                                           !.fromVer = Latest(t)], {})
             \/ /\ ~RequiresDeepCopy(t)
                /\ Start(q, [asked(n) EXCEPT !.pc = "saveType", !.type = t], {})
    BY DEF RenameEntityType
  <1>2. CASE Start(q, [asked(n) EXCEPT !.pc = "insertType", !.from = t, !.fromVer = Latest(t)], {})
    <2>1. PICK r : r = [asked(n) EXCEPT !.pc = "insertType", !.from = t, !.fromVer = Latest(t)]
      OBVIOUS
    <2>2. r.tdv = None /\ r.adds = << >> /\ r.pc = "insertType"
      BY <2>1, NewRequestIs
    <2>3. s = r
      BY <1>2, <2>1, Started
    <2>. QED BY <2>2, <2>3, FreshFine
  <1>3. CASE /\ ~RequiresDeepCopy(t)
             /\ Start(q, [asked(n) EXCEPT !.pc = "saveType", !.type = t], {})
    <2>1. PICK r : r = [asked(n) EXCEPT !.pc = "saveType", !.type = t]
      OBVIOUS
    <2>2. r.tdv = None /\ r.adds = << >> /\ r.pc = "saveType" /\ r.type = t
      BY <2>1, NewRequestIs
    <2>3. s = r
      BY <1>3, <2>1, Started
    <2>4. PinnedInDevelopment(t)
      BY <1>3, NotCopied DEF TypedInv, Named
    <2>5. PinnedInDevelopment(t)'
      BY <1>1, <2>4 DEF PinnedInDevelopment, pinned, schema, Has, Latest
    <2>. QED BY <2>2, <2>3, <2>5 DEF TdvFine, RenameCurrent
  <1>. QED BY <1>1, <1>2, <1>3

LEMMA ReadTypeFine ==
  ASSUME TypedInv, NEW q \in Reqs, NEW o, NEW s, Steps(q, o, s), TdvFine(o), ReadType(q)
  PROVE  TdvFine(s)' /\ RenameCurrent(s)'
  <1>1. o = req[q] /\ UNCHANGED <<types, defVers, trouble>> /\ o.op \in SchemaOps /\ o.type \in Types
        /\ o \in Request
    BY EditingTyped DEF ReadType, schema, definitions, Steps, TypedInv
  <1>2. PICK n : n = types[o.type]
    OBVIOUS
  <1>3. CASE o.type \in Named
    <2>1. req' = [req EXCEPT ![q] = [o EXCEPT !.pc = "saveType", !.typeName = n]]
      BY <1>1, <1>2, <1>3 DEF ReadType
    <2>2. s = [o EXCEPT !.pc = "saveType", !.typeName = n]
      BY <2>1 DEF Steps, TypedInv, SchemaInv, Requested
    <2>3. /\ s.op = o.op /\ s.tdv = o.tdv /\ s.adds = o.adds /\ s.pc = "saveType"
          /\ s.type = o.type /\ s.typeName = n
      BY <1>1, <2>2 DEF Request
    <2>4. DefVersions' = DefVersions
      BY <1>1 DEF DefVersions
    <2>5. TdvFine(s)'
      BY <1>1, <2>3, <2>4 DEF TdvFine, Given
    <2>6. RenameCurrent(s)'
      BY <1>1, <1>2, <2>3 DEF RenameCurrent
    <2>. QED BY <2>5, <2>6
  <1>4. CASE o.type \notin Named
    <2>1. s = Idle
      BY <1>1, <1>4, StepEnds DEF ReadType
    <2>. QED BY <2>1, IdleFine
  <1>. QED BY <1>3, <1>4

LEMMA StatementFine ==
  ASSUME TypedInv, NEW q \in Reqs, NEW o, NEW s, Steps(q, o, s), TdvFine(o),
         \/ CreateVersion(q) \/ CopyAttrs(q) \/ CopyAssocs(q) \/ InsertAttr(q)
         \/ DropAttr(q) \/ SetAttr(q) \/ InsertAssoc(q) \/ SetAssoc(q) \/ DropAssoc(q)
         \/ Renumber(q) \/ InsertType(q) \/ SaveType(q)
         \/ InsertDef(q) \/ InsertDefVersion(q) \/ DropDef(q) \/ Fail(q)
  PROVE  TdvFine(s)' /\ RenameCurrent(s)'
  <1>0. /\ o = req[q] /\ o.op \in SchemaOps
        /\ o \in Request
    BY RequestKnown DEF Steps, TypedInv, At, Changing, CreateVersion, CopyAttrs, CopyAssocs,
       InsertAttr, DropAttr, SetAttr, InsertAssoc, SetAssoc, DropAssoc, Renumber, InsertType,
       SaveType, InsertDef, InsertDefVersion, DropDef, Fail
  <1>1. ASSUME Finish(q) PROVE TdvFine(s)' /\ RenameCurrent(s)'
    BY <1>1, StepEnds, IdleFine
  <1>2. ASSUME NEW r, req' = [req EXCEPT ![q] = r] PROVE s = r
    BY <1>2 DEF Steps, TypedInv, SchemaInv, Requested
  <1>3. ASSUME DefVersions \subseteq DefVersions', trouble' = trouble, s.tdv = o.tdv,
               s.pc \in {"create", "copyAttrs", "copyAssocs", "readType", "change", "insertDefVersion"},
               s.adds = o.adds \/ (o.adds # << >> /\ s.adds = Tail(o.adds))
        PROVE  TdvFine(s)' /\ RenameCurrent(s)'
    <2>1. o.adds \in Seq(Attr)
      BY <1>0 DEF Request
    <2>. QED BY <1>0, <1>3, <2>1, CarriedFine
  <1>4. ASSUME NEW pc \in {"create", "copyAttrs", "copyAssocs", "readType", "change", "insertDefVersion"},
               Goto(q, pc), DefVersions \subseteq DefVersions', trouble' = trouble
        PROVE  TdvFine(s)' /\ RenameCurrent(s)'
    <2>1. req' = [req EXCEPT ![q] = [o EXCEPT !.pc = pc]]
      BY <1>0, <1>4 DEF Goto
    <2>2. s = [o EXCEPT !.pc = pc]
      BY <1>2, <2>1
    <2>3. s.tdv = o.tdv /\ s.adds = o.adds /\ s.pc = pc
      BY <1>0, <2>2 DEF Request
    <2>. QED BY <1>3, <1>4, <2>3
  <1>5. DropDef(q) \/ DefVersions \subseteq DefVersions'
    BY DefsGrow DEF TypesMove, TypedInv
  <1>6. CASE \/ DropAttr(q) \/ SetAttr(q) \/ InsertAssoc(q) \/ SetAssoc(q) \/ DropAssoc(q)
             \/ Renumber(q) \/ SaveType(q) \/ InsertDefVersion(q) \/ DropDef(q) \/ Fail(q)
    BY <1>1, <1>6 DEF DropAttr, SetAttr, InsertAssoc, SetAssoc, DropAssoc, Renumber, SaveType,
       InsertDefVersion, DropDef, Fail
  <1>7. CASE CopyAttrs(q) \/ CopyAssocs(q) \/ InsertDef(q)
    <2>1. \/ Finish(q)
          \/ \E pc \in {"create", "copyAttrs", "copyAssocs", "readType", "change", "insertDefVersion"} :
                Goto(q, pc)
      BY <1>7 DEF CopyAttrs, CopyAssocs, InsertDef
    <2>2. DefVersions \subseteq DefVersions' /\ trouble' = trouble
      BY <1>7 DEF CopyAttrs, CopyAssocs, InsertDef, definitions, DefVersions
    <2>. QED BY <1>1, <1>4, <2>1, <2>2
  <1>8. CASE CreateVersion(q)
    <2>1. CASE req' = [req EXCEPT ![q] = [o EXCEPT !.made = o.base + 1, !.pc = "copyAttrs"]]
      <3>1. PICK n : n = o.base + 1
        OBVIOUS
      <3>2. s = [o EXCEPT !.made = n, !.pc = "copyAttrs"]
        BY <1>2, <2>1, <3>1
      <3>3. s.tdv = o.tdv /\ s.adds = o.adds /\ s.pc = "copyAttrs"
        BY <1>0, <3>2 DEF Request
      <3>4. DefVersions \subseteq DefVersions' /\ trouble' = trouble
        BY <1>8 DEF CreateVersion, definitions, DefVersions
      <3>. QED BY <1>3, <3>3, <3>4
    <2>2. CASE Finish(q)
      BY <1>1, <2>2
    <2>. QED BY <1>0, <1>8, <2>1, <2>2 DEF CreateVersion, Finish
  <1>9. CASE InsertAttr(q)
    <2>1. DefVersions \subseteq DefVersions' /\ trouble' = trouble
      BY <1>9 DEF InsertAttr, definitions, DefVersions
    <2>2. o.adds # << >>
      BY <1>0, <1>9 DEF InsertAttr
    <2>3. CASE req' = [req EXCEPT ![q] = [o EXCEPT !.adds = Tail(o.adds)]]
      <3>1. PICK w : w = Tail(o.adds)
        OBVIOUS
      <3>2. s = [o EXCEPT !.adds = w]
        BY <1>2, <2>3, <3>1
      <3>3. s.tdv = o.tdv /\ s.adds = w /\ s.pc = o.pc
        BY <1>0, <3>2 DEF Request
      <3>4. o.pc = "change"
        BY <1>0, <1>9 DEF InsertAttr, At
      <3>. QED BY <1>3, <2>1, <2>2, <3>1, <3>3, <3>4
    <2>4. CASE Finish(q)
      BY <1>1, <2>4
    <2>. QED BY <1>0, <1>9, <2>3, <2>4 DEF InsertAttr, Finish
  <1>10. CASE InsertType(q)
    <2>1. DefVersions \subseteq DefVersions' /\ trouble' = trouble
      BY <1>10 DEF InsertType, definitions, DefVersions
    <2>2. CASE \E t : req' = [req EXCEPT ![q] = [o EXCEPT !.type = t, !.pc = "create"]]
      <3>1. PICK t : req' = [req EXCEPT ![q] = [o EXCEPT !.type = t, !.pc = "create"]]
        BY <2>2
      <3>2. s = [o EXCEPT !.type = t, !.pc = "create"]
        BY <1>2, <3>1
      <3>3. s.tdv = o.tdv /\ s.adds = o.adds /\ s.pc = "create"
        BY <1>0, <3>2 DEF Request
      <3>. QED BY <1>3, <2>1, <3>3
    <2>3. CASE Finish(q)
      BY <1>1, <2>3
    <2>. QED BY <1>0, <1>10, <2>2, <2>3 DEF InsertType
  <1>. QED BY <1>6, <1>7, <1>8, <1>9, <1>10

-----------------------------------------------------------------------------
LEMMA TypesFine ==
  ASSUME TypedInv, TdvTables, NEW q \in Reqs, NEW o, NEW s, Steps(q, o, s), TdvFine(o), TypesMove(q)
  PROVE  TdvFine(s)' /\ RenameCurrent(s)'
  <1>1. CASE \/ UpdateEntityType(q) \/ AddAttribute(q) \/ RemoveAttribute(q) \/ EditAttribute(q)
             \/ CopyAttributesFromType(q) \/ CreateAssociation(q) \/ EditAssociation(q)
             \/ DeleteAssociation(q)
    <2>1. EditBegun(q)
      BY <1>1, EditsBegin DEF TypedInv
    <2>. QED BY <2>1, EditFine
  <1>2. CASE \/ ReorderAttributes(q) \/ CreateEntityType(q) \/ CopyEntityType(q)
             \/ CreateTypeDefinition(q) \/ UpdateTypeDefinition(q)
    <2>1. PICK r, flaws : /\ Start(q, r, flaws) /\ r.tdv = None /\ r.adds = << >>
                          /\ r.pc \notin {"dropDef", "saveType"}
      BY <1>2, OrdinaryStart
    <2>2. s = r
      BY <2>1, Started
    <2>. QED BY <2>1, <2>2, FreshFine
  <1>3. CASE DeleteEntityType(q)
    <2>1. o = Idle /\ req' = req
      BY <1>3 DEF Steps, DeleteEntityType, Ready
    <2>2. s = Idle
      BY <2>1, StepStays
    <2>. QED BY <2>2, IdleFine
  <1>4. CASE \/ CreateVersion(q) \/ CopyAttrs(q) \/ CopyAssocs(q) \/ InsertAttr(q)
             \/ DropAttr(q) \/ SetAttr(q) \/ InsertAssoc(q) \/ SetAssoc(q) \/ DropAssoc(q)
             \/ Renumber(q) \/ InsertType(q) \/ SaveType(q)
             \/ InsertDef(q) \/ InsertDefVersion(q) \/ DropDef(q) \/ Fail(q)
    BY <1>4, StatementFine
  <1>. QED BY <1>1, <1>2, <1>3, <1>4, DeleteDefFine, RenameFine, ReadTypeFine DEF TypesMove

(***************************************************************************)
(* Requests for catalog versions touch no schema.                          *)
(***************************************************************************)
LEMMA VersionsAsk ==
  ASSUME StandingInv, NEW q \in Reqs, NEW o, NEW s, Steps(q, o, s), VersionsMove(q)
  PROVE  s.op \notin SchemaOps
  <1>1. ASSUME s \in {Idle} \/ s.op \in CVOps
        PROVE  s.op \notin SchemaOps
    BY <1>1 DEF CVOps, SchemaOps, EditOps, Idle
  <1>2. CASE CreateCatalogVersion(q)
    <2>1. s.op = "createCV"
      BY <1>2, CreateStep
    <2>. QED BY <1>1, <2>1 DEF CVOps
  <1>3. CASE Begins(q) /\ ~CreateCatalogVersion(q)
    BY <1>1, <1>3, OpeningStays
  <1>4. CASE Statement(q) \/ ListCatalogs(q) \/ ResetCatalog(q)
    <2>1. o = req[q] /\ o.op \in CVOps
      BY <1>4, StatementOf DEF Steps, StandingInv, TypedInv
    <2>2. PICK r : req' = [req EXCEPT ![q] = r] /\ (r = Idle \/ Same(o, r))
      BY <1>4, <2>1, StatementGoes, ListGoes DEF StandingInv, TypedInv
    <2>3. s = r
      BY <2>2 DEF Steps, StandingInv, TypedInv, SchemaInv, Requested
    <2>. QED BY <1>1, <2>1, <2>2, <2>3 DEF Same
  <1>5. CASE Wholes(q)
    BY <1>1, <1>5, WholesCurrent
  <1>. QED BY <1>2, <1>3, <1>4, <1>5, MoveKinds

LEMMA VersionsFine ==
  ASSUME StandingInv, NEW q \in Reqs, NEW o, NEW s, Steps(q, o, s), VersionsMove(q)
  PROVE  TdvFine(s)' /\ RenameCurrent(s)'
  BY VersionsAsk DEF TdvFine, RenameCurrent

(***************************************************************************)
(* Between statements, with one request at a time: every reference of a    *)
(* version, and every one the request at work is about to write, is to a   *)
(* definition there is; and a name is saved over another only while every  *)
(* catalog version that pins the type is in development.                   *)
(***************************************************************************)
SchemaSeq ==
    "overlap" \notin trouble =>
       TdvTables /\ \A r : r = AtWork => TdvFine(r) /\ RenameCurrent(r)

KeptInv == SeqInv /\ SchemaSeq

LEMMA SchemaSeqTypes ==
  ASSUME KeptInv, NEW q \in Reqs, TypesMove(q)
  PROVE  SchemaSeq'
  <1>0. TypedInv /\ StandingInv /\ trouble \subseteq trouble'
    BY TypesMoves DEF KeptInv, SeqInv, StandingInv, TypedInv, SchemaMoves, DeleteEntityType, Note
  <1>1. CASE "overlap" \in trouble'
    BY <1>1 DEF SchemaSeq
  <1>2. CASE "overlap" \notin trouble'
    <2>1. PICK s : req' = [req EXCEPT ![q] = s]
      BY <1>0, TypesGo
    <2>2. PICK o : o = req[q]
      OBVIOUS
    <2>3. Steps(q, o, s)
      BY <1>0, <1>2, <2>1, <2>2, TypesWork DEF KeptInv, SeqInv, Running
    <2>4. o = AtWork /\ s = AtWork'
      BY <2>3 DEF Steps
    <2>5. TdvTables /\ TdvFine(o)
      BY <1>0, <1>2, <2>4 DEF KeptInv, SchemaSeq
    <2>6. TdvTables'
      BY <1>0, <2>2, <2>5, TdvTablesMove DEF TypedInv
    <2>7. TdvFine(s)' /\ RenameCurrent(s)'
      BY <1>0, <2>3, <2>5, TypesFine
    <2>. QED BY <2>4, <2>6, <2>7 DEF SchemaSeq
  <1>. QED BY <1>1, <1>2

LEMMA SchemaSeqVersions ==
  ASSUME KeptInv, NEW q \in Reqs, VersionsMove(q)
  PROVE  SchemaSeq'
  <1>0. /\ TypedInv /\ StandingInv /\ trouble \subseteq trouble'
        /\ UNCHANGED <<versions, defVers>>
    BY Writers DEF KeptInv, SeqInv, StandingInv
  <1>1. CASE "overlap" \in trouble'
    BY <1>1 DEF SchemaSeq
  <1>2. CASE "overlap" \notin trouble'
    <2>1. PICK s : req' = [req EXCEPT ![q] = s]
      BY <1>0, VersionsGo
    <2>2. PICK o : o = req[q]
      OBVIOUS
    <2>3. Steps(q, o, s)
      BY <1>0, <1>2, <2>1, <2>2, VersionsWork DEF KeptInv, SeqInv, Running
    <2>4. s = AtWork'
      BY <2>3 DEF Steps
    <2>5. TdvTables
      BY <1>0, <1>2 DEF KeptInv, SchemaSeq
    <2>6. TdvTables'
      BY <1>0, <2>5 DEF TdvTables, Given, Latest, DefVersions
    <2>7. TdvFine(s)' /\ RenameCurrent(s)'
      BY <1>0, <2>3, VersionsFine
    <2>. QED BY <2>4, <2>6, <2>7 DEF SchemaSeq
  <1>. QED BY <1>1, <1>2

LEMMA KeptStart == Init => KeptInv
  <1>. SUFFICES ASSUME Init PROVE KeptInv
    OBVIOUS
  <1>1. AtWork = Idle
    BY DEF Init, TypesInit, Active, AtWork
  <1>2. \A r : r = Idle => TdvFine(r) /\ RenameCurrent(r)
    BY DEF TdvFine, RenameCurrent, Idle, SchemaOps, EditOps
  <1>3. TdvTables
    <2>1. ASSUME NEW t \in Types, NEW v \in 1..Latest(t)
          PROVE  versions[t][v].attrs = {}
      BY <2>1 DEF Init, TypesInit, Latest, Empty
    <2>. QED BY <2>1 DEF TdvTables
  <1>. QED BY <1>1, <1>2, <1>3, SeqStart DEF KeptInv, SchemaSeq

LEMMA KeptNext ==
  ASSUME KeptInv, [Next]_vars
  PROVE  KeptInv'
  <1>1. SeqInv'
    BY SeqNext DEF KeptInv
  <1>2. CASE TypesNext
    <2>1. PICK q \in Reqs : TypesMove(q)
      BY <1>2, MovesOf
    <2>. QED BY <1>1, <2>1, SchemaSeqTypes DEF KeptInv
  <1>3. CASE VersionsNext
    <2>1. PICK q \in Reqs : VersionsMove(q)
      BY <1>3, MovesOf
    <2>. QED BY <1>1, <2>1, SchemaSeqVersions DEF KeptInv
  <1>4. CASE UNCHANGED vars
    <2>1. UNCHANGED <<types, versions, defVers, cv, pins, trouble, req>>
      BY <1>4 DEF vars, versionVars, schema, definitions
    <2>2. AtWork' = AtWork
      BY <2>1, WorkStays
    <2>3. TdvTables => TdvTables'
      BY <2>1 DEF TdvTables, Given, Latest, DefVersions
    <2>4. PICK o : o = AtWork
      OBVIOUS
    <2>5. TdvFine(o) => TdvFine(o)'
      BY <2>1 DEF TdvFine, Given, DefInUse, Uses, Latest, DefVersions
    <2>6. RenameCurrent(o) => RenameCurrent(o)'
      BY <2>1 DEF RenameCurrent, PinnedInDevelopment, Has, Latest
    <2>7. SchemaSeq'
      BY <2>1, <2>2, <2>3, <2>4, <2>5, <2>6 DEF KeptInv, SchemaSeq
    <2>. QED BY <1>1, <2>7 DEF KeptInv
  <1>. QED BY <1>2, <1>3, <1>4 DEF Next

LEMMA KeptHolds == Spec => []KeptInv
  BY KeptStart, KeptNext, PTL DEF Spec

(***************************************************************************)
(* While requests come one at a time, the type definition version that an  *)
(* attribute refers to exists, in every version of every type: a           *)
(* definition is deleted only when no version uses it, and no edit, copy   *)
(* or addition writes a reference to one that has gone.  The one exception *)
(* is the empty id, which an edit of an attribute stores unchecked.        *)
(***************************************************************************)
THEOREM DefinitionsKept == Spec => []AttributeTypesExist
  <1>1. KeptInv => AttributeTypesExist
    BY DEF KeptInv, SchemaSeq, TdvTables, Given, AttributeTypesExist
  <1>. QED BY <1>1, KeptHolds, PTL

-----------------------------------------------------------------------------
(***************************************************************************)
(* What a catalog version in production pins, and the names of its types.  *)
(***************************************************************************)
LEMMA ProductionVersions ==
  ASSUME KeptInv, NEW q \in Reqs, VersionsMove(q), "overlap" \notin trouble',
         NEW c \in Live, c \in Live', cv[c].stage = "production"
  PROVE  NamesPinned(c) = NamesPinnedNext(c)
  <1>0. /\ TypedInv /\ StandingInv /\ trouble \subseteq trouble' /\ types' = types
        /\ pins' = pins \/ PinsMove(q)
    BY Writers DEF KeptInv, SeqInv, StandingInv, PinsMove
  <1>1. PinnedVersions(c)' = PinnedVersions(c)
    <2>1. CASE pins' = pins
      BY <2>1 DEF PinnedVersions, PinsOf
    <2>2. CASE PinsMove(q)
      <3>1. PICK s : req' = [req EXCEPT ![q] = s]
        BY <1>0, VersionsGo
      <3>2. PICK o : o = req[q]
        OBVIOUS
      <3>3. Steps(q, o, s)
        BY <1>0, <3>1, <3>2, VersionsWork DEF KeptInv, SeqInv, Running
      <3>4. Current(o)
        BY <1>0, <3>3 DEF Steps, KeptInv, SeqInv, Running
      <3>5. /\ \A d : d # o.cv => PinnedVersions(d)' = PinnedVersions(d)
            /\ Draftable(o.cv) \/ o.cv \notin Live'
        BY <1>0, <2>2, <3>3, <3>4, PinnedElsewhere
      <3>6. c # o.cv
        BY <3>5 DEF Draftable
      <3>. QED BY <3>5, <3>6
    <2>. QED BY <1>0, <2>1, <2>2
  <1>. QED BY <1>0, <1>1 DEF NamesPinned, NamesPinnedNext

LEMMA ProductionTypes ==
  ASSUME KeptInv, NEW q \in Reqs, TypesMove(q), trouble' \cap {"overlap", "deleted"} = {},
         NEW c \in Live, cv[c].stage = "production"
  PROVE  NamesPinned(c) = NamesPinnedNext(c)
  <1>0. TypedInv /\ StandingInv /\ trouble \subseteq trouble'
    BY TypesMoves DEF KeptInv, SeqInv, StandingInv, TypedInv, SchemaMoves, DeleteEntityType, Note
  <1>1. pins' = pins
    BY <1>0, TypesPinned DEF TypedInv
  <1>2. ASSUME NEW x \in PinnedVersions(c), x[2] # 0
        PROVE  x[1] \in Named /\ types'[x[1]] = types[x[1]]
    <2>1. PICK p \in PinsOf(c) : x = <<pins[p].type, pins[p].ver>>
      BY DEF PinnedVersions
    <2>2. PICK t : t = pins[p].type
      OBVIOUS
    <2>3. p \in Pins /\ pins[p] # None /\ pins[p] \in Pin /\ pins[p].cv = c /\ t \in Types
      BY <1>0, <2>1, <2>2, PinTyped DEF PinsOf, TypedInv
    <2>4. Has(t, pins[p].ver)
      BY <1>0, <1>2, <2>1, <2>2, <2>3 DEF StandingInv, PinsExist, Known, Pin
    <2>5. Latest(t) > 0
      BY <1>0, <2>3, <2>4, LatestNat DEF Has, TypedInv, SchemaInv
    <2>6. t \in Named
      BY <1>0, <2>3, <2>5 DEF StandingInv, BaseInv, HasNamed
    <2>7. SaveType(q) \/ types'[t] = types[t]
      BY <1>0, <2>6, TypesGrow DEF StandingInv, BaseInv, TypedInv
    <2>8. ASSUME SaveType(q) PROVE types'[t] = types[t]
      <3>1. PICK s : req' = [req EXCEPT ![q] = s]
        BY <1>0, TypesGo
      <3>2. PICK o : o = req[q]
        OBVIOUS
      <3>3. Steps(q, o, s)
        BY <1>0, <3>1, <3>2, TypesWork DEF KeptInv, SeqInv, Running
      <3>4. RenameCurrent(o)
        BY <1>0, <3>3 DEF Steps, KeptInv, SchemaSeq
      <3>5. /\ o.op \in SchemaOps /\ o.pc = "saveType" /\ o.type \in Types
            /\ types' = types \/ types' = [types EXCEPT ![o.type] = o.typeName]
        BY <1>0, <2>8, <3>2, EditingTyped DEF SaveType, TypedInv
      <3>6. types \in [Types -> TypeNames \cup {Unborn, Gone}]
        BY <1>0 DEF TypedInv, SchemaInv, Tables
      <3>7. PICK k, n : k = o.type /\ n = o.typeName
        OBVIOUS
      <3>8. \A u \in Types : types'[u] = types[u] \/ (u = k /\ types'[u] = n)
        <4>1. types' = types \/ types' = [types EXCEPT ![k] = n]
          BY <3>5, <3>7
        <4>. QED BY <3>6, <4>1
      <3>9. CASE t # k
        BY <2>3, <3>8, <3>9
      <3>10. CASE t = k
        <4>1. ~PinnedInDevelopment(t)
          BY <2>2, <2>3, <2>4 DEF PinnedInDevelopment
        <4>2. types[t] = n
          BY <3>4, <3>5, <3>7, <3>10, <4>1 DEF RenameCurrent
        <4>. QED BY <2>3, <3>8, <4>2
      <3>. QED BY <3>9, <3>10
    <2>. QED BY <2>1, <2>2, <2>6, <2>7, <2>8
  <1>3. PinnedVersions(c)' = PinnedVersions(c)
    BY <1>1 DEF PinnedVersions, PinsOf
  <1>4. \A x \in PinnedVersions(c) : x[2] # 0 => types[x[1]] = types'[x[1]]
    BY <1>2
  <1>. QED BY <1>3, <1>4 DEF NamesPinned, NamesPinnedNext

(***************************************************************************)
(* While requests come one at a time and no type is deleted, what a        *)
(* catalog version in production pins does not change, nor do the names of *)
(* the types it pins: pins are only changed before production, and a       *)
(* rename of a type that production pins copies it instead.                *)
(***************************************************************************)
THEOREM ProductionFixed == Spec => ProductionUnchanged
  <1>1. KeptInv /\ [Next]_vars => [ProductionKept]_vars
    <2>. SUFFICES ASSUME KeptInv, Next, trouble' \cap {"overlap", "deleted"} = {},
                         NEW c \in Live \cap Live', cv[c].stage = "production"
                  PROVE  NamesPinned(c) = NamesPinnedNext(c)
      BY DEF ProductionKept
    <2>1. CASE TypesNext
      <3>1. PICK q \in Reqs : TypesMove(q)
        BY <2>1, MovesOf
      <3>. QED BY <3>1, ProductionTypes
    <2>2. CASE VersionsNext
      <3>1. PICK q \in Reqs : VersionsMove(q)
        BY <2>2, MovesOf
      <3>. QED BY <3>1, ProductionVersions
    <2>. QED BY <2>1, <2>2 DEF Next
  <1>. QED BY <1>1, KeptHolds, PTL DEF Spec, ProductionUnchanged

-----------------------------------------------------------------------------
(***************************************************************************)
(* What a version holds: names and roots of attributes, and names of       *)
(* associations, do not repeat; a root is of a type that there is or was,  *)
(* and one of the type itself is not of a later version.                   *)
(***************************************************************************)
Keyed(S) == \A a, b \in S : a.name = b.name \/ a.root = b.root => a = b

NamesApart(S) == \A a, b \in S : a.name = b.name => a = b

Rooted(a, t, v) == (a.root[1] = t => a.root[3] <= v) /\ types[a.root[1]] # Unborn

Clean(c, t, v) ==
    Keyed(c.attrs) /\ NamesApart(c.assocs) /\ \A a \in c.attrs : Rooted(a, t, v)

KeysKept == \A t \in Types : \A v \in 1..Latest(t) : Clean(versions[t][v], t, v)

(***************************************************************************)
(* The request that makes a version: the one it copies from (Old), the one *)
(* it makes (New), and how far it is.  A new type has no roots yet.        *)
(***************************************************************************)
Old(r) == versions[r.type][r.base]
New(r) == versions[r.type][r.base + 1]

NoRoots(u) == \A t \in Types : \A v \in 1..Latest(t) : \A a \in versions[t][v].attrs : a.root[1] # u

NewType(r) ==
    r.op \in SchemaOps \ EditOps =>
       /\ r.pc \notin {"copyAssocs", "change"}
       /\ r.pc \in {"insertType", "create", "copyAttrs"} => r.base = 0
       /\ r.pc \in {"create", "copyAttrs"} => NoRoots(r.type)
       /\ r.pc = "copyAttrs" => r.made = 1 /\ Latest(r.type) = 1

Extended(r) ==
    /\ New(r).assocs = Old(r).assocs /\ Old(r).attrs \subseteq New(r).attrs
    /\ r.adds = << >> => New(r).attrs = Old(r).attrs
    /\ \A a \in New(r).attrs \ Old(r).attrs : a.root = <<r.type, a.name, r.base + 1>>

Asked(r) ==
    /\ r.type \in Types /\ r.from = r.type /\ r.base \in Nat \ {0} /\ r.fromVer = r.base
    /\ r.op \notin {"addAttribute", "copyAttributes"} => r.adds = << >>
    /\ \A i \in 1..Len(r.adds) : r.adds[i].root = <<r.type, r.adds[i].name, r.base + 1>>

NewVersion(r) ==
    r.op \in EditOps =>
       /\ Asked(r) /\ r.pc # "insertType"
       /\ r.pc = "create" => Latest(r.type) = r.base
       /\ r.pc # "create" => Latest(r.type) = r.base + 1 /\ r.made = r.base + 1
       /\ r.pc = "copyAttrs" => New(r) = Empty
       /\ r.pc = "copyAssocs" => New(r).attrs = Old(r).attrs /\ New(r).assocs = {}
       /\ r.pc = "change" => Extended(r)

(***************************************************************************)
(* A type that there is, or was, is not unborn again.                      *)
(***************************************************************************)
Aged == \A t \in Types : types[t] # Unborn => types'[t] # Unborn

LEMMA NoneAgain ==
  ASSUME SchemaInv, NEW q \in Reqs, TypesMove(q)
  PROVE  Aged
  <1>1. types \in [Types -> TypeNames \cup {Unborn, Gone}]
    BY DEF SchemaInv, Tables
  <1>2. CASE types' = types
    BY <1>2 DEF Aged
  <1>3. CASE InsertType(q) \/ SaveType(q)
    <2>1. req[q].typeName \in TypeNames
      BY <1>3, RequestKnown DEF InsertType, SaveType, At, Fits
    <2>2. types' = types \/ \E t : types' = [types EXCEPT ![t] = req[q].typeName]
      BY <1>3 DEF InsertType, SaveType
    <2>. QED BY <1>1, <2>1, <2>2, SchemaAssumption DEF Aged
  <1>4. CASE DeleteEntityType(q)
    <2>1. \E t : types' = [types EXCEPT ![t] = Gone]
      BY <1>4 DEF DeleteEntityType
    <2>. QED BY <1>1, <2>1, SchemaAssumption DEF Aged
  <1>5. CASE \/ UpdateEntityType(q) \/ AddAttribute(q) \/ RemoveAttribute(q) \/ EditAttribute(q)
             \/ CopyAttributesFromType(q) \/ CreateAssociation(q) \/ EditAssociation(q)
             \/ DeleteAssociation(q)
    BY <1>2, <1>5, EditsBegin DEF EditBegun, StartEdit, schema
  <1>6. CASE \/ ReorderAttributes(q) \/ CreateEntityType(q) \/ CopyEntityType(q)
             \/ RenameEntityType(q) \/ CreateTypeDefinition(q) \/ UpdateTypeDefinition(q)
             \/ DeleteTypeDefinition(q) \/ ReadType(q) \/ InsertDef(q) \/ InsertDefVersion(q)
             \/ DropDef(q) \/ Fail(q)
    BY <1>2, <1>6 DEF ReorderAttributes, CreateEntityType, CopyEntityType, RenameEntityType,
       CreateTypeDefinition, UpdateTypeDefinition, DeleteTypeDefinition, ReadType, InsertDef,
       InsertDefVersion, DropDef, Fail, schema
  <1>7. CASE \/ CreateVersion(q) \/ CopyAttrs(q) \/ CopyAssocs(q) \/ InsertAttr(q)
             \/ DropAttr(q) \/ SetAttr(q) \/ InsertAssoc(q) \/ SetAssoc(q) \/ DropAssoc(q)
             \/ Renumber(q)
    BY <1>2, <1>7 DEF CreateVersion, CopyAttrs, CopyAssocs, InsertAttr, DropAttr, SetAttr,
       InsertAssoc, SetAssoc, DropAssoc, Changing, Renumber
  <1>. QED BY <1>3, <1>4, <1>5, <1>6, <1>7 DEF TypesMove

LEMMA RootTyped ==
  ASSUME SchemaInv, NEW t \in Types, NEW v \in 1..Latest(t), NEW a \in versions[t][v].attrs
  PROVE  a \in Attr /\ a.root[1] \in Types /\ a.root[3] \in Nat
  <1>1. versions[t][v] \in Finite
    BY VersionFinite DEF SchemaInv, Has
  <1>2. a \in Attr
    BY <1>1, FiniteParts
  <1>. QED BY <1>2 DEF Attr, Root

LEMMA CleanStays ==
  ASSUME SchemaInv, Aged, NEW t \in Types, NEW v \in 1..Latest(t), Clean(versions[t][v], t, v),
         NEW c, c = versions[t][v]
  PROVE  Clean(c, t, v)'
  <1>1. ASSUME NEW a \in c.attrs PROVE Rooted(a, t, v)'
    BY <1>1, RootTyped DEF Clean, Rooted, Aged
  <1>. QED BY <1>1 DEF Clean

(***************************************************************************)
(* The tables after each kind of write.                                    *)
(***************************************************************************)
LEMMA KeysSame ==
  ASSUME SchemaInv, KeysKept, Aged, versions' = versions
  PROVE  KeysKept'
  <1>. SUFFICES ASSUME NEW t \in Types, NEW v \in 1..Latest(t)
                PROVE  Clean(versions[t][v], t, v)'
    BY DEF KeysKept, Latest
  <1>1. PICK c : c = versions[t][v]
    OBVIOUS
  <1>2. Clean(c, t, v)'
    BY <1>1, CleanStays DEF KeysKept
  <1>. QED BY <1>1, <1>2

LEMMA KeysWritten ==
  ASSUME SchemaInv, KeysKept, Aged, NEW r, NEW c, Writing(r, c),
         Has(r.type, r.made) => Clean(c, r.type, r.made)'
  PROVE  KeysKept'
  <1>. SUFFICES ASSUME NEW t \in Types, NEW v \in 1..Latest(t)'
                PROVE  Clean(versions[t][v], t, v)'
    BY DEF KeysKept
  <1>1. /\ v \in 1..Latest(t)
        /\ Has(r.type, r.made) => versions'[r.type][r.made] = c
        /\ t # r.type \/ v # r.made => versions'[t][v] = versions[t][v]
    BY ContentSet DEF Writing
  <1>2. CASE t = r.type /\ v = r.made
    BY <1>1, <1>2 DEF Has
  <1>3. CASE t # r.type \/ v # r.made
    <2>1. PICK d : d = versions[t][v]
      OBVIOUS
    <2>2. Clean(d, t, v)'
      BY <1>1, <2>1, CleanStays DEF KeysKept
    <2>. QED BY <1>1, <1>3, <2>1, <2>2
  <1>. QED BY <1>2, <1>3

Appends(u) == versions' = [versions EXCEPT ![u] = Append(versions[u], Empty)]

LEMMA Appended ==
  ASSUME SchemaInv, NEW u \in Types, Appends(u)
  PROVE  /\ Latest(u)' = Latest(u) + 1 /\ versions'[u][Latest(u) + 1] = Empty
         /\ \A t \in Types : t # u => Latest(t)' = Latest(t)
         /\ \A t \in Types : \A v \in 1..Latest(t) : versions'[t][v] = versions[t][v]
  <1>1. versions \in [Types -> Seq(Finite)] /\ versions[u] \in Seq(Finite) /\ Empty \in Finite
    BY EmptyFinite DEF SchemaInv, Tables
  <1>2. \A t \in Types : versions'[t] = IF t = u THEN Append(versions[u], Empty) ELSE versions[t]
    BY <1>1 DEF Appends
  <1>3. /\ Len(versions'[u]) = Len(versions[u]) + 1
        /\ versions'[u][Len(versions[u]) + 1] = Empty
        /\ \A v \in 1..Len(versions[u]) : versions'[u][v] = versions[u][v]
    <2>1. PICK w : w = versions[u]
      OBVIOUS
    <2>2. w \in Seq(Finite) /\ versions'[u] = Append(w, Empty)
      BY <1>1, <1>2, <2>1
    <2>3. /\ Len(Append(w, Empty)) = Len(w) + 1 /\ Append(w, Empty)[Len(w) + 1] = Empty
          /\ \A v \in 1..Len(w) : Append(w, Empty)[v] = w[v]
      BY <1>1, <2>2, AppendToSeq
    <2>. QED BY <2>1, <2>2, <2>3
  <1>. QED BY <1>2, <1>3 DEF Latest

LEMMA KeysAppended ==
  ASSUME SchemaInv, KeysKept, Aged, NEW u \in Types, Appends(u)
  PROVE  KeysKept'
  <1>. SUFFICES ASSUME NEW t \in Types, NEW v \in 1..Latest(t)'
                PROVE  Clean(versions[t][v], t, v)'
    BY DEF KeysKept
  <1>1. Latest(t) \in Nat
    BY LatestNat DEF SchemaInv
  <1>2. CASE v \in 1..Latest(t)
    <2>1. PICK c : c = versions[t][v]
      OBVIOUS
    <2>2. Clean(c, t, v)'
      BY <1>2, <2>1, CleanStays DEF KeysKept
    <2>. QED BY <1>2, <2>1, <2>2, Appended
  <1>3. CASE v \notin 1..Latest(t)
    <2>1. versions'[t][v] = Empty
      BY <1>1, <1>3, Appended
    <2>. QED BY <2>1 DEF Clean, Empty, Keyed, NamesApart
  <1>. QED BY <1>2, <1>3

LEMMA Deleted ==
  ASSUME SchemaInv, NEW q \in Reqs, DeleteEntityType(q)
  PROVE  \E u \in Types : /\ Latest(u)' = 0
                          /\ \A t \in Types : t # u => versions'[t] = versions[t]
  <1>1. PICK u \in Named : versions' = [versions EXCEPT ![u] = << >>]
    BY DEF DeleteEntityType
  <1>. QED BY <1>1 DEF SchemaInv, Tables, Named, Latest

LEMMA KeysDeleted ==
  ASSUME SchemaInv, KeysKept, Aged, NEW q \in Reqs, DeleteEntityType(q)
  PROVE  KeysKept'
  <1>. SUFFICES ASSUME NEW t \in Types, NEW v \in 1..Latest(t)'
                PROVE  Clean(versions[t][v], t, v)'
    BY DEF KeysKept
  <1>1. versions'[t] = versions[t] /\ v \in 1..Latest(t)
    BY Deleted DEF Latest
  <1>2. PICK c : c = versions[t][v]
    OBVIOUS
  <1>3. Clean(c, t, v)'
    BY <1>1, <1>2, CleanStays DEF KeysKept
  <1>. QED BY <1>1, <1>2, <1>3

-----------------------------------------------------------------------------
LEMMA CleanNext ==
  ASSUME Aged, NEW c \in Finite, NEW t, NEW v, Clean(c, t, v)
  PROVE  Clean(c, t, v)'
  <1>1. ASSUME NEW a \in c.attrs PROVE Rooted(a, t, v)'
    <2>1. a \in Attr
      BY FiniteParts
    <2>2. a.root[1] \in Types
      BY <2>1 DEF Attr, Root
    <2>. QED BY <2>2 DEF Clean, Rooted, Aged
  <1>. QED BY <1>1 DEF Clean

LEMMA KeysWriting ==
  ASSUME SchemaInv, KeysKept, Aged, NEW r, NEW c, Writing(r, c),
         Has(r.type, r.made) => Clean(c, r.type, r.made)
  PROVE  KeysKept'
  <1>1. c \in Finite
    BY DEF Writing
  <1>2. Has(r.type, r.made) => Clean(c, r.type, r.made)'
    BY <1>1, CleanNext
  <1>. QED BY <1>2, KeysWritten

LEMMA CleanMade ==
  ASSUME KeysKept, NEW r, r.type \in Types, Has(r.type, r.made)
  PROVE  Made(r) = versions[r.type][r.made] /\ Clean(Made(r), r.type, r.made)
  BY DEF Made, Has, KeysKept

-----------------------------------------------------------------------------
(***************************************************************************)
(* What an edit has in hand once its version is there.                     *)
(***************************************************************************)
LEMMA Drafting ==
  ASSUME SchemaInv, NEW o, o.op \in EditOps, NewVersion(o), o.pc # "create"
  PROVE  /\ o.type \in Types /\ o.base \in Nat \ {0} /\ o.made = o.base + 1
         /\ o.base + 1 \in Nat /\ o.base \in 1..Latest(o.type)
         /\ o.base + 1 \in 1..Latest(o.type) /\ Latest(o.type) = o.base + 1
         /\ Has(o.type, o.made) /\ Made(o) = New(o) /\ Source(o) = Old(o)
         /\ Old(o) \in Finite /\ New(o) \in Finite
  <1>1. /\ o.type \in Types /\ o.base \in Nat \ {0} /\ o.made = o.base + 1
        /\ o.from = o.type /\ o.fromVer = o.base /\ Latest(o.type) = o.base + 1
    BY DEF NewVersion, Asked
  <1>2. /\ o.base + 1 \in Nat /\ o.base \in 1..Latest(o.type)
        /\ o.base + 1 \in 1..Latest(o.type)
    BY <1>1
  <1>3. Has(o.type, o.made) /\ Made(o) = New(o) /\ Source(o) = Old(o)
    BY <1>1, <1>2 DEF Has, Made, Source, New, Old
  <1>4. Old(o) \in Finite /\ New(o) \in Finite
    BY <1>1, <1>2, VersionFinite DEF Has, Old, New, SchemaInv
  <1>. QED BY <1>1, <1>2, <1>3, <1>4

LEMMA DraftWritten ==
  ASSUME SchemaInv, NEW o, o.op \in EditOps, NewVersion(o), o.pc # "create", NEW c, Writing(o, c)
  PROVE  /\ versions'[o.type][o.base + 1] = c
         /\ versions'[o.type][o.base] = versions[o.type][o.base]
         /\ \A t \in Types : Latest(t)' = Latest(t)
  <1>1. /\ o.base \in Nat \ {0} /\ o.made = o.base + 1 /\ o.base \in 1..Latest(o.type)
        /\ Has(o.type, o.made)
    BY Drafting
  <1>2. o.base # o.made
    BY <1>1
  <1>. QED BY <1>1, <1>2, ContentSet DEF Writing

(***************************************************************************)
(* Each statement leaves a clean content.                                  *)
(***************************************************************************)
LEMMA CleanEarlier ==
  ASSUME NEW c \in Finite, NEW t, NEW v \in Nat, Clean(c, t, v)
  PROVE  Clean(c, t, v + 1)
  <1>1. ASSUME NEW a \in c.attrs PROVE Rooted(a, t, v + 1)
    <2>1. a \in Attr
      BY FiniteParts
    <2>2. a.root[3] \in Nat
      BY <2>1 DEF Attr, Root
    <2>. QED BY <2>2 DEF Clean, Rooted
  <1>. QED BY <1>1 DEF Clean

LEMMA CleanOld ==
  ASSUME SchemaInv, KeysKept, NEW o, o.op \in EditOps, NewVersion(o), o.pc # "create"
  PROVE  /\ Clean(Old(o), o.type, o.base) /\ Clean(Old(o), o.type, o.made)
         /\ Clean(New(o), o.type, o.made)
  <1>1. /\ o.type \in Types /\ o.base \in Nat /\ o.made = o.base + 1 /\ o.base \in 1..Latest(o.type)
        /\ o.made \in 1..Latest(o.type) /\ Old(o) \in Finite
    BY Drafting
  <1>2. Clean(Old(o), o.type, o.base)
    BY <1>1 DEF KeysKept, Old
  <1>3. Clean(New(o), o.type, o.made)
    BY <1>1 DEF KeysKept, New
  <1>. QED BY <1>1, <1>2, <1>3, CleanEarlier

LEMMA CopyAttrsClean ==
  ASSUME SchemaInv, KeysKept, NEW o, NewVersion(o), NewType(o), o.op \in SchemaOps,
         o.pc = "copyAttrs", o.type \in Types, o.from \in Types, Has(o.type, o.made), NEW c,
         c.attrs = Source(o).attrs, c.assocs = Made(o).assocs
  PROVE  Clean(c, o.type, o.made)
  <1>1. NamesApart(c.assocs)
    BY CleanMade DEF Clean
  <1>2. CASE o.op \in EditOps
    <2>1. Clean(Old(o), o.type, o.made) /\ c.attrs = Old(o).attrs
      BY <1>2, CleanOld, Drafting
    <2>. QED BY <1>1, <2>1 DEF Clean
  <1>3. CASE o.op \notin EditOps
    <2>1. NoRoots(o.type)
      BY <1>3 DEF NewType
    <2>2. CASE Has(o.from, o.fromVer)
      <3>1. o.fromVer \in 1..Latest(o.from) /\ Source(o) = versions[o.from][o.fromVer]
        BY <2>2 DEF Has, Source
      <3>2. Clean(Source(o), o.from, o.fromVer)
        BY <3>1 DEF KeysKept
      <3>3. \A a \in c.attrs : Rooted(a, o.type, o.made)
        BY <2>1, <3>1, <3>2 DEF NoRoots, Clean, Rooted
      <3>. QED BY <1>1, <3>2, <3>3 DEF Clean
    <2>3. CASE ~Has(o.from, o.fromVer)
      <3>1. c.attrs = {}
        BY <2>3 DEF Source, Empty
      <3>. QED BY <1>1, <3>1 DEF Clean, Keyed
    <2>. QED BY <2>2, <2>3
  <1>. QED BY <1>2, <1>3

LEMMA CopyAssocsClean ==
  ASSUME SchemaInv, KeysKept, NEW o, NewVersion(o), o.op \in EditOps, o.pc = "copyAssocs", NEW c,
         c.assocs = Source(o).assocs, c.attrs = Made(o).attrs
  PROVE  Clean(c, o.type, o.made)
  <1>1. Clean(Old(o), o.type, o.made) /\ Clean(New(o), o.type, o.made)
    BY CleanOld
  <1>2. c.assocs = Old(o).assocs /\ c.attrs = New(o).attrs
    BY Drafting
  <1>. QED BY <1>1, <1>2 DEF Clean

LEMMA InsertClean ==
  ASSUME StandingInv, KeysKept, NEW o, NewVersion(o), o.op \in EditOps, o.pc = "change",
         o.adds \in Seq(Attr), o.adds # << >>, Head(o.adds).name \notin AttrNames(o.type, o.made),
         NEW c, c.assocs = Made(o).assocs, c.attrs = Made(o).attrs \cup {Head(o.adds)}
  PROVE  Clean(c, o.type, o.made) /\ Head(o.adds).root = <<o.type, Head(o.adds).name, o.made>>
  <1>0. SchemaInv /\ HasNamed
    BY DEF StandingInv, TypedInv, BaseInv
  <1>1. /\ o.type \in Types /\ o.base \in Nat /\ o.made = o.base + 1 /\ Made(o) = New(o)
        /\ Latest(o.type) = o.base + 1
        /\ Old(o) \in Finite /\ New(o) \in Finite
    BY <1>0, Drafting
  <1>2. /\ Clean(Old(o), o.type, o.base) /\ Clean(New(o), o.type, o.made)
    BY <1>0, CleanOld
  <1>3. PICK a : a = Head(o.adds)
    OBVIOUS
  <1>4. 1 \in 1..Len(o.adds) /\ a = o.adds[1] /\ a \in Attr
    BY <1>3
  <1>5. a.root = <<o.type, a.name, o.made>>
    BY <1>1, <1>4 DEF NewVersion, Asked
  <1>6. types[o.type] # Unborn
    BY <1>0, <1>1, SchemaAssumption DEF HasNamed, Named
  <1>7. Rooted(a, o.type, o.made)
    BY <1>1, <1>5, <1>6 DEF Rooted
  <1>8. ASSUME NEW b \in New(o).attrs
        PROVE  b.name # a.name /\ b.root # a.root
    <2>1. b.name # a.name
      BY <1>1, <1>3 DEF AttrNames, New
    <2>2. CASE b \in Old(o).attrs
      <3>1. b.root[1] = o.type => b.root[3] <= o.base
        BY <1>2, <2>2 DEF Clean, Rooted
      <3>. QED BY <1>1, <1>5, <2>1, <3>1
    <2>3. CASE b \notin Old(o).attrs
      <3>1. b.root = <<o.type, b.name, o.base + 1>>
        BY <2>3 DEF NewVersion, Extended
      <3>. QED BY <1>5, <2>1, <3>1
    <2>. QED BY <2>1, <2>2, <2>3
  <1>9. Keyed(c.attrs)
    BY <1>1, <1>2, <1>3, <1>8 DEF Keyed, Clean
  <1>. QED BY <1>1, <1>2, <1>3, <1>5, <1>7, <1>9 DEF Clean

LEMMA FewerClean ==
  ASSUME NEW t, NEW v, NEW d, Clean(d, t, v), NEW c,
         c.attrs \subseteq d.attrs, c.assocs \subseteq d.assocs
  PROVE  Clean(c, t, v)
  BY DEF Clean, Keyed, NamesApart

(***************************************************************************)
(* An edit in place changes the one of that name, and gives it no name     *)
(* that another has.                                                       *)
(***************************************************************************)
LEMMA EditedAttrIs ==
  ASSUME NEW r, NEW a \in Attr
  PROVE  /\ EditedAttr(r, a).name = IF r.to = None THEN a.name ELSE r.to
         /\ EditedAttr(r, a).tdv = IF r.tdv = None THEN a.tdv ELSE r.tdv
         /\ EditedAttr(r, a).root = a.root
  BY DEF EditedAttr, Attr

LEMMA EditedAssocIs ==
  ASSUME NEW r, NEW a \in Assoc
  PROVE  /\ EditedAssoc(r, a).name = IF r.to = None THEN a.name ELSE r.to
         /\ EditedAssoc(r, a).kind = IF r.kind = None THEN a.kind ELSE r.kind
         /\ EditedAssoc(r, a).target = a.target
  BY DEF EditedAssoc, Assoc

LEMMA ChangedAttrsClean ==
  ASSUME NEW r, NEW t, NEW v, NEW d \in Finite, Clean(d, t, v), Made(r) = d, NEW c,
         c.attrs = ChangedAttrs(r), c.assocs = d.assocs
  PROVE  Clean(c, t, v)
  <1>1. CASE Clash(r, d.attrs)
    BY <1>1 DEF ChangedAttrs, Clean
  <1>2. CASE ~Clash(r, d.attrs)
    <2>. DEFINE edited(a) == IF a.name = r.name THEN EditedAttr(r, a) ELSE a
    <2>1. c.attrs = {edited(a) : a \in d.attrs}
      BY <1>2 DEF ChangedAttrs
    <2>2. ASSUME NEW a \in d.attrs
          PROVE  /\ edited(a).root = a.root
                 /\ a.name # r.name => edited(a) = a
                 /\ a.name = r.name => edited(a).name = IF r.to = None THEN a.name ELSE r.to
      <3>1. a \in Attr
        BY FiniteParts
      <3>. QED BY <3>1, EditedAttrIs
    <2>3. ASSUME NEW a \in d.attrs, NEW b \in d.attrs,
                 edited(a).name = edited(b).name \/ edited(a).root = edited(b).root
          PROVE  edited(a) = edited(b)
      <3>. HIDE DEF edited
      <3>1. Keyed(d.attrs)
        BY DEF Clean
      <3>2. CASE edited(a).root = edited(b).root
        BY <2>2, <3>1, <3>2 DEF Keyed
      <3>3. CASE edited(a).name = edited(b).name
        <4>1. a.name = b.name
          BY <1>2, <2>2, <3>3 DEF Clash
        <4>. QED BY <3>1, <4>1 DEF Keyed
      <3>. QED BY <2>3, <3>2, <3>3
    <2>4. \A a \in d.attrs : Rooted(edited(a), t, v)
      BY <2>2 DEF Clean, Rooted
    <2>. HIDE DEF edited
    <2>5. Keyed(c.attrs)
      BY <2>1, <2>3 DEF Keyed
    <2>. QED BY <2>1, <2>4, <2>5 DEF Clean
  <1>. QED BY <1>1, <1>2

LEMMA ChangedAssocsClean ==
  ASSUME NEW r, NEW t, NEW v, NEW d \in Finite, Clean(d, t, v), Made(r) = d, NEW c,
         c.assocs = ChangedAssocs(r), c.attrs = d.attrs
  PROVE  Clean(c, t, v)
  <1>1. CASE Clash(r, d.assocs)
    BY <1>1 DEF ChangedAssocs, Clean
  <1>2. CASE ~Clash(r, d.assocs)
    <2>. DEFINE edited(a) == IF a.name = r.name THEN EditedAssoc(r, a) ELSE a
    <2>1. c.assocs = {edited(a) : a \in d.assocs}
      BY <1>2 DEF ChangedAssocs
    <2>2. ASSUME NEW a \in d.assocs
          PROVE  /\ a.name # r.name => edited(a) = a
                 /\ a.name = r.name => edited(a).name = IF r.to = None THEN a.name ELSE r.to
      <3>1. a \in Assoc
        BY FiniteParts
      <3>. QED BY <3>1, EditedAssocIs
    <2>3. ASSUME NEW a \in d.assocs, NEW b \in d.assocs, edited(a).name = edited(b).name
          PROVE  edited(a) = edited(b)
      <3>. HIDE DEF edited
      <3>1. a.name = b.name
        BY <1>2, <2>2, <2>3 DEF Clash
      <3>. QED BY <3>1 DEF Clean, NamesApart
    <2>. HIDE DEF edited
    <2>4. NamesApart(c.assocs)
      BY <2>1, <2>3 DEF NamesApart
    <2>. QED BY <2>4 DEF Clean
  <1>. QED BY <1>1, <1>2

LEMMA RenumberedClean ==
  ASSUME NEW t, NEW v, NEW d \in Finite, Clean(d, t, v), NEW c, NEW f,
         c.attrs = {f[a] : a \in d.attrs}, \A a \in d.attrs : Renumbered(a, f[a]),
         c.assocs = d.assocs
  PROVE  Clean(c, t, v)
  <1>1. ASSUME NEW a \in d.attrs
        PROVE  f[a].name = a.name /\ f[a].root = a.root
    <2>1. a \in Attr
      BY FiniteParts
    <2>2. PICK n : f[a] = [a EXCEPT !.ord = n]
      BY DEF Renumbered
    <2>. QED BY <2>1, <2>2 DEF Attr
  <1>2. Keyed(c.attrs)
    BY <1>1 DEF Clean, Keyed
  <1>3. \A a \in d.attrs : Rooted(f[a], t, v)
    BY <1>1 DEF Clean, Rooted
  <1>. QED BY <1>2, <1>3 DEF Clean

-----------------------------------------------------------------------------
(***************************************************************************)
(* The request after a step: it has made what it should have by then.      *)
(***************************************************************************)
OnCourse(r) == NewType(r) /\ NewVersion(r)

LEMMA NoDraft ==
  ASSUME NEW s, s.op \notin SchemaOps
  PROVE  OnCourse(s) /\ OnCourse(s)'
  BY DEF OnCourse, NewType, NewVersion, SchemaOps

LEMMA IdleDrafts == OnCourse(Idle) /\ OnCourse(Idle)'
  <1>1. Idle.op \notin SchemaOps
    BY DEF Idle, SchemaOps, EditOps
  <1>. QED BY <1>1, NoDraft

LEMMA PlainDrafts ==
  ASSUME NEW s, s.op \notin EditOps, s.pc \notin {"create", "copyAttrs", "copyAssocs", "change"},
         s.pc = "insertType" => s.base = 0
  PROVE  OnCourse(s)'
  BY DEF OnCourse, NewType, NewVersion

LEMMA EditDrafts ==
  ASSUME TypedInv, NEW q \in Reqs, NEW o, NEW s, Steps(q, o, s), EditBegun(q)
  PROVE  OnCourse(s)'
  <1>1. PICK r \in Request, flaws \in SUBSET {"copied", "retyped", "untyped"} :
          /\ StartEdit(q, r, flaws) /\ r.op \in EditOps /\ r.pc = "create" /\ r.type \in Types
          /\ r.op \notin {"addAttribute", "copyAttributes"} => r.adds = << >>
          /\ \A i \in 1..Len(r.adds) :
                r.adds[i].root = <<r.type, r.adds[i].name, Latest(r.type) + 1>>
    BY DEF EditBegun
  <1>2. PICK n : n = Latest(r.type)
    OBVIOUS
  <1>3. n \in Nat \ {0} /\ UNCHANGED versions
    BY <1>1, <1>2 DEF StartEdit, schema
  <1>4. req' = [req EXCEPT ![q] = [r EXCEPT !.from = r.type, !.fromVer = n, !.base = n]]
    BY <1>1, <1>2 DEF StartEdit, Start
  <1>5. s = [r EXCEPT !.from = r.type, !.fromVer = n, !.base = n]
    BY <1>4 DEF Steps, TypedInv, SchemaInv, Requested
  <1>6. /\ s.op = r.op /\ s.pc = "create" /\ s.type = r.type /\ s.from = r.type
        /\ s.fromVer = n /\ s.base = n /\ s.adds = r.adds
    BY <1>1, <1>5 DEF Request
  <1>7. Asked(s)
    BY <1>1, <1>2, <1>3, <1>6 DEF Asked
  <1>8. Asked(s)'
    BY <1>7 DEF Asked
  <1>9. Latest(s.type)' = s.base
    BY <1>2, <1>3, <1>6 DEF Latest
  <1>. QED BY <1>1, <1>6, <1>8, <1>9 DEF OnCourse, NewType, NewVersion

LEMMA PlainStart ==
  ASSUME NEW q \in Reqs,
         \/ ReorderAttributes(q) \/ CreateEntityType(q) \/ CopyEntityType(q)
         \/ CreateTypeDefinition(q) \/ UpdateTypeDefinition(q) \/ DeleteTypeDefinition(q)
         \/ RenameEntityType(q)
  PROVE  \E r, flaws : /\ Start(q, r, flaws) /\ r.op \notin EditOps
                       /\ r.pc \notin {"create", "copyAttrs", "copyAssocs", "change"}
                       /\ r.pc = "insertType" => r.base = 0
                       /\ r.op = "reorder" => ReorderAttributes(q)
  <1>1. CASE ReorderAttributes(q)
    <2>1. PICK t, n, order : Start(q, [NewRequest EXCEPT !.op = "reorder", !.pc = "reorder",
                                         !.type = t, !.made = n, !.order = order], {"reordered"})
      BY <1>1 DEF ReorderAttributes
    <2>2. PICK r : r = [NewRequest EXCEPT !.op = "reorder", !.pc = "reorder",
                                         !.type = t, !.made = n, !.order = order]
      OBVIOUS
    <2>3. r.op = "reorder" /\ r.pc = "reorder"
      BY <2>2, NewRequestIs
    <2>. QED BY <1>1, <2>1, <2>2, <2>3 DEF EditOps
  <1>2. CASE CreateEntityType(q)
    <2>1. PICK n : Start(q, [NewRequest EXCEPT !.op = "createType", !.pc = "insertType",
                                               !.typeName = n], {})
      BY <1>2 DEF CreateEntityType
    <2>2. PICK r : r = [NewRequest EXCEPT !.op = "createType", !.pc = "insertType", !.typeName = n]
      OBVIOUS
    <2>3. r.op = "createType" /\ r.pc = "insertType" /\ r.base = 0
      BY <2>2, NewRequestIs
    <2>. QED BY <2>1, <2>2, <2>3 DEF EditOps
  <1>3. CASE CopyEntityType(q)
    <2>1. PICK n, t, v : Start(q, [NewRequest EXCEPT !.op = "copyType", !.pc = "insertType",
                                     !.typeName = n, !.from = t, !.fromVer = v], {})
      BY <1>3 DEF CopyEntityType
    <2>2. PICK r : r = [NewRequest EXCEPT !.op = "copyType", !.pc = "insertType",
                                     !.typeName = n, !.from = t, !.fromVer = v]
      OBVIOUS
    <2>3. r.op = "copyType" /\ r.pc = "insertType" /\ r.base = 0
      BY <2>2, NewRequestIs
    <2>. QED BY <2>1, <2>2, <2>3 DEF EditOps
  <1>4. CASE CreateTypeDefinition(q)
    <2>1. PICK d : Start(q, [NewRequest EXCEPT !.op = "createDef", !.pc = "insertDef", !.def = d], {})
      BY <1>4 DEF CreateTypeDefinition
    <2>2. PICK r : r = [NewRequest EXCEPT !.op = "createDef", !.pc = "insertDef", !.def = d]
      OBVIOUS
    <2>3. r.op = "createDef" /\ r.pc = "insertDef"
      BY <2>2, NewRequestIs
    <2>. QED BY <2>1, <2>2, <2>3 DEF EditOps
  <1>5. CASE UpdateTypeDefinition(q)
    <2>1. PICK d, n : Start(q, [NewRequest EXCEPT !.op = "updateDef", !.pc = "insertDefVersion",
                                  !.def = d, !.base = n], {})
      BY <1>5 DEF UpdateTypeDefinition
    <2>2. PICK r : r = [NewRequest EXCEPT !.op = "updateDef", !.pc = "insertDefVersion",
                                  !.def = d, !.base = n]
      OBVIOUS
    <2>3. r.op = "updateDef" /\ r.pc = "insertDefVersion"
      BY <2>2, NewRequestIs
    <2>. QED BY <2>1, <2>2, <2>3 DEF EditOps
  <1>6. CASE DeleteTypeDefinition(q)
    <2>1. PICK d : Start(q, [NewRequest EXCEPT !.op = "deleteDef", !.pc = "dropDef", !.def = d], {})
      BY <1>6 DEF DeleteTypeDefinition
    <2>2. PICK r : r = [NewRequest EXCEPT !.op = "deleteDef", !.pc = "dropDef", !.def = d]
      OBVIOUS
    <2>3. r.op = "deleteDef" /\ r.pc = "dropDef"
      BY <2>2, NewRequestIs
    <2>. QED BY <2>1, <2>2, <2>3 DEF EditOps
  <1>7. CASE RenameEntityType(q)
    <2>. DEFINE asked(n) == [NewRequest EXCEPT !.op = "rename", !.typeName = n]
    <2>1. PICK t, n, v :
            \/ Start(q, [asked(n) EXCEPT !.pc = "insertType", !.from = t, !.fromVer = v], {})
            \/ Start(q, [asked(n) EXCEPT !.pc = "saveType", !.type = t], {})
      BY <1>7 DEF RenameEntityType
    <2>2. CASE Start(q, [asked(n) EXCEPT !.pc = "insertType", !.from = t, !.fromVer = v], {})
      <3>1. PICK r : r = [asked(n) EXCEPT !.pc = "insertType", !.from = t, !.fromVer = v]
        OBVIOUS
      <3>2. r.op = "rename" /\ r.pc = "insertType" /\ r.base = 0
        BY <3>1, NewRequestIs
      <3>. QED BY <2>2, <3>1, <3>2 DEF EditOps
    <2>3. CASE Start(q, [asked(n) EXCEPT !.pc = "saveType", !.type = t], {})
      <3>1. PICK r : r = [asked(n) EXCEPT !.pc = "saveType", !.type = t]
        OBVIOUS
      <3>2. r.op = "rename" /\ r.pc = "saveType"
        BY <3>1, NewRequestIs
      <3>. QED BY <2>3, <3>1, <3>2 DEF EditOps
    <2>. QED BY <2>1, <2>2, <2>3
  <1>. QED BY <1>1, <1>2, <1>3, <1>4, <1>5, <1>6, <1>7

(***************************************************************************)
(* A request that goes on after its version is there.                      *)
(***************************************************************************)
Continues(o, s) ==
    /\ s.op = o.op /\ s.type = o.type /\ s.from = o.from /\ s.fromVer = o.fromVer
    /\ s.base = o.base /\ s.made = o.made

LEMMA DraftGoes ==
  ASSUME NEW o, NewVersion(o), o.op \in EditOps, o.pc # "create", NEW s, Continues(o, s),
         Asked(s), s.pc \notin {"insertType", "create", "copyAttrs"},
         Latest(o.type)' = Latest(o.type), NEW d, d = versions'[o.type][o.base],
         NEW c, c = versions'[o.type][o.base + 1],
         s.pc = "copyAssocs" => c.attrs = d.attrs /\ c.assocs = {},
         s.pc = "change" =>
            /\ c.assocs = d.assocs /\ d.attrs \subseteq c.attrs
            /\ s.adds = << >> => c.attrs = d.attrs
            /\ \A a \in c.attrs \ d.attrs : a.root = <<o.type, a.name, o.base + 1>>
  PROVE  OnCourse(s)'
  <1>1. Asked(s)'
    BY DEF Asked
  <1>2. New(s)' = c /\ Old(s)' = d
    BY DEF New, Old, Continues
  <1>3. Latest(s.type)' = s.base + 1 /\ s.made = s.base + 1
    BY DEF NewVersion, Continues
  <1>4. s.op \in EditOps /\ s.type = o.type /\ s.base = o.base
    BY DEF Continues
  <1>5. s.pc = "change" => Extended(s)'
    BY <1>2, <1>4 DEF Extended
  <1>. QED BY <1>1, <1>2, <1>3, <1>4, <1>5 DEF OnCourse, NewType, NewVersion

LEMMA AskedOn ==
  ASSUME NEW o, Asked(o), NEW s, Continues(o, s), s.adds = o.adds
  PROVE  Asked(s)
  BY DEF Asked, Continues

LEMMA AskedLess ==
  ASSUME NEW o, Asked(o), o.adds \in Seq(Attr), o.adds # << >>, o.op \in {"addAttribute", "copyAttributes"},
         NEW s, Continues(o, s), s.adds = Tail(o.adds)
  PROVE  Asked(s)
  <1>1. \A i \in 1..Len(s.adds) : i + 1 \in 1..Len(o.adds) /\ s.adds[i] = o.adds[i + 1]
    OBVIOUS
  <1>. QED BY <1>1 DEF Asked, Continues

-----------------------------------------------------------------------------
LEMMA CreateVersionDrafts ==
  ASSUME TypedInv, KeysKept, Aged, NEW q \in Reqs, NEW o, NEW s, Steps(q, o, s), OnCourse(o),
         CreateVersion(q)
  PROVE  KeysKept' /\ OnCourse(s)'
  <1>0. /\ SchemaInv /\ o = req[q] /\ o \in Request /\ o.op \in SchemaOps /\ o.type \in Types
        /\ o.pc = "create"
    BY EditingTyped DEF CreateVersion, Steps, TypedInv
  <1>1. CASE Finish(q) /\ versions' = versions
    BY <1>0, <1>1, StepEnds, IdleDrafts, KeysSame
  <1>2. CASE /\ Appends(o.type) /\ Latest(o.type) = o.base
             /\ req' = [req EXCEPT ![q] = IF o.op = "createType" THEN Idle
                                            ELSE [o EXCEPT !.made = o.base + 1, !.pc = "copyAttrs"]]
    <2>1. KeysKept'
      BY <1>0, <1>2, KeysAppended
    <2>2. PICK n : n = o.base + 1
      OBVIOUS
    <2>3. s = IF o.op = "createType" THEN Idle ELSE [o EXCEPT !.made = n, !.pc = "copyAttrs"]
      BY <1>2, <2>2 DEF Steps, TypedInv, SchemaInv, Requested
    <2>4. CASE o.op = "createType"
      BY <2>1, <2>3, <2>4, IdleDrafts
    <2>5. CASE o.op # "createType"
      <3>1. /\ s.op = o.op /\ s.type = o.type /\ s.from = o.from /\ s.fromVer = o.fromVer
            /\ s.base = o.base /\ s.made = n /\ s.adds = o.adds /\ s.pc = "copyAttrs"
        BY <1>0, <2>3, <2>5 DEF Request
      <3>2. Latest(o.type)' = n /\ versions'[o.type][n] = Empty
        BY <1>0, <1>2, <2>2, Appended
      <3>3. CASE o.op \in EditOps
        <4>1. Asked(o)
          BY <3>3 DEF OnCourse, NewVersion
        <4>2. Asked(s)'
          BY <3>1, <4>1 DEF Asked
        <4>3. New(s)' = Empty /\ Latest(s.type)' = s.base + 1 /\ s.made = s.base + 1
          BY <2>2, <3>1, <3>2 DEF New
        <4>. QED BY <2>1, <3>1, <3>3, <4>2, <4>3 DEF OnCourse, NewType, NewVersion
      <3>4. CASE o.op \notin EditOps
        <4>1. o.base = 0 /\ NoRoots(o.type)
          BY <1>0, <3>4 DEF OnCourse, NewType
        <4>2. NoRoots(s.type)'
          <5>. SUFFICES ASSUME NEW t \in Types, NEW v \in 1..Latest(t)',
                               NEW a \in versions'[t][v].attrs
                        PROVE  a.root[1] # s.type
            BY DEF NoRoots
          <5>1. Latest(t) \in Nat
            BY <1>0, LatestNat DEF SchemaInv
          <5>2. CASE v \in 1..Latest(t)
            BY <1>0, <1>2, <3>1, <4>1, <5>2, Appended DEF NoRoots
          <5>3. CASE v \notin 1..Latest(t)
            <6>1. versions'[t][v] = Empty
              BY <1>0, <1>2, <5>1, <5>3, Appended
            <6>. QED BY <6>1 DEF Empty
          <5>. QED BY <5>2, <5>3
        <4>3. s.made = 1 /\ Latest(s.type)' = 1
          BY <2>2, <3>1, <3>2, <4>1
        <4>. QED BY <2>1, <3>1, <3>4, <4>1, <4>2, <4>3 DEF OnCourse, NewType, NewVersion
      <3>. QED BY <3>3, <3>4
    <2>. QED BY <2>4, <2>5
  <1>. QED BY <1>0, <1>1, <1>2 DEF CreateVersion, Appends

LEMMA CopyAttrsDrafts ==
  ASSUME TypedInv, KeysKept, Aged, NEW q \in Reqs, NEW o, NEW s, Steps(q, o, s), OnCourse(o),
         CopyAttrs(q)
  PROVE  KeysKept' /\ OnCourse(s)'
  <1>0. /\ SchemaInv /\ o = req[q] /\ o \in Request /\ o.op \in SchemaOps /\ o.type \in Types
        /\ o.pc = "copyAttrs" /\ o.from \in Types
    BY EditingTyped DEF CopyAttrs, Steps, TypedInv, Fits
  <1>1. PICK c : Writing(o, c) /\ c.attrs = Source(o).attrs /\ c.assocs = Made(o).assocs
    BY <1>0, CopyWrites
  <1>2. Has(o.type, o.made) => Clean(c, o.type, o.made)
    BY <1>0, <1>1, CopyAttrsClean DEF OnCourse
  <1>3. KeysKept'
    BY <1>0, <1>1, <1>2, KeysWriting
  <1>4. CASE o.op \notin EditOps
    <2>1. Finish(q)
      BY <1>0, <1>4 DEF CopyAttrs
    <2>. QED BY <1>3, <2>1, StepEnds, IdleDrafts
  <1>5. CASE o.op \in EditOps
    <2>1. req' = [req EXCEPT ![q] = [o EXCEPT !.pc = "copyAssocs"]]
      BY <1>0, <1>5 DEF CopyAttrs, Goto
    <2>2. s = [o EXCEPT !.pc = "copyAssocs"]
      BY <2>1 DEF Steps, TypedInv, SchemaInv, Requested
    <2>3. Continues(o, s) /\ s.adds = o.adds /\ s.pc = "copyAssocs"
      BY <1>0, <2>2 DEF Request, Continues
    <2>4. NewVersion(o) /\ Asked(o)
      BY <1>5 DEF OnCourse, NewVersion
    <2>5. Asked(s)
      BY <2>3, <2>4, AskedOn
    <2>6. /\ versions'[o.type][o.base + 1] = c /\ versions'[o.type][o.base] = Old(o)
          /\ Latest(o.type)' = Latest(o.type)
      BY <1>0, <1>1, <1>5, <2>4, DraftWritten DEF Old
    <2>7. c.attrs = Old(o).attrs /\ c.assocs = {}
      <3>1. New(o) = Empty
        BY <1>0, <1>5, <2>4 DEF NewVersion
      <3>. QED BY <1>0, <1>1, <1>5, <2>4, <3>1, Drafting DEF Empty
    <2>8. OnCourse(s)'
      BY <1>0, <1>5, <2>3, <2>4, <2>5, <2>6, <2>7, DraftGoes
    <2>. QED BY <1>3, <2>8
  <1>. QED BY <1>4, <1>5

LEMMA CopyAssocsDrafts ==
  ASSUME TypedInv, KeysKept, Aged, NEW q \in Reqs, NEW o, NEW s, Steps(q, o, s), OnCourse(o),
         CopyAssocs(q)
  PROVE  KeysKept' /\ OnCourse(s)'
  <1>0. /\ SchemaInv /\ o = req[q] /\ o \in Request /\ o.op \in SchemaOps /\ o.type \in Types
        /\ o.pc = "copyAssocs"
    BY EditingTyped DEF CopyAssocs, Steps, TypedInv
  <1>1. o.op \in EditOps /\ NewVersion(o) /\ Asked(o)
    BY <1>0 DEF OnCourse, NewType, NewVersion
  <1>2. PICK c : Writing(o, c) /\ c.assocs = Source(o).assocs /\ c.attrs = Made(o).attrs
    BY <1>0, CopyWrites
  <1>3. Clean(c, o.type, o.made)
    BY <1>0, <1>1, <1>2, CopyAssocsClean
  <1>4. KeysKept'
    BY <1>0, <1>2, <1>3, KeysWriting
  <1>5. PICK pc \in {"readType", "change"} : req' = [req EXCEPT ![q] = [o EXCEPT !.pc = pc]]
    BY <1>0 DEF CopyAssocs, Goto
  <1>6. s = [o EXCEPT !.pc = pc]
    BY <1>5 DEF Steps, TypedInv, SchemaInv, Requested
  <1>7. Continues(o, s) /\ s.adds = o.adds /\ s.pc = pc
    BY <1>0, <1>6 DEF Request, Continues
  <1>8. Asked(s)
    BY <1>1, <1>7, AskedOn
  <1>9. /\ versions'[o.type][o.base + 1] = c /\ versions'[o.type][o.base] = Old(o)
        /\ Latest(o.type)' = Latest(o.type)
    BY <1>0, <1>1, <1>2, DraftWritten DEF Old
  <1>10. c.attrs = Old(o).attrs /\ c.assocs = Old(o).assocs
    <2>1. New(o).attrs = Old(o).attrs
      BY <1>0, <1>1 DEF NewVersion
    <2>. QED BY <1>0, <1>1, <1>2, <2>1, Drafting
  <1>11. OnCourse(s)'
    BY <1>0, <1>1, <1>5, <1>7, <1>8, <1>9, <1>10, DraftGoes
  <1>. QED BY <1>4, <1>11

LEMMA InsertAttrDrafts ==
  ASSUME StandingInv, KeysKept, Aged, NEW q \in Reqs, NEW o, NEW s, Steps(q, o, s), OnCourse(o),
         InsertAttr(q)
  PROVE  KeysKept' /\ OnCourse(s)'
  <1>0. /\ TypedInv /\ SchemaInv /\ o = req[q] /\ o \in Request /\ o.op \in SchemaOps
        /\ o.type \in Types /\ o.pc = "change"
    BY EditingTyped DEF InsertAttr, Steps, StandingInv, TypedInv
  <1>1. o.op \in EditOps /\ NewVersion(o) /\ Asked(o)
    BY <1>0 DEF OnCourse, NewType, NewVersion
  <1>2. o.adds \in Seq(Attr) /\ o.adds # << >>
    BY <1>0, InsertAttrWrites
  <1>3. o.op \in {"addAttribute", "copyAttributes"}
    BY <1>1, <1>2 DEF Asked
  <1>4. CASE Finish(q) /\ versions' = versions
    BY <1>0, <1>4, StepEnds, IdleDrafts, KeysSame
  <1>5. CASE /\ Has(o.type, o.made) /\ Head(o.adds).name \notin AttrNames(o.type, o.made)
             /\ req' = [req EXCEPT ![q] = IF Len(o.adds) = 1 THEN Idle
                                             ELSE [o EXCEPT !.adds = Tail(o.adds)]]
             /\ \E c : /\ Writing(o, c) /\ c.assocs = Made(o).assocs
                       /\ c.attrs = Made(o).attrs \cup {Head(o.adds)}
    <2>1. PICK c : /\ Writing(o, c) /\ c.assocs = Made(o).assocs
                   /\ c.attrs = Made(o).attrs \cup {Head(o.adds)}
      BY <1>5
    <2>2. Clean(c, o.type, o.made) /\ Head(o.adds).root = <<o.type, Head(o.adds).name, o.made>>
      BY <1>0, <1>1, <1>2, <1>5, <2>1, InsertClean
    <2>3. KeysKept'
      BY <1>0, <2>1, <2>2, KeysWriting
    <2>4. PICK w : w = Tail(o.adds)
      OBVIOUS
    <2>5. s = IF Len(o.adds) = 1 THEN Idle ELSE [o EXCEPT !.adds = w]
      BY <1>0, <1>5, <2>4 DEF Steps, TypedInv, SchemaInv, Requested
    <2>6. CASE Len(o.adds) = 1
      BY <2>3, <2>5, <2>6, IdleDrafts
    <2>7. CASE Len(o.adds) # 1
      <3>1. w # << >>
        <4>1. Len(o.adds) \in Nat /\ Len(o.adds) # 0 /\ Len(w) = Len(o.adds) - 1
          BY <1>2, <2>4
        <4>2. Len(w) # 0
          BY <2>7, <4>1
        <4>. QED BY <4>2
      <3>2. Continues(o, s) /\ s.adds = w /\ s.pc = "change"
        BY <1>0, <2>5, <2>7 DEF Request, Continues
      <3>3. Asked(s)
        BY <1>1, <1>2, <1>3, <2>4, <3>2, AskedLess
      <3>4. /\ versions'[o.type][o.base + 1] = c /\ versions'[o.type][o.base] = Old(o)
            /\ Latest(o.type)' = Latest(o.type)
        BY <1>0, <1>1, <2>1, DraftWritten DEF Old
      <3>5. Made(o) = New(o) /\ o.made = o.base + 1
        BY <1>0, <1>1, Drafting
      <3>6. Extended(o)
        BY <1>0, <1>1 DEF NewVersion
      <3>7. c.assocs = Old(o).assocs /\ Old(o).attrs \subseteq c.attrs
        BY <2>1, <3>5, <3>6 DEF Extended
      <3>8. \A a \in c.attrs \ Old(o).attrs : a.root = <<o.type, a.name, o.base + 1>>
        BY <2>1, <2>2, <3>5, <3>6 DEF Extended
      <3>9. OnCourse(s)'
        BY <1>0, <1>1, <3>1, <3>2, <3>3, <3>4, <3>7, <3>8, DraftGoes
      <3>. QED BY <2>3, <3>9
    <2>. QED BY <2>6, <2>7
  <1>. QED BY <1>0, <1>4, <1>5, InsertAttrWrites

-----------------------------------------------------------------------------
Edits(q) == DropAttr(q) \/ SetAttr(q) \/ InsertAssoc(q) \/ SetAssoc(q) \/ DropAssoc(q)

LEMMA EditClean ==
  ASSUME SchemaInv, KeysKept, NEW q \in Reqs, NEW o, o = req[q], OnCourse(o), Edits(q)
  PROVE  \E c : Writing(o, c) /\ Clean(c, o.type, o.made)
  <1>0. /\ o \in Request /\ o.op \in SchemaOps /\ o.type \in Types /\ o.pc = "change"
    BY EditingTyped DEF Edits, DropAttr, SetAttr, InsertAssoc, SetAssoc, DropAssoc, Changing
  <1>1. o.op \in EditOps /\ NewVersion(o)
    BY <1>0 DEF OnCourse, NewType
  <1>2. PICK d \in Finite : d = Made(o) /\ Clean(d, o.type, o.made)
    BY <1>0, <1>1, Drafting, CleanOld
  <1>3. CASE DropAttr(q)
    <2>1. PICK c : /\ Writing(o, c) /\ c.assocs = d.assocs
                   /\ c.attrs = {a \in d.attrs : a.name # o.name}
      BY <1>2, <1>3, DropWrites
    <2>. QED BY <1>2, <2>1, FewerClean
  <1>4. CASE DropAssoc(q)
    <2>1. PICK c : /\ Writing(o, c) /\ c.attrs = d.attrs
                   /\ c.assocs = {a \in d.assocs : a.name # o.name}
      BY <1>2, <1>4, DropWrites
    <2>. QED BY <1>2, <2>1, FewerClean
  <1>5. CASE SetAttr(q)
    <2>1. PICK c : Writing(o, c) /\ c.assocs = d.assocs /\ c.attrs = ChangedAttrs(o)
      BY <1>2, <1>5, SetWrites
    <2>. QED BY <1>2, <2>1, ChangedAttrsClean
  <1>6. CASE SetAssoc(q)
    <2>1. PICK c : Writing(o, c) /\ c.attrs = d.attrs /\ c.assocs = ChangedAssocs(o)
      BY <1>2, <1>6, SetWrites
    <2>. QED BY <1>2, <2>1, ChangedAssocsClean
  <1>7. CASE InsertAssoc(q)
    <2>1. PICK c : /\ Writing(o, c) /\ c.attrs = d.attrs
                   /\ c.assocs = IF \E a \in d.assocs : a.name = o.assoc.name
                                   THEN d.assocs ELSE d.assocs \cup {o.assoc}
      BY <1>2, <1>7, SetWrites
    <2>2. NamesApart(c.assocs)
      BY <1>2, <2>1 DEF Clean, NamesApart
    <2>. QED BY <1>2, <2>1, <2>2 DEF Clean
  <1>. QED BY <1>3, <1>4, <1>5, <1>6, <1>7 DEF Edits

LEMMA RenumberClean ==
  ASSUME SchemaInv, KeysKept, NEW q \in Reqs, NEW o, o = req[q], Renumber(q)
  PROVE  \E c : Writing(o, c) /\ (Has(o.type, o.made) => Clean(c, o.type, o.made))
  <1>1. o.type \in Types
    BY EditingTyped DEF Renumber
  <1>2. PICK d \in Finite : d = Made(o) /\ (Has(o.type, o.made) => Clean(d, o.type, o.made))
    BY <1>1, CleanMade, MadeParts
  <1>3. PICK c, f : /\ Writing(o, c) /\ c.assocs = d.assocs
                    /\ c.attrs = {f[a] : a \in d.attrs}
                    /\ \A a \in d.attrs : Renumbered(a, f[a])
    BY <1>2, RenumberWrites
  <1>. QED BY <1>2, <1>3, RenumberedClean

LEMMA InsertTypeDrafts ==
  ASSUME TypedInv, KeysKept, Aged, NEW q \in Reqs, NEW o, NEW s, Steps(q, o, s), OnCourse(o),
         InsertType(q)
  PROVE  KeysKept' /\ OnCourse(s)'
  <1>0. /\ SchemaInv /\ o = req[q] /\ o \in Request /\ o.op \in SchemaOps
        /\ o.pc = "insertType" /\ versions' = versions
    BY RequestKnown DEF InsertType, At, Steps, TypedInv
  <1>1. KeysKept'
    BY <1>0, KeysSame
  <1>2. CASE Finish(q)
    BY <1>1, <1>2, StepEnds, IdleDrafts
  <1>3. CASE \E t \in Types : /\ types[t] = Unborn
                              /\ req' = [req EXCEPT ![q] = [o EXCEPT !.type = t, !.pc = "create"]]
    <2>1. PICK t \in Types : /\ types[t] = Unborn
                             /\ req' = [req EXCEPT ![q] = [o EXCEPT !.type = t, !.pc = "create"]]
      BY <1>3
    <2>2. s = [o EXCEPT !.type = t, !.pc = "create"]
      BY <2>1 DEF Steps, TypedInv, SchemaInv, Requested
    <2>3. s.op = o.op /\ s.type = t /\ s.base = o.base /\ s.pc = "create"
      BY <1>0, <2>2 DEF Request
    <2>4. o.op \notin EditOps
      BY <1>0 DEF OnCourse, NewVersion
    <2>5. o.base = 0
      BY <1>0, <2>4 DEF OnCourse, NewType
    <2>6. NoRoots(t)
      BY <2>1 DEF KeysKept, Clean, Rooted, NoRoots
    <2>7. NoRoots(s.type)'
      BY <1>0, <2>3, <2>6 DEF NoRoots, Latest
    <2>. QED BY <1>1, <2>3, <2>4, <2>5, <2>7 DEF OnCourse, NewType, NewVersion
  <1>. QED BY <1>0, <1>2, <1>3 DEF InsertType

LEMMA ReadTypeDrafts ==
  ASSUME TypedInv, NEW q \in Reqs, NEW o, NEW s, Steps(q, o, s), OnCourse(o), ReadType(q)
  PROVE  OnCourse(s)'
  <1>0. /\ SchemaInv /\ o = req[q] /\ o \in Request /\ o.op \in SchemaOps /\ o.type \in Types
        /\ o.pc = "readType" /\ versions' = versions
    BY EditingTyped DEF ReadType, Steps, TypedInv, schema
  <1>1. PICK n : n = types[o.type]
    OBVIOUS
  <1>2. CASE Finish(q)
    BY <1>2, StepEnds, IdleDrafts
  <1>3. CASE req' = [req EXCEPT ![q] = [o EXCEPT !.pc = "saveType", !.typeName = n]]
    <2>1. s = [o EXCEPT !.pc = "saveType", !.typeName = n]
      BY <1>3 DEF Steps, TypedInv, SchemaInv, Requested
    <2>2. Continues(o, s) /\ s.adds = o.adds /\ s.pc = "saveType"
      BY <1>0, <2>1 DEF Request, Continues
    <2>3. CASE o.op \in EditOps
      <3>1. NewVersion(o) /\ Asked(o)
        BY <1>0, <2>3 DEF OnCourse, NewVersion
      <3>2. Asked(s)
        BY <2>2, <3>1, AskedOn
      <3>3. Latest(o.type)' = Latest(o.type)
        BY <1>0 DEF Latest
      <3>. QED BY <1>0, <2>2, <2>3, <3>1, <3>2, <3>3, DraftGoes
    <2>4. CASE o.op \notin EditOps
      BY <2>2, <2>4, PlainDrafts DEF Continues
    <2>. QED BY <2>3, <2>4
  <1>. QED BY <1>0, <1>1, <1>2, <1>3 DEF ReadType

LEMMA InsertDefDrafts ==
  ASSUME TypedInv, NEW q \in Reqs, NEW o, NEW s, Steps(q, o, s), OnCourse(o), InsertDef(q)
  PROVE  OnCourse(s)'
  <1>0. /\ SchemaInv /\ o = req[q] /\ o \in Request /\ o.op \in SchemaOps
        /\ o.pc = "insertDef" /\ versions' = versions
    BY RequestKnown DEF InsertDef, At, Steps, TypedInv, schema
  <1>2. CASE Finish(q)
    BY <1>2, StepEnds, IdleDrafts
  <1>3. CASE Goto(q, "insertDefVersion")
    <2>1. s = [o EXCEPT !.pc = "insertDefVersion"]
      BY <1>3 DEF Steps, TypedInv, SchemaInv, Requested, Goto
    <2>2. Continues(o, s) /\ s.adds = o.adds /\ s.pc = "insertDefVersion"
      BY <1>0, <2>1 DEF Request, Continues
    <2>3. CASE o.op \in EditOps
      <3>1. NewVersion(o) /\ Asked(o)
        BY <1>0, <2>3 DEF OnCourse, NewVersion
      <3>2. Asked(s)
        BY <2>2, <3>1, AskedOn
      <3>3. Latest(o.type)' = Latest(o.type)
        BY <1>0 DEF Latest
      <3>. QED BY <1>0, <2>2, <2>3, <3>1, <3>2, <3>3, DraftGoes
    <2>4. CASE o.op \notin EditOps
      BY <2>2, <2>4, PlainDrafts DEF Continues
    <2>. QED BY <2>3, <2>4
  <1>. QED BY <1>0, <1>2, <1>3 DEF InsertDef

LEMMA TypesDrafts ==
  ASSUME StandingInv, KeysKept, NEW q \in Reqs, NEW o, NEW s, Steps(q, o, s), OnCourse(o), TypesMove(q)
  PROVE  KeysKept' /\ OnCourse(s)'
  <1>0. TypedInv /\ SchemaInv /\ Aged /\ o = req[q]
    BY NoneAgain DEF StandingInv, TypedInv, Steps
  <1>1. CASE \/ UpdateEntityType(q) \/ AddAttribute(q) \/ RemoveAttribute(q) \/ EditAttribute(q)
             \/ CopyAttributesFromType(q) \/ CreateAssociation(q) \/ EditAssociation(q)
             \/ DeleteAssociation(q)
    <2>1. EditBegun(q)
      BY <1>0, <1>1, EditsBegin
    <2>2. versions' = versions
      BY <2>1 DEF EditBegun, StartEdit, schema
    <2>. QED BY <1>0, <2>1, <2>2, EditDrafts, KeysSame
  <1>2. CASE \/ ReorderAttributes(q) \/ CreateEntityType(q) \/ CopyEntityType(q)
             \/ CreateTypeDefinition(q) \/ UpdateTypeDefinition(q) \/ DeleteTypeDefinition(q)
             \/ RenameEntityType(q)
    <2>1. versions' = versions
      BY <1>2 DEF ReorderAttributes, CreateEntityType, CopyEntityType, RenameEntityType,
         CreateTypeDefinition, UpdateTypeDefinition, DeleteTypeDefinition, schema
    <2>2. PICK r, flaws : /\ Start(q, r, flaws) /\ r.op \notin EditOps
                          /\ r.pc \notin {"create", "copyAttrs", "copyAssocs", "change"}
                          /\ r.pc = "insertType" => r.base = 0
      BY <1>2, PlainStart
    <2>3. s = r
      BY <1>0, <2>2, Started
    <2>. QED BY <1>0, <2>1, <2>2, <2>3, KeysSame, PlainDrafts
  <1>3. CASE DeleteEntityType(q)
    <2>1. o = Idle /\ req' = req
      BY <1>0, <1>3 DEF Steps, DeleteEntityType, Ready
    <2>2. s = Idle
      BY <1>0, <2>1, StepStays
    <2>. QED BY <1>0, <1>3, <2>2, IdleDrafts, KeysDeleted
  <1>4. CASE Edits(q) \/ Renumber(q)
    <2>1. Finish(q)
      BY <1>4 DEF Edits, DropAttr, SetAttr, InsertAssoc, SetAssoc, DropAssoc, Renumber
    <2>2. \E c : Writing(o, c) /\ (Has(o.type, o.made) => Clean(c, o.type, o.made))
      BY <1>0, <1>4, EditClean, RenumberClean
    <2>. QED BY <1>0, <2>1, <2>2, KeysWriting, StepEnds, IdleDrafts
  <1>5. CASE SaveType(q) \/ InsertDefVersion(q) \/ DropDef(q) \/ Fail(q)
    <2>1. versions' = versions /\ Finish(q)
      BY <1>5 DEF SaveType, InsertDefVersion, DropDef, Fail, schema
    <2>. QED BY <1>0, <2>1, KeysSame, StepEnds, IdleDrafts
  <1>6. CASE ReadType(q) \/ InsertDef(q)
    <2>1. versions' = versions
      BY <1>6 DEF ReadType, InsertDef, schema
    <2>. QED BY <1>0, <1>6, <2>1, KeysSame, ReadTypeDrafts, InsertDefDrafts
  <1>. QED BY <1>0, <1>1, <1>2, <1>3, <1>4, <1>5, <1>6, CreateVersionDrafts, CopyAttrsDrafts,
              CopyAssocsDrafts, InsertAttrDrafts, InsertTypeDrafts DEF TypesMove, Edits

-----------------------------------------------------------------------------
(***************************************************************************)
(* A step while requests come one at a time, of the schema or of catalog   *)
(* versions, which leave the schema alone.                                 *)
(***************************************************************************)
LEMMA TypesSteps ==
  ASSUME KeptInv, NEW q \in Reqs, TypesMove(q), "overlap" \notin trouble'
  PROVE  /\ \E o, s : Steps(q, o, s) /\ o = AtWork /\ s = AtWork'
         /\ StandingInv /\ TypedInv /\ SchemaInv /\ trouble \subseteq trouble'
  <1>0. TypedInv /\ StandingInv /\ trouble \subseteq trouble'
    BY TypesMoves DEF KeptInv, SeqInv, StandingInv, TypedInv, SchemaMoves, DeleteEntityType, Note
  <1>1. PICK s : req' = [req EXCEPT ![q] = s]
    BY <1>0, TypesGo
  <1>2. PICK o : o = req[q]
    OBVIOUS
  <1>3. Steps(q, o, s)
    BY <1>0, <1>1, <1>2, TypesWork DEF KeptInv, SeqInv, Running
  <1>. QED BY <1>0, <1>3 DEF Steps, TypedInv

LEMMA VersionsSteps ==
  ASSUME KeptInv, NEW q \in Reqs, VersionsMove(q), "overlap" \notin trouble'
  PROVE  /\ AtWork'.op \notin SchemaOps
         /\ UNCHANGED <<types, versions>> /\ trouble \subseteq trouble' /\ SchemaInv
  <1>0. /\ TypedInv /\ StandingInv /\ trouble \subseteq trouble'
        /\ UNCHANGED <<types, versions>>
    BY Writers DEF KeptInv, SeqInv, StandingInv
  <1>1. PICK s : req' = [req EXCEPT ![q] = s]
    BY <1>0, VersionsGo
  <1>2. PICK o : o = req[q]
    OBVIOUS
  <1>3. Steps(q, o, s)
    BY <1>0, <1>1, <1>2, VersionsWork DEF KeptInv, SeqInv, Running
  <1>4. s.op \notin SchemaOps
    BY <1>0, <1>3, VersionsAsk
  <1>. QED BY <1>0, <1>3, <1>4 DEF Steps, TypedInv

(***************************************************************************)
(* While requests come one at a time, the versions are clean, and the      *)
(* request that makes one has made what it should have.                    *)
(***************************************************************************)
DraftSeq ==
    "overlap" \notin trouble => KeysKept /\ \A r : r = AtWork => OnCourse(r)

DraftInv == KeptInv /\ DraftSeq

LEMMA NoVersions == ASSUME Init, NEW t \in Types, NEW v \in 1..Latest(t) PROVE versions[t][v] = Empty
  BY DEF Init, TypesInit, Latest

LEMMA DraftStart == Init => DraftInv
  <1>. SUFFICES ASSUME Init PROVE DraftInv
    OBVIOUS
  <1>1. AtWork = Idle
    BY DEF Init, TypesInit, Active, AtWork
  <1>2. KeysKept
    BY NoVersions DEF KeysKept, Clean, Empty, Keyed, NamesApart
  <1>. QED BY <1>1, <1>2, IdleDrafts, KeptStart DEF DraftInv, DraftSeq

LEMMA DraftNext ==
  ASSUME DraftInv, [Next]_vars
  PROVE  DraftInv'
  <1>0. KeptInv /\ KeptInv' /\ DraftSeq
    BY KeptNext DEF DraftInv
  <1>. SUFFICES ASSUME "overlap" \notin trouble'
                PROVE  KeysKept' /\ \A r : r = AtWork' => OnCourse(r)'
    BY <1>0 DEF DraftInv, DraftSeq
  <1>1. CASE TypesNext
    <2>1. PICK q \in Reqs : TypesMove(q)
      BY <1>1, MovesOf
    <2>2. PICK o, s : Steps(q, o, s) /\ o = AtWork /\ s = AtWork'
      BY <1>0, <2>1, TypesSteps
    <2>3. StandingInv /\ "overlap" \notin trouble
      BY <1>0, <2>1, TypesSteps
    <2>4. KeysKept /\ OnCourse(o)
      BY <1>0, <2>2, <2>3 DEF DraftSeq
    <2>5. KeysKept' /\ OnCourse(s)'
      BY <2>1, <2>2, <2>3, <2>4, TypesDrafts
    <2>. QED BY <2>2, <2>5
  <1>2. CASE VersionsNext
    <2>1. PICK q \in Reqs : VersionsMove(q)
      BY <1>2, MovesOf
    <2>2. PICK s : s = AtWork'
      OBVIOUS
    <2>3. /\ s.op \notin SchemaOps /\ SchemaInv /\ "overlap" \notin trouble
          /\ UNCHANGED <<types, versions>>
      BY <1>0, <2>1, <2>2, VersionsSteps
    <2>4. OnCourse(s)'
      BY <2>3, NoDraft
    <2>5. KeysKept' 
      BY <1>0, <2>3, KeysSame DEF DraftSeq, Aged
    <2>. QED BY <2>2, <2>4, <2>5
  <1>3. CASE UNCHANGED vars
    <2>1. UNCHANGED <<types, versions, trouble, req>>
      BY <1>3 DEF vars, versionVars, schema
    <2>2. AtWork' = AtWork
      BY <2>1, WorkStays
    <2>3. PICK o : o = AtWork
      OBVIOUS
    <2>4. KeysKept /\ OnCourse(o)
      BY <1>0, <2>1, <2>3 DEF DraftSeq
    <2>5. KeysKept'
      BY <2>1, <2>4 DEF KeysKept, Latest, Clean, Rooted
    <2>6. OnCourse(o)'
      BY <2>1, <2>4 DEF OnCourse, NewType, NewVersion, Asked, Extended, NoRoots, Latest, Old, New
    <2>. QED BY <2>2, <2>3, <2>5, <2>6
  <1>. QED BY <1>1, <1>2, <1>3 DEF Next

LEMMA DraftHolds == Spec => []DraftInv
  BY DraftStart, DraftNext, PTL DEF Spec

-----------------------------------------------------------------------------
(***************************************************************************)
(* Two contents that differ by one edit, said of their members instead of  *)
(* counting them.                                                          *)
(***************************************************************************)
Lost(a, new) == \A b \in new : b.root # a.root

Altered(a, new) == \E b \in new : b.root = a.root /\ (b.name # a.name \/ b.tdv # a.tdv)

AttrsNear(old, new) ==
    \A a, b \in old :
       (Lost(a, new) /\ Lost(b, new)) \/ (Altered(a, new) /\ Altered(b, new)) => a.root = b.root

AssocsNear(old, new) == (\A a, b \in old \ new : a = b) /\ (\A a, b \in new \ old : a = b)

Kin(a, b) == a.name = b.name /\ a.tdv = b.tdv /\ a.root = b.root

SameAttrs(old, new) ==
    (\A a \in old : \E b \in new : Kin(a, b)) /\ (\A b \in new : \E a \in old : Kin(a, b))

Near(old, new) ==
    \/ old.assocs = new.assocs /\ AttrsNear(old.attrs, new.attrs)
    \/ SameAttrs(old.attrs, new.attrs) /\ AssocsNear(old.assocs, new.assocs)

(***************************************************************************)
(* Every version is near the one before, but for one that is being copied. *)
(***************************************************************************)
BeingCopied(r, t, v) ==
    r.op \in EditOps /\ r.pc \in {"copyAttrs", "copyAssocs"} /\ t = r.type /\ v = r.base

AllNear(r) ==
    \A t \in Types : \A v \in 1..(Latest(t) - 1) :
       Near(versions[t][v], versions[t][v + 1]) \/ BeingCopied(r, t, v)

LEMMA AtMostOne ==
  ASSUME NEW S, \A x, y \in S : x = y
  PROVE  Cardinality(S) <= 1
  <1>1. CASE S = {}
    BY <1>1, FS_EmptySet
  <1>2. CASE S # {}
    <2>1. PICK x \in S : TRUE
      BY <1>2
    <2>2. S = {x}
      BY <2>1
    <2>. QED BY <2>2, FS_Singleton
  <1>. QED BY <1>1, <1>2

LEMMA NearOneEdit ==
  ASSUME NEW old, NEW new, Keyed(old.attrs), Near(old, new)
  PROVE  \/ old.assocs = new.assocs /\ OneAttrEdit(old.attrs, new.attrs)
         \/ /\ Unordered(old).attrs = Unordered(new).attrs
            /\ OneAssocEdit(old.assocs, new.assocs)
  <1>1. ASSUME AttrsNear(old.attrs, new.attrs)
        PROVE  OneAttrEdit(old.attrs, new.attrs)
    <2>1. PICK L : L = {a.root : a \in old.attrs} \ {a.root : a \in new.attrs}
      OBVIOUS
    <2>2. \A x, y \in L : x = y
      BY <1>1, <2>1 DEF AttrsNear, Lost
    <2>3. PICK C : C = {a \in old.attrs : \E b \in new.attrs : b.root = a.root /\
                          (b.name # a.name \/ b.tdv # a.tdv)}
      OBVIOUS
    <2>4. \A x, y \in C : x = y
      BY <1>1, <2>3 DEF AttrsNear, Altered, Keyed
    <2>5. C = {a \in old.attrs : \E b \in new.attrs : a.root = b.root /\
                          (a.name # b.name \/ a.tdv # b.tdv)}
      BY <2>3
    <2>6. Cardinality(L) <= 1 /\ Cardinality(C) <= 1
      BY <2>2, <2>4, AtMostOne
    <2>. QED BY <2>1, <2>5, <2>6 DEF OneAttrEdit
  <1>2. ASSUME SameAttrs(old.attrs, new.attrs)
        PROVE  Unordered(old).attrs = Unordered(new).attrs
    <2>1. {<<a.name, a.tdv, a.root>> : a \in old.attrs} = {<<a.name, a.tdv, a.root>> : a \in new.attrs}
      BY <1>2 DEF SameAttrs, Kin
    <2>. QED BY <2>1 DEF Unordered
  <1>3. ASSUME AssocsNear(old.assocs, new.assocs)
        PROVE  OneAssocEdit(old.assocs, new.assocs)
    BY <1>3, AtMostOne DEF AssocsNear, OneAssocEdit
  <1>. QED BY <1>1, <1>2, <1>3 DEF Near

-----------------------------------------------------------------------------
(***************************************************************************)
(* Each edit leaves its version near the one it copied.                    *)
(***************************************************************************)
LEMMA NearGrown ==
  ASSUME NEW old, NEW new, new.assocs = old.assocs, old.attrs \subseteq new.attrs, Keyed(new.attrs)
  PROVE  Near(old, new)
  <1>1. ASSUME NEW a \in old.attrs PROVE ~Lost(a, new.attrs) /\ ~Altered(a, new.attrs)
    BY DEF Lost, Altered, Keyed
  <1>. QED BY <1>1 DEF Near, AttrsNear

LEMMA NearDropped ==
  ASSUME NEW old, NEW new, NEW n, Keyed(old.attrs), new.assocs = old.assocs,
         new.attrs = {a \in old.attrs : a.name # n}
  PROVE  Near(old, new)
  <1>1. ASSUME NEW a \in old.attrs PROVE (Lost(a, new.attrs) => a.name = n) /\ ~Altered(a, new.attrs)
    BY DEF Lost, Altered, Keyed
  <1>2. AttrsNear(old.attrs, new.attrs)
    BY <1>1 DEF AttrsNear, Keyed
  <1>. QED BY <1>2 DEF Near

LEMMA NearChanged ==
  ASSUME NEW r, NEW old \in Finite, Made(r).attrs = old.attrs, Keyed(old.attrs), NEW new,
         new.assocs = old.assocs, new.attrs = ChangedAttrs(r)
  PROVE  Near(old, new)
  <1>1. CASE Clash(r, old.attrs)
    BY <1>1, NearGrown DEF ChangedAttrs
  <1>2. CASE ~Clash(r, old.attrs)
    <2>. DEFINE edited(a) == IF a.name = r.name THEN EditedAttr(r, a) ELSE a
    <2>1. new.attrs = {edited(a) : a \in old.attrs}
      BY <1>2 DEF ChangedAttrs
    <2>2. ASSUME NEW a \in old.attrs
          PROVE  edited(a).root = a.root /\ (a.name # r.name => edited(a) = a)
      <3>1. a \in Attr
        BY FiniteParts
      <3>. QED BY <3>1, EditedAttrIs
    <2>. HIDE DEF edited
    <2>3. ASSUME NEW a \in old.attrs
          PROVE  ~Lost(a, new.attrs) /\ (Altered(a, new.attrs) => a.name = r.name)
      <3>1. edited(a) \in new.attrs
        BY <2>1
      <3>2. ~Lost(a, new.attrs)
        BY <2>2, <3>1 DEF Lost
      <3>3. ASSUME Altered(a, new.attrs) PROVE a.name = r.name
        <4>1. PICK b \in old.attrs : /\ edited(b).root = a.root
                                     /\ edited(b).name # a.name \/ edited(b).tdv # a.tdv
          BY <2>1, <3>3 DEF Altered
        <4>2. b = a
          BY <2>2, <4>1 DEF Keyed
        <4>. QED BY <2>2, <4>1, <4>2
      <3>. QED BY <3>2, <3>3
    <2>4. AttrsNear(old.attrs, new.attrs)
      BY <2>3 DEF AttrsNear, Keyed
    <2>. QED BY <2>4 DEF Near
  <1>. QED BY <1>1, <1>2

LEMMA NearAssocs ==
  ASSUME NEW old, NEW new, new.attrs = old.attrs, AssocsNear(old.assocs, new.assocs)
  PROVE  Near(old, new)
  BY DEF Near, SameAttrs, Kin

LEMMA NearAssocsChanged ==
  ASSUME NEW r, NEW old, Made(r).assocs = old.assocs, NamesApart(old.assocs), NEW new,
         new.attrs = old.attrs, new.assocs = ChangedAssocs(r)
  PROVE  Near(old, new)
  <1>1. CASE Clash(r, old.assocs)
    BY <1>1, NearAssocs DEF ChangedAssocs, AssocsNear
  <1>2. CASE ~Clash(r, old.assocs)
    <2>. DEFINE edited(a) == IF a.name = r.name THEN EditedAssoc(r, a) ELSE a
    <2>1. new.assocs = {edited(a) : a \in old.assocs}
      BY <1>2 DEF ChangedAssocs
    <2>2. \A a \in old.assocs : a.name # r.name => edited(a) = a
      OBVIOUS
    <2>. HIDE DEF edited
    <2>3. \A a \in old.assocs \ new.assocs : a.name = r.name
      BY <2>1, <2>2
    <2>4. \A b \in new.assocs \ old.assocs : \E a \in old.assocs : a.name = r.name /\ b = edited(a)
      BY <2>1, <2>2
    <2>5. AssocsNear(old.assocs, new.assocs)
      BY <2>3, <2>4 DEF AssocsNear, NamesApart
    <2>. QED BY <2>5, NearAssocs
  <1>. QED BY <1>1, <1>2

LEMMA NearRenumbered ==
  ASSUME NEW d \in Finite, NEW c, NEW f, c.attrs = {f[a] : a \in d.attrs},
         \A a \in d.attrs : Renumbered(a, f[a]), c.assocs = d.assocs
  PROVE  /\ \A x : Near(x, d) => Near(x, c)
         /\ \A x : Near(d, x) => Near(c, x)
  <1>1. ASSUME NEW a \in d.attrs
        PROVE  Kin(a, f[a])
    <2>1. a \in Attr
      BY FiniteParts
    <2>2. PICK n : f[a] = [a EXCEPT !.ord = n]
      BY DEF Renumbered
    <2>. QED BY <2>1, <2>2 DEF Attr, Kin
  <1>2. /\ \A a \in d.attrs : \E b \in c.attrs : Kin(a, b)
        /\ \A b \in c.attrs : \E a \in d.attrs : Kin(a, b)
    BY <1>1
  <1>3. ASSUME NEW x
        PROVE  AttrsNear(x.attrs, d.attrs) => AttrsNear(x.attrs, c.attrs)
    <2>1. \A a : Lost(a, c.attrs) => Lost(a, d.attrs)
      BY <1>2 DEF Lost, Kin
    <2>2. \A a : Altered(a, c.attrs) => Altered(a, d.attrs)
      BY <1>2 DEF Altered, Kin
    <2>. QED BY <2>1, <2>2 DEF AttrsNear
  <1>4. ASSUME NEW x
        PROVE  AttrsNear(d.attrs, x.attrs) => AttrsNear(c.attrs, x.attrs)
    <2>1. \A a, b : Kin(a, b) /\ Lost(b, x.attrs) => Lost(a, x.attrs)
      BY DEF Lost, Kin
    <2>2. \A a, b : Kin(a, b) /\ Altered(b, x.attrs) => Altered(a, x.attrs)
      BY DEF Altered, Kin
    <2>3. \A a, b : Kin(a, b) => a.root = b.root
      BY DEF Kin
    <2>. SUFFICES ASSUME AttrsNear(d.attrs, x.attrs), NEW a \in c.attrs, NEW b \in c.attrs,
                         \/ Lost(a, x.attrs) /\ Lost(b, x.attrs)
                         \/ Altered(a, x.attrs) /\ Altered(b, x.attrs)
                  PROVE  a.root = b.root
      BY DEF AttrsNear
    <2>4. PICK k \in d.attrs, l \in d.attrs : Kin(k, a) /\ Kin(l, b)
      BY <1>2
    <2>5. k.root = l.root
      BY <2>1, <2>2, <2>4 DEF AttrsNear
    <2>. QED BY <2>3, <2>4, <2>5
  <1>5. ASSUME NEW x
        PROVE  /\ SameAttrs(x.attrs, d.attrs) => SameAttrs(x.attrs, c.attrs)
               /\ SameAttrs(d.attrs, x.attrs) => SameAttrs(c.attrs, x.attrs)
    <2>1. \A a, b, e : Kin(a, b) /\ Kin(b, e) => Kin(a, e) /\ Kin(b, a)
      BY DEF Kin
    <2>2. ASSUME SameAttrs(x.attrs, d.attrs) PROVE SameAttrs(x.attrs, c.attrs)
      <3>1. \A a \in x.attrs : \E b \in c.attrs : Kin(a, b)
        <4>. TAKE a \in x.attrs
        <4>1. PICK e \in d.attrs : Kin(a, e)
          BY <2>2 DEF SameAttrs
        <4>. QED BY <1>2, <2>1, <4>1
      <3>2. \A b \in c.attrs : \E a \in x.attrs : Kin(a, b)
        <4>. TAKE b \in c.attrs
        <4>1. PICK e \in d.attrs : Kin(e, b)
          BY <1>2
        <4>2. PICK a \in x.attrs : Kin(a, e)
          BY <2>2 DEF SameAttrs
        <4>. QED BY <2>1, <4>1, <4>2
      <3>. QED BY <3>1, <3>2 DEF SameAttrs
    <2>3. ASSUME SameAttrs(d.attrs, x.attrs) PROVE SameAttrs(c.attrs, x.attrs)
      <3>1. \A a \in c.attrs : \E b \in x.attrs : Kin(a, b)
        <4>. TAKE a \in c.attrs
        <4>1. PICK e \in d.attrs : Kin(e, a)
          BY <1>2
        <4>2. PICK b \in x.attrs : Kin(e, b)
          BY <2>3 DEF SameAttrs
        <4>. QED BY <4>1, <4>2 DEF Kin
      <3>2. \A b \in x.attrs : \E a \in c.attrs : Kin(a, b)
        <4>. TAKE b \in x.attrs
        <4>1. PICK e \in d.attrs : Kin(e, b)
          BY <2>3 DEF SameAttrs
        <4>2. PICK a \in c.attrs : Kin(e, a)
          BY <1>2
        <4>. QED BY <4>1, <4>2 DEF Kin
      <3>. QED BY <3>1, <3>2 DEF SameAttrs
    <2>. QED BY <2>2, <2>3
  <1>. QED BY <1>3, <1>4, <1>5 DEF Near

-----------------------------------------------------------------------------
(***************************************************************************)
(* The versions after each kind of write.                                  *)
(***************************************************************************)
Copying(r) == r.op \in EditOps /\ r.pc \in {"copyAttrs", "copyAssocs"}

LEMMA NearSame ==
  ASSUME NEW o, AllNear(o), ~Copying(o), versions' = versions, NEW s
  PROVE  AllNear(s)'
  BY DEF AllNear, BeingCopied, Copying, Latest

LEMMA NearWritten ==
  ASSUME SchemaInv, NEW o, AllNear(o), o.op \in EditOps, NewVersion(o), o.pc # "create",
         NEW c, Writing(o, c), NEW s, Near(Old(o), c) \/ BeingCopied(s, o.type, o.base)
  PROVE  AllNear(s)'
  <1>1. /\ o.base \in Nat \ {0} /\ o.made = o.base + 1 /\ o.type \in Types
        /\ Latest(o.type) = o.base + 1
    BY Drafting
  <1>2. /\ versions'[o.type][o.base + 1] = c
        /\ versions'[o.type][o.base] = Old(o)
        /\ \A t \in Types : Latest(t)' = Latest(t)
    BY DraftWritten DEF Old
  <1>. SUFFICES ASSUME NEW t \in Types, NEW v \in 1..(Latest(t)' - 1)
                PROVE  Near(versions'[t][v], versions'[t][v + 1]) \/ BeingCopied(s, t, v)
    BY DEF AllNear, BeingCopied
  <1>3. Latest(t) \in Nat /\ Latest(t)' = Latest(t)
    BY <1>2, LatestNat DEF SchemaInv
  <1>4. v \in 1..(Latest(t) - 1) /\ v \in 1..Latest(t) /\ v + 1 \in 1..Latest(t)
    BY <1>3
  <1>5. CASE t = o.type /\ v = o.base
    BY <1>2, <1>5
  <1>6. CASE ~(t = o.type /\ v = o.base)
    <2>1. Near(versions[t][v], versions[t][v + 1])
      BY <1>4, <1>6 DEF AllNear, BeingCopied
    <2>2. t # o.type \/ (v # o.made /\ v + 1 # o.made)
      BY <1>1, <1>4, <1>6
    <2>3. versions'[t][v] = versions[t][v] /\ versions'[t][v + 1] = versions[t][v + 1]
      BY <1>4, <2>2, ContentSet DEF Writing
    <2>. QED BY <2>1, <2>3
  <1>. QED BY <1>5, <1>6

LEMMA CreateVersionNear ==
  ASSUME TypedInv, NEW q \in Reqs, NEW o, NEW s, Steps(q, o, s), OnCourse(o), AllNear(o),
         CreateVersion(q)
  PROVE  AllNear(s)'
  <1>0. /\ SchemaInv /\ o = req[q] /\ o \in Request /\ o.op \in SchemaOps /\ o.type \in Types
        /\ o.pc = "create" /\ ~Copying(o)
    BY EditingTyped DEF CreateVersion, Steps, TypedInv, Copying
  <1>1. CASE versions' = versions
    BY <1>0, <1>1, NearSame
  <1>2. CASE /\ Appends(o.type) /\ Latest(o.type) = o.base
             /\ req' = [req EXCEPT ![q] = IF o.op = "createType" THEN Idle
                                            ELSE [o EXCEPT !.made = o.base + 1, !.pc = "copyAttrs"]]
    <2>1. PICK n : n = o.base + 1
      OBVIOUS
    <2>2. s = IF o.op = "createType" THEN Idle ELSE [o EXCEPT !.made = n, !.pc = "copyAttrs"]
      BY <1>2, <2>1 DEF Steps, TypedInv, SchemaInv, Requested
    <2>. SUFFICES ASSUME NEW t \in Types, NEW v \in 1..(Latest(t)' - 1)
                  PROVE  Near(versions'[t][v], versions'[t][v + 1]) \/ BeingCopied(s, t, v)
      BY DEF AllNear, BeingCopied
    <2>3. Latest(t) \in Nat
      BY <1>0, LatestNat DEF SchemaInv
    <2>4. CASE v \in 1..(Latest(t) - 1)
      <3>1. Near(versions[t][v], versions[t][v + 1])
        BY <1>0, <2>4 DEF AllNear, BeingCopied, Copying
      <3>2. v \in 1..Latest(t) /\ v + 1 \in 1..Latest(t)
        BY <2>3, <2>4
      <3>3. versions'[t][v] = versions[t][v] /\ versions'[t][v + 1] = versions[t][v + 1]
        BY <1>0, <1>2, <3>2, Appended
      <3>. QED BY <3>1, <3>3
    <2>5. CASE v \notin 1..(Latest(t) - 1)
      <3>1. Latest(t)' # Latest(t)
        BY <2>5
      <3>2. t = o.type /\ Latest(t)' = Latest(t) + 1
        BY <1>0, <1>2, <3>1, Appended
      <3>3. v = o.base /\ o.base # 0
        BY <1>2, <2>3, <2>5, <3>2
      <3>4. o.op \in EditOps
        BY <1>0, <3>3 DEF OnCourse, NewType
      <3>5. s.op = o.op /\ s.pc = "copyAttrs" /\ s.type = o.type /\ s.base = o.base
        BY <1>0, <2>2, <3>4 DEF Request, EditOps
      <3>. QED BY <3>2, <3>3, <3>4, <3>5 DEF BeingCopied
    <2>. QED BY <2>4, <2>5
  <1>. QED BY <1>0, <1>1, <1>2 DEF CreateVersion, Appends

LEMMA CopyAttrsNear ==
  ASSUME TypedInv, NEW q \in Reqs, NEW o, NEW s, Steps(q, o, s), OnCourse(o), AllNear(o), CopyAttrs(q)
  PROVE  AllNear(s)'
  <1>0. /\ SchemaInv /\ o = req[q] /\ o \in Request /\ o.op \in SchemaOps /\ o.type \in Types
        /\ o.pc = "copyAttrs"
    BY EditingTyped DEF CopyAttrs, Steps, TypedInv
  <1>1. PICK c : Writing(o, c)
    BY <1>0, CopyWrites
  <1>2. CASE o.op \in EditOps
    <2>1. req' = [req EXCEPT ![q] = [o EXCEPT !.pc = "copyAssocs"]]
      BY <1>0, <1>2 DEF CopyAttrs, Goto
    <2>2. s = [o EXCEPT !.pc = "copyAssocs"]
      BY <2>1 DEF Steps, TypedInv, SchemaInv, Requested
    <2>3. BeingCopied(s, o.type, o.base)
      BY <1>0, <1>2, <2>2 DEF Request, BeingCopied
    <2>. QED BY <1>0, <1>1, <1>2, <2>3, NearWritten DEF OnCourse
  <1>3. CASE o.op \notin EditOps
    <2>1. o.made = 1 /\ Latest(o.type) = 1
      BY <1>0, <1>3 DEF OnCourse, NewType
    <2>. SUFFICES ASSUME NEW t \in Types, NEW v \in 1..(Latest(t)' - 1)
                  PROVE  Near(versions'[t][v], versions'[t][v + 1])
      BY DEF AllNear
    <2>2. Latest(t) \in Nat /\ Latest(t)' = Latest(t)
      BY <1>0, <1>1, LatestNat, ContentSet DEF SchemaInv, Writing
    <2>3. t # o.type /\ v \in 1..(Latest(t) - 1) /\ v \in 1..Latest(t) /\ v + 1 \in 1..Latest(t)
      BY <2>1, <2>2
    <2>4. versions'[t][v] = versions[t][v] /\ versions'[t][v + 1] = versions[t][v + 1]
      BY <1>0, <1>1, <2>3, ContentSet DEF Writing
    <2>. QED BY <1>3, <2>3, <2>4 DEF AllNear, BeingCopied
  <1>. QED BY <1>2, <1>3

LEMMA CopyAssocsNear ==
  ASSUME TypedInv, KeysKept, NEW q \in Reqs, NEW o, NEW s, Steps(q, o, s), OnCourse(o), AllNear(o),
         CopyAssocs(q)
  PROVE  AllNear(s)'
  <1>0. /\ SchemaInv /\ o = req[q] /\ o \in Request /\ o.op \in SchemaOps /\ o.type \in Types
        /\ o.pc = "copyAssocs"
    BY EditingTyped DEF CopyAssocs, Steps, TypedInv
  <1>1. o.op \in EditOps /\ NewVersion(o)
    BY <1>0 DEF OnCourse, NewType
  <1>2. PICK c : Writing(o, c) /\ c.assocs = Source(o).assocs /\ c.attrs = Made(o).attrs
    BY <1>0, CopyWrites
  <1>3. c.attrs = Old(o).attrs /\ c.assocs = Old(o).assocs
    <2>1. New(o).attrs = Old(o).attrs
      BY <1>0, <1>1 DEF NewVersion
    <2>. QED BY <1>0, <1>1, <1>2, <2>1, Drafting
  <1>4. Keyed(Old(o).attrs)
    BY <1>0, <1>1, CleanOld DEF Clean
  <1>5. Near(Old(o), c)
    BY <1>3, <1>4, NearGrown
  <1>. QED BY <1>0, <1>1, <1>2, <1>5, NearWritten

LEMMA InsertAttrNear ==
  ASSUME StandingInv, KeysKept, NEW q \in Reqs, NEW o, NEW s, Steps(q, o, s), OnCourse(o), AllNear(o),
         InsertAttr(q)
  PROVE  AllNear(s)'
  <1>0. /\ TypedInv /\ SchemaInv /\ o = req[q] /\ o \in Request /\ o.op \in SchemaOps
        /\ o.type \in Types /\ o.pc = "change" /\ ~Copying(o)
    BY EditingTyped DEF InsertAttr, Steps, StandingInv, TypedInv, Copying
  <1>1. o.op \in EditOps /\ NewVersion(o)
    BY <1>0 DEF OnCourse, NewType
  <1>2. o.adds \in Seq(Attr) /\ o.adds # << >>
    BY <1>0, InsertAttrWrites
  <1>3. CASE versions' = versions
    BY <1>0, <1>3, NearSame
  <1>4. CASE /\ Head(o.adds).name \notin AttrNames(o.type, o.made)
             /\ \E c : /\ Writing(o, c) /\ c.assocs = Made(o).assocs
                       /\ c.attrs = Made(o).attrs \cup {Head(o.adds)}
    <2>1. PICK c : /\ Writing(o, c) /\ c.assocs = Made(o).assocs
                   /\ c.attrs = Made(o).attrs \cup {Head(o.adds)}
      BY <1>4
    <2>2. Keyed(c.attrs)
      BY <1>0, <1>1, <1>2, <1>4, <2>1, InsertClean DEF Clean
    <2>3. Made(o) = New(o) /\ Extended(o)
      BY <1>0, <1>1, Drafting DEF NewVersion
    <2>4. Near(Old(o), c)
      BY <2>1, <2>2, <2>3, NearGrown DEF Extended
    <2>. QED BY <1>0, <1>1, <2>1, <2>4, NearWritten
  <1>. QED BY <1>0, <1>3, <1>4, InsertAttrWrites

LEMMA EditsNear ==
  ASSUME TypedInv, KeysKept, NEW q \in Reqs, NEW o, NEW s, Steps(q, o, s), OnCourse(o), AllNear(o),
         Edits(q)
  PROVE  AllNear(s)'
  <1>0. /\ SchemaInv /\ o = req[q] /\ o \in Request /\ o.op \in SchemaOps /\ o.type \in Types
        /\ o.pc = "change"
    BY EditingTyped DEF Edits, DropAttr, SetAttr, InsertAssoc, SetAssoc, DropAssoc, Changing, Steps,
       TypedInv
  <1>1. o.op \in EditOps /\ NewVersion(o)
    BY <1>0 DEF OnCourse, NewType
  <1>2. o.adds = << >>
    <2>1. o.op \notin {"addAttribute", "copyAttributes"}
      BY <1>0 DEF Edits, DropAttr, SetAttr, InsertAssoc, SetAssoc, DropAssoc, Changing
    <2>. QED BY <1>1, <2>1 DEF NewVersion, Asked
  <1>3. /\ Made(o).attrs = Old(o).attrs /\ Made(o).assocs = Old(o).assocs /\ Old(o) \in Finite
        /\ Keyed(Old(o).attrs) /\ NamesApart(Old(o).assocs)
    <2>1. Extended(o)
      BY <1>0, <1>1 DEF NewVersion
    <2>2. New(o).attrs = Old(o).attrs /\ New(o).assocs = Old(o).assocs
      BY <1>2, <2>1 DEF Extended
    <2>. QED BY <1>0, <1>1, <2>2, Drafting, CleanOld DEF Clean
  <1>4. \E c : Writing(o, c) /\ Near(Old(o), c)
    <2>1. CASE DropAttr(q)
      <3>1. PICK c : /\ Writing(o, c) /\ c.assocs = Old(o).assocs
                     /\ c.attrs = {a \in Old(o).attrs : a.name # o.name}
        BY <1>0, <1>3, <2>1, DropWrites
      <3>. QED BY <1>3, <3>1, NearDropped
    <2>2. CASE DropAssoc(q)
      <3>1. PICK c : /\ Writing(o, c) /\ c.attrs = Old(o).attrs
                     /\ c.assocs = {a \in Old(o).assocs : a.name # o.name}
        BY <1>0, <1>3, <2>2, DropWrites
      <3>2. AssocsNear(Old(o).assocs, c.assocs)
        BY <1>3, <3>1 DEF AssocsNear, NamesApart
      <3>. QED BY <3>1, <3>2, NearAssocs
    <2>3. CASE SetAttr(q)
      <3>1. PICK c : Writing(o, c) /\ c.assocs = Made(o).assocs /\ c.attrs = ChangedAttrs(o)
        BY <1>0, <2>3, SetWrites
      <3>2. c.assocs = Old(o).assocs
        BY <1>3, <3>1
      <3>. QED BY <1>3, <3>1, <3>2, NearChanged
    <2>4. CASE SetAssoc(q)
      <3>1. PICK c : Writing(o, c) /\ c.attrs = Made(o).attrs /\ c.assocs = ChangedAssocs(o)
        BY <1>0, <2>4, SetWrites
      <3>2. c.attrs = Old(o).attrs
        BY <1>3, <3>1
      <3>. QED BY <1>3, <3>1, <3>2, NearAssocsChanged
    <2>5. CASE InsertAssoc(q)
      <3>1. PICK c : /\ Writing(o, c) /\ c.attrs = Old(o).attrs
                     /\ c.assocs = IF \E a \in Old(o).assocs : a.name = o.assoc.name
                                     THEN Old(o).assocs ELSE Old(o).assocs \cup {o.assoc}
        BY <1>0, <1>3, <2>5, SetWrites
      <3>2. AssocsNear(Old(o).assocs, c.assocs)
        BY <3>1 DEF AssocsNear
      <3>. QED BY <3>1, <3>2, NearAssocs
    <2>. QED BY <2>1, <2>2, <2>3, <2>4, <2>5 DEF Edits
  <1>. QED BY <1>0, <1>1, <1>4, NearWritten

LEMMA RenumberNear ==
  ASSUME SchemaInv, NEW q \in Reqs, NEW o, o = req[q], AllNear(o), Renumber(q), NEW s
  PROVE  AllNear(s)'
  <1>1. o.type \in Types /\ o.pc = "reorder" /\ o \in Request
    BY EditingTyped DEF Renumber
  <1>2. PICK d \in Finite : d = Made(o)
    BY <1>1, MadeParts
  <1>3. PICK c, f : /\ Writing(o, c) /\ c.assocs = d.assocs
                    /\ c.attrs = {f[a] : a \in d.attrs}
                    /\ \A a \in d.attrs : Renumbered(a, f[a])
    BY <1>2, RenumberWrites
  <1>4. (\A x : Near(x, d) => Near(x, c)) /\ (\A x : Near(d, x) => Near(c, x))
    BY <1>3, NearRenumbered
  <1>. SUFFICES ASSUME NEW t \in Types, NEW v \in 1..(Latest(t)' - 1)
                PROVE  Near(versions'[t][v], versions'[t][v + 1])
    BY DEF AllNear
  <1>5. Latest(t) \in Nat /\ Latest(t)' = Latest(t)
    BY <1>3, LatestNat, ContentSet DEF SchemaInv, Writing
  <1>6. v \in 1..(Latest(t) - 1) /\ v \in 1..Latest(t) /\ v + 1 \in 1..Latest(t) /\ v # v + 1
    BY <1>5
  <1>7. Near(versions[t][v], versions[t][v + 1])
    BY <1>1, <1>6 DEF AllNear, BeingCopied
  <1>8. ASSUME NEW w \in 1..Latest(t)
        PROVE  /\ t = o.type /\ w = o.made => versions[t][w] = d /\ versions'[t][w] = c
               /\ ~(t = o.type /\ w = o.made) => versions'[t][w] = versions[t][w]
    BY <1>2, <1>3, ContentSet DEF Writing, Has, Made
  <1>. QED BY <1>4, <1>6, <1>7, <1>8

LEMMA DeletedNear ==
  ASSUME SchemaInv, NEW o, AllNear(o), ~Copying(o), NEW q \in Reqs, DeleteEntityType(q), NEW s
  PROVE  AllNear(s)'
  <1>. SUFFICES ASSUME NEW t \in Types, NEW v \in 1..(Latest(t)' - 1)
                PROVE  Near(versions'[t][v], versions'[t][v + 1])
    BY DEF AllNear
  <1>1. versions'[t] = versions[t] /\ v \in 1..(Latest(t) - 1)
    BY Deleted DEF Latest
  <1>. QED BY <1>1 DEF AllNear, BeingCopied, Copying

LEMMA TypesNear ==
  ASSUME StandingInv, KeysKept, NEW q \in Reqs, NEW o, NEW s, Steps(q, o, s), OnCourse(o), AllNear(o),
         TypesMove(q), "db" \notin trouble'
  PROVE  AllNear(s)'
  <1>0. TypedInv /\ SchemaInv /\ o = req[q]
    BY DEF StandingInv, TypedInv, Steps
  <1>1. ASSUME o = Idle PROVE ~Copying(o)
    BY <1>1 DEF Copying, Idle, EditOps
  <1>2. CASE \/ UpdateEntityType(q) \/ AddAttribute(q) \/ RemoveAttribute(q) \/ EditAttribute(q)
             \/ CopyAttributesFromType(q) \/ CreateAssociation(q) \/ EditAssociation(q)
             \/ DeleteAssociation(q)
    <2>1. EditBegun(q)
      BY <1>0, <1>2, EditsBegin
    <2>2. versions' = versions
      BY <2>1 DEF EditBegun, StartEdit, schema
    <2>3. o = Idle
      BY <1>0, <1>2 DEF UpdateEntityType, AddAttribute, RemoveAttribute, EditAttribute,
         CopyAttributesFromType, CreateAssociation, EditAssociation, DeleteAssociation, Ready
    <2>. QED BY <1>1, <2>2, <2>3, NearSame
  <1>3. CASE \/ ReorderAttributes(q) \/ CreateEntityType(q) \/ CopyEntityType(q)
             \/ CreateTypeDefinition(q) \/ UpdateTypeDefinition(q) \/ DeleteTypeDefinition(q)
             \/ RenameEntityType(q)
    <2>1. versions' = versions /\ o = Idle
      BY <1>0, <1>3 DEF ReorderAttributes, CreateEntityType, CopyEntityType, RenameEntityType,
         CreateTypeDefinition, UpdateTypeDefinition, DeleteTypeDefinition, schema, Ready
    <2>. QED BY <1>1, <2>1, NearSame
  <1>4. CASE DeleteEntityType(q)
    <2>1. o = Idle
      BY <1>0, <1>4 DEF DeleteEntityType, Ready
    <2>. QED BY <1>0, <1>1, <1>4, <2>1, DeletedNear
  <1>5. CASE SaveType(q) \/ InsertDefVersion(q) \/ DropDef(q) \/ ReadType(q) \/ InsertDef(q)
             \/ InsertType(q)
    <2>1. versions' = versions /\ ~Copying(o)
      BY <1>0, <1>5 DEF SaveType, InsertDefVersion, DropDef, ReadType, InsertDef, InsertType,
         schema, At, Copying
    <2>. QED BY <2>1, NearSame
  <1>6. CASE Fail(q)
    BY <1>6 DEF Fail
  <1>. QED BY <1>0, <1>2, <1>3, <1>4, <1>5, <1>6, CreateVersionNear, CopyAttrsNear, CopyAssocsNear,
              InsertAttrNear, EditsNear, RenumberNear DEF TypesMove, Edits

-----------------------------------------------------------------------------
(***************************************************************************)
(* Requests for catalog versions start where no request is, or go on.      *)
(***************************************************************************)
LEMMA VersionsFrom ==
  ASSUME SchemaInv, TypeInv, NEW q \in Reqs, VersionsMove(q)
  PROVE  req[q].op \notin SchemaOps
  <1>1. CASE Begins(q) \/ Wholes(q)
    <2>1. req[q] = Idle
      BY <1>1 DEF Begins, Wholes, CreateCatalogVersion, Promote, Demote, DeleteCatalogVersion,
         UpdateCatalogVersion, AddPin, RemovePin, UpdatePin, CreateCatalog, Validate, SetValue,
         Whole, Ready
    <2>. QED BY <2>1 DEF Idle, SchemaOps, EditOps
  <1>2. CASE Statement(q) \/ ListCatalogs(q) \/ ResetCatalog(q)
    <2>1. req[q].op \in CVOps
      BY <1>2, StatementOf
    <2>. QED BY <2>1 DEF CVOps, SchemaOps, EditOps
  <1>. QED BY <1>1, <1>2, MoveKinds

LEMMA VersionsLeave ==
  ASSUME KeptInv, NEW q \in Reqs, VersionsMove(q), "overlap" \notin trouble'
  PROVE  AtWork.op \notin SchemaOps
  <1>0. /\ TypedInv /\ StandingInv /\ TypeInv /\ SchemaInv
        /\ trouble \subseteq trouble' /\ UNCHANGED <<types, versions>>
    BY Writers DEF KeptInv, SeqInv, StandingInv, TypedInv
  <1>1. PICK s : req' = [req EXCEPT ![q] = s]
    BY <1>0, VersionsGo
  <1>2. Steps(q, req[q], s)
    BY <1>0, <1>1, VersionsWork DEF KeptInv, SeqInv, Running
  <1>3. AtWork = req[q]
    BY <1>2 DEF Steps
  <1>. QED BY <1>0, <1>3, VersionsFrom

(***************************************************************************)
(* Without failures, and while requests come one at a time, every version  *)
(* is near the one before.                                                 *)
(***************************************************************************)
NearSeq ==
    trouble \cap {"overlap", "db"} = {} => \A r : r = AtWork => AllNear(r)

NearInv == DraftInv /\ NearSeq

LEMMA NearStart == Init => NearInv
  <1>. SUFFICES ASSUME Init PROVE NearSeq
    BY DraftStart DEF NearInv
  <1>1. ASSUME NEW t \in Types PROVE Latest(t) \in 0..1
    BY DEF Init, TypesInit, Latest
  <1>2. \A t \in Types : 1..(Latest(t) - 1) = {}
    BY <1>1
  <1>. QED BY <1>2 DEF NearSeq, AllNear

LEMMA NearNext ==
  ASSUME NearInv, [Next]_vars
  PROVE  NearInv'
  <1>0. KeptInv /\ DraftInv' /\ DraftSeq /\ NearSeq
    BY DraftNext DEF NearInv, DraftInv
  <1>. SUFFICES ASSUME trouble' \cap {"overlap", "db"} = {}
                PROVE  \A r : r = AtWork' => AllNear(r)'
    BY <1>0 DEF NearInv, NearSeq
  <1>1. CASE TypesNext
    <2>1. PICK q \in Reqs : TypesMove(q)
      BY <1>1, MovesOf
    <2>2. PICK o, s : Steps(q, o, s) /\ o = AtWork /\ s = AtWork'
      BY <1>0, <2>1, TypesSteps
    <2>3. StandingInv /\ trouble \cap {"overlap", "db"} = {}
      BY <1>0, <2>1, TypesSteps
    <2>4. KeysKept /\ OnCourse(o) /\ AllNear(o)
      BY <1>0, <2>2, <2>3 DEF DraftSeq, NearSeq
    <2>5. AllNear(s)'
      BY <2>1, <2>2, <2>3, <2>4, TypesNear
    <2>. QED BY <2>2, <2>5
  <1>2. CASE VersionsNext
    <2>1. PICK q \in Reqs : VersionsMove(q)
      BY <1>2, MovesOf
    <2>2. PICK o, s : o = AtWork /\ s = AtWork'
      OBVIOUS
    <2>3. trouble \cap {"overlap", "db"} = {} /\ versions' = versions
      BY <1>0, <2>1, VersionsSteps
    <2>4. AllNear(o) /\ ~Copying(o)
      <3>1. o.op \notin SchemaOps
        BY <1>0, <2>1, <2>2, VersionsLeave
      <3>. QED BY <1>0, <2>2, <2>3, <3>1 DEF NearSeq, Copying, SchemaOps
    <2>5. AllNear(s)'
      BY <2>3, <2>4, NearSame
    <2>. QED BY <2>2, <2>5
  <1>3. CASE UNCHANGED vars
    <2>1. UNCHANGED <<versions, trouble, req>>
      BY <1>3 DEF vars, versionVars, schema
    <2>2. AtWork' = AtWork
      BY <2>1, WorkStays
    <2>3. PICK o : o = AtWork
      OBVIOUS
    <2>4. AllNear(o)
      BY <1>0, <2>1, <2>3 DEF NearSeq
    <2>5. AllNear(o)'
      BY <2>1, <2>4 DEF AllNear, BeingCopied, Latest
    <2>. QED BY <2>2, <2>3, <2>5
  <1>. QED BY <1>1, <1>2, <1>3 DEF Next

LEMMA NearHolds == Spec => []NearInv
  BY NearStart, NearNext, PTL DEF Spec

(***************************************************************************)
(* Without failures and overlapping edits, adjacent versions of a type     *)
(* differ by one edit: an edit carries everything it is not about forward, *)
(* through the statements that insert the version, copy the attributes,    *)
(* copy the associations and change the copy.                              *)
(***************************************************************************)
THEOREM EditsCarried == Spec => []CarriedForward
  <1>1. NearInv => CarriedForward
    <2>. SUFFICES ASSUME NearInv, trouble \cap {"overlap", "db"} = {}, Active = {},
                         NEW t \in Types, NEW v \in 1..(Latest(t) - 1),
                         NEW old, old = versions[t][v], NEW new, new = versions[t][v + 1]
                  PROVE  \/ old.assocs = new.assocs /\ OneAttrEdit(old.attrs, new.attrs)
                         \/ /\ Unordered(old).attrs = Unordered(new).attrs
                            /\ OneAssocEdit(old.assocs, new.assocs)
      BY DEF CarriedForward
    <2>1. AtWork = Idle /\ SchemaInv /\ KeysKept
      BY AtRest DEF NearInv, DraftInv, DraftSeq, KeptInv, SeqInv, StandingInv, TypedInv
    <2>2. AllNear(Idle)
      BY <2>1 DEF NearInv, NearSeq
    <2>3. Near(old, new)
      BY <2>2 DEF AllNear, BeingCopied, Idle, EditOps
    <2>4. v \in 1..Latest(t)
      BY <2>1, LatestNat DEF SchemaInv
    <2>5. Keyed(old.attrs)
      BY <2>1, <2>4 DEF KeysKept, Clean
    <2>. QED BY <2>3, <2>5, NearOneEdit
  <1>. QED BY <1>1, NearHolds, PTL

-----------------------------------------------------------------------------
(***************************************************************************)
(* What a write does to the containment graph: it gets no edge but those   *)
(* of the content that is written.                                         *)
(***************************************************************************)
EdgesOf(t, c) == {x \in {t} \X Types : \E a \in c.assocs : a.kind = "containment" /\ a.target = x[2]}

Fewer == ContainmentGraph' \subseteq ContainmentGraph

LEMMA GraphEdges == ContainmentGraph \in Edges /\ ContainmentGraph' \in Edges
  BY DEF ContainmentGraph, Edges

LEMMA GraphHas ==
  ASSUME NEW t \in Types, NEW v \in 1..Latest(t)
  PROVE  EdgesOf(t, versions[t][v]) \subseteq ContainmentGraph
  BY DEF EdgesOf, ContainmentGraph

LEMMA GraphSame == versions' = versions => ContainmentGraph' = ContainmentGraph
  BY DEF ContainmentGraph, Latest

LEMMA GraphFrom ==
  ASSUME NEW D, \A t \in Types : \A v \in 1..Latest(t)' : EdgesOf(t, versions'[t][v]) \subseteq D
  PROVE  ContainmentGraph' \subseteq D
  <1>. SUFFICES ASSUME NEW x \in ContainmentGraph' PROVE x \in D
    OBVIOUS
  <1>1. PICK t \in Types, u \in Types : x = <<t, u>>
    BY DEF ContainmentGraph
  <1>2. PICK v \in 1..Latest(t)' : \E a \in versions'[t][v].assocs : a.kind = "containment" /\ a.target = u
    BY <1>1 DEF ContainmentGraph
  <1>3. x \in EdgesOf(t, versions'[t][v])
    BY <1>1, <1>2 DEF EdgesOf
  <1>. QED BY <1>3

LEMMA GraphWritten ==
  ASSUME SchemaInv, NEW r, NEW c, Writing(r, c)
  PROVE  ContainmentGraph' \subseteq ContainmentGraph \cup EdgesOf(r.type, c)
  <1>. SUFFICES ASSUME NEW t \in Types, NEW v \in 1..Latest(t)'
                PROVE  EdgesOf(t, versions'[t][v]) \subseteq ContainmentGraph \cup EdgesOf(r.type, c)
    BY GraphFrom
  <1>1. /\ v \in 1..Latest(t)
        /\ Has(r.type, r.made) => versions'[r.type][r.made] = c
        /\ t # r.type \/ v # r.made => versions'[t][v] = versions[t][v]
    BY ContentSet DEF Writing
  <1>2. CASE t = r.type /\ v = r.made
    BY <1>1, <1>2 DEF Has
  <1>3. CASE t # r.type \/ v # r.made
    BY <1>1, <1>3, GraphHas
  <1>. QED BY <1>2, <1>3

LEMMA GraphAppended ==
  ASSUME SchemaInv, NEW u \in Types, Appends(u)
  PROVE  Fewer
  <1>. SUFFICES ASSUME NEW t \in Types, NEW v \in 1..Latest(t)'
                PROVE  EdgesOf(t, versions'[t][v]) \subseteq ContainmentGraph
    BY GraphFrom DEF Fewer
  <1>1. Latest(t) \in Nat
    BY LatestNat DEF SchemaInv
  <1>2. CASE v \in 1..Latest(t)
    BY <1>2, Appended, GraphHas
  <1>3. CASE v \notin 1..Latest(t)
    <2>1. versions'[t][v] = Empty
      BY <1>1, <1>3, Appended
    <2>. QED BY <2>1 DEF EdgesOf, Empty
  <1>. QED BY <1>2, <1>3

LEMMA GraphDeleted ==
  ASSUME SchemaInv, NEW q \in Reqs, DeleteEntityType(q)
  PROVE  Fewer
  <1>. SUFFICES ASSUME NEW t \in Types, NEW v \in 1..Latest(t)'
                PROVE  EdgesOf(t, versions'[t][v]) \subseteq ContainmentGraph
    BY GraphFrom DEF Fewer
  <1>1. versions'[t] = versions[t] /\ v \in 1..Latest(t)
    BY Deleted DEF Latest
  <1>. QED BY <1>1, GraphHas

LEMMA MadeEdges ==
  ASSUME NEW r, r.type \in Types, NEW c, c.assocs \subseteq Made(r).assocs
  PROVE  EdgesOf(r.type, c) \subseteq ContainmentGraph
  <1>1. CASE Has(r.type, r.made)
    <2>1. r.made \in 1..Latest(r.type) /\ Made(r) = versions[r.type][r.made]
      BY <1>1 DEF Has, Made
    <2>2. EdgesOf(r.type, Made(r)) \subseteq ContainmentGraph
      BY <2>1, GraphHas
    <2>. QED BY <2>2 DEF EdgesOf
  <1>2. CASE ~Has(r.type, r.made)
    BY <1>2 DEF Made, Empty, EdgesOf
  <1>. QED BY <1>1, <1>2

-----------------------------------------------------------------------------
(***************************************************************************)
(* What the request at work checked when it started and still holds: the   *)
(* containment it is about to insert closes no cycle, and the association  *)
(* it is about to change becomes no containment.                           *)
(***************************************************************************)
Guarded(r) ==
    /\ r.op = "createAssociation" /\ r.assoc.kind = "containment" =>
          r.type \notin Under(ContainmentGraph, {r.assoc.target})
    /\ r.op = "editAssociation" =>
          \A a \in Old(r).assocs : a.name = r.name => ~Retyped(a, r.kind)

Guarding == {"createAssociation", "editAssociation"}

LEMMA Unguarded == ASSUME NEW s, s.op \notin Guarding PROVE Guarded(s) /\ Guarded(s)'
  BY DEF Guarded, Guarding

Kept(o, s) ==
    /\ s.op = o.op /\ s.type = o.type /\ s.base = o.base
    /\ s.name = o.name /\ s.assoc = o.assoc /\ s.kind = o.kind

LEMMA GuardGoes ==
  ASSUME NEW o, Guarded(o), o.op = "createAssociation" => o.assoc \in Assoc, Fewer, NEW s, Kept(o, s),
         o.op = "editAssociation" => versions'[o.type][o.base] = Old(o)
  PROVE  Guarded(s)'
  <1>1. CASE o.op = "createAssociation"
    <2>1. PICK E, D : E = ContainmentGraph /\ D = ContainmentGraph'
      OBVIOUS
    <2>2. E \in Edges /\ D \subseteq E
      BY <2>1, GraphEdges DEF Fewer
    <2>3. o.assoc.target \in Types
      BY <1>1 DEF Assoc
    <2>4. Under(D, {o.assoc.target}) \subseteq Under(E, {o.assoc.target})
      BY <2>2, <2>3, UnderMonotone
    <2>. QED BY <1>1, <2>1, <2>4 DEF Guarded, Kept
  <1>2. CASE o.op = "editAssociation"
    <2>1. Old(s)' = Old(o)
      BY <1>2 DEF Old, Kept
    <2>. QED BY <1>2, <2>1 DEF Guarded, Kept, Retyped, KindAfter
  <1>3. CASE o.op \notin Guarding
    BY <1>3, Unguarded DEF Kept
  <1>. QED BY <1>1, <1>2, <1>3 DEF Guarding

(***************************************************************************)
(* A request that goes on keeps what it asked for.                         *)
(***************************************************************************)
LEMMA KeepsAsking ==
  ASSUME TypedInv, NEW q \in Reqs, NEW o, NEW s, Steps(q, o, s),
         \/ CreateVersion(q) \/ CopyAttrs(q) \/ CopyAssocs(q)
         \/ InsertAttr(q) \/ ReadType(q) \/ InsertDef(q)
  PROVE  /\ s = Idle \/ Kept(o, s)
         /\ o \in Request /\ o.op \in SchemaOps /\ Fits(o)
  <1>. DEFINE goes == s = Idle \/ Kept(o, s)
  <1>0. o = req[q] /\ o \in Request /\ o.op \in SchemaOps /\ SchemaInv /\ Fits(o)
    BY RequestKnown DEF CreateVersion, CopyAttrs, CopyAssocs, InsertAttr, ReadType, InsertDef, At,
       Steps, TypedInv
  <1>1. ASSUME NEW r, req' = [req EXCEPT ![q] = r] PROVE s = r
    BY <1>0, <1>1 DEF Steps, SchemaInv, Requested
  <1>2. ASSUME Finish(q) PROVE goes
    BY <1>1, <1>2 DEF Finish
  <1>3. ASSUME NEW pc, Goto(q, pc) PROVE goes
    <2>1. req' = [req EXCEPT ![q] = [o EXCEPT !.pc = pc]]
      BY <1>0, <1>3 DEF Goto
    <2>2. s = [o EXCEPT !.pc = pc]
      BY <1>1, <2>1
    <2>. QED BY <1>0, <2>2 DEF Kept, Request
  <1>4. ASSUME CreateVersion(q) PROVE goes
    <2>1. PICK n : n = o.base + 1
      OBVIOUS
    <2>2. \/ Finish(q)
          \/ req' = [req EXCEPT ![q] = IF o.op = "createType" THEN Idle
                                         ELSE [o EXCEPT !.made = n, !.pc = "copyAttrs"]]
      BY <1>0, <1>4, <2>1 DEF CreateVersion
    <2>3. goes \/ s = IF o.op = "createType" THEN Idle ELSE [o EXCEPT !.made = n, !.pc = "copyAttrs"]
      BY <1>1, <1>2, <2>2
    <2>. QED BY <1>0, <2>3 DEF Kept, Request
  <1>5. ASSUME InsertAttr(q) PROVE goes
    <2>1. PICK w : w = Tail(o.adds)
      OBVIOUS
    <2>2. \/ Finish(q)
          \/ req' = [req EXCEPT ![q] = IF Len(o.adds) = 1 THEN Idle ELSE [o EXCEPT !.adds = w]]
      BY <1>0, <1>5, <2>1, InsertAttrWrites
    <2>3. goes \/ s = IF Len(o.adds) = 1 THEN Idle ELSE [o EXCEPT !.adds = w]
      BY <1>1, <1>2, <2>2
    <2>. QED BY <1>0, <2>3 DEF Kept, Request
  <1>6. ASSUME ReadType(q) PROVE goes
    <2>1. PICK n : n = types[o.type]
      OBVIOUS
    <2>2. Finish(q) \/ req' = [req EXCEPT ![q] = [o EXCEPT !.pc = "saveType", !.typeName = n]]
      BY <1>0, <1>6, <2>1 DEF ReadType
    <2>3. goes \/ s = [o EXCEPT !.pc = "saveType", !.typeName = n]
      BY <1>1, <1>2, <2>2
    <2>. QED BY <1>0, <2>3 DEF Kept, Request
  <1>7. ASSUME CopyAttrs(q) \/ CopyAssocs(q) \/ InsertDef(q) PROVE goes
    <2>1. Finish(q) \/ \E pc : Goto(q, pc)
      BY <1>7 DEF CopyAttrs, CopyAssocs, InsertDef
    <2>. QED BY <1>2, <1>3, <2>1
  <1>8. goes
    BY <1>4, <1>5, <1>6, <1>7
  <1>. QED BY <1>0, <1>8

(***************************************************************************)
(* The graph after a statement other than the insertion of an association. *)
(***************************************************************************)
LEMMA CreateVersionGraph ==
  ASSUME SchemaInv, NEW q \in Reqs, NEW o, o = req[q], OnCourse(o), CreateVersion(q)
  PROVE  Fewer /\ (o.op = "editAssociation" => versions'[o.type][o.base] = Old(o))
  <1>0. o \in Request /\ o.type \in Types /\ o.pc = "create"
    BY EditingTyped DEF CreateVersion
  <1>1. CASE versions' = versions
    BY <1>1, GraphSame DEF Fewer, Old
  <1>2. CASE Appends(o.type) /\ Latest(o.type) = o.base
    <2>1. Fewer
      BY <1>0, <1>2, GraphAppended
    <2>2. ASSUME o.op = "editAssociation" PROVE versions'[o.type][o.base] = Old(o)
      <3>1. o.base \in Nat \ {0}
        BY <2>2 DEF OnCourse, NewVersion, Asked, EditOps
      <3>2. o.base \in 1..Latest(o.type)
        BY <1>2, <3>1
      <3>. QED BY <1>0, <1>2, <3>2, Appended DEF Old
    <2>. QED BY <2>1, <2>2
  <1>. QED BY <1>1, <1>2 DEF CreateVersion, Appends

LEMMA CopyGraph ==
  ASSUME SchemaInv, NEW q \in Reqs, NEW o, o = req[q], OnCourse(o), CopyAttrs(q) \/ CopyAssocs(q)
  PROVE  Fewer /\ (o.op = "editAssociation" => versions'[o.type][o.base] = Old(o))
  <1>0. o \in Request /\ o.op \in SchemaOps /\ o.type \in Types /\ o.pc \in {"copyAttrs", "copyAssocs"}
    BY EditingTyped DEF CopyAttrs, CopyAssocs
  <1>1. PICK c : Writing(o, c) /\ EdgesOf(o.type, c) \subseteq ContainmentGraph
    <2>1. CASE CopyAttrs(q)
      <3>1. PICK c : Writing(o, c) /\ c.attrs = Source(o).attrs /\ c.assocs = Made(o).assocs
        BY <2>1, CopyWrites
      <3>. QED BY <1>0, <3>1, MadeEdges
    <2>2. CASE CopyAssocs(q)
      <3>1. PICK c : Writing(o, c) /\ c.assocs = Source(o).assocs /\ c.attrs = Made(o).attrs
        BY <2>2, CopyWrites
      <3>2. o.op \in EditOps /\ NewVersion(o) /\ o.pc = "copyAssocs"
        BY <1>0, <2>2 DEF OnCourse, NewType, CopyAssocs, At
      <3>3. c.assocs = versions[o.type][o.base].assocs /\ o.base \in 1..Latest(o.type)
        BY <3>1, <3>2, Drafting DEF Old
      <3>4. EdgesOf(o.type, versions[o.type][o.base]) \subseteq ContainmentGraph
        BY <1>0, <3>3, GraphHas
      <3>. QED BY <3>1, <3>3, <3>4 DEF EdgesOf
    <2>. QED BY <2>1, <2>2
  <1>2. Fewer
    BY <1>1, GraphWritten DEF Fewer
  <1>3. ASSUME o.op = "editAssociation" PROVE versions'[o.type][o.base] = Old(o)
    <2>1. o.op \in EditOps /\ NewVersion(o)
      BY <1>3 DEF OnCourse, EditOps
    <2>. QED BY <1>0, <1>1, <2>1, DraftWritten DEF Old
  <1>. QED BY <1>2, <1>3

LEMMA AttrsGraph ==
  ASSUME SchemaInv, NEW q \in Reqs, NEW o, o = req[q],
         InsertAttr(q) \/ DropAttr(q) \/ SetAttr(q) \/ DropAssoc(q) \/ Renumber(q)
  PROVE  Fewer
  <1>1. CASE versions' = versions
    BY <1>1, GraphSame DEF Fewer
  <1>2. ASSUME NEW c, Writing(o, c), c.assocs \subseteq Made(o).assocs
        PROVE  Fewer
    BY <1>2, MadeEdges, GraphWritten DEF Fewer, Writing
  <1>3. CASE InsertAttr(q)
    BY <1>1, <1>2, <1>3, InsertAttrWrites
  <1>4. CASE DropAttr(q) \/ DropAssoc(q)
    BY <1>2, <1>4, DropWrites
  <1>5. CASE SetAttr(q)
    BY <1>2, <1>5, SetWrites
  <1>6. CASE Renumber(q)
    BY <1>2, <1>6, RenumberWrites
  <1>. QED BY <1>3, <1>4, <1>5, <1>6

(***************************************************************************)
(* Changing an association adds no containment.                            *)
(***************************************************************************)
LEMMA SetAssocGraph ==
  ASSUME SchemaInv, NEW q \in Reqs, NEW o, o = req[q], OnCourse(o), Guarded(o), SetAssoc(q)
  PROVE  Fewer
  <1>0. /\ o \in Request /\ o.op = "editAssociation" /\ o.type \in Types /\ o.pc = "change"
    BY EditingTyped DEF SetAssoc, Changing
  <1>1. o.op \in EditOps /\ NewVersion(o)
    BY <1>0 DEF OnCourse, EditOps
  <1>2. PICK d \in Finite : d = Made(o) /\ d.assocs = Old(o).assocs
    <2>1. Extended(o)
      BY <1>0, <1>1 DEF NewVersion
    <2>. QED BY <1>0, <1>1, <2>1, Drafting DEF Extended
  <1>3. PICK c : Writing(o, c) /\ c.attrs = Made(o).attrs /\ c.assocs = ChangedAssocs(o)
    BY SetWrites
  <1>4. EdgesOf(o.type, c) \subseteq EdgesOf(o.type, d)
    <2>1. CASE Clash(o, d.assocs)
      BY <1>2, <1>3, <2>1 DEF ChangedAssocs, EdgesOf
    <2>2. CASE ~Clash(o, d.assocs)
      <3>1. ASSUME NEW b \in c.assocs, b.kind = "containment"
            PROVE  \E a \in d.assocs : a.kind = "containment" /\ a.target = b.target
        <4>1. PICK a \in d.assocs : b = IF a.name = o.name THEN EditedAssoc(o, a) ELSE a
          BY <1>2, <1>3, <2>2 DEF ChangedAssocs
        <4>2. a \in Assoc
          BY FiniteParts
        <4>3. CASE a.name = o.name
          <5>1. b.kind = KindAfter(a, o.kind) /\ b.target = a.target
            BY <4>1, <4>2, <4>3, EditedAssocIs DEF KindAfter
          <5>2. ~Retyped(a, o.kind)
            BY <1>0, <1>2, <4>3 DEF Guarded
          <5>. QED BY <3>1, <5>1, <5>2 DEF Retyped
        <4>4. CASE a.name # o.name
          BY <3>1, <4>1, <4>4
        <4>. QED BY <4>3, <4>4
      <3>. QED BY <3>1 DEF EdgesOf
    <2>. QED BY <2>1, <2>2
  <1>5. EdgesOf(o.type, d) \subseteq ContainmentGraph
    BY <1>0, <1>2, MadeEdges
  <1>. QED BY <1>3, <1>4, <1>5, GraphWritten DEF Fewer

(***************************************************************************)
(* Inserting one adds at most the edge that was checked.                   *)
(***************************************************************************)
LEMMA InsertAssocGraph ==
  ASSUME SchemaInv, NEW q \in Reqs, NEW o, o = req[q], Guarded(o), Acyclic(ContainmentGraph),
         InsertAssoc(q)
  PROVE  Acyclic(ContainmentGraph')
  <1>0. /\ o \in Request /\ o.op = "createAssociation" /\ o.type \in Types /\ Fits(o)
    BY EditingTyped, RequestKnown DEF InsertAssoc, Changing
  <1>1. PICK u : u = o.assoc.target
    OBVIOUS
  <1>2. o.assoc \in Assoc /\ u \in Types
    BY <1>0, <1>1 DEF Fits, Assoc
  <1>3. PICK E, D : E = ContainmentGraph /\ D = ContainmentGraph'
    OBVIOUS
  <1>4. E \in Edges /\ Acyclic(E)
    BY <1>3, GraphEdges
  <1>5. PICK c : /\ Writing(o, c) /\ c.attrs = Made(o).attrs
                 /\ c.assocs = IF \E a \in Made(o).assocs : a.name = o.assoc.name
                                 THEN Made(o).assocs ELSE Made(o).assocs \cup {o.assoc}
    BY SetWrites
  <1>6. D \subseteq E \cup EdgesOf(o.type, c)
    BY <1>3, <1>5, GraphWritten
  <1>7. EdgesOf(o.type, Made(o)) \subseteq E
    BY <1>0, <1>3, MadeEdges
  <1>8. CASE o.assoc.kind = "containment"
    <2>1. EdgesOf(o.type, c) \subseteq E \cup {<<o.type, u>>}
      BY <1>1, <1>5, <1>7 DEF EdgesOf
    <2>2. o.type \notin Under(E, {u})
      BY <1>0, <1>1, <1>3, <1>8 DEF Guarded
    <2>3. D \subseteq E \cup {<<o.type, u>>}
      BY <1>6, <2>1
    <2>4. Acyclic(D)
      BY <1>0, <1>2, <1>4, <2>2, <2>3, EdgeAcyclic
    <2>. QED BY <1>3, <2>4
  <1>9. CASE o.assoc.kind # "containment"
    <2>1. EdgesOf(o.type, c) \subseteq E
      BY <1>5, <1>7, <1>9 DEF EdgesOf
    <2>2. D \subseteq E
      BY <1>6, <2>1
    <2>. QED BY <1>3, <1>4, <2>2, FewerAcyclic
  <1>. QED BY <1>8, <1>9

-----------------------------------------------------------------------------
(***************************************************************************)
(* Requests that start.                                                    *)
(***************************************************************************)
Opened(r, n) == [r EXCEPT !.from = r.type, !.fromVer = n, !.base = n]

LEMMA EditStarts ==
  ASSUME TypedInv, NEW q \in Reqs, NEW o, NEW s, Steps(q, o, s), NEW r, NEW flaws,
         StartEdit(q, r, flaws), NEW n, n = Latest(r.type)
  PROVE  /\ s = Opened(r, n)
         /\ flaws \subseteq trouble' /\ versions' = versions
  <1>1. Start(q, Opened(r, n), flaws)
    BY DEF StartEdit, Opened
  <1>2. s = Opened(r, n)
    BY <1>1, Started
  <1>. QED BY <1>1, <1>2 DEF Start, Note, StartEdit, schema

LEMMA OtherStarts ==
  ASSUME TypedInv, NEW q \in Reqs, NEW o, NEW s, Steps(q, o, s),
         \/ UpdateEntityType(q) \/ AddAttribute(q) \/ RemoveAttribute(q) \/ EditAttribute(q)
         \/ CopyAttributesFromType(q) \/ DeleteAssociation(q)
  PROVE  s.op \notin Guarding /\ versions' = versions
  <1>1. ASSUME NEW r, NEW flaws, StartEdit(q, r, flaws), \A n : Opened(r, n).op \notin Guarding
        PROVE  s.op \notin Guarding /\ versions' = versions
    <2>1. PICK n : n = Latest(r.type)
      OBVIOUS
    <2>. QED BY <1>1, <2>1, EditStarts
  <1>2. CASE UpdateEntityType(q)
    <2>1. PICK t : StartEdit(q, [NewRequest EXCEPT !.op = "describe", !.type = t], {})
      BY <1>2 DEF UpdateEntityType
    <2>2. PICK r : r = [NewRequest EXCEPT !.op = "describe", !.type = t]
      OBVIOUS
    <2>3. \A n : Opened(r, n).op \notin Guarding
      BY <2>2, NewRequestIs DEF Guarding, Opened
    <2>. QED BY <1>1, <2>1, <2>2, <2>3
  <1>3. CASE AddAttribute(q)
    <2>1. PICK t, w : StartEdit(q, 
              [NewRequest EXCEPT !.op = "addAttribute", !.type = t, !.adds = w], {})
      BY <1>3 DEF AddAttribute
    <2>2. PICK r : r = [NewRequest EXCEPT !.op = "addAttribute", !.type = t, !.adds = w]
      OBVIOUS
    <2>3. \A n : Opened(r, n).op \notin Guarding
      BY <2>2, NewRequestIs DEF Guarding, Opened
    <2>. QED BY <1>1, <2>1, <2>2, <2>3
  <1>4. CASE RemoveAttribute(q)
    <2>1. PICK t, f : StartEdit(q, 
              [NewRequest EXCEPT !.op = "removeAttribute", !.type = t, !.name = f], {})
      BY <1>4 DEF RemoveAttribute
    <2>2. PICK r : r = [NewRequest EXCEPT !.op = "removeAttribute", !.type = t, !.name = f]
      OBVIOUS
    <2>3. \A n : Opened(r, n).op \notin Guarding
      BY <2>2, NewRequestIs DEF Guarding, Opened
    <2>. QED BY <1>1, <2>1, <2>2, <2>3
  <1>5. CASE EditAttribute(q)
    <2>1. PICK t, f, g, d, flaws : StartEdit(q, 
              [NewRequest EXCEPT !.op = "editAttribute", !.type = t, !.name = f,
                                 !.to = g, !.tdv = d], flaws)
      BY <1>5 DEF EditAttribute
    <2>2. PICK r : r = [NewRequest EXCEPT !.op = "editAttribute", !.type = t, !.name = f,
                                          !.to = g, !.tdv = d]
      OBVIOUS
    <2>3. \A n : Opened(r, n).op \notin Guarding
      BY <2>2, NewRequestIs DEF Guarding, Opened
    <2>. QED BY <1>1, <2>1, <2>2, <2>3
  <1>6. CASE CopyAttributesFromType(q)
    <2>1. PICK t, w : StartEdit(q, 
              [NewRequest EXCEPT !.op = "copyAttributes", !.type = t, !.adds = w], {"copied"})
      BY <1>6 DEF CopyAttributesFromType
    <2>2. PICK r : r = [NewRequest EXCEPT !.op = "copyAttributes", !.type = t, !.adds = w]
      OBVIOUS
    <2>3. \A n : Opened(r, n).op \notin Guarding
      BY <2>2, NewRequestIs DEF Guarding, Opened
    <2>. QED BY <1>1, <2>1, <2>2, <2>3
  <1>7. CASE DeleteAssociation(q)
    <2>1. PICK t, f : StartEdit(q, 
              [NewRequest EXCEPT !.op = "deleteAssociation", !.type = t, !.name = f], {})
      BY <1>7 DEF DeleteAssociation
    <2>2. PICK r : r = [NewRequest EXCEPT !.op = "deleteAssociation", !.type = t, !.name = f]
      OBVIOUS
    <2>3. \A n : Opened(r, n).op \notin Guarding
      BY <2>2, NewRequestIs DEF Guarding, Opened
    <2>. QED BY <1>1, <2>1, <2>2, <2>3
  <1>. QED BY <1>2, <1>3, <1>4, <1>5, <1>6, <1>7

LEMMA CreateAssociationGuards ==
  ASSUME TypedInv, NEW q \in Reqs, NEW o, NEW s, Steps(q, o, s), CreateAssociation(q)
  PROVE  Guarded(s)' /\ versions' = versions
  <1>1. PICK t \in Types, u \in Types, f \in Fields, k \in Kinds, single \in BOOLEAN :
          /\ k = "containment" => ~CreatesCycle(t, u)
          /\ StartEdit(q, [NewRequest EXCEPT !.op = "createAssociation", !.type = t,
                   !.assoc = [name |-> f, target |-> u, kind |-> k, single |-> single]], {})
    BY DEF CreateAssociation
  <1>2. PICK r : r = [NewRequest EXCEPT !.op = "createAssociation", !.type = t,
                   !.assoc = [name |-> f, target |-> u, kind |-> k, single |-> single]]
    OBVIOUS
  <1>3. PICK n : n = Latest(r.type)
    OBVIOUS
  <1>4. s = Opened(r, n) /\ versions' = versions
    <2>1. StartEdit(q, r, {})
      BY <1>1, <1>2
    <2>. QED BY <1>3, <2>1, EditStarts
  <1>5. /\ s.op = "createAssociation" /\ s.type = t
        /\ s.assoc.kind = k /\ s.assoc.target = u
    BY <1>2, <1>4, NewRequestIs DEF Opened
  <1>6. PICK E : E = ContainmentGraph
    OBVIOUS
  <1>7. k = "containment" => t \notin Under(E, {u})
    BY <1>1, <1>6, BelowIs DEF CreatesCycle
  <1>8. ContainmentGraph' = E
    BY <1>4, <1>6, GraphSame
  <1>. QED BY <1>4, <1>5, <1>7, <1>8 DEF Guarded

LEMMA EditAssociationGuards ==
  ASSUME TypedInv, KeysKept, NEW q \in Reqs, NEW o, NEW s, Steps(q, o, s), EditAssociation(q),
         "retyped" \notin trouble'
  PROVE  Guarded(s)' /\ versions' = versions
  <1>1. PICK t \in Types, f \in Fields, g \in Fields \cup {None}, k \in Kinds \cup {None},
             single \in BOOLEAN \cup {None} :
          /\ Latest(t) > 0
          /\ \E a \in versions[t][Latest(t)].assocs :
               /\ a.name = f
               /\ KindAfter(a, k) = "containment" => single # FALSE
               /\ Retyped(a, k) /\ single = None => a.single
               /\ \/ g \in {None, f}
                  \/ g \notin AttrNames(t, Latest(t)) \cup AssocNames(t, Latest(t))
               /\ StartEdit(q, [NewRequest EXCEPT !.op = "editAssociation", !.type = t,
                                  !.name = f, !.to = g, !.kind = k, !.single = single],
                            IF Retyped(a, k) THEN {"retyped"} ELSE {})
    BY DEF EditAssociation
  <1>2. PICK n : n = Latest(t)
    OBVIOUS
  <1>3. PICK a \in versions[t][n].assocs, flaws \in {{"retyped"}, {}} :
          /\ a.name = f /\ flaws = IF Retyped(a, k) THEN {"retyped"} ELSE {}
          /\ StartEdit(q, [NewRequest EXCEPT !.op = "editAssociation", !.type = t,
                                  !.name = f, !.to = g, !.kind = k, !.single = single], flaws)
    BY <1>1, <1>2
  <1>4. PICK r : r = [NewRequest EXCEPT !.op = "editAssociation", !.type = t,
                                  !.name = f, !.to = g, !.kind = k, !.single = single]
    OBVIOUS
  <1>5. r.type = t
    BY <1>4, NewRequestIs
  <1>6. /\ s = Opened(r, n)
        /\ flaws \subseteq trouble' /\ versions' = versions
    <2>1. StartEdit(q, r, flaws) /\ n = Latest(r.type)
      BY <1>2, <1>3, <1>4, <1>5
    <2>. QED BY <2>1, EditStarts
  <1>7. s.op = "editAssociation" /\ s.type = t /\ s.base = n /\ s.name = f /\ s.kind = k
    BY <1>4, <1>6, NewRequestIs DEF Opened
  <1>8. ~Retyped(a, k)
    BY <1>3, <1>6
  <1>9. NamesApart(versions[t][n].assocs)
    <2>1. n \in 1..Latest(t)
      BY <1>1, <1>2, LatestNat DEF TypedInv, SchemaInv
    <2>. QED BY <2>1 DEF KeysKept, Clean
  <1>10. \A b \in versions[t][n].assocs : b.name = f => ~Retyped(b, k)
    BY <1>3, <1>8, <1>9 DEF NamesApart
  <1>11. Old(s)' = versions[t][n]
    BY <1>6, <1>7 DEF Old
  <1>. QED BY <1>6, <1>7, <1>10, <1>11 DEF Guarded, Retyped, KindAfter

-----------------------------------------------------------------------------
LEMMA FewerTree == Fewer /\ Acyclic(ContainmentGraph) => Acyclic(ContainmentGraph')
  <1>1. PICK E, D : E = ContainmentGraph /\ D = ContainmentGraph'
    OBVIOUS
  <1>2. E \in Edges
    BY <1>1, GraphEdges
  <1>. QED BY <1>1, <1>2, FewerAcyclic DEF Fewer

LEMMA IdleGuarded == Guarded(Idle)'
  <1>1. Idle.op \notin Guarding
    BY DEF Idle, Guarding
  <1>. QED BY <1>1, Unguarded

LEMMA InsertTypeGuards ==
  ASSUME TypedInv, NEW q \in Reqs, NEW o, NEW s, Steps(q, o, s), OnCourse(o), InsertType(q)
  PROVE  Guarded(s)' /\ versions' = versions
  <1>0. /\ SchemaInv /\ o = req[q] /\ o \in Request /\ o.op \in SchemaOps
        /\ o.pc = "insertType" /\ versions' = versions
    BY RequestKnown DEF InsertType, At, Steps, TypedInv
  <1>1. CASE Finish(q)
    BY <1>0, <1>1, StepEnds, IdleGuarded
  <1>2. CASE \E t \in Types : req' = [req EXCEPT ![q] = [o EXCEPT !.type = t, !.pc = "create"]]
    <2>1. PICK t \in Types : req' = [req EXCEPT ![q] = [o EXCEPT !.type = t, !.pc = "create"]]
      BY <1>2
    <2>2. s = [o EXCEPT !.type = t, !.pc = "create"]
      BY <2>1 DEF Steps, TypedInv, SchemaInv, Requested
    <2>3. s.op = o.op
      BY <1>0, <2>2 DEF Request
    <2>4. o.op \notin EditOps
      BY <1>0 DEF OnCourse, NewVersion
    <2>5. s.op \notin Guarding
      BY <2>3, <2>4 DEF Guarding, EditOps
    <2>. QED BY <1>0, <2>5, Unguarded
  <1>. QED BY <1>0, <1>1, <1>2 DEF InsertType

(***************************************************************************)
(* A step of the schema leaves containment acyclic, and its request        *)
(* guarded.                                                                *)
(***************************************************************************)
LEMMA TypesTree ==
  ASSUME StandingInv, KeysKept, NEW q \in Reqs, NEW o, NEW s, Steps(q, o, s), OnCourse(o),
         Guarded(o), Acyclic(ContainmentGraph), TypesMove(q), "retyped" \notin trouble'
  PROVE  Acyclic(ContainmentGraph') /\ Guarded(s)'
  <1>0. TypedInv /\ SchemaInv /\ o = req[q]
    BY DEF StandingInv, TypedInv, Steps
  <1>1. ASSUME versions' = versions PROVE Fewer
    BY <1>1, GraphSame DEF Fewer
  <1>2. ASSUME s.op \notin EditOps PROVE Guarded(s)'
    <2>1. s.op \notin Guarding
      BY <1>2 DEF Guarding, EditOps
    <2>. QED BY <2>1, Unguarded
  <1>3. CASE \/ UpdateEntityType(q) \/ AddAttribute(q) \/ RemoveAttribute(q) \/ EditAttribute(q)
             \/ CopyAttributesFromType(q) \/ DeleteAssociation(q)
    BY <1>0, <1>1, <1>3, OtherStarts, Unguarded, FewerTree
  <1>4. CASE CreateAssociation(q) \/ EditAssociation(q)
    BY <1>0, <1>1, <1>4, CreateAssociationGuards, EditAssociationGuards, FewerTree
  <1>5. CASE \/ ReorderAttributes(q) \/ CreateEntityType(q) \/ CopyEntityType(q)
             \/ CreateTypeDefinition(q) \/ UpdateTypeDefinition(q) \/ DeleteTypeDefinition(q)
             \/ RenameEntityType(q)
    <2>1. versions' = versions
      BY <1>5 DEF ReorderAttributes, CreateEntityType, CopyEntityType, RenameEntityType,
         CreateTypeDefinition, UpdateTypeDefinition, DeleteTypeDefinition, schema
    <2>2. PICK r, flaws : /\ Start(q, r, flaws) /\ r.op \notin EditOps
                          /\ r.pc \notin {"create", "copyAttrs", "copyAssocs", "change"}
                          /\ r.pc = "insertType" => r.base = 0
      BY <1>5, PlainStart
    <2>3. s = r
      BY <1>0, <2>2, Started
    <2>. QED BY <1>1, <1>2, <2>1, <2>2, <2>3, FewerTree
  <1>6. CASE DeleteEntityType(q)
    <2>1. o = Idle /\ req' = req
      BY <1>0, <1>6 DEF Steps, DeleteEntityType, Ready
    <2>2. s = Idle
      BY <1>0, <2>1, StepStays
    <2>. QED BY <1>0, <1>6, <2>2, GraphDeleted, IdleGuarded, FewerTree
  <1>7. CASE \/ CreateVersion(q) \/ CopyAttrs(q) \/ CopyAssocs(q) \/ InsertAttr(q) \/ ReadType(q)
             \/ InsertDef(q)
    <2>1. (s = Idle \/ Kept(o, s)) /\ (o.op = "createAssociation" => o.assoc \in Assoc)
      <3>1. (s = Idle \/ Kept(o, s)) /\ Fits(o)
        BY <1>0, <1>7, KeepsAsking
      <3>. QED BY <3>1 DEF Fits
    <2>2. Fewer /\ (o.op = "editAssociation" => versions'[o.type][o.base] = Old(o))
      <3>1. CASE CreateVersion(q) \/ CopyAttrs(q) \/ CopyAssocs(q)
        BY <1>0, <3>1, CreateVersionGraph, CopyGraph
      <3>2. CASE InsertAttr(q)
        <4>1. o.pc = "change" /\ o.op \in SchemaOps /\ o.adds # << >>
          BY <1>0, <3>2 DEF InsertAttr, At
        <4>2. o.op # "editAssociation"
          BY <4>1 DEF OnCourse, NewVersion, Asked, EditOps
        <4>. QED BY <1>0, <3>2, <4>2, AttrsGraph
      <3>3. CASE ReadType(q) \/ InsertDef(q)
        <4>1. versions' = versions
          BY <3>3 DEF ReadType, InsertDef, schema
        <4>. QED BY <1>1, <4>1 DEF Old
      <3>. QED BY <1>7, <3>1, <3>2, <3>3
    <2>3. Guarded(s)'
      BY <2>1, <2>2, IdleGuarded, GuardGoes
    <2>. QED BY <2>2, <2>3, FewerTree
  <1>8. CASE Edits(q) \/ Renumber(q)
    <2>1. Finish(q)
      BY <1>8 DEF Edits, DropAttr, SetAttr, InsertAssoc, SetAssoc, DropAssoc, Renumber
    <2>2. Guarded(s)'
      BY <1>0, <2>1, StepEnds, IdleGuarded
    <2>3. Acyclic(ContainmentGraph')
      BY <1>0, <1>8, AttrsGraph, SetAssocGraph, InsertAssocGraph, FewerTree DEF Edits
    <2>. QED BY <2>2, <2>3
  <1>9. CASE SaveType(q) \/ InsertDefVersion(q) \/ DropDef(q) \/ Fail(q)
    <2>1. versions' = versions /\ Finish(q)
      BY <1>9 DEF SaveType, InsertDefVersion, DropDef, Fail, schema
    <2>. QED BY <1>0, <1>1, <2>1, StepEnds, IdleGuarded, FewerTree
  <1>10. CASE InsertType(q)
    BY <1>0, <1>1, <1>10, InsertTypeGuards, FewerTree
  <1>. QED BY <1>3, <1>4, <1>5, <1>6, <1>7, <1>8, <1>9, <1>10 DEF TypesMove, Edits

(***************************************************************************)
(* While requests come one at a time and no association becomes a          *)
(* containment, containment is acyclic, and what the request at work       *)
(* checked still holds.                                                    *)
(***************************************************************************)
TreeSeq ==
    trouble \cap {"overlap", "retyped"} = {} =>
       Acyclic(ContainmentGraph) /\ \A r : r = AtWork => Guarded(r)

TreeInv == DraftInv /\ TreeSeq

LEMMA TreeStart == Init => TreeInv
  <1>. SUFFICES ASSUME Init PROVE TreeSeq
    BY DraftStart DEF TreeInv
  <1>1. ContainmentGraph = {}
    BY NoVersions DEF ContainmentGraph, Empty
  <1>2. AtWork = Idle
    BY DEF Init, TypesInit, Active, AtWork
  <1>3. Idle.op \notin Guarding
    BY DEF Idle, Guarding
  <1>. QED BY <1>1, <1>2, <1>3, Unguarded DEF TreeSeq, Acyclic

LEMMA TreeNext ==
  ASSUME TreeInv, [Next]_vars
  PROVE  TreeInv'
  <1>0. KeptInv /\ DraftInv' /\ DraftSeq /\ TreeSeq
    BY DraftNext DEF TreeInv, DraftInv
  <1>. SUFFICES ASSUME trouble' \cap {"overlap", "retyped"} = {}
                PROVE  Acyclic(ContainmentGraph') /\ \A r : r = AtWork' => Guarded(r)'
    BY <1>0 DEF TreeInv, TreeSeq
  <1>1. CASE TypesNext
    <2>1. PICK q \in Reqs : TypesMove(q)
      BY <1>1, MovesOf
    <2>2. PICK o, s : Steps(q, o, s) /\ o = AtWork /\ s = AtWork'
      BY <1>0, <2>1, TypesSteps
    <2>3. StandingInv /\ trouble \cap {"overlap", "retyped"} = {}
      BY <1>0, <2>1, TypesSteps
    <2>4. KeysKept /\ OnCourse(o) /\ Guarded(o) /\ Acyclic(ContainmentGraph)
      BY <1>0, <2>2, <2>3 DEF DraftSeq, TreeSeq
    <2>5. Acyclic(ContainmentGraph') /\ Guarded(s)'
      BY <2>1, <2>2, <2>3, <2>4, TypesTree
    <2>. QED BY <2>2, <2>5
  <1>2. CASE VersionsNext
    <2>1. PICK q \in Reqs : VersionsMove(q)
      BY <1>2, MovesOf
    <2>2. PICK s : s = AtWork'
      OBVIOUS
    <2>3. /\ s.op \notin SchemaOps /\ versions' = versions
          /\ trouble \cap {"overlap", "retyped"} = {}
      BY <1>0, <2>1, <2>2, VersionsSteps
    <2>4. Guarded(s)'
      <3>1. s.op \notin Guarding
        BY <2>3 DEF Guarding, SchemaOps, EditOps
      <3>. QED BY <3>1, Unguarded
    <2>5. Acyclic(ContainmentGraph')
      BY <1>0, <2>3, GraphSame DEF TreeSeq
    <2>. QED BY <2>2, <2>4, <2>5
  <1>3. CASE UNCHANGED vars
    <2>1. UNCHANGED <<versions, trouble, req>>
      BY <1>3 DEF vars, versionVars, schema
    <2>2. AtWork' = AtWork /\ ContainmentGraph' = ContainmentGraph
      BY <2>1, WorkStays, GraphSame
    <2>3. PICK o : o = AtWork
      OBVIOUS
    <2>4. Guarded(o) /\ Acyclic(ContainmentGraph)
      BY <1>0, <2>1, <2>3 DEF TreeSeq
    <2>5. Guarded(o)'
      BY <2>1, <2>2, <2>4 DEF Guarded, Old, Retyped, KindAfter
    <2>. QED BY <2>2, <2>3, <2>4, <2>5
  <1>. QED BY <1>1, <1>2, <1>3 DEF Next

LEMMA TreeHolds == Spec => []TreeInv
  BY TreeStart, TreeNext, PTL DEF Spec

(***************************************************************************)
(* Unless edits overlap or an association is turned into a containment,    *)
(* containment is acyclic across all versions of all types, and the tree   *)
(* that starts at the types nothing contains shows every type.             *)
(***************************************************************************)
THEOREM TreeComplete == Spec => []ContainmentTree
  <1>1. TreeInv => ContainmentTree
    <2>. SUFFICES ASSUME TreeInv, trouble \cap {"overlap", "retyped"} = {}
                  PROVE  /\ \A t, u \in Types : <<t, u>> \in ContainmentGraph => t \notin Below({u})
                         /\ Named \subseteq Below(TreeRoots)
      BY DEF ContainmentTree
    <2>1. PICK E : E = ContainmentGraph
      OBVIOUS
    <2>2. E \in Edges /\ Acyclic(E)
      BY <2>1, GraphEdges DEF TreeInv, TreeSeq
    <2>3. \A S : Below(S) = Under(E, S)
      BY <2>1, BelowIs
    <2>4. PICK N, R : N = Named /\ R = TreeRoots
      OBVIOUS
    <2>5. N \in SUBSET Types /\ R = {t \in N : \A u \in N : <<u, t>> \notin E}
      BY <2>1, <2>4 DEF Named, TreeRoots
    <2>6. N \subseteq Under(E, R)
      BY <2>2, <2>5, RootsReach
    <2>. QED BY <2>1, <2>2, <2>3, <2>4, <2>6 DEF Acyclic
  <1>. QED BY <1>1, TreeHolds, PTL

-----------------------------------------------------------------------------
(***************************************************************************)
(* Attributes across adjacent versions, A and then B, the one numbered v:  *)
(* what has the name has the root; what has the root has the ordinal; what *)
(* has neither its name before nor after is one attribute renamed; and a   *)
(* root that is new has the number of the version.                         *)
(***************************************************************************)
Apart(a, S) == \A c \in S : c.name # a.name

Tracks(A, B) ==
    \A a \in A, b \in B :
       /\ a.name = b.name => a.root = b.root
       /\ a.root = b.root => a.ord = b.ord
       /\ Apart(a, B) /\ Apart(b, A) => a.root = b.root

NewRoots(A, B, t, v) ==
    \A b \in B : (\E a \in A : a.root = b.root) \/ (b.root[1] = t /\ b.root[3] = v)

Tracked(A, B, t, v) == Tracks(A, B) /\ NewRoots(A, B, t, v)

FieldsTracked ==
    \A t \in Types : \A v \in 1..(Latest(t) - 1) :
       Tracked(versions[t][v].attrs, versions[t][v + 1].attrs, t, v + 1)

LEMMA TrackedNone == ASSUME NEW A, NEW t, NEW v PROVE Tracked(A, {}, t, v)
  BY DEF Tracked, Tracks, NewRoots

LEMMA TrackedFewer ==
  ASSUME NEW A, NEW B, B \subseteq A, Keyed(A), NEW t, NEW v
  PROVE  Tracked(A, B, t, v)
  <1>1. NewRoots(A, B, t, v)
    BY DEF NewRoots
  <1>2. Tracks(A, B)
    BY DEF Tracks, Keyed, Apart
  <1>. QED BY <1>1, <1>2 DEF Tracked

LEMMA TrackedGrown ==
  ASSUME NEW A, NEW B, A \subseteq B, Keyed(B), NEW t, NEW v,
         \A b \in B \ A : b.root = <<t, b.name, v>>
  PROVE  Tracked(A, B, t, v)
  <1>1. NewRoots(A, B, t, v)
    BY DEF NewRoots
  <1>2. Tracks(A, B)
    BY DEF Tracks, Keyed, Apart
  <1>. QED BY <1>1, <1>2 DEF Tracked

LEMMA TrackedChanged ==
  ASSUME NEW r, NEW d \in Finite, Made(r).attrs = d.attrs, Keyed(d.attrs), NEW t, NEW v
  PROVE  Tracked(d.attrs, ChangedAttrs(r), t, v)
  <1>1. CASE Clash(r, d.attrs)
    <2>1. ChangedAttrs(r) = d.attrs
      BY <1>1 DEF ChangedAttrs
    <2>. QED BY <2>1, TrackedFewer
  <1>2. CASE ~Clash(r, d.attrs)
    <2>. DEFINE e(a) == IF a.name = r.name THEN EditedAttr(r, a) ELSE a
    <2>1. ChangedAttrs(r) = {e(a) : a \in d.attrs}
      BY <1>2 DEF ChangedAttrs
    <2>2. ASSUME NEW a \in d.attrs
          PROVE  /\ e(a).root = a.root /\ e(a).ord = a.ord
                 /\ a.name # r.name => e(a) = a
                 /\ a.name = r.name => e(a).name = IF r.to = None THEN a.name ELSE r.to
      <3>1. a \in Attr
        BY FiniteParts
      <3>2. EditedAttr(r, a).ord = a.ord
        BY <3>1 DEF EditedAttr, Attr
      <3>. QED BY <3>1, <3>2, EditedAttrIs
    <2>. HIDE DEF e
    <2>3. NewRoots(d.attrs, ChangedAttrs(r), t, v)
      BY <2>1, <2>2 DEF NewRoots
    <2>4. ASSUME NEW a \in d.attrs, NEW c \in d.attrs
          PROVE  /\ a.name = e(c).name => a = c
                 /\ a.root = e(c).root => a = c
                 /\ Apart(a, ChangedAttrs(r)) /\ Apart(e(c), d.attrs) => a = c
      <3>1. a.root = e(c).root => a = c
        BY <2>2 DEF Keyed
      <3>2. ASSUME a.name = e(c).name PROVE a = c
        <4>1. CASE c.name # r.name
          BY <2>2, <3>2, <4>1 DEF Keyed
        <4>2. CASE c.name = r.name /\ r.to = None
          BY <2>2, <3>2, <4>2 DEF Keyed
        <4>3. CASE c.name = r.name /\ r.to # None
          <5>1. a.name = r.to
            BY <2>2, <3>2, <4>3
          <5>2. r.to = r.name
            BY <1>2, <5>1 DEF Clash
          <5>. QED BY <4>3, <5>1, <5>2 DEF Keyed
        <4>. QED BY <4>1, <4>2, <4>3
      <3>3. ASSUME Apart(a, ChangedAttrs(r)), Apart(e(c), d.attrs) PROVE a = c
        <4>1. e(a) \in ChangedAttrs(r)
          BY <2>1
        <4>2. a.name = r.name
          BY <2>2, <3>3, <4>1 DEF Apart
        <4>3. c.name = r.name
          BY <2>2, <3>3 DEF Apart
        <4>. QED BY <4>2, <4>3 DEF Keyed
      <3>. QED BY <3>1, <3>2, <3>3
    <2>5. Tracks(d.attrs, ChangedAttrs(r))
      <3>. SUFFICES ASSUME NEW a \in d.attrs, NEW c \in d.attrs, NEW b, b = e(c)
                    PROVE  /\ a.name = b.name => a.root = b.root
                           /\ a.root = b.root => a.ord = b.ord
                           /\ Apart(a, ChangedAttrs(r)) /\ Apart(b, d.attrs) => a.root = b.root
        BY <2>1 DEF Tracks
      <3>1. b.root = c.root /\ b.ord = c.ord
        BY <2>2
      <3>. QED BY <2>4, <3>1
    <2>. QED BY <2>3, <2>5 DEF Tracked
  <1>. QED BY <1>1, <1>2

-----------------------------------------------------------------------------
(***************************************************************************)
(* The versions after each kind of write.                                  *)
(***************************************************************************)
LEMMA TrackedSame ==
  ASSUME FieldsTracked, versions' = versions
  PROVE  FieldsTracked'
  BY DEF FieldsTracked, Latest

LEMMA TrackedWritten ==
  ASSUME SchemaInv, FieldsTracked, NEW o, o.op \in EditOps, NewVersion(o), o.pc # "create",
         NEW c, Writing(o, c), Tracked(Old(o).attrs, c.attrs, o.type, o.base + 1)
  PROVE  FieldsTracked'
  <1>1. /\ o.base \in Nat \ {0} /\ o.made = o.base + 1 /\ o.type \in Types
        /\ Latest(o.type) = o.base + 1
    BY Drafting
  <1>2. /\ versions'[o.type][o.base + 1] = c
        /\ versions'[o.type][o.base] = Old(o)
        /\ \A t \in Types : Latest(t)' = Latest(t)
    BY DraftWritten DEF Old
  <1>. SUFFICES ASSUME NEW t \in Types, NEW v \in 1..(Latest(t)' - 1)
                PROVE  Tracked(versions'[t][v].attrs, versions'[t][v + 1].attrs, t, v + 1)
    BY DEF FieldsTracked, Tracked, Tracks, NewRoots, Apart
  <1>3. Latest(t) \in Nat /\ Latest(t)' = Latest(t)
    BY <1>2, LatestNat DEF SchemaInv
  <1>4. v \in 1..(Latest(t) - 1) /\ v \in 1..Latest(t) /\ v + 1 \in 1..Latest(t)
    BY <1>3
  <1>5. CASE t = o.type /\ v = o.base
    BY <1>2, <1>5
  <1>6. CASE ~(t = o.type /\ v = o.base)
    <2>1. Tracked(versions[t][v].attrs, versions[t][v + 1].attrs, t, v + 1)
      BY <1>4 DEF FieldsTracked
    <2>2. t # o.type \/ (v # o.made /\ v + 1 # o.made)
      BY <1>1, <1>4, <1>6
    <2>3. versions'[t][v] = versions[t][v] /\ versions'[t][v + 1] = versions[t][v + 1]
      BY <1>4, <2>2, ContentSet DEF Writing
    <2>. QED BY <2>1, <2>3
  <1>. QED BY <1>5, <1>6

-----------------------------------------------------------------------------
LEMMA CreateVersionTracked ==
  ASSUME TypedInv, NEW q \in Reqs, FieldsTracked, CreateVersion(q)
  PROVE  FieldsTracked'
  <1>0. SchemaInv /\ req[q].type \in Types
    BY EditingTyped DEF CreateVersion, TypedInv
  <1>1. CASE versions' = versions
    BY <1>1, TrackedSame
  <1>2. CASE Appends(req[q].type)
    <2>1. PICK u \in Types : u = req[q].type
      BY <1>0
    <2>. SUFFICES ASSUME NEW t \in Types, NEW v \in 1..(Latest(t)' - 1)
                  PROVE  Tracked(versions'[t][v].attrs, versions'[t][v + 1].attrs, t, v + 1)
      BY DEF FieldsTracked, Tracked, Tracks, NewRoots, Apart
    <2>2. Latest(t) \in Nat
      BY <1>0, LatestNat DEF SchemaInv
    <2>3. CASE v \in 1..(Latest(t) - 1)
      <3>1. Tracked(versions[t][v].attrs, versions[t][v + 1].attrs, t, v + 1)
        BY <2>3 DEF FieldsTracked
      <3>2. v \in 1..Latest(t) /\ v + 1 \in 1..Latest(t)
        BY <2>2, <2>3
      <3>3. versions'[t][v] = versions[t][v] /\ versions'[t][v + 1] = versions[t][v + 1]
        BY <1>0, <1>2, <2>1, <3>2, Appended
      <3>. QED BY <3>1, <3>3
    <2>4. CASE v \notin 1..(Latest(t) - 1)
      <3>1. Latest(t)' # Latest(t)
        BY <2>4
      <3>2. t = u /\ Latest(t)' = Latest(t) + 1 /\ versions'[u][Latest(u) + 1] = Empty
        BY <1>0, <1>2, <2>1, <3>1, Appended
      <3>3. v = Latest(t)
        BY <2>2, <2>4, <3>2
      <3>4. versions'[t][v + 1].attrs = {}
        BY <3>2, <3>3 DEF Empty
      <3>. QED BY <3>4, TrackedNone
    <2>. QED BY <2>3, <2>4
  <1>. QED BY <1>1, <1>2 DEF CreateVersion, Appends

LEMMA CopyAttrsTracked ==
  ASSUME TypedInv, KeysKept, NEW q \in Reqs, NEW o, o = req[q], OnCourse(o), FieldsTracked,
         CopyAttrs(q)
  PROVE  FieldsTracked'
  <1>0. /\ SchemaInv /\ o \in Request /\ o.op \in SchemaOps /\ o.type \in Types
        /\ o.pc = "copyAttrs"
    BY EditingTyped DEF CopyAttrs, TypedInv
  <1>1. PICK c : Writing(o, c) /\ c.attrs = Source(o).attrs /\ c.assocs = Made(o).assocs
    BY <1>0, CopyWrites
  <1>2. CASE o.op \in EditOps
    <2>1. NewVersion(o) /\ c.attrs = Old(o).attrs
      BY <1>0, <1>1, <1>2, Drafting DEF OnCourse
    <2>2. Keyed(Old(o).attrs)
      BY <1>0, <1>2, <2>1, CleanOld DEF Clean
    <2>3. Tracked(Old(o).attrs, c.attrs, o.type, o.base + 1)
      BY <2>1, <2>2, TrackedFewer
    <2>. QED BY <1>0, <1>1, <1>2, <2>1, <2>3, TrackedWritten
  <1>3. CASE o.op \notin EditOps
    <2>1. o.made = 1 /\ Latest(o.type) = 1
      BY <1>0, <1>3 DEF OnCourse, NewType
    <2>. SUFFICES ASSUME NEW t \in Types, NEW v \in 1..(Latest(t)' - 1)
                  PROVE  Tracked(versions'[t][v].attrs, versions'[t][v + 1].attrs, t, v + 1)
      BY DEF FieldsTracked, Tracked, Tracks, NewRoots, Apart
    <2>2. Latest(t) \in Nat /\ Latest(t)' = Latest(t)
      BY <1>0, <1>1, LatestNat, ContentSet DEF SchemaInv, Writing
    <2>3. t # o.type /\ v \in 1..(Latest(t) - 1) /\ v \in 1..Latest(t) /\ v + 1 \in 1..Latest(t)
      BY <2>1, <2>2
    <2>4. versions'[t][v] = versions[t][v] /\ versions'[t][v + 1] = versions[t][v + 1]
      BY <1>0, <1>1, <2>3, ContentSet DEF Writing
    <2>. QED BY <2>3, <2>4 DEF FieldsTracked
  <1>. QED BY <1>2, <1>3

LEMMA CopyAssocsTracked ==
  ASSUME TypedInv, KeysKept, NEW q \in Reqs, NEW o, o = req[q], OnCourse(o), FieldsTracked,
         CopyAssocs(q)
  PROVE  FieldsTracked'
  <1>0. /\ SchemaInv /\ o \in Request /\ o.op \in SchemaOps /\ o.type \in Types
        /\ o.pc = "copyAssocs"
    BY EditingTyped DEF CopyAssocs, TypedInv
  <1>1. o.op \in EditOps /\ NewVersion(o)
    BY <1>0 DEF OnCourse, NewType
  <1>2. PICK c : Writing(o, c) /\ c.assocs = Source(o).assocs /\ c.attrs = Made(o).attrs
    BY <1>0, CopyWrites
  <1>3. c.attrs = Old(o).attrs
    <2>1. New(o).attrs = Old(o).attrs
      BY <1>0, <1>1 DEF NewVersion
    <2>. QED BY <1>0, <1>1, <1>2, <2>1, Drafting
  <1>4. Keyed(Old(o).attrs)
    BY <1>0, <1>1, CleanOld DEF Clean
  <1>5. Tracked(Old(o).attrs, c.attrs, o.type, o.base + 1)
    BY <1>3, <1>4, TrackedFewer
  <1>. QED BY <1>0, <1>1, <1>2, <1>5, TrackedWritten

LEMMA InsertAttrTracked ==
  ASSUME StandingInv, KeysKept, NEW q \in Reqs, NEW o, o = req[q], OnCourse(o), FieldsTracked,
         InsertAttr(q)
  PROVE  FieldsTracked'
  <1>0. /\ TypedInv /\ SchemaInv /\ o \in Request /\ o.op \in SchemaOps
        /\ o.type \in Types /\ o.pc = "change"
    BY EditingTyped DEF InsertAttr, StandingInv, TypedInv
  <1>1. o.op \in EditOps /\ NewVersion(o)
    BY <1>0 DEF OnCourse, NewType
  <1>2. o.adds \in Seq(Attr) /\ o.adds # << >>
    BY <1>0, InsertAttrWrites
  <1>3. CASE versions' = versions
    BY <1>0, <1>3, TrackedSame
  <1>4. CASE /\ Head(o.adds).name \notin AttrNames(o.type, o.made)
             /\ \E c : /\ Writing(o, c) /\ c.assocs = Made(o).assocs
                       /\ c.attrs = Made(o).attrs \cup {Head(o.adds)}
    <2>1. PICK c : /\ Writing(o, c) /\ c.assocs = Made(o).assocs
                   /\ c.attrs = Made(o).attrs \cup {Head(o.adds)}
      BY <1>4
    <2>2. /\ Keyed(c.attrs)
          /\ Head(o.adds).root = <<o.type, Head(o.adds).name, o.made>>
      BY <1>0, <1>1, <1>2, <1>4, <2>1, InsertClean DEF Clean
    <2>3. Made(o) = New(o) /\ Extended(o) /\ o.made = o.base + 1
      BY <1>0, <1>1, Drafting DEF NewVersion
    <2>4. \A b \in c.attrs \ Old(o).attrs : b.root = <<o.type, b.name, o.base + 1>>
      BY <2>1, <2>2, <2>3 DEF Extended
    <2>5. Old(o).attrs \subseteq c.attrs
      BY <2>1, <2>3 DEF Extended
    <2>6. Tracked(Old(o).attrs, c.attrs, o.type, o.base + 1)
      BY <2>2, <2>4, <2>5, TrackedGrown
    <2>. QED BY <1>0, <1>1, <2>1, <2>6, TrackedWritten
  <1>. QED BY <1>0, <1>3, <1>4, InsertAttrWrites

LEMMA EditsTracked ==
  ASSUME TypedInv, KeysKept, NEW q \in Reqs, NEW o, o = req[q], OnCourse(o), FieldsTracked,
         Edits(q)
  PROVE  FieldsTracked'
  <1>0. /\ SchemaInv /\ o \in Request /\ o.op \in SchemaOps /\ o.type \in Types
        /\ o.pc = "change"
    BY EditingTyped DEF Edits, DropAttr, SetAttr, InsertAssoc, SetAssoc, DropAssoc, Changing,
       TypedInv
  <1>1. o.op \in EditOps /\ NewVersion(o)
    BY <1>0 DEF OnCourse, NewType
  <1>2. o.adds = << >>
    <2>1. o.op \notin {"addAttribute", "copyAttributes"}
      BY <1>0 DEF Edits, DropAttr, SetAttr, InsertAssoc, SetAssoc, DropAssoc, Changing
    <2>. QED BY <1>1, <2>1 DEF NewVersion, Asked
  <1>3. /\ Made(o).attrs = Old(o).attrs /\ Old(o) \in Finite /\ Keyed(Old(o).attrs)
    <2>1. Extended(o)
      BY <1>0, <1>1 DEF NewVersion
    <2>2. New(o).attrs = Old(o).attrs
      BY <1>2, <2>1 DEF Extended
    <2>. QED BY <1>0, <1>1, <2>2, Drafting, CleanOld DEF Clean
  <1>4. \E c : Writing(o, c) /\ Tracked(Old(o).attrs, c.attrs, o.type, o.base + 1)
    <2>1. CASE DropAttr(q)
      <3>1. PICK c : /\ Writing(o, c) /\ c.assocs = Made(o).assocs
                     /\ c.attrs = {a \in Made(o).attrs : a.name # o.name}
        BY <1>0, <2>1, DropWrites
      <3>2. c.attrs \subseteq Old(o).attrs
        BY <1>3, <3>1
      <3>. QED BY <1>3, <3>1, <3>2, TrackedFewer
    <2>2. CASE DropAssoc(q) \/ SetAssoc(q) \/ InsertAssoc(q)
      <3>1. PICK c : Writing(o, c) /\ c.attrs = Made(o).attrs
        <4>1. CASE DropAssoc(q)
          BY <1>0, <4>1, DropWrites
        <4>2. CASE SetAssoc(q)
          BY <1>0, <4>2, SetWrites
        <4>3. CASE InsertAssoc(q)
          BY <1>0, <4>3, SetWrites
        <4>. QED BY <2>2, <4>1, <4>2, <4>3
      <3>. QED BY <1>3, <3>1, TrackedFewer
    <2>3. CASE SetAttr(q)
      <3>1. PICK c : Writing(o, c) /\ c.assocs = Made(o).assocs /\ c.attrs = ChangedAttrs(o)
        BY <1>0, <2>3, SetWrites
      <3>. QED BY <1>3, <3>1, TrackedChanged
    <2>. QED BY <2>1, <2>2, <2>3 DEF Edits
  <1>. QED BY <1>0, <1>1, <1>4, TrackedWritten

LEMMA DeletedTracked ==
  ASSUME SchemaInv, FieldsTracked, NEW q \in Reqs, DeleteEntityType(q)
  PROVE  FieldsTracked'
  <1>. SUFFICES ASSUME NEW t \in Types, NEW v \in 1..(Latest(t)' - 1)
                PROVE  Tracked(versions'[t][v].attrs, versions'[t][v + 1].attrs, t, v + 1)
    BY DEF FieldsTracked, Tracked, Tracks, NewRoots, Apart
  <1>1. versions'[t] = versions[t] /\ v \in 1..(Latest(t) - 1)
    BY Deleted DEF Latest
  <1>. QED BY <1>1 DEF FieldsTracked

(***************************************************************************)
(* Every step but a renumbering, which is noted when it is asked for.      *)
(***************************************************************************)
LEMMA TypesTracked ==
  ASSUME StandingInv, KeysKept, NEW q \in Reqs, NEW o, o = req[q], OnCourse(o), FieldsTracked,
         TypesMove(q), o.op # "reorder"
  PROVE  FieldsTracked'
  <1>0. TypedInv /\ SchemaInv
    BY DEF StandingInv, TypedInv
  <1>1. CASE \/ UpdateEntityType(q) \/ AddAttribute(q) \/ RemoveAttribute(q) \/ EditAttribute(q)
             \/ CopyAttributesFromType(q) \/ CreateAssociation(q) \/ EditAssociation(q)
             \/ DeleteAssociation(q)
    <2>1. EditBegun(q)
      BY <1>0, <1>1, EditsBegin
    <2>2. versions' = versions
      BY <2>1 DEF EditBegun, StartEdit, schema
    <2>. QED BY <2>2, TrackedSame
  <1>2. CASE \/ ReorderAttributes(q) \/ CreateEntityType(q) \/ CopyEntityType(q)
             \/ CreateTypeDefinition(q) \/ UpdateTypeDefinition(q) \/ DeleteTypeDefinition(q)
             \/ RenameEntityType(q)
    <2>1. versions' = versions
      BY <1>2 DEF ReorderAttributes, CreateEntityType, CopyEntityType, RenameEntityType,
         CreateTypeDefinition, UpdateTypeDefinition, DeleteTypeDefinition, schema
    <2>. QED BY <2>1, TrackedSame
  <1>3. CASE SaveType(q) \/ InsertDefVersion(q) \/ DropDef(q) \/ ReadType(q) \/ InsertDef(q)
             \/ InsertType(q) \/ Fail(q)
    <2>1. versions' = versions
      BY <1>3 DEF SaveType, InsertDefVersion, DropDef, ReadType, InsertDef, InsertType, Fail, schema
    <2>. QED BY <2>1, TrackedSame
  <1>4. CASE Renumber(q)
    <2>1. o.op \in SchemaOps /\ Fits(o) /\ o.pc = "reorder"
      BY <1>0, <1>4, EditingTyped DEF Renumber
    <2>. QED BY <2>1 DEF Fits
  <1>5. CASE DeleteEntityType(q)
    BY <1>0, <1>5, DeletedTracked
  <1>. QED BY <1>0, <1>1, <1>2, <1>3, <1>4, <1>5, CreateVersionTracked, CopyAttrsTracked,
              CopyAssocsTracked, InsertAttrTracked, EditsTracked DEF TypesMove, Edits

-----------------------------------------------------------------------------
(***************************************************************************)
(* The statements that fill a version in change no other, and a request    *)
(* for the schema comes to them by inserting the version they fill.        *)
(***************************************************************************)
Fills(r) == r.op \in SchemaOps /\ r.pc \in {"copyAttrs", "copyAssocs", "change"}

Unmoved(t, v) == v \in 1..Latest(t)' /\ versions'[t][v] = versions[t][v]

LEMMA UnmovedSame ==
  ASSUME versions' = versions
  PROVE  \A t \in Types : \A v \in 1..Latest(t) : Unmoved(t, v)
  BY DEF Unmoved, Latest

LEMMA UnmovedWritten ==
  ASSUME SchemaInv, NEW o, NEW c, Writing(o, c)
  PROVE  \A t \in Types : \A v \in 1..Latest(t) : Unmoved(t, v) \/ (t = o.type /\ v = o.made)
  BY ContentSet DEF Writing, Unmoved

LEMMA VersionsFilled ==
  ASSUME SchemaInv, NEW q \in Reqs, NEW o, o = req[q], o.op # "reorder", TypesMove(q),
         "deleted" \notin trouble'
  PROVE  \A t \in Types : \A v \in 1..Latest(t) :
            Unmoved(t, v) \/ (Fills(o) /\ t = o.type /\ v = o.made)
  <1>1. CASE \/ UpdateEntityType(q) \/ AddAttribute(q) \/ RemoveAttribute(q) \/ EditAttribute(q)
             \/ CopyAttributesFromType(q) \/ CreateAssociation(q) \/ EditAssociation(q)
             \/ DeleteAssociation(q)
    <2>1. EditBegun(q)
      BY <1>1, EditsBegin
    <2>2. versions' = versions
      BY <2>1 DEF EditBegun, StartEdit, schema
    <2>. QED BY <2>2, UnmovedSame
  <1>2. CASE \/ ReorderAttributes(q) \/ CreateEntityType(q) \/ CopyEntityType(q)
             \/ CreateTypeDefinition(q) \/ UpdateTypeDefinition(q) \/ DeleteTypeDefinition(q)
             \/ RenameEntityType(q)
    <2>1. versions' = versions
      BY <1>2 DEF ReorderAttributes, CreateEntityType, CopyEntityType, RenameEntityType,
         CreateTypeDefinition, UpdateTypeDefinition, DeleteTypeDefinition, schema
    <2>. QED BY <2>1, UnmovedSame
  <1>3. CASE SaveType(q) \/ InsertDefVersion(q) \/ DropDef(q) \/ ReadType(q) \/ InsertDef(q)
             \/ InsertType(q) \/ Fail(q)
    <2>1. versions' = versions
      BY <1>3 DEF SaveType, InsertDefVersion, DropDef, ReadType, InsertDef, InsertType, Fail, schema
    <2>. QED BY <2>1, UnmovedSame
  <1>4. CASE CreateVersion(q)
    <2>1. PICK u \in Types : u = o.type
      BY <1>4, EditingTyped DEF CreateVersion
    <2>2. CASE versions' = versions
      BY <2>2, UnmovedSame
    <2>3. CASE Appends(u)
      <3>. SUFFICES ASSUME NEW t \in Types, NEW v \in 1..Latest(t) PROVE Unmoved(t, v)
        OBVIOUS
      <3>1. Latest(t) \in Nat
        BY LatestNat DEF SchemaInv
      <3>2. Latest(t)' = Latest(t) \/ Latest(t)' = Latest(t) + 1
        BY <2>3, Appended
      <3>3. versions'[t][v] = versions[t][v]
        BY <2>3, Appended
      <3>. QED BY <3>1, <3>2, <3>3 DEF Unmoved
    <2>. QED BY <1>4, <2>1, <2>2, <2>3 DEF CreateVersion, Appends
  <1>5. CASE CopyAttrs(q) \/ CopyAssocs(q) \/ InsertAttr(q) \/ Edits(q)
    <2>1. Fills(o)
      BY <1>5, EditingTyped DEF CopyAttrs, CopyAssocs, InsertAttr, Edits, DropAttr, SetAttr,
         InsertAssoc, SetAssoc, DropAssoc, Changing, Fills
    <2>2. versions' = versions \/ \E c : Writing(o, c)
      <3>1. CASE CopyAttrs(q) \/ CopyAssocs(q)
        BY <3>1, CopyWrites
      <3>2. CASE InsertAttr(q)
        BY <3>2, InsertAttrWrites
      <3>3. CASE DropAttr(q) \/ DropAssoc(q)
        BY <3>3, DropWrites
      <3>4. CASE SetAttr(q) \/ SetAssoc(q) \/ InsertAssoc(q)
        BY <3>4, SetWrites
      <3>. QED BY <1>5, <3>1, <3>2, <3>3, <3>4 DEF Edits
    <2>3. CASE versions' = versions
      BY <2>3, UnmovedSame
    <2>4. CASE \E c : Writing(o, c)
      BY <2>1, <2>4, UnmovedWritten
    <2>. QED BY <2>2, <2>3, <2>4
  <1>6. CASE Renumber(q)
    <2>1. o.op \in SchemaOps /\ Fits(o) /\ o.pc = "reorder"
      BY <1>6, EditingTyped DEF Renumber
    <2>. QED BY <2>1 DEF Fits
  <1>7. CASE DeleteEntityType(q)
    BY <1>7 DEF DeleteEntityType, Note
  <1>. QED BY <1>1, <1>2, <1>3, <1>4, <1>5, <1>6, <1>7 DEF TypesMove, Edits

LEMMA FilledOn ==
  ASSUME NEW o \in Request, o.op \in SchemaOps, NEW pc, NEW s, s = [o EXCEPT !.pc = pc]
  PROVE  s.pc = pc /\ s.type = o.type /\ s.made = o.made /\ s.op = o.op
  BY DEF Request

LEMMA FillsFrom ==
  ASSUME TypedInv, NEW q \in Reqs, NEW o, NEW s, Steps(q, o, s), TypesMove(q), Fills(s)
  PROVE  \/ Fills(o) /\ s.type = o.type /\ s.made = o.made
         \/ o.type \in Types /\ s.type = o.type /\ s.made = Latest(o.type) + 1 /\ UNCHANGED pins
  <1>0. SchemaInv /\ o = req[q] /\ s = req'[q] /\ (\A r : req' = [req EXCEPT ![q] = r] => s = r)
    BY DEF TypedInv, Steps, SchemaInv, Requested
  <1>1. CASE \/ UpdateEntityType(q) \/ AddAttribute(q) \/ RemoveAttribute(q) \/ EditAttribute(q)
             \/ CopyAttributesFromType(q) \/ CreateAssociation(q) \/ EditAssociation(q)
             \/ DeleteAssociation(q)
    <2>1. PICK r, flaws : r \in Request /\ StartEdit(q, r, flaws) /\ r.op \in EditOps /\ r.pc = "create"
      BY <1>0, <1>1, EditsBegin DEF EditBegun
    <2>2. PICK x : x = [r EXCEPT !.from = r.type, !.fromVer = Latest(r.type), !.base = Latest(r.type)]
      OBVIOUS
    <2>3. s = x
      BY <1>0, <2>1, <2>2 DEF StartEdit, Start
    <2>4. x.pc = "create"
      BY <2>1, <2>2 DEF Request
    <2>. QED BY <2>3, <2>4 DEF Fills
  <1>2. CASE \/ ReorderAttributes(q) \/ CreateEntityType(q) \/ CopyEntityType(q)
             \/ CreateTypeDefinition(q) \/ UpdateTypeDefinition(q) \/ DeleteTypeDefinition(q)
             \/ RenameEntityType(q)
    <2>1. PICK r, flaws : /\ Start(q, r, flaws) /\ r.op \notin EditOps
                          /\ r.pc \notin {"create", "copyAttrs", "copyAssocs", "change"}
      BY <1>2, PlainStart
    <2>2. s = r
      BY <1>0, <2>1 DEF Start
    <2>. QED BY <2>1, <2>2 DEF Fills
  <1>3. CASE CreateVersion(q)
    <2>0. o \in Request /\ o.type \in Types
      BY <1>0, <1>3, EditingTyped DEF CreateVersion
    <2>1. s # Idle
      BY DEF Fills, Idle, SchemaOps, EditOps
    <2>2. Latest(o.type) = o.base /\ req' = [req EXCEPT ![q] = IF o.op = "createType" THEN Idle
                                     ELSE [o EXCEPT !.made = o.base + 1, !.pc = "copyAttrs"]]
      BY <1>0, <1>3, <2>1 DEF CreateVersion, Finish
    <2>3. PICK n : n = o.base + 1
      OBVIOUS
    <2>4. s = [o EXCEPT !.made = n, !.pc = "copyAttrs"]
      BY <1>0, <2>1, <2>2, <2>3
    <2>5. s.type = o.type /\ s.made = n
      BY <2>0, <2>4 DEF Request
    <2>. QED BY <1>3, <2>0, <2>2, <2>3, <2>5 DEF CreateVersion, pinned
  <1>4. CASE CopyAttrs(q) \/ CopyAssocs(q)
    <2>0. o \in Request /\ Fills(o) /\ o.op \in SchemaOps
      BY <1>0, <1>4, EditingTyped DEF CopyAttrs, CopyAssocs, Fills
    <2>1. (\E pc : Goto(q, pc)) \/ Finish(q)
      BY <1>4 DEF CopyAttrs, CopyAssocs
    <2>2. s # Idle
      BY DEF Fills, Idle, SchemaOps, EditOps
    <2>3. PICK pc : s = [o EXCEPT !.pc = pc]
      BY <1>0, <2>1, <2>2 DEF Goto, Finish
    <2>. QED BY <2>0, <2>3, FilledOn
  <1>5. CASE InsertAttr(q)
    <2>0. o \in Request /\ Fills(o) /\ o.op \in SchemaOps
      BY <1>0, <1>5, EditingTyped DEF InsertAttr, Fills
    <2>1. s # Idle
      BY DEF Fills, Idle, SchemaOps, EditOps
    <2>2. PICK x : x = Tail(o.adds)
      OBVIOUS
    <2>3. s = [o EXCEPT !.adds = x]
      <3>1. \/ Finish(q)
            \/ req' = [req EXCEPT ![q] = IF Len(o.adds) = 1 THEN Idle
                                           ELSE [o EXCEPT !.adds = Tail(o.adds)]]
        BY <1>0, <1>5, InsertAttrWrites
      <3>2. \/ req' = [req EXCEPT ![q] = Idle]
            \/ req' = [req EXCEPT ![q] = [o EXCEPT !.adds = x]]
        BY <2>2, <3>1 DEF Finish
      <3>. QED BY <1>0, <2>1, <3>2
    <2>4. s.type = o.type /\ s.made = o.made
      BY <2>0, <2>3 DEF Request
    <2>. QED BY <2>0, <2>4
  <1>6. CASE Edits(q) \/ Renumber(q) \/ SaveType(q) \/ InsertDefVersion(q) \/ DropDef(q) \/ Fail(q)
    <2>1. Finish(q)
      BY <1>6 DEF Edits, DropAttr, SetAttr, InsertAssoc, SetAssoc, DropAssoc, Renumber, SaveType,
         InsertDefVersion, DropDef, Fail
    <2>2. s = Idle
      BY <1>0, <2>1 DEF Finish
    <2>. QED BY <2>2 DEF Fills, Idle, SchemaOps, EditOps
  <1>7. CASE DeleteEntityType(q)
    <2>1. s = Idle
      BY <1>0, <1>7 DEF DeleteEntityType, Ready
    <2>. QED BY <2>1 DEF Fills, Idle, SchemaOps, EditOps
  <1>8. CASE InsertType(q)
    <2>0. o \in Request /\ o.op \in SchemaOps
      BY <1>0, <1>8, RequestKnown DEF InsertType, At
    <2>1. s # Idle
      BY DEF Fills, Idle, SchemaOps, EditOps
    <2>2. PICK t : s = [o EXCEPT !.type = t, !.pc = "create"]
      BY <1>0, <1>8, <2>1 DEF InsertType, Finish
    <2>3. s.pc = "create"
      BY <2>0, <2>2 DEF Request
    <2>. QED BY <2>3 DEF Fills
  <1>9. CASE ReadType(q)
    <2>0. o \in Request /\ o.op \in SchemaOps
      BY <1>0, <1>9, RequestKnown DEF ReadType, At
    <2>1. s # Idle
      BY DEF Fills, Idle, SchemaOps, EditOps
    <2>2. PICK n : n = types[o.type]
      OBVIOUS
    <2>3. s = [o EXCEPT !.pc = "saveType", !.typeName = n]
      BY <1>0, <1>9, <2>1, <2>2 DEF ReadType, Finish
    <2>4. s.pc = "saveType"
      BY <2>0, <2>3 DEF Request
    <2>. QED BY <2>4 DEF Fills
  <1>10. CASE InsertDef(q)
    <2>0. o \in Request /\ o.op \in SchemaOps
      BY <1>0, <1>10, RequestKnown DEF InsertDef, At
    <2>1. s # Idle
      BY DEF Fills, Idle, SchemaOps, EditOps
    <2>2. s = [o EXCEPT !.pc = "insertDefVersion"]
      BY <1>0, <1>10, <2>1 DEF InsertDef, Finish, Goto
    <2>. QED BY <2>0, <2>2, FilledOn DEF Fills
  <1>. QED BY <1>1, <1>2, <1>3, <1>4, <1>5, <1>6, <1>7, <1>8, <1>9, <1>10 DEF TypesMove, Edits

-----------------------------------------------------------------------------
(***************************************************************************)
(* While requests come one at a time, and attributes are not reordered.    *)
(***************************************************************************)
TrackSeq ==
    "overlap" \notin trouble =>
       /\ \A r : r = AtWork /\ r.op = "reorder" => "reordered" \in trouble
       /\ "reordered" \notin trouble => FieldsTracked

TrackInv == DraftInv /\ TrackSeq

-----------------------------------------------------------------------------
(***************************************************************************)
(* A request to reorder is noted when it starts.                           *)
(***************************************************************************)
LEMMA ReorderNoted ==
  ASSUME TypedInv, NEW q \in Reqs, NEW o, NEW s, Steps(q, o, s), TypesMove(q), s.op = "reorder"
  PROVE  o.op = "reorder" \/ "reordered" \in trouble'
  <1>0. SchemaInv /\ TypeInv /\ o = req[q] /\ (\A r : req' = [req EXCEPT ![q] = r] => s = r)
    BY DEF TypedInv, Steps, SchemaInv, Requested
  <1>1. s # Idle
    BY DEF Idle
  <1>2. CASE \/ UpdateEntityType(q) \/ AddAttribute(q) \/ RemoveAttribute(q) \/ EditAttribute(q)
             \/ CopyAttributesFromType(q) \/ CreateAssociation(q) \/ EditAssociation(q)
             \/ DeleteAssociation(q)
    <2>1. PICK r, flaws : r \in Request /\ StartEdit(q, r, flaws) /\ r.op \in EditOps /\ r.pc = "create"
      BY <1>0, <1>2, EditsBegin DEF EditBegun
    <2>2. PICK x : x = [r EXCEPT !.from = r.type, !.fromVer = Latest(r.type), !.base = Latest(r.type)]
      OBVIOUS
    <2>3. s = x
      BY <1>0, <2>1, <2>2 DEF StartEdit, Start
    <2>4. x.op = r.op
      BY <2>1, <2>2 DEF Request
    <2>. QED BY <2>1, <2>3, <2>4 DEF EditOps
  <1>4. ASSUME ReorderAttributes(q) PROVE "reordered" \in trouble'
    BY <1>4 DEF ReorderAttributes, Start, Note
  <1>3. CASE \/ CreateEntityType(q) \/ CopyEntityType(q) \/ CreateTypeDefinition(q)
             \/ UpdateTypeDefinition(q) \/ DeleteTypeDefinition(q) \/ RenameEntityType(q)
    <2>1. PICK r, flaws : /\ Start(q, r, flaws) /\ r.op \notin EditOps
                          /\ r.pc \notin {"create", "copyAttrs", "copyAssocs", "change"}
                          /\ r.pc = "insertType" => r.base = 0
                          /\ r.op = "reorder" => ReorderAttributes(q)
      BY <1>3, PlainStart
    <2>2. s = r
      BY <1>0, <2>1 DEF Start
    <2>. QED BY <2>1, <2>2, <1>4
  <1>5. CASE DeleteEntityType(q)
    <2>1. req' = req /\ o = Idle
      BY <1>0, <1>5 DEF DeleteEntityType, Ready
    <2>. QED BY <1>1, <2>1, StepStays
  <1>6. CASE \/ CreateVersion(q) \/ CopyAttrs(q) \/ CopyAssocs(q)
             \/ InsertAttr(q) \/ ReadType(q) \/ InsertDef(q)
    BY <1>1, <1>6, KeepsAsking DEF Kept
  <1>7. CASE Edits(q) \/ Renumber(q) \/ SaveType(q) \/ InsertDefVersion(q) \/ DropDef(q) \/ Fail(q)
    <2>1. Finish(q)
      BY <1>7 DEF Edits, DropAttr, SetAttr, InsertAssoc, SetAssoc, DropAssoc, Renumber, SaveType,
         InsertDefVersion, DropDef, Fail
    <2>. QED BY <1>0, <1>1, <2>1 DEF Finish
  <1>8. CASE InsertType(q)
    <2>0. o \in Request /\ o.op \in SchemaOps
      BY <1>0, <1>8, RequestKnown DEF InsertType, At
    <2>2. PICK t : s = [o EXCEPT !.type = t, !.pc = "create"]
      BY <1>0, <1>1, <1>8 DEF InsertType, Finish
    <2>3. s.op = o.op
      BY <2>0, <2>2 DEF Request
    <2>. QED BY <2>3
  <1>. QED BY <1>2, <1>3, <1>4, <1>5, <1>6, <1>7, <1>8 DEF TypesMove, Edits

LEMMA TrackStart == Init => TrackInv
  <1>. SUFFICES ASSUME Init PROVE TrackSeq
    BY DraftStart DEF TrackInv
  <1>1. ASSUME NEW t \in Types PROVE Latest(t) \in 0..1
    BY DEF Init, TypesInit, Latest
  <1>2. \A t \in Types : 1..(Latest(t) - 1) = {}
    BY <1>1
  <1>3. AtWork = Idle
    BY DEF Init, TypesInit, AtWork, Active
  <1>. QED BY <1>2, <1>3 DEF TrackSeq, FieldsTracked, Idle

LEMMA TrackNext ==
  ASSUME TrackInv, [Next]_vars
  PROVE  TrackInv'
  <1>0. KeptInv /\ DraftInv' /\ DraftSeq /\ TrackSeq
    BY DraftNext DEF TrackInv, DraftInv
  <1>. SUFFICES ASSUME "overlap" \notin trouble'
                PROVE  /\ \A r : r = AtWork' /\ r.op = "reorder" => "reordered" \in trouble'
                       /\ "reordered" \notin trouble' => FieldsTracked'
    BY <1>0 DEF TrackInv, TrackSeq
  <1>1. CASE TypesNext
    <2>1. PICK q \in Reqs : TypesMove(q)
      BY <1>1, MovesOf
    <2>2. PICK o, s : Steps(q, o, s) /\ o = AtWork /\ s = AtWork'
      BY <1>0, <2>1, TypesSteps
    <2>3. StandingInv /\ TypedInv /\ trouble \subseteq trouble' /\ o = req[q]
      BY <1>0, <2>1, <2>2, TypesSteps DEF Steps
    <2>4. /\ KeysKept /\ OnCourse(o)
          /\ o.op = "reorder" => "reordered" \in trouble
          /\ "reordered" \notin trouble => FieldsTracked
      BY <1>0, <2>2, <2>3 DEF DraftSeq, TrackSeq
    <2>5. s.op = "reorder" => "reordered" \in trouble'
      BY <2>1, <2>2, <2>3, <2>4, ReorderNoted
    <2>6. "reordered" \notin trouble' => FieldsTracked'
      BY <2>1, <2>3, <2>4, TypesTracked
    <2>. QED BY <2>2, <2>5, <2>6
  <1>2. CASE VersionsNext
    <2>1. PICK q \in Reqs : VersionsMove(q)
      BY <1>2, MovesOf
    <2>2. /\ AtWork'.op \notin SchemaOps /\ versions' = versions /\ trouble \subseteq trouble'
      BY <1>0, <2>1, VersionsSteps
    <2>3. "reordered" \notin trouble' => FieldsTracked
      BY <1>0, <2>2 DEF TrackSeq
    <2>. QED BY <2>2, <2>3, TrackedSame DEF SchemaOps
  <1>3. CASE UNCHANGED vars
    <2>1. UNCHANGED <<versions, trouble, req>>
      BY <1>3 DEF vars, versionVars, schema
    <2>2. AtWork' = AtWork
      BY <2>1, WorkStays
    <2>. QED BY <1>0, <2>1, <2>2, TrackedSame DEF TrackSeq
  <1>. QED BY <1>1, <1>2, <1>3 DEF Next

LEMMA TrackHolds == Spec => []TrackInv
  BY TrackStart, TrackNext, PTL DEF Spec

-----------------------------------------------------------------------------
(***************************************************************************)
(* An attribute is in consecutive versions of its type: what is new in a   *)
(* version has the number of that version in its root.                     *)
(***************************************************************************)
RootIn(t, v, root) == \E a \in versions[t][v].attrs : a.root = root

LEMMA RootsConsecutive ==
  ASSUME SchemaInv, KeysKept, FieldsTracked, NEW t \in Types, NEW i \in 1..Latest(t),
         NEW k \in 1..Latest(t), NEW root, RootIn(t, i, root), RootIn(t, k, root)
  PROVE  \A j \in i..k : RootIn(t, j, root)
  <1>0. Latest(t) \in Nat
    BY LatestNat DEF SchemaInv
  <1>. SUFFICES ASSUME NEW j \in i..k, ~RootIn(t, j, root) PROVE FALSE
    OBVIOUS
  <1>. DEFINE Later == {n \in j..k : RootIn(t, n, root)}
  <1>1. Later \subseteq Nat /\ Later # {} /\ j \in 1..Latest(t)
    BY <1>0
  <1>2. PICK n \in Later : \A m \in Later : n <= m
    BY <1>1, Smallest
  <1>3. n \in j..k /\ RootIn(t, n, root) /\ n # j
    BY <1>2
  <1>4. n - 1 \in j..k /\ n - 1 \in 1..(Latest(t) - 1) /\ (n - 1) + 1 = n /\ n \in 1..Latest(t)
    BY <1>0, <1>1, <1>3
  <1>5. ~RootIn(t, n - 1, root)
    <2>1. n - 1 \notin Later
      BY <1>2, <1>4
    <2>. QED BY <1>4, <2>1
  <1>6. NewRoots(versions[t][n - 1].attrs, versions[t][n].attrs, t, n)
    BY <1>4 DEF FieldsTracked, Tracked
  <1>7. PICK b \in versions[t][n].attrs : b.root = root
    BY <1>3 DEF RootIn
  <1>8. root[1] = t /\ root[3] = n
    BY <1>5, <1>6, <1>7 DEF NewRoots, RootIn
  <1>9. PICK a \in versions[t][i].attrs : a.root = root
    BY DEF RootIn
  <1>10. Rooted(a, t, i)
    BY <1>9 DEF KeysKept, Clean
  <1>11. n <= i
    BY <1>8, <1>9, <1>10 DEF Rooted
  <1>. QED BY <1>0, <1>3, <1>11

-----------------------------------------------------------------------------
(***************************************************************************)
(* buildAttributeMapping, by name and then by ordinal, between adjacent    *)
(* versions: it pairs what has the same root.                              *)
(***************************************************************************)
SameRoots(A, B) == {x \in A \X B : x[1].root = x[2].root}

SameNames(A, B) == {<<x[1].name, x[2].name>> : x \in SameRoots(A, B)}

LEMMA TracksBack == ASSUME NEW A, NEW B, Tracks(A, B) PROVE Tracks(B, A)
  BY DEF Tracks

LEMMA MappingFollows ==
  ASSUME NEW A, NEW B, Keyed(A), Keyed(B), ~Ties(A), ~Ties(B), Tracks(A, B),
         NEW m \in Mappings(A, B)
  PROVE  m = SameRoots(A, B)
  <1>. DEFINE kept == {x \in A \X B : x[1].name = x[2].name}
              gone == {a \in A : \A b \in B : a.name # b.name}
              fresh == {b \in B : \A a \in A : a.name # b.name}
              ords == {a.ord : a \in A} \cap {b.ord : b \in fresh}
              picks == {f \in [ords -> A \X fresh] :
                           \A n \in ords : f[n][1].ord = n /\ f[n][2].ord = n}
  <1>1. PICK f \in picks : m = kept \cup {f[n] : n \in {i \in ords : f[i][1] \in gone}}
    BY DEF Mappings
  <1>2. \A n \in ords : f[n] \in A \X fresh /\ f[n][1].ord = n /\ f[n][2].ord = n
    BY <1>1
  <1>3. ASSUME NEW x \in m PROVE x \in SameRoots(A, B)
    <2>1. CASE x \in kept
      BY <2>1 DEF SameRoots, Tracks
    <2>2. CASE x \notin kept
      <3>1. PICK n \in ords : x = f[n] /\ f[n][1] \in gone
        BY <1>1, <1>3, <2>2
      <3>2. x \in A \X B /\ x[1] \in gone /\ x[2] \in fresh
        BY <1>2, <3>1
      <3>3. Apart(x[1], B) /\ Apart(x[2], A)
        BY <3>2 DEF Apart
      <3>4. x[1].root = x[2].root
        BY <3>2, <3>3 DEF Tracks
      <3>. QED BY <3>2, <3>4 DEF SameRoots
    <2>. QED BY <2>1, <2>2
  <1>4. ASSUME NEW x \in SameRoots(A, B) PROVE x \in m
    <2>1. PICK a \in A, b \in B : x = <<a, b>> /\ a.root = b.root
      BY <1>4 DEF SameRoots
    <2>2. CASE a.name = b.name
      BY <1>1, <2>1, <2>2
    <2>3. CASE a.name # b.name
      <3>1. a \in gone
        BY <2>1, <2>3 DEF Tracks, Keyed
      <3>2. b \in fresh
        BY <2>1, <2>3 DEF Tracks, Keyed
      <3>3. a.ord = b.ord
        BY <2>1 DEF Tracks
      <3>4. PICK n : n = a.ord
        OBVIOUS
      <3>5. n \in ords
        BY <2>1, <3>2, <3>3, <3>4
      <3>6. f[n] \in A \X fresh /\ f[n][1].ord = n /\ f[n][2].ord = n
        BY <1>2, <3>5
      <3>7. f[n][1] = a
        BY <2>1, <3>4, <3>6 DEF Ties
      <3>8. f[n][2] = b
        BY <2>1, <3>3, <3>4, <3>6 DEF Ties
      <3>9. f[n] = x
        BY <2>1, <3>6, <3>7, <3>8
      <3>. QED BY <1>1, <3>1, <3>5, <3>7, <3>9
    <2>. QED BY <2>2, <2>3
  <1>. QED BY <1>3, <1>4

LEMMA NamesFollow ==
  ASSUME NEW A, NEW B, Keyed(A), Keyed(B), NEW moves, moves = SameNames(A, B), NEW a \in A,
         NEW x, x.name = a.name, x.root = a.root
  PROVE  /\ (\E m \in moves : m[1] = x.name) <=> \E b \in B : b.root = x.root
         /\ (\E m \in moves : m[1] = x.name) =>
              \E b \in B : b.root = x.root /\ b.name = (CHOOSE m \in moves : m[1] = x.name)[2]
  <1>1. ASSUME NEW m \in moves, m[1] = x.name
        PROVE  \E b \in B : b.root = x.root /\ b.name = m[2]
    <2>1. PICK y \in SameRoots(A, B) : m = <<y[1].name, y[2].name>>
      BY DEF SameNames
    <2>2. y[1] \in A /\ y[2] \in B /\ y[1].root = y[2].root
      BY DEF SameRoots
    <2>3. y[1] = a
      BY <1>1, <2>1, <2>2 DEF Keyed
    <2>. QED BY <2>1, <2>2, <2>3
  <1>2. ASSUME NEW b \in B, b.root = x.root
        PROVE  \E m \in moves : m[1] = x.name
    <2>1. <<a, b>> \in SameRoots(A, B)
      BY <1>2 DEF SameRoots
    <2>2. <<a.name, b.name>> \in moves
      BY <2>1 DEF SameNames
    <2>. QED BY <2>2
  <1>3. ASSUME \E m \in moves : m[1] = x.name
        PROVE  \E b \in B : b.root = x.root /\ b.name = (CHOOSE m \in moves : m[1] = x.name)[2]
    <2>1. PICK m : m = CHOOSE n \in moves : n[1] = x.name
      OBVIOUS
    <2>2. m \in moves /\ m[1] = x.name
      BY <1>3, <2>1
    <2>. QED BY <1>1, <2>1, <2>2
  <1>. QED BY <1>1, <1>2, <1>3

-----------------------------------------------------------------------------
(***************************************************************************)
(* Values and pins.  A value sits at a version on the attribute it was     *)
(* given to.  It has followed its pin to version v if no version passed on *)
(* the way from its own has that attribute.  A pin of a version that never *)
(* was (number 0) covers no value.                                         *)
(***************************************************************************)
OnePin ==
    \A o, p \in Pins :
       pins[o] # None /\ pins[p] # None /\ pins[o].cv = pins[p].cv /\ pins[o].type = pins[p].type
         => o = p

Unpinned(c, t) == \A p \in PinsOf(c) : pins[p].type # t

Covers(p, x) ==
    /\ pins[p] # None /\ pins[p].ver # 0
    /\ pins[p].cv = catalogs[x.catalog].cv /\ pins[p].type = x.type

Sits(x) == Has(x.type, x.ver) /\ \E a \in versions[x.type][x.ver].attrs : a.name = x.name /\ a.root = x.root

Rests(x) == Sits(x) /\ catalogs[x.catalog] # None /\ \E p \in Pins : Covers(p, x)

Passes(w, u, v) == (w < u /\ u <= v) \/ (v <= u /\ u < w)

Reaches(x, v) ==
    \A u \in 1..Latest(x.type) : Passes(x.ver, u, v) => ~RootIn(x.type, u, x.root)

(***************************************************************************)
(* The request at work: the pins it is to insert are of other types, or    *)
(* already there, which ends it; the                                       *)
(* version it fills is pinned by nobody; and what it carries, when it      *)
(* moves a pin, is what has an attribute in the version it moves it to.    *)
(***************************************************************************)
Carried(r, x) == r.op = "updatePin" /\ r.pc = "commit" /\ x \in r.cells

Followed(r) ==
    \A x \in cells, p \in Pins : Covers(p, x) => Reaches(x, pins[p].ver) \/ Carried(r, x)

Adjacent(v, w) == w = v + 1 \/ v = w + 1

Aimed(r) ==
    LET t == r.new.type
        v == pins[r.pin].ver
        w == r.new.ver
    IN \/ v = w /\ r.moves = {}
       \/ Adjacent(v, w) /\ r.moves = SameNames(versions[t][v].attrs, versions[t][w].attrs)

Lands(r, x) ==
    /\ x.type = r.new.type /\ x.catalog \in r.cats
    /\ \E b \in versions[r.new.type][r.new.ver].attrs :
         b.root = x.root /\ b.name = (CHOOSE m \in r.moves : m[1] = x.name)[2]

Loaded(r) == r.cells \subseteq cells /\ \A x \in r.cells : Lands(r, x)

MovesPin(r) ==
    r.op = "updatePin" =>
       /\ pins[r.pin].type = r.new.type /\ pins[r.pin].ver # 0 /\ r.cats = BuiltOn(r.cv)
       /\ r.pc = "remap" => Aimed(r)
       /\ r.pc \in {"savePin", "commit"} => Loaded(r)
       /\ r.pc = "savePin" =>
            \A x \in cells \ r.cells : Covers(r.pin, x) => Reaches(x, r.new.ver)
       /\ r.pc = "commit" => pins[r.pin] = r.new

AddsPins(r) ==
    /\ r.op = "createCV" =>
         /\ \A x, y \in r.todo : x[1] = y[1] => x = y
         /\ \A x \in r.todo : x \in PinnedVersions(r.cv) \/ Unpinned(r.cv, x[1])
    /\ r.op = "addPin" /\ r.pc = "insertPin" => Unpinned(r.cv, r.new.type)

Untouched(t, v) ==
    /\ \A x \in cells : x.type = t => x.ver < v
    /\ \A p \in Pins : pins[p] # None /\ pins[p].type = t => pins[p].ver < v

FillsNew(r) == Fills(r) => Untouched(r.type, r.made)

Prepared(r) == r.op # "removePin" /\ AddsPins(r) /\ MovesPin(r) /\ FillsNew(r)

CellsFollow(r) ==
    /\ OnePin
    /\ \A x \in cells : Rests(x)
    /\ Followed(r)
    /\ Prepared(r)

Sound ==
    trouble \cap {"overlap", "db", "jumped", "repinned", "double", "ties", "deleted",
                  "reordered"} = {}

FollowSeq == Sound => \A r : r = AtWork => CellsFollow(r)

FollowInv == TrackInv /\ FollowSeq

LEMMA FollowStart == Init => FollowInv
  <1>. SUFFICES ASSUME Init PROVE CellsFollow(AtWork)
    BY TrackStart DEF FollowInv, FollowSeq
  <1>1. AtWork = Idle
    BY DEF Init, TypesInit, AtWork, Active
  <1>2. \A p \in Pins : pins[p] = None
    BY DEF Init
  <1>3. cells = {}
    BY DEF Init
  <1>4. CellsFollow(Idle)
    BY <1>2, <1>3 DEF CellsFollow, OnePin, Followed, Prepared, AddsPins, MovesPin, FillsNew, Fills,
       Idle, SchemaOps, EditOps
  <1>. QED BY <1>1, <1>4

-----------------------------------------------------------------------------
(***************************************************************************)
(* Where a value sits and what its pin is at exists.                       *)
(***************************************************************************)
LEMMA RestsTyped ==
  ASSUME TypeInv, SchemaInv, NEW x \in cells, Rests(x)
  PROVE  /\ x \in Cell /\ x.type \in Types /\ x.catalog \in Catalogs /\ x.ver \in 1..Latest(x.type)
         /\ Latest(x.type) \in Nat /\ catalogs[x.catalog] \in Catalog
  <1>1. x \in Cell
    BY DEF TypeInv, CVTables
  <1>2. x.type \in Types /\ x.catalog \in Catalogs
    BY <1>1 DEF Cell
  <1>3. x.ver \in 1..Latest(x.type) /\ Latest(x.type) \in Nat
    BY <1>2, LatestNat DEF SchemaInv, Rests, Sits, Has
  <1>4. catalogs[x.catalog] \in Catalog
    BY <1>2 DEF Rests, TypeInv, CVTables
  <1>. QED BY <1>1, <1>2, <1>3, <1>4

LEMMA PinAt ==
  ASSUME StandingInv, "deleted" \notin trouble, NEW p \in Pins, pins[p] # None,
         pins[p].ver # 0
  PROVE  /\ pins[p] \in Pin /\ pins[p].type \in Types /\ pins[p].cv \in CVs
         /\ pins[p].ver \in 1..Latest(pins[p].type) /\ Latest(pins[p].type) \in Nat
  <1>1. pins[p] \in Pin
    BY DEF StandingInv, TypedInv, TypeInv, CVTables
  <1>2. pins[p].type \in Types /\ pins[p].cv \in CVs /\ pins[p].ver \in Nat
    BY <1>1 DEF Pin
  <1>3. Has(pins[p].type, pins[p].ver)
    BY <1>2 DEF StandingInv, PinsExist, Known
  <1>4. Latest(pins[p].type) \in Nat
    BY <1>2, LatestNat DEF StandingInv, TypedInv, SchemaInv
  <1>. QED BY <1>1, <1>2, <1>3, <1>4 DEF Has

-----------------------------------------------------------------------------
(***************************************************************************)
(* The schema only changes where no value and no pin is.                   *)
(***************************************************************************)
LEMMA RootsUnmoved ==
  ASSUME NEW t \in Types, NEW v, Unmoved(t, v), NEW root
  PROVE  RootIn(t, v, root)' <=> RootIn(t, v, root)
  BY DEF Unmoved, RootIn

LEMMA TypesFollow ==
  ASSUME StandingInv, StandingInv', NEW q \in Reqs, NEW o, NEW s, Steps(q, o, s), TypesMove(q),
         UNCHANGED <<catalogs, cells>>, "deleted" \notin trouble', o.op # "reorder", CellsFollow(o)
  PROVE  CellsFollow(s)'
  <1>0. /\ TypedInv /\ SchemaInv /\ TypeInv /\ SchemaInv' /\ o = req[q] /\ pins' = pins
        /\ "deleted" \notin trouble
    BY TypesPinned DEF StandingInv, TypedInv, Steps
  <1>1. (o = Idle \/ o.op \in SchemaOps) /\ (s = Idle \/ s.op \in SchemaOps)
    BY <1>0, TypesFrom, TypesCurrent
  <1>2. \A t \in Types : \A v \in 1..Latest(t) : Unmoved(t, v) \/ (Fills(o) /\ t = o.type /\ v = o.made)
    BY <1>0, VersionsFilled
  <1>3. OnePin /\ (\A x \in cells : Rests(x)) /\ Followed(o) /\ FillsNew(o)
    BY DEF CellsFollow, Prepared
  <1>4. \A x : \A p : Covers(p, x)' <=> Covers(p, x)
    BY <1>0 DEF Covers
  <1>5. OnePin'
    BY <1>0, <1>3 DEF OnePin
  <1>6. ASSUME NEW x \in cells
        PROVE  Rests(x)' /\ \A p \in Pins : Covers(p, x) => Reaches(x, pins[p].ver)'
    <2>1. Rests(x) /\ x.type \in Types /\ x.ver \in 1..Latest(x.type) /\ Latest(x.type) \in Nat
      BY <1>0, <1>3, <1>6, RestsTyped
    <2>2. Latest(x.type)' \in Nat
      BY <1>0, <2>1 DEF SchemaInv, Tables, Latest
    <2>3. Unmoved(x.type, x.ver)
      BY <1>2, <1>3, <1>6, <2>1 DEF FillsNew, Untouched
    <2>4. Sits(x)'
      BY <2>1, <2>3 DEF Rests, Sits, Unmoved, Has
    <2>5. Rests(x)'
      BY <1>0, <1>4, <2>1, <2>4 DEF Rests
    <2>6. ASSUME NEW p \in Pins, Covers(p, x) PROVE Reaches(x, pins[p].ver)'
      <3>1. Reaches(x, pins[p].ver)
        <4>1. ~Carried(o, x)
          BY <1>1 DEF Carried, Idle, SchemaOps, EditOps
        <4>. QED BY <1>3, <1>6, <2>6, <4>1 DEF Followed
      <3>2. pins[p] # None /\ pins[p].type = x.type /\ pins[p].ver # 0
        BY <2>6 DEF Covers
      <3>3. pins[p].ver \in 1..Latest(x.type)
        BY <1>0, <3>2, PinAt
      <3>. SUFFICES ASSUME NEW u \in 1..Latest(x.type)', Passes(x.ver, u, pins[p].ver)
                    PROVE  ~RootIn(x.type, u, x.root)'
        BY <1>0 DEF Reaches
      <3>4. u \in 1..Latest(x.type) /\ (u <= x.ver \/ u <= pins[p].ver)
        BY <2>1, <2>2, <3>3 DEF Passes
      <3>5. Unmoved(x.type, u)
        BY <1>2, <1>3, <1>6, <2>1, <3>2, <3>3, <3>4 DEF FillsNew, Untouched
      <3>6. ~RootIn(x.type, u, x.root)
        BY <3>1, <3>4 DEF Reaches
      <3>. QED BY <2>1, <3>5, <3>6, RootsUnmoved
    <2>. QED BY <2>5, <2>6
  <1>7. Followed(s)'
    BY <1>0, <1>4, <1>6 DEF Followed
  <1>8. FillsNew(s)'
    <2>. SUFFICES ASSUME Fills(s) PROVE Untouched(s.type, s.made)'
      BY DEF FillsNew, Fills
    <2>1. CASE Fills(o) /\ s.type = o.type /\ s.made = o.made
      BY <1>0, <1>3, <2>1 DEF FillsNew, Untouched
    <2>2. CASE o.type \in Types /\ s.type = o.type /\ s.made = Latest(o.type) + 1
      <3>1. \A x \in cells : x.type = s.type => x.ver < s.made
        BY <1>0, <1>3, <2>2, RestsTyped
      <3>2. ASSUME NEW p \in Pins, pins[p] # None, pins[p].type = s.type PROVE pins[p].ver < s.made
        <4>1. Latest(s.type) \in Nat /\ s.type \in Types
          BY <1>0, <2>2, LatestNat DEF SchemaInv
        <4>2. CASE pins[p].ver # 0
          BY <1>0, <2>2, <3>2, <4>2, PinAt
        <4>3. CASE pins[p].ver = 0
          BY <2>2, <4>1, <4>3
        <4>. QED BY <4>2, <4>3
      <3>. QED BY <1>0, <3>1, <3>2 DEF Untouched
    <2>. QED BY <1>0, <2>1, <2>2, FillsFrom
  <1>9. Prepared(s)'
    BY <1>1, <1>8 DEF Prepared, AddsPins, MovesPin, Idle, SchemaOps, EditOps
  <1>. QED BY <1>0, <1>5, <1>6, <1>7, <1>9 DEF CellsFollow

-----------------------------------------------------------------------------
(***************************************************************************)
(* What requests on catalog versions leave alone: the schema, and the      *)
(* catalog version a catalog is built on.                                  *)
(***************************************************************************)
LEMMA CatalogsStay ==
  ASSUME TypedInv, NEW q \in Reqs, VersionsMove(q)
  PROVE  /\ versions' = versions
         /\ \A k \in Catalogs : catalogs[k] # None =>
               catalogs'[k] # None /\ catalogs'[k].cv = catalogs[k].cv
  <1>0. SchemaInv /\ TypeInv /\ catalogs \in [Catalogs -> Catalog \cup {None}]
    BY DEF TypedInv, TypeInv, CVTables
  <1>1. versions' = versions
    BY Writers
  <1>2. ASSUME NEW k \in Catalogs, catalogs[k] # None
        PROVE  catalogs'[k] # None /\ catalogs'[k].cv = catalogs[k].cv
    <2>0. catalogs[k] \in Catalog /\ catalogs'[k] # None
      <3>1. catalogs[k] \in Catalog
        BY <1>0, <1>2
      <3>2. k \in Built /\ Built \subseteq Built'
        BY <1>0, <3>1, BuiltStays DEF Built
      <3>. QED BY <3>1, <3>2, RowsAre DEF Built
    <2>1. CASE CreateCatalog(q)
      <3>1. PICK o \in Catalogs, c \in Live :
              /\ catalogs[o] = None
              /\ catalogs' = [catalogs EXCEPT ![o] = [cv |-> c, status |-> "draft", checked |-> {}]]
        BY <2>1 DEF CreateCatalog
      <3>. QED BY <1>0, <1>2, <3>1
    <2>2. CASE Validate(q)
      <3>1. PICK o \in Catalogs : \E verdict, P :
              /\ catalogs[o] # None
              /\ catalogs' = [catalogs EXCEPT ![o].status = verdict, ![o].checked = P]
        BY <2>2 DEF Validate
      <3>2. PICK verdict, P :
              /\ catalogs[o] # None
              /\ catalogs' = [catalogs EXCEPT ![o].status = verdict, ![o].checked = P]
        BY <3>1
      <3>3. catalogs' = [catalogs EXCEPT ![o] = [catalogs[o] EXCEPT !.status = verdict, !.checked = P]]
        BY <1>0, <3>2
      <3>4. catalogs[o] \in Catalog
        BY <1>0, <3>2
      <3>5. [catalogs[o] EXCEPT !.status = verdict, !.checked = P].cv = catalogs[o].cv
        BY <3>4 DEF Catalog
      <3>6. catalogs'[k].cv = catalogs[k].cv
        BY <1>0, <1>2, <3>3, <3>5
      <3>. QED BY <2>0, <3>6
    <2>3. CASE SetValue(q) \/ ResetCatalog(q)
      <3>1. PICK o : catalogs' = [catalogs EXCEPT ![o].status = "draft"]
        BY <2>3 DEF SetValue, ResetCatalog
      <3>2. catalogs'[k] = catalogs[k] \/ catalogs'[k] = [catalogs[k] EXCEPT !.status = "draft"]
        BY <1>0, <3>1
      <3>3. [catalogs[k] EXCEPT !.status = "draft"].cv = catalogs[k].cv
            /\ [catalogs[k] EXCEPT !.status = "draft"] # None
        BY <2>0, RowsAre DEF Catalog
      <3>. QED BY <1>2, <3>2, <3>3
    <2>4. CASE Commit(q)
      <3>1. catalogs'[k] = catalogs[k] \/ catalogs'[k] = [catalogs[k] EXCEPT !.status = "draft"]
        BY <2>4 DEF Commit
      <3>2. [catalogs[k] EXCEPT !.status = "draft"].cv = catalogs[k].cv
            /\ [catalogs[k] EXCEPT !.status = "draft"] # None
        BY <2>0, RowsAre DEF Catalog
      <3>. QED BY <1>2, <3>1, <3>2
    <2>. QED BY <1>2, <2>1, <2>2, <2>3, <2>4, Writers
  <1>. QED BY <1>1, <1>2

(***************************************************************************)
(* Who covers, rests and reaches, seen before and after such a step.       *)
(***************************************************************************)
LEMMA ViewStays ==
  ASSUME StandingInv, NEW q \in Reqs, VersionsMove(q), NEW x \in cells, Rests(x)
  PROVE  /\ Sits(x)' /\ catalogs'[x.catalog] # None
         /\ catalogs'[x.catalog].cv = catalogs[x.catalog].cv
         /\ \A p : pins'[p] = pins[p] => (Covers(p, x)' <=> Covers(p, x))
         /\ \A p : Reaches(x, pins[p].ver)' <=> Reaches(x, pins'[p].ver)
  <1>0. TypedInv /\ SchemaInv /\ TypeInv
    BY DEF StandingInv, TypedInv
  <1>1. x.catalog \in Catalogs /\ catalogs[x.catalog] # None /\ Sits(x)
    BY <1>0, RestsTyped DEF Rests
  <1>2. versions' = versions /\ catalogs'[x.catalog] # None
        /\ catalogs'[x.catalog].cv = catalogs[x.catalog].cv
    BY <1>0, <1>1, CatalogsStay
  <1>3. Sits(x)'
    BY <1>1, <1>2 DEF Sits, Has, Latest
  <1>4. \A p : pins'[p] = pins[p] => (Covers(p, x)' <=> Covers(p, x))
    BY <1>2 DEF Covers
  <1>5. \A p : Reaches(x, pins[p].ver)' <=> Reaches(x, pins'[p].ver)
    BY <1>2 DEF Reaches, RootIn, Latest
  <1>. QED BY <1>2, <1>3, <1>4, <1>5

LEMMA QuietFollow ==
  ASSUME StandingInv, NEW q \in Reqs, VersionsMove(q), NEW o, NEW s, CellsFollow(o),
         pins' = pins, cells' = cells, ~(o.op = "updatePin" /\ o.pc = "commit"), Prepared(s)'
  PROVE  CellsFollow(s)'
  <1>1. OnePin /\ (\A x \in cells : Rests(x)) /\ Followed(o)
    BY DEF CellsFollow
  <1>2. OnePin'
    BY <1>1 DEF OnePin
  <1>3. ASSUME NEW x \in cells
        PROVE  Rests(x)' /\ \A p \in Pins : Covers(p, x)' => Reaches(x, pins[p].ver)'
    <2>1. /\ Rests(x) /\ Sits(x)' /\ catalogs'[x.catalog] # None
          /\ \A p : Covers(p, x)' <=> Covers(p, x)
          /\ \A p : Reaches(x, pins[p].ver)' <=> Reaches(x, pins'[p].ver)
      BY <1>1, <1>3, ViewStays
    <2>2. Rests(x)'
      BY <2>1 DEF Rests
    <2>3. \A p \in Pins : Covers(p, x) => Reaches(x, pins[p].ver)
      BY <1>1, <1>3 DEF Followed, Carried
    <2>. QED BY <2>1, <2>2, <2>3
  <1>4. Followed(s)'
    BY <1>3 DEF Followed
  <1>. QED BY <1>2, <1>3, <1>4 DEF CellsFollow

(***************************************************************************)
(* A request that neither adds, nor removes, nor moves a pin.              *)
(***************************************************************************)
LEMMA NothingPrepared ==
  ASSUME NEW s, s.op \notin {"createCV", "addPin", "removePin", "updatePin"}, s.op \notin SchemaOps
  PROVE  Prepared(s)'
  BY DEF Prepared, AddsPins, MovesPin, FillsNew, Fills

LEMMA IdlePrepared == Prepared(Idle)'
  BY NothingPrepared DEF Idle, SchemaOps, EditOps

-----------------------------------------------------------------------------
(***************************************************************************)
(* A pin of another type than its catalog version has covers no value.     *)
(***************************************************************************)
LEMMA AddedFollow ==
  ASSUME StandingInv, NEW q \in Reqs, VersionsMove(q), NEW o, NEW s, CellsFollow(o),
         NEW p \in Free, NEW new \in Pin, pins' = [pins EXCEPT ![p] = new], cells' = cells,
         Unpinned(new.cv, new.type), ~(o.op = "updatePin" /\ o.pc = "commit"), Prepared(s)'
  PROVE  CellsFollow(s)'
  <1>0. TypedInv /\ SchemaInv /\ TypeInv /\ p \in Pins /\ pins[p] = None /\ new # None
        /\ pins \in [Pins -> Pin \cup {None}]
    BY RowsAre DEF StandingInv, TypedInv, TypeInv, CVTables, Free
  <1>1. OnePin /\ (\A x \in cells : Rests(x)) /\ Followed(o)
    BY DEF CellsFollow
  <1>2. pins'[p] = new /\ \A r \in Pins \ {p} : pins'[r] = pins[r]
    BY <1>0
  <1>3. \A r \in Pins \ {p} : ~(pins[r] # None /\ pins[r].cv = new.cv /\ pins[r].type = new.type)
    BY DEF Unpinned, PinsOf
  <1>4. OnePin'
    BY <1>1, <1>2, <1>3 DEF OnePin
  <1>5. ASSUME NEW x \in cells
        PROVE  Rests(x)' /\ \A r \in Pins : Covers(r, x)' => Reaches(x, pins[r].ver)'
    <2>1. /\ Rests(x) /\ Sits(x)' /\ catalogs'[x.catalog] # None
          /\ catalogs'[x.catalog].cv = catalogs[x.catalog].cv
          /\ \A r : pins'[r] = pins[r] => (Covers(r, x)' <=> Covers(r, x))
          /\ \A r : Reaches(x, pins[r].ver)' <=> Reaches(x, pins'[r].ver)
      BY <1>1, <1>5, ViewStays
    <2>2. PICK r \in Pins : Covers(r, x)
      BY <2>1 DEF Rests
    <2>3. r # p /\ pins'[r] = pins[r]
      BY <1>0, <1>2, <2>2 DEF Covers
    <2>4. Rests(x)'
      BY <2>1, <2>2, <2>3 DEF Rests
    <2>5. ~Covers(p, x)'
      BY <1>2, <1>3, <2>1, <2>2, <2>3 DEF Covers
    <2>6. ASSUME NEW k \in Pins, Covers(k, x)' PROVE Reaches(x, pins[k].ver)'
      <3>1. k # p /\ pins'[k] = pins[k]
        BY <1>2, <2>5, <2>6
      <3>2. Covers(k, x)
        BY <2>1, <2>6, <3>1
      <3>3. Reaches(x, pins[k].ver)
        BY <1>1, <1>5, <3>2 DEF Followed, Carried
      <3>. QED BY <2>1, <3>1, <3>3
    <2>. QED BY <2>4, <2>6
  <1>6. Followed(s)'
    BY <1>5 DEF Followed
  <1>. QED BY <1>4, <1>5, <1>6 DEF CellsFollow

(***************************************************************************)
(* A catalog version with no catalog covers no value.                      *)
(***************************************************************************)
LEMMA DropRowFollow ==
  ASSUME StandingInv, NEW q \in Reqs, NEW o, NEW s, Steps(q, o, s), Current(o), CellsFollow(o),
         DropRow(q)
  PROVE  CellsFollow(s)'
  <1>0. TypedInv /\ SchemaInv /\ TypeInv /\ VersionsMove(q)
    BY DEF StandingInv, TypedInv, VersionsMove
  <1>1. OnePin /\ (\A x \in cells : Rests(x)) /\ Followed(o) /\ cells' = cells
    BY DEF CellsFollow, DropRow, catalogVars
  <1>2. /\ o.op = "deleteCV" /\ s.op = "deleteCV" /\ BuiltOn(o.cv) = {}
        /\ pins' = [p \in Pins |-> IF p \in PinsOf(o.cv) THEN None ELSE pins[p]]
    BY DropRowCurrent DEF Same
  <1>3. \A p \in Pins : pins'[p] = None \/ pins'[p] = pins[p]
    BY <1>2
  <1>4. OnePin'
    BY <1>1, <1>3 DEF OnePin
  <1>5. ASSUME NEW x \in cells
        PROVE  Rests(x)' /\ \A p \in Pins : Covers(p, x)' => Reaches(x, pins[p].ver)'
    <2>1. /\ Rests(x) /\ Sits(x)' /\ catalogs'[x.catalog] # None
          /\ \A r : pins'[r] = pins[r] => (Covers(r, x)' <=> Covers(r, x))
          /\ \A r : Reaches(x, pins[r].ver)' <=> Reaches(x, pins'[r].ver)
      BY <1>0, <1>1, <1>5, ViewStays
    <2>2. PICK r \in Pins : Covers(r, x)
      BY <2>1 DEF Rests
    <2>3. x.catalog \in Catalogs /\ catalogs[x.catalog] # None
      BY <1>0, <1>5, <2>1, RestsTyped DEF Rests
    <2>4. r \notin PinsOf(o.cv)
      BY <1>2, <2>2, <2>3 DEF PinsOf, Covers, BuiltOn
    <2>5. Rests(x)'
      BY <1>2, <2>1, <2>2, <2>4 DEF Rests
    <2>6. ASSUME NEW p \in Pins, Covers(p, x)' PROVE Reaches(x, pins[p].ver)'
      <3>1. pins'[p] = pins[p]
        BY <1>3, <2>6 DEF Covers
      <3>2. Reaches(x, pins[p].ver)
        BY <1>1, <1>2, <1>5, <2>1, <2>6, <3>1 DEF Followed, Carried
      <3>. QED BY <2>1, <3>1, <3>2
    <2>. QED BY <2>5, <2>6
  <1>6. Followed(s)'
    BY <1>1, <1>5 DEF Followed
  <1>7. Prepared(s)'
    BY <1>2, NothingPrepared DEF SchemaOps, EditOps
  <1>. QED BY <1>1, <1>4, <1>5, <1>6, <1>7 DEF CellsFollow

-----------------------------------------------------------------------------
(***************************************************************************)
(* UpdatePin reads a mapping between adjacent versions, or none at all.    *)
(***************************************************************************)
LEMMA AimedAt ==
  ASSUME SchemaInv, KeysKept, FieldsTracked, NEW t \in Types, NEW v \in 1..Latest(t),
         NEW w \in 1..Latest(t), Adjacent(v, w), ~Ties(versions[t][v].attrs),
         ~Ties(versions[t][w].attrs), NEW m \in Mappings(versions[t][v].attrs, versions[t][w].attrs)
  PROVE  m = SameRoots(versions[t][v].attrs, versions[t][w].attrs)
  <1>. DEFINE A == versions[t][v].attrs
              B == versions[t][w].attrs
  <1>0. Latest(t) \in Nat
    BY LatestNat DEF SchemaInv
  <1>1. Keyed(A) /\ Keyed(B)
    BY DEF KeysKept, Clean
  <1>2. Tracks(A, B)
    <2>1. CASE w = v + 1
      <3>1. v \in 1..(Latest(t) - 1)
        BY <1>0, <2>1
      <3>. QED BY <2>1, <3>1 DEF FieldsTracked, Tracked
    <2>2. CASE v = w + 1
      <3>1. w \in 1..(Latest(t) - 1)
        BY <1>0, <2>2
      <3>2. Tracks(B, A)
        BY <2>2, <3>1 DEF FieldsTracked, Tracked
      <3>. QED BY <3>2, TracksBack
    <2>. QED BY <2>1, <2>2 DEF Adjacent
  <1>. HIDE DEF A, B
  <1>3. ~Ties(A) /\ ~Ties(B) /\ m \in Mappings(A, B)
    BY DEF A, B
  <1>4. m = SameRoots(A, B)
    BY <1>1, <1>2, <1>3, MappingFollows
  <1>. QED BY <1>4 DEF A, B

LEMMA UpdatePinReads ==
  ASSUME TypeInv, NEW q \in Reqs, UpdatePin(q)
  PROVE  \E p \in Pins : \E v \in 1..Latest(pins[p].type) :
            \E m \in Mappings(versions[pins[p].type][pins[p].ver].attrs,
                              versions[pins[p].type][v].attrs) :
               /\ pins[p] # None /\ Has(pins[p].type, pins[p].ver)
               /\ Opens(q, PinRequest(p, v, m)) /\ PinFlaws(p, v) \subseteq trouble'
  <1>1. PICK c \in Live : \E p \in PinsOf(c) : \E v \in 1..Latest(pins[p].type) :
          /\ Ready(q, "updatePin") /\ Has(pins[p].type, pins[p].ver)
          /\ \E m \in Mappings(versions[pins[p].type][pins[p].ver].attrs,
                               versions[pins[p].type][v].attrs) :
               StartCV(q, PinRequest(p, v, m), PinFlaws(p, v))
    BY DEF UpdatePin
  <1>2. PICK p \in PinsOf(c) : \E v \in 1..Latest(pins[p].type) :
          /\ Ready(q, "updatePin") /\ Has(pins[p].type, pins[p].ver)
          /\ \E m \in Mappings(versions[pins[p].type][pins[p].ver].attrs,
                               versions[pins[p].type][v].attrs) :
               StartCV(q, PinRequest(p, v, m), PinFlaws(p, v))
    BY <1>1
  <1>3. PICK v \in 1..Latest(pins[p].type) :
          /\ Ready(q, "updatePin") /\ Has(pins[p].type, pins[p].ver)
          /\ \E m \in Mappings(versions[pins[p].type][pins[p].ver].attrs,
                               versions[pins[p].type][v].attrs) :
               StartCV(q, PinRequest(p, v, m), PinFlaws(p, v))
    BY <1>2
  <1>4. PICK m \in Mappings(versions[pins[p].type][pins[p].ver].attrs,
                            versions[pins[p].type][v].attrs) :
          StartCV(q, PinRequest(p, v, m), PinFlaws(p, v))
    BY <1>3
  <1>5. Opens(q, PinRequest(p, v, m)) /\ PinFlaws(p, v) \subseteq trouble'
    BY <1>3, <1>4, StartCVOpens
  <1>6. p \in Pins /\ pins[p] # None
    BY DEF PinsOf
  <1>. QED BY <1>3, <1>4, <1>5, <1>6

LEMMA UpdatePinPrepared ==
  ASSUME StandingInv, KeysKept, FieldsTracked, NEW q \in Reqs, NEW o, NEW s, Steps(q, o, s),
         UpdatePin(q), trouble' \cap {"jumped", "ties"} = {}
  PROVE  Prepared(s)'
  <1>0. TypedInv /\ SchemaInv /\ TypeInv
    BY DEF StandingInv, TypedInv
  <1>1. PICK p \in Pins : \E v \in 1..Latest(pins[p].type) :
            \E m \in Mappings(versions[pins[p].type][pins[p].ver].attrs,
                              versions[pins[p].type][v].attrs) :
               /\ pins[p] # None /\ Has(pins[p].type, pins[p].ver)
               /\ Opens(q, PinRequest(p, v, m)) /\ PinFlaws(p, v) \subseteq trouble'
    BY <1>0, UpdatePinReads
  <1>2. PICK v \in 1..Latest(pins[p].type) :
            \E m \in Mappings(versions[pins[p].type][pins[p].ver].attrs,
                              versions[pins[p].type][v].attrs) :
               /\ pins[p] # None /\ Has(pins[p].type, pins[p].ver)
               /\ Opens(q, PinRequest(p, v, m)) /\ PinFlaws(p, v) \subseteq trouble'
    BY <1>1
  <1>3. PICK m \in Mappings(versions[pins[p].type][pins[p].ver].attrs,
                            versions[pins[p].type][v].attrs) :
               /\ pins[p] # None /\ Has(pins[p].type, pins[p].ver)
               /\ Opens(q, PinRequest(p, v, m)) /\ PinFlaws(p, v) \subseteq trouble'
    BY <1>2
  <1>4. s = PinRequest(p, v, m)
    BY <1>0, <1>3, StepOpens
  <1>5. pins[p] \in Pin /\ pins[p].type \in Types
    BY <1>0, <1>3 DEF TypeInv, CVTables, Pin
  <1>6. /\ s.op = "updatePin" /\ s.pc = "remap" /\ s.cv = pins[p].cv /\ s.pin = p
        /\ s.new = [pins[p] EXCEPT !.ver = v] /\ s.cats = BuiltOn(pins[p].cv)
    BY <1>4 DEF PinRequest, NewCV
  <1>7. s.moves = IF v = pins[p].ver THEN {} ELSE {<<x[1].name, x[2].name>> : x \in m}
    BY <1>4 DEF PinRequest, NewCV
  <1>8. s.new.type = pins[p].type /\ s.new.ver = v
    BY <1>5, <1>6 DEF Pin
  <1>9. Aimed(s)
    <2>1. CASE v = pins[p].ver
      BY <1>6, <1>7, <1>8, <2>1 DEF Aimed
    <2>2. CASE v # pins[p].ver
      <3>0. pins[p].ver \in 1..Latest(pins[p].type) /\ Latest(pins[p].type) \in Nat
        BY <1>0, <1>3, <1>5, LatestNat DEF Has, SchemaInv
      <3>1. Adjacent(pins[p].ver, v)
        <4>1. v \in (pins[p].ver - 1)..(pins[p].ver + 1)
          BY <1>3 DEF PinFlaws
        <4>. QED BY <2>2, <3>0, <4>1 DEF Adjacent
      <3>2. ~Ties(versions[pins[p].type][pins[p].ver].attrs)
            /\ ~Ties(versions[pins[p].type][v].attrs)
        BY <1>3 DEF PinFlaws
      <3>3. m = SameRoots(versions[pins[p].type][pins[p].ver].attrs, versions[pins[p].type][v].attrs)
        BY <1>0, <1>3, <1>5, <3>0, <3>1, <3>2, AimedAt
      <3>4. s.moves = SameNames(versions[pins[p].type][pins[p].ver].attrs,
                                versions[pins[p].type][v].attrs)
        BY <1>7, <2>2, <3>3 DEF SameNames
      <3>. QED BY <1>6, <1>8, <3>1, <3>4 DEF Aimed
    <2>. QED BY <2>1, <2>2
  <1>10. pins' = pins /\ catalogs' = catalogs /\ versions' = versions
    BY <1>3 DEF Opens, schema
  <1>11. Aimed(s)'
    BY <1>9, <1>10 DEF Aimed
  <1>12. s.cats = BuiltOn(s.cv)'
    BY <1>6, <1>10 DEF BuiltOn
  <1>13. MovesPin(s)'
    <2>1. pins[p].ver # 0
      BY <1>0, <1>3, <1>5, LatestNat DEF Has, SchemaInv
    <2>. QED BY <1>6, <1>8, <1>10, <1>11, <1>12, <2>1 DEF MovesPin
  <1>. QED BY <1>6, <1>13 DEF Prepared, AddsPins, FillsNew, Fills, SchemaOps, EditOps

-----------------------------------------------------------------------------
(***************************************************************************)
(* Remap carries along the values that have an attribute in the new        *)
(* version; the others have followed the pin to it.                        *)
(***************************************************************************)
LEMMA ReachesOn ==
  ASSUME SchemaInv, KeysKept, FieldsTracked, NEW x, x.type \in Types, x.ver \in 1..Latest(x.type),
         NEW v \in 1..Latest(x.type), NEW w \in 1..Latest(x.type), Adjacent(v, w),
         RootIn(x.type, x.ver, x.root), Reaches(x, v), x.ver # v \/ ~RootIn(x.type, w, x.root)
  PROVE  Reaches(x, w)
  <1>0. Latest(x.type) \in Nat
    BY LatestNat DEF SchemaInv
  <1>. SUFFICES ASSUME NEW u \in 1..Latest(x.type), Passes(x.ver, u, w), RootIn(x.type, u, x.root)
                PROVE  FALSE
    BY DEF Reaches
  <1>1. ~Passes(x.ver, u, v)
    BY DEF Reaches
  <1>2. u = w /\ x.ver # w
    BY <1>0, <1>1 DEF Passes, Adjacent
  <1>3. x.ver # v
    BY <1>2
  <1>4. Passes(x.ver, v, v)
    BY <1>0, <1>3 DEF Passes
  <1>5. v \in x.ver..w \/ v \in w..x.ver
    BY <1>0, <1>1, <1>2, <1>3 DEF Passes, Adjacent
  <1>6. RootIn(x.type, v, x.root)
    BY <1>2, <1>5, RootsConsecutive
  <1>. QED BY <1>4, <1>6 DEF Reaches

LEMMA SitsIn ==
  ASSUME NEW x, Sits(x)
  PROVE  RootIn(x.type, x.ver, x.root)
  BY DEF Sits, RootIn

LEMMA RemapLoads ==
  ASSUME StandingInv, KeysKept, FieldsTracked, NEW o, o.op = "updatePin", o.pc = "remap",
         "deleted" \notin trouble, CellsFollow(o), o.pin \in PinsOf(o.cv), o.new \in Pin,
         Has(o.new.type, o.new.ver),
         NEW x \in cells, x.type = o.new.type, x.catalog \in o.cats
  PROVE  LET moves == \E m \in o.moves : m[1] = x.name
         IN /\ x.ver = pins[o.pin].ver /\ moves => Lands(o, x)
            /\ ~(x.ver = pins[o.pin].ver /\ moves) => Reaches(x, o.new.ver)
  <1>. DEFINE p == o.pin
              t == o.new.type
              v == pins[o.pin].ver
              w == o.new.ver
              A == versions[t][v].attrs
              B == versions[t][w].attrs
  <1>0. /\ SchemaInv /\ TypeInv /\ Rests(x) /\ Followed(o) /\ Aimed(o)
        /\ pins[p].type = t /\ pins[p].ver # 0 /\ o.cats = BuiltOn(o.cv)
    BY DEF StandingInv, TypedInv, CellsFollow, Prepared, MovesPin
  <1>1. p \in Pins /\ pins[p] # None /\ pins[p].cv = o.cv
    BY DEF PinsOf
  <1>2. v \in 1..Latest(t) /\ Latest(t) \in Nat /\ t \in Types /\ w \in 1..Latest(t)
    BY <1>0, <1>1, PinAt DEF Has
  <1>3. x.ver \in 1..Latest(t)
    BY <1>0, RestsTyped
  <1>4. Covers(p, x)
    BY <1>0, <1>1 DEF Covers, BuiltOn
  <1>5. Reaches(x, v)
    BY <1>0, <1>1, <1>4 DEF Followed, Carried
  <1>6. CASE v = w /\ o.moves = {}
    BY <1>5, <1>6
  <1>7. CASE Adjacent(v, w) /\ o.moves = SameNames(A, B)
    <2>0. Keyed(A) /\ Keyed(B)
      BY <1>2 DEF KeysKept, Clean
    <2>1. CASE x.ver = v
      <3>1. PICK a \in A : a.name = x.name /\ a.root = x.root
        BY <1>0, <2>1 DEF Rests, Sits
      <3>2. /\ (\E m \in o.moves : m[1] = x.name) <=> \E b \in B : b.root = x.root
            /\ (\E m \in o.moves : m[1] = x.name) =>
                 \E b \in B : b.root = x.root /\ b.name = (CHOOSE m \in o.moves : m[1] = x.name)[2]
        <4>. HIDE DEF A, B
        <4>. QED BY <1>7, <2>0, <3>1, NamesFollow
      <3>3. (\E m \in o.moves : m[1] = x.name) => Lands(o, x)
        BY <3>2 DEF Lands
      <3>4. ASSUME ~\E m \in o.moves : m[1] = x.name PROVE Reaches(x, w)
        <4>1. ~RootIn(x.type, w, x.root)
          BY <3>2, <3>4 DEF RootIn
        <4>. QED BY <1>0, <1>2, <1>3, <1>5, <1>7, <4>1, ReachesOn, SitsIn DEF Rests
      <3>. QED BY <2>1, <3>3, <3>4
    <2>2. CASE x.ver # v
      <3>1. Reaches(x, w)
        BY <1>0, <1>2, <1>3, <1>5, <1>7, <2>2, ReachesOn, SitsIn DEF Rests
      <3>. QED BY <2>2, <3>1
    <2>. QED BY <2>1, <2>2
  <1>. QED BY <1>0, <1>6, <1>7 DEF Aimed

-----------------------------------------------------------------------------
(***************************************************************************)
(* What an update of a pin asks for is there, and its pin covers what it   *)
(* carries.                                                                *)
(***************************************************************************)
LEMMA UpdateAsks ==
  ASSUME StandingInv, NEW q \in Reqs, NEW o, o = req[q], o.op = "updatePin", Current(o),
         "deleted" \notin trouble
  PROVE  /\ o \in CVRequest /\ Shaped(o) /\ o.new \in Pin /\ o.pin \in Pins
         /\ o.pin \in PinsOf(o.cv) /\ o.new.cv = o.cv /\ Has(o.new.type, o.new.ver)
         /\ o.new.type \in Types /\ o.new.ver \in Nat
  <1>1. o \in CVRequest /\ Shaped(o)
    BY AtWhich DEF StandingInv, CVOps
  <1>2. o.new \in Pin /\ o.pin \in Pins
    BY <1>1 DEF Shaped
  <1>3. o.pin \in PinsOf(o.cv) /\ o.new.cv = o.cv
    BY DEF Current, CurPin
  <1>4. o.new.type \in Types /\ o.new.ver \in Nat
    BY <1>2 DEF Pin
  <1>5. Has(o.new.type, o.new.ver)
    BY <1>4 DEF StandingInv, PinsExist, Asks, Exact, Known, CVOps
  <1>. QED BY <1>1, <1>2, <1>3, <1>4, <1>5

LEMMA RemapFollow ==
  ASSUME StandingInv, KeysKept, FieldsTracked, "deleted" \notin trouble,
         NEW q \in Reqs, NEW o, NEW s, Steps(q, o, s), Current(o), CellsFollow(o), Remap(q)
  PROVE  CellsFollow(s)'
  <1>0. /\ TypedInv /\ SchemaInv /\ TypeInv /\ VersionsMove(q) /\ o = req[q] /\ o.op = "updatePin"
        /\ o.pc = "remap" /\ req' = [req EXCEPT ![q] = s]
    BY DEF StandingInv, TypedInv, VersionsMove, Remap, AtCV, Steps
  <1>1. pins' = pins /\ cells' = cells /\ catalogs' = catalogs /\ versions' = versions
    BY DEF Remap, versionVars, catalogVars, schema
  <1>2. /\ o \in CVRequest /\ o.new \in Pin /\ o.pin \in Pins /\ o.pin \in PinsOf(o.cv)
        /\ Has(o.new.type, o.new.ver) /\ o.new.type \in Types
    BY <1>0, UpdateAsks
  <1>3. /\ pins[o.pin].type = o.new.type /\ o.cats = BuiltOn(o.cv) /\ pins[o.pin] # None
        /\ pins[o.pin].cv = o.cv /\ pins[o.pin].ver # 0
    BY <1>0, <1>2 DEF CellsFollow, Prepared, MovesPin, PinsOf
  <1>4. PICK moved : moved = {x \in cells : /\ pins[o.pin] # None
                                            /\ x.catalog \in o.cats /\ x.type = o.new.type
                                            /\ x.ver = pins[o.pin].ver
                                            /\ \E m \in o.moves : m[1] = x.name}
    OBVIOUS
  <1>5. s = Idle \/ s = [o EXCEPT !.cells = moved, !.pc = "savePin"]
    <2>1. \/ req' = [req EXCEPT ![q] = Idle]
          \/ req' = [req EXCEPT ![q] = [o EXCEPT !.cells = moved, !.pc = "savePin"]]
      BY <1>0, <1>4 DEF Remap
    <2>2. req = [r \in Reqs |-> req[r]]
      BY <1>0 DEF SchemaInv, Requested
    <2>. QED BY <1>0, <2>1, <2>2
  <1>6. CASE s = Idle
    BY <1>0, <1>1, <1>6, QuietFollow, IdlePrepared
  <1>7. CASE s = [o EXCEPT !.cells = moved, !.pc = "savePin"]
    <2>1. /\ s.op = "updatePin" /\ s.pc = "savePin" /\ s.cells = moved /\ s.new = o.new
          /\ s.pin = o.pin /\ s.cv = o.cv /\ s.cats = o.cats /\ s.moves = o.moves
      BY <1>0, <1>2, <1>7 DEF CVRequest
    <2>2. ASSUME NEW x \in moved PROVE x \in cells /\ Lands(s, x)
      <3>1. x \in cells /\ x.catalog \in o.cats /\ x.type = o.new.type /\ x.ver = pins[o.pin].ver
            /\ \E m \in o.moves : m[1] = x.name
        BY <1>4
      <3>2. Lands(o, x)
        BY <1>0, <1>2, <3>1, RemapLoads
      <3>. QED BY <2>1, <3>1, <3>2 DEF Lands
    <2>3. ASSUME NEW x \in cells \ moved, Covers(s.pin, x) PROVE Reaches(x, s.new.ver)
      <3>1. Rests(x)
        BY DEF CellsFollow
      <3>2. x.catalog \in Catalogs /\ catalogs[x.catalog] # None
        BY <1>0, <3>1, RestsTyped DEF Rests
      <3>3. x.type = o.new.type /\ x.catalog \in o.cats
        BY <1>3, <2>1, <2>3, <3>2 DEF Covers, BuiltOn
      <3>4. ~(x.ver = pins[o.pin].ver /\ \E m \in o.moves : m[1] = x.name)
        BY <1>3, <1>4, <3>3
      <3>5. Reaches(x, o.new.ver)
        BY <1>0, <1>2, <3>3, <3>4, RemapLoads
      <3>. QED BY <2>1, <3>5
    <2>4. Loaded(s)'
      <3>1. \A x \in moved : Lands(s, x)'
        BY <1>1, <2>2 DEF Lands
      <3>. QED BY <1>1, <2>1, <2>2, <3>1 DEF Loaded
    <2>5. \A x \in cells' \ s.cells : Covers(s.pin, x)' => Reaches(x, s.new.ver)'
      <3>1. \A x : Covers(s.pin, x)' <=> Covers(s.pin, x)
        BY <1>1 DEF Covers
      <3>2. \A x : Reaches(x, s.new.ver)' <=> Reaches(x, s.new.ver)
        BY <1>1 DEF Reaches, RootIn, Latest
      <3>. QED BY <1>1, <2>1, <2>3, <3>1, <3>2
    <2>6. s.cats = BuiltOn(s.cv)' /\ pins'[s.pin].type = s.new.type /\ pins'[s.pin].ver # 0
      BY <1>1, <1>3, <2>1 DEF BuiltOn
    <2>7. MovesPin(s)'
      BY <2>1, <2>4, <2>5, <2>6 DEF MovesPin
    <2>8. Prepared(s)'
      BY <2>1, <2>7 DEF Prepared, AddsPins, FillsNew, Fills, SchemaOps, EditOps
    <2>. QED BY <1>0, <1>1, <2>8, QuietFollow
  <1>. QED BY <1>5, <1>6, <1>7

-----------------------------------------------------------------------------
(***************************************************************************)
(* The save of the pin leaves behind only what is carried.                 *)
(***************************************************************************)
LEMMA SavePinGoes ==
  ASSUME TypedInv, NEW q \in Reqs, NEW o, NEW s, Steps(q, o, s), SavePin(q), o \in CVRequest
  PROVE  \/ s = Idle /\ pins' = pins
         \/ /\ pins' = [pins EXCEPT ![o.pin] = o.new] /\ s.op = o.op /\ s.pc = "commit"
            /\ s.cells = o.cells /\ s.cats = o.cats /\ s.moves = o.moves /\ s.new = o.new
            /\ s.pin = o.pin /\ s.cv = o.cv
  <1>1. o = req[q] /\ req' = [req EXCEPT ![q] = s] /\ req = [r \in Reqs |-> req[r]]
    BY DEF Steps, TypedInv, SchemaInv, Requested
  <1>2. \/ Finish(q) /\ pins' = pins
        \/ Goto(q, "commit") /\ pins' = [pins EXCEPT ![o.pin] = o.new]
    BY <1>1 DEF SavePin
  <1>3. CASE Finish(q) /\ pins' = pins
    BY <1>3, StepEnds
  <1>4. CASE Goto(q, "commit") /\ pins' = [pins EXCEPT ![o.pin] = o.new]
    <2>1. s = [o EXCEPT !.pc = "commit"]
      BY <1>1, <1>4 DEF Goto
    <2>. QED BY <1>4, <2>1 DEF CVRequest
  <1>. QED BY <1>2, <1>3, <1>4

LEMMA SavePinFollow ==
  ASSUME StandingInv, "deleted" \notin trouble,
         NEW q \in Reqs, NEW o, NEW s, Steps(q, o, s), Current(o), CellsFollow(o), SavePin(q)
  PROVE  CellsFollow(s)'
  <1>0. /\ TypedInv /\ SchemaInv /\ TypeInv /\ VersionsMove(q) /\ o = req[q] /\ o.op = "updatePin"
        /\ o.pc = "savePin"
    BY DEF StandingInv, TypedInv, VersionsMove, SavePin, AtCV, Steps
  <1>1. cells' = cells /\ catalogs' = catalogs /\ versions' = versions
    BY DEF SavePin, catalogVars, schema
  <1>2. /\ o \in CVRequest /\ o.new \in Pin /\ o.pin \in Pins /\ o.pin \in PinsOf(o.cv)
        /\ o.new.cv = o.cv /\ o.new.ver # 0
    <2>1. /\ o \in CVRequest /\ o.new \in Pin /\ o.pin \in Pins /\ o.pin \in PinsOf(o.cv)
          /\ o.new.cv = o.cv /\ Has(o.new.type, o.new.ver) /\ o.new.type \in Types
      BY <1>0, UpdateAsks
    <2>2. o.new.ver \in 1..Latest(o.new.type) /\ Latest(o.new.type) \in Nat
      BY <1>0, <2>1, LatestNat DEF Has, SchemaInv
    <2>. QED BY <2>1, <2>2
  <1>3. /\ OnePin /\ (\A x \in cells : Rests(x)) /\ Followed(o)
        /\ pins[o.pin].type = o.new.type /\ pins[o.pin].ver # 0
        /\ o.cats = BuiltOn(o.cv) /\ Loaded(o)
        /\ \A x \in cells \ o.cells : Covers(o.pin, x) => Reaches(x, o.new.ver)
    BY <1>0 DEF CellsFollow, Prepared, MovesPin
  <1>4. CASE s = Idle /\ pins' = pins
    BY <1>0, <1>1, <1>4, QuietFollow, IdlePrepared
  <1>5. CASE /\ pins' = [pins EXCEPT ![o.pin] = o.new] /\ s.op = o.op /\ s.pc = "commit"
             /\ s.cells = o.cells /\ s.cats = o.cats /\ s.moves = o.moves /\ s.new = o.new
             /\ s.pin = o.pin /\ s.cv = o.cv
    <2>1. /\ pins'[o.pin] = o.new /\ (\A p \in Pins \ {o.pin} : pins'[p] = pins[p])
          /\ o.new # None /\ pins[o.pin] # None /\ pins[o.pin].cv = o.new.cv
      BY <1>0, <1>2, <1>5, RowsAre DEF TypeInv, CVTables, PinsOf
    <2>2. \A p \in Pins : /\ pins'[p] # None <=> pins[p] # None
                          /\ pins[p] # None => /\ pins'[p].cv = pins[p].cv
                                               /\ pins'[p].type = pins[p].type
                                               /\ pins'[p].ver # 0 <=> pins[p].ver # 0
      BY <1>2, <1>3, <2>1
    <2>3. OnePin'
      BY <1>3, <2>2 DEF OnePin
    <2>4. \A x : \A p \in Pins : Covers(p, x)' <=> Covers(p, x)
      BY <1>1, <2>2 DEF Covers
    <2>5. ASSUME NEW x \in cells
          PROVE  /\ Rests(x)'
                 /\ \A p \in Pins : Covers(p, x) => Reaches(x, pins[p].ver)' \/ x \in s.cells
      <3>1. /\ Rests(x) /\ Sits(x)' /\ catalogs'[x.catalog] # None
            /\ \A p : Reaches(x, pins[p].ver)' <=> Reaches(x, pins'[p].ver)
        BY <1>0, <1>3, <2>5, ViewStays
      <3>2. Rests(x)'
        BY <2>4, <3>1 DEF Rests
      <3>3. ASSUME NEW p \in Pins, Covers(p, x), x \notin s.cells
            PROVE  Reaches(x, pins'[p].ver)
        <4>1. CASE p = o.pin
          BY <1>3, <1>5, <2>1, <2>5, <3>3, <4>1
        <4>2. CASE p # o.pin
          BY <1>0, <1>3, <2>1, <2>5, <3>3, <4>2 DEF Followed, Carried
        <4>. QED BY <4>1, <4>2
      <3>. QED BY <3>1, <3>2, <3>3
    <2>6. Followed(s)'
      <3>1. \A x \in s.cells : Carried(s, x)
        BY <1>0, <1>5 DEF Carried
      <3>. QED BY <1>1, <2>4, <2>5, <3>1 DEF Followed, Carried
    <2>7. Loaded(s)'
      <3>1. \A x \in s.cells : Lands(s, x)'
        BY <1>1, <1>3, <1>5 DEF Loaded, Lands
      <3>. QED BY <1>1, <1>3, <1>5, <3>1 DEF Loaded
    <2>8. s.cats = BuiltOn(s.cv)' /\ pins'[s.pin] = s.new /\ s.new.ver # 0
      BY <1>1, <1>2, <1>3, <1>5, <2>1 DEF BuiltOn
    <2>9. MovesPin(s)'
      BY <1>5, <2>7, <2>8 DEF MovesPin
    <2>10. Prepared(s)'
      BY <1>0, <1>5, <2>9 DEF Prepared, AddsPins, FillsNew, Fills, SchemaOps, EditOps
    <2>. QED BY <1>1, <2>3, <2>5, <2>6, <2>10 DEF CellsFollow
  <1>. QED BY <1>0, <1>2, <1>4, <1>5, SavePinGoes

-----------------------------------------------------------------------------
(***************************************************************************)
(* The commit puts what was carried on the new version; the other values   *)
(* had followed the pin.                                                   *)
(***************************************************************************)
NameOn(r, x) == (CHOOSE m \in r.moves : m[1] = x.name)[2]

LEMMA CommitFollow ==
  ASSUME StandingInv, "deleted" \notin trouble,
         NEW q \in Reqs, NEW o, NEW s, Steps(q, o, s), Current(o), CellsFollow(o), Commit(q)
  PROVE  CellsFollow(s)'
  <1>0. /\ TypedInv /\ SchemaInv /\ TypeInv /\ VersionsMove(q) /\ o = req[q] /\ o.op = "updatePin"
        /\ o.pc = "commit" /\ s = Idle
    BY StepEnds DEF StandingInv, TypedInv, VersionsMove, Commit, AtCV, Steps
  <1>1. pins' = pins /\ versions' = versions
    BY DEF Commit, versionVars, schema
  <1>2. /\ o \in CVRequest /\ o.new \in Pin /\ o.pin \in Pins /\ o.pin \in PinsOf(o.cv)
        /\ o.new.cv = o.cv /\ Has(o.new.type, o.new.ver) /\ o.new.type \in Types
        /\ o.new.ver \in Nat
    BY <1>0, UpdateAsks
  <1>3. /\ OnePin /\ (\A x \in cells : Rests(x)) /\ Followed(o)
        /\ pins[o.pin] = o.new /\ o.cats = BuiltOn(o.cv) /\ Loaded(o)
    BY <1>0 DEF CellsFollow, Prepared, MovesPin
  <1>4. OnePin'
    BY <1>1, <1>3 DEF OnePin
  <1>5. ASSUME NEW x \in cells
        PROVE  /\ Rests(x)' /\ catalogs'[x.catalog] # None
               /\ catalogs'[x.catalog].cv = catalogs[x.catalog].cv
               /\ \A p : Covers(p, x)' <=> Covers(p, x)
               /\ x \notin o.cells => \A p \in Pins : Covers(p, x) => Reaches(x, pins[p].ver)'
    <2>1. /\ Rests(x) /\ Sits(x)' /\ catalogs'[x.catalog] # None
          /\ catalogs'[x.catalog].cv = catalogs[x.catalog].cv
          /\ \A p : Covers(p, x)' <=> Covers(p, x)
          /\ \A p : Reaches(x, pins[p].ver)' <=> Reaches(x, pins'[p].ver)
      BY <1>0, <1>1, <1>3, <1>5, ViewStays
    <2>2. Rests(x)'
      BY <2>1 DEF Rests
    <2>3. x \notin o.cells => \A p \in Pins : Covers(p, x) => Reaches(x, pins[p].ver)
      BY <1>3, <1>5 DEF Followed, Carried
    <2>. QED BY <1>1, <2>1, <2>2, <2>3
  <1>6. ASSUME NEW y \in cells', y \notin cells \ o.cells
        PROVE  Rests(y)' /\ \A p \in Pins : Covers(p, y)' => Reaches(y, pins[p].ver)'
    <2>1. PICK x \in o.cells :
            y = [x EXCEPT !.ver = o.new.ver, !.name = (CHOOSE m \in o.moves : m[1] = x.name)[2]]
      <3>1. cells' = (cells \ req[q].cells) \cup
              {[x EXCEPT !.ver = req[q].new.ver, !.name = NameOn(req[q], x)] : x \in req[q].cells}
        BY Zenon DEF Commit, NameOn
      <3>2. PICK x \in req[q].cells : y = [x EXCEPT !.ver = req[q].new.ver, !.name = NameOn(req[q], x)]
        BY <1>0, <1>6, <3>1
      <3>3. y = [x EXCEPT !.ver = o.new.ver, !.name = NameOn(o, x)] /\ x \in o.cells
        BY <1>0, <3>2
      <3>. QED BY <3>3 DEF NameOn
    <2>2. x \in cells /\ x \in Cell /\ x.type = o.new.type /\ x.catalog \in o.cats
          /\ \E b \in versions[o.new.type][o.new.ver].attrs :
               b.root = x.root /\ b.name = (CHOOSE m \in o.moves : m[1] = x.name)[2]
      BY <1>0, <1>3 DEF Loaded, Lands, TypeInv, CVTables
    <2>3. PICK name : name = (CHOOSE m \in o.moves : m[1] = x.name)[2]
      OBVIOUS
    <2>4. y.catalog = x.catalog /\ y.type = o.new.type /\ y.ver = o.new.ver /\ y.root = x.root
          /\ y.name = name
      BY <2>1, <2>2, <2>3 DEF Cell
    <2>5. Sits(y)'
      BY <1>1, <1>2, <2>2, <2>3, <2>4 DEF Sits, Has, Latest
    <2>6. \A p : Covers(p, y)' <=> Covers(p, x)
      BY <1>5, <2>2, <2>4 DEF Covers
    <2>7. \E p \in Pins : Covers(p, x)
      BY <1>3, <2>2 DEF Rests
    <2>8. Rests(y)'
      BY <1>5, <2>2, <2>4, <2>5, <2>6, <2>7 DEF Rests
    <2>9. ASSUME NEW p \in Pins, Covers(p, y)' PROVE Reaches(y, pins[p].ver)'
      <3>1. pins[p] # None /\ pins[p].cv = o.cv /\ pins[p].type = o.new.type
        BY <1>3, <2>2, <2>6, <2>9 DEF Covers, BuiltOn
      <3>2. p = o.pin
        BY <1>2, <1>3, <3>1 DEF OnePin, PinsOf
      <3>3. pins'[p].ver = y.ver
        BY <1>1, <1>3, <2>4, <3>2
      <3>4. \A u \in 1..Latest(y.type)' : ~Passes(y.ver, u, y.ver)
        BY <1>2, <2>4 DEF Passes
      <3>. QED BY <3>3, <3>4 DEF Reaches
    <2>. QED BY <2>8, <2>9
  <1>7. cells \ o.cells \subseteq cells /\ \A y \in cells' : y \in cells \ o.cells \/ y \notin cells \ o.cells
    OBVIOUS
  <1>8. \A y \in cells' : Rests(y)'
    BY <1>5, <1>6, <1>7
  <1>9. Followed(s)'
    BY <1>5, <1>6, <1>7 DEF Followed
  <1>. QED BY <1>0, <1>4, <1>8, <1>9, IdlePrepared DEF CellsFollow

-----------------------------------------------------------------------------
(***************************************************************************)
(* A value is set on an attribute of the version that is pinned.           *)
(***************************************************************************)
LEMMA SetValueFollow ==
  ASSUME StandingInv, "deleted" \notin trouble, NEW q \in Reqs, NEW o, NEW s, Steps(q, o, s),
         CellsFollow(o), SetValue(q)
  PROVE  CellsFollow(s)'
  <1>0. /\ TypedInv /\ SchemaInv /\ TypeInv /\ VersionsMove(q) /\ s = Idle /\ o = Idle
    BY WholesCurrent DEF StandingInv, TypedInv, VersionsMove, Wholes
  <1>1. pins' = pins /\ versions' = versions
    BY DEF SetValue, Whole, versionVars, schema
  <1>2. OnePin /\ (\A x \in cells : Rests(x)) /\ Followed(o)
    BY DEF CellsFollow
  <1>3. OnePin'
    BY <1>1, <1>2 DEF OnePin
  <1>4. PICK k \in Catalogs : /\ catalogs[k] # None
                              /\ \E x \in PinnedVersions(catalogs[k].cv) :
                                   \E a \in versions[x[1]][x[2]].attrs :
                                      /\ Has(x[1], x[2])
                                      /\ cells' \subseteq cells \cup
                                           {[catalog |-> k, type |-> x[1], ver |-> x[2],
                                             name |-> a.name, root |-> a.root]}
    BY DEF SetValue
  <1>5. PICK x \in PinnedVersions(catalogs[k].cv) :
          \E a \in versions[x[1]][x[2]].attrs :
             /\ Has(x[1], x[2])
             /\ cells' \subseteq cells \cup
                  {[catalog |-> k, type |-> x[1], ver |-> x[2], name |-> a.name, root |-> a.root]}
    BY <1>4
  <1>6. PICK a \in versions[x[1]][x[2]].attrs :
             /\ Has(x[1], x[2])
             /\ cells' \subseteq cells \cup
                  {[catalog |-> k, type |-> x[1], ver |-> x[2], name |-> a.name, root |-> a.root]}
    BY <1>5
  <1>7. PICK p \in Pins : pins[p] # None /\ pins[p].cv = catalogs[k].cv
                          /\ pins[p].type = x[1] /\ pins[p].ver = x[2]
    BY DEF PinnedVersions, PinsOf
  <1>12. x[2] # 0
    <2>1. pins[p] \in Pin
      BY <1>0, <1>7 DEF TypeInv, CVTables
    <2>2. Latest(x[1]) \in Nat
      BY <1>0, <1>7, <2>1, LatestNat DEF Pin, SchemaInv
    <2>. QED BY <1>6, <2>2 DEF Has
  <1>8. ASSUME NEW y \in cells
        PROVE  Rests(y)' /\ \A r \in Pins : Covers(r, y)' => Reaches(y, pins[r].ver)'
    <2>1. /\ Rests(y) /\ Sits(y)' /\ catalogs'[y.catalog] # None
          /\ \A r : Covers(r, y)' <=> Covers(r, y)
          /\ \A r : Reaches(y, pins[r].ver)' <=> Reaches(y, pins'[r].ver)
      BY <1>0, <1>1, <1>2, <1>8, ViewStays
    <2>2. Rests(y)'
      BY <2>1 DEF Rests
    <2>3. \A r \in Pins : Covers(r, y) => Reaches(y, pins[r].ver)
      BY <1>0, <1>2, <1>8 DEF Followed, Carried, Idle
    <2>. QED BY <1>1, <2>1, <2>2, <2>3
  <1>9. ASSUME NEW y, y = [catalog |-> k, type |-> x[1], ver |-> x[2], name |-> a.name, root |-> a.root]
        PROVE  Rests(y)' /\ \A r \in Pins : Covers(r, y)' => Reaches(y, pins[r].ver)'
    <2>1. y.catalog = k /\ y.type = x[1] /\ y.ver = x[2] /\ y.name = a.name /\ y.root = a.root
      BY <1>9
    <2>2. Sits(y)'
      BY <1>1, <1>6, <2>1 DEF Sits, Has, Latest
    <2>3. catalogs'[k] # None /\ catalogs'[k].cv = catalogs[k].cv
      BY <1>0, <1>4, CatalogsStay
    <2>4. Covers(p, y)'
      BY <1>12, <1>1, <1>7, <2>1, <2>3 DEF Covers
    <2>5. Rests(y)'
      BY <2>1, <2>2, <2>3, <2>4 DEF Rests
    <2>6. ASSUME NEW r \in Pins, Covers(r, y)' PROVE Reaches(y, pins[r].ver)'
      <3>1. r = p
        BY <1>1, <1>2, <1>7, <2>1, <2>3, <2>6 DEF Covers, OnePin
      <3>2. pins'[r].ver = y.ver
        BY <1>1, <1>7, <2>1, <3>1
      <3>3. y.ver \in 1..Latest(x[1]) /\ Latest(x[1]) \in Nat
        BY <1>0, <1>12, <1>7, <2>1, PinAt
      <3>4. \A u \in 1..Latest(y.type)' : ~Passes(y.ver, u, y.ver)
        BY <3>3 DEF Passes
      <3>. QED BY <3>2, <3>4 DEF Reaches
    <2>. QED BY <2>5, <2>6
  <1>10. \A y \in cells' : Rests(y)' /\ \A r \in Pins : Covers(r, y)' => Reaches(y, pins[r].ver)'
    BY <1>6, <1>8, <1>9
  <1>11. Followed(s)'
    BY <1>10 DEF Followed
  <1>. QED BY <1>0, <1>3, <1>10, <1>11, IdlePrepared DEF CellsFollow

LEMMA OtherWholesFollow ==
  ASSUME StandingInv, NEW q \in Reqs, NEW o, NEW s, Steps(q, o, s), CellsFollow(o),
         CreateCatalog(q) \/ Validate(q)
  PROVE  CellsFollow(s)'
  <1>1. s = Idle /\ o = Idle /\ VersionsMove(q)
    BY WholesCurrent DEF VersionsMove, Wholes
  <1>2. pins' = pins /\ cells' = cells
    BY DEF CreateCatalog, Validate, Whole, versionVars
  <1>3. ~(o.op = "updatePin" /\ o.pc = "commit")
    BY <1>1 DEF Idle
  <1>. QED BY <1>1, <1>2, <1>3, QuietFollow, IdlePrepared

-----------------------------------------------------------------------------
(***************************************************************************)
(* Requests that are to add pins.                                          *)
(***************************************************************************)
LEMMA CreatePrepared ==
  ASSUME StandingInv, NEW q \in Reqs, NEW o, NEW s, Steps(q, o, s), CreateCatalogVersion(q),
         "double" \notin trouble'
  PROVE  Prepared(s)' /\ pins' = pins
  <1>0. TypedInv /\ PinsBuilt
    BY DEF StandingInv, BaseInv
  <1>1. PICK r : \E c \in CVs, l \in Labels :
          /\ Opens(q, r) /\ r.op = "createCV" /\ r.cv = c
          /\ (\E x, y \in r.todo : x # y /\ x[1] = y[1]) => "double" \in trouble'
          /\ cv[c] = None
    BY CreateOpens
  <1>2. PICK c \in CVs :
          /\ Opens(q, r) /\ r.op = "createCV" /\ r.cv = c
          /\ (\E x, y \in r.todo : x # y /\ x[1] = y[1]) => "double" \in trouble'
          /\ cv[c] = None
    BY <1>1
  <1>3. s = r
    BY <1>0, <1>2, StepOpens
  <1>4. pins' = pins
    BY DEF CreateCatalogVersion
  <1>5. \A t : Unpinned(c, t)'
    BY <1>0, <1>2, <1>4 DEF Unpinned, PinsOf, PinsBuilt
  <1>6. AddsPins(s)'
    BY <1>2, <1>3, <1>5 DEF AddsPins
  <1>. QED BY <1>2, <1>3, <1>4, <1>6 DEF Prepared, MovesPin, FillsNew, Fills, SchemaOps, EditOps

LEMMA AddPinPrepared ==
  ASSUME StandingInv, NEW q \in Reqs, NEW o, NEW s, Steps(q, o, s), AddPin(q)
  PROVE  Prepared(s)'
  <1>0. TypedInv
    BY DEF StandingInv
  <1>1. PICK c \in Live, t \in Types : \E v \in 1..Latest(t) :
          /\ Ready(q, "addPin") /\ \A x \in PinnedVersions(c) : x[1] # t
          /\ StartCV(q, [NewCV EXCEPT !.op = "addPin", !.pc = "insertPin", !.cv = c,
                                      !.new = [cv |-> c, type |-> t, ver |-> v]], {})
    BY DEF AddPin
  <1>2. PICK v \in 1..Latest(t) :
          /\ Ready(q, "addPin") /\ \A x \in PinnedVersions(c) : x[1] # t
          /\ StartCV(q, [NewCV EXCEPT !.op = "addPin", !.pc = "insertPin", !.cv = c,
                                      !.new = [cv |-> c, type |-> t, ver |-> v]], {})
    BY <1>1
  <1>3. PICK new : new = [cv |-> c, type |-> t, ver |-> v]
    OBVIOUS
  <1>4. PICK r : r = [NewCV EXCEPT !.op = "addPin", !.pc = "insertPin", !.cv = c, !.new = new]
    OBVIOUS
  <1>5. r.op = "addPin" /\ r.cv = c /\ r.new.type = t
    BY <1>3, <1>4 DEF NewCV
  <1>6. Opens(q, r)
    BY <1>2, <1>3, <1>4, StartCVOpens
  <1>7. s = r /\ pins' = pins
    BY <1>0, <1>6, StepOpens DEF Opens
  <1>8. Unpinned(c, t)
    <2>. SUFFICES ASSUME NEW p \in PinsOf(c) PROVE pins[p].type # t
      BY DEF Unpinned
    <2>1. <<pins[p].type, pins[p].ver>> \in PinnedVersions(c)
      BY DEF PinnedVersions
    <2>. QED BY <1>2, <2>1
  <1>9. AddsPins(s)'
    BY <1>5, <1>7, <1>8 DEF AddsPins, Unpinned, PinsOf
  <1>. QED BY <1>5, <1>7, <1>9 DEF Prepared, MovesPin, FillsNew, Fills, SchemaOps, EditOps

LEMMA RemovePinNoted ==
  ASSUME NEW q \in Reqs, RemovePin(q)
  PROVE  "repinned" \in trouble'
  BY DEF RemovePin, StartCV, Start, Note

(***************************************************************************)
(* Nobody else asks for pins.                                              *)
(***************************************************************************)
LEMMA BeginsFollow ==
  ASSUME StandingInv, KeysKept, FieldsTracked, NEW q \in Reqs, NEW o, NEW s, Steps(q, o, s),
         CellsFollow(o), Begins(q), trouble' \cap {"jumped", "ties", "double", "repinned"} = {}
  PROVE  CellsFollow(s)'
  <1>0. TypedInv /\ VersionsMove(q)
    BY DEF StandingInv, VersionsMove, Begins
  <1>1. PICK r : Opens(q, r)
    BY <1>0, BeginsOpens
  <1>2. s = r /\ o = Idle /\ pins' = pins /\ cells' = cells
    BY <1>0, <1>1, StepOpens DEF Opens
  <1>3. ~(o.op = "updatePin" /\ o.pc = "commit")
    BY <1>2 DEF Idle
  <1>4. Prepared(s)'
    <2>1. CASE Promote(q) \/ Demote(q)
      <3>1. \E z : Opens(q, z) /\ z.op \in {"promote", "demote"}
        BY <2>1, MoveOpens
      <3>2. s.op \in {"promote", "demote"}
        BY <1>0, <3>1, StepOpens
      <3>. QED BY <3>2, NothingPrepared DEF SchemaOps, EditOps
    <2>2. CASE DeleteCatalogVersion(q)
      <3>1. \E z : Opens(q, z) /\ z.op = "deleteCV"
        BY <2>2, DeleteOpens
      <3>2. s.op = "deleteCV"
        BY <1>0, <3>1, StepOpens
      <3>. QED BY <3>2, NothingPrepared DEF SchemaOps, EditOps
    <2>3. CASE UpdateCatalogVersion(q)
      <3>1. \E z : Opens(q, z) /\ z.op = "updateCV"
        BY <2>3, UpdateOpens
      <3>2. s.op = "updateCV"
        BY <1>0, <3>1, StepOpens
      <3>. QED BY <3>2, NothingPrepared DEF SchemaOps, EditOps
    <2>. QED BY <2>1, <2>2, <2>3, CreatePrepared, AddPinPrepared, RemovePinNoted, UpdatePinPrepared
             DEF Begins
  <1>. QED BY <1>0, <1>2, <1>3, <1>4, QuietFollow

-----------------------------------------------------------------------------
(***************************************************************************)
(* The pins are inserted as they were asked for.                           *)
(***************************************************************************)
LEMMA InsertPinsFollow ==
  ASSUME StandingInv, NEW q \in Reqs, NEW o, NEW s, Steps(q, o, s), Current(o), CellsFollow(o),
         InsertPins(q)
  PROVE  CellsFollow(s)'
  <1>0. /\ o.op = "createCV" /\ o \in CVRequest /\ VersionsMove(q) /\ cells' = cells
        /\ ~(o.op = "updatePin" /\ o.pc = "commit")
        /\ \/ o.todo = {} /\ pins' = pins /\ Same(o, s) /\ s.pc = "log" /\ s.todo = {}
           \/ \E x \in o.todo : \E p \in Free :
                 /\ pins' = [pins EXCEPT ![p] = [cv |-> o.cv, type |-> x[1], ver |-> x[2]]]
                 /\ PinInserted(o, s, x)
           \/ pins' = pins /\ s = Idle
    <2>1. VersionsMove(q) /\ cells' = cells
      BY DEF VersionsMove, InsertPins, catalogVars
    <2>. QED BY <2>1, InsertGoes
  <1>1. Same(o, s) => s.op = "createCV" /\ s.cv = o.cv
    BY <1>0 DEF Same
  <1>2. Same(o, s) /\ AddsPins(s)' => Prepared(s)'
    BY <1>1 DEF Prepared, MovesPin, FillsNew, Fills, SchemaOps, EditOps
  <1>3. CASE pins' = pins /\ Same(o, s) /\ s.todo = {}
    <2>1. AddsPins(s)'
      BY <1>1, <1>3 DEF AddsPins
    <2>. QED BY <1>0, <1>2, <1>3, <2>1, QuietFollow
  <1>4. CASE \E x \in o.todo : \E p \in Free :
                 /\ pins' = [pins EXCEPT ![p] = [cv |-> o.cv, type |-> x[1], ver |-> x[2]]]
                 /\ PinInserted(o, s, x)
    <2>1. PICK x \in o.todo, p \in Free :
                 /\ pins' = [pins EXCEPT ![p] = [cv |-> o.cv, type |-> x[1], ver |-> x[2]]]
                 /\ Same(o, s) /\ s.todo \subseteq o.todo /\ x \notin PinnedVersions(o.cv)
      BY <1>4 DEF PinInserted
    <2>2. PICK new : new = [cv |-> o.cv, type |-> x[1], ver |-> x[2]]
      OBVIOUS
    <2>3. /\ new \in Pin /\ new.cv = o.cv /\ new.type = x[1] /\ new.ver = x[2]
          /\ x = <<x[1], x[2]>> /\ new # None
      BY <1>0, <2>2, RowsAre DEF CVRequest, Pin
    <2>4. pins' = [pins EXCEPT ![p] = new]
      BY <2>1, <2>2
    <2>5. /\ \A y, z \in o.todo : y[1] = z[1] => y = z
          /\ \A y \in o.todo : y \in PinnedVersions(o.cv) \/ Unpinned(o.cv, y[1])
      BY <1>0 DEF CellsFollow, Prepared, AddsPins
    <2>6. /\ \A r \in Pins : pins'[r] = pins[r] \/ pins'[r] = new
          /\ \A r \in Pins : r # p => pins'[r] = pins[r]
          /\ pins'[p] = new /\ p \in Pins /\ pins[p] = None
      BY <2>4 DEF StandingInv, TypedInv, TypeInv, CVTables, Free
    <2>7. ASSUME NEW y \in s.todo PROVE y \in PinnedVersions(o.cv)' \/ Unpinned(o.cv, y[1])'
      <3>1. y \in o.todo
        BY <2>1
      <3>2. CASE y = x
        BY <2>3, <2>6, <3>2 DEF PinnedVersions, PinsOf
      <3>3. CASE y \in PinnedVersions(o.cv)
        BY <2>6, <3>3 DEF PinnedVersions, PinsOf
      <3>4. CASE y # x /\ Unpinned(o.cv, y[1])
        <4>1. y[1] # x[1]
          BY <2>5, <3>1, <3>4
        <4>. QED BY <2>3, <2>6, <3>4, <4>1 DEF Unpinned, PinsOf
      <3>. QED BY <2>5, <3>1, <3>2, <3>3, <3>4
    <2>8. AddsPins(s)'
      BY <1>1, <2>1, <2>5, <2>7 DEF AddsPins
    <2>9. Unpinned(new.cv, new.type)
      BY <2>1, <2>3, <2>5
    <2>. QED BY <1>0, <1>2, <2>1, <2>3, <2>4, <2>8, <2>9, AddedFollow
  <1>5. CASE pins' = pins /\ s = Idle
    BY <1>0, <1>5, QuietFollow, IdlePrepared
  <1>. QED BY <1>0, <1>3, <1>4, <1>5

LEMMA InsertPinFollow ==
  ASSUME StandingInv, NEW q \in Reqs, NEW o, NEW s, Steps(q, o, s), Current(o), CellsFollow(o),
         InsertPin(q)
  PROVE  CellsFollow(s)'
  <1>5. /\ o.op = "addPin" /\ o.new \in Pin /\ o.new.cv = o.cv
        /\ \/ s = Idle /\ pins' = pins
           \/ \E p \in Free : /\ pins' = [pins EXCEPT ![p] = o.new]
                              /\ Same(o, s) /\ s.pc = "list"
    BY InsertPinCurrent
  <1>6. o.pc = "insertPin" /\ VersionsMove(q) /\ cells' = cells
    BY DEF VersionsMove, InsertPin, catalogVars, AtCV, Steps
  <1>0. /\ o.op = "addPin" /\ o.new \in Pin /\ o.new.cv = o.cv /\ o.pc = "insertPin"
        /\ VersionsMove(q) /\ cells' = cells /\ ~(o.op = "updatePin" /\ o.pc = "commit")
        /\ \/ s = Idle /\ pins' = pins
           \/ \E p \in Free : /\ pins' = [pins EXCEPT ![p] = o.new]
                              /\ Same(o, s) /\ s.pc = "list"
    BY <1>5, <1>6
  <1>1. CASE s = Idle /\ pins' = pins
    BY <1>0, <1>1, QuietFollow, IdlePrepared
  <1>2. CASE \E p \in Free : /\ pins' = [pins EXCEPT ![p] = o.new]
                             /\ Same(o, s) /\ s.pc = "list"
    <2>1. PICK p \in Free : pins' = [pins EXCEPT ![p] = o.new]
      BY <1>2
    <2>2. s.op = "addPin" /\ s.pc = "list"
      BY <1>0, <1>2 DEF Same
    <2>3. Prepared(s)'
      BY <2>2 DEF Prepared, AddsPins, MovesPin, FillsNew, Fills, SchemaOps, EditOps
    <2>4. Unpinned(o.new.cv, o.new.type)
      BY <1>0 DEF CellsFollow, Prepared, AddsPins
    <2>. QED BY <1>0, <2>1, <2>3, <2>4, AddedFollow
  <1>. QED BY <1>0, <1>1, <1>2

-----------------------------------------------------------------------------
(***************************************************************************)
(* The statements that touch neither a pin nor a value.                    *)
(***************************************************************************)
LEMMA PlainFollow ==
  ASSUME StandingInv, NEW q \in Reqs, NEW o, NEW s, Steps(q, o, s), Current(o), CellsFollow(o),
         WriteStage(q) \/ WriteLog(q) \/ WriteCR(q) \/ DropCR(q) \/ SaveCV(q)
  PROVE  CellsFollow(s)'
  <1>1. /\ VersionsMove(q) /\ pins' = pins /\ cells' = cells /\ o = req[q]
        /\ o.pc \in {"stage", "log", "cr", "dropCR", "save"}
    BY DEF VersionsMove, WriteStage, WriteLog, WriteCR, DropCR, SaveCV, catalogVars, AtCV, Steps
  <1>2. s = Idle \/ s.op \in {"promote", "demote"}
    <2>1. CASE WriteStage(q)
      BY <2>1, WriteStageCurrent DEF Moving, Same
    <2>2. CASE WriteLog(q)
      <3>1. s = Idle \/ (Moving(o) /\ Same(o, s))
        BY <2>2, WriteLogCurrent
      <3>. QED BY <3>1 DEF Moving, Same
    <2>3. CASE WriteCR(q) \/ DropCR(q) \/ SaveCV(q)
      BY <2>3, EndsCurrent DEF LastOf
    <2>. QED BY <2>1, <2>2, <2>3
  <1>3. Prepared(s)'
    BY <1>2, IdlePrepared, NothingPrepared DEF SchemaOps, EditOps
  <1>. QED BY <1>1, <1>3, QuietFollow

LEMMA ListFollow ==
  ASSUME StandingInv, NEW q \in Reqs, NEW o, NEW s, Steps(q, o, s), Current(o), CellsFollow(o),
         ListCatalogs(q) \/ ResetCatalog(q)
  PROVE  CellsFollow(s)'
  <1>1. VersionsMove(q) /\ pins' = pins /\ cells' = cells
    BY DEF VersionsMove, ListCatalogs, ResetCatalog, catalogVars, versionVars
  <1>2. o.op \in {"addPin", "removePin"} /\ (s = Idle \/ (Same(o, s) /\ s.pc = "reset"))
    BY ListCurrent
  <1>3. o.op = "addPin"
    BY <1>2 DEF CellsFollow, Prepared
  <1>4. CASE s = Idle
    BY <1>1, <1>3, <1>4, QuietFollow, IdlePrepared
  <1>5. CASE Same(o, s) /\ s.pc = "reset"
    <2>1. s.op = "addPin" /\ s.pc = "reset"
      BY <1>3, <1>5 DEF Same
    <2>2. Prepared(s)'
      BY <2>1 DEF Prepared, AddsPins, MovesPin, FillsNew, Fills, SchemaOps, EditOps
    <2>. QED BY <1>1, <1>3, <2>2, QuietFollow
  <1>. QED BY <1>2, <1>4, <1>5

LEMMA FailFollow ==
  ASSUME StandingInv, NEW q \in Reqs, NEW o, NEW s, Steps(q, o, s), CellsFollow(o),
         CVFail(q), "db" \notin trouble'
  PROVE  CellsFollow(s)'
  <1>1. VersionsMove(q) /\ pins' = pins /\ cells' = cells /\ o = req[q]
    BY DEF VersionsMove, CVFail, catalogVars, versionVars, Steps
  <1>2. o.pc \in {"cr", "dropCR"}
    BY <1>1 DEF CVFail
  <1>3. s = Idle
    BY EndsCurrent DEF LastOf
  <1>. QED BY <1>1, <1>2, <1>3, QuietFollow, IdlePrepared

LEMMA DropPinNever ==
  ASSUME NEW q \in Reqs, NEW o, o = req[q], CellsFollow(o), DropPin(q)
  PROVE  FALSE
  BY DEF CellsFollow, Prepared, DropPin, AtCV

LEMMA VersionsFollow ==
  ASSUME StandingInv, KeysKept, FieldsTracked, Sound', NEW q \in Reqs, NEW o, NEW s,
         Steps(q, o, s), Current(o), CellsFollow(o), VersionsMove(q)
  PROVE  CellsFollow(s)'
  <1>1. "deleted" \notin trouble /\ "db" \notin trouble' /\ o = req[q]
        /\ trouble' \cap {"jumped", "ties", "double", "repinned"} = {}
    BY DEF Sound, Steps
  <1>2. CASE Begins(q)
    BY <1>1, <1>2, BeginsFollow
  <1>3. CASE Statement(q)
    BY <1>1, <1>3, InsertPinsFollow, PlainFollow, DropRowFollow, InsertPinFollow, DropPinNever,
       RemapFollow, SavePinFollow, CommitFollow, FailFollow DEF Statement
  <1>4. CASE ListCatalogs(q) \/ ResetCatalog(q)
    BY <1>4, ListFollow
  <1>5. CASE Wholes(q)
    BY <1>1, <1>5, SetValueFollow, OtherWholesFollow DEF Wholes
  <1>. QED BY <1>2, <1>3, <1>4, <1>5, MoveKinds

-----------------------------------------------------------------------------
LEMMA FollowNext ==
  ASSUME FollowInv, [Next]_vars
  PROVE  FollowInv'
  <1>0. /\ KeptInv /\ DraftSeq /\ TrackSeq /\ FollowSeq /\ StandingInv /\ TrackInv'
        /\ StandingInv'
    BY TrackNext DEF FollowInv, TrackInv, DraftInv, KeptInv, SeqInv
  <1>. SUFFICES ASSUME Sound' PROVE \A r : r = AtWork' => CellsFollow(r)'
    BY <1>0 DEF FollowInv, FollowSeq
  <1>1. "overlap" \notin trouble' /\ "deleted" \notin trouble' /\ "reordered" \notin trouble'
    BY DEF Sound
  <1>2. ASSUME trouble \subseteq trouble', NEW o, o = AtWork
        PROVE  KeysKept /\ FieldsTracked /\ CellsFollow(o) /\ o.op # "reorder" /\ Current(o)
    <2>1. Sound /\ "overlap" \notin trouble /\ "reordered" \notin trouble
      BY <1>1, <1>2 DEF Sound
    <2>2. KeysKept /\ FieldsTracked /\ o.op # "reorder"
      BY <1>0, <1>2, <2>1 DEF DraftSeq, TrackSeq
    <2>3. CellsFollow(o)
      BY <1>0, <1>2, <2>1 DEF FollowSeq
    <2>4. Current(o)
      BY <1>0, <1>2, <2>1 DEF KeptInv, SeqInv, Running
    <2>. QED BY <2>2, <2>3, <2>4
  <1>3. CASE TypesNext /\ UNCHANGED <<log, crs, catalogVars>>
    <2>1. PICK q \in Reqs : TypesMove(q)
      BY <1>3, MovesOf
    <2>2. PICK o, s : Steps(q, o, s) /\ o = AtWork /\ s = AtWork'
      BY <1>0, <1>1, <2>1, TypesSteps
    <2>3. trouble \subseteq trouble' /\ UNCHANGED <<catalogs, cells>>
      BY <1>3, <2>2 DEF Steps, catalogVars
    <2>4. CellsFollow(o) /\ o.op # "reorder"
      BY <1>2, <2>2, <2>3
    <2>5. CellsFollow(s)'
      BY <1>0, <1>1, <2>1, <2>2, <2>3, <2>4, TypesFollow
    <2>. QED BY <2>2, <2>5
  <1>4. CASE VersionsNext
    <2>1. PICK q \in Reqs : VersionsMove(q)
      BY <1>4, MovesOf
    <2>2. TypedInv /\ trouble \subseteq trouble'
      BY <1>0, <2>1, Writers DEF StandingInv
    <2>3. PICK s : req' = [req EXCEPT ![q] = s]
      BY <1>0, <2>1, <2>2, VersionsGo
    <2>4. PICK o : o = req[q]
      OBVIOUS
    <2>5. Steps(q, o, s)
      BY <1>0, <1>1, <2>1, <2>2, <2>3, <2>4, VersionsWork DEF KeptInv, SeqInv, Running
    <2>6. o = AtWork /\ s = AtWork'
      BY <2>5 DEF Steps
    <2>7. KeysKept /\ FieldsTracked /\ CellsFollow(o) /\ Current(o)
      BY <1>2, <2>2, <2>6
    <2>8. CellsFollow(s)'
      BY <1>0, <2>1, <2>5, <2>7, VersionsFollow
    <2>. QED BY <2>6, <2>8
  <1>5. CASE UNCHANGED vars
    <2>1. UNCHANGED <<versions, types, trouble, req, pins, catalogs, cells>>
      BY <1>5 DEF vars, versionVars, catalogVars, schema
    <2>2. AtWork' = AtWork
      BY <2>1, WorkStays
    <2>3. PICK o : o = AtWork
      OBVIOUS
    <2>4. CellsFollow(o)
      BY <1>2, <2>1, <2>3
    <2>5. CellsFollow(o)'
      BY <2>1, <2>4 DEF CellsFollow, OnePin, Rests, Sits, Has, Covers, Followed, Carried, Reaches,
         Latest, RootIn, Prepared, AddsPins, Unpinned, PinnedVersions, PinsOf, MovesPin, BuiltOn, Aimed, Loaded,
         Lands, FillsNew, Untouched
    <2>. QED BY <2>2, <2>3, <2>5
  <1>. QED BY <1>3, <1>4, <1>5 DEF Next

LEMMA FollowHolds == Spec => []FollowInv
  BY FollowStart, FollowNext, PTL DEF Spec

(***************************************************************************)
(* ValuesFollowPins: a value sits on the attribute it was given to, under  *)
(* whatever name, if the pinned version has it, and on no other (UpdatePin *)
(* and RemapAttributeIDs).  A value that has not moved with its pin        *)
(* sits on an attribute that no version on the way has, the pinned one     *)
(* included; one that has is at the pinned version, where the names and    *)
(* the roots of attributes are unique.                                     *)
(***************************************************************************)
THEOREM ValuesFollow == Spec => []ValuesFollowPins
  <1>1. FollowInv => ValuesFollowPins
    <2>. SUFFICES ASSUME FollowInv, Active = {}, Sound, NEW x \in cells,
                         NEW y \in PinnedVersions(catalogs[x.catalog].cv), y[1] = x.type,
                         Has(y[1], y[2]),
                         NEW a \in versions[y[1]][y[2]].attrs
                  PROVE  a.root = x.root <=> (x.ver = y[2] /\ x.name = a.name)
      BY DEF ValuesFollowPins, Settled, Sound
    <2>1. AtWork = Idle
      BY DEF AtWork
    <2>2. /\ StandingInv /\ SchemaInv /\ TypeInv /\ KeysKept
          /\ "deleted" \notin trouble
      BY DEF FollowInv, TrackInv, DraftInv, DraftSeq, KeptInv, SeqInv, StandingInv, TypedInv, Sound
    <2>3. CellsFollow(Idle)
      BY <2>1 DEF FollowInv, FollowSeq
    <2>4. Rests(x)
      BY <2>3 DEF CellsFollow
    <2>5. PICK p \in PinsOf(catalogs[x.catalog].cv) : y = <<pins[p].type, pins[p].ver>>
      BY DEF PinnedVersions
    <2>6. p \in Pins /\ Covers(p, x) /\ y[2] = pins[p].ver
      <3>1. Latest(y[1]) \in Nat
        BY <2>2, <2>4, RestsTyped
      <3>. QED BY <2>5, <3>1 DEF PinsOf, Covers, Has
    <2>7. Reaches(x, pins[p].ver)
      BY <2>3, <2>6 DEF CellsFollow, Followed, Carried, Idle
    <2>8. pins[p].ver \in 1..Latest(x.type) /\ x.type \in Types /\ x.ver \in 1..Latest(x.type)
          /\ Latest(x.type) \in Nat
      BY <2>2, <2>4, <2>6, PinAt, RestsTyped DEF Covers
    <2>9. Keyed(versions[x.type][x.ver].attrs)
      BY <2>2, <2>8 DEF KeysKept, Clean
    <2>10. PICK b \in versions[x.type][x.ver].attrs : b.name = x.name /\ b.root = x.root
      BY <2>4 DEF Rests, Sits
    <2>11. ASSUME a.root = x.root PROVE x.ver = pins[p].ver
      <3>1. RootIn(x.type, pins[p].ver, x.root)
        BY <2>6, <2>11 DEF RootIn
      <3>2. ~Passes(x.ver, pins[p].ver, pins[p].ver)
        BY <2>7, <2>8, <3>1 DEF Reaches
      <3>. QED BY <2>8, <3>2 DEF Passes
    <2>12. x.ver = pins[p].ver => (a.root = x.root <=> x.name = a.name)
      BY <2>6, <2>9, <2>10 DEF Keyed
    <2>. QED BY <2>6, <2>11, <2>12
  <1>. QED BY <1>1, FollowHolds, PTL
=============================================================================
