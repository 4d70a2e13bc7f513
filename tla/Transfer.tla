------------------------------- MODULE Transfer -------------------------------
(***************************************************************************)
(* Export of a catalog to a file and import of a file: ExportService and   *)
(* ImportService, with the validation of what was imported.  Each site is  *)
(* an installation with a database of its own; files go between them.      *)
(*                                                                         *)
(* An export reads, without a transaction, the pins and the schema, then   *)
(* the instances, then their links.  An import is two transactions by its  *)
(* comments, but the repositories of the schema do not take part in one:   *)
(* what the first wrote stays when it fails.  Its writes are one step for  *)
(* each definition, the catalog version, each entity type, and so on, and  *)
(* the data one step, which does all or nothing.                           *)
(***************************************************************************)
EXTENDS Validation, TLC

CONSTANTS
    Sites,
    System,       \* the type definitions every site is seeded with
    Names,        \* names of catalogs at a site
    Labels,       \* labels of catalog versions
    RenameMaps,   \* functions on names of types and definitions
    Requests,
    Workloads,    \* what the users of a behaviour do, see load
    None

ASSUME TransferAssumption ==
    /\ \A r \in RenameMaps : \A n, m \in DOMAIN r : r[n] = r[m] => n = m
    /\ System \cap UNION {DOMAIN r : r \in RenameMaps} = {}

VARIABLES
    db,      \* the databases: site -> database, see Validation
    files,   \* the files that have been exported
    jobs,    \* request -> Job
    load     \* the workload: [init, does, filters, busy, steps, faults]

vars == <<db, files, jobs, load>>

(***************************************************************************)
(* A file has definitions in the order they are written, entity types with *)
(* associations and cardinalities, instances by path with their values in  *)
(* JSON, and links.  A value is a text, a number or other JSON.            *)
(*                                                                         *)
(* A catalog that an import created has its file, the renames and the      *)
(* versions it `made' of the types as `origin' (history) until it is       *)
(* edited, if each type the import found in place was that of the file.  A *)
(* job is quiet as long as nothing else has written to its site.           *)
(***************************************************************************)
Idle == [op |-> "idle"]

Content == [nodes |-> <<>>, links |-> {}]

-----------------------------------------------------------------------------
(***************************************************************************)
(* Export.  Pins whose type a filter leaves out are skipped, and so are    *)
(* associations to such a type; an empty filter leaves out nothing.        *)
(***************************************************************************)
Passes(t, filter) == filter = {} \/ t \in filter

ExportedTypes(d, pins, filter) ==
    [t \in {t \in DOMAIN pins : Passes(t, filter)} |->
        LET v == Version(d, t, pins[t])
        IN [attrs |-> [a \in DOMAIN v.attrs |->
                        [def |-> v.attrs[a].def, required |-> v.attrs[a].required]],
            assocs |-> [n \in {n \in DOMAIN v.assocs : Passes(v.assocs[n].target, filter)} |->
                          v.assocs[n]]]]

(***************************************************************************)
(* Definitions are gathered by version: a file may define one name twice.  *)
(***************************************************************************)
ExportedDefs(d, pins, filter) ==
    LET used == UNION {{<<attr.def, attr.dv>> :
                    attr \in Range(Version(d, t, pins[t]).attrs)} :
                    t \in {t \in DOMAIN pins : Passes(t, filter)}}
        ids == SetToSeq({id \in used : id[1] \notin System})
    IN [i \in DOMAIN ids |-> [name |-> ids[i][1], def |-> d.defs[ids[i][1]][ids[i][2]]]]

(***************************************************************************)
(* A value in the file.  Text that is no JSON is exported as it is, other  *)
(* text as the JSON it says: a JSON string without its quotes, which may   *)
(* leave text that is JSON itself; numbers are written anew ("points", a   *)
(* list of whole numbers with a decimal point, loses the point).           *)
(***************************************************************************)
Unquote == ("quoted" :> "bare") @@ ("quotedNull" :> "null") @@ ("quotedList" :> "list")
             @@ ("twice" :> "quoted")

ReadJson(text) ==
    IF text = "bare" \/ text \in DOMAIN Unquote
    THEN [kind |-> "text", v |-> IF text = "bare" THEN text ELSE Unquote[text]]
    ELSE [kind |-> "json", v |-> IF text = "points" THEN "list" ELSE text]

ToFile(base, value) ==
    CASE Column(base) = "json" -> ReadJson(value.json)
      [] base = "number" ->
           IF value.number # "" THEN [kind |-> "number", v |-> value.number]
           ELSE [kind |-> "text", v |-> value.string]
      [] base = "string" -> [kind |-> "text", v |-> value.string]

HasValue(base, value) ==
    value[Column(base)] # "" \/ (base = "number" /\ value.string # "")

(***************************************************************************)
(* The instances reached from a root through types of the file, with the   *)
(* values of the attributes their types have in the versions pinned.       *)
(***************************************************************************)
ExportedNodes(d, pins, types, nodes) ==
    LET reached == {p \in DOMAIN nodes : \A i \in 1..Len(p) :
                      SubSeq(p, 1, i) \in DOMAIN nodes /\ p[i][1] \in DOMAIN types}
        base(t, a) == LET attr == Version(d, t, pins[t]).attrs[a]
                      IN d.defs[attr.def][attr.dv].base
    IN [p \in reached |->
          LET t == TypeOf(p)
              kept == {a \in DOMAIN types[t].attrs :
                         /\ <<pins[t], a>> \in DOMAIN nodes[p]
                         /\ HasValue(base(t, a), nodes[p][<<pins[t], a>>])}
          IN [a \in kept |-> ToFile(base(t, a), nodes[p][<<pins[t], a>>])]]

(***************************************************************************)
(* Their links to instances that were listed, of types of the file.        *)
(***************************************************************************)
ExportedLinks(d, types, nodes, listed, links) ==
    {[src |-> l.src, assoc |-> l.assoc[3], dst |-> l.dst] :
        l \in {l \in links : /\ l.src \in DOMAIN nodes
                             /\ Assoc(d, l.assoc).kind # "containment"
                             /\ l.dst \in listed
                             /\ TypeOf(l.dst) \in DOMAIN types}}

Exported(d, c, filter) ==
    LET types == ExportedTypes(d, Pins(d, c), filter)
        nodes == ExportedNodes(d, Pins(d, c), types, c.nodes)
    IN [defs |-> ExportedDefs(d, Pins(d, c), filter), types |-> types, nodes |-> nodes,
        links |-> ExportedLinks(d, types, nodes, DOMAIN c.nodes, c.links)]

-----------------------------------------------------------------------------
(***************************************************************************)
(* Renaming of entity types and definitions throughout a file.             *)
(***************************************************************************)
NewName(r, n) == IF n \in DOMAIN r THEN r[n] ELSE n

NewPath(r, p) == [i \in DOMAIN p |-> <<NewName(r, p[i][1]), p[i][2]>>]

Renamed(file, r) ==
    LET rename(f, new(_)) == [x \in {new(y) : y \in DOMAIN f} |->
                                f[CHOOSE y \in DOMAIN f : new(y) = x]]
        type(t) == NewName(r, t)
        path(p) == NewPath(r, p)
        content(v) ==
          [attrs |-> [a \in DOMAIN v.attrs |-> [v.attrs[a] EXCEPT !.def = NewName(r, @)]],
           assocs |-> [n \in DOMAIN v.assocs |->
                         [v.assocs[n] EXCEPT !.target = NewName(r, @)]]]
    IN [defs |-> [i \in DOMAIN file.defs |-> [file.defs[i] EXCEPT !.name = NewName(r, @)]],
        types |-> rename([t \in DOMAIN file.types |-> content(file.types[t])], type),
        nodes |-> rename(file.nodes, path),
        links |-> {[l EXCEPT !.src = path(@), !.dst = path(@)] : l \in file.links}]

(***************************************************************************)
(* What the file's JSON is read as: children are looked for only under the *)
(* names of containment associations, and an instance whose type is not    *)
(* contained in its parent's is written under "children".                  *)
(***************************************************************************)
Nests(types, p) ==
    \A i \in 2..Len(p) : \E n \in DOMAIN types[p[i - 1][1]].assocs :
        LET a == types[p[i - 1][1]].assocs[n]
        IN a.kind = "containment" /\ a.target = p[i][1]

Parsed(file) ==
    LET kept == {p \in DOMAIN file.nodes : Nests(file.types, p)}
    IN [file EXCEPT !.nodes = [p \in kept |-> file.nodes[p]],
                    !.links = {l \in file.links : l.src \in kept}]

(***************************************************************************)
(* Comparison of the schema with what exists.  Of an entity type, names,   *)
(* kinds and targets are compared, not cardinalities, nor versions of      *)
(* definitions.                                                            *)
(***************************************************************************)
Latest(versions) == Last(versions)

IsTypeDefIdentical(d, def) == Latest(d.defs[def.name]) = def.def

IsEntityTypeIdentical(d, t, type) ==
    LET v == Latest(d.types[t])
    IN /\ DOMAIN v.attrs = DOMAIN type.attrs
       /\ DOMAIN v.assocs = DOMAIN type.assocs
       /\ \A a \in DOMAIN v.attrs : /\ v.attrs[a].required = type.attrs[a].required
                                    /\ v.attrs[a].def = type.attrs[a].def
       /\ \A n \in DOMAIN v.assocs : /\ v.assocs[n].kind = type.assocs[n].kind
                                     /\ v.assocs[n].target = type.assocs[n].target

(***************************************************************************)
(* A definition or entity type of which only the row was written.          *)
(***************************************************************************)
Broken(d, file) ==
    \/ \E def \in Range(file.defs) : def.name \in DOMAIN d.defs /\ d.defs[def.name] = <<>>
    \/ \E t \in DOMAIN file.types : t \in DOMAIN d.types /\ d.types[t] = <<>>

(***************************************************************************)
(* The dry run: whether nothing conflicts, and what may be reused.         *)
(***************************************************************************)
DryRun(d, req) ==
    LET defs == {def \in Range(req.file.defs) : def.name \in DOMAIN d.defs}
        types == {t \in DOMAIN req.file.types \ req.reuse : t \in DOMAIN d.types}
        same == {t \in types : IsEntityTypeIdentical(d, t, req.file.types[t])}
    IN [ready |-> /\ req.name \notin DOMAIN d.catalogs
                  /\ \A def \in defs : IsTypeDefIdentical(d, def)
                  /\ same = types,
        identical |-> same \cup ({req.label} \cap DOMAIN d.cvs)]

-----------------------------------------------------------------------------
(***************************************************************************)
(* Steps of a request.  Other requests at the site learn of a write.       *)
(***************************************************************************)
Disturbed(q, s) ==
    [r \in Requests |-> IF r # q /\ jobs[r].op # "idle" /\ jobs[r].site = s
                          THEN [jobs[r] EXCEPT !.quiet = FALSE] ELSE jobs[r]]

Goto(q, s, d, job) ==
    /\ db' = [db EXCEPT ![s] = d]
    /\ jobs' = [(IF d = db[s] THEN jobs ELSE Disturbed(q, s)) EXCEPT ![q] = job]

Uses(op) ==
    /\ op \in load.does /\ load.steps > 0
    /\ load' = [load EXCEPT !.steps = @ - 1]

Starts(q, op) ==
    /\ jobs[q] = Idle /\ Uses(op)
    /\ Cardinality({r \in Requests : jobs[r] # Idle}) < load.busy

Task(q, kind) ==
    /\ jobs[q].op = "import" /\ Head(jobs[q].todo)[1] = kind
    /\ UNCHANGED <<files, load>>

Object(q) == Head(jobs[q].todo)[2]

Proceed(job) == [job EXCEPT !.todo = Tail(@)]

Failed(job, fault) ==
    [op |-> "failed", site |-> job.site, req |-> job.req, quiet |-> job.quiet,
     advised |-> job.advised, fault |-> fault]

Fail(q) == Goto(q, jobs[q].site, db[jobs[q].site], Failed(jobs[q], FALSE))

With(f, x, v) == (x :> v) @@ f

-----------------------------------------------------------------------------
(***************************************************************************)
(* The steps of an export.                                                 *)
(***************************************************************************)
StartExport(q) ==
    /\ Starts(q, "export")
    /\ \E s \in Sites : \E c \in DOMAIN db[s].catalogs, filter \in load.filters :
         LET pins == Pins(db[s], db[s].catalogs[c])
         IN Goto(q, s, db[s],
                 [op |-> "export", site |-> s, name |-> c, quiet |-> TRUE, pins |-> pins,
                  defs |-> ExportedDefs(db[s], pins, filter),
                  types |-> ExportedTypes(db[s], pins, filter), listed |-> None])
    /\ UNCHANGED files

Row(s, c) == IF c \in DOMAIN db[s].catalogs THEN db[s].catalogs[c] ELSE Content

ListInstances(q) ==
    /\ jobs[q].op = "export" /\ jobs[q].listed = None
    /\ Goto(q, jobs[q].site, db[jobs[q].site],
            [jobs[q] EXCEPT !.listed = Row(jobs[q].site, jobs[q].name).nodes])
    /\ UNCHANGED <<files, load>>

ReadLinks(q) ==
    /\ jobs[q].op = "export" /\ jobs[q].listed # None
    /\ LET job == jobs[q]
           d == db[job.site]
           nodes == ExportedNodes(d, job.pins, job.types, job.listed)
       IN files' = files \cup
            {[defs |-> job.defs, types |-> job.types, nodes |-> nodes,
              links |-> ExportedLinks(d, job.types, nodes, DOMAIN job.listed,
                                      Row(job.site, job.name).links)]}
    /\ Goto(q, jobs[q].site, db[jobs[q].site], Idle)
    /\ UNCHANGED load

-----------------------------------------------------------------------------
(***************************************************************************)
(* The beginning of an import.  A user asks for a dry run and, when it     *)
(* finds no conflict, imports with what it says may be reused; or imports  *)
(* at once, reusing what exists or nothing.                                *)
(***************************************************************************)
Request(file, r, name, label, reuse) ==
    [file |-> Parsed(Renamed(file, r)), of |-> file, map |-> r,
     name |-> name, label |-> label, reuse |-> reuse]

Tasks(file) ==
    LET types == SetToSeq(DOMAIN file.types)
    IN [i \in DOMAIN file.defs |-> <<"def", file.defs[i]>>]
         \o <<<<"version", None>>>>
         \o [i \in DOMAIN types |-> <<"type", types[i]>>]
         \o [i \in DOMAIN types |-> <<"associations", types[i]>>]
         \o <<<<"typePins", None>>, <<"data", None>>>>

Begin(q, s, req, advised, quiet) ==
    LET job == [op |-> "import", site |-> s, req |-> req, todo |-> Tasks(req.file),
                defs |-> <<>>, made |-> <<>>, created |-> {}, reused |-> FALSE,
                exact |-> TRUE, quiet |-> quiet, advised |-> advised]
    IN Goto(q, s, db[s], IF req.name \in DOMAIN db[s].catalogs
                         THEN Failed(job, FALSE) ELSE job)

AskDryRun(q) ==
    /\ Starts(q, "import")
    /\ \E s \in Sites, f \in files, r \in RenameMaps, n \in Names, l \in Labels :
         LET req == Request(f, r, n, l, {})
         IN /\ ~Broken(db[s], req.file)
            /\ DryRun(db[s], req).ready
            /\ Goto(q, s, db[s], [op |-> "asked", site |-> s, quiet |-> TRUE, req |->
                 [req EXCEPT !.reuse = DryRun(db[s], req).identical]])
    /\ UNCHANGED files

ImportAsAdvised(q) ==
    /\ jobs[q].op = "asked"
    /\ Begin(q, jobs[q].site, jobs[q].req, TRUE, jobs[q].quiet)
    /\ UNCHANGED <<files, load>>

ImportAtOnce(q) ==
    /\ Starts(q, "force")
    /\ \E s \in Sites, f \in files, r \in RenameMaps, n \in Names, l \in Labels :
         \E reuse \in {{}, DOMAIN db[s].types \cup DOMAIN db[s].cvs} :
            Begin(q, s, Request(f, r, n, l, reuse), FALSE, TRUE)
    /\ UNCHANGED files

-----------------------------------------------------------------------------
(***************************************************************************)
(* The schema.  A definition that exists must be that of the file.         *)
(***************************************************************************)
ImportDef(q) ==
    /\ Task(q, "def")
    /\ LET s == jobs[q].site
           d == db[s]
           def == Object(q)
           exists == def.name \in DOMAIN d.defs
       IN IF exists /\ (d.defs[def.name] = <<>> \/ ~IsTypeDefIdentical(d, def))
          THEN Fail(q)
          ELSE LET versions == IF exists THEN d.defs[def.name] ELSE <<def.def>>
               IN Goto(q, s, [d EXCEPT !.defs = With(@, def.name, versions)],
                       [Proceed(jobs[q]) EXCEPT !.defs = With(@, def.name, Len(versions))])

(***************************************************************************)
(* The catalog version: a new one, or the one to be reused, which must pin *)
(* every type of the file that exists.                                     *)
(***************************************************************************)
Lacks(d, req) ==
    \E t \in DOMAIN req.file.types \cap DOMAIN d.types : t \notin DOMAIN d.cvs[req.label].pins

ImportVersion(q) ==
    /\ Task(q, "version")
    /\ LET s == jobs[q].site
           d == db[s]
           req == jobs[q].req
           exists == req.label \in DOMAIN d.cvs
           system == [n \in System |-> Len(d.defs[n])]
           job == [Proceed(jobs[q]) EXCEPT !.defs = system @@ @]
       IN IF req.label \in req.reuse
          THEN IF exists /\ ~Lacks(d, req)
               THEN Goto(q, s, d, [job EXCEPT !.reused = TRUE])
               ELSE Fail(q)
          ELSE IF exists THEN Fail(q)
               ELSE Goto(q, s, [d EXCEPT !.cvs = With(@, req.label,
                            [pins |-> <<>>, typePins |-> {}])], job)

(***************************************************************************)
(* An entity type.  One that exists is used in its latest version if it is *)
(* named for reuse or identical; it is pinned unless the catalog version   *)
(* is reused.  A new one is pinned in any case.  A catalog version has     *)
(* each pin once.                                                          *)
(***************************************************************************)
CanPin(d, label, t, k) ==
    ~(t \in DOMAIN d.cvs[label].pins /\ d.cvs[label].pins[t] = k)

Pin(d, label, t, k) == [d EXCEPT !.cvs[label].pins = With(@, t, k)]

NewVersion(type, defs) ==
    [attrs |-> [a \in DOMAIN type.attrs |->
                  [def |-> type.attrs[a].def, dv |-> defs[type.attrs[a].def],
                   required |-> type.attrs[a].required]],
     assocs |-> <<>>]

(***************************************************************************)
(* History: whether the version found is the file's in all respects.       *)
(***************************************************************************)
AsInFile(d, v, type, defs) ==
    /\ DOMAIN v.attrs = DOMAIN type.attrs
    /\ v.assocs = type.assocs
    /\ \A a \in DOMAIN v.attrs :
          /\ v.attrs[a].required = type.attrs[a].required
          /\ v.attrs[a].def = type.attrs[a].def
          /\ d.defs[v.attrs[a].def][v.attrs[a].dv] = d.defs[v.attrs[a].def][defs[v.attrs[a].def]]

(* MUTANT: an entity type is pinned whether its catalog version is reused or not. *)
PinAgain(q, t) ==
    LET d == db[jobs[q].site]
        k == Len(d.types[t])
    IN IF /\ k # 0
          /\ t \in jobs[q].req.reuse \/ IsEntityTypeIdentical(d, t, jobs[q].req.file.types[t])
          /\ CanPin(d, jobs[q].req.label, t, k)
       THEN Goto(q, jobs[q].site, Pin(d, jobs[q].req.label, t, k),
                 [Proceed(jobs[q]) EXCEPT !.made = With(@, t, k)])
       ELSE Fail(q)

ReuseType(q, t) ==
    LET s == jobs[q].site
        d == db[s]
        k == Len(d.types[t])
        type == jobs[q].req.file.types[t]
        job == [Proceed(jobs[q]) EXCEPT
                  !.made = With(@, t, k),
                  !.exact = @ /\ AsInFile(d, d.types[t][k], type, jobs[q].defs)]
    IN IF k = 0 \/ ~(t \in jobs[q].req.reuse \/ IsEntityTypeIdentical(d, t, type))
       THEN Fail(q)
       ELSE IF jobs[q].reused THEN Goto(q, s, d, job)
            ELSE IF CanPin(d, jobs[q].req.label, t, k)
                 THEN Goto(q, s, Pin(d, jobs[q].req.label, t, k), job)
                 ELSE Fail(q)

CreateType(q, t) ==
    LET s == jobs[q].site
        d == db[s]
        type == jobs[q].req.file.types[t]
        known == \A a \in DOMAIN type.attrs : type.attrs[a].def \in DOMAIN jobs[q].defs
    IN IF t \in jobs[q].req.reuse \/ ~known THEN Fail(q)
       ELSE Goto(q, s,
              Pin([d EXCEPT !.types = With(@, t, <<NewVersion(type, jobs[q].defs)>>)],
                  jobs[q].req.label, t, 1),
              [Proceed(jobs[q]) EXCEPT !.made = With(@, t, 1), !.created = @ \cup {t}])

ImportType(q) ==
    /\ Task(q, "type")
    /\ LET t == Object(q)
       IN IF t \in DOMAIN db[jobs[q].site].types THEN ReuseType(q, t) ELSE CreateType(q, t)

(***************************************************************************)
(* The associations of the types created; a target must be in the file.    *)
(***************************************************************************)
ImportAssociations(q) ==
    /\ Task(q, "associations")
    /\ LET t == Object(q)
           s == jobs[q].site
           assocs == jobs[q].req.file.types[t].assocs
       IN IF t \notin jobs[q].created THEN Goto(q, s, db[s], Proceed(jobs[q]))
          ELSE IF \E n \in DOMAIN assocs : assocs[n].target \notin DOMAIN jobs[q].made
          THEN Fail(q)
          ELSE Goto(q, s, [db[s] EXCEPT !.types[t][1].assocs = assocs], Proceed(jobs[q]))

ImportTypePins(q) ==
    /\ Task(q, "typePins")
    /\ LET s == jobs[q].site
           pins == {<<n, jobs[q].defs[n]>> : n \in DOMAIN jobs[q].defs}
       IN Goto(q, s, IF jobs[q].reused THEN db[s]
                     ELSE [db[s] EXCEPT !.cvs[jobs[q].req.label].typePins = @ \cup pins],
               Proceed(jobs[q]))

-----------------------------------------------------------------------------
(***************************************************************************)
(* The data.  Values are stored for the attributes of the version used, in *)
(* the columns of their base types: as JSON, a text is taken for JSON      *)
(* itself, without quotes.                                                 *)
(***************************************************************************)
NoValue == [string |-> "", number |-> "", json |-> ""]

Numerals == {"1", "2"}


ToStore(base, raw) ==
    CASE Column(base) = "json" -> [NoValue EXCEPT !.json = raw.v]
      [] base = "number" -> [NoValue EXCEPT !.string = raw.v,
                               !.number = IF raw.v \in Numerals THEN raw.v ELSE ""]
      [] base = "string" -> [NoValue EXCEPT !.string = raw.v]

StoredNodes(d, made, nodes) ==
    [p \in DOMAIN nodes |->
        LET t == TypeOf(p)
            attrs == Version(d, t, made[t]).attrs
            kept == DOMAIN nodes[p] \cap DOMAIN attrs
        IN [id \in {made[t]} \X kept |->
              ToStore(d.defs[attrs[id[2]].def][attrs[id[2]].dv].base, nodes[p][id[2]])]]

(***************************************************************************)
(* Links are made between instances by type and name alone: `at' is the    *)
(* instance of that type and name that was created last.  An association   *)
(* is looked up in the type of the source, then in all; links to nothing   *)
(* are left out.                                                           *)
(***************************************************************************)
LastCreated(nodes) ==
    {at \in [{Last(p) : p \in DOMAIN nodes} -> DOMAIN nodes] :
        \A key \in DOMAIN at : Last(at[key]) = key}

AssociationNamed(d, made, t, n) ==
    LET owners == {u \in DOMAIN made : n \in DOMAIN Version(d, u, made[u]).assocs}
    IN IF owners = {} THEN None
       ELSE LET u == IF t \in owners THEN t ELSE CHOOSE u \in owners : TRUE
            IN <<u, made[u], n>>

(* MUTANT: links are made by the paths in the file. *)
LinksByPath(d, made, file, at) ==
    {[src |-> l.src, assoc |-> AssociationNamed(d, made, TypeOf(l.src), l.assoc),
      dst |-> l.dst] :
        l \in {l \in file.links : AssociationNamed(d, made, TypeOf(l.src), l.assoc) # None}}

StoredLinks(d, made, file, at) ==
    {[src |-> at[Last(l.src)], assoc |-> AssociationNamed(d, made, TypeOf(l.src), l.assoc),
      dst |-> at[Last(l.dst)]] :
        l \in {l \in file.links : /\ AssociationNamed(d, made, TypeOf(l.src), l.assoc) # None
                                  /\ Last(l.dst) \in DOMAIN at}}

ImportData(q) ==
    /\ Task(q, "data")
    /\ LET job == jobs[q]
           s == job.site
           d == db[s]
       IN IF job.req.name \in DOMAIN d.catalogs THEN Fail(q)
          ELSE \E at \in LastCreated(job.req.file.nodes) :
                 Goto(q, s, [d EXCEPT !.catalogs = With(@, job.req.name,
                        [label |-> job.req.label, status |-> "draft",
                         nodes |-> StoredNodes(d, job.made, job.req.file.nodes),
                         links |-> StoredLinks(d, job.made, job.req.file, at),
                         origin |-> IF job.exact
                            THEN [file |-> job.req.of, map |-> job.req.map, made |-> job.made]
                            ELSE None])], Idle)

(***************************************************************************)
(* A failure: of the database, of the connection, or of the server.  What  *)
(* the step wrote before it stays, except of the data.                     *)
(***************************************************************************)
Half(q) ==
    LET d == db[jobs[q].site]
        kind == Head(jobs[q].todo)[1]
        x == Object(q)
    IN {d} \cup
       CASE kind = "def" /\ x.name \notin DOMAIN d.defs ->
              {[d EXCEPT !.defs = With(@, x.name, <<>>)]}
         [] kind = "type" /\ x \notin DOMAIN d.types /\ x \notin jobs[q].req.reuse ->
              {[d EXCEPT !.types = With(@, x, <<>>)]} \cup
              {[d EXCEPT !.types = With(@, x, <<[attrs |-> attrs, assocs |-> <<>>]>>)] :
                 attrs \in {<<>>, NewVersion(jobs[q].req.file.types[x], jobs[q].defs).attrs}}
         [] kind = "associations" /\ x \in jobs[q].created ->
              {[d EXCEPT !.types[x][1].assocs = Restrict(jobs[q].req.file.types[x].assocs, S)] :
                 S \in SUBSET DOMAIN jobs[q].req.file.types[x].assocs}
         [] kind = "typePins" /\ ~jobs[q].reused ->
              {[d EXCEPT !.cvs[jobs[q].req.label].typePins =
                  {<<n, jobs[q].defs[n]>> : n \in S}] : S \in SUBSET DOMAIN jobs[q].defs}
         [] OTHER -> {}

Fault(q) ==
    /\ jobs[q].op = "import" /\ load.faults > 0
    /\ \E d \in Half(q) : Goto(q, jobs[q].site, d, Failed(jobs[q], TRUE))
    /\ load' = [load EXCEPT !.faults = @ - 1]
    /\ UNCHANGED files

(***************************************************************************)
(* The user takes note of a failure.                                       *)
(***************************************************************************)
Dismiss(q) ==
    /\ jobs[q].op \in {"failed", "asked"}
    /\ Goto(q, jobs[q].site, db[jobs[q].site], Idle)
    /\ UNCHANGED <<files, load>>

-----------------------------------------------------------------------------
(***************************************************************************)
(* What else changes a site: the validation of a catalog, its deletion, an *)
(* edit of an instance, a link, and an edit of an entity type.             *)
(***************************************************************************)
Write(s, d) ==
    /\ db' = [db EXCEPT ![s] = d]
    /\ jobs' = Disturbed(None, s)
    /\ UNCHANGED files

Validate(s, n) ==
    /\ Uses("validate")
    /\ Write(s, [db[s] EXCEPT !.catalogs[n].status = Verdict(db[s], db[s].catalogs[n])])

DeleteCatalog(s, n) ==
    /\ Uses("delete")
    /\ Write(s, [db[s] EXCEPT !.catalogs = [m \in DOMAIN @ \ {n} |-> @[m]]])

Edited(c) == [c EXCEPT !.status = "draft", !.origin = None]

ClearValues(s, n) ==
    /\ Uses("edit")
    /\ \E p \in DOMAIN db[s].catalogs[n].nodes :
         Write(s, [db[s] EXCEPT !.catalogs[n] = [Edited(@) EXCEPT !.nodes[p] = <<>>]])

CreateLink(s, n) ==
    /\ Uses("edit")
    /\ LET c == db[s].catalogs[n]
       IN \E id \in Associations(db[s], c, FALSE), p, q \in DOMAIN c.nodes :
            /\ TypeOf(p) = id[1] /\ TypeOf(q) = Assoc(db[s], id).target
            /\ Write(s, [db[s] EXCEPT !.catalogs[n] =
                 [Edited(@) EXCEPT !.links = @ \cup {[src |-> p, assoc |-> id, dst |-> q]}]])

EditAttribute(s) ==
    /\ Uses("schema")
    /\ \E t \in DOMAIN db[s].types :
         /\ db[s].types[t] # <<>>
         /\ LET v == Latest(db[s].types[t])
            IN \E a \in DOMAIN v.attrs :
                 Write(s, [db[s] EXCEPT !.types[t] =
                             Append(@, [v EXCEPT !.attrs[a].required = ~@])])

Next ==
    \/ \E q \in Requests :
         \/ StartExport(q) \/ ListInstances(q) \/ ReadLinks(q)
         \/ AskDryRun(q) \/ ImportAsAdvised(q) \/ ImportAtOnce(q)
         \/ ImportDef(q) \/ ImportVersion(q) \/ ImportType(q) \/ ImportAssociations(q)
         \/ ImportTypePins(q) \/ ImportData(q) \/ Fault(q) \/ Dismiss(q)
    \/ \E s \in Sites : EditAttribute(s) \/ \E n \in DOMAIN db[s].catalogs :
         \/ Validate(s, n) \/ DeleteCatalog(s, n) \/ ClearValues(s, n) \/ CreateLink(s, n)

Init ==
    /\ load \in Workloads
    /\ db = load.init
    /\ files = {}
    /\ jobs = [q \in Requests |-> Idle]

Spec == Init /\ [][Next]_vars

-----------------------------------------------------------------------------
(***************************************************************************)
(* The rows of a database refer to rows that exist: pins to versions,      *)
(* attributes to versions of definitions, a catalog to its version, links  *)
(* to instances and associations, instances to a parent.                   *)
(***************************************************************************)
DatabaseOK(d) ==
    /\ \A t \in DOMAIN d.types : \A k \in DOMAIN d.types[t] :
         /\ \A attr \in Range(d.types[t][k].attrs) : attr.dv \in DOMAIN d.defs[attr.def]
         /\ \A assoc \in Range(d.types[t][k].assocs) : assoc.target \in DOMAIN d.types
    /\ \A l \in DOMAIN d.cvs :
         /\ \A t \in DOMAIN d.cvs[l].pins : d.cvs[l].pins[t] \in DOMAIN d.types[t]
         /\ \A pin \in d.cvs[l].typePins : pin[2] \in DOMAIN d.defs[pin[1]]
    /\ \A n \in DOMAIN d.catalogs :
         LET c == d.catalogs[n]
         IN /\ c.label \in DOMAIN d.cvs
            /\ c.status \in {"draft", "valid", "invalid"}
            /\ \A p \in DOMAIN c.nodes : IsRoot(p) \/ Front(p) \in DOMAIN c.nodes
            /\ \A l \in c.links :
                 /\ {l.src, l.dst} \subseteq DOMAIN c.nodes
                 /\ l.assoc[3] \in DOMAIN Version(d, l.assoc[1], l.assoc[2]).assocs

TransferTypeOK ==
    /\ \A s \in Sites : DatabaseOK(db[s])
    /\ \A f \in files : DOMAIN f = {"defs", "types", "nodes", "links"}
    /\ \A q \in Requests :
         jobs[q].op \in {"idle", "export", "asked", "import", "failed"}

(***************************************************************************)
(* Three things a file loses when it is imported: which of two instances   *)
(* of one type and name a link is of, an instance under one whose type     *)
(* does not contain its own, and a link to an instance left out.           *)
(***************************************************************************)
Plain(file) ==
    /\ \A p, q \in DOMAIN file.nodes : Last(p) = Last(q) => p = q
    /\ \A p \in DOMAIN file.nodes : Nests(file.types, p)
    /\ \A l \in file.links : l.dst \in DOMAIN file.nodes

Copies(s) == {n \in DOMAIN db[s].catalogs : db[s].catalogs[n].origin # None}

(***************************************************************************)
(* The values of an instance at its JSON and list attributes as they come  *)
(* back: a text, stored without quotes, is read as JSON when it is.        *)
(***************************************************************************)
DefsNamed(d, file, name) ==
    IF name \in System THEN {Latest(d.defs[name])}
    ELSE {def.def : def \in {x \in Range(file.defs) : x.name = name}}

Reread(d, file, p) ==
    LET json(a) == \E def \in DefsNamed(d, file, file.types[TypeOf(p)].attrs[a].def) :
                      Column(def.base) = "json"
    IN [a \in DOMAIN file.nodes[p] |->
          LET value == file.nodes[p][a]
          IN IF value.kind = "text" /\ json(a) THEN ReadJson(value.v) ELSE value]

(***************************************************************************)
(* A catalog that was imported exports to the file it came from, renamed:  *)
(* no request, failure or edit in between leaves part of it, if its        *)
(* version still pins what the values were stored for.  (An import that    *)
(* reuses a catalog version stores them for the latest versions of the     *)
(* types, whatever that one pins; a later import may pin more types in     *)
(* it.)  A text where JSON is expected comes back as the JSON it says.     *)
(***************************************************************************)
Scope(file) ==
    DOMAIN file.types \cup
      UNION {{assoc.target : assoc \in Range(type.assocs)} : type \in Range(file.types)}


(***************************************************************************)
(* Whether a file is a catalog as its schema demands, by its tree: the     *)
(* reference for validation.                                               *)
(***************************************************************************)
HasValid(d, file, attr, value) ==
    \A def \in DefsNamed(d, file, attr.def) :
       CASE def.base = "json" -> TRUE
         [] def.base = "list" -> value.kind = "json" /\ value.v \in def.allowed
         [] def.base = "number" ->
              IF value.v \in Numerals THEN value.v \in def.allowed ELSE ~attr.required
         [] def.base = "string" -> value.v \in def.allowed

Children(file, p, t) ==
    {q \in DOMAIN file.nodes : Len(q) = Len(p) + 1 /\ Front(q) = p /\ TypeOf(q) = t}

Between(n, card) == card[1] <= n /\ (card[2] # Many => n <= card[2])

Conforms(d, file) ==
    \A p \in DOMAIN file.nodes :
      LET type == file.types[TypeOf(p)]
          into(u, n) == {l \in file.links : l.dst = p /\ l.assoc = n /\ TypeOf(l.src) = u}
      IN /\ \A a \in DOMAIN type.attrs :
              IF a \in DOMAIN file.nodes[p]
              THEN HasValid(d, file, type.attrs[a], file.nodes[p][a])
              ELSE ~type.attrs[a].required
         /\ \A n \in DOMAIN type.assocs : Between(
              IF type.assocs[n].kind = "containment"
              THEN Cardinality(Children(file, p, type.assocs[n].target))
              ELSE Cardinality({l \in file.links : l.src = p /\ l.assoc = n}),
              type.assocs[n].target_cardinality)
         /\ \A u \in DOMAIN file.types : \A n \in DOMAIN file.types[u].assocs :
              LET a == file.types[u].assocs[n]
              IN a.target = TypeOf(p) =>
                   IF a.kind = "containment" THEN IsRoot(p) => a.source_cardinality[1] = 0
                   ELSE a.source_cardinality = <<0, 0>>
                          \/ Between(Cardinality(into(u, n)), a.source_cardinality)

(***************************************************************************)
(* A text whose quotes are lost, so that it is no JSON any more, or is a   *)
(* list that it was not.                                                   *)
(***************************************************************************)
Mistaken(d, file) ==
    \E p \in DOMAIN file.nodes : \E a \in DOMAIN file.nodes[p] :
        LET value == file.nodes[p][a]
        IN /\ value.kind = "text"
           /\ \E def \in DefsNamed(d, file, file.types[TypeOf(p)].attrs[a].def) :
                \/ (def.base = "json" /\ value.v = "bare")
                \/ (def.base = "list" /\ value.v \in def.allowed)

(***************************************************************************)
(* The validation of an imported catalog says whether its file conforms to *)
(* the schema in the file, if its version pins just the versions of types  *)
(* that its values were stored for, and no text in it is mistaken for, or  *)
(* no longer, JSON.                                                        *)
(***************************************************************************)
CopyValidatesAlike ==
    \A s \in Sites : \A n \in Copies(s) :
        LET c == db[s].catalogs[n]
            file == c.origin.file
            kept == Pins(db[s], c) = c.origin.made
        IN Plain(file) /\ ~Mistaken(db[s], file) /\ kept /\ c.status # "draft" =>
             (c.status = "valid" <=> file.nodes = <<>> \/ Conforms(db[s], file))

(***************************************************************************)
(* An import that a dry run has found ready, and that reuses what it says, *)
(* succeeds when nothing else writes to the site and no failure happens:   *)
(* also the second one, after the data of the first failed.  Three reasons *)
(* remain, which the dry run does not look at: a file that defines a name  *)
(* twice, a catalog version that exists but does not pin a type of the     *)
(* file, and a type to be created with an association to a type that is    *)
(* not in the file, as its catalog version did not pin it.                 *)
(***************************************************************************)
DefinesTwice(file) ==
    \E i, j \in DOMAIN file.defs :
        file.defs[i].name = file.defs[j].name /\ file.defs[i] # file.defs[j]

LacksTarget(req) ==
    \E t \in DOMAIN req.file.types \ req.reuse :
        \E assoc \in Range(req.file.types[t].assocs) : assoc.target \notin DOMAIN req.file.types

ReadyImports ==
    \A q \in Requests :
        jobs[q].op = "failed" /\ jobs[q].advised /\ jobs[q].quiet /\ ~jobs[q].fault =>
          \/ DefinesTwice(jobs[q].req.file)
          \/ LacksTarget(jobs[q].req)
          \/ jobs[q].req.label \in jobs[q].req.reuse /\ Lacks(db[jobs[q].site], jobs[q].req)
=============================================================================
