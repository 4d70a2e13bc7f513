------------------------------ MODULE MCTransfer ------------------------------
(***************************************************************************)
(* Bounded instances of Transfer: what two installations hold, and what    *)
(* their users do.                                                         *)
(***************************************************************************)
EXTENDS Transfer

CONSTANTS home, away, q1, q2

MCSystem == {"json"}

MCRenameMaps == {<<>>, ("server" :> "server2") @@ ("tool" :> "tool2") @@ ("dim" :> "dim2")}

MCSymmetry == Permutations(Requests)

(* Definitions: JSON, numbers of two versions, and lists of one integer. *)
Json == [base |-> "json", allowed |-> {}]
Tags == [base |-> "list", allowed |-> {"list", "null"}]
Dim(allowed) == [base |-> "number", allowed |-> allowed]

(* Entity types: servers contain tools, a tool uses another. *)
Attr(def, dv, required) == [def |-> def, dv |-> dv, required |-> required]
AssocTo(t, kind, source, target) ==
    [kind |-> kind, target |-> t, source_cardinality |-> source, target_cardinality |-> target]

Server == [attrs |-> "size" :> Attr("dim", 1, TRUE),
           assocs |-> "tools" :> AssocTo("tool", "containment", <<1, 1>>, <<0, 2>>)]
Tool(uses) == [attrs |-> "spec" :> Attr("json", 1, FALSE),
               assocs |-> "uses" :> AssocTo("tool", "directional", <<0, 1>>, uses)]
LooseTool == Tool(<<0, Many>>)
TaggedTool == [LooseTool EXCEPT !.attrs = ("tags" :> Attr("tags", 1, TRUE)) @@ @]
Bare == [attrs |-> <<>>, assocs |-> <<>>]

(* Instances and values. *)
S(n) == <<<<"server", n>>>>
Free == <<<<"tool", "f">>>>
T(n, m) == S(n) \o <<<<"tool", m>>>>
Size(v) == <<1, "size">> :> [NoValue EXCEPT !.number = v]
Spec1(v) == <<1, "spec">> :> [NoValue EXCEPT !.json = v]
Tags1(v) == <<1, "tags">> :> [NoValue EXCEPT !.json = v]
Uses1(p, q) == [src |-> p, assoc |-> <<"tool", 1, "uses">>, dst |-> q]

Nodes(name) ==
    CASE name = "good" -> (S("s") :> Size("1")) @@ (T("s", "t") :> Spec1("object"))
                            @@ (T("s", "u") :> <<>>)
      [] name = "twins" -> (S("s") :> Size("1")) @@ (S("r") :> Size("1"))
                            @@ (T("s", "t") :> Spec1("object")) @@ (T("r", "t") :> <<>>)
      [] name = "large" -> (S("s") :> Size("2")) @@ (T("s", "t") :> <<>>)
      [] name = "stray" -> (S("s") :> Size("1")) @@ (Free :> Spec1("quoted"))
      [] name = "flat" -> (S("s") :> <<>>) @@ (T("s", "t") :> Spec1("object"))
                            @@ (Free :> <<>>)
      [] name = "texts" -> (S("s") :> Size("1")) @@ (T("s", "t") :> Spec1("quotedNull"))
                            @@ (T("s", "u") :> Spec1("twice"))
      [] name = "words" -> (S("s") :> Size("1")) @@ (T("s", "t") :> Spec1("quoted"))
      [] name = "lists" -> (S("s") :> Size("1")) @@ (T("s", "t") :> Tags1("points"))
      [] name = "long" -> (S("s") :> Size("1")) @@ (T("s", "t") :> Tags1("longList"))
      [] name = "told" -> (S("s") :> Size("1")) @@ (T("s", "t") :> Tags1("quotedList"))

Links(name) ==
    CASE name = "good" -> {Uses1(T("s", "t"), T("s", "u"))}
      [] name = "twins" -> {Uses1(T("s", "t"), T("r", "t"))}
      [] name = "flat" -> {Uses1(Free, T("s", "t"))}
      [] OTHER -> {}

Base == [defs |-> "json" :> <<Json>>, types |-> <<>>, cvs |-> <<>>, catalogs |-> <<>>]

(* A site with one catalog of the given instances, and versions of types. *)
Holding(name, defs, types, pins) ==
    [defs |-> defs @@ Base.defs, types |-> types,
     cvs |-> "l1" :> [pins |-> pins, typePins |-> {}],
     catalogs |-> "c" :> [label |-> "l1", status |-> "draft", origin |-> None,
                          nodes |-> Nodes(name), links |-> Links(name)]]

OneDim == "dim" :> <<Dim({"1"})>>
Firsts == ("server" :> 1) @@ ("tool" :> 1)
Plainly(name) == Holding(name, OneDim, ("server" :> <<Server>>) @@ ("tool" :> <<Tool(<<0, 1>>)>>),
                         Firsts)

(* Tools whose second version has a size of the second version of dim. *)
TwoDims == Holding("good", "dim" :> <<Dim({"1"}), Dim({"1", "2"})>>,
    ("server" :> <<Server>>)
      @@ ("tool" :> <<Tool(<<0, 1>>), [LooseTool EXCEPT !.attrs =
                          "size" :> Attr("dim", 2, FALSE)]>>),
    ("server" :> 1) @@ ("tool" :> 2))

(* Tools with lists. *)
Tagged(name) == Holding(name, OneDim @@ ("tags" :> <<Tags>>),
    ("server" :> <<Server>>) @@ ("tool" :> <<TaggedTool>>), Firsts)

(* A catalog version that pins servers, but not the tools they contain. *)
Partly == Holding("good", OneDim, ("server" :> <<Server>>) @@ ("tool" :> <<LooseTool>>),
                  "server" :> 1)

(* Servers that no longer contain tools. *)
Flat == Holding("flat", OneDim, ("server" :> <<Server, Bare>>) @@ ("tool" :> <<LooseTool>>),
                ("server" :> 2) @@ ("tool" :> 1))

(* Another site: nothing yet, looser tools, or a type of the same name. *)
WithTypes(types) == [Base EXCEPT !.types = types, !.defs = OneDim @@ @,
                                 !.cvs = "l2" :> [pins |-> "server" :> 1, typePins |-> {}]]
Looser == WithTypes(("server" :> <<Server>>) @@ ("tool" :> <<LooseTool>>))
Other == WithTypes("server" :> <<Bare>>)

Work(here, there, does, filters, busy, steps, faults) ==
    [init |-> (home :> here) @@ (away :> there), does |-> does, filters |-> filters,
     busy |-> busy, steps |-> steps, faults |-> faults]

MCWorkloads == UNION {
    \* each catalog to a fresh site, and to its own
    {Work(h, Base, {"export", "import", "validate"}, {{}}, 1, 3, 0) :
        h \in {Plainly("good"), Plainly("twins"), Plainly("large"), Plainly("stray"),
               TwoDims, Flat, Partly, Plainly("texts"), Plainly("words"),
               Tagged("lists"), Tagged("long"), Tagged("told")}},
    \* parts of it
    {Work(Plainly("good"), Base, {"export", "import", "validate"},
          {{"tool"}, {"server"}}, 1, 3, 0)},
    \* to sites that hold some of the types, by all ways
    {Work(Plainly("good"), a, {"export", "import", "force", "validate"}, {{}}, 1, 3, 0) :
        a \in {Looser, Other}},
    \* failures and second attempts
    {Work(Plainly("good"), Base, {"export", "import", "force"}, {{}}, 1, 3, 1)},
    \* two requests, and changes meanwhile
    {Work(Plainly("good"), Base, {"export", "import"}, {{}}, 2, 3, 0),
     Work(Plainly("good"), Base, {"export", "import", "delete", "schema"}, {{}}, 1, 4, 0),
     Work(Plainly("good"), Base, {"export", "import", "schema", "validate"}, {{}}, 1, 5, 0),
     Work(Plainly("good"), Base, {"export", "import", "edit"}, {{}}, 1, 3, 0)} }
=============================================================================
