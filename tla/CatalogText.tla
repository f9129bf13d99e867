---------------------------- MODULE CatalogText -----------------------------
(***************************************************************************)
(* Reading a catalog from its text (catalog/read.rs, field.rs, path.rs,    *)
(* listing.rs): every field of every table is read before any of them may  *)
(* fail its entry, and every problem is kept, in whatever order.  A table  *)
(* is a function from the fields it carries to values; a value has a type, *)
(* `is', and what it holds, `of'.  What may be missing is a set of at most *)
(* one element.                                                            *)
(***************************************************************************)
EXTENDS Integers, Sequences, SequencesExt

CONSTANTS
    MaxCount,         \* the largest count a field holds (u32::MAX)
    StartupTimeout    \* DEFAULT_STARTUP_TIMEOUT_SECONDS

ASSUME CountsAssumption == MaxCount \in Nat \ {0} /\ StartupTimeout \in 1..MaxCount

Or(first, second) == IF first # {} THEN first ELSE second
The(set) == CHOOSE x \in set : TRUE

-----------------------------------------------------------------------------
(* Fields. *)

Locations == {"path", "draft_path", "projector_path"}
Inherited == {"context_size", "memory_estimate_mib", "residency", "reasoning_format",
              "runtime", "reasoning_effort", "startup_timeout_seconds"}

DefaultFields == Inherited \cup {"flags"}
EntryFields   == DefaultFields \cup Locations

Counted == {"version", "context_size", "memory_estimate_mib", "startup_timeout_seconds"}
Residencies == {"resident", "on-demand"}

(* A runtime becomes part of a file's name. *)
NoRuntime == {"", "Upper/case"}

(* Whether a value is one its field may hold: the as_... converters.  A    *)
(* location is a path that is anchored to nothing.                         *)
Converts(field, value) ==
    CASE field \in Counted          -> value.is = "integer" /\ value.of \in 1..MaxCount
      [] field \in Locations        -> value.is = "text" /\ value.of.anchor = "none"
      [] field = "residency"        -> value.is = "text" /\ value.of \in Residencies
      [] field = "runtime"          -> value.is = "text" /\ value.of \notin NoRuntime
      [] OTHER                      -> value.is = "text"

(* Who is to blame for a problem: an identifier is a sequence of words. *)
Text      == <<"catalog">>
Shared    == <<"defaults">>
Entry(id) == <<"entry">> \o id

Problem(scope, field, complaint) ==
    [scope |-> scope, field |-> field, complaint |-> complaint]

(* What a table holds for a field, where it holds it and it converts. *)
Held(table, field) ==
    {table[f].of : f \in {g \in DOMAIN table \cap {field} : Converts(g, table[g])}}

Optional(table, scope, fields) ==
    {Problem(scope, f, "does not convert") :
        f \in {g \in fields \cap DOMAIN table : ~Converts(g, table[g])}}

Required(table, scope, field) ==
    IF field \in DOMAIN table THEN Optional(table, scope, {field})
                              ELSE {Problem(scope, field, "is required")}

(* What was present and wrong has been said already. *)
Settled(table, scope, field, value) ==
    IF value = {} /\ field \notin DOMAIN table
    THEN {Problem(scope, field, "is supplied by nothing")} ELSE {}

Unknown(table, scope, known) ==
    {Problem(scope, f, "is not recognised") : f \in DOMAIN table \ known}

(* A table inside another: absent and malformed are different, and either  *)
(* holds nothing.                                                          *)
NoTable == [f \in {} |-> f]

TableAt(table, field) ==
    IF field \in DOMAIN table /\ table[field].is = "table" THEN table[field].of
                                                          ELSE NoTable

TableFault(table, scope, field) ==
    IF field \in DOMAIN table /\ table[field].is # "table"
    THEN {Problem(scope, field, "must be a table")} ELSE {}

(* The flags that are text; the rest are problems. *)
Texts(table) == {f \in DOMAIN table : table[f].is = "text"}

Flags(table) ==
    LET inner == TableAt(table, "flags") IN [flag \in Texts(inner) |-> inner[flag].of]

FlagFaults(table, scope) ==
    LET inner == TableAt(table, "flags")
    IN  TableFault(table, scope, "flags")
        \cup {Problem(scope, "flags", f) : f \in DOMAIN inner \ Texts(inner)}

-----------------------------------------------------------------------------
(* One walk of the text. *)

DefaultsTable(text) == TableAt(text, "defaults")
Models(text)        == TableAt(text, "models")

DefaultsFaults(text) ==
    LET inner == DefaultsTable(text)
    IN  TableFault(text, Text, "defaults")
        \cup Unknown(inner, Shared, DefaultFields)
        \cup Optional(inner, Shared, Inherited)
        \cup FlagFaults(inner, Shared)

(* An entry's own value, or the one it inherits. *)
Inherits(table, defaults, field) == Or(Held(table, field), Held(defaults, field))

(* A bug the checks must catch: a path that fails ends the entry.          *)
EntryFaults_First(scope, table, defaults) ==
    LET path == Required(table, scope, "path")
    IN  Unknown(table, scope, EntryFields)
        \cup FlagFaults(table, scope)
        \cup (IF path # {} THEN path
              ELSE Optional(table, scope, (Locations \ {"path"}) \cup Inherited)
                   \cup Settled(table, scope, "context_size",
                                Inherits(table, defaults, "context_size")))

EntryFaults(scope, table, defaults) ==
    Unknown(table, scope, EntryFields)
    \cup FlagFaults(table, scope)
    \cup Required(table, scope, "path")
    \cup Optional(table, scope, (Locations \ {"path"}) \cup Inherited)
    \cup Settled(table, scope, "context_size", Inherits(table, defaults, "context_size"))

(* An entry is made of a table that names its file and has a context.  An  *)
(* estimate is whatever is declared: nothing, where nothing is.            *)
Drafted(id, path, context, table, defaults) ==
    [id |-> id, path |-> path, context |-> context,
     draft     |-> Held(table, "draft_path"),
     projector |-> Held(table, "projector_path"),
     estimate  |-> Inherits(table, defaults, "memory_estimate_mib"),
     residency |-> The(Or(Inherits(table, defaults, "residency"), {"on-demand"})),
     timeout   |-> The(Or(Inherits(table, defaults, "startup_timeout_seconds"),
                          {StartupTimeout})),
     runtime   |-> Inherits(table, defaults, "runtime"),
     effort    |-> Inherits(table, defaults, "reasoning_effort"),
     format    |-> Inherits(table, defaults, "reasoning_format"),
     flags     |-> Flags(table) @@ Flags(defaults)]

Draft(id, table, defaults) ==
    {Drafted(id, path, context, table, defaults) :
        path \in Held(table, "path"), context \in Inherits(table, defaults, "context_size")}

ModelFaults(text, id) ==
    LET value == Models(text)[id]
    IN  IF value.is # "table" THEN {Problem(Entry(id), "", "must be a table")}
        ELSE EntryFaults(Entry(id), value.of, DefaultsTable(text))

(* What one walk of a text that is TOML produced. *)
Walked(text) ==
    LET tables == {id \in DOMAIN Models(text) : Models(text)[id].is = "table"}
        base   == DefaultsTable(text)
        table(id) == Models(text)[id].of
    IN  [entries    |-> UNION {Draft(id, table(id), base) : id \in tables},
         undeclared |-> {id \in tables : Inherits(table(id), base,
                                                  "memory_estimate_mib") = {}},
         problems   |-> Required(text, Text, "version")
                        \cup DefaultsFaults(text)
                        \cup (IF "models" \in DOMAIN text
                              THEN TableFault(text, Text, "models")
                              ELSE {Problem(Text, "models", "is required")})
                        \cup UNION {ModelFaults(text, id) : id \in DOMAIN Models(text)}]

(* Text that is not TOML is {}, and that is all there is to say of it. *)
Drafts(texts) ==
    IF texts = {} THEN [entries    |-> {}, undeclared |-> {},
                        problems   |-> {Problem(Text, "", "is not TOML")}]
    ELSE Walked(The(texts))

(* Catalog::parse: text alone derives no estimate. *)
Parse(texts) ==
    LET drafts   == Drafts(texts)
        problems == drafts.problems
                    \cup {Problem(Entry(id), "memory_estimate_mib", "is supplied by nothing") :
                              id \in drafts.undeclared}
    IN  [problems |-> problems,
         entries  |-> IF problems = {} THEN drafts.entries ELSE {}]

-----------------------------------------------------------------------------
(* What is read off the catalog: what residents hold for good, what        *)
(* generates text and what may be sent to it.                              *)

Reservation(entries) ==
    LET residents == SetToSeq({e \in entries : e.residency = "resident"})
    IN  FoldLeft(LAMBDA sum, e : sum + The(e.estimate), 0, residents)

Off == {"false", "0"}

Generates(entry) ==
    \A flag \in {"embeddings", "embedding", "reranking", "rerank"} \cap DOMAIN entry.flags :
        entry.flags[flag] \in Off

Accepts(entry) == {"text"} \cup {"image" : projector \in entry.projector}
=============================================================================
