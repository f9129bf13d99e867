----------------------------- MODULE MCCatalog ------------------------------
(***************************************************************************)
(* Small catalogs and models roots, and what is claimed of their readings. *)
(***************************************************************************)
EXTENDS Invocation, Questions

-----------------------------------------------------------------------------
(* Catalogs.  A table is built of what each field may hold, or of nothing. *)

T(text)   == [is |-> "text", of |-> text]
I(number) == [is |-> "integer", of |-> number]
Inner(f)  == [is |-> "table", of |-> f]
Other     == [is |-> "other", of |-> ""]

Built(choice) == [f \in {g \in DOMAIN choice : choice[g] # {}} |-> The(choice[f])]
Tables(choices) == {Built(choice) : choice \in choices}

At(dirs, words, shard) == [dirs |-> dirs, words |-> words, shard |-> shard,
                           gguf |-> TRUE, anchor |-> "none"]
Weight   == At(<<>>, <<"qwen">>, 0)
Anchored == [Weight EXCEPT !.anchor = "root"]

KeysInOrder == <<"c", "cache-type-k", "ctk", "ctx-size", "embeddings", "gpu-layers", "ngl",
                 "rerank", "spec-type">>

BadFlags == Inner([ctk |-> T("f16"), np |-> I(2)])

EntryTables == Tables(
    [path : {{}, {T(Anchored)}, {T(Weight)}}, context_size : {{}, {I(0)}, {I(8)}, {T("8")}},
     memory_estimate_mib : {{}, {I(0)}, {I(5)}}, residency : {{}, {T("sometimes")}},
     contextsize : {{}, {I(8)}}, flags : {{}, {Other}, {BadFlags}}])

DefaultTables == Tables(
    [context_size : {{}, {I(0)}, {I(8)}}, memory_estimate_mib : {{}, {T("5")}, {I(5)}},
     flags : {{}, {BadFlags}}, path : {{}, {T(Weight)}}])

TextOf(version, defaults, models) ==
    Built([version |-> version, defaults |-> defaults, models |-> models])
Catalogued(defaults, entry) ==
    TextOf({I(1)}, defaults, {Inner(<<"a">> :> Inner(entry))})

SomeEntry == Built([path |-> {T(Weight)}, context_size |-> {I(8)},
                    memory_estimate_mib |-> {I(5)}])
OtherEntry == Built([path |-> {T(Anchored)}, context_size |-> {}])

TextsOfEntries ==
    {{Catalogued(defaults, entry)} :
        defaults \in {{}, {Other}} \cup {{Inner(d)} : d \in DefaultTables},
        entry \in EntryTables}

TextsOfTables ==
    {{TextOf(version, {}, models)} :
        version \in {{}, {I(0)}, {I(1)}, {T("1")}},
        models \in {{}, {Other}, {Inner(<<"a">> :> Other)},
                    {Inner((<<"a">> :> Inner(SomeEntry)) @@ (<<"b">> :> Inner(OtherEntry)))}}}

CatalogTexts == {{}} \cup TextsOfEntries \cup TextsOfTables

(* What is made of a catalog's text, alone and against a root with nothing *)
(* in it.                                                                  *)
Readings(texts) ==
    LET parsed == Parse(texts)
    IN  [parsed   |-> parsed,
         reserved |-> Reservation(parsed.entries),
         offered  |-> {[id |-> e.id, accepts |-> Accepts(e)] :
                         e \in {f \in parsed.entries : Generates(f)}},
         read     |-> Read(texts, NoTable, <<>>),
         checked  |-> [rooted \in BOOLEAN |-> Check(texts, rooted, NoTable, <<>>)]]

ReadCatalog == Asked("catalog") /\ Given(Readings(question.input))

(* What is wrong with a catalog, field by field: present and of no use, or *)
(* needed and supplied by nothing.                                         *)
Wrong(table, field) == field \in DOMAIN table /\ ~Converts(field, table[field])

FaultsOf(table, scope, fields) ==
    {<<scope, f>> : f \in {g \in DOMAIN table :
        \/ g \notin fields
        \/ g # "flags" /\ Wrong(table, g)
        \/ g = "flags" /\ (table[g].is # "table"
                            \/ \E k \in DOMAIN table[g].of : table[g].of[k].is # "text")}}

Useless(table, field) == field \notin DOMAIN table \/ Wrong(table, field)

EntryFaultsOf(id, value, defaults) ==
    IF value.is # "table" THEN {<<Entry(id), "">>}
    ELSE FaultsOf(value.of, Entry(id), EntryFields)
         \cup {<<Entry(id), f>> : f \in {"path"} \ DOMAIN value.of}
         \cup {<<Entry(id), f>> : f \in {g \in {"context_size", "memory_estimate_mib"} :
                   Useless(value.of, g) /\ Useless(defaults, g)}}

CatalogFaults(text) ==
    {<<Text, f>> : f \in {"version", "models"} \ DOMAIN text}
    \cup {<<Text, f>> : f \in {g \in {"defaults", "models"} \cap DOMAIN text :
                                  text[g].is # "table"}}
    \cup {<<Text, f>> : f \in {g \in {"version"} : Wrong(text, g)}}
    \cup FaultsOf(TableAt(text, "defaults"), Shared, DefaultFields)
    \cup UNION {EntryFaultsOf(id, TableAt(text, "models")[id], TableAt(text, "defaults")) :
                  id \in DOMAIN TableAt(text, "models")}

Said(problems) == {<<p.scope, p.field>> : p \in problems}

(* One reading of a catalog names every field that is at fault, in every   *)
(* table it carries and whatever else is wrong with it, and names no       *)
(* other; and what serve and reload accept, which is text alone, check     *)
(* accepts against a models root with nothing in it, and without one       *)
(* (catalog/read.rs, check.rs).  The tables are wrong in the fields that   *)
(* are here: drafts, projectors and runtimes are read like paths and text, *)
(* and none that is wrong is among them.                                   *)
EveryFaultIsSaid ==
    Answered("catalog") =>
        LET parsed == answer[1].parsed
            read   == answer[1].read
        IN  /\ Said(parsed.problems) =
                  IF question.input = {} THEN {<<Text, "">>}
                                      ELSE CatalogFaults(The(question.input))
            /\ parsed.problems = {} =>
                 /\ answer[1].checked[TRUE] /\ answer[1].checked[FALSE]
                 /\ read.declared = parsed.entries

-----------------------------------------------------------------------------
(* Model files: layers that all attend, that slide, by a pattern that is   *)
(* given, of every layer or too short, or assumed, and that mostly keep no *)
(* cache.                                                                  *)

Layers == 7
Pair(arch, suffix, kind, value) ==
    [key |-> <<arch, suffix>>, kind |-> kind, of |-> value]

Scalars == {"full_attention_interval", "key_length", "sliding_window", "key_length_swa"}
Shapes == [head_count_kv : {"", "number", "array"},
           sliding_window_pattern : {"", "array", "short"},
           full_attention_interval : {{}, {3}}, key_length : {{}, {2}},
           sliding_window : {{}, {4}}, key_length_swa : {{}, {1}}]

Pairs(arch, shape) ==
    <<Pair("general", "architecture", "text", arch),
      Pair(arch, "block_count", "number", Layers),
      Pair(arch, "head_count", "number", 4),
      Pair(arch, "embedding_length", "number", 16)>>
    \o SetToSeq({Pair(arch, s, "number", The(shape[s])) :
                    s \in {f \in Scalars : shape[f] # {}}})
    \o (IF shape.head_count_kv = "number"
        THEN <<Pair(arch, "head_count_kv", "number", 2)>> ELSE <<>>)
    \o (IF shape.head_count_kv = "array"
        THEN <<Pair(arch, "head_count_kv", "array", [l \in 1..Layers |-> 1 + (l % 2)])>>
        ELSE <<>>)
    \o (IF shape.sliding_window_pattern # ""
        THEN <<Pair(arch, "sliding_window_pattern", "array",
                    [l \in 1..(IF shape.sliding_window_pattern = "short" THEN 3 ELSE Layers)
                        |-> l % 2])>> ELSE <<>>)

FileOf(size, pairs) == [size |-> size, magic |-> TRUE, version |-> 3, pairs |-> pairs]

Shard(i)  == At(<<>>, <<"big">>, i)
DraftAt   == At(<<>>, <<"draft">>, 0)
Projector == At(<<>>, <<"mmproj">>, 0)

FlagSets == {NoTable, [ctk |-> "q4_0"], ("ctk" :> "f32") @@ ("cache-type-k" :> "q4_0"),
             [embeddings |-> "true"], [embeddings |-> ""], [embeddings |-> "false"],
             [rerank |-> "0"], "ngl" :> "0", ("gpu-layers" :> "999") @@ ("ngl" :> "0"),
             ("gpu-layers" :> "0") @@ ("ngl" :> "999"), "spec-type" :> "mtp",
             "c" :> "12", "ctx-size" :> "1"}

DraftFile == FileOf(20, Pairs("llama", [head_count_kv |-> "", sliding_window_pattern |-> "",
                full_attention_interval |-> {}, key_length |-> {}, sliding_window |-> {},
                key_length_swa |-> {}]))

(* Models of one file, with and without a draft; split ones, with a shard  *)
(* missing or not; and files whose metadata does not say enough.           *)
EntryOf(path, flags, context, draft, projector) ==
    [path |-> path, draft |-> draft, projector |-> projector, context |-> context,
     flags |-> flags, id |-> <<"a">>, runtime |-> {}, format |-> {}, effort |-> {}]

Estimated(entry, root) == question = Ask("estimate", [entry |-> entry, root |-> root])

AsksForAnEstimate ==
    \/ \E arch \in {"llama", "gemma3"}, shape \in Shapes, flags \in FlagSets,
          context \in {2, 9}, draft \in {{}, {DraftAt}} :
          Estimated(EntryOf(Weight, flags, context, draft, {}),
                    (Weight :> FileOf(70, Pairs(arch, shape))) @@ (DraftAt :> DraftFile))
    \/ \E projector \in {{}, {Projector}}, there \in SUBSET {Shard(2), Shard(3), Projector},
          ends \in {<<>>, <<Pair("llama", "", "ends inside", 0)>>, DraftFile.pairs},
          shards \in {0, 3} :
          Estimated(EntryOf(Shard(1), NoTable, 9, {}, projector),
                    [path \in {Shard(1)} \cup there |->
                        FileOf(33, SetToSeq({Pair("split", "count", "number", n) :
                                               n \in {shards} \ {0}}) \o ends)])

EstimateEntry ==
    Asked("estimate") /\ Given(Derive(question.input.root, question.input.entry))

(* What an entry is known to hold, file by file and layer by layer: every  *)
(* file it names that is there, the keys and values of every layer that    *)
(* caches, for no more tokens than it attends to, and the overhead.        *)
Files(root, entry) ==
    LET shards == IF entry.path.shard = 0 THEN {entry.path}
                  ELSE {[entry.path EXCEPT !.shard = i] :
                           i \in 1..The(Or(Number(Metadata(root, entry.path),
                                                 <<"split", "count">>), {1}))}
    IN  (shards \cup entry.draft \cup entry.projector) \cap DOMAIN root

FilesHold(root, entry) ==
    LET files == SetToSeq(Files(root, entry))
    IN  Total([i \in DOMAIN files |-> root[files[i]].size])

Fact(metadata, suffix, otherwise) == The(Or(OfModel(metadata, suffix), {otherwise}))

Slides(metadata, layer) ==
    /\ OfModel(metadata, "sliding_window") # {}
    /\ \/ \E pattern \in LayersOf(metadata, "sliding_window_pattern") :
             layer \in DOMAIN pattern /\ pattern[layer] = 1
       \/ /\ LayersOf(metadata, "sliding_window_pattern") = {}
          /\ metadata.architecture = "gemma3"
          /\ layer # 6

Caches(metadata, layer) == layer % Fact(metadata, "full_attention_interval", 1) = 0

LayerHolds(metadata, layer, context, widths) ==
    LET slides == Slides(metadata, layer)
        key    == Fact(metadata, "key_length", 16 \div 4)
        long   == IF slides THEN Fact(metadata, "key_length_swa", key) ELSE key
        heads  == IF LayersOf(metadata, "head_count_kv") = {}
                  THEN Fact(metadata, "head_count_kv", 4)
                  ELSE The(LayersOf(metadata, "head_count_kv"))[layer]
        tokens == IF slides THEN Smaller(context, Fact(metadata, "sliding_window", 0))
                            ELSE context
    IN  IF Caches(metadata, layer) THEN tokens * heads * long * widths ELSE 0

CacheHolds(root, path, context, widths) ==
    IF OfModel(Metadata(root, path), "block_count") = {} THEN 0
    ELSE Total([layer \in 1..Layers |->
                  LayerHolds(Metadata(root, path), layer, context, widths)]) \div 16

(* The last value a child is told for a flag of so many spellings, and the *)
(* width it makes.                                                         *)
Told(arguments, flags) ==
    LET at == SelectLastInSeq(arguments, LAMBDA argument : argument.flag \in flags)
    IN  IF at = 0 THEN {} ELSE arguments[at].value

WidthTold(arguments, flag) ==
    LET told == Told(arguments, {flag})
    IN  CASE told = {"f32"} -> 64 [] told = {"q4_0"} -> 9 [] OTHER -> 32

LayerFlags == {"n-gpu-layers", "gpu-layers", "ngl"}

Forgets(argument) ==
    /\ argument.flag \in {"embeddings", "embedding", "reranking", "rerank"}
    /\ ~argument.negated /\ argument.value # {"0"}

(* What a child of the entry, told what it is told, holds on the device:   *)
(* all its shards, its draft and its caches together.                      *)
Holds(root, entry) ==
    LET told    == The(Spawned(entry, root, ServerName, {ServerName}, 1)).arguments
        context == CHOOSE n \in 1..16 : {ToString(n)} = Told(told, {"ctx-size"})
        width   == WidthTold(told, "cache-type-k") + WidthTold(told, "cache-type-v")
        own     == CacheHolds(root, entry.path, context, width)
        draft   == Total(SetToSeq({CacheHolds(root, path, context, 64) :
                                     path \in entry.draft}))
        forgets == \E i \in DOMAIN told : Forgets(told[i])
        head    == Told(told, {"spec-type", "speculative-type"}) = {"mtp"}
    IN  OverheadBytes
        + (IF Told(told, LayerFlags) = {"0"} THEN 0
           ELSE FilesHold(root, entry) + (IF forgets THEN 0 ELSE own)
                                       + (IF head THEN 0 ELSE draft))

ErrsHigh(root, entry, estimates) ==
    \A derived \in estimates :
        derived.basis = "metadata" => derived.mib * MiB >= Holds(root, entry)

(* Two spellings of the layers on the device that differ: the estimate     *)
(* reads the first of its own list, and a child goes by the last it is     *)
(* told (served.rs:61).                                                    *)
LayersDiffer(entry) ==
    \E a, b \in LayerFlags \cap DOMAIN entry.flags : entry.flags[a] # entry.flags[b]

(* A pattern that is shorter than the model: the layers after its end are  *)
(* not counted (cache.rs:57), and what a child makes of such a file is not *)
(* in this code.                                                           *)
IsCutShort(metadata) ==
    \E pattern \in LayersOf(metadata, "sliding_window_pattern") : Len(pattern) < Layers

(* A context of the flags' own comes after the entry's, and is what counts *)
(* for a child (invocation.rs:52,57).                                      *)
OwnContext(entry) == {"c", "ctx-size"} \cap DOMAIN entry.flags # {}

Estimates(Excepted(_, _)) ==
    Answered("estimate") =>
        LET root  == question.input.root
            entry == question.input.entry
        IN  Excepted(root, entry) \/ ErrsHigh(root, entry, answer[1])

(* An estimate made from a model's metadata is never below what a child of *)
(* the entry holds on the device, for what the child is told: one that is  *)
(* admits a model that the machine cannot hold (catalog/estimate/mod.rs).  *)
(* Three kinds of entry are excepted, and all three are among the inputs:  *)
(* those whose flags give a context of their own, which                    *)
(* EveryTermErrsHigh is about, those that spell the layers on the device   *)
(* in two ways that differ, and those whose file's pattern is cut short.   *)
EstimateErrsHigh ==
    Estimates(LAMBDA root, entry :
        \/ OwnContext(entry) \/ LayersDiffer(entry)
        \/ IsCutShort(Metadata(root, entry.path)))

(* What the module says of its terms, with no exception for a context that *)
(* the flags give: "every term errs high on purpose", the cache "at the    *)
(* configured context" (catalog/estimate/mod.rs:13,38).                    *)
EveryTermErrsHigh ==
    Estimates(LAMBDA root, entry :
        LayersDiffer(entry) \/ IsCutShort(Metadata(root, entry.path)))

-----------------------------------------------------------------------------
(* Discovery: files whose names meet, below a root that is called "root".  *)

RootWords == <<"root">>
Qwen(dirs) == At(dirs, <<"qwen">>, 0)
InA == At(<<<<"a">>>>, <<"Qwen">>, 0)
DeepAt(depth) == At([i \in 1..depth |-> <<"a">>], <<"deep">>, 0)

Meeting == {Qwen(<<>>), InA, Qwen(<<<<"b">>>>), Qwen(<<<<"b">>, <<"a">>>>),
            At(<<>>, <<"a", "qwen">>, 0), At(<<>>, <<"qwen">>, 1)}
OnDisk == Meeting \cup {At(<<>>, <<"load">>, 0), At(<<>>, <<"qwen">>, 2),
            At(<<>>, <<"x", "mmproj">>, 0), At(<<>>, <<"FastMTP", "x">>, 0),
            DeepAt(MaxDepth), DeepAt(MaxDepth + 1),
            At(<<>>, <<>>, 0), [Qwen(<<>>) EXCEPT !.anchor = "not text"],
            [Qwen(<<>>) EXCEPT !.gguf = FALSE]}

Naming(id, path) == id :> Inner(Built([path |-> {T(path)}, context_size |-> {I(8)},
                                       memory_estimate_mib |-> {}, draft_path |-> {}]))

Listings == Distinct(OnDisk, 3) \cup Distinct(Meeting, 4)

NamedModels == {NoTable, Naming(<<"qwen">>, InA), Naming(<<"a", "qwen">>, Qwen(<<>>)),
                Naming(<<"qwen">>, Qwen(<<>>)) @@ Naming(<<"root", "qwen">>, InA)}

RootOf(listing) ==
    [path \in Range(listing) |-> FileOf(10, <<Pair("general", "architecture", "text", "llama"),
                                               Pair("llama", "context_length", "number", 16)>>)]

Sought(listing, models) ==
    [listing |-> listing,
     text |-> TextOf({I(1)}, {Inner(Built([context_size |-> {I(32)}]))}, {Inner(models)})]
Discoveries == {Sought(listing, models) : listing \in Listings, models \in NamedModels}

AsksForDiscovery == \E sought \in Discoveries : question = Ask("discovery", sought)

ReadAgainst(sought) == Read({sought.text}, RootOf(sought.listing), sought.listing)

Discover == Asked("discovery") /\ Given(ReadAgainst(question.input))

(* Of the files of a listing: each that is a model's, and that no declared *)
(* entry names, is one entry found, or both its names are taken.           *)
OneEntryEach(listing, declared, found) ==
    LET ids      == {e.id : e \in declared \cup found}
        named    == UNION {{e.path} \cup e.draft \cup e.projector : e \in declared}
        eligible == {path \in Range(listing) :
                        /\ path.gguf /\ path.anchor = "none"
                        /\ Len(path.dirs) <= MaxDepth /\ path.words # <<>>
                        /\ path.shard \in {0, 1}
                        /\ Range(path.words) \cap {"mmproj", "mtp", "fastmtp", "FastMTP"}
                             = {}}
    IN  /\ \A e, other \in declared \cup found : e.id = other.id => e = other
        /\ \A e \in found :
              /\ e.id \notin Reserved
              /\ e.path \in eligible \ named
              /\ e.context \in 1..16
              /\ \A other \in found : e.path = other.path => e = other
        /\ \A path \in (eligible \ named) \ {e.path : e \in found} :
              LET name == Sanitised(path.words)
              IN  {name, Parent(path) \o name} \subseteq ids \cup Reserved

(* Every model file below the root that no entry names, as its model, its  *)
(* draft or its projector, becomes exactly one entry, or is skipped        *)
(* because both its names are taken; no two entries, declared or found,    *)
(* answer to one identifier; and none that is found answers to one of the  *)
(* proxy's own paths (catalog/discover), which a declared one is not kept  *)
(* from.                                                                   *)
EveryFileIsOneEntry ==
    Answered("discovery") /\ answer[1].problems = {} =>
        OneEntryEach(question.input.listing, answer[1].declared, answer[1].found)

=============================================================================
