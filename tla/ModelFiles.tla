----------------------------- MODULE ModelFiles -----------------------------
(***************************************************************************)
(* What the models root adds to a catalog's text (catalog/resolve.rs): the *)
(* metadata a model file carries (gguf), the memory an entry is expected   *)
(* to cost, worked out from its files and flags (catalog/estimate), and    *)
(* the entries made of the files no entry names (catalog/discover).        *)
(* A root is a function from paths to files.  A path is the directories it *)
(* passes, the words of its name, and the shard it is of a split model.    *)
(***************************************************************************)
EXTENDS CatalogText

CONSTANTS
    MiB,             \* bytes of a mebibyte
    OverheadBytes,   \* the device context and the compute buffers
    MaxPairs,        \* MAX_PAIRS: the most metadata a file may declare
    MaxLayerArray,   \* MAX_LAYER_ARRAY
    MaxDepth,        \* MAX_DEPTH: how deep the walk goes
    RootName,        \* the words of the root's own name
    FallbackContext  \* FALLBACK_CONTEXT

ASSUME FilesAssumption ==
    /\ MiB \in Nat \ {0}
    /\ {OverheadBytes, MaxLayerArray, MaxDepth} \subseteq Nat
    /\ MaxPairs \in Nat \ {0, 1}
    /\ FallbackContext \in 1..MaxCount

Smaller(a, b) == IF a < b THEN a ELSE b
Total(numbers) == FoldLeft(LAMBDA sum, n : sum + n, 0, numbers)
Largest(numbers) == CHOOSE n \in numbers : \A other \in numbers : other <= n

-----------------------------------------------------------------------------
(* Metadata.  A file is its size, whether it begins as it should, its      *)
(* version, and pairs of a key, the kind of its value, and the value.  A   *)
(* key is its prefix and what follows it.                                  *)

Blank  == [readable |-> TRUE, architecture |-> "", numbers |-> NoTable,
           layers |-> NoTable]
Faulty == [Blank EXCEPT !.readable = FALSE]

KeptUnder(table, key, value) ==
    [k \in DOMAIN table \cup {key} |-> IF k = key THEN value ELSE table[k]]

PerLayer == {"head_count_kv", "head_count", "sliding_window_pattern"}

(* Elements that are no count are left out of an array, and the array of   *)
(* its largest element is its number.                                      *)
LayerArray(metadata, pair) ==
    LET counts == SelectSeq(pair.of, LAMBDA n : n >= 0)
    IN  IF Len(pair.of) > MaxLayerArray THEN Faulty
        ELSE IF counts = <<>> THEN metadata
        ELSE [metadata EXCEPT !.numbers = KeptUnder(@, pair.key, Largest(Range(counts))),
                              !.layers  = KeptUnder(@, pair.key, counts)]

(* One pair.  A value that ends early, or is of no kind there is, faults   *)
(* the file; a number that is negative is not kept, nor is a tokenizer's.  *)
TakePair(metadata, pair) ==
    CASE ~metadata.readable -> Faulty
      [] pair.kind \in {"ends inside", "undefined", "nested"} -> Faulty
      [] pair.kind = "text" ->
            IF pair.key = <<"general", "architecture">>
            THEN [metadata EXCEPT !.architecture = pair.of] ELSE metadata
      [] pair.kind = "array" ->
            IF pair.key[2] \in PerLayer THEN LayerArray(metadata, pair) ELSE metadata
      [] pair.kind = "number" ->
            IF pair.of >= 0 /\ pair.key[1] # "tokenizer"
            THEN [metadata EXCEPT !.numbers = KeptUnder(@, pair.key, pair.of)] ELSE metadata

(* Metadata::read: every pair, or none of the file. *)
Metadata(root, path) ==
    IF path \notin DOMAIN root THEN Faulty
    ELSE LET file == root[path]
         IN  IF ~file.magic \/ file.version \notin 2..3 \/ Len(file.pairs) > MaxPairs
             THEN Faulty
             ELSE FoldLeft(TakePair, Blank, file.pairs)

Number(metadata, key) ==
    IF key \in DOMAIN metadata.numbers THEN {metadata.numbers[key]} ELSE {}

(* Under the architecture's own prefix, where the file names one. *)
OfModel(metadata, suffix) ==
    IF metadata.architecture = "" THEN {}
    ELSE Number(metadata, <<metadata.architecture, suffix>>)

LayersOf(metadata, suffix) ==
    LET key == <<metadata.architecture, suffix>>
    IN  IF metadata.architecture # "" /\ key \in DOMAIN metadata.layers
        THEN {metadata.layers[key]} ELSE {}

-----------------------------------------------------------------------------
(* What the cache of keys and values costs. *)

(* Sixteenths of a byte for an element.  Of the two spellings of a flag,   *)
(* the short one is asked for first.                                       *)
Widths == [f32 |-> 64, f16 |-> 32, q8_0 |-> 17, q4_0 |-> 9]

Spelled(flags, names) ==
    LET set == SelectSeq(names, LAMBDA name : name \in DOMAIN flags)
    IN  IF set = <<>> THEN {} ELSE {flags[set[1]]}

Sixteenths(flags, names) ==
    LET known == Spelled(flags, names) \cap DOMAIN Widths
    IN  The(Or({Widths[spelling] : spelling \in known}, {Widths["f16"]}))

(* A hybrid keeps a cache on one layer in so many. *)
CachingLayers(metadata) ==
    {LET every == OfModel(metadata, "full_attention_interval")
     IN  IF every # {} /\ The(every) > 1 THEN layers \div The(every) ELSE layers :
        layers \in OfModel(metadata, "block_count")}

(* gemma3 windows without saying where: the last layer of every six        *)
(* attends fully.                                                          *)
Intervals == [gemma3 |-> 6]

AssumedPattern(metadata) ==
    IF metadata.architecture \notin DOMAIN Intervals THEN {}
    ELSE LET every == Intervals[metadata.architecture]
         IN  {[layer \in 1..layers |-> IF layer % every = 0 THEN 0 ELSE 1] :
                layers \in OfModel(metadata, "block_count")}

(* A layer that slides holds no more than its window. *)
LayerBytes(shape, span) ==
    span * shape.heads * (shape.key * shape.keys + shape.value * shape.values)

(* The layers are summed one at a time where some of them slide. *)
SlidingBytes(metadata, context, shape, pattern, window) ==
    LET slidingKey   == The(Or(OfModel(metadata, "key_length_swa"), {shape.key}))
        slidingValue == The(Or(OfModel(metadata, "value_length_swa"), {slidingKey}))
        slides == [shape EXCEPT !.key = slidingKey, !.value = slidingValue]
        counts == The(Or(LayersOf(metadata, "head_count_kv"), {<<>>}))
        heads(layer) == IF layer \in DOMAIN counts THEN counts[layer] ELSE shape.heads
    IN  Total([layer \in DOMAIN pattern |->
            IF pattern[layer] = 0
            THEN LayerBytes([shape EXCEPT !.heads = heads(layer)], context)
            ELSE LayerBytes([slides EXCEPT !.heads = heads(layer)],
                            Smaller(context, window))])

(* A key is as long as the file says, or the width over the heads. *)
KeyLength(metadata) ==
    Or(OfModel(metadata, "key_length"),
       {width \div heads : width \in OfModel(metadata, "embedding_length"),
                           heads \in OfModel(metadata, "head_count") \ {0}})

CacheBytes(metadata, context, keys, values) ==
    LET pattern == Or(LayersOf(metadata, "sliding_window_pattern"),
                      AssumedPattern(metadata))
        window  == OfModel(metadata, "sliding_window")
        shape(heads, key) ==
            [heads |-> heads, key |-> key, keys |-> keys, values |-> values,
             value |-> The(Or(OfModel(metadata, "value_length"), {key}))]
    IN  {IF pattern # {} /\ window # {}
         THEN SlidingBytes(metadata, context, shape(heads, key), The(pattern), The(window))
                \div 16
         ELSE (layers * LayerBytes(shape(heads, key), context)) \div 16 :
            layers \in CachingLayers(metadata),
            heads  \in Or(OfModel(metadata, "head_count_kv"),
                          OfModel(metadata, "head_count")),
            key    \in KeyLength(metadata)}

-----------------------------------------------------------------------------
(* What the flags say of the way an entry is served. *)

(* A flag that says nothing counts: only what turns it off does not. *)
KeepsNoCache(flags) ==
    Spelled(flags, <<"embeddings", "embedding", "reranking", "rerank">>) \ Off # {}

RunsOnProcessor(flags) ==
    "0" \in Spelled(flags, <<"n-gpu-layers", "gpu-layers", "ngl">>)

PredictsTokens(flags) ==
    "mtp" \in Spelled(flags, <<"spec-type", "speculative-type">>)

-----------------------------------------------------------------------------
(* The estimate of an entry. *)

Size(root, path) == IF path \in DOMAIN root THEN root[path].size ELSE 0

(* A bug the checks must catch: the shards after the first, but one.       *)
Weights_ButTheLast(root, path) ==
    LET shards == The(Or(Number(Metadata(root, path), <<"split", "count">>), {1}))
        other  == [i \in 1..(shards - 1) |-> IF i = path.shard THEN 0
                             ELSE Size(root, [path EXCEPT !.shard = i])]
    IN  Size(root, path) + (IF path.shard = 0 THEN 0 ELSE Total(other))

(* The file, and every other shard where it is one of a split model. *)
Weights(root, path) ==
    LET shards == The(Or(Number(Metadata(root, path), <<"split", "count">>), {1}))
        other  == [i \in 1..shards |-> IF i = path.shard THEN 0
                             ELSE Size(root, [path EXCEPT !.shard = i])]
    IN  Size(root, path) + (IF path.shard = 0 THEN 0 ELSE Total(other))

Spelling(flags, short, long) == Sixteenths(flags, <<short, long>>)

(* What the caches cost: the model's own, where its metadata says enough,  *)
(* and that of a draft which is a model of its own.  A draft that is a     *)
(* head on its model predicts from that model's cache.                     *)
ModelCache(root, entry) ==
    CacheBytes(Metadata(root, entry.path), entry.context,
               Spelling(entry.flags, "ctk", "cache-type-k"),
               Spelling(entry.flags, "ctv", "cache-type-v"))

DraftCache(root, entry) ==
    LET bytes == {CacheBytes(Metadata(root, draft), entry.context,
                             Spelling(entry.flags, "ctkd", "cache-type-k-draft"),
                             Spelling(entry.flags, "ctvd", "cache-type-v-draft")) :
                     draft \in entry.draft}
    IN  IF PredictsTokens(entry.flags) THEN 0 ELSE The(Or(UNION bytes, {0}))

RoundedUp(bytes) == Smaller((bytes + MiB - 1) \div MiB, MaxCount)

(* An entry's files: a draft or a projector that is not there costs        *)
(* nothing.  What layers on the processor cost is paid in host memory.     *)
FileBytes(root, entry) ==
    IF RunsOnProcessor(entry.flags) THEN 0
    ELSE Weights(root, entry.path)
         + Total(SetToSeq({Size(root, path) : path \in entry.draft}))
         + Total(SetToSeq({Size(root, path) : path \in entry.projector}))

(* estimate::derive: nothing, where there is no file to size.              *)
Derive(root, entry) ==
    LET files == FileBytes(root, entry)
        own   == ModelCache(root, entry)
        none  == KeepsNoCache(entry.flags) \/ RunsOnProcessor(entry.flags)
        cache == (IF none THEN 0 ELSE The(own))
                 + (IF RunsOnProcessor(entry.flags) THEN 0 ELSE DraftCache(root, entry))
    IN  IF entry.path \notin DOMAIN root THEN {}
        ELSE IF own # {}
        THEN {[mib   |-> RoundedUp(files + cache + (files * 5) \div 100 + OverheadBytes),
               basis |-> "metadata"]}
        ELSE {[mib   |-> RoundedUp(files + files \div 4 + OverheadBytes),
               basis |-> "size"]}

-----------------------------------------------------------------------------
(* Discovery.  What a name says: the words are what lies between anything  *)
(* that is not a letter or a digit.                                        *)

Reserved == {<<"load">>, <<"unload">>, <<"sse">>, <<"props">>, <<"models">>}

Heads == {"mtp", "fastmtp", "FastMTP"}
Projectors == {"mmproj"}

(* Lowercase, which is all that is left to do to a word. *)
Lowered == [FastMTP |-> "fastmtp", Qwen |-> "qwen"]
Sanitised(words) ==
    [i \in DOMAIN words |-> IF words[i] \in DOMAIN Lowered THEN Lowered[words[i]]
                                                          ELSE words[i]]

IsModel(path) ==
    /\ path.gguf
    /\ Range(path.words) \cap (Heads \cup Projectors) = {}
    /\ path.shard \in {0, 1}

(* The directory a file is in: the root itself, for one beside no other. *)
Parent(path) == Sanitised(Last(<<RootName>> \o path.dirs))

(* A bug the checks must catch: the second name is not asked for.          *)
Identifier_AsWanted(path, taken) ==
    LET wanted == Sanitised(path.words)
        parent == Parent(path)
    IN  IF wanted = <<>> THEN {}
        ELSE IF wanted \notin taken THEN {wanted}
        ELSE IF parent = <<>> THEN {} ELSE {parent \o wanted}

(* A name that is taken has its directory's put in front. *)
Identifier(path, taken) ==
    LET wanted == Sanitised(path.words)
        parent == Parent(path)
    IN  IF wanted = <<>> THEN {}
        ELSE IF wanted \notin taken THEN {wanted}
        ELSE IF parent = <<>> \/ parent \o wanted \in taken THEN {}
        ELSE {parent \o wanted}

(* The context a file was made for, where it says one that can be held.    *)
TrainedFor(root, path) == OfModel(Metadata(root, path), "context_length") \cap 1..MaxCount

(* The entry one file becomes: on demand, with the defaults' settings and  *)
(* an estimate that is derived.                                            *)
Discovered(root, path, id, defaults) ==
    LET trained == TrainedFor(root, path)
        wanted  == The(Or(Or(Held(defaults, "context_size"), trained), {FallbackContext}))
        entry   == [id |-> id, path |-> path, draft |-> {}, projector |-> {},
                    context   |-> Smaller(wanted, The(Or(trained, {MaxCount}))),
                    estimate  |-> {}, residency |-> "on-demand", runtime |-> {},
                    timeout   |-> The(Or(Held(defaults, "startup_timeout_seconds"),
                                         {StartupTimeout})),
                    effort    |-> Held(defaults, "reasoning_effort"),
                    format    |-> Held(defaults, "reasoning_format"),
                    flags     |-> Flags(defaults)]
    IN  {[entry EXCEPT !.estimate = {derived.mib}] : derived \in Derive(root, entry)}

(* What the walk reaches: files no deeper than its bound that are models.  *)
IsReached(path) == Len(path.dirs) <= MaxDepth /\ IsModel(path)

Referenced(entries) ==
    UNION {{e.path} \cup e.draft \cup e.projector : e \in entries}

(* One file below the root: the name it takes and the entry it becomes.  A *)
(* path that is no text is skipped before it is named.                     *)
TakeFile(found, path, root, entries, defaults) ==
    IF ~IsReached(path) \/ path \in Referenced(entries) \/ path.anchor # "none" THEN found
    ELSE LET ids == Identifier(path, found.taken)
         IN  [taken   |-> found.taken \cup ids,
              entries |-> found.entries
                          \cup UNION {Discovered(root, path, id, defaults) : id \in ids}]

(* discover::under: every model file that no entry names, of those below   *)
(* the root in the order the walk comes to them.                           *)
Under(root, listing, entries, defaults) ==
    FoldLeft(LAMBDA found, path : TakeFile(found, path, root, entries, defaults),
             [taken |-> {e.id : e \in entries} \cup Reserved, entries |-> {}],
             listing).entries

-----------------------------------------------------------------------------
(* Catalog::read: an estimate that is declared stands, with a note where   *)
(* the files suggest more; one that is not is derived, or is a problem.    *)

Settle(root, entry) ==
    IF entry.estimate # {} THEN {entry}
    ELSE {[entry EXCEPT !.estimate = {derived.mib}] : derived \in Derive(root, entry)}

Understated(root, entries) ==
    {e.id : e \in {f \in entries : f.estimate # {}
                        /\ \E derived \in Derive(root, f) : derived.mib > The(f.estimate)}}

Read(texts, root, listing) ==
    LET drafts   == Drafts(texts)
        settled  == UNION {Settle(root, entry) : entry \in drafts.entries}
        lost     == {e.id : e \in {f \in drafts.entries : Settle(root, f) = {}}}
        problems == drafts.problems
                    \cup {Problem(Entry(id), "memory_estimate_mib", "could not be derived") :
                              id \in lost}
    IN  [problems |-> problems,
         notes    |-> Understated(root, drafts.entries),
         declared |-> IF problems = {} THEN settled ELSE {},
         found    |-> IF problems # {} THEN {}
                      ELSE Under(root, listing, settled, DefaultsTable(The(texts)))]

(* The check command: against the models root, where there is one, and of  *)
(* the text alone where there is none.  Serving reads the text alone.      *)
Check(texts, rooted, root, listing) ==
    (IF rooted THEN Read(texts, root, listing).problems ELSE Parse(texts).problems) = {}
=============================================================================
