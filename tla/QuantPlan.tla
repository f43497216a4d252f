----------------------------- MODULE QuantPlan -----------------------------
(***************************************************************************)
(* From a bit allocation to a quantized model file.  A caller turns the    *)
(* assignments of allocate.py / allocate_pi05.py into --tensor-type        *)
(* overrides, and llama_model_quantize_impl walks over the tensors of the  *)
(* model, chooses a type for each (the default of the file type, the       *)
(* heuristics of llama_tensor_get_type, the overrides), picks its          *)
(* importance weights and writes it into the output file or, with          *)
(* --keep-split, into the shard it came from.                              *)
(*                                                                         *)
(* Modelled: dense models (no experts, not Falcon, not 70B), the file      *)
(* types the drivers offer as base types.  Not modelled: --pure, --copy,   *)
(* --leave-output-tensor, --allow-requantize and --prune-layers.           *)
(***************************************************************************)
EXTENDS Integers, Sequences

CONSTANTS
    NLayer,       \* hparams.n_layer
    Inputs,       \* the input models: whether they have an output tensor, and the tensors
                  \* of each of their shards in the order of their offsets
    Emissions,    \* pairs <<who emits the overrides, base type>>
    Upgrades,     \* the sets of tensors an allocation raises above the base
    UpTypes,      \* the types it raises them to
    Columns,      \* ne[0] of the tensors, by role
    Importance,   \* what the imatrix holds for the tensors, by role
    Sources       \* the types of the input's weights

ASSUME JobAssumption ==
    /\ NLayer \in Nat \ {0}
    /\ Columns \subseteq [{"output", "token_embd", "attn_k", "attn_norm", "attn_output", "attn_q",
                           "attn_v", "ffn_down", "ffn_gate", "ffn_up"} -> Nat \ {0}]
    /\ "Q3_K_M" \notin UpTypes    \* a preset, not a tensor type
    /\ Emissions \subseteq {"allocate", "driver"} \X
           {"IQ2_XS", "IQ2_S", "Q2_K", "IQ3_S", "Q3_K", "Q3_K_M", "Q4_K"}
    \* llama-quantize knows no type of that name for the token embeddings
    /\ <<"allocate", "Q3_K_M">> \notin Emissions

----------------------------------------------------------------------------
(* Tensors, in the order of weights_map (by layer, then by name).          *)

BlockRoles == <<"attn_k", "attn_norm", "attn_output", "attn_q", "attn_v",
                "ffn_down", "ffn_gate", "ffn_up">>
Roles == {"output", "token_embd"} \union {BlockRoles[i] : i \in 1..8}
Layers == 0..(NLayer - 1)

BlockAt(k) == <<k \div 8, BlockRoles[(k % 8) + 1]>>

MapOrder(hasOutput) ==
    (IF hasOutput THEN << <<-1, "output">> >> ELSE << >>)
        \o << <<-1, "token_embd">> >> \o [k \in 1..(8 * NLayer) |-> BlockAt(k - 1)]

ModelTensors(hasOutput) ==
    (IF hasOutput THEN {<<-1, "output">>} ELSE {}) \union {<<-1, "token_embd">>}
        \union Layers \X {BlockRoles[i] : i \in 1..8}

\* An input holds every tensor of its model once, in one file (the second shard is empty)
\* or in two, and in any order: nothing ties the offsets to names or layers.
ASSUME InputAssumption ==
    \A in \in Inputs :
        LET all == in.shards[1] \o in.shards[2]
        IN  /\ in.hasOutput \in BOOLEAN
            /\ \A s \in {1, 2} : in.shards[s] \in Seq(ModelTensors(in.hasOutput))
            /\ in.shards[1] # << >>
            /\ \A t \in ModelTensors(in.hasOutput) : \E k \in DOMAIN all : all[k] = t
            /\ \A k, l \in DOMAIN all : all[k] = all[l] => k = l

\* The tensors the allocators assign a type to.
Planned == Layers \X {"attn_k", "attn_output", "attn_q", "attn_v",
                      "ffn_down", "ffn_gate", "ffn_up"}

----------------------------------------------------------------------------
(* Types.                                                                  *)

None == "COUNT"     \* GGML_TYPE_COUNT: no type was given

\* What QUANT_BY_NAME calls a base type; the _M presets are aliases.
Canonical(base) == IF base = "Q3_K_M" THEN "Q3_K" ELSE base

\* The file type the quantizer's last argument names.
FType(base) == CASE base = "Q3_K" -> "Q3_K_M"
                 [] base = "Q4_K" -> "Q4_K_M"
                 [] OTHER         -> base

DefaultType(ftype) == CASE ftype = "IQ2_S"  -> "IQ2_XS"
                        [] ftype = "Q3_K_M" -> "Q3_K"
                        [] ftype = "Q4_K_M" -> "Q4_K"
                        [] OTHER            -> ftype

BlckSize(type) == CASE type \in {"F32", "F16", "BF16"}                  -> 1
                    [] type \in {"Q8_0", "Q5_0", "Q5_1", "IQ4_NL"}      -> 32
                    [] OTHER                                            -> 256

Quantized(type) == type \notin {"F32", "F16", "BF16"}

Fits(cols, type) == cols % BlckSize(type) = 0

----------------------------------------------------------------------------
(* llama_tensor_get_type.  i and n are the counter and the count that      *)
(* stand for the tensor's layer and the number of layers.                  *)

UseMoreBits(i, n) ==
    \/ i < n \div 8
    \/ i >= (7 * n) \div 8
    \/ i >= n \div 8 /\ (i - n \div 8) % 3 = 2

OutputRule(ftype, type, cols, outType) ==
    CASE outType # None                          -> outType
      [] outType = None /\ ~Fits(cols, type)     -> "Q8_0"
      [] outType = None /\ Fits(cols, type)      ->
             CASE ftype = "IQ2_XS" -> type
               [] ftype = "IQ2_S"  -> "Q5_K"
               [] OTHER            -> "Q6_K"

EmbeddingRule(ftype, type, tokType) ==
    CASE tokType # None                       -> tokType
      [] tokType = None /\ ftype = "IQ2_S"    -> "IQ3_S"
      [] OTHER                                -> type

BlockRule(ftype, role, type, i, n, gqa) ==
    CASE ftype = "IQ2_XS" -> type
      [] ftype = "IQ2_S" /\ role = "attn_v"       -> IF gqa >= 4 THEN "Q4_K" ELSE "IQ3_S"
      [] ftype = "IQ2_S" /\ role = "ffn_down"     -> IF i < n \div 8 THEN "IQ3_S" ELSE type
      [] ftype = "IQ2_S" /\ role = "attn_output"  -> "IQ3_S"
      [] ftype = "Q2_K" /\ role = "attn_v"        -> IF gqa >= 4 THEN "Q4_K" ELSE "Q3_K"
      [] ftype = "Q2_K" /\ role \in {"ffn_down", "attn_output"} -> "Q3_K"
      [] ftype = "IQ3_S" /\ role = "attn_v"       -> IF gqa >= 4 THEN "Q4_K" ELSE type
      [] ftype = "Q3_K_M" /\ role = "attn_v"      -> IF i < 2 THEN "Q5_K" ELSE "Q4_K"
      [] ftype = "Q3_K_M" /\ role = "ffn_down"    -> IF i < n \div 16 THEN "Q5_K" ELSE "Q4_K"
      [] ftype = "Q3_K_M" /\ role = "attn_output" -> "Q4_K"
      [] ftype = "Q4_K_M" /\ role \in {"attn_v", "ffn_down"} ->
             IF UseMoreBits(i, n) THEN "Q6_K" ELSE type
      [] OTHER -> type

\* The counters a tensor advances: the IQ2 branch keeps only two of them.
Counted(ftype) == {"attn_v", "ffn_down"}
                    \union IF ftype \in {"IQ2_XS", "IQ2_S"} THEN {} ELSE {"ffn_gate", "ffn_up"}

Fallback(type, cols) ==
    LET other == CASE type = "Q4_K" -> "Q5_0"
                   [] type = "Q5_K" -> "Q5_1"
                   [] type = "Q6_K" -> "Q8_0"
                   [] OTHER         -> "IQ4_NL"
    IN  IF Fits(cols, other) THEN other ELSE "F16"

\* The types the table of fallbacks has no entry for: the function throws.
Unsupported(type, cols) ==
    ~Fits(cols, type) /\ type \in {"Q8_0", "Q5_0", "Q5_1", "IQ4_NL"}

----------------------------------------------------------------------------
VARIABLES
    job,       \* the command line, the model and the imatrix it names
    pc,        \* "start", "loop", "done", "failed"
    tensors,   \* the vector of weights, in the order they are converted
    next,      \* how many of them have been converted
    count,     \* i_attention_wv, i_ffn_down, i_ffn_gate, i_ffn_up
    ctx,       \* the tensor types recorded in ctx_outs
    cur_split, fout,    \* the shard being written; whether its file is open
    data, meta,         \* by shard: the tensors and the metadata on disk
    used       \* history: the importance weights each tensor was given

vars == <<job, pc, tensors, next, count, ctx, cur_split, fout, data, meta, used>>

\* What the allocation assigned.
Assigned(j) == [t \in Planned |-> IF t \in j.up THEN j.upType ELSE Canonical(j.base)]

\* The overrides on the command line.  allocate.py prints one for every
\* tensor; the drivers drop those whose type has the name of the base type.
\* Tensor names are distinct, so at most one override matches a tensor.
Overrides(j) ==
    LET a == Assigned(j)
    IN  [t \in {u \in Planned : j.who = "driver" => a[u] # j.base} |-> a[t]]

TokType(j) == IF j.who = "allocate" THEN j.base ELSE None
OutType(j) == IF j.who = "allocate" THEN "Q5_K" ELSE None

Jobs ==
    {[who |-> e[1], base |-> e[2], up |-> u, upType |-> ut, cols |-> c, imatrix |-> im,
      src |-> s, gqa |-> g, hasOutput |-> in.hasOutput, shards |-> in.shards, keepSplit |-> k] :
        e \in Emissions, u \in Upgrades, ut \in UpTypes, c \in Columns, im \in Importance,
        s \in Sources, g \in {1, 8}, in \in Inputs, k \in BOOLEAN}

\* With --keep-split a tensor goes into the shard it came from.
SplitOf(j, t) ==
    IF j.keepSplit /\ \E k \in DOMAIN j.shards[2] : j.shards[2][k] = t THEN 1 ELSE 0
Splits(j) == IF j.keepSplit /\ j.shards[2] # << >> THEN {0, 1} ELSE {0}

Init ==
    /\ job \in Jobs
    /\ pc = "start"
    /\ tensors = << >> /\ next = 0
    /\ count = [r \in {"attn_v", "ffn_down", "ffn_gate", "ffn_up"} |-> 0]
    /\ ctx = << >>
    /\ cur_split = 0 /\ fout = FALSE
    /\ data = [s \in Splits(job) |-> << >>]
    /\ meta = [s \in Splits(job) |-> << >>]
    /\ used = << >>

----------------------------------------------------------------------------
(* The choice of a type.                                                   *)

\* The norms are left alone (as are the other names the filter lists).
Quantizes(t) == t[2] # "attn_norm"

\* new_type before the test of the tensor's shape.
Heuristic(j, t, i) ==
    LET ftype == FType(j.base)
        type  == DefaultType(ftype)
        cols  == j.cols[t[2]]
    IN  CASE t[2] = "output" \/ (t[2] = "token_embd" /\ ~j.hasOutput) ->
                 OutputRule(ftype, type, cols, OutType(j))
          [] t[2] = "token_embd" /\ j.hasOutput -> EmbeddingRule(ftype, type, TokType(j))
          [] OTHER -> BlockRule(ftype, t[2], type, i, NLayer, j.gqa)

GetType(j, t, i) ==
    LET type == Heuristic(j, t, i)
    IN  IF Fits(j.cols[t[2]], type) THEN type ELSE Fallback(type, j.cols[t[2]])

\* Seeded fault: an override replaces only the default type, so a heuristic wins.
OverrideYields(j, t, i) ==
    IF GetType(j, t, i) = DefaultType(FType(j.base)) /\ t \in DOMAIN Overrides(j)
    THEN Overrides(j)[t] ELSE GetType(j, t, i)

\* An override counts only if the heuristics' choice did not fall back.
WithOverride(j, t, i) ==
    IF Fits(j.cols[t[2]], Heuristic(j, t, i)) /\ t \in DOMAIN Overrides(j)
    THEN Overrides(j)[t] ELSE GetType(j, t, i)

NewType(j, t, i) ==
    CASE ~Quantizes(t)                               -> "F32"
      [] t[2] = "token_embd" /\ TokType(j) # None    -> TokType(j)
      [] t[2] = "output" /\ OutType(j) # None        -> OutType(j)
      [] OTHER                                       -> WithOverride(j, t, i)

SourceType(j, t) == IF Quantizes(t) THEN j.src ELSE "F32"

\* Seeded fault: only the type the default falls back to is considered.
LowBitLess(type) == type = "IQ2_S"

\* The types that get an all-ones matrix when they have no weights.
LowBit(type) == type \in {"IQ2_XS", "IQ2_S"}

Weights(j, t, type) ==
    CASE j.imatrix[t[2]] \in {"column", "weight"} -> j.imatrix[t[2]]
      [] OTHER -> IF LowBit(type) THEN "uniform" ELSE "none"

\* The exceptions and assertions of one iteration of the loop.
Throws(j, t, type, i) ==
    \/ Quantizes(t) /\ Unsupported(Heuristic(j, t, i), j.cols[t[2]])
    \/ /\ type # SourceType(j, t)
       /\ \/ j.imatrix[t[2]] = "mismatch" /\ t[2] # "token_embd"
          \/ Quantized(SourceType(j, t))
    \/ ~Fits(j.cols[t[2]], type)

----------------------------------------------------------------------------
(* The output files.                                                       *)

\* Seeded fault: the weights stay in the order of the map.
Unsorted(j) == MapOrder(j.hasOutput)

\* The vector of weights: --keep-split sorts it by shard and offset, which
\* is the order of the input files, whatever that is.
Sorted(j) == IF j.keepSplit THEN j.shards[1] \o j.shards[2] ELSE MapOrder(j.hasOutput)

\* The tensors of shard s, added one by one to its gguf context, with their types.
Meta(s) ==
    LET added[k \in 0..Len(tensors)] ==
            IF k = 0 THEN << >>
            ELSE IF SplitOf(job, tensors[k]) = s
            THEN Append(added[k - 1], <<tensors[k], ctx[k]>>)
            ELSE added[k - 1]
    IN  added[Len(tensors)]

\* new_ofstream: truncates the file and leaves room for the metadata.
Truncate(s) == data' = [data EXCEPT ![s] = << >>] /\ meta' = [meta EXCEPT ![s] = << >>]

Prepare ==
    /\ pc = "start"
    /\ pc' = "loop"
    /\ LET weights == Sorted(job)
       IN  /\ tensors' = weights
           /\ ctx' = [k \in DOMAIN weights |-> SourceType(job, weights[k])]
    /\ cur_split' = 0 /\ fout' = TRUE
    /\ Truncate(0)
    /\ UNCHANGED <<job, next, count, used>>

More == next + 1 \in DOMAIN tensors
Current == tensors[next + 1]
Layer == IF Current[2] \in DOMAIN count THEN count[Current[2]] ELSE 0
Here == SplitOf(job, Current) = cur_split

\* Seeded fault: the stream is not closed after the metadata.
CloseNot ==
    /\ pc = "loop" /\ fout
    /\ More => ~Here
    /\ meta' = [meta EXCEPT ![cur_split] = Meta(cur_split)]
    /\ pc' = IF More THEN "loop" ELSE "done"
    /\ UNCHANGED <<job, tensors, next, count, ctx, cur_split, fout, data, used>>

\* close_ofstream: the metadata is written over the placeholder.
Close ==
    /\ pc = "loop" /\ fout
    /\ More => ~Here
    /\ meta' = [meta EXCEPT ![cur_split] = Meta(cur_split)]
    /\ fout' = FALSE
    /\ pc' = IF More THEN "loop" ELSE "done"
    /\ UNCHANGED <<job, tensors, next, count, ctx, cur_split, data, used>>

Open ==
    /\ pc = "loop" /\ ~fout
    /\ cur_split' = SplitOf(job, Current)
    /\ fout' = TRUE
    /\ Truncate(SplitOf(job, Current))
    /\ UNCHANGED <<job, pc, tensors, next, count, ctx, used>>

\* Seeded fault: the early exit for IQ2_XS leaves the counters alone.
CountersLeft(t) ==
    IF t[2] \in Counted(FType(job.base)) /\ job.base # "IQ2_XS"
    THEN [count EXCEPT ![t[2]] = @ + 1] ELSE count
Counters(t) ==
    IF t[2] \in Counted(FType(job.base)) THEN [count EXCEPT ![t[2]] = @ + 1] ELSE count

Convert ==
    /\ pc = "loop" /\ fout /\ More /\ Here
    /\ LET t    == Current
           type == NewType(job, t, Layer)
       IN  /\ ~Throws(job, t, type, Layer)
           /\ ctx' = [ctx EXCEPT ![next + 1] = type]
           /\ data' = [data EXCEPT ![cur_split] = Append(@, <<t, type>>)]
           /\ used' = Append(used, IF type = SourceType(job, t) THEN "copied"
                                   ELSE Weights(job, t, type))
           /\ count' = Counters(t)
    /\ next' = next + 1
    /\ UNCHANGED <<job, pc, tensors, cur_split, fout, meta>>

Throw ==
    /\ pc = "loop" /\ fout /\ More /\ Here
    /\ Throws(job, Current, NewType(job, Current, Layer), Layer)
    /\ pc' = "failed" /\ fout' = FALSE
    /\ UNCHANGED <<job, tensors, next, count, ctx, cur_split, data, meta, used>>

\* The process is killed, or a write fails (fout throws on failbit).
Crash ==
    /\ pc = "loop"
    /\ pc' = "failed" /\ fout' = FALSE
    /\ UNCHANGED <<job, tensors, next, count, ctx, cur_split, data, meta, used>>

Next == Prepare \/ Close \/ Open \/ Convert \/ Throw \/ Crash

Spec == Init /\ [][Next]_vars

----------------------------------------------------------------------------
(* Properties.                                                             *)

Types == {"F32", "F16", "BF16", "Q8_0", "Q5_0", "Q5_1", "IQ4_NL", "IQ2_XS", "IQ2_S", "Q2_K",
          "IQ3_S", "Q3_K", "Q4_K", "Q5_K", "Q6_K"} \union UpTypes

ASSUME SourceAssumption == Sources \subseteq Types

\* Type correctness: every record of the conversion loop of
\* llama_model_quantize_impl stays in its domain, a counter never passes the
\* number of layers it is compared with, and only an open file grows.
TypeOK ==
    /\ job \in Jobs
    /\ pc \in {"start", "loop", "done", "failed"}
    /\ next \in 0..Len(tensors) /\ Len(ctx) = Len(tensors) /\ Len(used) = next
    /\ \A k \in 1..Len(tensors) : tensors[k] \in ({-1} \union Layers) \X Roles /\ ctx[k] \in Types
    /\ \A r \in DOMAIN count : count[r] \in 0..NLayer
    /\ cur_split \in Splits(job) /\ fout \in BOOLEAN
    /\ fout => pc = "loop" /\ meta[cur_split] = << >>

\* The file holds the types of the allocation: every tensor written that the
\* allocator planned has the type it was assigned, unless its rows do not
\* divide into blocks, whatever the heuristics of llama_tensor_get_type say
\* of that file type, layer and role (allocate.py:480-482).
PlanKept ==
    \A s \in Splits(job) : \A k \in 1..Len(data[s]) :
        LET t == data[s][k][1]
        IN  t \in Planned /\ job.cols[t[2]] % 256 = 0 => data[s][k][2] = Assigned(job)[t]

\* A file with metadata is whole: wherever an exception, a failed write or a
\* kill ends the run, a shard whose header close_ofstream wrote describes
\* exactly the data behind it, tensor by tensor, in that order and with those
\* types, and a run that is done has written every shard.
HeaderMeansWhole ==
    /\ \A s \in Splits(job) : meta[s] # << >> => meta[s] = data[s]
    /\ pc = "done" => \A s \in Splits(job) : meta[s] # << >>

\* The layers of a role come in order in the vector of weights.
InOrder(ts, role) ==
    LET at == {k \in DOMAIN ts : ts[k][2] = role}
    IN  \A k, l \in at : k < l => ts[k][1] < ts[l][1]

\* The counter is the layer: qs.i_attention_wv and qs.i_ffn_down, by which
\* the heuristics tell the first and last layers from the others, agree with
\* the layer in the tensor's name whenever they are consulted, on every path
\* through llama_tensor_get_type.  With --keep-split the vector is in the order
\* of the input files, and the counter can be the layer only for a role whose
\* layers these have in order, in one shard or across both.
CounterIsLayer ==
    /\ pc = "loop" /\ More /\ Current[2] \in Counted(FType(job.base))
    /\ job.keepSplit => InOrder(tensors, Current[2])
    => count[Current[2]] = Current[1]

\* No kernel is left without weights: a tensor converted to a type for which
\* ggml_quantize_chunk asserts an importance matrix always has one, be the
\* entry missing from the imatrix or (for the token embedding) of the wrong
\* size.
KernelHasWeights ==
    \A k \in 1..next : ctx[k] = "IQ2_XS" => used[k] # "none"
============================================================================
