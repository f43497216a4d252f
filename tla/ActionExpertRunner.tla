------------------------- MODULE ActionExpertRunner -------------------------
(***************************************************************************)
(* Pi05ActionExpertRunner: the action expert of the Pi 0.5 runtime.  A     *)
(* call samples an action chunk for one observation: compute_kv_cache runs *)
(* the prefix (vision and text tokens) once and leaves its keys and values *)
(* in persistent device tensors, then an Euler loop runs the suffix graph  *)
(* over that cache.  The prefix forward is skipped when the observation is *)
(* the one of the last call.  Two sessions build their graphs over one     *)
(* shared scheduler.                                                       *)
(***************************************************************************)
EXTENDS Integers, BackendSched

CONSTANTS
    Prefixes,    \* what a caller may pass: embeddings and a masked range, one
                 \* of them per observation
    PrefixLen,   \* PrefixLen[p]: number of tokens of p
    PrefixMask,  \* PrefixMask[p]: the token range that comes with p
    Hash,        \* Hash[p]: the 64-bit hash compute_kv_cache takes of p
    NoMask,      \* the range [-1, -1)
    Garbage,     \* device memory whose contents no call determines
    NumLayers,   \* num_hidden_layers
    MaxSeqLen,   \* KV_CACHE_MAX_SEQ_LEN
    NumSteps,    \* num_flow_steps
    Faults       \* which calls may fail: "frontend", "prefix", "suffix", "alloc"

Layers == 1..NumLayers
Masks == {PrefixMask[p] : p \in Prefixes} \cup {NoMask}

ASSUME PrefixAssumption ==
    /\ PrefixLen \in [Prefixes -> Nat \ {0}]
    /\ Hash \in [Prefixes -> Nat]
    /\ Garbage \notin Prefixes
ASSUME SizeAssumption ==
    NumLayers \in Nat \ {0} /\ MaxSeqLen \in Nat /\ NumSteps \in Nat
\* No two observations with the same mask collide.  compute_kv_cache compares
\* hashes only, never the embeddings; the same embeddings under another mask have
\* the same hash.
ASSUME HashAssumption ==
    \A p, q \in Prefixes : Hash[p] = Hash[q] /\ PrefixMask[p] = PrefixMask[q] => p = q

VARIABLES
    phase,       \* where the thread is: "idle", "called", "ode", "aborted"
    cur,         \* the prefix of the call in progress (of the last one when idle)
    kv,          \* kv[l]: whose keys and values layer l's device tensors hold
    kv_cache_initialized,
    cached_prefix_hash,
    cached_mask,
    cached_n_prefix,
    prefix_session,   \* [init, n_prefix]
    suffix_session,   \* [init, n_prefix, mask, graph_allocated]
    suffix_pos,       \* first entry of suffix_positions_
    sched,       \* the shared scheduler
    t,           \* the Euler loop's time, in units of 1 / (2 * NumSteps)
    used,        \* history: what the velocities of this call were computed from
    result,      \* how the last call ended: "none", "ok", "failed", or the failed
                 \* assertion: "too long", "mismatch", "no buffer"
    poisoned     \* history: the last prefix forward failed

cache == <<kv, kv_cache_initialized, cached_prefix_hash, cached_mask,
           cached_n_prefix, prefix_session, suffix_session, suffix_pos>>
vars == <<phase, cur, cache, sched, t, used, result, poisoned>>

-----------------------------------------------------------------------------
\* What a velocity depends on besides the noisy actions: the cache contents, the
\* prefix length and mask of the suffix graph, and the positions it is given.
Sources == [kv : SUBSET (Prefixes \cup {Garbage}), n_prefix : Nat,
            mask : Masks, pos : Nat]

\* What the velocities of a call on p must be computed from.
SourceOf(p) == [kv |-> {p}, n_prefix |-> PrefixLen[p],
                mask |-> PrefixMask[p], pos |-> PrefixLen[p]]

GarbageSource == [kv |-> {Garbage}, n_prefix |-> 0, mask |-> NoMask, pos |-> 0]

SuffixSource == [kv |-> {kv[l] : l \in Layers}, n_prefix |-> suffix_session.n_prefix,
                 mask |-> suffix_session.mask, pos |-> suffix_pos]

TypeOK ==
    /\ phase \in {"idle", "called", "ode", "aborted"}
    /\ cur \in Prefixes
    /\ kv \in [Layers -> Prefixes \cup {Garbage}]
    /\ kv_cache_initialized \in BOOLEAN
    /\ cached_prefix_hash \in Nat
    /\ cached_mask \in Masks
    /\ cached_n_prefix \in Nat
    /\ prefix_session \in [init : BOOLEAN, n_prefix : Nat]
    /\ suffix_session \in [init : BOOLEAN, n_prefix : Nat, mask : Masks,
                           graph_allocated : BOOLEAN]
    /\ suffix_pos \in Nat
    /\ sched \in Schedulers
    /\ t \in {2 * i : i \in 0..NumSteps}
    /\ used \subseteq Sources
    /\ result \in {"none", "ok", "failed", "too long", "mismatch", "no buffer"}
    /\ poisoned \in BOOLEAN

\* The constructor: the main session allocates its joint graph, init_kv_cache_gpu
\* allocates the cache tensors without writing them.
Init ==
    /\ phase = "idle"
    /\ cur \in Prefixes
    /\ kv = [l \in Layers |-> Garbage]
    /\ kv_cache_initialized = FALSE
    /\ cached_prefix_hash = 0
    /\ cached_mask = NoMask
    /\ cached_n_prefix = 0
    /\ prefix_session = [init |-> FALSE, n_prefix |-> 0]
    /\ suffix_session = [init |-> FALSE, n_prefix |-> 0, mask |-> NoMask,
                         graph_allocated |-> FALSE]
    /\ suffix_pos = 0
    /\ sched = [is_reset |-> FALSE, is_alloc |-> TRUE, graph |-> "joint"]
    /\ t = 0
    /\ used = {}
    /\ result = "none"
    /\ poisoned = FALSE

-----------------------------------------------------------------------------
\* Pi05::run is called; the images are encoded, the prompt tokenized and both
\* embedded into the prefix p.
Call(p) ==
    /\ phase = "idle"
    /\ phase' = "called"
    /\ cur' = p
    /\ used' = {}
    /\ result' = "none"
    /\ UNCHANGED <<cache, sched, t, poisoned>>

\* The call ends without actions; the runner's state stays as the failure left it.
Fail == phase' = "idle" /\ result' = "failed"

\* Encoding an image or embedding the prefix fails: the runner is not reached.
FrontEndFails ==
    /\ "frontend" \in Faults
    /\ phase = "called"
    /\ Fail
    /\ UNCHANGED <<cur, cache, sched, t, used, poisoned>>

-----------------------------------------------------------------------------
\* Seeded fault: the masked range is left out of the comparison.
HashOnlySameAsLastCall == kv_cache_initialized /\ Hash[cur] = cached_prefix_hash

\* compute_kv_cache's test for "identical to last call".
SameAsLastCall ==
    /\ kv_cache_initialized
    /\ Hash[cur] = cached_prefix_hash
    /\ PrefixMask[cur] = cached_mask

StartOde == phase' = "ode" /\ t' = 2 * NumSteps

\* compute_kv_cache returns early and the Euler loop starts on the cache as it is.
CacheHit ==
    /\ phase = "called"
    /\ SameAsLastCall
    /\ StartOde
    /\ UNCHANGED <<cur, cache, sched, used, result, poisoned>>

\* Seeded fault: only a longer prefix counts as changed.
GrownPrefixChanged == cached_n_prefix > 0 /\ cached_n_prefix < PrefixLen[cur]

\* The prefix length differs from that of the last prefix forward that succeeded.
PrefixChanged == cached_n_prefix > 0 /\ cached_n_prefix # PrefixLen[cur]

\* The prefix session is (re)initialised for the length of cur or kept.
SessionForCall ==
    IF ~prefix_session.init \/ PrefixChanged
      THEN [init |-> TRUE, n_prefix |-> PrefixLen[cur]]
      ELSE prefix_session

\* What compute_kv_cache assigns before the prefix graph runs.
RememberCall ==
    /\ cached_prefix_hash' = Hash[cur]
    /\ cached_mask' = PrefixMask[cur]
    /\ prefix_session' = SessionForCall

\* The assertions on the way to the prefix forward: ggml's on a view that does not
\* fit the cache tensors, and set_input_f32's on the number of elements.
PrefixGraphBuilds == SessionForCall.n_prefix <= MaxSeqLen
PrefixInputFits == SessionForCall.n_prefix = PrefixLen[cur]

\* PrefixCacheSession::run_gpu resets the scheduler and allocates the prefix graph.
SchedForPrefix ==
    SchedGraphCompute(SchedAllocGraph(SchedReset(sched), "prefix"), "prefix")

\* Seeded faults: the suffix session is initialised once and keeps its first length;
\* its rebuild forgets to clear graph_allocated_.
OnceSuffixSession ==
    [init |-> TRUE,
     n_prefix |-> IF suffix_session.init THEN suffix_session.n_prefix ELSE PrefixLen[cur],
     mask |-> PrefixMask[cur],
     graph_allocated |-> FALSE]
TrustingSuffixSession ==
    [init |-> TRUE, n_prefix |-> PrefixLen[cur], mask |-> PrefixMask[cur],
     graph_allocated |-> suffix_session.graph_allocated]

\* The suffix session is (re)initialised or kept, then its graph is rebuilt with the
\* mask of this call and waits for its first run to be allocated.
SuffixSessionForCall ==
    [init |-> TRUE,
     n_prefix |-> IF ~suffix_session.init \/ PrefixChanged
                    THEN PrefixLen[cur] ELSE suffix_session.n_prefix,
     mask |-> PrefixMask[cur],
     graph_allocated |-> FALSE]

\* A miss whose prefix forward succeeds: every layer's cache now holds cur.
CacheMiss ==
    /\ phase = "called"
    /\ ~SameAsLastCall
    /\ PrefixGraphBuilds /\ PrefixInputFits
    /\ RememberCall
    /\ sched' = SchedForPrefix
    /\ kv' = [l \in Layers |-> cur]
    /\ suffix_session' = SuffixSessionForCall
    /\ cached_n_prefix' = PrefixLen[cur]
    /\ suffix_pos' = PrefixLen[cur]
    /\ kv_cache_initialized' = TRUE
    /\ poisoned' = FALSE
    /\ StartOde
    /\ UNCHANGED <<cur, used, result>>

\* A miss whose prefix forward fails after writing the cache of some layers, of the
\* last one perhaps only the keys;
\* compute_kv_cache returns false before the suffix session is touched.
PrefixForwardFails ==
    /\ "prefix" \in Faults
    /\ phase = "called"
    /\ ~SameAsLastCall
    /\ PrefixGraphBuilds /\ PrefixInputFits
    /\ RememberCall
    /\ sched' = SchedForPrefix
    /\ \E written \in 0..NumLayers, half \in BOOLEAN :
         kv' = [l \in Layers |-> CASE l <= written -> cur
                                  [] l = written + 1 /\ half -> Garbage
                                  [] OTHER -> kv[l]]
    /\ poisoned' = TRUE
    /\ Fail
    /\ UNCHANGED <<cur, kv_cache_initialized, cached_n_prefix, suffix_session,
                   suffix_pos, t, used>>

\* An assertion stops the process.
Abort(why) ==
    /\ phase' = "aborted"
    /\ result' = why
    /\ UNCHANGED <<cur, cache, sched, t, used, poisoned>>

\* The prefix does not fit the cache tensors.
PrefixTooLong ==
    /\ phase = "called"
    /\ ~SameAsLastCall
    /\ ~PrefixGraphBuilds
    /\ Abort("too long")

\* The prefix graph's allocation fails; its result is ignored and the inputs are set
\* without a buffer.
PrefixAllocAborts ==
    /\ "alloc" \in Faults
    /\ phase = "called"
    /\ ~SameAsLastCall
    /\ PrefixGraphBuilds
    /\ Abort("no buffer")

\* The session was built for another length than that of the input.
PrefixMismatch ==
    /\ phase = "called"
    /\ ~SameAsLastCall
    /\ PrefixGraphBuilds /\ ~PrefixInputFits
    /\ Abort("mismatch")

-----------------------------------------------------------------------------
\* Seeded fault: the loop bound is t >= dt / 2, one step too many.
LongLoop == phase = "ode" /\ t >= -1

\* The Euler loop runs while t >= -dt / 2.
InLoop == phase = "ode" /\ t >= 1

\* SuffixCacheSession::run_gpu allocates its graph on the first run after a rebuild
\* and otherwise trusts graph_allocated_.
SchedForSuffix ==
    SchedGraphCompute(IF suffix_session.graph_allocated
                        THEN sched
                        ELSE SchedAllocGraph(SchedReset(sched), "suffix"),
                      "suffix")

\* Seeded fault: t is not advanced.
StuckSuffixStep ==
    /\ InLoop
    /\ SchedForSuffix.graph = "suffix"
    /\ used' = used \cup {SuffixSource}
    /\ sched' = SchedForSuffix
    /\ suffix_session' = [suffix_session EXCEPT !.graph_allocated = TRUE]
    /\ UNCHANGED <<phase, cur, kv, kv_cache_initialized, cached_prefix_hash, cached_mask,
                   cached_n_prefix, prefix_session, suffix_pos, t, result, poisoned>>

\* One Euler step: the scheduler runs the suffix graph over the cache.
SuffixStep ==
    /\ InLoop
    /\ SchedForSuffix.graph = "suffix"
    /\ used' = used \cup {SuffixSource}
    /\ t' = t - 2
    /\ sched' = SchedForSuffix
    /\ suffix_session' = [suffix_session EXCEPT !.graph_allocated = TRUE]
    /\ UNCHANGED <<phase, cur, kv, kv_cache_initialized, cached_prefix_hash, cached_mask,
                   cached_n_prefix, prefix_session, suffix_pos, result, poisoned>>

\* One Euler step while the scheduler holds another session's graph: the suffix
\* inputs are written over its memory, that graph runs (the prefix graph writes the
\* cache again, from inputs that may be clobbered), and the velocity is read from
\* memory that this run did not compute.
StrayStep ==
    /\ InLoop
    /\ SchedForSuffix.graph # "suffix"
    /\ kv' \in [Layers -> {cur, Garbage}]
    /\ used' = used \cup {GarbageSource}
    /\ t' = t - 2
    /\ sched' = SchedForSuffix
    /\ suffix_session' = [suffix_session EXCEPT !.graph_allocated = TRUE]
    /\ UNCHANGED <<phase, cur, kv_cache_initialized, cached_prefix_hash, cached_mask,
                   cached_n_prefix, prefix_session, suffix_pos, result, poisoned>>

\* The compute of an Euler step fails: run_with_cache and the sampling return false.
\* The suffix graph writes no cache; another graph may have got part of its way.
SuffixForwardFails ==
    /\ "suffix" \in Faults
    /\ InLoop
    /\ sched' = SchedForSuffix
    /\ kv' \in [Layers -> Prefixes \cup {Garbage}]
    /\ \A l \in Layers :
         kv'[l] = kv[l] \/ (SchedForSuffix.graph # "suffix" /\ kv'[l] \in {cur, Garbage})
    /\ suffix_session' = [suffix_session EXCEPT !.graph_allocated = TRUE]
    /\ Fail
    /\ UNCHANGED <<cur, kv_cache_initialized, cached_prefix_hash, cached_mask,
                   cached_n_prefix, prefix_session, suffix_pos, t, used, poisoned>>

\* The suffix graph's allocation fails, its result is ignored, set_input asserts.
SuffixAllocAborts ==
    /\ "alloc" \in Faults
    /\ InLoop
    /\ ~suffix_session.graph_allocated
    /\ Abort("no buffer")

\* The loop is over: the actions are returned.
Return ==
    /\ phase = "ode" /\ ~InLoop
    /\ phase' = "idle"
    /\ result' = "ok"
    /\ UNCHANGED <<cur, cache, sched, t, used, poisoned>>

-----------------------------------------------------------------------------
\* The steps of a call in which the device does as it is told.
Advance ==
    \/ CacheHit \/ CacheMiss \/ PrefixTooLong \/ PrefixMismatch
    \/ SuffixStep \/ StrayStep \/ Return

Trouble ==
    \/ FrontEndFails \/ PrefixForwardFails \/ PrefixAllocAborts
    \/ SuffixForwardFails \/ SuffixAllocAborts

Next == (\E p \in Prefixes : Call(p)) \/ Advance \/ Trouble

Spec == Init /\ [][Next]_vars

\* A call runs on one thread and waits on nothing but the device, which answers.  No
\* failure is owed.
FairSpec == Spec /\ WF_vars(Advance)

-----------------------------------------------------------------------------
\* Unless the last prefix forward failed, an initialised cache is the cache of one
\* observation throughout: every layer, the remembered hash and mask, the suffix
\* graph's length, mask and positions, and the prefix session's length all belong to
\* the same prefix (compute_kv_cache's bookkeeping against the device tensors).
CacheCoherent ==
    (kv_cache_initialized /\ ~poisoned) =>
        \E p \in Prefixes :
            /\ cached_prefix_hash = Hash[p]
            /\ cached_mask = PrefixMask[p]
            /\ cached_n_prefix = PrefixLen[p]
            /\ prefix_session = [init |-> TRUE, n_prefix |-> PrefixLen[p]]
            /\ SuffixSource = SourceOf(p)

\* While an allocation of the suffix graph is trusted, the shared scheduler still
\* holds the suffix graph, unless a prefix forward failed in between.
AllocationOwned ==
    (suffix_session.graph_allocated /\ ~poisoned) =>
        sched.is_alloc /\ sched.graph = "suffix"

\* Actions returned by a call were integrated from velocities of that call's own
\* observation: its cache, its length, its mask, its positions.  Only an outstanding
\* failed prefix forward is excepted.
ActionsFromOwnObservation ==
    (result = "ok" /\ ~poisoned) => used \subseteq {SourceOf(cur)}

\* The process stops on a length assertion only for a prefix that exceeds the cache,
\* or once a prefix forward has failed.
AbortExplained ==
    result \in {"too long", "mismatch"} => PrefixLen[cur] > MaxSeqLen \/ poisoned

\* The same without the exception for failed prefix forwards: what the comments on
\* compute_kv_cache claim.  "Hash check: skip prefix forward when input is identical
\* to last call" (and the call returns true on success).
SkipOnlyWhenCached == result = "ok" => used \subseteq {SourceOf(cur)}

\* Every call ends: with actions, with an error or with the process.
CallsEnd == (phase \in {"called", "ode"}) ~> (phase \in {"idle", "aborted"})

-----------------------------------------------------------------------------
\* The parts that make the invariants above inductive.  The two sessions agree on the
\* length of the last successful prefix forward, the prefix session unless the last
\* forward failed.
SessionsAgree ==
    /\ suffix_session.init =>
            suffix_session.n_prefix = cached_n_prefix /\ cached_n_prefix > 0
    /\ (prefix_session.init /\ ~poisoned) =>
            prefix_session.n_prefix = cached_n_prefix /\ cached_n_prefix > 0

\* A call in its Euler loop works on its own observation.
CallOnOwnCache ==
    /\ phase \in {"called", "ode"} => result = "none"
    /\ phase = "called" => used = {}
    /\ (phase = "ode" /\ ~poisoned) =>
            SuffixSource = SourceOf(cur) /\ used \subseteq {SourceOf(cur)}

\* The inductive invariant of the runner: what a call may rely on at any point, also
\* after failed prefix and suffix forwards.
RunnerInv ==
    /\ TypeOK
    /\ SessionsAgree
    /\ CallOnOwnCache
    /\ CacheCoherent
    /\ AllocationOwned
    /\ ActionsFromOwnObservation
    /\ AbortExplained

-----------------------------------------------------------------------------
\* The evaluations of a call's own observation so far; -1 as soon as a velocity came
\* from anything else.
OwnEvals ==
    IF phase = "called" \/ used = {} THEN 0
    ELSE IF used = {SourceOf(cur)} THEN NumSteps - t \div 2
    ELSE -1

TooLong == {p \in Prefixes : PrefixLen[p] > MaxSeqLen}

Contract == INSTANCE PolicyContract WITH
    Requests <- Prefixes, Oversized <- TooLong,
    st <- IF phase = "idle" THEN "idle" ELSE IF phase = "aborted" THEN "dead" ELSE "busy",
    req <- cur, evals <- OwnEvals,
    answer <- IF phase = "aborted" THEN "none" ELSE result

\* As long as no prefix forward and no allocation fails, the runner with its prefix
\* cache, its two sessions and their shared scheduler is indistinguishable from a
\* policy without any cache: every answer comes from NumSteps evaluations of the
\* request's own observation, every request ends, and only an oversized prefix stops
\* the process.
ImplementsContract == Contract!ContractSpec
=============================================================================
