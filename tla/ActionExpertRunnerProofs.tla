---------------------- MODULE ActionExpertRunnerProofs ----------------------
(***************************************************************************)
(* Proofs about the action expert runner, for any observations, cache      *)
(* capacity, number of layers and number of steps, and any set of faults.  *)
(***************************************************************************)
EXTENDS ActionExpertRunner, TLAPS

USE PrefixAssumption, SizeAssumption

\* What a velocity is computed from is a source, and so is garbage.
LEMMA SourcesTyped ==
    ASSUME TypeOK
    PROVE  /\ SuffixSource \in Sources
           /\ GarbageSource \in Sources
           /\ SourceOf(cur) \in Sources
<1>1. {kv[l] : l \in Layers} \in SUBSET (Prefixes \cup {Garbage})
  <2>1. \A l \in Layers : kv[l] \in Prefixes \cup {Garbage}
    BY DEF TypeOK
  <2> QED BY <2>1, Zenon
<1>2. SuffixSource \in Sources
  BY <1>1 DEF TypeOK, SuffixSource, Sources
<1>3. GarbageSource \in Sources
  BY DEF GarbageSource, Sources, Masks
<1>4. SourceOf(cur) \in Sources
  BY DEF TypeOK, SourceOf, Sources, Masks
<1> QED BY <1>2, <1>3, <1>4

\* The scheduler's operations yield schedulers.
LEMMA SchedTyped ==
    ASSUME TypeOK
    PROVE  SchedForPrefix \in Schedulers /\ SchedForSuffix \in Schedulers
BY DEF TypeOK, SchedForPrefix, SchedForSuffix, SchedGraphCompute, SchedAllocGraph,
       SchedReset, Schedulers, Graphs

\* An Euler step inside the loop leaves t on its grid.
LEMMA EulerTime ==
    ASSUME t \in {2 * i : i \in 0..NumSteps}, t >= 1
    PROVE  t - 2 \in {2 * i : i \in 0..NumSteps}
<1>1. PICK i \in 0..NumSteps : t = 2 * i
  OBVIOUS
<1>2. i - 1 \in 0..NumSteps /\ t - 2 = 2 * (i - 1)
  BY <1>1
<1> QED BY <1>2

\* The loop starts on the grid.
LEMMA EulerStart == 2 * NumSteps \in {2 * i : i \in 0..NumSteps} /\ 0 \in {2 * i : i \in 0..NumSteps}
<1>1. NumSteps \in 0..NumSteps /\ 0 \in 0..NumSteps /\ 0 = 2 * 0
  OBVIOUS
<1> QED BY <1>1

\* Type correctness is kept by every step.
LEMMA TypeStep == TypeOK /\ [Next]_vars => TypeOK'
<1> SUFFICES ASSUME TypeOK, [Next]_vars PROVE TypeOK'
  OBVIOUS
<1> USE DEF TypeOK
<1>1. ASSUME NEW p \in Prefixes, Call(p) PROVE TypeOK'
  BY <1>1 DEF Call, cache
<1>2. CASE FrontEndFails
  BY <1>2 DEF FrontEndFails, Fail, cache
<1>3. CASE CacheHit
  BY <1>3, EulerStart DEF CacheHit, StartOde, cache
<1>4. SessionForCall \in [init : BOOLEAN, n_prefix : Nat]
  BY DEF SessionForCall
<1>5. CASE CacheMiss
  <2>1. kv' \in [Layers -> Prefixes \cup {Garbage}]
    BY <1>5 DEF CacheMiss
  <2>2. SuffixSessionForCall \in [init : BOOLEAN, n_prefix : Nat, mask : Masks,
                                  graph_allocated : BOOLEAN]
    BY DEF SuffixSessionForCall, Masks
  <2> QED BY <1>4, <1>5, <2>1, <2>2, EulerStart, SchedTyped
          DEF CacheMiss, RememberCall, StartOde, Masks
<1>6. CASE PrefixForwardFails
  <2>1. kv' \in [Layers -> Prefixes \cup {Garbage}]
    BY <1>6 DEF PrefixForwardFails
  <2> QED BY <1>4, <1>6, <2>1, SchedTyped DEF PrefixForwardFails, RememberCall, Fail, Masks
<1>7. CASE PrefixTooLong \/ PrefixAllocAborts \/ PrefixMismatch \/ SuffixAllocAborts
  BY <1>7 DEF PrefixTooLong, PrefixAllocAborts, PrefixMismatch, SuffixAllocAborts, Abort,
              cache
<1>8. CASE SuffixStep
  BY <1>8, EulerTime, SchedTyped, SourcesTyped DEF SuffixStep, InLoop
<1>9. CASE StrayStep
  <2>1. kv' \in [Layers -> Prefixes \cup {Garbage}]
    BY <1>9 DEF StrayStep
  <2> QED BY <1>9, <2>1, EulerTime, SchedTyped, SourcesTyped DEF StrayStep, InLoop
<1>10. CASE SuffixForwardFails
  BY <1>10, SchedTyped DEF SuffixForwardFails, Fail
<1>11. CASE Return
  BY <1>11 DEF Return, cache
<1>12. CASE UNCHANGED vars
  BY <1>12 DEF vars, cache
<1> QED BY <1>1, <1>2, <1>3, <1>5, <1>6, <1>7, <1>8, <1>9, <1>10, <1>11, <1>12
        DEF Next, Advance, Trouble

-----------------------------------------------------------------------------
\* A scheduler that is asked to compute the suffix graph runs it unless another graph
\* is trusted to be allocated.
LEMMA SchedSuffixOwned ==
    ASSUME TypeOK, AllocationOwned, ~poisoned
    PROVE  SchedForSuffix.is_alloc /\ SchedForSuffix.graph = "suffix"
BY DEF TypeOK, AllocationOwned, SchedForSuffix, SchedGraphCompute, SchedAllocGraph,
       SchedReset, Schedulers, Graphs

\* A cache that every layer holds for p is the cache of p alone.
LEMMA WholeCache ==
    ASSUME NEW p PROVE {[k \in Layers |-> p][l] : l \in Layers} = {p}
<1>1. 1 \in Layers
  BY DEF Layers
<1> QED BY <1>1

\* A hit on a healthy cache is a hit on the caller's own observation.
LEMMA HitOnOwn ==
    ASSUME TypeOK, CacheCoherent, ~poisoned, SameAsLastCall
    PROVE  SuffixSource = SourceOf(cur)
<1>1. PICK p \in Prefixes : /\ cached_prefix_hash = Hash[p]
                            /\ cached_mask = PrefixMask[p]
                            /\ SuffixSource = SourceOf(p)
  BY DEF CacheCoherent, SameAsLastCall
<1>2. p = cur
  BY <1>1, HashAssumption DEF TypeOK, SameAsLastCall
<1> QED BY <1>1, <1>2

\* After a successful miss both sessions have the length of the call's prefix,
\* whatever failed before.
LEMMA MissLengths ==
    ASSUME TypeOK, SessionsAgree, PrefixInputFits
    PROVE  /\ SessionForCall = [init |-> TRUE, n_prefix |-> PrefixLen[cur]]
           /\ SuffixSessionForCall.n_prefix = PrefixLen[cur]
<1>1. SessionForCall = [init |-> TRUE, n_prefix |-> PrefixLen[cur]]
  <2>1. CASE ~prefix_session.init \/ PrefixChanged
    BY <2>1 DEF SessionForCall
  <2>2. CASE prefix_session.init /\ ~PrefixChanged
    <3>1. prefix_session = [init |-> prefix_session.init, n_prefix |-> prefix_session.n_prefix]
      BY DEF TypeOK
    <3> QED BY <2>2, <3>1 DEF SessionForCall, PrefixInputFits, TypeOK
  <2> QED BY <2>1, <2>2
<1>2. SuffixSessionForCall.n_prefix = PrefixLen[cur]
  BY DEF SuffixSessionForCall, PrefixChanged, SessionsAgree, TypeOK
<1> QED BY <1>1, <1>2

\* Without a failed forward behind it, a prefix that fits the cache builds and fits its
\* session.
LEMMA HealthyFits ==
    ASSUME TypeOK, SessionsAgree, ~poisoned, PrefixLen[cur] <= MaxSeqLen
    PROVE  PrefixGraphBuilds /\ PrefixInputFits
BY DEF TypeOK, SessionsAgree, PrefixGraphBuilds, PrefixInputFits, SessionForCall,
       PrefixChanged

\* What the velocities depend on changes only with the cache, the suffix session's
\* length and mask, and the positions.
LEMMA SourceKept ==
    ASSUME kv' = kv, suffix_pos' = suffix_pos,
           suffix_session'.n_prefix = suffix_session.n_prefix,
           suffix_session'.mask = suffix_session.mask
    PROVE  SuffixSource' = SuffixSource
BY DEF SuffixSource

\* An assertion that stops the process leaves everything as it was.
LEMMA AbortKeeps ==
    ASSUME RunnerInv, TypeOK', NEW why \in {"too long", "mismatch", "no buffer"}, Abort(why),
           why = "no buffer" \/ PrefixLen[cur] > MaxSeqLen \/ poisoned
    PROVE  RunnerInv'
<1>1. /\ phase' = "aborted" /\ result' = why
      /\ UNCHANGED <<cur, kv, kv_cache_initialized, cached_prefix_hash, cached_mask,
                     cached_n_prefix, prefix_session, suffix_session, suffix_pos, sched,
                     used, poisoned>>
  BY DEF Abort, cache
<1>2. SuffixSource' = SuffixSource
  BY <1>1, SourceKept
<1>3. SessionsAgree' /\ AllocationOwned'
  BY <1>1 DEF RunnerInv, SessionsAgree, AllocationOwned
<1>4. CallOnOwnCache' /\ ActionsFromOwnObservation' /\ AbortExplained'
  BY <1>1 DEF CallOnOwnCache, ActionsFromOwnObservation, AbortExplained
<1>5. CacheCoherent'
  BY <1>1, <1>2 DEF RunnerInv, CacheCoherent
<1> QED BY <1>3, <1>4, <1>5 DEF RunnerInv

\* Every step keeps the inductive invariant.
LEMMA InvStep == RunnerInv /\ [Next]_vars => RunnerInv'
<1> SUFFICES ASSUME RunnerInv, [Next]_vars PROVE RunnerInv'
  OBVIOUS
<1>t. TypeOK /\ TypeOK'
  BY TypeStep DEF RunnerInv
<1> USE DEF RunnerInv
<1>1. ASSUME NEW p \in Prefixes, Call(p) PROVE RunnerInv'
  BY <1>1, <1>t DEF Call, cache, SessionsAgree, CallOnOwnCache, CacheCoherent, AllocationOwned,
     ActionsFromOwnObservation, AbortExplained, SuffixSource
<1>2. CASE FrontEndFails
  BY <1>2, <1>t DEF FrontEndFails, Fail, cache, SessionsAgree, CallOnOwnCache,
     CacheCoherent, AllocationOwned, ActionsFromOwnObservation, AbortExplained, SuffixSource
<1>3. CASE CacheHit
  <2>1. ~poisoned => SuffixSource = SourceOf(cur)
    BY <1>3, <1>t, HitOnOwn DEF CacheHit
  <2>2. SuffixSource' = SuffixSource
    BY <1>3, SourceKept DEF CacheHit, cache
  <2> QED BY <1>3, <1>t, <2>1, <2>2 DEF CacheHit, StartOde, cache, SessionsAgree,
          CallOnOwnCache, CacheCoherent, AllocationOwned, ActionsFromOwnObservation,
          AbortExplained
<1>4. CASE CacheMiss
  <2>1. /\ prefix_session' = [init |-> TRUE, n_prefix |-> PrefixLen[cur]]
        /\ suffix_session' = [init |-> TRUE, n_prefix |-> PrefixLen[cur],
                              mask |-> PrefixMask[cur], graph_allocated |-> FALSE]
    BY <1>4, <1>t, MissLengths DEF CacheMiss, RememberCall, SuffixSessionForCall
  <2>2. SuffixSource' = SourceOf(cur)
    <3>1. {kv'[l] : l \in Layers} = {cur}
      BY <1>4, WholeCache DEF CacheMiss
    <3> QED BY <1>4, <2>1, <3>1 DEF CacheMiss, SuffixSource, SourceOf
  <2>3. SessionsAgree' /\ AllocationOwned'
    <3>1. PrefixLen[cur] \in Nat \ {0} /\ cached_n_prefix' = PrefixLen[cur]
      BY <1>4, <1>t DEF CacheMiss, TypeOK
    <3> QED BY <2>1, <3>1 DEF SessionsAgree, AllocationOwned
  <2>4. CallOnOwnCache' /\ ActionsFromOwnObservation' /\ AbortExplained'
    BY <1>4, <2>2 DEF CacheMiss, StartOde, CallOnOwnCache, ActionsFromOwnObservation,
       AbortExplained, SourceOf
  <2>5. CacheCoherent'
    BY <1>4, <1>t, <2>1, <2>2 DEF CacheMiss, RememberCall, CacheCoherent, SourceOf, TypeOK
  <2> QED BY <1>t, <2>3, <2>4, <2>5
<1>5. CASE PrefixForwardFails
  BY <1>5, <1>t DEF PrefixForwardFails, Fail, SessionsAgree, CallOnOwnCache, CacheCoherent,
     AllocationOwned, ActionsFromOwnObservation, AbortExplained
<1>6. CASE PrefixTooLong \/ PrefixMismatch
  <2>1. PrefixLen[cur] > MaxSeqLen \/ poisoned
    <3>1. ~(PrefixGraphBuilds /\ PrefixInputFits)
      BY <1>6 DEF PrefixTooLong, PrefixMismatch
    <3>2. PrefixLen[cur] \in Nat
      BY <1>t DEF TypeOK
    <3>3. ~(~poisoned /\ PrefixLen[cur] <= MaxSeqLen)
      BY <1>t, <3>1, HealthyFits
    <3> QED BY <3>2, <3>3
  <2> QED BY <1>6, <1>t, <2>1, AbortKeeps DEF PrefixTooLong, PrefixMismatch
<1>7. CASE PrefixAllocAborts \/ SuffixAllocAborts
  BY <1>7, <1>t, AbortKeeps DEF PrefixAllocAborts, SuffixAllocAborts
<1>8. CASE SuffixStep
  <2>1. SuffixSource' = SuffixSource
    BY <1>8, <1>t, SourceKept DEF SuffixStep, TypeOK
  <2>2. SessionsAgree' /\ CacheCoherent'
    BY <1>8, <1>t, <2>1 DEF SuffixStep, SessionsAgree, CacheCoherent, TypeOK
  <2>3. AllocationOwned'
    BY <1>8, <1>t, SchedSuffixOwned DEF SuffixStep, AllocationOwned
  <2>4. CallOnOwnCache' /\ ActionsFromOwnObservation' /\ AbortExplained'
    BY <1>8, <2>1 DEF SuffixStep, InLoop, CallOnOwnCache, ActionsFromOwnObservation,
       AbortExplained, SourceOf
  <2> QED BY <1>t, <2>2, <2>3, <2>4
<1>9. CASE StrayStep
  <2>1. poisoned
    BY <1>9, <1>t, SchedSuffixOwned DEF StrayStep
  <2> QED BY <1>9, <1>t, <2>1 DEF StrayStep, InLoop, SessionsAgree, CallOnOwnCache,
          CacheCoherent, AllocationOwned, ActionsFromOwnObservation, AbortExplained, TypeOK
<1>10. CASE SuffixForwardFails
  <2>1. ~poisoned => kv' = kv
    <3> SUFFICES ASSUME ~poisoned PROVE kv' = kv
      OBVIOUS
    <3>1. \A l \in Layers : kv'[l] = kv[l]
      BY <1>10, <1>t, SchedSuffixOwned DEF SuffixForwardFails
    <3>2. /\ kv \in [Layers -> Prefixes \cup {Garbage}]
          /\ kv' \in [Layers -> Prefixes \cup {Garbage}]
      BY <1>t DEF TypeOK
    <3> QED BY <3>1, <3>2
  <2>2. ~poisoned => SuffixSource' = SuffixSource
    BY <1>10, <1>t, <2>1, SourceKept DEF SuffixForwardFails, TypeOK
  <2>3. AllocationOwned'
    BY <1>10, <1>t, SchedSuffixOwned DEF SuffixForwardFails, AllocationOwned
  <2> QED BY <1>10, <1>t, <2>2, <2>3 DEF SuffixForwardFails, Fail, SessionsAgree,
          CallOnOwnCache, CacheCoherent, ActionsFromOwnObservation, AbortExplained, TypeOK
<1>11. CASE Return
  BY <1>11, <1>t DEF Return, InLoop, cache, SessionsAgree, CallOnOwnCache, CacheCoherent,
     AllocationOwned, ActionsFromOwnObservation, AbortExplained, SuffixSource
<1>12. CASE UNCHANGED vars
  BY <1>12, <1>t DEF vars, cache, SessionsAgree, CallOnOwnCache, CacheCoherent,
     AllocationOwned, ActionsFromOwnObservation, AbortExplained, SuffixSource
<1> QED BY <1>1, <1>2, <1>3, <1>4, <1>5, <1>6, <1>7, <1>8, <1>9, <1>10, <1>11, <1>12
        DEF Next, Advance, Trouble

\* The invariant holds when the runner has been constructed.
LEMMA InvInit == Init => RunnerInv
<1> SUFFICES ASSUME Init PROVE RunnerInv
  OBVIOUS
<1>1. TypeOK
  BY EulerStart DEF Init, TypeOK, Masks, Schedulers, Graphs
<1> QED BY <1>1 DEF Init, RunnerInv, SessionsAgree, CallOnOwnCache, CacheCoherent,
        AllocationOwned, ActionsFromOwnObservation, AbortExplained

\* The runner's bookkeeping always stays within its types and its inductive invariant
\* holds, whatever forwards and allocations fail.
THEOREM RunnerInvariant == Spec => []RunnerInv
BY InvInit, InvStep, PTL DEF Spec

\* Every value of the runner is of its kind; the Euler loop never takes a step too many.
THEOREM RunnerTyped == Spec => []TypeOK
<1>1. RunnerInv => TypeOK
  BY DEF RunnerInv
<1> QED BY <1>1, RunnerInvariant, PTL

\* compute_kv_cache's bookkeeping describes the device tensors: the cache, the hash, the
\* mask, the lengths and the positions belong to one observation unless the last prefix
\* forward failed.
THEOREM CacheIsCoherent == Spec => []CacheCoherent
<1>1. RunnerInv => CacheCoherent
  BY DEF RunnerInv
<1> QED BY <1>1, RunnerInvariant, PTL

\* The suffix session's trust in its allocation of the shared scheduler is justified
\* unless a prefix forward failed in between.
THEOREM AllocationIsOwned == Spec => []AllocationOwned
<1>1. RunnerInv => AllocationOwned
  BY DEF RunnerInv
<1> QED BY <1>1, RunnerInvariant, PTL

\* sample_actions_with_cache answers from the caller's own observation unless the last
\* prefix forward failed: hits, misses, failed Euler steps and retries included.
THEOREM AnswersOwnObservation == Spec => []ActionsFromOwnObservation
<1>1. RunnerInv => ActionsFromOwnObservation
  BY DEF RunnerInv
<1> QED BY <1>1, RunnerInvariant, PTL

\* The length assertions stop the process only for a prefix beyond
\* KV_CACHE_MAX_SEQ_LEN or after a failed prefix forward.
THEOREM AbortsExplained == Spec => []AbortExplained
<1>1. RunnerInv => AbortExplained
  BY DEF RunnerInv
<1> QED BY <1>1, RunnerInvariant, PTL

-----------------------------------------------------------------------------
\* The runner refines the contract.  While no prefix forward fails, and as long as a
\* call has no velocity yet, its Euler loop has not moved.
Healthy == ~poisoned /\ (phase = "ode" /\ used = {} => t = 2 * NumSteps)

LEMMA HealthyStep ==
    ASSUME "prefix" \notin Faults, RunnerInv, Healthy, [Next]_vars
    PROVE  Healthy'
<1> USE DEF Healthy
<1>1. CASE SuffixStep
  BY <1>1 DEF SuffixStep
<1>2. CASE StrayStep
  BY <1>2 DEF StrayStep
<1>3. CASE CacheHit \/ CacheMiss
  BY <1>3 DEF CacheHit, CacheMiss, StartOde
<1>4. CASE PrefixForwardFails
  BY <1>4 DEF PrefixForwardFails
<1>5. ASSUME NEW p \in Prefixes, Call(p) PROVE Healthy'
  BY <1>5 DEF Call
<1>6. CASE FrontEndFails \/ SuffixForwardFails \/ Return
  BY <1>6 DEF FrontEndFails, SuffixForwardFails, Fail, Return
<1>7. CASE PrefixTooLong \/ PrefixMismatch \/ PrefixAllocAborts \/ SuffixAllocAborts
  <2>1. PICK why \in {"too long", "mismatch", "no buffer"} : Abort(why)
    BY <1>7 DEF PrefixTooLong, PrefixMismatch, PrefixAllocAborts, SuffixAllocAborts
  <2> QED BY <2>1 DEF Abort
<1>8. CASE UNCHANGED vars
  BY <1>8 DEF vars
<1> QED BY <1>1, <1>2, <1>3, <1>4, <1>5, <1>6, <1>7, <1>8 DEF Next, Advance, Trouble

\* Every step of the runner is a step of the contract or leaves it alone.
LEMMA ContractStep ==
    ASSUME "prefix" \notin Faults, "alloc" \notin Faults, RunnerInv, RunnerInv', Healthy,
           [Next]_vars
    PROVE  [Contract!ContractNext]_(Contract!cvars)
<1>t. TypeOK /\ TypeOK' /\ CallOnOwnCache
  BY DEF RunnerInv
<1>n. PICK i \in 0..NumSteps : t = 2 * i
  BY <1>t DEF TypeOK
<1>1. ASSUME NEW p \in Prefixes, Call(p) PROVE Contract!Accept(p)
  BY <1>1 DEF Call, Contract!Accept, OwnEvals
<1>2. CASE FrontEndFails
  <2>1. Contract!Refuse
    BY <1>2, <1>t DEF FrontEndFails, Fail, Contract!Refuse, OwnEvals, CallOnOwnCache
  <2> QED BY <2>1 DEF Contract!ContractNext
<1>3. CASE CacheHit \/ CacheMiss
  <2>1. UNCHANGED Contract!cvars
    BY <1>3, <1>t DEF CacheHit, CacheMiss, StartOde, Contract!cvars, OwnEvals, CallOnOwnCache
  <2> QED BY <2>1
<1>4. CASE PrefixTooLong \/ PrefixMismatch
  <2>1. cur \in TooLong
    BY <1>4, <1>t DEF PrefixTooLong, PrefixMismatch, Abort, TooLong, RunnerInv,
       AbortExplained, Healthy, TypeOK
  <2>2. Contract!Die
    BY <1>4, <1>t, <2>1 DEF PrefixTooLong, PrefixMismatch, Abort, Contract!Die, OwnEvals,
       CallOnOwnCache
  <2> QED BY <2>2 DEF Contract!ContractNext, Contract!Work
<1>5. CASE SuffixStep
  <2>1. used' = {SourceOf(cur)} /\ used \subseteq {SourceOf(cur)}
    BY <1>5, <1>t DEF SuffixStep, InLoop, CallOnOwnCache, Healthy
  <2>2. OwnEvals = NumSteps - i
    BY <1>5, <1>n, <2>1 DEF SuffixStep, InLoop, OwnEvals, Healthy
  <2>3. OwnEvals' = NumSteps - (i - 1) /\ i >= 1
    BY <1>5, <1>n, <2>1 DEF SuffixStep, InLoop, OwnEvals
  <2>4. Contract!Evaluate
    BY <1>5, <2>2, <2>3 DEF SuffixStep, InLoop, Contract!Evaluate
  <2> QED BY <2>4 DEF Contract!ContractNext, Contract!Work
<1>6. CASE StrayStep
  BY <1>6, <1>t, SchedSuffixOwned DEF StrayStep, Healthy, RunnerInv
<1>7. CASE SuffixForwardFails
  <2>1. Contract!Refuse
    BY <1>7 DEF SuffixForwardFails, InLoop, Fail, Contract!Refuse, OwnEvals
  <2> QED BY <2>1 DEF Contract!ContractNext
<1>8. CASE Return
  <2>1. i = 0 /\ used \subseteq {SourceOf(cur)}
    BY <1>8, <1>n, <1>t DEF Return, InLoop, CallOnOwnCache, Healthy
  <2>2. OwnEvals = NumSteps
    BY <1>8, <1>n, <2>1 DEF Return, OwnEvals, Healthy
  <2>3. OwnEvals' = OwnEvals
    BY <1>8 DEF Return, OwnEvals
  <2>4. Contract!Answer
    BY <1>8, <2>2, <2>3 DEF Return, Contract!Answer
  <2> QED BY <2>4 DEF Contract!ContractNext, Contract!Work
<1>9. CASE PrefixForwardFails \/ PrefixAllocAborts \/ SuffixAllocAborts
  BY <1>9 DEF PrefixForwardFails, PrefixAllocAborts, SuffixAllocAborts
<1>10. CASE UNCHANGED vars
  BY <1>10 DEF vars, Contract!cvars, OwnEvals
<1> QED BY <1>1, <1>2, <1>3, <1>4, <1>5, <1>6, <1>7, <1>8, <1>9, <1>10
        DEF Next, Advance, Trouble, Contract!ContractNext

\* While no prefix forward and no allocation fails, the cached runner refines the
\* cacheless policy contract: same answers, same failures, and it stops the process
\* only for an oversized prefix.
THEOREM RunnerImplementsContract ==
    ASSUME "prefix" \notin Faults, "alloc" \notin Faults
    PROVE  Spec => Contract!ContractSafety
<1>1. Init => Contract!ContractInit /\ Healthy
  BY DEF Init, Contract!ContractInit, OwnEvals, Healthy
<1>2. RunnerInv /\ Healthy /\ [Next]_vars => Healthy'
  BY HealthyStep
<1>3. RunnerInv /\ RunnerInv' /\ Healthy /\ [Next]_vars =>
          [Contract!ContractNext]_(Contract!cvars)
  BY ContractStep
<1> QED BY <1>1, <1>2, <1>3, RunnerInvariant, PTL DEF Spec, Contract!ContractSafety
=============================================================================
