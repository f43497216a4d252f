---------------------------- MODULE GreedyAlloc ----------------------------
(***************************************************************************)
(* The quantization allocator of tools/hsic (allocate.py; allocate_pi05.py *)
(* repeats it): from the scores of the tensors, a bit budget and the       *)
(* user's base and max types, deduplicate_quant_menu builds the menu and   *)
(* greedy_l2_allocate upgrades tensors through it, driven by a priority    *)
(* queue with lazy deletion.                                               *)
(*                                                                         *)
(* The menu has one type per bits-per-weight level, so a tensor's type is  *)
(* represented by its level.  Bits per weight and noise are scaled to      *)
(* integers; the order of values is decided by cross-multiplication.       *)
(***************************************************************************)
EXTENDS Integers, Functions

CONSTANTS
    QuantTypes,   \* the registry: records [name, pos, bpw, family], pos the
                  \* place in the list, family its preference rank
    NoiseAt,      \* NoiseAt[b]: the noise of a type of b bits per weight
    NumTensors,   \* tensors are numbered in the order of their sorted names
    Layer,        \* Layer[n]: get_layer
    Params,       \* Params[n]: get_n_params
    Scores,       \* scores a tensor may have
    Targets       \* bit budgets a user may ask for

Tensors == 1..NumTensors
LayerIds == {Layer[n] : n \in Tensors}
Levels == {q.bpw : q \in QuantTypes}
TotalParams == SumFunctionOnSet(Params, Tensors)

ASSUME RegistryAssumption ==
    /\ \A q \in QuantTypes : q.bpw \in Nat /\ q.pos \in Nat
    /\ NoiseAt \in [Levels -> Nat]
ASSUME TensorAssumption ==
    /\ NumTensors \in Nat
    /\ Params \in [Tensors -> Nat \ {0}]
    /\ Scores \subseteq Int
    /\ Targets \subseteq Nat

\* The noise is 2^(-2 bpw): it falls with the bits per weight.
ASSUME NoiseAssumption ==
    \A b, c \in Levels : b <= c => NoiseAt[c] <= NoiseAt[b]

\* The sum of the values of the tensors of a layer.
LayerSum(f, l) == SumFunctionOnSet(f, {n \in Tensors : Layer[n] = l})

VARIABLES
    base, max,    \* --base-type and --max-type, as registry entries
    score,        \* the scores loaded
    target_bits,
    pc,           \* "start", "loop", "done", "crashed"
    type,         \* current_type_idx, as a level of the menu
    bits,         \* current_bits
    E,            \* E_l, the weighted error of each layer
    pq,           \* the heap, as a set of entries
    round         \* upgrades performed; with a position it orders like `counter`

args == <<base, max, score, target_bits>>
vars == <<args, pc, type, bits, E, pq, round>>

-----------------------------------------------------------------------------
\* The menu.  allowed_types: the registry between the user's two types.
Allowed == {q \in QuantTypes : base.bpw <= q.bpw /\ q.bpw <= max.bpw}
MenuLevels == {q.bpw : q \in Allowed}

\* Seeded fault: the user's base and max types get no precedence at their level.
UnforcedPick(b) ==
    CHOOSE q \in Allowed :
        /\ q.bpw = b
        /\ \A r \in Allowed :
             r.bpw = b => q.family < r.family \/ (q.family = r.family /\ q.pos <= r.pos)

\* deduplicate_quant_menu at one level: the first of the types to keep if there is
\* one, otherwise the first of the preferred family.
MenuType(b) ==
    LET candidates == {q \in Allowed : q.bpw = b}
        forced == candidates \cap {base, max}
    IN  IF forced # {}
          THEN CHOOSE q \in forced : \A r \in forced : q.pos <= r.pos
          ELSE UnforcedPick(b)

Menu == {MenuType(b) : b \in MenuLevels}

\* sorted_types[idx + 1] for the level of sorted_types[idx].
HasNext(b) == \E c \in MenuLevels : c > b
NextLevel(b) ==
    CHOOSE c \in MenuLevels : c > b /\ \A d \in MenuLevels : d > b => c <= d

-----------------------------------------------------------------------------
\* Seeded fault: negative scores are not clamped.
RawWeight(n) == score[n]
\* weights: negative scores count as 0.
Weight(n) == IF score[n] > 0 THEN score[n] ELSE 0

DeltaBits(n, b) == (NextLevel(b) - b) * Params[n]
DeltaError(n, b) == Weight(n) * (NoiseAt[b] - NoiseAt[NextLevel(b)])

\* What upgrading n from level b takes off the square of its layer's error err.
Improvement(n, b, err) == err * err - (err - DeltaError(n, b)) * (err - DeltaError(n, b))

Entries == [imp : Int, dbits : Nat \ {0}, key : Nat, name : Tensors, from : Levels]

\* push_upgrade: the entries it adds, none when n is at the top of the menu.
PushUpgrade(n, b, err, key) ==
    IF HasNext(b)
      THEN {e \in {[imp |-> Improvement(n, b, err), dbits |-> DeltaBits(n, b),
                    key |-> key, name |-> n, from |-> b]} : e.dbits > 0}
      ELSE {}

\* The order of the heap: highest value first, then the earliest pushed.
Before(e, f) ==
    \/ e.imp * f.dbits > f.imp * e.dbits
    \/ e.imp * f.dbits = f.imp * e.dbits /\ e.key < f.key

IsHead(e) == e \in pq /\ \A f \in pq \ {e} : Before(e, f)

BaseBits == base.bpw * TotalParams
BaseError(l) == LayerSum([n \in Tensors |-> Weight(n) * NoiseAt[base.bpw]], l)

-----------------------------------------------------------------------------
Init ==
    /\ base \in QuantTypes /\ max \in QuantTypes
    /\ score \in [Tensors -> Scores]
    /\ target_bits \in Targets
    /\ pc = "start"
    /\ type = [n \in Tensors |-> base.bpw]
    /\ bits = 0
    /\ E = [l \in LayerIds |-> 0]
    /\ pq = {}
    /\ round = 0

\* The lookup of the base type in the menu raises StopIteration.
BaseMissing ==
    /\ pc = "start" /\ base \notin Menu
    /\ pc' = "crashed"
    /\ UNCHANGED <<args, type, bits, E, pq, round>>

\* All tensors at the base type already use up the budget: return them so.
ReturnBase ==
    /\ pc = "start" /\ base \in Menu
    /\ BaseBits >= target_bits
    /\ pc' = "done"
    /\ bits' = BaseBits
    /\ UNCHANGED <<args, type, E, pq, round>>

\* Otherwise compute the layers' errors and push every tensor's first upgrade.
Start ==
    /\ pc = "start" /\ base \in Menu
    /\ BaseBits < target_bits
    /\ pc' = "loop"
    /\ bits' = BaseBits
    /\ E' = [l \in LayerIds |-> BaseError(l)]
    /\ pq' = UNION {PushUpgrade(n, base.bpw, E'[Layer[n]], n) : n \in Tensors}
    /\ UNCHANGED <<args, type, round>>

\* Seeded fault: the stale entry is looked at and left in the heap.
PeekStale ==
    /\ pc = "loop"
    /\ \E e \in pq : IsHead(e) /\ type[e.name] # e.from
    /\ UNCHANGED vars
\* The entry popped is of an earlier type of its tensor.
SkipStale ==
    /\ pc = "loop"
    /\ \E e \in pq : IsHead(e) /\ type[e.name] # e.from /\ pq' = pq \ {e}
    /\ UNCHANGED <<args, pc, type, bits, E, round>>

\* Seeded fault: the budget is compared before the upgrade is added.
LooseFits(n, b) == bits < target_bits
Fits(n, b) == bits + DeltaBits(n, b) <= target_bits

\* Seeded fault: the first upgrade over budget ends the search.
StopOverBudget ==
    /\ pc = "loop"
    /\ \E e \in pq : IsHead(e) /\ type[e.name] = e.from /\ ~Fits(e.name, e.from)
    /\ pq' = {}
    /\ UNCHANGED <<args, pc, type, bits, E, round>>
\* The upgrade popped does not fit the budget: it is dropped for good.
DropOverBudget ==
    /\ pc = "loop"
    /\ \E e \in pq : /\ IsHead(e) /\ type[e.name] = e.from
                     /\ ~Fits(e.name, e.from)
                     /\ pq' = pq \ {e}
    /\ UNCHANGED <<args, pc, type, bits, E, round>>

\* Seeded fault: the error drops by the noise of the new type, not by the difference.
WrongError(n) == E[Layer[n]] - Weight(n) * NoiseAt[NextLevel(type[n])]
UpgradedError(n) == E[Layer[n]] - DeltaError(n, type[n])

\* Seeded fault: the level is raised by one unit, on the menu or not.
UnitUpgrade(n) == [type EXCEPT ![n] = @ + 1]
UpgradedType(n) == [type EXCEPT ![n] = NextLevel(@)]

\* The place of the next entries in the order of pushes: by rounds, the upgraded tensor
\* first (place 0), then its layer in the order of names.
Key(place) == (round + 1) * (NumTensors + 1) + place

\* Seeded fault: only the upgraded tensor is pushed again.
NoRepush(n, err) == {}
\* The layer's other tensors are pushed again, for the layer's new error.
RepushLayer(n, err) ==
    UNION {PushUpgrade(o, type[o], err, Key(o)) :
             o \in {m \in Tensors \ {n} : Layer[m] = Layer[n]}}

\* The upgrade popped fits: perform it and push the next one of the tensor and those of
\* the rest of its layer.
Upgrade ==
    /\ pc = "loop"
    /\ \E e \in pq :
        LET n == e.name
            err == UpgradedError(n)
        IN  /\ IsHead(e) /\ type[n] = e.from /\ Fits(n, e.from)
            /\ E' = [E EXCEPT ![Layer[n]] = err]
            /\ type' = UpgradedType(n)
            /\ bits' = bits + DeltaBits(n, e.from)
            /\ pq' = (pq \ {e}) \cup PushUpgrade(n, NextLevel(e.from), err, Key(0))
                                \cup RepushLayer(n, err)
    /\ round' = round + 1
    /\ UNCHANGED <<args, pc>>

\* The heap is empty: return the assignment.
Finish ==
    /\ pc = "loop" /\ pq = {}
    /\ pc' = "done"
    /\ UNCHANGED <<args, type, bits, E, pq, round>>

Next ==
    \/ BaseMissing \/ ReturnBase \/ Start
    \/ SkipStale \/ DropOverBudget \/ Upgrade \/ Finish

Spec == Init /\ [][Next]_vars

\* The allocator is one sequential loop: it keeps running.
FairSpec == Spec /\ WF_vars(Next)

-----------------------------------------------------------------------------
\* Every value is of its kind, and every queued upgrade leads somewhere.
TypeOK ==
    /\ base \in QuantTypes /\ max \in QuantTypes
    /\ score \in [Tensors -> Scores]
    /\ target_bits \in Targets
    /\ pc \in {"start", "loop", "done", "crashed"}
    /\ type \in [Tensors -> Levels]
    /\ bits \in Nat
    /\ E \in [LayerIds -> Int]
    /\ pq \subseteq Entries
    /\ \A e \in pq : HasNext(e.from)
    /\ round \in Nat

\* The budget is exceeded only where every tensor is still at the base type: no
\* upgrade, and no sequence of them, overshoots target_bits.
WithinBudget == bits <= target_bits \/ \A n \in Tensors : type[n] = base.bpw

\* The running totals are those of the assignment: current_bits its size, E_l the
\* weighted noise of each layer, after any number of incremental updates.
BooksBalance ==
    pc = "loop" =>
        /\ bits = SumFunctionOnSet([n \in Tensors |-> type[n] * Params[n]], Tensors)
        /\ \A l \in LayerIds :
             E[l] = LayerSum([n \in Tensors |-> Weight(n) * NoiseAt[type[n]]], l)

\* Forcing the user's types onto the menu keeps the lookup of the base type from failing
\* whenever the base type is below the max type, also where a preferred type has the
\* same bits per weight.
BaseOnMenu == pc = "crashed" => base.bpw >= max.bpw

\* Lazy deletion loses nothing: an upgrade that still fits is queued, and queued with
\* the value it has under the current error of its layer.
CandidatesQueued ==
    pc = "loop" =>
        \A n \in Tensors :
            HasNext(type[n]) /\ Fits(n, type[n]) =>
                \E e \in pq : /\ e.name = n /\ e.from = type[n]
                              /\ e.imp = Improvement(n, type[n], E[Layer[n]])

\* Entries that outlived a change of their layer's error only ever overestimate the
\* upgrade: as weights are not negative, E_l never rises.
NeverUnderestimates ==
    \A e \in pq : type[e.name] = e.from =>
        e.imp >= Improvement(e.name, e.from, E[Layer[e.name]])

\* The search ends with an assignment that no further upgrade fits, although upgrades
\* over budget are dropped on the way and never tried again.
MaximalAtEnd ==
    pc = "done" => \A n \in Tensors : HasNext(type[n]) => ~Fits(n, type[n])

\* The allocator returns, or fails on the base type before it starts.
Terminates == <>(pc \in {"done", "crashed"})

\* "At each step, pick the upgrade with highest value = (E_l^2 - E_l_new^2) / delta
\* bits" (greedy_l2_allocate): no other upgrade that fits is worth more per bit than
\* the one performed.
PicksHighestValue ==
    [][\A n, m \in Tensors :
         LET worth(x) == Improvement(x, type[x], E[Layer[x]])
         IN  type'[n] # type[n] /\ HasNext(type[m]) /\ Fits(m, type[m]) =>
               worth(n) * DeltaBits(m, type[m]) >= worth(m) * DeltaBits(n, type[n])]_vars
=============================================================================
