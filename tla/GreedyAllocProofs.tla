-------------------------- MODULE GreedyAllocProofs --------------------------
(***************************************************************************)
(* Proofs about the allocator, for any registry of types, any tensors,     *)
(* layers, scores and budgets.                                             *)
(***************************************************************************)
EXTENDS GreedyAlloc, SumTheorems, TLAPS

USE RegistryAssumption, TensorAssumption

\* The sums over the tensors and over a layer.
LEMMA FiniteTensors ==
    /\ IsFiniteSet(Tensors)
    /\ \A l : IsFiniteSet({n \in Tensors : Layer[n] = l})
<1>1. IsFiniteSet(Tensors)
  BY FS_Interval DEF Tensors
<1> QED BY <1>1, FS_Subset

LEMMA TotalTyped == TotalParams \in Nat
BY FiniteTensors, SumNat DEF TotalParams

\* Above a level that is not the top one, the next level is on the menu.
LEMMA NextLevelAbove ==
    ASSUME NEW b \in Nat, HasNext(b)
    PROVE  NextLevel(b) \in MenuLevels /\ NextLevel(b) > b
<1> DEFINE T == {c \in MenuLevels : c > b}
<1>1. MenuLevels \subseteq Nat
  BY DEF MenuLevels, Allowed
<1>2. T \in SUBSET Nat /\ T # {}
  BY <1>1 DEF HasNext
<1>3. PICK c \in T : \A d \in T : c <= d
  BY <1>2, LeastNatural
<1>4. c \in MenuLevels /\ c > b /\ \A d \in MenuLevels : d > b => c <= d
  BY <1>3
<1> HIDE DEF T
<1> QED BY <1>4 DEF NextLevel

\* Products of naturals.
LEMMA Products ==
    ASSUME NEW x \in Nat, NEW y \in Nat
    PROVE  x * y \in Nat /\ (x > 0 /\ y > 0 => x * y > 0)
OBVIOUS

\* An upgrade costs bits.
LEMMA DeltaBitsPositive ==
    ASSUME NEW n \in Tensors, NEW b \in Nat, HasNext(b)
    PROVE  DeltaBits(n, b) \in Nat \ {0}
<1>1. NextLevel(b) \in Nat /\ NextLevel(b) > b
  BY NextLevelAbove DEF MenuLevels, Allowed
<1>2. NextLevel(b) - b \in Nat /\ NextLevel(b) - b > 0 /\ Params[n] \in Nat /\ Params[n] > 0
  BY <1>1
<1> QED BY <1>2, Products DEF DeltaBits

\* Errors, improvements and pushed entries are of their kinds.
LEMMA ErrorsTyped ==
    ASSUME NEW n \in Tensors, NEW b \in Levels, HasNext(b), score \in [Tensors -> Scores],
           NEW err \in Int
    PROVE  DeltaError(n, b) \in Int /\ Improvement(n, b, err) \in Int
<1>1. Weight(n) \in Int
  <2>1. score[n] \in Scores
    OBVIOUS
  <2>2. score[n] \in Int
    BY <2>1
  <2> QED BY <2>2 DEF Weight
<1>2. b \in Nat /\ NextLevel(b) \in Levels
  BY NextLevelAbove DEF Levels, MenuLevels, Allowed
<1>3. NoiseAt[b] \in Nat /\ NoiseAt[NextLevel(b)] \in Nat
  BY <1>2
<1>4. DeltaError(n, b) \in Int
  BY <1>1, <1>3 DEF DeltaError
<1> QED BY <1>4 DEF Improvement

LEMMA PushTyped ==
    ASSUME NEW n \in Tensors, NEW b \in Levels, score \in [Tensors -> Scores],
           NEW err \in Int, NEW key \in Nat
    PROVE  /\ PushUpgrade(n, b, err, key) \subseteq Entries
           /\ \A e \in PushUpgrade(n, b, err, key) : HasNext(e.from) /\ e.name = n
           /\ HasNext(b) => \E e \in PushUpgrade(n, b, err, key) :
                  e.name = n /\ e.from = b /\ e.imp = Improvement(n, b, err)
<1>1. CASE HasNext(b)
  <2> DEFINE new == [imp |-> Improvement(n, b, err), dbits |-> DeltaBits(n, b),
                     key |-> key, name |-> n, from |-> b]
  <2>1. b \in Nat /\ DeltaBits(n, b) \in Nat \ {0}
    BY <1>1, DeltaBitsPositive DEF Levels
  <2>2. new \in Entries
    BY <1>1, <2>1, ErrorsTyped DEF Entries
  <2>3. PushUpgrade(n, b, err, key) = {new}
    BY <1>1, <2>1 DEF PushUpgrade
  <2> QED BY <1>1, <2>2, <2>3
<1>2. CASE ~HasNext(b)
  BY <1>2 DEF PushUpgrade
<1> QED BY <1>1, <1>2

\* Weights are naturals, and so are the layers' errors at the start.
LEMMA WeightTyped ==
    ASSUME score \in [Tensors -> Scores], NEW n \in Tensors
    PROVE  Weight(n) \in Nat
<1>1. score[n] \in Scores
  OBVIOUS
<1>2. score[n] \in Int
  BY <1>1
<1> QED BY <1>2 DEF Weight

LEMMA BaseErrorTyped ==
    ASSUME score \in [Tensors -> Scores], base \in QuantTypes, NEW l \in LayerIds
    PROVE  BaseError(l) \in Int
<1> DEFINE f == [n \in Tensors |-> Weight(n) * NoiseAt[base.bpw]]
           S == {n \in Tensors : Layer[n] = l}
<1>1. NoiseAt[base.bpw] \in Nat
  BY DEF Levels
<1>2. \A n \in S : f[n] \in Nat
  BY <1>1, WeightTyped, Products
<1>3. IsFiniteSet(S)
  BY FiniteTensors
<1> HIDE DEF f, S
<1>4. SumFunctionOnSet(f, S) \in Nat
  BY <1>2, <1>3, SumNat
<1> QED BY <1>4 DEF BaseError, LayerSum, f, S

\* The arguments fix the menu and with it the upgrades.
LEMMA ArgsFixMenu ==
    ASSUME args' = args
    PROVE  /\ MenuLevels' = MenuLevels
           /\ \A b : HasNext(b)' <=> HasNext(b)
           /\ \A b : NextLevel(b)' = NextLevel(b)
           /\ \A n, b : DeltaBits(n, b)' = DeltaBits(n, b)
           /\ \A n, b : DeltaError(n, b)' = DeltaError(n, b)
           /\ \A n, b, x : Improvement(n, b, x)' = Improvement(n, b, x)
<1>1. MenuLevels' = MenuLevels
  BY DEF args, MenuLevels, Allowed
<1>2. \A b : HasNext(b)' <=> HasNext(b)
  BY <1>1 DEF HasNext
<1>3. \A b : NextLevel(b)' = NextLevel(b)
  BY <1>1 DEF NextLevel
<1>4. \A n, b : DeltaBits(n, b)' = DeltaBits(n, b)
  BY <1>3 DEF DeltaBits
<1>5. \A n, b : DeltaError(n, b)' = DeltaError(n, b)
  BY <1>3 DEF DeltaError, Weight, args
<1>6. \A n, b, x : Improvement(n, b, x)' = Improvement(n, b, x)
  BY <1>5 DEF Improvement
<1> QED BY <1>1, <1>2, <1>3, <1>4, <1>5, <1>6

-----------------------------------------------------------------------------
\* The inductive invariant: types, the budget, and a heap that still holds every
\* upgrade that fits, at its current value.
AtBase == pc = "start" => \A n \in Tensors : type[n] = base.bpw
AllocInv == TypeOK /\ AtBase /\ WithinBudget /\ CandidatesQueued /\ MaximalAtEnd

LEMMA AllocInit == Init => AllocInv
<1> SUFFICES ASSUME Init PROVE AllocInv
  OBVIOUS
<1>1. base.bpw \in Levels
  BY DEF Init, Levels
<1>2. TypeOK
  BY <1>1 DEF Init, TypeOK
<1>3. bits <= target_bits
  BY DEF Init
<1> QED BY <1>2, <1>3 DEF AllocInv, AtBase, WithinBudget, CandidatesQueued, MaximalAtEnd, Init

\* The start of the loop.
LEMMA StartStep == AllocInv /\ Start => AllocInv'
<1> SUFFICES ASSUME AllocInv, Start PROVE AllocInv'
  OBVIOUS
<1> USE DEF AllocInv
<1>1. /\ UNCHANGED <<base, max, score, target_bits, type, round>>
      /\ pc' = "loop" /\ bits' = BaseBits /\ BaseBits < target_bits
      /\ E' = [l \in LayerIds |-> BaseError(l)]
      /\ pq' = UNION {PushUpgrade(n, base.bpw, E'[Layer[n]], n) : n \in Tensors}
  BY DEF Start, args
<1>2. base.bpw \in Levels /\ base.bpw \in Nat
  BY DEF TypeOK, Levels
<1>3. E' \in [LayerIds -> Int]
  BY <1>1, BaseErrorTyped DEF TypeOK
<1>4. BaseBits \in Nat
  BY <1>2, TotalTyped, Products DEF BaseBits
<1>5. ASSUME NEW n \in Tensors PROVE n \in Nat /\ Layer[n] \in LayerIds /\ E'[Layer[n]] \in Int
  BY <1>3 DEF Tensors, LayerIds
<1>6. pq' \subseteq Entries /\ \A e \in pq' : HasNext(e.from)
  <2> SUFFICES ASSUME NEW e \in pq' PROVE e \in Entries /\ HasNext(e.from)
    OBVIOUS
  <2>1. PICK n \in Tensors : e \in PushUpgrade(n, base.bpw, E'[Layer[n]], n)
    BY <1>1
  <2> QED BY <1>2, <1>5, <2>1, PushTyped DEF TypeOK
<1>7. args' = args
  BY <1>1 DEF args
<1>8. TypeOK'
  BY <1>1, <1>3, <1>4, <1>6, <1>7, ArgsFixMenu DEF TypeOK
<1>9. WithinBudget'
  BY <1>1, <1>4 DEF WithinBudget, TypeOK
<1>10. ASSUME NEW n \in Tensors, HasNext(base.bpw)
       PROVE \E e \in pq' : /\ e.name = n /\ e.from = base.bpw
                             /\ e.imp = Improvement(n, base.bpw, E'[Layer[n]])
  <2> DEFINE err == E'[Layer[n]]
  <2>1. err \in Int /\ n \in Nat /\ score \in [Tensors -> Scores]
    BY <1>5 DEF TypeOK
  <2>2. PushUpgrade(n, base.bpw, err, n) \subseteq pq'
    BY <1>1
  <2> HIDE DEF err
  <2>3. \E e \in PushUpgrade(n, base.bpw, err, n) :
            /\ e.name = n /\ e.from = base.bpw
            /\ e.imp = Improvement(n, base.bpw, err)
    BY <1>2, <1>10, <2>1, PushTyped
  <2>4. \E e \in pq' : /\ e.name = n /\ e.from = base.bpw
                        /\ e.imp = Improvement(n, base.bpw, err)
    BY <2>2, <2>3
  <2> QED BY <2>4 DEF err
<1>11. CandidatesQueued'
  <2> SUFFICES ASSUME NEW n \in Tensors, HasNext(type[n])'
               PROVE  \E e \in pq' : /\ e.name = n /\ e.from = type'[n]
                                      /\ e.imp = Improvement(n, type[n], E[Layer[n]])'
    BY DEF CandidatesQueued
  <2>1. type'[n] = base.bpw /\ HasNext(base.bpw)
    BY <1>1, <1>7, ArgsFixMenu DEF AtBase, Start
  <2>2. Improvement(n, type[n], E[Layer[n]])' = Improvement(n, base.bpw, E'[Layer[n]])
    BY <1>7, <2>1, ArgsFixMenu
  <2> QED BY <1>10, <2>1, <2>2
<1> QED BY <1>1, <1>8, <1>9, <1>11 DEF AtBase, MaximalAtEnd

\* Steps that only take one useless entry from the heap.
LEMMA DropStep ==
    ASSUME AllocInv, pc = "loop", NEW e \in pq, pq' = pq \ {e},
           UNCHANGED <<args, pc, type, bits, E, round>>,
           type[e.name] # e.from \/ ~Fits(e.name, e.from)
    PROVE  AllocInv'
<1> USE DEF AllocInv
<1>1. UNCHANGED <<base, max, score, target_bits>>
  BY DEF args
<1>2. TypeOK'
  BY <1>1, ArgsFixMenu DEF TypeOK
<1>3. AtBase' /\ WithinBudget' /\ MaximalAtEnd'
  BY <1>1 DEF AtBase, WithinBudget, MaximalAtEnd
<1>4. CandidatesQueued'
  <2> SUFFICES ASSUME NEW n \in Tensors, HasNext(type[n])', Fits(n, type[n])'
               PROVE  \E f \in pq' : /\ f.name = n /\ f.from = type'[n]
                                      /\ f.imp = Improvement(n, type[n], E[Layer[n]])'
    BY DEF CandidatesQueued
  <2>1. HasNext(type[n]) /\ Fits(n, type[n])
    BY <1>1, ArgsFixMenu DEF Fits
  <2>2. PICK f \in pq : /\ f.name = n /\ f.from = type[n]
                        /\ f.imp = Improvement(n, type[n], E[Layer[n]])
    BY <2>1 DEF CandidatesQueued
  <2>3. f # e
    BY <2>1, <2>2
  <2>4. Improvement(n, type[n], E[Layer[n]])' = Improvement(n, type[n], E[Layer[n]])
    BY ArgsFixMenu
  <2> QED BY <2>2, <2>3, <2>4
<1> QED BY <1>2, <1>3, <1>4

\* An upgrade: the heap gets the new values of its layer, the other layers keep theirs,
\* and what fits afterwards fitted before.
LEMMA UpgradeStep ==
    ASSUME AllocInv, pc = "loop", UNCHANGED <<args, pc>>, round' = round + 1, NEW e \in pq,
           type[e.name] = e.from, Fits(e.name, e.from),
           E' = [E EXCEPT ![Layer[e.name]] = UpgradedError(e.name)],
           type' = UpgradedType(e.name),
           bits' = bits + DeltaBits(e.name, e.from),
           pq' = (pq \ {e})
                   \cup PushUpgrade(e.name, NextLevel(e.from), UpgradedError(e.name), Key(0))
                   \cup RepushLayer(e.name, UpgradedError(e.name))
    PROVE  AllocInv'
<1> DEFINE n == e.name
           b == e.from
           err == UpgradedError(n)
<1> USE DEF AllocInv
<1>1. /\ UNCHANGED <<base, max, score, target_bits>>
      /\ score \in [Tensors -> Scores]
  BY DEF args, TypeOK
<1>2. /\ n \in Tensors /\ b \in Levels /\ b \in Nat /\ HasNext(b) /\ b = type[n]
      /\ Layer[n] \in LayerIds /\ E[Layer[n]] \in Int /\ bits \in Nat /\ target_bits \in Nat
  <2>1. e \in Entries
    BY DEF TypeOK
  <2>2. n \in Tensors /\ b \in Levels
    BY <2>1 DEF Entries
  <2> QED BY <2>2 DEF TypeOK, Levels, LayerIds
<1>3. NextLevel(b) \in Levels /\ DeltaBits(n, b) \in Nat \ {0}
  BY <1>2, NextLevelAbove, DeltaBitsPositive DEF MenuLevels, Allowed, Levels
<1>4. err \in Int
  BY <1>1, <1>2, ErrorsTyped DEF UpgradedError
<1>5. \A o \in Tensors \cup {0} : Key(o) \in Nat
  <2>1. round + 1 \in Nat /\ NumTensors + 1 \in Nat
    BY DEF TypeOK
  <2>2. (round + 1) * (NumTensors + 1) \in Nat
    BY <2>1, Products
  <2> QED BY <2>2 DEF Key, Tensors
<1>6. bits' \in Nat /\ bits' > bits /\ bits' <= target_bits
  BY <1>2, <1>3 DEF Fits
<1>7. type' = [type EXCEPT ![n] = NextLevel(b)] /\ type' \in [Tensors -> Levels]
  BY <1>2, <1>3 DEF UpgradedType, TypeOK
<1>8. E' \in [LayerIds -> Int]
  BY <1>2, <1>4 DEF TypeOK
<1> HIDE DEF n, b, err
<1>9. \A f \in RepushLayer(n, err) : f \in Entries /\ HasNext(f.from)
  <2> SUFFICES ASSUME NEW f \in RepushLayer(n, err) PROVE f \in Entries /\ HasNext(f.from)
    OBVIOUS
  <2>1. PICK o \in Tensors : f \in PushUpgrade(o, type[o], err, Key(o))
    BY DEF RepushLayer
  <2>2. type[o] \in Levels /\ Key(o) \in Nat
    BY <1>5 DEF TypeOK
  <2> QED BY <1>1, <1>4, <2>1, <2>2, PushTyped
<1>10. \A f \in PushUpgrade(n, NextLevel(b), err, Key(0)) : f \in Entries /\ HasNext(f.from)
  BY <1>1, <1>2, <1>3, <1>4, <1>5, PushTyped
<1>11. pq' = (pq \ {e}) \cup PushUpgrade(n, NextLevel(b), err, Key(0)) \cup RepushLayer(n, err)
  BY DEF n, b, err
<1>12. pq' \subseteq Entries /\ \A f \in pq' : HasNext(f.from)
  BY <1>9, <1>10, <1>11 DEF TypeOK
<1>13. TypeOK'
  BY <1>1, <1>6, <1>7, <1>8, <1>12, ArgsFixMenu DEF TypeOK
<1>14. AtBase' /\ WithinBudget' /\ MaximalAtEnd'
  BY <1>1, <1>6 DEF AtBase, WithinBudget, MaximalAtEnd
<1>15. CandidatesQueued'
  <2> SUFFICES ASSUME NEW m \in Tensors, HasNext(type[m])', Fits(m, type[m])'
               PROVE  \E f \in pq' : /\ f.name = m /\ f.from = type'[m]
                                      /\ f.imp = Improvement(m, type[m], E[Layer[m]])'
    BY DEF CandidatesQueued
  <2>1. /\ HasNext(type'[m])
        /\ Improvement(m, type[m], E[Layer[m]])' = Improvement(m, type'[m], E'[Layer[m]])
    BY ArgsFixMenu
  <2>2. CASE m = n
    <3>1. type'[m] = NextLevel(b) /\ E'[Layer[m]] = err
      BY <1>2, <1>7, <2>2 DEF TypeOK, n, err
    <3>2. Key(0) \in Nat /\ HasNext(NextLevel(b))
      BY <1>5, <2>1, <3>1
    <3>3. \E f \in PushUpgrade(n, NextLevel(b), err, Key(0)) :
            f.name = n /\ f.from = NextLevel(b) /\ f.imp = Improvement(n, NextLevel(b), err)
      <4> DEFINE nl == NextLevel(b)
                 k == Key(0)
      <4>1. nl \in Levels /\ HasNext(nl) /\ k \in Nat
        BY <1>3, <3>2
      <4> HIDE DEF nl, k
      <4>2. \E f \in PushUpgrade(n, nl, err, k) :
              f.name = n /\ f.from = nl /\ f.imp = Improvement(n, nl, err)
        BY <1>1, <1>2, <1>4, <4>1, PushTyped
      <4> QED BY <4>2 DEF nl, k
    <3> QED BY <1>11, <2>1, <2>2, <3>1, <3>3
  <2>3. CASE m # n /\ Layer[m] = Layer[n]
    <3>1. type'[m] = type[m] /\ type[m] \in Levels /\ E'[Layer[m]] = err
      BY <1>2, <1>7, <2>3 DEF TypeOK, n, err
    <3>2. \E f \in PushUpgrade(m, type[m], err, Key(m)) :
            f.name = m /\ f.from = type[m] /\ f.imp = Improvement(m, type[m], err)
      BY <1>1, <1>4, <1>5, <2>1, <3>1, PushTyped
    <3>3. PushUpgrade(m, type[m], err, Key(m)) \subseteq RepushLayer(n, err)
      BY <2>3 DEF RepushLayer
    <3> QED BY <1>11, <2>1, <3>1, <3>2, <3>3
  <2>4. CASE m # n /\ Layer[m] # Layer[n]
    <3>1. type'[m] = type[m] /\ E'[Layer[m]] = E[Layer[m]]
      BY <1>2, <1>7, <2>4 DEF TypeOK, n, LayerIds
    <3>2. type[m] \in Nat /\ DeltaBits(m, type[m]) \in Nat
      BY <2>1, <3>1, DeltaBitsPositive DEF TypeOK, Levels
    <3>3. bits' + DeltaBits(m, type[m]) <= target_bits
      BY <1>1, <3>1, ArgsFixMenu DEF Fits
    <3>4. Fits(m, type[m])
      BY <1>2, <1>6, <3>2, <3>3 DEF Fits
    <3>5. PICK f \in pq : /\ f.name = m /\ f.from = type[m]
                          /\ f.imp = Improvement(m, type[m], E[Layer[m]])
      BY <2>1, <3>1, <3>4 DEF CandidatesQueued
    <3>6. f \in pq'
      BY <1>11, <2>4, <3>5 DEF n
    <3> QED BY <2>1, <3>1, <3>5, <3>6
  <2> QED BY <2>2, <2>3, <2>4
<1> QED BY <1>13, <1>14, <1>15

\* Every step of the allocator keeps the invariant.
LEMMA AllocStep == AllocInv /\ [Next]_vars => AllocInv'
<1> SUFFICES ASSUME AllocInv, [Next]_vars PROVE AllocInv'
  OBVIOUS
<1>1. CASE BaseMissing
  <2>1. UNCHANGED <<base, max, score, target_bits>> /\ args' = args
    BY <1>1 DEF BaseMissing, args
  <2>2. TypeOK'
    BY <1>1, <2>1, ArgsFixMenu DEF BaseMissing, AllocInv, TypeOK
  <2> QED BY <1>1, <2>1, <2>2 DEF BaseMissing, AllocInv, AtBase, WithinBudget,
          CandidatesQueued, MaximalAtEnd
<1>2. CASE ReturnBase
  <2>1. UNCHANGED <<base, max, score, target_bits>> /\ args' = args
    BY <1>2 DEF ReturnBase, args
  <2>2. bits' \in Nat /\ bits' >= target_bits
    <3>1. base.bpw \in Nat
      BY DEF AllocInv, TypeOK
    <3> QED BY <1>2, <3>1, TotalTyped, Products DEF ReturnBase, BaseBits
  <2>3. TypeOK'
    BY <1>2, <2>1, <2>2, ArgsFixMenu DEF ReturnBase, AllocInv, TypeOK
  <2>4. MaximalAtEnd'
    <3> SUFFICES ASSUME NEW n \in Tensors, HasNext(type[n])', Fits(n, type[n])'
                 PROVE  FALSE
      BY DEF MaximalAtEnd
    <3>1. type[n] \in Nat /\ HasNext(type[n]) /\ type' = type
      BY <1>2, <2>1, ArgsFixMenu DEF ReturnBase, AllocInv, TypeOK, Levels
    <3>2. DeltaBits(n, type[n]) \in Nat \ {0}
      BY <3>1, DeltaBitsPositive
    <3>3. bits' + DeltaBits(n, type[n]) <= target_bits
      BY <2>1, <3>1, ArgsFixMenu DEF Fits
    <3>4. target_bits \in Nat
      BY DEF AllocInv, TypeOK
    <3> QED BY <2>2, <3>2, <3>3, <3>4
  <2> QED BY <1>2, <2>1, <2>3, <2>4 DEF ReturnBase, AllocInv, AtBase, WithinBudget,
          CandidatesQueued
<1>3. CASE Start
  BY <1>3, StartStep
<1>4. CASE SkipStale
  BY <1>4, DropStep DEF SkipStale
<1>5. CASE DropOverBudget
  BY <1>5, DropStep DEF DropOverBudget
<1>6. CASE Upgrade
  BY <1>6, UpgradeStep DEF Upgrade
<1>7. CASE Finish
  <2>1. UNCHANGED <<base, max, score, target_bits>> /\ args' = args
    BY <1>7 DEF Finish, args
  <2>2. TypeOK'
    BY <1>7, <2>1, ArgsFixMenu DEF Finish, AllocInv, TypeOK
  <2>3. MaximalAtEnd'
    <3>1. \A n \in Tensors : HasNext(type[n]) => ~Fits(n, type[n])
      BY <1>7 DEF Finish, AllocInv, CandidatesQueued
    <3> QED BY <1>7, <2>1, <3>1, ArgsFixMenu DEF Finish, MaximalAtEnd, Fits
  <2> QED BY <1>7, <2>1, <2>2, <2>3 DEF Finish, AllocInv, AtBase, WithinBudget,
          CandidatesQueued
<1>8. CASE UNCHANGED vars
  <2>1. args' = args /\ UNCHANGED <<base, max, score, target_bits, pc, type, bits, E, pq, round>>
    BY <1>8 DEF vars, args
  <2>2. TypeOK'
    BY <2>1, ArgsFixMenu DEF AllocInv, TypeOK
  <2>3. AtBase' /\ WithinBudget'
    BY <2>1 DEF AllocInv, AtBase, WithinBudget
  <2>4. CandidatesQueued' /\ MaximalAtEnd'
    BY <2>1, ArgsFixMenu DEF AllocInv, CandidatesQueued, MaximalAtEnd, Fits
  <2> QED BY <2>2, <2>3, <2>4 DEF AllocInv
<1> QED BY <1>1, <1>2, <1>3, <1>4, <1>5, <1>6, <1>7, <1>8 DEF Next

\* The allocator keeps its invariant.
THEOREM AllocInvariant == Spec => []AllocInv
BY AllocInit, AllocStep, PTL DEF Spec

\* Every value of the allocator is of its kind, and every queued upgrade leads to a
\* level of the menu.
THEOREM AllocTypes == Spec => []TypeOK
<1>1. AllocInv => TypeOK
  BY DEF AllocInv
<1> QED BY <1>1, AllocInvariant, PTL

\* greedy_l2_allocate never upgrades past target_bits.
THEOREM BudgetKept == Spec => []WithinBudget
<1>1. AllocInv => WithinBudget
  BY DEF AllocInv
<1> QED BY <1>1, AllocInvariant, PTL

\* The lazily deleted heap always holds each upgrade that fits, with the value it has
\* under the current error of its layer.
THEOREM HeapComplete == Spec => []CandidatesQueued
<1>1. AllocInv => CandidatesQueued
  BY DEF AllocInv
<1> QED BY <1>1, AllocInvariant, PTL

\* greedy_l2_allocate returns an assignment that no further upgrade fits.
THEOREM ResultMaximal == Spec => []MaximalAtEnd
<1>1. AllocInv => MaximalAtEnd
  BY DEF AllocInv
<1> QED BY <1>1, AllocInvariant, PTL

-----------------------------------------------------------------------------
(* The running totals.                                                     *)

\* What a tensor adds to the size, and to the error of its layer.
Size == [n \in Tensors |-> type[n] * Params[n]]
Noise == [n \in Tensors |-> Weight(n) * NoiseAt[type[n]]]

LEMMA TermsTyped ==
    ASSUME TypeOK, NEW n \in Tensors
    PROVE  /\ Size[n] = type[n] * Params[n] /\ Size[n] \in Int
           /\ Noise[n] = Weight(n) * NoiseAt[type[n]] /\ Noise[n] \in Int
<1>1. type[n] \in Levels /\ type[n] \in Nat
  BY DEF TypeOK, Levels
<1>2. NoiseAt[type[n]] \in Nat /\ Params[n] \in Nat /\ Weight(n) \in Nat
  BY <1>1, WeightTyped DEF TypeOK
<1> QED BY <1>1, <1>2 DEF Size, Noise

LEMMA BooksStart == AllocInv /\ Start => BooksBalance'
<1> SUFFICES ASSUME AllocInv, Start PROVE BooksBalance'
  OBVIOUS
<1>1. /\ UNCHANGED <<base, score, type>> /\ pc = "start" /\ pc' = "loop" /\ bits' = BaseBits
      /\ E' = [l \in LayerIds |-> BaseError(l)]
  BY DEF Start, args
<1>2. TypeOK /\ base.bpw \in Nat /\ \A n \in Tensors : type[n] = base.bpw
  BY <1>1 DEF AllocInv, AtBase, TypeOK
<1>3. bits' = SumFunctionOnSet(Size, Tensors)
  <2>1. \A n \in Tensors : Params[n] \in Int /\ Size[n] = base.bpw * Params[n]
    BY <1>2, TermsTyped
  <2>2. base.bpw \in Int
    BY <1>2
  <2>3. SumFunctionOnSet(Size, Tensors) = base.bpw * SumFunctionOnSet(Params, Tensors)
    BY <2>1, <2>2, FiniteTensors, SumScale
  <2> QED BY <1>1, <2>3 DEF BaseBits, TotalParams
<1>4. [n \in Tensors |-> Weight(n) * NoiseAt[base.bpw]] = Noise
  BY <1>2 DEF Noise
<1>5. ASSUME NEW l \in LayerIds PROVE E'[l] = LayerSum(Noise, l)
  BY <1>1, <1>4 DEF BaseError
<1>6. Size' = Size /\ Noise' = Noise
  BY <1>1 DEF Size, Noise, Weight
<1>7. Size' = [n \in Tensors |-> type[n] * Params[n]]'
        /\ Noise' = [n \in Tensors |-> Weight(n) * NoiseAt[type[n]]]'
  BY DEF Size, Noise
<1>8. bits' = SumFunctionOnSet([n \in Tensors |-> type[n] * Params[n]]', Tensors)
  BY <1>3, <1>6, <1>7
<1>9. ASSUME NEW l \in LayerIds
      PROVE  E'[l] = SumFunctionOnSet([n \in Tensors |-> Weight(n) * NoiseAt[type[n]]]',
                                      {n \in Tensors : Layer[n] = l})
  <2> DEFINE F == [n \in Tensors |-> Weight(n) * NoiseAt[type[n]]]'
             S == {n \in Tensors : Layer[n] = l}
  <2>1. Noise = F
    BY <1>6, <1>7
  <2>2. E'[l] = SumFunctionOnSet(Noise, S)
    BY <1>5 DEF LayerSum
  <2> HIDE DEF F, S
  <2>3. E'[l] = SumFunctionOnSet(F, S)
    BY <2>1, <2>2
  <2> QED BY <2>3 DEF F, S
<1> QED BY <1>8, <1>9 DEF BooksBalance, LayerSum

\* An upgrade changes one term of each sum, by what the totals change.
LEMMA BooksUpgrade ==
    ASSUME AllocInv, BooksBalance, pc = "loop", UNCHANGED <<args, pc>>, NEW e \in pq,
           type[e.name] = e.from,
           E' = [E EXCEPT ![Layer[e.name]] = UpgradedError(e.name)],
           type' = UpgradedType(e.name),
           bits' = bits + DeltaBits(e.name, e.from),
           TypeOK'
    PROVE  BooksBalance'
<1> DEFINE n == e.name
           b == e.from
           c == NextLevel(b)
<1>1. TypeOK /\ UNCHANGED <<base, max, score, target_bits>>
  BY DEF AllocInv, args
<1>2. /\ n \in Tensors /\ b \in Levels /\ b \in Nat /\ b = type[n] /\ HasNext(b)
      /\ Layer[n] \in LayerIds
  <2>1. e \in Entries /\ HasNext(e.from)
    BY <1>1 DEF TypeOK
  <2>2. n \in Tensors /\ b \in Levels
    BY <2>1 DEF Entries
  <2> QED BY <2>1, <2>2 DEF Levels, LayerIds
<1>3. c \in Levels /\ c \in Nat
  BY <1>2, NextLevelAbove DEF MenuLevels, Allowed, Levels
<1>4. type' = [type EXCEPT ![n] = c] /\ type \in [Tensors -> Levels]
  BY <1>1, <1>2 DEF UpgradedType, TypeOK
<1>5. bits' = bits + (c - b) * Params[n]
  BY DEF DeltaBits
<1>6. E' = [E EXCEPT ![Layer[n]] = E[Layer[n]] - Weight(n) * (NoiseAt[b] - NoiseAt[c])]
  BY <1>2 DEF UpgradedError, DeltaError
<1> HIDE DEF n, b, c
<1>7. /\ Weight(n) \in Nat /\ Params[n] \in Nat /\ NoiseAt[b] \in Nat /\ NoiseAt[c] \in Nat
      /\ bits \in Nat /\ E \in [LayerIds -> Int]
  BY <1>1, <1>2, <1>3, WeightTyped DEF TypeOK
<1> DEFINE S1 == Size'
           N1 == Noise'
<1>8. ASSUME NEW m \in Tensors
      PROVE  /\ Size[m] \in Int /\ S1[m] \in Int /\ (m # n => S1[m] = Size[m])
             /\ Noise[m] \in Int /\ N1[m] \in Int /\ (m # n => N1[m] = Noise[m])
             /\ S1[m] = type'[m] * Params[m] /\ N1[m] = Weight(m) * NoiseAt[type'[m]]
  <2>1. /\ Size[m] = type[m] * Params[m] /\ Size[m] \in Int
        /\ Noise[m] = Weight(m) * NoiseAt[type[m]] /\ Noise[m] \in Int
    BY <1>1, TermsTyped
  <2>2. S1[m] = type'[m] * Params[m] /\ N1[m] = Weight(m) * NoiseAt[type'[m]]
    BY <1>1 DEF Size, Noise, Weight
  <2>3. type'[m] \in Levels /\ type'[m] \in Nat /\ (m # n => type'[m] = type[m])
    BY <1>3, <1>4 DEF Levels
  <2>4. NoiseAt[type'[m]] \in Nat /\ Params[m] \in Nat /\ Weight(m) \in Nat
    BY <1>1, <2>3, WeightTyped DEF TypeOK
  <2> QED BY <2>1, <2>2, <2>3, <2>4
<1>9. /\ Size[n] = b * Params[n] /\ Noise[n] = Weight(n) * NoiseAt[b]
      /\ S1[n] = c * Params[n] /\ N1[n] = Weight(n) * NoiseAt[c]
  <2>1. type'[n] = c /\ type[n] = b
    BY <1>2, <1>4
  <2> QED BY <1>1, <1>2, <1>8, <2>1, TermsTyped
<1> HIDE DEF S1, N1
<1>10. bits = SumFunctionOnSet(Size, Tensors) /\ \A l \in LayerIds : E[l] = LayerSum(Noise, l)
  BY DEF BooksBalance, Size, Noise
<1>11. bits' = SumFunctionOnSet(S1, Tensors)
  <2>1. Size[n] + SumFunctionOnSet(S1, Tensors) = S1[n] + SumFunctionOnSet(Size, Tensors)
    <3>1. \A x \in Tensors : Size[x] \in Int /\ S1[x] \in Int /\ (x # n => Size[x] = S1[x])
      BY <1>8
    <3> QED BY <1>2, <3>1, FiniteTensors, SumChange
  <2>2. (c - b) * Params[n] = c * Params[n] - b * Params[n]
    BY <1>2, <1>3, <1>7
  <2>3. c * Params[n] \in Int /\ b * Params[n] \in Int
    BY <1>2, <1>3, <1>7
  <2>4. SumFunctionOnSet(S1, Tensors) \in Int
    BY <1>8, FiniteTensors, SumInt
  <2> DEFINE x == c * Params[n]
             y == b * Params[n]
             t == SumFunctionOnSet(S1, Tensors)
  <2>5. y + t = x + bits /\ bits' = bits + (x - y)
    BY <1>5, <1>9, <1>10, <2>1, <2>2
  <2>6. x \in Int /\ y \in Int /\ t \in Int /\ bits \in Int
    BY <1>7, <2>3, <2>4
  <2> HIDE DEF x, y, t
  <2>7. bits' = t
    BY <2>5, <2>6
  <2> QED BY <2>7 DEF t
<1>12. ASSUME NEW l \in LayerIds PROVE E'[l] = LayerSum(N1, l)
  <2> DEFINE S == {m \in Tensors : Layer[m] = l}
  <2>1. IsFiniteSet(S) /\ S \subseteq Tensors
    BY FiniteTensors
  <2>2. CASE l = Layer[n]
    <3>1. n \in S
      BY <1>2, <2>2
    <3> HIDE DEF S
    <3>2. Noise[n] + SumFunctionOnSet(N1, S) = N1[n] + SumFunctionOnSet(Noise, S)
      <4>1. \A x \in S : Noise[x] \in Int /\ N1[x] \in Int /\ (x # n => Noise[x] = N1[x])
        BY <1>8, <2>1
      <4> QED BY <2>1, <3>1, <4>1, SumChange
    <3>3. E'[l] = E[l] - Weight(n) * (NoiseAt[b] - NoiseAt[c])
      BY <1>6, <1>7, <2>2
    <3> DEFINE w == Weight(n)
               p == NoiseAt[b]
               q == NoiseAt[c]
    <3>4. w * (p - q) = w * p - w * q /\ w * p \in Int /\ w * q \in Int
      BY <1>7
    <3>5. E[l] = SumFunctionOnSet(Noise, S) /\ E[l] \in Int
      BY <1>7, <1>10 DEF LayerSum, S
    <3>6. SumFunctionOnSet(N1, S) \in Int
      BY <1>8, <2>1, SumInt
    <3>7. E'[l] = SumFunctionOnSet(N1, S)
      BY <1>9, <3>2, <3>3, <3>4, <3>5, <3>6
    <3> QED BY <3>7 DEF LayerSum, S
  <2>3. CASE l # Layer[n]
    <3>1. n \notin S
      BY <2>3
    <3>2. E'[l] = E[l]
      BY <1>6, <1>7, <2>3
    <3> HIDE DEF S
    <3>3. \A m \in S : Noise[m] = N1[m]
      BY <1>8, <2>1, <3>1
    <3>4. SumFunctionOnSet(Noise, S) = SumFunctionOnSet(N1, S)
      BY <2>1, <3>3, SumAgree
    <3> QED BY <1>10, <3>2, <3>4 DEF LayerSum, S
  <2> QED BY <2>2, <2>3
<1>13. S1 = [m \in Tensors |-> type[m] * Params[m]]'
         /\ N1 = [m \in Tensors |-> Weight(m) * NoiseAt[type[m]]]'
  BY DEF S1, N1, Size, Noise
<1> QED BY <1>11, <1>12, <1>13 DEF BooksBalance, LayerSum

LEMMA BooksStep == AllocInv /\ BooksBalance /\ [Next]_vars => BooksBalance'
<1> SUFFICES ASSUME AllocInv, BooksBalance, [Next]_vars PROVE BooksBalance'
  OBVIOUS
<1>1. CASE Start
  BY <1>1, BooksStart
<1>2. CASE Upgrade
  <2>1. TypeOK'
    BY <1>2, AllocStep DEF AllocInv
  <2>2. PICK e \in pq :
          /\ type[e.name] = e.from
          /\ E' = [E EXCEPT ![Layer[e.name]] = UpgradedError(e.name)]
          /\ type' = UpgradedType(e.name) /\ bits' = bits + DeltaBits(e.name, e.from)
    BY <1>2 DEF Upgrade
  <2>3. UNCHANGED <<args, pc>> /\ pc = "loop"
    BY <1>2 DEF Upgrade
  <2> QED BY <2>1, <2>2, <2>3, BooksUpgrade
<1>3. CASE BaseMissing \/ ReturnBase \/ Finish
  <2>1. pc' # "loop"
    BY <1>3 DEF BaseMissing, ReturnBase, Finish
  <2> QED BY <2>1 DEF BooksBalance
<1>4. CASE SkipStale \/ DropOverBudget \/ UNCHANGED vars
  <2>1. UNCHANGED <<score, pc, type, bits, E>>
    BY <1>4 DEF SkipStale, DropOverBudget, vars, args
  <2> QED BY <2>1 DEF BooksBalance, Weight, LayerSum
<1> QED BY <1>1, <1>2, <1>3, <1>4 DEF Next

\* The incremental totals are exact: after any number of upgrades, current_bits is the
\* size of the assignment and each E_l the weighted noise of its layer, as
\* greedy_l2_allocate would compute them anew.
THEOREM TotalsExact == Spec => []BooksBalance
<1>1. Init => BooksBalance
  BY DEF Init, BooksBalance
<1> QED BY <1>1, BooksStep, AllocInvariant, PTL DEF Spec

-----------------------------------------------------------------------------
(* The values in the heap.                                                 *)

\* A lower error of the layer makes every upgrade in it worth less.
LEMMA LowerErrorWorthLess ==
    ASSUME score \in [Tensors -> Scores], NEW n \in Tensors, NEW b \in Levels, HasNext(b)
    PROVE  /\ DeltaError(n, b) \in Nat
           /\ \A x, y \in Int : y <= x => Improvement(n, b, y) <= Improvement(n, b, x)
<1>1. b \in Nat /\ NextLevel(b) \in Levels /\ NextLevel(b) \in Nat /\ NextLevel(b) > b
  BY NextLevelAbove DEF Levels, MenuLevels, Allowed
<1>2. NoiseAt[b] \in Nat /\ NoiseAt[NextLevel(b)] \in Nat /\ NoiseAt[NextLevel(b)] <= NoiseAt[b]
  BY <1>1, NoiseAssumption
<1>3. Weight(n) \in Nat /\ NoiseAt[b] - NoiseAt[NextLevel(b)] \in Nat
  BY <1>2, WeightTyped
<1>4. DeltaError(n, b) \in Nat
  BY <1>3, Products DEF DeltaError
<1>5. ASSUME NEW x \in Int, NEW y \in Int, y <= x
      PROVE  Improvement(n, b, y) <= Improvement(n, b, x)
  <2> DEFINE d == DeltaError(n, b)
  <2>1. d \in Nat
    BY <1>4
  <2>2. /\ Improvement(n, b, x) = x * x - (x - d) * (x - d)
        /\ Improvement(n, b, y) = y * y - (y - d) * (y - d)
    BY DEF Improvement
  <2> HIDE DEF d
  <2>3. \A z \in Int : z * z - (z - d) * (z - d) = 2 * (z * d) - d * d
    BY <2>1
  <2>4. y * d <= x * d
    <3>1. x - y \in Nat
      BY <1>5
    <3>2. (x - y) * d \in Nat
      BY <2>1, <3>1, Products
    <3>3. (x - y) * d = x * d - y * d /\ x * d \in Int /\ y * d \in Int
      BY <2>1
    <3> QED BY <3>2, <3>3
  <2>5. x * d \in Int /\ y * d \in Int /\ d * d \in Int
    BY <2>1
  <2> QED BY <2>2, <2>3, <2>4, <2>5
<1> QED BY <1>4, <1>5

\* Every entry, stale or not, is worth no less than its upgrade would be now.
Optimistic == \A e \in pq : e.imp >= Improvement(e.name, e.from, E[Layer[e.name]])

LEMMA PushedValue ==
    ASSUME NEW n, NEW b, NEW err, NEW key, NEW e \in PushUpgrade(n, b, err, key)
    PROVE  e.name = n /\ e.from = b /\ e.imp = Improvement(n, b, err)
BY DEF PushUpgrade

LEMMA OptimisticStart == AllocInv /\ Start => Optimistic'
<1> SUFFICES ASSUME AllocInv, Start, NEW e \in pq'
             PROVE  e.imp >= Improvement(e.name, e.from, E[Layer[e.name]])'
  BY DEF Optimistic
<1>1. /\ args' = args /\ pq' = UNION {PushUpgrade(n, base.bpw, E'[Layer[n]], n) : n \in Tensors}
  BY DEF Start
<1>2. PICK n \in Tensors : e \in PushUpgrade(n, base.bpw, E'[Layer[n]], n)
  BY <1>1
<1>3. e.name = n /\ e.from = base.bpw /\ e.imp = Improvement(n, base.bpw, E'[Layer[n]])
  BY <1>2, PushedValue
<1>4. Improvement(e.name, e.from, E[Layer[e.name]])' = e.imp
  BY <1>1, <1>3, ArgsFixMenu
<1>5. TypeOK'
  BY StartStep DEF AllocInv
<1>6. e.imp \in Int
  BY <1>5 DEF TypeOK, Entries
<1> QED BY <1>4, <1>6

\* An upgrade lowers the error of its layer, and what it pushes has its current value.
LEMMA OptimisticUpgrade == AllocInv /\ Optimistic /\ Upgrade => Optimistic'
<1> SUFFICES ASSUME AllocInv, Optimistic, Upgrade, NEW f \in pq'
             PROVE  f.imp >= Improvement(f.name, f.from, E[Layer[f.name]])'
  BY DEF Optimistic
<1>1. PICK e \in pq :
        /\ type[e.name] = e.from
        /\ E' = [E EXCEPT ![Layer[e.name]] = UpgradedError(e.name)]
        /\ pq' = (pq \ {e})
                   \cup PushUpgrade(e.name, NextLevel(e.from), UpgradedError(e.name), Key(0))
                   \cup RepushLayer(e.name, UpgradedError(e.name))
  BY DEF Upgrade
<1> DEFINE n == e.name
           err == UpgradedError(n)
<1>2. TypeOK /\ TypeOK' /\ args' = args
  BY AllocStep DEF AllocInv, Upgrade, Next
<1>3. /\ n \in Tensors /\ type[n] \in Levels /\ HasNext(type[n]) /\ Layer[n] \in LayerIds
      /\ E \in [LayerIds -> Int] /\ score \in [Tensors -> Scores]
  <2>1. e \in Entries /\ HasNext(e.from)
    BY <1>2 DEF TypeOK
  <2>2. n \in Tensors
    BY <2>1 DEF Entries
  <2> QED BY <1>1, <1>2, <2>1, <2>2 DEF TypeOK, LayerIds
<1>4. DeltaError(n, type[n]) \in Nat
  BY <1>3, LowerErrorWorthLess
<1>5. err \in Int /\ err <= E[Layer[n]]
  BY <1>3, <1>4 DEF UpgradedError
<1>6. E' = [E EXCEPT ![Layer[n]] = err]
  BY <1>1
<1>7. /\ f \in Entries /\ HasNext(f.from)
  BY <1>2, ArgsFixMenu DEF TypeOK
<1>8. /\ f.name \in Tensors /\ f.from \in Levels /\ f.imp \in Int /\ Layer[f.name] \in LayerIds
  BY <1>7 DEF Entries, LayerIds
<1>9. Improvement(f.name, f.from, E[Layer[f.name]])'
        = Improvement(f.name, f.from, E'[Layer[f.name]])
  BY <1>2, ArgsFixMenu
<1> HIDE DEF err
<1>10. E'[Layer[f.name]] \in Int /\ E[Layer[f.name]] \in Int
         /\ E'[Layer[f.name]] <= E[Layer[f.name]]
  BY <1>3, <1>5, <1>6, <1>8
<1>11. /\ Improvement(f.name, f.from, E'[Layer[f.name]]) \in Int
       /\ Improvement(f.name, f.from, E[Layer[f.name]]) \in Int
  BY <1>3, <1>7, <1>8, <1>10, ErrorsTyped
<1>12. CASE f \in pq
  <2>1. f.imp >= Improvement(f.name, f.from, E[Layer[f.name]])
    BY <1>12 DEF Optimistic
  <2>2. Improvement(f.name, f.from, E[Layer[f.name]])
          >= Improvement(f.name, f.from, E'[Layer[f.name]])
    BY <1>3, <1>7, <1>8, <1>10, LowerErrorWorthLess
  <2> QED BY <1>8, <1>9, <1>11, <2>1, <2>2
<1>13. CASE f \in PushUpgrade(n, NextLevel(e.from), err, Key(0))
  <2>1. f.name = n /\ f.imp = Improvement(f.name, f.from, err)
    BY <1>13, PushedValue
  <2>2. E'[Layer[f.name]] = err
    BY <1>3, <1>6, <2>1
  <2> QED BY <1>8, <1>9, <2>1, <2>2
<1>14. CASE f \in RepushLayer(n, err)
  <2>1. PICK o \in Tensors : Layer[o] = Layer[n] /\ f \in PushUpgrade(o, type[o], err, Key(o))
    BY <1>14 DEF RepushLayer
  <2>2. f.name = o /\ f.imp = Improvement(f.name, f.from, err)
    BY <2>1, PushedValue
  <2>3. E'[Layer[f.name]] = err
    BY <1>3, <1>6, <2>1, <2>2
  <2> QED BY <1>8, <1>9, <2>2, <2>3
<1> QED BY <1>1, <1>12, <1>13, <1>14 DEF err

LEMMA OptimisticStep == AllocInv /\ Optimistic /\ [Next]_vars => Optimistic'
<1> SUFFICES ASSUME AllocInv, Optimistic, [Next]_vars PROVE Optimistic'
  OBVIOUS
<1>1. CASE Start
  BY <1>1, OptimisticStart
<1>2. CASE Upgrade
  BY <1>2, OptimisticUpgrade
<1>3. CASE BaseMissing \/ ReturnBase \/ SkipStale \/ DropOverBudget \/ Finish \/ UNCHANGED vars
  <2>1. args' = args /\ E' = E /\ pq' \subseteq pq
    BY <1>3 DEF BaseMissing, ReturnBase, SkipStale, DropOverBudget, Finish, vars
  <2> QED BY <2>1, ArgsFixMenu DEF Optimistic
<1> QED BY <1>1, <1>2, <1>3 DEF Next

\* The order of the lazily deleted heap is safe: no queued entry of greedy_l2_allocate is
\* worth less than its upgrade is now, because no upgrade raises the error of a layer.
THEOREM HeapOptimistic == Spec => []NeverUnderestimates
<1>1. Init => Optimistic
  BY DEF Init, Optimistic
<1>2. Optimistic => NeverUnderestimates
  BY DEF Optimistic, NeverUnderestimates
<1> QED BY <1>1, <1>2, OptimisticStep, AllocInvariant, PTL DEF Spec

-----------------------------------------------------------------------------
(* The lookup of the base type.                                            *)

\* A base type below the max type is the only forced one of its level.
LEMMA BaseIsForced ==
    ASSUME base \in QuantTypes, max \in QuantTypes, base.bpw < max.bpw
    PROVE  base \in Menu
<1>1. base.bpw \in Nat /\ max.bpw \in Nat
  OBVIOUS
<1>2. base \in Allowed /\ base.bpw \in MenuLevels
  BY <1>1 DEF Allowed, MenuLevels
<1> DEFINE forced == {q \in Allowed : q.bpw = base.bpw} \cap {base, max}
<1>3. forced = {base}
  BY <1>1, <1>2
<1>4. (CHOOSE q \in forced : \A r \in forced : q.pos <= r.pos) \in forced
  <2>1. base.pos <= base.pos
    OBVIOUS
  <2> QED BY <1>3, <2>1
<1>5. MenuType(base.bpw) = base
  BY <1>3, <1>4 DEF MenuType
<1> QED BY <1>2, <1>5 DEF Menu

\* Forcing the user's types onto the menu works: deduplicate_quant_menu keeps the base
\* type whenever it is below the max type, so that the lookup of greedy_l2_allocate
\* does not raise StopIteration.
THEOREM BaseFound == Spec => []BaseOnMenu
<1>1. Init => BaseOnMenu
  BY DEF Init, BaseOnMenu
<1>2. TypeOK /\ BaseOnMenu /\ [Next]_vars => BaseOnMenu'
  <2> SUFFICES ASSUME TypeOK, BaseOnMenu, [Next]_vars, pc' = "crashed" PROVE (base.bpw >= max.bpw)'
    BY DEF BaseOnMenu
  <2>1. base' = base /\ max' = max
    BY DEF Next, BaseMissing, ReturnBase, Start, SkipStale, DropOverBudget, Upgrade, Finish,
           vars, args
  <2>2. CASE BaseMissing
    <3>1. ~(base.bpw < max.bpw)
      BY <2>2, BaseIsForced DEF BaseMissing, TypeOK
    <3>2. base.bpw \in Nat /\ max.bpw \in Nat
      BY DEF TypeOK
    <3> QED BY <2>1, <3>1, <3>2
  <2>3. CASE pc' = pc
    BY <2>1, <2>3 DEF BaseOnMenu
  <2> QED BY <2>2, <2>3 DEF Next, ReturnBase, Start, SkipStale, DropOverBudget, Upgrade,
          Finish, vars
<1> QED BY <1>1, <1>2, AllocTypes, PTL DEF Spec

-----------------------------------------------------------------------------
(* The heap has a head, and the loop gets on.                              *)

\* Multiplication by a positive number keeps and reflects the order.
LEMMA TimesPositive ==
    ASSUME NEW x \in Int, NEW y \in Int, NEW z \in Nat \ {0}
    PROVE  /\ x > y <=> x * z > y * z
           /\ x = y <=> x * z = y * z
OBVIOUS

\* Comparing quotients by cross-multiplication is transitive.
LEMMA CrossTransitive ==
    ASSUME NEW a \in Int, NEW b \in Int, NEW c \in Int,
           NEW p \in Nat \ {0}, NEW r \in Nat \ {0}, NEW s \in Nat \ {0},
           a * r >= b * p, b * s >= c * r
    PROVE  /\ a * s >= c * p
           /\ a * s = c * p => a * r = b * p /\ b * s = c * r
<1> DEFINE ar == a * r
           bp == b * p
           bs == b * s
           cr == c * r
           as == a * s
           cp == c * p
<1>1. ar \in Int /\ bp \in Int /\ bs \in Int /\ cr \in Int /\ as \in Int /\ cp \in Int
  OBVIOUS
<1>2. ar >= bp /\ bs >= cr
  OBVIOUS
<1>3. ar * s = as * r /\ bp * s = bs * p /\ cr * p = cp * r
  OBVIOUS
<1> HIDE DEF ar, bp, bs, cr, as, cp
<1> DEFINE ars == ar * s
           bps == bp * s
           bsp == bs * p
           crp == cr * p
           asr == as * r
           cpr == cp * r
<1>4. ars \in Int /\ bps \in Int /\ bsp \in Int /\ crp \in Int /\ asr \in Int /\ cpr \in Int
  BY <1>1
<1>5. (ar > bp <=> ars > bps) /\ (ar = bp <=> ars = bps)
  BY <1>1, TimesPositive
<1>6. (bs > cr <=> bsp > crp) /\ (bs = cr <=> bsp = crp)
  BY <1>1, TimesPositive
<1>7. (as > cp <=> asr > cpr) /\ (as = cp <=> asr = cpr)
  BY <1>1, TimesPositive
<1>8. ars = asr /\ bps = bsp /\ crp = cpr
  BY <1>3
<1> HIDE DEF ars, bps, bsp, crp, asr, cpr
<1>9. ars >= bps /\ bps >= crp
  BY <1>1, <1>2, <1>4, <1>5, <1>6, <1>8
<1>10. asr >= cpr /\ (asr = cpr => ars = bps /\ bsp = crp)
  BY <1>4, <1>8, <1>9
<1>11. as >= cp
  <2>1. \A u, v \in Int : (u > v \/ u = v) <=> u >= v
    OBVIOUS
  <2>2. asr > cpr \/ asr = cpr
    BY <1>4, <1>10, <2>1
  <2>3. as > cp \/ as = cp
    BY <1>7, <2>2
  <2> QED BY <1>1, <2>1, <2>3
<1>12. as = cp => ar = bp /\ bs = cr
  BY <1>5, <1>6, <1>7, <1>10
<1> QED BY <1>11, <1>12 DEF ar, bp, bs, cr, as, cp

\* The order of the heap is transitive, and total on entries of different push counters.
LEMMA HeapOrder ==
    ASSUME NEW e \in Entries, NEW f \in Entries
    PROVE  /\ e.key # f.key => Before(e, f) \/ Before(f, e)
           /\ \A g \in Entries : Before(e, f) /\ Before(f, g) => Before(e, g)
<1>1. \A x \in Entries : x.imp \in Int /\ x.dbits \in Nat \ {0} /\ x.key \in Nat
  BY DEF Entries
<1>2. \A x, y \in Entries : x.imp * y.dbits \in Int
  BY <1>1
<1>3. e.key # f.key => Before(e, f) \/ Before(f, e)
  BY <1>1, <1>2 DEF Before
<1>4. ASSUME NEW g \in Entries, Before(e, f), Before(f, g) PROVE Before(e, g)
  <2>1. e.imp * f.dbits >= f.imp * e.dbits /\ f.imp * g.dbits >= g.imp * f.dbits
    BY <1>2, <1>4 DEF Before
  <2>2. /\ e.imp * g.dbits >= g.imp * e.dbits
        /\ e.imp * g.dbits = g.imp * e.dbits =>
             e.imp * f.dbits = f.imp * e.dbits /\ f.imp * g.dbits = g.imp * f.dbits
    BY <1>1, <2>1, CrossTransitive
  <2>3. CASE e.imp * g.dbits > g.imp * e.dbits
    BY <2>3 DEF Before
  <2>4. CASE e.imp * g.dbits = g.imp * e.dbits
    <3>1. e.imp * f.dbits = f.imp * e.dbits /\ f.imp * g.dbits = g.imp * f.dbits
      BY <2>2, <2>4
    <3>2. e.key < f.key /\ f.key < g.key
      BY <1>2, <1>4, <3>1 DEF Before
    <3>3. e.key < g.key
      BY <1>1, <3>2
    <3> QED BY <2>4, <3>3 DEF Before
  <2> QED BY <1>2, <2>2, <2>3, <2>4
<1> QED BY <1>3, <1>4

\* A finite set of entries with different push counters has a first one.
LEMMA HeadExists ==
    ASSUME NEW Q \in SUBSET Entries, IsFiniteSet(Q), Q # {},
           \A e, f \in Q : e.key = f.key => e = f
    PROVE  \E e \in Q : \A f \in Q \ {e} : Before(e, f)
<1> DEFINE HasHead(s) == \E e \in s : \A f \in s \ {e} : Before(e, f)
           P == {s \in SUBSET Q : s = {} \/ HasHead(s)}
<1>1. ASSUME NEW s \in SUBSET Q, \A x \in s : s \ {x} \in P PROVE s \in P
  <2>1. CASE s = {}
    BY <2>1
  <2>2. CASE s # {}
    <3>1. PICK x \in s : TRUE
      BY <2>2
    <3>2. CASE s \ {x} = {}
      <4>1. \A f \in s \ {x} : Before(x, f)
        BY <3>2
      <4> QED BY <4>1
    <3>3. CASE s \ {x} # {}
      <4>1. HasHead(s \ {x})
        BY <1>1, <3>1, <3>3
      <4>2. PICK h \in s \ {x} : \A f \in (s \ {x}) \ {h} : Before(h, f)
        BY <4>1
      <4>3. x \in Entries /\ h \in Entries /\ \A f \in s : f \in Entries
        OBVIOUS
      <4>4. x.key # h.key
        BY <4>2
      <4>5. CASE Before(h, x)
        <5>1. \A f \in s \ {h} : Before(h, f)
          BY <4>2, <4>5
        <5> QED BY <4>2, <5>1
      <4>6. CASE Before(x, h)
        <5>1. ASSUME NEW f \in s \ {x} PROVE Before(x, f)
          BY <4>2, <4>3, <4>6, HeapOrder
        <5> QED BY <5>1
      <4> QED BY <4>3, <4>4, <4>5, <4>6, HeapOrder
    <3> QED BY <3>2, <3>3
  <2> QED BY <2>1, <2>2
<1> HIDE DEF P
<1>2. \A s \in SUBSET Q : (\A x \in s : s \ {x} \in P) => s \in P
  BY <1>1
<1>3. \A s \in SUBSET Q : s \in P
  BY <1>2, SubsetInduction
<1>4. Q \in P
  BY <1>3
<1> QED BY <1>4 DEF P

-----------------------------------------------------------------------------
\* Push counters tell the entries of the heap apart and are below those to come; so the
\* heap is finite.
CountersApart ==
    /\ \A e \in pq : e.key < Key(0)
    /\ \A e, f \in pq : e.key = f.key => e = f

\* Keys of the next round, by place.
LEMMA KeysOfRound ==
    ASSUME round \in Nat
    PROVE  /\ Key(0) \in Nat /\ Key(0) > NumTensors
           /\ \A o \in Int : Key(o) = Key(0) + o
           /\ round' = round + 1 => Key(0)' = Key(0) + NumTensors + 1
<1> DEFINE m == NumTensors + 1
           k == (round + 1) * m
<1>1. m \in Nat /\ round * m \in Nat /\ k = round * m + m /\ (round + 2) * m = k + m
  BY Products
<1>2. k \in Nat /\ k > NumTensors /\ \A o \in Int : Key(o) = k + o
  BY <1>1 DEF Key
<1>3. Key(0) = k
  BY <1>2
<1>4. ASSUME round' = round + 1 PROVE Key(0)' = k + m
  <2>1. Key(0)' = (round' + 1) * m + 0
    BY DEF Key
  <2>2. round' + 1 = round + 2
    BY <1>4
  <2> QED BY <1>1, <2>1, <2>2
<1> HIDE DEF k
<1> QED BY <1>1, <1>2, <1>3, <1>4

\* What push_upgrade adds has the counter it is given.
LEMMA PushedOne ==
    ASSUME NEW n, NEW b, NEW err, NEW key
    PROVE  \A e, f \in PushUpgrade(n, b, err, key) : e.key = key /\ e = f
BY DEF PushUpgrade

LEMMA CountersStart == AllocInv /\ Start => CountersApart'
<1> SUFFICES ASSUME AllocInv, Start PROVE CountersApart'
  OBVIOUS
<1>1. round \in Nat /\ round' = round
  BY DEF AllocInv, TypeOK, Start
<1>2. Key(0)' = Key(0) /\ Key(0) \in Nat /\ Key(0) > NumTensors
  BY <1>1, KeysOfRound DEF Key
<1>3. \A e \in pq' : \E n \in Tensors : e \in PushUpgrade(n, base.bpw, E'[Layer[n]], n)
  BY DEF Start
<1>4. \A e \in pq' : e.key \in Tensors /\ e \in PushUpgrade(e.key, base.bpw, E'[Layer[e.key]], e.key)
  BY <1>3, PushedOne
<1>5. \A e \in pq' : e.key < Key(0)
  BY <1>2, <1>4 DEF Tensors
<1>6. \A e, f \in pq' : e.key = f.key => e = f
  BY <1>4, PushedOne
<1> QED BY <1>2, <1>5, <1>6 DEF CountersApart

LEMMA CountersUpgrade == AllocInv /\ CountersApart /\ Upgrade => CountersApart'
<1> SUFFICES ASSUME AllocInv, CountersApart, Upgrade PROVE CountersApart'
  OBVIOUS
<1> DEFINE k == Key(0)
<1>1. round \in Nat /\ round' = round + 1
  BY DEF AllocInv, TypeOK, Upgrade
<1>2. /\ k \in Nat /\ Key(0)' = k + NumTensors + 1
      /\ \A o \in Int : Key(o) = k + o
  BY <1>1, KeysOfRound
<1>3. PICK e \in pq :
        pq' = (pq \ {e})
                \cup PushUpgrade(e.name, NextLevel(e.from), UpgradedError(e.name), Key(0))
                \cup RepushLayer(e.name, UpgradedError(e.name))
  BY DEF Upgrade
<1> DEFINE err == UpgradedError(e.name)
           new(o) == IF o = 0 THEN PushUpgrade(e.name, NextLevel(e.from), err, Key(0))
                     ELSE PushUpgrade(o, type[o], err, Key(o))
<1>4. 0 \notin Tensors /\ \A o \in Tensors : o \in Int /\ 0 < o /\ o <= NumTensors
  BY DEF Tensors
<1>5. \A o \in Tensors \cup {0} : \A f, g \in new(o) : f.key = k + o /\ f = g
  <2>1. \A f, g \in new(0) : f.key = k + 0 /\ f = g
    BY <1>2, PushedOne
  <2>2. ASSUME NEW o \in Tensors PROVE \A f, g \in new(o) : f.key = k + o /\ f = g
    BY <1>2, <1>4, PushedOne
  <2> QED BY <2>1, <2>2
<1>6. \A f \in pq' : f \in pq \/ \E o \in Tensors \cup {0} : f \in new(o)
  <2> SUFFICES ASSUME NEW f \in pq', f \notin pq PROVE \E o \in Tensors \cup {0} : f \in new(o)
    OBVIOUS
  <2>1. CASE f \in PushUpgrade(e.name, NextLevel(e.from), err, Key(0))
    BY <2>1
  <2>2. CASE f \in RepushLayer(e.name, err)
    <3>1. PICK o \in Tensors : f \in PushUpgrade(o, type[o], err, Key(o))
      BY <2>2 DEF RepushLayer
    <3> QED BY <1>4, <3>1
  <2> QED BY <1>3, <2>1, <2>2
<1> HIDE DEF new, err
<1>7. \A f \in pq : f.key \in Nat /\ f.key < k
  BY DEF CountersApart, AllocInv, TypeOK, Entries
<1> HIDE DEF k
<1>8. ASSUME NEW f \in pq' PROVE f.key < Key(0)'
  BY <1>2, <1>4, <1>5, <1>6, <1>7
<1>9. ASSUME NEW f \in pq', NEW g \in pq', f.key = g.key PROVE f = g
  <2>1. CASE f \in pq /\ g \in pq
    BY <1>9, <2>1 DEF CountersApart
  <2>2. CASE f \notin pq /\ g \notin pq
    <3>1. PICK o \in Tensors \cup {0} : f \in new(o)
      BY <1>6, <2>2
    <3>2. PICK p \in Tensors \cup {0} : g \in new(p)
      BY <1>6, <2>2
    <3>3. f.key = k + o /\ g.key = k + p
      BY <1>5, <3>1, <3>2
    <3>4. o = p
      <4>1. o \in Int /\ p \in Int /\ k \in Int
        BY <1>2, <1>4
      <4>2. k + o = k + p
        BY <1>9, <3>3
      <4> QED BY <4>1, <4>2
    <3> QED BY <1>5, <3>1, <3>2, <3>4
  <2>3. ASSUME NEW x \in pq, NEW y \in pq', y \notin pq PROVE x.key # y.key
    <3>1. PICK o \in Tensors \cup {0} : y \in new(o)
      BY <1>6, <2>3
    <3>2. y.key = k + o
      BY <1>5, <3>1
    <3> QED BY <1>2, <1>4, <1>7, <3>2
  <2> QED BY <1>9, <2>1, <2>2, <2>3
<1> QED BY <1>8, <1>9 DEF CountersApart

\* With different counters below a bound, the heap is finite.
LEMMA HeapFinite == AllocInv /\ CountersApart => IsFiniteSet(pq)
<1> SUFFICES ASSUME AllocInv, CountersApart PROVE IsFiniteSet(pq)
  OBVIOUS
<1> DEFINE T == 0..(Key(0) - 1)
           keys == [e \in pq |-> e.key]
<1>1. round \in Nat /\ \A e \in pq : e.key \in Nat
  BY DEF AllocInv, TypeOK, Entries
<1>2. Key(0) \in Nat
  BY <1>1, KeysOfRound
<1>3. \A e \in pq : e.key \in T
  BY <1>1, <1>2 DEF CountersApart
<1>4. keys \in Injection(pq, T)
  <2>1. keys \in [pq -> T]
    BY <1>3
  <2>2. \A e, f \in pq : keys[e] = keys[f] => e = f
    BY DEF CountersApart
  <2> QED BY <2>1, <2>2 DEF Injection, IsInjective
<1>5. IsFiniteSet(T)
  BY <1>2, FS_Interval
<1> HIDE DEF keys, T
<1> QED BY <1>4, <1>5, FS_Injection

\* The loop of greedy_l2_allocate always has an iteration to make or is done: the popped
\* entry is unique, as entries of one value differ in their push counter.
HeadOrEmpty == IsFiniteSet(pq) /\ (pc = "loop" => pq = {} \/ \E e \in pq : IsHead(e))

\* An iteration spends bits, within the budget, or shortens the heap.
Progress ==
    pc = "loop" =>
        \/ pc' = "done"
        \/ bits < bits' /\ bits' <= target_bits
        \/ bits' = bits /\ pq' \subseteq pq /\ pq' # pq

LEMMA CountersStep == AllocInv /\ CountersApart /\ [Next]_vars => CountersApart'
<1> SUFFICES ASSUME AllocInv, CountersApart, [Next]_vars PROVE CountersApart'
  OBVIOUS
<1>1. CASE Start
  BY <1>1, CountersStart
<1>2. CASE Upgrade
  BY <1>2, CountersUpgrade
<1>3. CASE BaseMissing \/ ReturnBase \/ SkipStale \/ DropOverBudget \/ Finish \/ UNCHANGED vars
  <2>1. round' = round /\ pq' \subseteq pq
    BY <1>3 DEF BaseMissing, ReturnBase, SkipStale, DropOverBudget, Finish, vars
  <2> QED BY <2>1 DEF CountersApart, Key
<1> QED BY <1>1, <1>2, <1>3 DEF Next

\* The loop of greedy_l2_allocate is never without a next step: its heap is finite and, while
\* not empty, has one first entry, since no two have the same push counter.
THEOREM LoopHasHead == Spec => []HeadOrEmpty
<1>1. Init => CountersApart
  BY DEF Init, CountersApart
<1>2. ASSUME AllocInv, CountersApart PROVE HeadOrEmpty
  <2>1. IsFiniteSet(pq)
    BY <1>2, HeapFinite
  <2>2. ASSUME pq # {} PROVE \E e \in pq : IsHead(e)
    <3>1. pq \in SUBSET Entries /\ \A e, f \in pq : e.key = f.key => e = f
      BY <1>2 DEF AllocInv, TypeOK, CountersApart
    <3>2. \E e \in pq : \A f \in pq \ {e} : Before(e, f)
      BY <2>1, <2>2, <3>1, HeadExists
    <3> QED BY <3>2 DEF IsHead
  <2> QED BY <2>1, <2>2 DEF HeadOrEmpty
<1> QED BY <1>1, <1>2, CountersStep, AllocInvariant, PTL DEF Spec

\* Every iteration of greedy_l2_allocate raises the bits spent, which the budget bounds, or
\* leaves them and takes an entry off the finite heap: it cannot go on for ever.
THEOREM LoopProgresses == Spec => [][Progress]_vars
<1>1. ASSUME AllocInv, [Next]_vars PROVE [Progress]_vars
  <2>1. CASE Upgrade
    <3>1. PICK e \in pq : /\ type[e.name] = e.from /\ Fits(e.name, e.from)
                          /\ bits' = bits + DeltaBits(e.name, e.from)
      BY <2>1 DEF Upgrade
    <3>2. e.name \in Tensors /\ e.from \in Nat /\ HasNext(e.from)
      BY <1>1 DEF AllocInv, TypeOK, Entries, Levels
    <3>3. DeltaBits(e.name, e.from) \in Nat \ {0}
      BY <3>2, DeltaBitsPositive
    <3>4. bits \in Nat /\ target_bits \in Nat
      BY <1>1 DEF AllocInv, TypeOK
    <3>5. bits < bits' /\ bits' <= target_bits
      BY <3>1, <3>3, <3>4 DEF Fits
    <3> QED BY <3>5 DEF Progress
  <2>2. CASE SkipStale \/ DropOverBudget
    BY <2>2 DEF SkipStale, DropOverBudget, Progress
  <2>3. CASE BaseMissing \/ ReturnBase \/ Start \/ Finish
    BY <2>3 DEF BaseMissing, ReturnBase, Start, Finish, Progress
  <2>4. CASE UNCHANGED vars
    BY <2>4
  <2> QED BY <1>1, <2>1, <2>2, <2>3, <2>4 DEF Next
<1> QED BY <1>1, AllocInvariant, PTL DEF Spec
=============================================================================
