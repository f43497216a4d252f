-------------------------- MODULE QuantPlanProofs --------------------------
(***************************************************************************)
(* For every number of layers, every allocation, every shape and every     *)
(* order of the tensors in the input: the conversion loop of               *)
(* llama-quantize counts the layers of a role rightly if they come in      *)
(* order, writes a shard's header only over whole data, finds weights for  *)
(* every kernel that needs them, and, on a command line that names a type  *)
(* for each tensor the heuristics could change, writes the types of the    *)
(* allocation.                                                             *)
(***************************************************************************)
EXTENDS QuantPlan, SequenceTheorems, SumTheorems, TLAPS

\* The command lines that name a type for every tensor the heuristics change:
\* those allocate.py prints, and the drivers' where the base type has no
\* heuristic (IQ2_XS) or is written as a preset (Q3_K_M), so that no assigned
\* type has its name.
Complete ==
    \A e \in Emissions : e[1] = "allocate" \/ (e[1] = "driver" /\ e[2] \in {"IQ2_XS", "Q3_K_M"})

\* A row that divides into blocks of 256 divides into the blocks of any type.
LEMMA WideFits ==
    ASSUME NEW cols \in Nat, cols % 256 = 0, NEW type
    PROVE  Fits(cols, type)
<1>1. cols % 1 = 0 /\ cols % 32 = 0
  OBVIOUS
<1>2. BlckSize(type) \in {1, 32, 256}
  BY DEF BlckSize
<1> QED
  BY <1>1, <1>2 DEF Fits

\* What a job of a complete command line says of its overrides.
LEMMA JobFacts ==
    ASSUME NEW j \in Jobs, Complete
    PROVE  /\ j.who = "allocate" \/ (j.who = "driver" /\ j.base \in {"IQ2_XS", "Q3_K_M"})
           /\ j.upType # "Q3_K_M"
           /\ \A r \in {"attn_k", "attn_output", "attn_q", "attn_v",
                        "ffn_down", "ffn_gate", "ffn_up"} : j.cols[r] \in Nat
<1>1. PICK e \in Emissions, ut \in UpTypes, c \in Columns :
        j.who = e[1] /\ j.base = e[2] /\ j.upType = ut /\ j.cols = c
  BY DEF Jobs
<1> QED
  BY <1>1, JobAssumption DEF Complete

\* A tensor that has no override keeps the base type: only a driver leaves
\* one out, and only for IQ2_XS, which the heuristics do not touch.
LEMMA NoOverride ==
    ASSUME NEW j \in Jobs, Complete, NEW t \in Planned, NEW i,
           t \notin DOMAIN Overrides(j), j.cols[t[2]] % 256 = 0
    PROVE  GetType(j, t, i) = Assigned(j)[t]
<1>1. j.who = "driver" /\ Assigned(j)[t] = j.base
  BY JobFacts DEF Overrides
<1>2. t[2] \notin {"output", "token_embd"}
  BY DEF Planned
<1>3. j.base = "IQ2_XS"
  <2>1. Assigned(j)[t] # "Q3_K_M"
    BY JobFacts DEF Assigned, Canonical
  <2> QED
    BY <1>1, <2>1, JobFacts
<1>4. DefaultType(FType(j.base)) = "IQ2_XS" /\ FType(j.base) = "IQ2_XS"
  BY <1>3 DEF DefaultType, FType
<1>5. Heuristic(j, t, i) = BlockRule("IQ2_XS", t[2], "IQ2_XS", i, NLayer, j.gqa)
  BY <1>2, <1>4 DEF Heuristic
<1>6. Heuristic(j, t, i) = "IQ2_XS"
  BY <1>5 DEF BlockRule
<1>7. j.cols[t[2]] \in Nat
  BY JobFacts DEF Planned
<1>8. Fits(j.cols[t[2]], Heuristic(j, t, i))
  BY <1>7, WideFits
<1> QED
  BY <1>1, <1>3, <1>6, <1>8 DEF GetType

\* The type written is the type assigned, whatever layer the counters say.
LEMMA TypeIsAssigned ==
    ASSUME NEW j \in Jobs, Complete, NEW t \in Planned, NEW i, j.cols[t[2]] % 256 = 0
    PROVE  NewType(j, t, i) = Assigned(j)[t]
<1>1. t[2] \notin {"output", "token_embd", "attn_norm"}
  BY DEF Planned
<1>2. NewType(j, t, i) = WithOverride(j, t, i)
  BY <1>1 DEF NewType, Quantizes
<1>3. CASE t \notin DOMAIN Overrides(j)
  BY <1>2, <1>3, NoOverride DEF WithOverride
<1>4. CASE t \in DOMAIN Overrides(j)
  <2>1. j.cols[t[2]] \in Nat
    BY JobFacts DEF Planned
  <2>2. Fits(j.cols[t[2]], Heuristic(j, t, i))
    BY <2>1, WideFits
  <2>3. Overrides(j)[t] = Assigned(j)[t]
    BY <1>4 DEF Overrides
  <2> QED
    BY <1>2, <1>4, <2>2, <2>3 DEF WithOverride
<1> QED
  BY <1>3, <1>4

----------------------------------------------------------------------------
(* The inductive invariant: every entry on disk is a tensor of the vector  *)
(* with the type the loop chooses for it at some count of layers.          *)

Choices(j, ts) == {<<ts[k], NewType(j, ts[k], i)>> : k \in DOMAIN ts, i \in Nat}

IInv ==
    /\ job \in Jobs
    /\ cur_split \in Splits(job)
    /\ count \in [{"attn_v", "ffn_down", "ffn_gate", "ffn_up"} -> Nat]
    /\ data \in [Splits(job) -> Seq(Choices(job, tensors))]
    /\ pc = "start" => \A s \in Splits(job) : data[s] = << >>

LEMMA SplitsFacts == \A j, t : 0 \in Splits(j) /\ SplitOf(j, t) \in Splits(j)
BY DEF Splits, SplitOf

LEMMA InitIInv == Init => IInv
<1> SUFFICES ASSUME Init PROVE IInv
  OBVIOUS
<1>1. data = [s \in Splits(job) |-> << >>]
  BY DEF Init
<1>2. << >> \in Seq(Choices(job, tensors))
  OBVIOUS
<1>3. data \in [Splits(job) -> Seq(Choices(job, tensors))]
  BY <1>1, <1>2
<1> QED
  BY <1>1, <1>3, SplitsFacts DEF Init, IInv

\* Converting a tensor appends one of the choices.
LEMMA ConvertKeeps == IInv /\ Convert => IInv'
<1> SUFFICES ASSUME IInv, Convert PROVE IInv'
  OBVIOUS
<1>1. UNCHANGED <<job, pc, tensors, cur_split>> /\ pc = "loop"
  BY DEF Convert
<1>2. Layer \in Nat
  BY DEF IInv, Layer
<1>3. Current = tensors[next + 1] /\ next + 1 \in DOMAIN tensors
  BY DEF Convert, Current, More
<1> DEFINE e == <<Current, NewType(job, Current, Layer)>>
<1>4. e \in Choices(job, tensors)
  BY <1>2, <1>3 DEF Choices
<1>5. data' = [data EXCEPT ![cur_split] = Append(@, e)]
  BY DEF Convert
<1>6. count' = Counters(Current)
  BY DEF Convert
<1>7. count' \in [{"attn_v", "ffn_down", "ffn_gate", "ffn_up"} -> Nat]
  <2>1. ASSUME NEW r
        PROVE  [count EXCEPT ![r] = @ + 1]
                 \in [{"attn_v", "ffn_down", "ffn_gate", "ffn_up"} -> Nat]
    <3>1. CASE r \in DOMAIN count
      BY <3>1 DEF IInv
    <3>2. CASE r \notin DOMAIN count
      BY <3>2 DEF IInv
    <3> QED
      BY <3>1, <3>2
  <2> QED
    BY <1>6, <2>1 DEF IInv, Counters
<1> HIDE DEF e
<1>8. data' \in [Splits(job) -> Seq(Choices(job, tensors))]
  BY <1>4, <1>5 DEF IInv
<1>9. Choices(job', tensors') = Choices(job, tensors) /\ Splits(job') = Splits(job)
  BY <1>1
<1> QED
  BY <1>1, <1>7, <1>8, <1>9 DEF IInv

LEMMA NextIInv == IInv /\ [Next]_vars => IInv'
<1> SUFFICES ASSUME IInv, [Next]_vars PROVE IInv'
  OBVIOUS
<1>1. CASE Prepare
  <2>1. job' = job /\ count' = count /\ cur_split' = 0 /\ pc' = "loop"
    BY <1>1 DEF Prepare
  <2>2. \A s \in Splits(job) : data[s] = << >>
    BY <1>1 DEF Prepare, IInv
  <2>3. data' = [data EXCEPT ![0] = << >>]
    BY <1>1 DEF Prepare, Truncate
  <2>4. << >> \in Seq(Choices(job, tensors'))
    OBVIOUS
  <2>5. data' \in [Splits(job) -> Seq(Choices(job, tensors'))]
    BY <2>2, <2>3, <2>4 DEF IInv
  <2> QED
    BY <2>1, <2>5, SplitsFacts DEF IInv
<1>2. CASE Open
  <2>1. /\ UNCHANGED <<job, pc, tensors, count>> /\ pc = "loop"
        /\ cur_split' = SplitOf(job, Current)
        /\ data' = [data EXCEPT ![SplitOf(job, Current)] = << >>]
    BY <1>2 DEF Open, Truncate
  <2>2. << >> \in Seq(Choices(job, tensors))
    OBVIOUS
  <2>3. data' \in [Splits(job) -> Seq(Choices(job, tensors))]
    BY <2>1, <2>2 DEF IInv
  <2> QED
    BY <2>1, <2>3, SplitsFacts DEF IInv
<1>3. CASE Convert
  BY <1>3, ConvertKeeps
<1>4. CASE Close \/ Throw \/ Crash \/ UNCHANGED vars
  <2>1. /\ UNCHANGED <<job, tensors, count, cur_split, data>>
        /\ pc' = "start" => pc = "start"
    BY <1>4 DEF Close, Throw, Crash, vars
  <2> QED
    BY <2>1 DEF IInv
<1> QED
  BY <1>1, <1>2, <1>3, <1>4 DEF Next

LEMMA InvImpliesPlanKept ==
    ASSUME Complete, IInv
    PROVE  PlanKept
<1> SUFFICES ASSUME NEW s \in Splits(job), NEW k \in 1..Len(data[s]),
                    data[s][k][1] \in Planned, job.cols[data[s][k][1][2]] % 256 = 0
             PROVE  data[s][k][2] = Assigned(job)[data[s][k][1]]
  BY DEF PlanKept
<1>1. data[s] \in Seq(Choices(job, tensors))
  BY DEF IInv
<1>2. data[s][k] \in Choices(job, tensors)
  BY <1>1
<1>3. PICK n \in DOMAIN tensors, i \in Nat :
        data[s][k] = <<tensors[n], NewType(job, tensors[n], i)>>
  BY <1>2 DEF Choices
<1>4. data[s][k][1] = tensors[n] /\ data[s][k][2] = NewType(job, tensors[n], i)
  BY <1>3
<1>5. job \in Jobs
  BY DEF IInv
<1> QED
  BY <1>4, <1>5, TypeIsAssigned

\* The quantized file holds the allocation: if the command line is complete,
\* no layer, role, head grouping or file type makes llama_model_quantize_impl
\* write a planned tensor with whole blocks in another type than the one the
\* allocator assigned.
THEOREM AllocationIsWritten ==
    ASSUME Complete
    PROVE  Spec => []PlanKept
<1>1. IInv => PlanKept
  BY InvImpliesPlanKept
<1> QED
  BY <1>1, InitIInv, NextIInv, PTL DEF Spec

----------------------------------------------------------------------------
(* The vector of weights, position by position.                            *)

LEMMA FunctionIsSequence ==
    ASSUME NEW S, NEW n \in Nat, NEW f \in [1..n -> S]
    PROVE  f \in Seq(S) /\ Len(f) = n /\ DOMAIN f = 1..n
<1>1. f \in Seq(S)
  BY SeqDef
<1> QED
  BY <1>1, LenProperties

LEMMA JobInput ==
    ASSUME NEW j \in Jobs
    PROVE  \E in \in Inputs : /\ j.hasOutput = in.hasOutput /\ j.shards = in.shards
                              /\ j.keepSplit \in BOOLEAN
BY DEF Jobs

\* A sequence that has every tensor of the model once.
Lists(ts, hasOutput) ==
    /\ ts \in Seq(ModelTensors(hasOutput))
    /\ \A t \in ModelTensors(hasOutput) : \E k \in DOMAIN ts : ts[k] = t
    /\ \A k, l \in DOMAIN ts : ts[k] = ts[l] => k = l

CountedRoles == {"attn_v", "ffn_down", "ffn_gate", "ffn_up"}

\* weights_map lists the model, the layers of every role in order.
LEMMA MapLists ==
    ASSUME NEW o \in BOOLEAN
    PROVE  /\ Lists(MapOrder(o), o) /\ Len(MapOrder(o)) > 0
           /\ \A r \in CountedRoles : InOrder(MapOrder(o), r)
<1> DEFINE m == 8 * NLayer
           h == [k \in 1..m |-> BlockAt(k - 1)]
           a == <<-1, "output">>
           e == <<-1, "token_embd">>
           B == Layers \X {BlockRoles[i] : i \in 1..8}
           S == ModelTensors(o)
           lead == IF o THEN <<a, e>> ELSE <<e>>
           n == IF o THEN 2 ELSE 1
           ts == MapOrder(o)
<1>1. m \in Nat /\ NLayer \in Nat \ {0}
  BY JobAssumption
<1>2. ASSUME NEW k \in 1..m
      PROVE  /\ h[k] = <<(k - 1) \div 8, BlockRoles[((k - 1) % 8) + 1]>>
             /\ h[k] \in B /\ (k - 1) \div 8 \in Layers /\ (k - 1) % 8 \in 0..7
  <2>1. (k - 1) \div 8 \in Layers /\ (k - 1) % 8 \in 0..7
    BY <1>1 DEF Layers
  <2>2. ((k - 1) % 8) + 1 \in 1..8
    BY <2>1
  <2> QED
    BY <2>1, <2>2 DEF BlockAt
<1>3. S = (IF o THEN {a} ELSE {}) \cup {e} \cup B
  BY DEF ModelTensors
<1>4. \A i, k \in 1..8 : BlockRoles[i] = BlockRoles[k] => i = k
  BY DEF BlockRoles
<1>5. a # e /\ a \notin B /\ e \notin B
  BY <1>1 DEF Layers
<1>6. ts = (IF o THEN <<a>> ELSE << >>) \o <<e>> \o h
  BY DEF MapOrder
<1>7. h \in [1..m -> S]
  BY <1>2, <1>3
<1>8. lead \in Seq(S) /\ Len(lead) = n /\ n \in {1, 2}
  <2>1. CASE o
    BY <1>3, <2>1
  <2>2. CASE ~o
    BY <1>3, <2>2
  <2> QED
    BY <2>1, <2>2
<1>9. /\ o => lead[1] = a /\ lead[2] = e /\ a \in S
      /\ ~o => lead[1] = e
      /\ e \in S
  BY <1>3
<1> HIDE DEF m, h, S, a, e, B
<1>10. h \in Seq(S) /\ Len(h) = m
  BY <1>1, <1>7, FunctionIsSequence
<1>11. ts = lead \o h
  <2>1. ASSUME o PROVE <<a>> \o <<e>> = <<a, e>>
    <3>1. <<a>> \in Seq(S) /\ <<e>> \in Seq(S) /\ <<a, e>> \in Seq(S)
      BY <1>9, <2>1
    <3>2. Len(<<a>>) = 1 /\ Len(<<e>>) = 1 /\ Len(<<a, e>>) = 2
      OBVIOUS
    <3> DEFINE c == <<a>> \o <<e>>
    <3>3. /\ c \in Seq(S) /\ Len(c) = 1 + 1
          /\ \A i \in 1..(1 + 1) : c[i] = IF i <= 1 THEN <<a>>[i] ELSE <<e>>[i - 1]
      BY <3>1, <3>2, ConcatProperties
    <3> HIDE DEF c
    <3>4. c[1] = a /\ c[2] = e
      BY <3>3
    <3>5. \A i \in 1..Len(c) : c[i] = <<a, e>>[i]
      BY <3>3, <3>4
    <3>6. c = <<a, e>>
      BY <3>1, <3>2, <3>3, <3>5, SeqEqual
    <3> QED
      BY <3>6 DEF c
  <2>2. << >> \o <<e>> = <<e>>
    <3>1. <<e>> \in Seq({e})
      OBVIOUS
    <3> QED
      BY <3>1, ConcatEmptySeq
  <2> QED
    BY <1>6, <2>1, <2>2
<1> HIDE DEF ts, lead
<1>12. /\ ts \in Seq(S) /\ Len(ts) = n + m
       /\ \A k \in 1..(n + m) : ts[k] = IF k <= n THEN lead[k] ELSE h[k - n]
  <2> HIDE DEF n
  <2>1. /\ lead \o h \in Seq(S) /\ Len(lead \o h) = Len(lead) + Len(h)
        /\ \A k \in 1..(Len(lead) + Len(h)) :
             (lead \o h)[k] = IF k <= Len(lead) THEN lead[k] ELSE h[k - Len(lead)]
    BY <1>8, <1>10, ConcatProperties
  <2> QED
    BY <1>8, <1>10, <1>11, <2>1
<1>13. DOMAIN ts = 1..(n + m) /\ n + m > 0
  BY <1>1, <1>8, <1>12, LenProperties
<1>14. ASSUME NEW k \in 1..(n + m), k > n
       PROVE  /\ k - n \in 1..m /\ ts[k] = h[k - n] /\ ts[k] \in B
              /\ ts[k] = <<(k - n - 1) \div 8, BlockRoles[((k - n - 1) % 8) + 1]>>
              /\ (k - n - 1) % 8 \in 0..7
  <2> DEFINE i == k - n
  <2>1. i \in 1..m /\ ts[k] = h[i]
    BY <1>1, <1>8, <1>12, <1>14
  <2> HIDE DEF i
  <2>2. /\ h[i] = <<(i - 1) \div 8, BlockRoles[((i - 1) % 8) + 1]>>
        /\ h[i] \in B /\ (i - 1) % 8 \in 0..7
    BY <1>2, <2>1
  <2> QED
    BY <2>1, <2>2 DEF i
<1>15. ASSUME NEW k \in 1..(n + m), k <= n PROVE ts[k] = lead[k] /\ ts[k] \in {a, e}
  BY <1>8, <1>9, <1>12, <1>15
<1>16. ASSUME NEW t \in S PROVE \E k \in DOMAIN ts : ts[k] = t
  <2>1. CASE t \in B
    <3>1. PICK l \in Layers, i \in 1..8 : t = <<l, BlockRoles[i]>>
      BY <2>1 DEF B
    <3> DEFINE k == n + 8 * l + i
               b == 8 * l + i - 1
    <3>2. l \in Nat /\ l < NLayer
      BY <1>1, <3>1 DEF Layers
    <3>3. k \in 1..(n + m) /\ k > n /\ k - n - 1 = b
      BY <1>1, <1>8, <3>2 DEF m
    <3>4. b \div 8 = l /\ b % 8 = i - 1
      BY <3>2
    <3> HIDE DEF k, b
    <3>5. ts[k] = <<b \div 8, BlockRoles[(b % 8) + 1]>>
      BY <1>14, <3>3
    <3>6. (b % 8) + 1 = i
      BY <3>4
    <3> QED
      BY <1>13, <3>1, <3>3, <3>4, <3>5, <3>6
  <2>2. CASE t \notin B
    <3>1. t = e \/ (o /\ t = a)
      BY <1>3, <2>2
    <3>2. ts[n] = lead[n] /\ ts[1] = lead[1] /\ n \in 1..(n + m) /\ 1 \in 1..(n + m)
      BY <1>1, <1>8, <1>12
    <3>3. lead[n] = e
      BY <1>9
    <3> QED
      BY <1>9, <1>13, <3>1, <3>2, <3>3
  <2> QED
    BY <2>1, <2>2
<1>17. ASSUME NEW k \in 1..(n + m), NEW l \in 1..(n + m), k > n, l > n, ts[k][2] = ts[l][2]
       PROVE  /\ ts[k][1] = ts[l][1] => k = l
              /\ k < l => ts[k][1] < ts[l][1]
  <2> DEFINE b == k - n - 1
             c == l - n - 1
  <2>1. /\ ts[k] = <<b \div 8, BlockRoles[(b % 8) + 1]>> /\ b % 8 \in 0..7
        /\ ts[l] = <<c \div 8, BlockRoles[(c % 8) + 1]>> /\ c % 8 \in 0..7
    BY <1>14, <1>17
  <2>2. b \in Nat /\ c \in Nat /\ k = b + n + 1 /\ l = c + n + 1
    BY <1>1, <1>8, <1>17
  <2> HIDE DEF b, c
  <2>3. ts[k][1] = b \div 8 /\ ts[l][1] = c \div 8
        /\ BlockRoles[(b % 8) + 1] = BlockRoles[(c % 8) + 1]
    BY <1>17, <2>1
  <2>4. (b % 8) + 1 \in 1..8 /\ (c % 8) + 1 \in 1..8
    BY <2>1
  <2>5. (b % 8) + 1 = (c % 8) + 1
    BY <1>4, <2>3, <2>4
  <2>6. b % 8 = c % 8
    BY <2>1, <2>5
  <2>7. (b \div 8 = c \div 8 => b = c) /\ (b < c => b \div 8 < c \div 8)
    BY <2>2, <2>6
  <2> QED
    BY <1>8, <2>2, <2>3, <2>7
<1>18. ASSUME NEW k \in 1..(n + m), NEW l \in 1..(n + m), ts[k] = ts[l] PROVE k = l
  <2>1. CASE k > n /\ l > n
    BY <1>17, <1>18, <2>1
  <2>2. CASE k <= n /\ l <= n
    <3>1. lead[k] = lead[l]
      BY <1>15, <1>18, <2>2
    <3>2. k \in 1..n /\ l \in 1..n
      BY <1>1, <1>8, <2>2
    <3>3. CASE o
      BY <1>5, <1>8, <1>9, <3>1, <3>2, <3>3
    <3>4. CASE ~o
      BY <3>2, <3>4
    <3> QED
      BY <3>3, <3>4
  <2>3. CASE k > n /\ l <= n
    BY <1>5, <1>14, <1>15, <1>18, <2>3
  <2>4. CASE k <= n /\ l > n
    BY <1>5, <1>14, <1>15, <1>18, <2>4
  <2>5. k \in Nat /\ l \in Nat /\ n \in Nat
    BY <1>8
  <2> QED
    BY <2>1, <2>2, <2>3, <2>4, <2>5
<1>19. ASSUME NEW r \in CountedRoles, NEW k \in 1..(n + m), ts[k][2] = r PROVE k > n
  <2>1. CASE k <= n
    <3>1. ts[k] = a \/ ts[k] = e
      BY <1>15, <2>1
    <3>2. ts[k][2] \in {"output", "token_embd"}
      BY <3>1 DEF a, e
    <3> QED
      BY <1>19, <3>2 DEF CountedRoles
  <2>2. k \in Nat /\ n \in Nat
    BY <1>8
  <2> QED
    BY <2>1, <2>2
<1>20. ASSUME NEW r \in CountedRoles PROVE InOrder(ts, r)
  <2> SUFFICES ASSUME NEW k \in DOMAIN ts, NEW l \in DOMAIN ts, ts[k][2] = r, ts[l][2] = r, k < l
               PROVE  ts[k][1] < ts[l][1]
    BY DEF InOrder
  <2>1. k > n /\ l > n
    BY <1>13, <1>19
  <2> QED
    BY <1>13, <1>17, <2>1
<1>21. Lists(ts, o)
  BY <1>12, <1>13, <1>16, <1>18 DEF Lists, S
<1> QED
  BY <1>12, <1>13, <1>20, <1>21 DEF ts

\* The number of tensors.
Total(j) == Len(Sorted(j))

\* The vector of weights lists the model, in the order of the map or of the input files.
LEMMA Order ==
    ASSUME NEW j \in Jobs
    PROVE  /\ Total(j) \in Nat /\ Total(j) > 0
           /\ DOMAIN Sorted(j) = 1..Total(j) /\ Len(Sorted(j)) = Total(j)
           /\ Lists(Sorted(j), j.hasOutput)
           /\ \A k \in 1..Total(j) : Sorted(j)[k] \in ({-1} \cup Layers) \X Roles
           /\ ~j.keepSplit => \A r \in CountedRoles : InOrder(Sorted(j), r)
<1>1. PICK in \in Inputs : j.hasOutput = in.hasOutput /\ j.shards = in.shards
                           /\ j.keepSplit \in BOOLEAN
  BY JobInput
<1>2. j.hasOutput \in BOOLEAN
  BY <1>1, InputAssumption
<1>3. /\ Lists(Sorted(j), j.hasOutput) /\ Len(Sorted(j)) > 0
      /\ ~j.keepSplit => \A r \in CountedRoles : InOrder(Sorted(j), r)
  <2>1. CASE j.keepSplit
    <3> DEFINE o == j.hasOutput
               x == j.shards[1]
               y == j.shards[2]
    <3>1. /\ x \in Seq(ModelTensors(o)) /\ y \in Seq(ModelTensors(o)) /\ x # << >>
          /\ \A t \in ModelTensors(o) : \E k \in DOMAIN (x \o y) : (x \o y)[k] = t
          /\ \A k, l \in DOMAIN (x \o y) : (x \o y)[k] = (x \o y)[l] => k = l
      <4>1. /\ \A s \in {1, 2} : in.shards[s] \in Seq(ModelTensors(in.hasOutput))
            /\ in.shards[1] # << >>
            /\ \A t \in ModelTensors(in.hasOutput) :
                 \E k \in DOMAIN (in.shards[1] \o in.shards[2]) :
                     (in.shards[1] \o in.shards[2])[k] = t
            /\ \A k, l \in DOMAIN (in.shards[1] \o in.shards[2]) :
                 (in.shards[1] \o in.shards[2])[k] = (in.shards[1] \o in.shards[2])[l] => k = l
        BY InputAssumption, Zenon
      <4> QED
        BY <1>1, <4>1, Zenon
    <3>2. Sorted(j) = x \o y
      BY <2>1 DEF Sorted
    <3> HIDE DEF x, y, o
    <3>3. x \o y \in Seq(ModelTensors(o)) /\ Len(x \o y) = Len(x) + Len(y)
      BY <3>1, ConcatProperties
    <3>4. Len(x) \in Nat /\ Len(y) \in Nat /\ Len(x) # 0
      BY <3>1, EmptySeq, LenProperties
    <3>5. Len(x \o y) > 0
      BY <3>3, <3>4
    <3>6. Lists(x \o y, o)
      BY <3>1, <3>3 DEF Lists
    <3> QED
      BY <2>1, <3>2, <3>5, <3>6 DEF o
  <2>2. CASE ~j.keepSplit
    <3>1. Sorted(j) = MapOrder(j.hasOutput)
      BY <2>2 DEF Sorted
    <3> QED
      BY <1>2, <3>1, MapLists
  <2> QED
    BY <2>1, <2>2
<1>4. Sorted(j) \in Seq(ModelTensors(j.hasOutput))
  BY <1>3 DEF Lists
<1>5. /\ Total(j) \in Nat /\ DOMAIN Sorted(j) = 1..Total(j)
      /\ \A k \in 1..Total(j) : Sorted(j)[k] \in ModelTensors(j.hasOutput)
  BY <1>4, LenProperties, ElementOfSeq DEF Total
<1>6. ModelTensors(j.hasOutput) \subseteq ({-1} \cup Layers) \X Roles
  BY DEF ModelTensors, Roles
<1> QED
  BY <1>3, <1>5, <1>6 DEF Total

\* The layers of the role that are among the first n tensors, and their number.
Seen(j, n, r) == {l \in Layers : \E k \in 1..n : Sorted(j)[k] = <<l, r>>}
Before(j, n, r) == Cardinality(Seen(j, n, r))

LEMMA BeforeTyped ==
    ASSUME NEW j, NEW n, NEW r
    PROVE  IsFiniteSet(Seen(j, n, r)) /\ Before(j, n, r) \in 0..NLayer
<1>1. IsFiniteSet(Layers) /\ Cardinality(Layers) = NLayer /\ NLayer \in Nat
  <2>1. NLayer \in Nat \ {0} /\ 0 \in Int /\ NLayer - 1 \in Int
    BY JobAssumption
  <2>2. IsFiniteSet(0..(NLayer - 1))
        /\ Cardinality(0..(NLayer - 1)) = IF 0 > NLayer - 1 THEN 0 ELSE NLayer - 1 - 0 + 1
    BY <2>1, FS_Interval
  <2> QED
    BY <2>1, <2>2 DEF Layers
<1>2. Seen(j, n, r) \in SUBSET Layers
  BY DEF Seen
<1>3. IsFiniteSet(Seen(j, n, r)) /\ Cardinality(Seen(j, n, r)) <= NLayer
  BY <1>1, <1>2, FS_Subset
<1>4. Cardinality(Seen(j, n, r)) \in Nat
  BY <1>3, FS_CardinalityType
<1> QED
  BY <1>1, <1>3, <1>4 DEF Before

\* What is before a tensor of a counted role in the vector: if the layers come in order,
\* those below its own.
LEMMA LayerFromPosition ==
    ASSUME NEW j \in Jobs, NEW n \in 0..(Total(j) - 1), NEW r \in CountedRoles
    PROVE  LET t == Sorted(j)[n + 1]
           IN  /\ t[2] = r => Before(j, n + 1, r) = Before(j, n, r) + 1
               /\ t[2] # r => Before(j, n + 1, r) = Before(j, n, r)
               /\ t[2] = r /\ InOrder(Sorted(j), r) => Before(j, n, r) = t[1]
<1> DEFINE ts == Sorted(j)
           t == ts[n + 1]
           S == Seen(j, n, r)
<1>1. /\ Total(j) \in Nat /\ DOMAIN ts = 1..Total(j) /\ Lists(ts, j.hasOutput)
      /\ ts \in Seq(ModelTensors(j.hasOutput))
  BY Order DEF Lists
<1>2. n \in Nat /\ n + 1 \in DOMAIN ts /\ \A k \in 1..n : k \in DOMAIN ts /\ k # n + 1
  BY <1>1
<1>3. 1..(n + 1) = (1..n) \cup {n + 1}
  BY <1>2
<1>4. t \in ModelTensors(j.hasOutput)
  BY <1>1, <1>2
<1>5. \A k, l \in DOMAIN ts : ts[k] = ts[l] => k = l
  BY <1>1 DEF Lists
<1>6. ASSUME t[2] = r PROVE t = <<t[1], r>> /\ t[1] \in Layers
  <2>1. t[2] \notin {"output", "token_embd"}
    BY <1>6 DEF CountedRoles
  <2>2. t \in Layers \X {BlockRoles[i] : i \in 1..8}
    BY <1>4, <2>1 DEF ModelTensors
  <2> QED
    BY <1>6, <2>2
<1> HIDE DEF ts, t
<1>7. Seen(j, n + 1, r) = {l \in Layers : (\E k \in 1..n : ts[k] = <<l, r>>) \/ t = <<l, r>>}
  BY <1>3 DEF Seen, ts, t
<1>8. S = {l \in Layers : \E k \in 1..n : ts[k] = <<l, r>>}
  BY DEF Seen, ts
<1>9. IsFiniteSet(S) /\ Before(j, n, r) = Cardinality(S) /\ Cardinality(S) \in Nat
  BY BeforeTyped, FS_CardinalityType DEF Before
<1>10. ASSUME t[2] = r PROVE Before(j, n + 1, r) = Before(j, n, r) + 1
  <2>1. t[1] \notin S
    <3> SUFFICES ASSUME NEW k \in 1..n, ts[k] = <<t[1], r>> PROVE FALSE
      BY <1>8
    <3>1. ts[k] = ts[n + 1]
      BY <1>6, <1>10 DEF t
    <3> QED
      BY <1>2, <1>5, <3>1
  <2>2. \A l : t = <<l, r>> <=> l = t[1]
    BY <1>6, <1>10
  <2>3. Seen(j, n + 1, r) = S \cup {t[1]}
    BY <1>6, <1>7, <1>8, <1>10, <2>2
  <2>4. Cardinality(S \cup {t[1]}) = Cardinality(S) + 1
    <3> HIDE DEF S
    <3> QED
      BY <1>9, <2>1, FS_AddElement
  <2> QED
    BY <1>9, <2>3, <2>4 DEF Before
<1>11. ASSUME t[2] # r PROVE Before(j, n + 1, r) = Before(j, n, r)
  <2>1. \A l : t # <<l, r>>
    BY <1>11
  <2>2. Seen(j, n + 1, r) = S
    BY <1>7, <1>8, <2>1
  <2> QED
    BY <2>2 DEF Before
<1>12. ASSUME t[2] = r, InOrder(ts, r) PROVE Before(j, n, r) = t[1]
  <2>1. \A k, l \in DOMAIN ts : ts[k][2] = r /\ ts[l][2] = r /\ k < l => ts[k][1] < ts[l][1]
    BY <1>12 DEF InOrder
  <2>2. t[1] \in Nat /\ t[1] < NLayer /\ NLayer \in Nat /\ t = <<t[1], r>>
    BY <1>6, <1>12, JobAssumption DEF Layers
  <2>3. ASSUME NEW l \in S PROVE l \in 0..(t[1] - 1)
    <3>1. PICK k \in 1..n : ts[k] = <<l, r>>
      BY <1>8
    <3>2. k \in DOMAIN ts /\ k < n + 1 /\ ts[k][1] = l /\ ts[k][2] = r
      BY <1>2, <3>1
    <3>3. l < t[1]
      BY <1>2, <1>12, <2>1, <3>2 DEF t
    <3>4. l \in Nat
      BY <1>8, JobAssumption DEF Layers
    <3> QED
      BY <2>2, <3>3, <3>4
  <2>4. ASSUME NEW l \in 0..(t[1] - 1) PROVE l \in S
    <3>1. l \in Layers /\ l \in Nat /\ l < t[1]
      BY <2>2 DEF Layers
    <3>2. r \in {BlockRoles[i] : i \in 1..8}
      <4>1. r = BlockRoles[5] \/ r = BlockRoles[6] \/ r = BlockRoles[7] \/ r = BlockRoles[8]
        BY DEF CountedRoles, BlockRoles
      <4> QED
        BY <4>1
    <3>3. <<l, r>> \in ModelTensors(j.hasOutput)
      BY <3>1, <3>2 DEF ModelTensors
    <3>4. PICK k \in DOMAIN ts : ts[k] = <<l, r>>
      BY <1>1, <3>3 DEF Lists
    <3>5. ts[k][1] = l /\ ts[k][2] = r
      BY <3>4
    <3>6. ~(n + 1 < k) /\ k # n + 1
      BY <1>2, <1>12, <2>1, <2>2, <3>1, <3>5 DEF t
    <3>7. k \in 1..n
      BY <1>1, <1>2, <3>6
    <3> QED
      BY <1>8, <3>1, <3>4, <3>7
  <2>5. S = 0..(t[1] - 1)
    BY <2>3, <2>4
  <2>6. Cardinality(0..(t[1] - 1)) = t[1]
    <3>1. 0 \in Int /\ t[1] - 1 \in Int
      BY <2>2
    <3>2. Cardinality(0..(t[1] - 1)) = IF 0 > t[1] - 1 THEN 0 ELSE t[1] - 1 - 0 + 1
      BY <3>1, FS_Interval
    <3> QED
      BY <2>2, <3>2
  <2> QED
    BY <1>9, <2>5, <2>6
<1> QED
  BY <1>10, <1>11, <1>12 DEF t, ts


----------------------------------------------------------------------------
(* The types the loop can choose.                                          *)

LEMMA JobShape ==
    ASSUME NEW j \in Jobs
    PROVE  /\ j.who \in {"allocate", "driver"}
           /\ j.base \in {"IQ2_XS", "IQ2_S", "Q2_K", "IQ3_S", "Q3_K", "Q3_K_M", "Q4_K"}
           /\ j.who = "allocate" => j.base # "Q3_K_M"
           /\ j.upType \in UpTypes /\ j.src \in Types
<1>1. PICK e \in Emissions, ut \in UpTypes, s \in Sources :
        j.who = e[1] /\ j.base = e[2] /\ j.upType = ut /\ j.src = s
  BY DEF Jobs
<1>2. e = <<e[1], e[2]>> /\ e[1] \in {"allocate", "driver"}
        /\ e[2] \in {"IQ2_XS", "IQ2_S", "Q2_K", "IQ3_S", "Q3_K", "Q3_K_M", "Q4_K"}
  BY JobAssumption
<1> QED
  BY <1>1, <1>2, JobAssumption, SourceAssumption

\* No heuristic, override or fallback leaves the tensor types.
LEMMA TypeKnown ==
    ASSUME NEW j \in Jobs, NEW t, NEW i
    PROVE  NewType(j, t, i) \in Types /\ SourceType(j, t) \in Types
<1> DEFINE f == FType(j.base)
           d == DefaultType(f)
<1>1. f \in {"IQ2_XS", "IQ2_S", "Q2_K", "IQ3_S", "Q3_K_M", "Q4_K_M"}
  BY JobShape DEF FType
<1> HIDE DEF f
<1>2. d \in Types
  BY <1>1 DEF DefaultType, Types
<1> HIDE DEF d
<1>3. TokType(j) = None \/ TokType(j) \in Types
  BY JobShape DEF TokType, Types
<1>4. OutType(j) = None \/ OutType(j) \in Types
  BY DEF OutType, Types
<1>5. OutputRule(f, d, j.cols[t[2]], OutType(j)) \in Types
  <2>1. CASE OutType(j) # None
    BY <1>4, <2>1 DEF OutputRule
  <2>2. CASE OutType(j) = None /\ ~Fits(j.cols[t[2]], d)
    BY <2>2 DEF OutputRule, Types
  <2>3. CASE OutType(j) = None /\ Fits(j.cols[t[2]], d)
    BY <1>2, <2>3 DEF OutputRule, Types
  <2> QED
    BY <2>1, <2>2, <2>3
<1>6. EmbeddingRule(f, d, TokType(j)) \in Types
  BY <1>2, <1>3 DEF EmbeddingRule, Types
<1>7. BlockRule(f, t[2], d, i, NLayer, j.gqa) \in Types
  <2> DEFINE r == t[2]
             g == j.gqa
  <2> HIDE DEF r, g
  <2>1. BlockRule(f, r, d, i, NLayer, g) \in Types
    BY <1>1, <1>2 DEF BlockRule, Types
  <2> QED
    BY <2>1 DEF r, g
<1>8. Heuristic(j, t, i) \in Types
  <2>1. \/ Heuristic(j, t, i) = OutputRule(f, d, j.cols[t[2]], OutType(j))
        \/ Heuristic(j, t, i) = EmbeddingRule(f, d, TokType(j))
        \/ Heuristic(j, t, i) = BlockRule(f, t[2], d, i, NLayer, j.gqa)
    BY DEF Heuristic, f, d
  <2> QED
    BY <1>5, <1>6, <1>7, <2>1
<1>9. GetType(j, t, i) \in Types
  <2>1. \A type, cols : Fallback(type, cols) \in Types
    BY DEF Fallback, Types
  <2> QED
    BY <1>8, <2>1 DEF GetType
<1>10. ASSUME NEW u \in DOMAIN Overrides(j) PROVE Overrides(j)[u] \in Types
  <2>1. Overrides(j)[u] = Assigned(j)[u] /\ u \in Planned
    BY DEF Overrides
  <2>2. Assigned(j)[u] \in UpTypes \/ Assigned(j)[u] = Canonical(j.base)
    BY <2>1, JobShape DEF Assigned
  <2>3. Canonical(j.base) \in Types
    BY JobShape DEF Canonical, Types
  <2> QED
    BY <2>1, <2>2, <2>3 DEF Types
<1>11. WithOverride(j, t, i) \in Types
  BY <1>9, <1>10 DEF WithOverride
<1>12. "F32" \in Types
  BY DEF Types
<1>13. SourceType(j, t) \in Types
  BY <1>12, JobShape DEF SourceType
<1> QED
  BY <1>3, <1>4, <1>11, <1>12, <1>13 DEF NewType

----------------------------------------------------------------------------
(* The inductive invariant of the conversion loop: where it stands in the  *)
(* vector, what the counters are, and how far each shard is.               *)

\* What a shard holds, and what a tensor can have been given.
Entries == (({-1} \cup Layers) \X Roles) \X Types
Given == {"copied", "column", "weight", "uniform", "none"}

\* The tensors of a shard stand together: after the Lo-th, up to the Hi-th.
Halved(j) == j.keepSplit /\ j.shards[2] # << >>
Mid(j) == Len(j.shards[1])
Lo(j, s) == IF s = 1 THEN Mid(j) ELSE 0
Hi(j, s) == IF Halved(j) /\ s = 0 THEN Mid(j) ELSE Total(j)

\* d holds the tensors after the lo-th, up to the hi-th, with their types.
IsPiece(d, ts, c, lo, hi) ==
    /\ d \in Seq(Entries)
    /\ Len(d) = (IF lo < hi THEN hi - lo ELSE 0)
    /\ \A k \in 1..Len(d) : d[k] = <<ts[lo + k], c[lo + k]>>

Least(m, n) == IF m <= n THEN m ELSE n

\* Where the loop stands.
Position ==
    /\ job \in Jobs
    /\ pc \in {"start", "loop", "done", "failed"}
    /\ fout \in BOOLEAN /\ cur_split \in Splits(job)
    /\ count \in [CountedRoles -> Nat]
    /\ data \in [Splits(job) -> Seq(Entries)]
    /\ meta \in [Splits(job) -> Seq(Entries)]
    /\ pc = "start" =>
         /\ tensors = << >> /\ ctx = << >> /\ used = << >> /\ next = 0 /\ ~fout
         /\ \A r \in CountedRoles : count[r] = 0
         /\ \A s \in Splits(job) : data[s] = << >> /\ meta[s] = << >>
    /\ pc # "start" =>
         /\ tensors = Sorted(job) /\ next \in 0..Total(job)
         /\ ctx \in [1..Total(job) -> Types]
         /\ used \in Seq(Given) /\ Len(used) = next

\* The counters are the tensors of their role behind the loop.
Counts ==
    pc # "start" =>
        \A r \in CountedRoles :
            count[r] = IF r \in Counted(FType(job.base)) THEN Before(job, next, r) ELSE 0

\* The loop fills one shard after the other, and a header follows its data.
Shards ==
    pc # "start" =>
        /\ \A s \in Splits(job) :
             /\ IsPiece(data[s], tensors, ctx, Lo(job, s), Least(next, Hi(job, s)))
             /\ meta[s] # << >> => /\ next >= Hi(job, s)
                                   /\ IsPiece(meta[s], tensors, ctx, Lo(job, s), Hi(job, s))
        /\ fout => /\ pc = "loop" /\ meta[cur_split] = << >>
                   /\ Lo(job, cur_split) <= next /\ next <= Hi(job, cur_split)
                   /\ \A s \in Splits(job) : s < cur_split => meta[s] # << >>
        /\ pc = "loop" /\ ~fout => Halved(job) /\ next = Mid(job) /\ meta[0] # << >>
        /\ pc = "done" => \A s \in Splits(job) : meta[s] # << >>

LoopInv == Position /\ Counts /\ Shards /\ KernelHasWeights

----------------------------------------------------------------------------
(* The shards of the vector.                                               *)

\* The bounds of the shards.
LEMMA Bounds ==
    ASSUME NEW j \in Jobs, NEW s \in Splits(j)
    PROVE  /\ Lo(j, s) \in Nat /\ Hi(j, s) \in Nat /\ Total(j) \in Nat /\ Mid(j) \in Nat
           /\ Lo(j, s) < Hi(j, s) /\ Hi(j, s) <= Total(j)
           /\ Hi(j, s) < Total(j) <=> (Halved(j) /\ s = 0)
           /\ Halved(j) /\ s = 0 => Hi(j, s) = Mid(j)
           /\ s = 1 => Halved(j) /\ Lo(j, s) = Mid(j) /\ Hi(j, s) = Total(j)
           /\ Halved(j) => Mid(j) < Total(j)
           /\ s \in {0, 1}
<1>1. Total(j) \in Nat /\ Total(j) > 0
  BY Order
<1>2. /\ Mid(j) \in Nat /\ Mid(j) > 0
      /\ j.keepSplit => Total(j) = Mid(j) + Len(j.shards[2])
      /\ Len(j.shards[2]) \in Nat /\ (j.shards[2] # << >> => Len(j.shards[2]) > 0)
  <2>1. PICK in \in Inputs : j.hasOutput = in.hasOutput /\ j.shards = in.shards
    BY JobInput
  <2> DEFINE x == j.shards[1]
             y == j.shards[2]
             S == ModelTensors(j.hasOutput)
  <2>2. x \in Seq(S) /\ y \in Seq(S) /\ x # << >>
    BY <2>1, InputAssumption
  <2>3. Total(j) = Len(x \o y) \/ ~j.keepSplit
    BY DEF Total, Sorted
  <2> HIDE DEF x, y, S
  <2>4. Len(x \o y) = Len(x) + Len(y)
    BY <2>2, ConcatProperties
  <2>5. /\ Len(x) \in Nat /\ Len(y) \in Nat /\ Len(x) # 0
        /\ y # << >> => Len(y) # 0
    BY <2>2, EmptySeq, LenProperties
  <2>6. Mid(j) = Len(x)
    BY DEF Mid, x
  <2> QED
    BY <2>3, <2>4, <2>5, <2>6 DEF y
<1>3. s \in {0, 1} /\ (s = 1 => Halved(j))
  BY DEF Splits, Halved
<1> QED
  BY <1>1, <1>2, <1>3 DEF Lo, Hi, Halved

\* A tensor is in the shard whose bounds it is between.
LEMMA SplitByPosition ==
    ASSUME NEW j \in Jobs, NEW s \in Splits(j), NEW k \in 1..Total(j)
    PROVE  SplitOf(j, Sorted(j)[k]) = s <=> Lo(j, s) < k /\ k <= Hi(j, s)
<1>1. Total(j) \in Nat /\ Mid(j) \in Nat
  BY Bounds
<1>2. CASE ~j.keepSplit
  <2>1. s = 0 /\ SplitOf(j, Sorted(j)[k]) = 0
    BY <1>2 DEF Splits, SplitOf
  <2>2. Lo(j, s) = 0 /\ Hi(j, s) = Total(j)
    BY <1>2, <2>1 DEF Lo, Hi, Halved
  <2> QED
    BY <1>1, <2>1, <2>2
<1>3. CASE j.keepSplit
  <2>1. PICK in \in Inputs : j.hasOutput = in.hasOutput /\ j.shards = in.shards
    BY JobInput
  <2> DEFINE x == j.shards[1]
             y == j.shards[2]
             ts == Sorted(j)
             S == ModelTensors(j.hasOutput)
  <2>2. /\ x \in Seq(S) /\ y \in Seq(S) /\ Mid(j) = Len(x) /\ ts = x \o y
        /\ Total(j) = Len(ts)
    BY <1>3, <2>1, InputAssumption DEF Mid, Sorted, Total
  <2>3. \A i, l \in DOMAIN ts : ts[i] = ts[l] => i = l
    BY Order DEF Lists
  <2>4. DOMAIN ts = 1..Total(j)
    BY Order
  <2>5. SplitOf(j, ts[k]) = IF \E i \in DOMAIN y : y[i] = ts[k] THEN 1 ELSE 0
    BY <1>3 DEF SplitOf
  <2>6. y = << >> => Hi(j, s) = Total(j) /\ s = 0
    BY DEF Hi, Halved, Splits
  <2>7. y # << >> => Halved(j)
    BY <1>3 DEF Halved
  <2> HIDE DEF x, y, ts, S
  <2>8. /\ Len(ts) = Len(x) + Len(y)
        /\ \A i \in 1..(Len(x) + Len(y)) : ts[i] = IF i <= Len(x) THEN x[i] ELSE y[i - Len(x)]
    BY <2>2, ConcatProperties
  <2>9. Len(x) \in Nat /\ Len(y) \in Nat /\ DOMAIN y = 1..Len(y) /\ (y = << >> => Len(y) = 0)
    BY <2>2, EmptySeq, LenProperties
  <2>10. (\E i \in DOMAIN y : y[i] = ts[k]) <=> k > Mid(j)
    <3>1. ASSUME NEW i \in DOMAIN y, y[i] = ts[k] PROVE k > Mid(j)
      <4> DEFINE l == Len(x) + i
      <4>1. l \in 1..(Len(x) + Len(y)) /\ ~(l <= Len(x)) /\ l - Len(x) = i
        BY <2>9
      <4> HIDE DEF l
      <4>2. ts[l] = y[i]
        BY <2>8, <4>1
      <4>3. l \in DOMAIN ts /\ k \in DOMAIN ts
        BY <2>2, <2>4, <2>8, <4>1
      <4>4. k = l
        BY <2>3, <3>1, <4>2, <4>3
      <4> QED
        BY <2>2, <2>9, <4>1, <4>4
    <3>2. ASSUME k > Mid(j) PROVE \E i \in DOMAIN y : y[i] = ts[k]
      <4>1. k \in 1..(Len(x) + Len(y)) /\ ~(k <= Len(x)) /\ k - Len(x) \in DOMAIN y
        BY <1>1, <2>2, <2>8, <2>9, <3>2
      <4>2. ts[k] = y[k - Len(x)]
        BY <2>8, <4>1
      <4> QED
        BY <4>1, <4>2
    <3> QED
      BY <3>1, <3>2
  <2>11. SplitOf(j, ts[k]) = IF k > Mid(j) THEN 1 ELSE 0
    BY <2>5, <2>10
  <2>12. CASE y = << >>
    <3>1. Total(j) = Mid(j)
      BY <2>2, <2>8, <2>9, <2>12
    <3>2. s = 0 /\ Lo(j, s) = 0 /\ Hi(j, s) = Total(j)
      BY <2>6, <2>12 DEF Lo
    <3> QED
      BY <1>1, <2>11, <3>1, <3>2 DEF ts
  <2>13. CASE y # << >>
    <3>1. s \in {0, 1} /\ Lo(j, s) = (IF s = 1 THEN Mid(j) ELSE 0)
            /\ Hi(j, s) = (IF s = 0 THEN Mid(j) ELSE Total(j))
      BY <2>7, <2>13, Bounds DEF Lo, Hi
    <3> QED
      BY <1>1, <2>11, <3>1 DEF ts
  <2> QED
    BY <2>12, <2>13
<1> QED
  BY <1>2, <1>3

\* The metadata of a shard: the loop over the vector adds the tensors between its bounds.
LEMMA MetaIsPiece ==
    ASSUME Position, pc # "start", NEW s \in Splits(job)
    PROVE  IsPiece(Meta(s), tensors, ctx, Lo(job, s), Hi(job, s))
<1> DEFINE n == Total(job)
           lo == Lo(job, s)
           hi == Hi(job, s)
           e(k) == <<tensors[k], ctx[k]>>
           in(k) == SplitOf(job, tensors[k]) = s
           piece(h) == [i \in 1..(h - lo) |-> e(lo + i)]
           g == [k \in 0..n |-> piece(Least(k, hi))]
<1>1. /\ job \in Jobs /\ tensors = Sorted(job) /\ ctx \in [1..n -> Types] /\ Len(tensors) = n
      /\ n \in Nat /\ lo \in Nat /\ hi \in Nat /\ lo < hi /\ hi <= n
  <2>1. job \in Jobs /\ tensors = Sorted(job) /\ ctx \in [1..n -> Types]
    BY DEF Position
  <2> QED
    BY <2>1, Order, Bounds
<1>2. ASSUME NEW k \in 1..n PROVE e(k) \in Entries
  <2>1. Sorted(job)[k] \in ({-1} \cup Layers) \X Roles
    BY <1>1, Order
  <2> QED
    BY <1>1, <2>1 DEF Entries
<1>3. ASSUME NEW k \in 1..n PROVE in(k) <=> lo < k /\ k <= hi
  BY <1>1, SplitByPosition
<1>4. ASSUME NEW h \in Nat, h <= n
      PROVE  /\ piece(h) \in Seq(Entries)
             /\ Len(piece(h)) = (IF lo < h THEN h - lo ELSE 0)
             /\ \A i \in 1..Len(piece(h)) : piece(h)[i] = e(lo + i)
  <2> DEFINE m == IF lo < h THEN h - lo ELSE 0
  <2>1. m \in Nat /\ 1..(h - lo) = 1..m
    BY <1>1, <1>4
  <2>2. \A i \in 1..m : lo + i \in 1..n
    BY <1>1, <1>4
  <2>3. \A i \in 1..m : e(lo + i) \in Entries
    BY <1>2, <2>2
  <2> HIDE DEF m, e
  <2>4. piece(h) \in [1..m -> Entries] /\ \A i \in 1..m : piece(h)[i] = e(lo + i)
    BY <2>1, <2>3
  <2> HIDE DEF piece
  <2>5. piece(h) \in Seq(Entries) /\ Len(piece(h)) = m
    BY <2>1, <2>4, FunctionIsSequence
  <2> QED
    BY <2>4, <2>5 DEF m
<1> DEFINE added[k \in 0..Len(tensors)] ==
               IF k = 0 THEN << >>
               ELSE IF SplitOf(job, tensors[k]) = s
               THEN Append(added[k - 1], <<tensors[k], ctx[k]>>)
               ELSE added[k - 1]
<1>5. Meta(s) = added[Len(tensors)]
  BY DEF Meta
<1>6. \A k \in 0..n : g[k] = IF k = 0 THEN << >> ELSE IF in(k) THEN Append(g[k - 1], e(k))
                             ELSE g[k - 1]
  <2> HIDE DEF n, lo, hi, in, e, piece
  <2>1. g[0] = << >>
    <3>1. g[0] = piece(0)
      BY <1>1 DEF Least
    <3>2. piece(0) \in Seq(Entries) /\ Len(piece(0)) = 0
      BY <1>1, <1>4
    <3> QED
      BY <3>1, <3>2, EmptySeq
  <2>2. ASSUME NEW k \in 1..n
        PROVE  g[k] = IF in(k) THEN Append(g[k - 1], e(k)) ELSE g[k - 1]
    <3>1. g[k] = piece(Least(k, hi)) /\ g[k - 1] = piece(Least(k - 1, hi))
      BY <1>1
    <3>2. CASE k > hi
      <4>1. Least(k, hi) = hi /\ Least(k - 1, hi) = hi
        BY <1>1, <3>2 DEF Least
      <4> QED
        BY <1>1, <1>3, <3>1, <3>2, <4>1
    <3>3. CASE k <= hi
      <4>1. Least(k, hi) = k /\ Least(k - 1, hi) = k - 1
        BY <1>1, <3>3 DEF Least
      <4>2. /\ piece(k) \in Seq(Entries) /\ Len(piece(k)) = (IF lo < k THEN k - lo ELSE 0)
            /\ \A i \in 1..Len(piece(k)) : piece(k)[i] = e(lo + i)
        BY <1>1, <1>4
      <4> DEFINE h == k - 1
      <4>3. h \in Nat /\ h <= n /\ h = k - 1
        BY <1>1
      <4> HIDE DEF h
      <4>4. /\ piece(h) \in Seq(Entries) /\ Len(piece(h)) = (IF lo < h THEN h - lo ELSE 0)
            /\ \A i \in 1..Len(piece(h)) : piece(h)[i] = e(lo + i)
        BY <1>4, <4>3
      <4>5. /\ Len(piece(k)) = (IF lo < k THEN k - lo ELSE 0)
            /\ Len(piece(h)) = (IF lo < h THEN h - lo ELSE 0)
            /\ k \in Nat /\ lo \in Nat /\ h = k - 1
        BY <1>1, <4>2, <4>3, <4>4
      <4>6. CASE k <= lo
        <5>1. Len(piece(k)) = 0 /\ Len(piece(h)) = 0
          BY <4>6, <4>5
        <5>2. piece(k) = << >> /\ piece(h) = << >>
          BY <4>2, <4>4, <5>1, EmptySeq
        <5> QED
          BY <1>1, <1>3, <3>1, <4>1, <4>3, <4>6, <5>2
      <4>7. CASE lo < k
        <5> DEFINE a == Append(piece(h), e(k))
        <5>1. Len(piece(k)) = k - lo /\ Len(piece(h)) = k - lo - 1
          BY <4>7, <4>5
        <5>2. /\ a \in Seq(Entries) /\ Len(a) = Len(piece(h)) + 1
              /\ \A i \in 1..Len(piece(h)) : a[i] = piece(h)[i]
              /\ a[Len(piece(h)) + 1] = e(k)
          BY <1>2, <4>4, AppendProperties
        <5> HIDE DEF a
        <5>3. \A i \in 1..Len(a) : a[i] = e(lo + i)
          <6> TAKE i \in 1..Len(a)
          <6>1. CASE i = k - lo
            <7>1. lo + i = k
              BY <1>1, <6>1
            <7> QED
              BY <1>1, <5>1, <5>2, <6>1, <7>1
          <6>2. CASE i # k - lo
            <7>1. i \in 1..Len(piece(h))
              BY <1>1, <5>1, <5>2, <6>2
            <7> QED
              BY <4>4, <5>2, <7>1
          <6> QED
            BY <6>1, <6>2
        <5>4. Len(a) = Len(piece(k))
          BY <1>1, <5>1, <5>2
        <5>5. a = piece(k)
          BY <4>2, <5>2, <5>3, <5>4, SeqEqual
        <5> QED
          BY <1>3, <3>1, <3>3, <4>1, <4>3, <4>7, <5>5 DEF a
      <4> QED
        BY <1>1, <4>6, <4>7
    <3> QED
      BY <1>1, <3>2, <3>3
  <2> HIDE DEF g
  <2>3. \A k \in 0..n : k = 0 \/ k \in 1..n
    BY <1>1
  <2> QED
    BY <2>1, <2>2, <2>3
<1>7. g = [k \in 0..n |-> IF k = 0 THEN << >> ELSE IF in(k) THEN Append(g[k - 1], e(k))
                          ELSE g[k - 1]]
  <2> HIDE DEF in, e, piece
  <2> QED
    BY <1>6
<1>8. added = [k \in 0..n |-> IF k = 0 THEN << >> ELSE IF in(k) THEN Append(added[k - 1], e(k))
                              ELSE added[k - 1]]
  <2> HIDE DEF g
  <2> QED
    BY <1>1, <1>7
<1> HIDE DEF added, g
<1>9. \A k \in 0..n : added[k] = g[k]
  <2> HIDE DEF in, e, n
  <2> DEFINE T == {k \in 0..n : added[k] # g[k]}
  <2>1. CASE T # {}
    <3>1. PICK k \in T : \A d \in T : k <= d
      <4>1. T \in SUBSET Nat
        BY <1>1
      <4> HIDE DEF T
      <4> QED
        BY <2>1, <4>1, LeastNatural
    <3>2. k \in 0..n /\ added[k] # g[k]
      BY <3>1
    <3>3. k # 0
      BY <1>1, <1>6, <1>8, <3>2
    <3>4. k - 1 \in 0..n /\ k - 1 \notin T
      BY <1>1, <3>1, <3>2, <3>3
    <3>5. added[k - 1] = g[k - 1]
      BY <3>4
    <3> QED
      BY <1>6, <1>8, <3>2, <3>3, <3>5
  <2> QED
    BY <2>1
<1>10. Meta(s) = piece(hi)
  <2>1. g[n] = piece(Least(n, hi)) /\ Least(n, hi) = hi
    BY <1>1 DEF g, Least
  <2> QED
    BY <1>1, <1>5, <1>9, <2>1
<1> HIDE DEF piece, n
<1>11. /\ piece(hi) \in Seq(Entries) /\ Len(piece(hi)) = (IF lo < hi THEN hi - lo ELSE 0)
       /\ \A i \in 1..Len(piece(hi)) : piece(hi)[i] = e(lo + i)
  BY <1>1, <1>4
<1> QED
  BY <1>10, <1>11 DEF IsPiece

----------------------------------------------------------------------------
(* The steps of the loop.                                                  *)

\* A sequence that is a piece of no tensor is empty.
LEMMA EmptyPiece ==
    ASSUME NEW ts, NEW c, NEW lo \in Nat, NEW hi \in Nat, hi <= lo
    PROVE  IsPiece(<< >>, ts, c, lo, hi)
<1>1. << >> \in Seq(Entries) /\ Len(<< >>) = 0
  OBVIOUS
<1> QED
  BY <1>1 DEF IsPiece

LEMMA InitLoopInv == Init => LoopInv
<1> SUFFICES ASSUME Init PROVE LoopInv
  OBVIOUS
<1>1. /\ job \in Jobs /\ pc = "start" /\ tensors = << >> /\ ctx = << >> /\ used = << >>
      /\ next = 0 /\ cur_split = 0 /\ fout = FALSE
      /\ count = [r \in CountedRoles |-> 0]
      /\ data = [s \in Splits(job) |-> << >>] /\ meta = [s \in Splits(job) |-> << >>]
  BY DEF Init, CountedRoles
<1>2. << >> \in Seq(Entries)
  OBVIOUS
<1>3. data \in [Splits(job) -> Seq(Entries)] /\ meta \in [Splits(job) -> Seq(Entries)]
  BY <1>1, <1>2
<1>4. count \in [CountedRoles -> Nat]
  BY <1>1
<1>5. Position
  BY <1>1, <1>3, <1>4, SplitsFacts DEF Position
<1> QED
  BY <1>1, <1>5 DEF LoopInv, Counts, Shards, KernelHasWeights

\* The vector is sorted and the first file opened.
LEMMA PrepareKeeps == LoopInv /\ Prepare => LoopInv'
<1> SUFFICES ASSUME LoopInv, Prepare PROVE LoopInv'
  OBVIOUS
<1>1. /\ pc = "start" /\ pc' = "loop" /\ tensors' = Sorted(job)
      /\ ctx' = [k \in DOMAIN Sorted(job) |-> SourceType(job, Sorted(job)[k])]
      /\ cur_split' = 0 /\ fout' = TRUE
      /\ data' = [data EXCEPT ![0] = << >>] /\ meta' = [meta EXCEPT ![0] = << >>]
      /\ job' = job /\ next' = next /\ count' = count /\ used' = used
  BY DEF Prepare, Truncate
<1>2. Position
  BY DEF LoopInv
<1>3. /\ job \in Jobs /\ next = 0 /\ used = << >> /\ count \in [CountedRoles -> Nat]
      /\ \A r \in CountedRoles : count[r] = 0
      /\ \A s \in Splits(job) : data[s] = << >> /\ meta[s] = << >>
      /\ data \in [Splits(job) -> Seq(Entries)] /\ meta \in [Splits(job) -> Seq(Entries)]
  BY <1>1, <1>2 DEF Position
<1>4. DOMAIN Sorted(job) = 1..Total(job) /\ Total(job) \in Nat
  BY <1>3, Order
<1>5. ctx' \in [1..Total(job) -> Types]
  BY <1>1, <1>3, <1>4, TypeKnown
<1>6. << >> \in Seq(Entries) /\ << >> \in Seq(Given) /\ Len(<< >>) = 0
  OBVIOUS
<1>7. /\ data' \in [Splits(job) -> Seq(Entries)] /\ meta' \in [Splits(job) -> Seq(Entries)]
      /\ \A s \in Splits(job) : data'[s] = << >> /\ meta'[s] = << >>
  BY <1>1, <1>3, <1>6
<1>8. Position'
  BY <1>1, <1>3, <1>4, <1>5, <1>6, <1>7, SplitsFacts DEF Position
<1>9. Counts'
  <2>1. ASSUME NEW r \in CountedRoles PROVE Before(job, 0, r) = 0
    <3>1. Seen(job, 0, r) = {}
      BY DEF Seen
    <3> QED
      BY <3>1, FS_EmptySet DEF Before
  <2> QED
    BY <1>1, <1>3, <2>1 DEF Counts
<1>10. Shards'
  <2>1. ASSUME NEW s \in Splits(job)
        PROVE  /\ IsPiece(data'[s], tensors', ctx', Lo(job, s), Least(0, Hi(job, s)))
               /\ meta'[s] = << >>
    <3>1. Least(0, Hi(job, s)) = 0 /\ Lo(job, s) \in Nat
      BY <1>3, Bounds DEF Least
    <3> QED
      BY <1>7, <3>1, EmptyPiece
  <2>2. Lo(job, 0) = 0 /\ 0 <= Hi(job, 0) /\ 0 \in Splits(job)
    <3>1. 0 \in Splits(job)
      BY SplitsFacts
    <3>2. Hi(job, 0) \in Nat
      BY <1>3, <3>1, Bounds
    <3> QED
      BY <3>1, <3>2 DEF Lo
  <2>3. \A s \in Splits(job) : ~(s < 0)
    BY DEF Splits
  <2> QED
    BY <1>1, <1>3, <2>1, <2>2, <2>3 DEF Shards
<1>11. KernelHasWeights'
  BY <1>1, <1>3 DEF KernelHasWeights
<1> QED
  BY <1>8, <1>9, <1>10, <1>11 DEF LoopInv

\* Behind the loop: the tensor it is at, and the shard that tensor is in.
LEMMA AtCurrent ==
    ASSUME Position, pc # "start"
    PROVE  /\ More <=> next < Total(job)
           /\ More => /\ next + 1 \in 1..Total(job) /\ Current = Sorted(job)[next + 1]
                      /\ \A s \in Splits(job) : SplitOf(job, Current) = s <=>
                            (Lo(job, s) <= next /\ next < Hi(job, s))
<1>1. job \in Jobs /\ tensors = Sorted(job) /\ next \in 0..Total(job)
  BY DEF Position
<1>2. DOMAIN Sorted(job) = 1..Total(job) /\ Total(job) \in Nat
  BY <1>1, Order
<1>3. More <=> next < Total(job)
  BY <1>1, <1>2 DEF More
<1>4. ASSUME More, NEW s \in Splits(job)
      PROVE  SplitOf(job, Current) = s <=> (Lo(job, s) <= next /\ next < Hi(job, s))
  <2>1. next + 1 \in 1..Total(job) /\ Current = Sorted(job)[next + 1]
    BY <1>1, <1>2, <1>3, <1>4 DEF Current
  <2>2. SplitOf(job, Current) = s <=> Lo(job, s) < next + 1 /\ next + 1 <= Hi(job, s)
    BY <1>1, <2>1, SplitByPosition
  <2>3. Lo(job, s) \in Nat /\ Hi(job, s) \in Nat /\ next \in Nat
    BY <1>1, Bounds
  <2> QED
    BY <2>2, <2>3
<1> QED
  BY <1>1, <1>2, <1>3, <1>4 DEF Current

\* The metadata is written when all of the shard's tensors are.
LEMMA CloseKeeps == LoopInv /\ Close => LoopInv'
<1> SUFFICES ASSUME LoopInv, Close PROVE LoopInv'
  OBVIOUS
<1> DEFINE c == cur_split
<1>1. /\ pc = "loop" /\ fout /\ (More => ~Here)
      /\ meta' = [meta EXCEPT ![c] = Meta(c)] /\ fout' = FALSE
      /\ pc' = (IF More THEN "loop" ELSE "done")
      /\ UNCHANGED <<job, tensors, next, count, ctx, cur_split, data, used>>
  BY DEF Close
<1>2. Position
  BY DEF LoopInv
<1>3. /\ job \in Jobs /\ c \in Splits(job) /\ next \in 0..Total(job)
      /\ data \in [Splits(job) -> Seq(Entries)] /\ meta \in [Splits(job) -> Seq(Entries)]
  BY <1>1, <1>2 DEF Position
<1>4. /\ Lo(job, c) <= next /\ next <= Hi(job, c) /\ meta[c] = << >>
      /\ \A s \in Splits(job) : s < c => meta[s] # << >>
      /\ \A s \in Splits(job) :
           /\ IsPiece(data[s], tensors, ctx, Lo(job, s), Least(next, Hi(job, s)))
           /\ meta[s] # << >> => /\ next >= Hi(job, s)
                                 /\ IsPiece(meta[s], tensors, ctx, Lo(job, s), Hi(job, s))
  BY <1>1 DEF LoopInv, Shards
<1>5. IsPiece(Meta(c), tensors, ctx, Lo(job, c), Hi(job, c))
  BY <1>1, <1>2, <1>3, MetaIsPiece
<1>6. Meta(c) \in Seq(Entries) /\ Meta(c) # << >>
  <2>1. Lo(job, c) \in Nat /\ Hi(job, c) \in Nat /\ Lo(job, c) < Hi(job, c)
    BY <1>3, Bounds
  <2>2. Meta(c) \in Seq(Entries) /\ Len(Meta(c)) > 0
    BY <1>5, <2>1 DEF IsPiece
  <2> QED
    BY <2>2
<1>7. next = Hi(job, c)
  <2>1. Hi(job, c) \in Nat /\ Hi(job, c) <= Total(job) /\ Total(job) \in Nat
    BY <1>3, Bounds
  <2>2. CASE More
    BY <1>1, <1>2, <1>3, <1>4, <2>1, <2>2, AtCurrent DEF Here
  <2>3. CASE ~More
    BY <1>1, <1>2, <1>3, <1>4, <2>1, <2>3, AtCurrent
  <2> QED
    BY <2>2, <2>3
<1> HIDE DEF c
<1>8. /\ meta' \in [Splits(job) -> Seq(Entries)] /\ meta'[c] = Meta(c)
      /\ \A s \in Splits(job) : s # c => meta'[s] = meta[s]
  BY <1>1, <1>3, <1>6
<1>9. Position'
  BY <1>1, <1>2, <1>8 DEF Position
<1>10. Counts' /\ KernelHasWeights'
  BY <1>1 DEF LoopInv, Counts, KernelHasWeights
<1>11. ASSUME NEW s \in Splits(job)
       PROVE  /\ IsPiece(data'[s], tensors', ctx', Lo(job', s), Least(next', Hi(job', s)))
              /\ meta'[s] # << >> => /\ next' >= Hi(job', s)
                                     /\ IsPiece(meta'[s], tensors', ctx', Lo(job', s), Hi(job', s))
  <2>1. CASE s = c
    <3>1. Hi(job, c) \in Nat
      BY <1>3, Bounds
    <3> QED
      BY <1>1, <1>4, <1>5, <1>7, <1>8, <2>1, <3>1
  <2>2. CASE s # c
    BY <1>1, <1>4, <1>8, <2>2
  <2> QED
    BY <2>1, <2>2
<1>12. pc' = "loop" => Halved(job') /\ next' = Mid(job') /\ meta'[0] # << >>
  <2>1. CASE More
    <3>1. Halved(job) /\ c = 0 /\ next = Mid(job)
      <4>1. Hi(job, c) < Total(job)
        BY <1>1, <1>2, <1>7, <2>1, AtCurrent
      <4> QED
        BY <1>3, <1>7, <4>1, Bounds
    <3> QED
      BY <1>1, <1>6, <1>8, <3>1
  <2>2. CASE ~More
    BY <1>1, <2>2
  <2> QED
    BY <2>1, <2>2
<1>13. pc' = "done" => \A s \in Splits(job) : meta'[s] # << >>
  <2>1. CASE ~More
    <3>1. ASSUME NEW s \in Splits(job), s # c PROVE s < c
      <4>1. Hi(job, c) = Total(job)
        <5>1. ~(next < Total(job)) /\ Total(job) \in Nat
          BY <1>1, <1>2, <1>3, <2>1, AtCurrent, Bounds
        <5> QED
          BY <1>3, <1>7, <5>1
      <4>2. ~(Halved(job) /\ c = 0)
        <5>1. Hi(job, c) < Total(job) <=> (Halved(job) /\ c = 0)
          BY <1>3, Bounds
        <5>2. Total(job) \in Nat
          BY <1>3, Bounds
        <5> QED
          BY <4>1, <5>1, <5>2
      <4> QED
        BY <1>3, <3>1, <4>2 DEF Splits, Halved
    <3> QED
      BY <1>4, <1>6, <1>8, <3>1
  <2>2. CASE More
    BY <1>1, <2>2
  <2> QED
    BY <2>1, <2>2
<1>14. Shards'
  <2>1. Splits(job') = Splits(job) /\ ~fout'
    BY <1>1
  <2> QED
    BY <1>11, <1>12, <1>13, <2>1 DEF Shards
<1> QED
  BY <1>9, <1>10, <1>14 DEF LoopInv

\* The next shard is opened where the loop enters it.
LEMMA OpenKeeps == LoopInv /\ Open => LoopInv'
<1> SUFFICES ASSUME LoopInv, Open PROVE LoopInv'
  OBVIOUS
<1>1. /\ pc = "loop" /\ ~fout /\ cur_split' = SplitOf(job, Current) /\ fout' = TRUE
      /\ data' = [data EXCEPT ![SplitOf(job, Current)] = << >>]
      /\ meta' = [meta EXCEPT ![SplitOf(job, Current)] = << >>]
      /\ UNCHANGED <<job, pc, tensors, next, count, ctx, used>>
  BY DEF Open, Truncate
<1>2. Position
  BY DEF LoopInv
<1>3. /\ job \in Jobs /\ next \in 0..Total(job)
      /\ data \in [Splits(job) -> Seq(Entries)] /\ meta \in [Splits(job) -> Seq(Entries)]
  BY <1>1, <1>2 DEF Position
<1>4. /\ Halved(job) /\ next = Mid(job) /\ meta[0] # << >>
      /\ \A s \in Splits(job) :
           /\ IsPiece(data[s], tensors, ctx, Lo(job, s), Least(next, Hi(job, s)))
           /\ meta[s] # << >> => /\ next >= Hi(job, s)
                                 /\ IsPiece(meta[s], tensors, ctx, Lo(job, s), Hi(job, s))
  BY <1>1 DEF LoopInv, Shards
<1>5. Splits(job) = {0, 1}
  BY <1>4 DEF Splits, Halved
<1>6. /\ Lo(job, 1) = Mid(job) /\ Hi(job, 1) = Total(job) /\ Mid(job) < Total(job)
      /\ Mid(job) \in Nat /\ Total(job) \in Nat
  BY <1>3, <1>4, <1>5, Bounds
<1>7. SplitOf(job, Current) = 1
  BY <1>1, <1>2, <1>4, <1>5, <1>6, AtCurrent
<1>8. << >> \in Seq(Entries)
  OBVIOUS
<1>9. /\ data' \in [Splits(job) -> Seq(Entries)] /\ meta' \in [Splits(job) -> Seq(Entries)]
      /\ data'[1] = << >> /\ meta'[1] = << >> /\ data'[0] = data[0] /\ meta'[0] = meta[0]
  BY <1>1, <1>3, <1>5, <1>7, <1>8
<1>10. Position'
  BY <1>1, <1>2, <1>5, <1>7, <1>9 DEF Position
<1>11. Counts' /\ KernelHasWeights'
  BY <1>1 DEF LoopInv, Counts, KernelHasWeights
<1>12. IsPiece(data'[1], tensors, ctx, Lo(job, 1), Least(next, Hi(job, 1)))
  <2>1. Least(next, Hi(job, 1)) = next
    BY <1>4, <1>6 DEF Least
  <2> QED
    BY <1>4, <1>6, <1>9, <2>1, EmptyPiece
<1>13. Shards'
  <2>1. ASSUME NEW s \in Splits(job)
        PROVE  /\ IsPiece(data'[s], tensors', ctx', Lo(job', s), Least(next', Hi(job', s)))
               /\ meta'[s] # << >> => /\ next' >= Hi(job', s)
                                      /\ IsPiece(meta'[s], tensors', ctx', Lo(job', s), Hi(job', s))
               /\ s < cur_split' => meta'[s] # << >>
    BY <1>1, <1>4, <1>5, <1>7, <1>9, <1>12
  <2>2. /\ Splits(job') = Splits(job) /\ fout' /\ pc' = "loop" /\ meta'[cur_split'] = << >>
        /\ Lo(job', cur_split') <= next' /\ next' <= Hi(job', cur_split')
    BY <1>1, <1>4, <1>6, <1>7, <1>9
  <2> QED
    BY <2>1, <2>2 DEF Shards
<1> QED
  BY <1>10, <1>11, <1>13 DEF LoopInv

\* An exception or a kill changes no file and no counter.
LEMMA StopKeeps == LoopInv /\ (Throw \/ Crash \/ UNCHANGED vars) => LoopInv'
<1> SUFFICES ASSUME LoopInv, Throw \/ Crash \/ UNCHANGED vars PROVE LoopInv'
  OBVIOUS
<1>1. /\ UNCHANGED <<job, tensors, next, count, ctx, cur_split, data, meta, used>>
      /\ \/ pc = "loop" /\ pc' = "failed" /\ fout' = FALSE
         \/ pc' = pc /\ fout' = fout
  BY DEF Throw, Crash, vars
<1>2. Position'
  <2>1. CASE pc = "loop" /\ pc' = "failed" /\ fout' = FALSE
    BY <1>1, <2>1 DEF LoopInv, Position
  <2>2. CASE pc' = pc /\ fout' = fout
    BY <1>1, <2>2 DEF LoopInv, Position
  <2> QED
    BY <1>1, <2>1, <2>2
<1>3. Counts' /\ KernelHasWeights'
  BY <1>1 DEF LoopInv, Counts, KernelHasWeights
<1>4. Shards'
  BY <1>1 DEF LoopInv, Shards
<1> QED
  BY <1>2, <1>3, <1>4 DEF LoopInv

\* A tensor is converted: it ends the piece of the open shard, and the other
\* shards are behind the loop or before it.
LEMMA ConvertLoopInv == LoopInv /\ Convert => LoopInv'
<1> SUFFICES ASSUME LoopInv, Convert PROVE LoopInv'
  OBVIOUS
<1> DEFINE c == cur_split
           t == Current
           type == NewType(job, t, Layer)
           w == IF type = SourceType(job, t) THEN "copied" ELSE Weights(job, t, type)
           e == <<t, type>>
<1>1. /\ pc = "loop" /\ fout /\ More /\ Here
      /\ ctx' = [ctx EXCEPT ![next + 1] = type]
      /\ data' = [data EXCEPT ![c] = Append(@, e)]
      /\ used' = Append(used, w) /\ count' = Counters(t) /\ next' = next + 1
      /\ UNCHANGED <<job, pc, tensors, cur_split, fout, meta>>
  BY DEF Convert
<1>2. Position
  BY DEF LoopInv
<1>3. /\ job \in Jobs /\ c \in Splits(job) /\ next \in 0..Total(job) /\ tensors = Sorted(job)
      /\ data \in [Splits(job) -> Seq(Entries)] /\ meta \in [Splits(job) -> Seq(Entries)]
      /\ ctx \in [1..Total(job) -> Types] /\ used \in Seq(Given) /\ Len(used) = next
      /\ count \in [CountedRoles -> Nat]
  BY <1>1, <1>2 DEF Position
<1>4. /\ meta[c] = << >> /\ \A s \in Splits(job) : s < c => meta[s] # << >>
      /\ \A s \in Splits(job) :
           /\ IsPiece(data[s], tensors, ctx, Lo(job, s), Least(next, Hi(job, s)))
           /\ meta[s] # << >> => /\ next >= Hi(job, s)
                                 /\ IsPiece(meta[s], tensors, ctx, Lo(job, s), Hi(job, s))
  BY <1>1 DEF LoopInv, Shards
<1>5. /\ next + 1 \in 1..Total(job) /\ t = Sorted(job)[next + 1] /\ next \in 0..(Total(job) - 1)
      /\ Total(job) \in Nat
  <2>1. Total(job) \in Nat
    BY <1>3, Order
  <2> QED
    BY <1>1, <1>2, <1>3, <2>1, AtCurrent
<1>6. Lo(job, c) <= next /\ next < Hi(job, c)
  BY <1>1, <1>2, <1>3, AtCurrent DEF Here
<1>7. type \in Types
  BY <1>3, TypeKnown
<1>8. /\ w \in Given
      /\ type = "IQ2_XS" => w # "none"
  <2> HIDE DEF type, t
  <2>1. Weights(job, t, type) \in {"column", "weight", "uniform", "none"}
    BY DEF Weights
  <2>2. type = "IQ2_XS" => Weights(job, t, type) # "none"
    BY DEF Weights, LowBit
  <2> QED
    BY <2>1, <2>2 DEF Given
<1>9. t \in ({-1} \cup Layers) \X Roles
  BY <1>3, <1>5, Order
<1> HIDE DEF type, t, w
<1>10. e \in Entries
  BY <1>7, <1>9 DEF Entries
<1> HIDE DEF c, e
<1>11. /\ ctx' \in [1..Total(job) -> Types] /\ ctx'[next + 1] = type
       /\ \A k \in 1..Total(job) : k # next + 1 => ctx'[k] = ctx[k]
  BY <1>1, <1>3, <1>5, <1>7
<1>12. /\ used' \in Seq(Given) /\ Len(used') = next + 1 /\ used'[next + 1] = w
       /\ \A k \in 1..next : used'[k] = used[k]
  <2>1. /\ Append(used, w) \in Seq(Given) /\ Len(Append(used, w)) = Len(used) + 1
        /\ \A k \in 1..Len(used) : Append(used, w)[k] = used[k]
        /\ Append(used, w)[Len(used) + 1] = w
    BY <1>3, <1>8, AppendProperties
  <2> QED
    BY <1>1, <1>3, <2>1
<1>13. /\ data' \in [Splits(job) -> Seq(Entries)] /\ data'[c] = Append(data[c], e)
       /\ \A s \in Splits(job) : s # c => data'[s] = data[s]
  BY <1>1, <1>3, <1>10
<1>14. /\ count' \in [CountedRoles -> Nat]
       /\ \A r \in CountedRoles :
            count'[r] = IF r = t[2] /\ r \in Counted(FType(job.base)) THEN count[r] + 1
                        ELSE count[r]
  <2>1. Counted(FType(job.base)) \subseteq CountedRoles
    BY DEF Counted, CountedRoles
  <2>2. CASE t[2] \in Counted(FType(job.base))
    <3>1. count' = [count EXCEPT ![t[2]] = @ + 1] /\ t[2] \in CountedRoles
      BY <1>1, <2>1, <2>2 DEF Counters
    <3> QED
      BY <1>3, <2>2, <3>1
  <2>3. CASE t[2] \notin Counted(FType(job.base))
    <3>1. count' = count
      BY <1>1, <2>3 DEF Counters
    <3> QED
      BY <1>3, <2>3, <3>1
  <2> QED
    BY <2>2, <2>3
<1>15. Position'
  BY <1>1, <1>2, <1>3, <1>5, <1>11, <1>12, <1>13, <1>14 DEF Position, c
<1>16. Counts'
  <2>1. ASSUME NEW r \in CountedRoles
        PROVE  count'[r] = IF r \in Counted(FType(job.base)) THEN Before(job, next + 1, r) ELSE 0
    <3>1. count[r] = IF r \in Counted(FType(job.base)) THEN Before(job, next, r) ELSE 0
      BY <1>1 DEF LoopInv, Counts
    <3>2. Before(job, next + 1, r) = IF t[2] = r THEN Before(job, next, r) + 1
                                     ELSE Before(job, next, r)
      BY <1>3, <1>5, LayerFromPosition
    <3> QED
      BY <1>14, <3>1, <3>2
  <2> QED
    BY <1>1, <2>1 DEF Counts
<1>17. KernelHasWeights'
  <2>1. ASSUME NEW k \in 1..(next + 1), ctx'[k] = "IQ2_XS" PROVE used'[k] # "none"
    <3>1. CASE k = next + 1
      BY <1>8, <1>11, <1>12, <2>1, <3>1
    <3>2. CASE k # next + 1
      <4>1. k \in 1..next /\ k \in 1..Total(job)
        BY <1>3, <1>5, <3>2
      <4>2. ctx[k] = "IQ2_XS" /\ used'[k] = used[k]
        BY <1>11, <1>12, <2>1, <3>2, <4>1
      <4> QED
        BY <4>1, <4>2 DEF LoopInv, KernelHasWeights
    <3> QED
      BY <3>1, <3>2
  <2> QED
    BY <1>1, <2>1 DEF KernelHasWeights
<1>18. ASSUME NEW s \in Splits(job)
       PROVE  /\ IsPiece(data'[s], tensors, ctx', Lo(job, s), Least(next + 1, Hi(job, s)))
              /\ meta[s] # << >> => /\ next + 1 >= Hi(job, s)
                                    /\ IsPiece(meta[s], tensors, ctx', Lo(job, s), Hi(job, s))
  <2> DEFINE lo == Lo(job, s)
             hi == Hi(job, s)
  <2>1. lo \in Nat /\ hi \in Nat /\ lo < hi /\ hi <= Total(job) /\ next \in Nat
    BY <1>3, Bounds
  <2>2. /\ IsPiece(data[s], tensors, ctx, lo, Least(next, hi))
        /\ meta[s] # << >> => next >= hi /\ IsPiece(meta[s], tensors, ctx, lo, hi)
    BY <1>4
  <2>3. lo <= next /\ next < hi <=> s = c
    BY <1>1, <1>2, <1>3, AtCurrent DEF Here, c
  <2> HIDE DEF lo, hi
  <2>4. ASSUME NEW d, NEW h \in Nat, h <= next \/ h <= lo, IsPiece(d, tensors, ctx, lo, h)
        PROVE  IsPiece(d, tensors, ctx', lo, h)
    <3>1. d \in Seq(Entries) /\ Len(d) = (IF lo < h THEN h - lo ELSE 0)
      BY <2>4 DEF IsPiece
    <3>2. ASSUME NEW k \in 1..Len(d) PROVE d[k] = <<tensors[lo + k], ctx'[lo + k]>>
      <4>1. lo + k \in 1..Total(job) /\ lo + k # next + 1
        BY <1>3, <1>5, <2>1, <2>4, <3>1
      <4>2. ctx'[lo + k] = ctx[lo + k]
        BY <1>11, <4>1
      <4> QED
        BY <2>4, <4>2 DEF IsPiece
    <3> QED
      BY <3>1, <3>2 DEF IsPiece
  <2>5. meta[s] # << >> => /\ next + 1 >= hi /\ IsPiece(meta[s], tensors, ctx', lo, hi)
    BY <2>1, <2>2, <2>4
  <2>6. IsPiece(data'[s], tensors, ctx', lo, Least(next + 1, hi))
    <3>1. CASE s # c /\ next >= hi
      <4>1. Least(next, hi) = hi /\ Least(next + 1, hi) = hi
        BY <2>1, <3>1 DEF Least
      <4> QED
        BY <1>13, <2>1, <2>2, <2>4, <3>1, <4>1
    <3>2. CASE s # c /\ next < lo
      <4>1. Least(next, hi) = next /\ Least(next + 1, hi) = next + 1
        BY <2>1, <3>2 DEF Least
      <4>2. data[s] = << >>
        BY <2>1, <2>2, <3>2, <4>1 DEF IsPiece
      <4> QED
        BY <1>13, <2>1, <3>2, <4>1, <4>2, EmptyPiece
    <3>3. CASE s = c
      <4>1. Least(next, hi) = next /\ Least(next + 1, hi) = next + 1
        BY <2>1, <2>3, <3>3 DEF Least
      <4>2. data[c] \in Seq(Entries) /\ Len(data[c]) = next - lo /\ lo <= next
              /\ IsPiece(data[c], tensors, ctx, lo, next)
        <5>1. IsPiece(data[c], tensors, ctx, lo, next) /\ lo <= next
          BY <2>2, <2>3, <3>3, <4>1
        <5>2. data[c] \in Seq(Entries) /\ Len(data[c]) = (IF lo < next THEN next - lo ELSE 0)
          BY <5>1 DEF IsPiece
        <5>3. Len(data[c]) = next - lo
          BY <2>1, <5>1, <5>2
        <5> QED
          BY <5>1, <5>2, <5>3
      <4>3. IsPiece(data[c], tensors, ctx', lo, next)
        BY <2>1, <2>4, <4>2
      <4>4. /\ data'[c] \in Seq(Entries) /\ Len(data'[c]) = Len(data[c]) + 1
            /\ \A k \in 1..Len(data[c]) : data'[c][k] = data[c][k]
            /\ data'[c][Len(data[c]) + 1] = e
        BY <1>10, <1>13, <4>2, AppendProperties
      <4>5. ASSUME NEW k \in 1..Len(data'[c])
            PROVE  data'[c][k] = <<tensors[lo + k], ctx'[lo + k]>>
        <5>1. CASE k = Len(data[c]) + 1
          <6>1. lo + k = next + 1
            BY <2>1, <4>2, <5>1
          <6> QED
            BY <1>3, <1>5, <1>11, <4>4, <5>1, <6>1 DEF e
        <5>2. CASE k # Len(data[c]) + 1
          <6>1. k \in 1..Len(data[c])
            BY <2>1, <4>2, <4>4, <5>2
          <6> QED
            BY <4>3, <4>4, <6>1 DEF IsPiece
        <5> QED
          BY <5>1, <5>2
      <4>6. Len(data'[c]) = (IF lo < next + 1 THEN next + 1 - lo ELSE 0)
        BY <2>1, <4>2, <4>4
      <4>7. IsPiece(data'[c], tensors, ctx', lo, next + 1)
        BY <2>1, <4>4, <4>5, <4>6 DEF IsPiece
      <4> QED
        BY <3>3, <4>1, <4>7
    <3> QED
      BY <2>1, <2>3, <3>1, <3>2, <3>3
  <2> QED
    BY <2>5, <2>6 DEF lo, hi
<1>19. Shards'
  <2>1. Lo(job, c) <= next + 1 /\ next + 1 <= Hi(job, c)
    BY <1>3, <1>6, Bounds
  <2> QED
    BY <1>1, <1>4, <1>18, <2>1 DEF Shards, c
<1> QED
  BY <1>15, <1>16, <1>17, <1>19 DEF LoopInv

LEMMA NextLoopInv == LoopInv /\ [Next]_vars => LoopInv'
BY PrepareKeeps, CloseKeeps, OpenKeeps, ConvertLoopInv, StopKeeps DEF Next

----------------------------------------------------------------------------
(* What the invariant says.                                                *)

LEMMA TypesFromInv == LoopInv => TypeOK
<1> SUFFICES ASSUME LoopInv PROVE TypeOK
  OBVIOUS
<1>1. Position
  BY DEF LoopInv
<1>2. CASE pc = "start"
  <2>1. /\ tensors = << >> /\ ctx = << >> /\ used = << >> /\ next = 0 /\ ~fout
        /\ fout \in BOOLEAN /\ job \in Jobs /\ count \in [CountedRoles -> Nat] /\ cur_split \in Splits(job)
        /\ \A r \in CountedRoles : count[r] = 0
    BY <1>1, <1>2 DEF Position
  <2>2. \A r \in DOMAIN count : count[r] \in 0..NLayer
    BY <2>1, JobAssumption
  <2>3. Len(<< >>) = 0 /\ 0 \in 0..0 /\ 1..0 = {}
    OBVIOUS
  <2> QED
    BY <1>2, <2>1, <2>2, <2>3 DEF TypeOK
<1>3. CASE pc # "start"
  <2>1. /\ tensors = Sorted(job) /\ next \in 0..Total(job) /\ ctx \in [1..Total(job) -> Types]
        /\ Len(used) = next /\ job \in Jobs /\ count \in [CountedRoles -> Nat]
        /\ cur_split \in Splits(job) /\ fout \in BOOLEAN /\ pc \in {"loop", "done", "failed"}
    BY <1>1, <1>3 DEF Position
  <2>2. Len(Sorted(job)) = Total(job) /\ Total(job) \in Nat
    BY <2>1, Order
  <2>3. Len(ctx) = Total(job)
    BY <2>1, <2>2, FunctionIsSequence
  <2>4. ASSUME NEW k \in 1..Total(job) PROVE Sorted(job)[k] \in ({-1} \cup Layers) \X Roles
    BY <2>1, Order
  <2>5. ASSUME NEW r \in CountedRoles PROVE count[r] \in 0..NLayer
    <3>1. count[r] = (IF r \in Counted(FType(job.base)) THEN Before(job, next, r) ELSE 0)
      BY <1>3 DEF LoopInv, Counts
    <3>2. Before(job, next, r) \in 0..NLayer
      BY BeforeTyped
    <3> QED
      BY <3>1, <3>2, JobAssumption
  <2>6. fout => pc = "loop" /\ meta[cur_split] = << >>
    BY <1>3 DEF LoopInv, Shards
  <2> QED
    BY <2>1, <2>2, <2>3, <2>4, <2>5, <2>6 DEF TypeOK
<1> QED
  BY <1>2, <1>3

LEMMA HeadersFromInv == LoopInv => HeaderMeansWhole
<1> SUFFICES ASSUME LoopInv PROVE HeaderMeansWhole
  OBVIOUS
<1>1. Position
  BY DEF LoopInv
<1>2. CASE pc = "start"
  BY <1>1, <1>2 DEF Position, HeaderMeansWhole
<1>3. CASE pc # "start"
  <2>1. ASSUME NEW s \in Splits(job), meta[s] # << >> PROVE meta[s] = data[s]
    <3>1. /\ IsPiece(data[s], tensors, ctx, Lo(job, s), Least(next, Hi(job, s)))
          /\ next >= Hi(job, s) /\ IsPiece(meta[s], tensors, ctx, Lo(job, s), Hi(job, s))
      BY <1>3, <2>1 DEF LoopInv, Shards
    <3>2. Least(next, Hi(job, s)) = Hi(job, s)
      <4>1. next \in Nat /\ Hi(job, s) \in Nat
        BY <1>1, <1>3, Bounds DEF Position
      <4> QED
        BY <3>1, <4>1 DEF Least
    <3>3. /\ meta[s] \in Seq(Entries) /\ data[s] \in Seq(Entries) /\ Len(meta[s]) = Len(data[s])
          /\ \A k \in 1..Len(meta[s]) : meta[s][k] = data[s][k]
      BY <3>1, <3>2 DEF IsPiece
    <3> QED
      BY <3>3, SeqEqual
  <2>2. pc = "done" => \A s \in Splits(job) : meta[s] # << >>
    BY <1>3 DEF LoopInv, Shards
  <2> QED
    BY <2>1, <2>2 DEF HeaderMeansWhole
<1> QED
  BY <1>2, <1>3

LEMMA CountersFromInv == LoopInv => CounterIsLayer
<1> SUFFICES ASSUME LoopInv, pc = "loop", More, Current[2] \in Counted(FType(job.base)),
                    job.keepSplit => InOrder(tensors, Current[2])
             PROVE  count[Current[2]] = Current[1]
  BY DEF CounterIsLayer
<1>1. Position /\ job \in Jobs /\ tensors = Sorted(job) /\ next \in 0..Total(job)
  BY DEF LoopInv, Position
<1>2. next + 1 \in 1..Total(job) /\ Current = Sorted(job)[next + 1] /\ next < Total(job)
  BY <1>1, AtCurrent
<1>3. next \in 0..(Total(job) - 1)
  BY <1>1, <1>2, Order
<1>4. Current[2] \in CountedRoles
  BY DEF Counted, CountedRoles
<1>5. count[Current[2]] = Before(job, next, Current[2])
  BY <1>4 DEF LoopInv, Counts
<1>6. InOrder(Sorted(job), Current[2])
  BY <1>1, <1>4, Order
<1> QED
  BY <1>1, <1>2, <1>3, <1>4, <1>5, <1>6, LayerFromPosition

\* The conversion loop keeps its records: for every model, base type and
\* allocation, llama_tensor_get_type and its fallbacks never leave the tensor
\* types, no counter passes the number of layers, and an open file has no
\* header yet.
THEOREM PlanTypes == Spec => []TypeOK
BY InitLoopInv, NextLoopInv, TypesFromInv, PTL DEF Spec

\* A header is the last thing written: wherever an exception, a failed write
\* or a kill stops llama_model_quantize_impl, every shard with metadata from
\* close_ofstream holds exactly the tensors and types the metadata lists, and
\* a conversion that ends has one for every shard, in whatever order the input
\* files hold the tensors.
THEOREM HeadersDescribeData == Spec => []HeaderMeansWhole
BY InitLoopInv, NextLoopInv, HeadersFromInv, PTL DEF Spec

\* The counters of quantize_state_impl are the layers: for any number of
\* layers, the counter llama_tensor_get_type consults for a tensor is the
\* layer in the tensor's name.  Without --keep-split this holds for every
\* input, since the vector is in the order of weight_name_comparer; with it
\* the vector is in the order of the files, whatever that is, and it holds for
\* a role whose layers the files have in order.
THEOREM CountersAreLayers == Spec => []CounterIsLayer
BY InitLoopInv, NextLoopInv, CountersFromInv, PTL DEF Spec

\* Every tensor converted to IQ2_XS has weights, whatever the imatrix file
\* lacks: ggml_quantize_chunk never meets its assertion.
THEOREM WeightsForKernels == Spec => []KernelHasWeights
<1>1. LoopInv => KernelHasWeights
  BY DEF LoopInv
<1> QED
  BY <1>1, InitLoopInv, NextLoopInv, PTL DEF Spec
============================================================================
