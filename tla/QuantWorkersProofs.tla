------------------------- MODULE QuantWorkersProofs -------------------------
(***************************************************************************)
(* Proofs about the quantization workers, for any tensor, any chunk size   *)
(* and any number of threads.                                              *)
(***************************************************************************)
EXTENDS QuantWorkers, SumTheorems, TLAPS

USE ShapeAssumption

\* A worker's chunk starts at first_row and has at most RowsPerChunk rows of the matrix.
LEMMA ChunkBounds ==
    ASSUME TypeOK, NEW w \in Workers, first_row[w] < NRows
    PROVE  /\ ThisNRow(w) \in Nat \ {0}
           /\ ThisNRow(w) <= RowsPerChunk
           /\ first_row[w] + ThisNRow(w) <= NRows
           /\ Chunk(w) \subseteq Rows
           /\ \A r \in Rows : r \in Chunk(w) <=>
                  first_row[w] <= r /\ r < first_row[w] + RowsPerChunk
<1>1. first_row[w] \in Nat /\ NRows \in Nat /\ RowsPerChunk \in Nat \ {0}
  BY DEF TypeOK
<1>2. CASE NRows - first_row[w] < RowsPerChunk
  <2>1. ThisNRow(w) = NRows - first_row[w]
    BY <1>2 DEF ThisNRow
  <2> QED BY <1>1, <1>2, <2>1 DEF Chunk, Rows
<1>3. CASE ~(NRows - first_row[w] < RowsPerChunk)
  <2>1. ThisNRow(w) = RowsPerChunk
    BY <1>3 DEF ThisNRow
  <2> QED BY <1>1, <1>3, <2>1 DEF Chunk, Rows
<1> QED BY <1>2, <1>3

\* Slices of the importance matrix are numbered by naturals.
LEMMA SlicesTyped ==
    ASSUME TypeOK, NEW r \in Rows, NEW first
    PROVE  RowSlice(r, first) \in Nat
<1>1. expert \in Nat /\ NRows \in Nat /\ r \in Nat
  BY DEF TypeOK, Rows
<1>2. expert * NRows \in Nat
  BY <1>1
<1> QED BY <1>1, <1>2 DEF RowSlice

\* Writing rows of the current expert keeps q a history of slices.
LEMMA QuantizedTyped ==
    ASSUME TypeOK, NEW rows \in SUBSET Rows, NEW first
    PROVE  Quantized(rows, first) \in [Cells -> Seq(Nat)]
<1>1. ASSUME NEW x \in Cells
      PROVE  (IF x[1] = expert /\ x[2] \in rows
                THEN Append(q[x], RowSlice(x[2], first)) ELSE q[x]) \in Seq(Nat)
  <2>1. q[x] \in Seq(Nat)
    BY DEF TypeOK
  <2>2. CASE x[1] = expert /\ x[2] \in rows
    <3>1. RowSlice(x[2], first) \in Nat
      BY <2>2, SlicesTyped
    <3> DEFINE s == RowSlice(x[2], first)
    <3>2. s \in Nat
      BY <3>1
    <3> HIDE DEF s
    <3>3. Append(q[x], s) \in Seq(Nat)
      BY <2>1, <3>2
    <3> QED BY <2>2, <3>3 DEF s
  <2>3. CASE ~(x[1] = expert /\ x[2] \in rows)
    BY <2>1, <2>3
  <2> QED BY <2>2, <2>3
<1> QED BY <1>1 DEF Quantized

\* The slice written for a row of the current expert is the importance of that row.
LEMMA SliceIsImportance ==
    ASSUME NEW x \in Cells, x[1] = expert, NEW first
    PROVE  RowSlice(x[2], first) = Importance(x)
BY DEF RowSlice, Importance

\* Writing a fresh row of the current expert makes it done, the others stay.
LEMMA QuantizedRows ==
    ASSUME NEW rows, NEW first, NEW x \in Cells, q' = Quantized(rows, first),
           UNCHANGED imatrix_is_per_weight
    PROVE  /\ x[1] = expert /\ x[2] \in rows /\ Fresh(x) => Done(x)'
           /\ ~(x[1] = expert /\ x[2] \in rows) => q'[x] = q[x]
<1>1. q'[x] = IF x[1] = expert /\ x[2] \in rows
                THEN Append(q[x], RowSlice(x[2], first)) ELSE q[x]
  BY DEF Quantized
<1>2. ASSUME x[1] = expert, x[2] \in rows, Fresh(x) PROVE Done(x)'
  <2>1. q'[x] = Append(<<>>, Importance(x))
    BY <1>1, <1>2, SliceIsImportance DEF Fresh
  <2>2. Append(<<>>, Importance(x)) = <<Importance(x)>>
    OBVIOUS
  <2>3. Importance(x)' = Importance(x)
    BY DEF Importance
  <2> QED BY <2>1, <2>2, <2>3 DEF Done
<1> QED BY <1>1, <1>2

\* The team is part of the workers.
LEMMA TeamOfWorkers ==
    ASSUME TypeOK PROVE Team \subseteq Workers
<1>1. NChunk \in Int
  BY DEF NChunk
<1>2. nthread \in Int /\ nthread <= MaxThreads
  BY DEF TypeOK
<1> QED BY <1>1, <1>2 DEF Team, NThreadUse, Workers

-----------------------------------------------------------------------------
\* Initially all rows are fresh and no worker runs.
LEMMA WorkersInit == Init => WorkersInv
<1> SUFFICES ASSUME Init PROVE WorkersInv
  OBVIOUS
<1>1. TypeOK
  BY DEF Init, TypeOK
<1>2. MutexOwned /\ TeamRuns /\ ChunksApart /\ ExitsExplained
  BY DEF Init, MutexOwned, TeamRuns, ChunksApart, ExitsExplained, Workers, Holding, AtWork
<1>3. SizesBounded
  BY DEF Init, SizesBounded
<1>4. RowsAccounted
  BY DEF Init, RowsAccounted, Cells, Experts, Fresh
<1> QED BY <1>1, <1>2, <1>3, <1>4 DEF WorkersInv


\* A row is the pair of its expert and its number.
LEMMA CellParts ==
    ASSUME NEW x \in Cells
    PROVE  /\ x[1] \in Experts /\ x[1] \in Int /\ x[2] \in Rows /\ x[2] \in Int
           /\ x = <<x[1], x[2]>>
BY DEF Cells, Experts, Rows

\* The caller's own conversion of an expert.
LEMMA SingleStep == WorkersInv /\ SingleThread => WorkersInv'
<1> SUFFICES ASSUME WorkersInv, SingleThread PROVE WorkersInv'
  OBVIOUS
<1> USE DEF WorkersInv
<1>1. /\ UNCHANGED <<nthread, imatrix_is_per_weight, bad, pc, mutex, counter, new_size, valid,
                     first_row, local_size>>
      /\ main = "expert" /\ q' = Quantized(Rows, 0) /\ expert < NumExperts
  BY DEF SingleThread, args, shared
<1>2. \/ Validates(Rows) /\ expert' = expert + 1 /\ total' = total + NRows /\ main' = "expert"
      \/ ~Validates(Rows) /\ main' = "threw" /\ expert' = expert /\ total' = total
  BY <1>1 DEF SingleThread
<1>3. q' \in [Cells -> Seq(Nat)]
  BY <1>1, QuantizedTyped
<1>4. expert \in Nat /\ expert' \in 0..NumExperts /\ total' \in Nat
  BY <1>1, <1>2 DEF TypeOK
<1>5. TypeOK'
  BY <1>1, <1>2, <1>3, <1>4 DEF TypeOK
<1>6. MutexOwned' /\ ChunksApart' /\ SizesBounded' /\ TeamRuns'
  BY <1>1, <1>2 DEF MutexOwned, ChunksApart, SizesBounded, TeamRuns, Team, NThreadUse
<1>7. ExitsExplained'
  BY <1>1, <1>2 DEF ExitsExplained, Validates, TeamRuns
<1>8. RowsAccounted'
  <2> SUFFICES ASSUME NEW x \in Cells
               PROVE  /\ x[1] < expert' => Done(x)' /\ x \notin bad
                      /\ x[1] > expert' => Fresh(x)'
                      /\ main' = "expert" /\ x[1] = expert' => Fresh(x)'
    BY <1>1, <1>2 DEF RowsAccounted
  <2>1. x[1] \in Int /\ x[2] \in Rows /\ x = <<x[1], x[2]>>
    BY CellParts
  <2>2. /\ x[1] < expert => Done(x) /\ x \notin bad
        /\ x[1] > expert => Fresh(x)
        /\ x[1] = expert => Fresh(x)
    BY <1>1 DEF RowsAccounted
  <2>3. /\ x[1] = expert => Done(x)'
        /\ x[1] # expert => q'[x] = q[x]
    BY <1>1, <2>1, <2>2, QuantizedRows
  <2>4. x[1] < expert => Done(x)'
    BY <1>1, <1>4, <2>1, <2>2, <2>3 DEF Done, Importance
  <2>5. x[1] > expert => Fresh(x)'
    BY <1>4, <2>1, <2>2, <2>3 DEF Fresh
  <2>6. Validates(Rows) /\ x[1] = expert => x \notin bad
    BY <2>1 DEF Validates
  <2> QED BY <1>2, <1>4, <2>1, <2>2, <2>3, <2>4, <2>5, <2>6
<1> QED BY <1>5, <1>6, <1>7, <1>8

\* Starting a team.
LEMMA SpawnStep == WorkersInv /\ Spawn => WorkersInv'
<1> SUFFICES ASSUME WorkersInv, Spawn PROVE WorkersInv'
  OBVIOUS
<1> USE DEF WorkersInv
<1>1. /\ UNCHANGED <<nthread, imatrix_is_per_weight, bad, expert, total, mutex, first_row, q>>
      /\ main = "expert" /\ main' = "join" /\ expert < NumExperts /\ NThreadUse >= 2
      /\ pc' = [w \in Workers |-> IF w \in Team THEN "lock" ELSE "exit"]
      /\ counter' = 0 /\ new_size' = 0 /\ valid' = TRUE
      /\ local_size' = [w \in Workers |-> 0]
  BY DEF Spawn, args
<1>2. TypeOK'
  BY <1>1 DEF TypeOK
<1>3. Team' = Team /\ NThreadUse' = NThreadUse
  BY <1>1 DEF Team, NThreadUse
<1>4. \A w \in Workers : pc'[w] = (IF w \in Team THEN "lock" ELSE "exit") /\ pc[w] = "exit"
  BY <1>1 DEF TeamRuns
<1>5. MutexOwned'
  BY <1>1, <1>4 DEF MutexOwned, Holding
<1>6. TeamRuns'
  BY <1>1, <1>3, <1>4 DEF TeamRuns
<1>7. ChunksApart' /\ SizesBounded'
  BY <1>1, <1>4 DEF ChunksApart, SizesBounded, AtWork
<1>8. ExitsExplained'
  BY <1>1, <1>3, <1>4, <1>2, TeamOfWorkers DEF ExitsExplained
<1>9. RowsAccounted'
  <2> SUFFICES ASSUME NEW x \in Cells
               PROVE  /\ x[1] < expert => Done(x)' /\ x \notin bad
                      /\ x[1] > expert => Fresh(x)'
                      /\ x[1] = expert =>
                            /\ x[2] >= 0 => Fresh(x)'
                            /\ ~(x[2] < 0)
    BY <1>1, <1>4 DEF RowsAccounted, AtWork
  <2>1. (Done(x)' <=> Done(x)) /\ (Fresh(x)' <=> Fresh(x))
    BY <1>1 DEF Done, Fresh, Importance
  <2> QED BY <1>1, <2>1, CellParts DEF RowsAccounted, Rows
<1> QED BY <1>2, <1>5, <1>6, <1>7, <1>8, <1>9

\* Joining a team.
LEMMA JoinStep == WorkersInv /\ Join => WorkersInv'
<1> SUFFICES ASSUME WorkersInv, Join PROVE WorkersInv'
  OBVIOUS
<1> USE DEF WorkersInv
<1>1. /\ UNCHANGED <<nthread, imatrix_is_per_weight, bad, pc, mutex, counter, new_size, valid,
                     first_row, local_size, q>>
      /\ main = "join" /\ \A w \in Team : pc[w] = "exit"
  BY DEF Join, args, shared
<1>2. \/ valid /\ main' = "expert" /\ expert' = expert + 1 /\ total' = total + new_size
      \/ ~valid /\ main' = "threw" /\ expert' = expert /\ total' = total
  BY DEF Join
<1>3. \A w \in Workers : pc[w] = "exit"
  BY <1>1 DEF TeamRuns
<1>4. expert \in Nat /\ expert < NumExperts
  BY <1>1 DEF TypeOK, TeamRuns
<1>5. TypeOK'
  BY <1>1, <1>2, <1>4 DEF TypeOK
<1>6. MutexOwned' /\ ChunksApart' /\ SizesBounded'
  BY <1>1 DEF MutexOwned, ChunksApart, SizesBounded
<1>7. TeamRuns'
  BY <1>1, <1>2, <1>3 DEF TeamRuns
<1>8. ExitsExplained'
  BY <1>1, <1>2 DEF ExitsExplained
<1>9. valid => counter >= NRows
  <2>1. NThreadUse \in Int /\ NThreadUse >= 2
    BY <1>1 DEF TeamRuns, NThreadUse, NChunk, TypeOK
  <2>2. 1 \in Team
    BY <2>1 DEF Team
  <2> QED BY <1>1, <2>2 DEF ExitsExplained
<1>10. RowsAccounted'
  <2> SUFFICES ASSUME NEW x \in Cells
               PROVE  /\ x[1] < expert' => Done(x)' /\ x \notin bad
                      /\ x[1] > expert' => Fresh(x)'
                      /\ main' = "expert" /\ x[1] = expert' => Fresh(x)'
    BY <1>1, <1>2 DEF RowsAccounted
  <2>1. (Done(x)' <=> Done(x)) /\ (Fresh(x)' <=> Fresh(x))
    BY <1>1 DEF Done, Fresh, Importance
  <2>2. x[1] \in Int /\ x[2] \in Int /\ x[2] < NRows
    BY CellParts DEF Rows
  <2>3. valid => x[2] < counter
    BY <1>9, <2>2 DEF TypeOK
  <2>4. valid /\ x[1] = expert => Done(x) /\ x \notin bad
    BY <1>1, <1>3, <2>3 DEF RowsAccounted, AtWork
  <2>5. /\ x[1] < expert => Done(x) /\ x \notin bad
        /\ x[1] > expert => Fresh(x)
    BY DEF RowsAccounted
  <2> QED BY <1>2, <1>4, <2>1, <2>2, <2>4, <2>5
<1> QED BY <1>5, <1>6, <1>7, <1>8, <1>10

\* Returning.
LEMMA ReturnStep == WorkersInv /\ Return => WorkersInv'
<1> SUFFICES ASSUME WorkersInv, Return PROVE WorkersInv'
  OBVIOUS
<1> USE DEF WorkersInv
<1>1. /\ UNCHANGED <<nthread, imatrix_is_per_weight, bad, expert, total, pc, mutex, counter,
                     new_size, valid, first_row, local_size, q>>
      /\ main = "expert" /\ main' = "returned" /\ expert = NumExperts
  BY DEF Return, args, shared
<1>2. TypeOK'
  BY <1>1 DEF TypeOK
<1>3. MutexOwned' /\ ChunksApart' /\ SizesBounded' /\ TeamRuns' /\ ExitsExplained'
  BY <1>1 DEF MutexOwned, ChunksApart, SizesBounded, TeamRuns, ExitsExplained
<1>4. RowsAccounted'
  BY <1>1 DEF RowsAccounted, Done, Fresh, Importance
<1> QED BY <1>2, <1>3, <1>4

\* What holds of a worker that takes a step.
LEMMA WorkerRuns ==
    ASSUME WorkersInv, NEW w \in Workers, pc[w] # "exit"
    PROVE  main = "join" /\ w \in Team
BY DEF WorkersInv, TeamRuns

\* A step of a worker leaves the team's frame alone.
LEMMA TeamKept ==
    ASSUME WorkersInv, NEW w \in Workers, pc[w] # "exit", NEW l, pc' = [pc EXCEPT ![w] = l],
           UNCHANGED <<nthread, main, expert>>
    PROVE  TeamRuns' /\ Team' = Team
<1>1. main = "join" /\ w \in Team
  BY WorkerRuns
<1>2. Team' = Team /\ NThreadUse' = NThreadUse
  BY DEF Team, NThreadUse
<1>3. \A v \in Workers : v \notin Team => pc'[v] = "exit"
  BY <1>1 DEF WorkersInv, TeamRuns, TypeOK
<1> QED BY <1>1, <1>2, <1>3 DEF WorkersInv, TeamRuns

\* A step that moves no worker into or out of its chunk leaves the rows' account alone.
LEMMA RowsKept ==
    ASSUME RowsAccounted,
           UNCHANGED <<q, bad, imatrix_is_per_weight, expert, main, counter, valid>>,
           \A v \in Workers :
               /\ pc'[v] \in AtWork <=> pc[v] \in AtWork
               /\ pc[v] \in AtWork =>
                      Chunk(v)' = Chunk(v) /\ (pc'[v] = "quantize" <=> pc[v] = "quantize")
    PROVE  RowsAccounted'
<1> SUFFICES ASSUME NEW x \in Cells
             PROVE  /\ x[1] < expert => Done(x)' /\ x \notin bad
                    /\ x[1] > expert => Fresh(x)'
                    /\ main = "expert" /\ x[1] = expert => Fresh(x)'
                    /\ main = "join" /\ x[1] = expert =>
                         /\ x[2] >= counter => Fresh(x)'
                         /\ x[2] < counter =>
                                \/ Done(x)' /\ (x \notin bad \/ ~valid)
                                \/ \E v \in Workers : pc'[v] \in AtWork /\ x[2] \in Chunk(v)'
                         /\ \A v \in Workers : pc'[v] \in AtWork /\ x[2] \in Chunk(v)' =>
                                IF pc'[v] = "quantize" THEN Fresh(x)' ELSE Done(x)'
  BY DEF RowsAccounted
<1>1. (Done(x)' <=> Done(x)) /\ (Fresh(x)' <=> Fresh(x))
  BY DEF Done, Fresh, Importance
<1>2. /\ x[1] < expert => Done(x) /\ x \notin bad
      /\ x[1] > expert => Fresh(x)
      /\ main = "expert" /\ x[1] = expert => Fresh(x)
  BY DEF RowsAccounted
<1>3. ASSUME main = "join", x[1] = expert
      PROVE  /\ x[2] >= counter => Fresh(x)
             /\ x[2] < counter =>
                    \/ Done(x) /\ (x \notin bad \/ ~valid)
                    \/ \E v \in Workers : pc[v] \in AtWork /\ x[2] \in Chunk(v)
             /\ \A v \in Workers : pc[v] \in AtWork /\ x[2] \in Chunk(v) =>
                    IF pc[v] = "quantize" THEN Fresh(x) ELSE Done(x)
  BY <1>3 DEF RowsAccounted
<1> QED BY <1>1, <1>2, <1>3

\* Chunks depend on first_row only.
LEMMA ChunkKept ==
    ASSUME NEW v, first_row'[v] = first_row[v] PROVE Chunk(v)' = Chunk(v)
BY DEF Chunk, ThisNRow

\* Taking the mutex, to claim a chunk or to report.
LEMMA LockStep ==
    ASSUME WorkersInv, NEW w \in Workers, Lock(w) \/ LockToReport(w) PROVE WorkersInv'
<1> USE DEF WorkersInv
<1>1. /\ UNCHANGED <<nthread, imatrix_is_per_weight, bad, main, expert, total, counter,
                     new_size, valid, first_row, local_size, q>>
      /\ mutex = 0 /\ mutex' = w
  BY DEF Lock, LockToReport, args, shared
<1>2. PICK l : /\ pc' = [pc EXCEPT ![w] = l]
               /\ <<pc[w], l>> \in {<<"lock", "read">>, <<"invalid", "report">>}
  BY DEF Lock, LockToReport, Goto
<1>3. /\ pc'[w] = l /\ \A v \in Workers \ {w} : pc'[v] = pc[v]
      /\ pc' \in [Workers -> {"lock", "quantize", "validate", "invalid", "exit"} \cup Holding]
  BY <1>2 DEF TypeOK, Holding
<1>4. TypeOK'
  BY <1>1, <1>3 DEF TypeOK
<1>5. MutexOwned'
  BY <1>1, <1>2, <1>3 DEF MutexOwned, Holding, Workers
<1>6. TeamRuns' /\ Team' = Team /\ main = "join"
  BY <1>1, <1>2, TeamKept, WorkerRuns
<1>7. ChunksApart'
  BY <1>1, <1>2, <1>3 DEF ChunksApart, AtWork
<1>8. SizesBounded'
  BY <1>1, <1>2, <1>3 DEF SizesBounded
<1>9. ExitsExplained'
  BY <1>1, <1>2, <1>3, <1>6, TeamOfWorkers DEF ExitsExplained
<1>10. RowsAccounted'
  <2>1. \A v \in Workers :
          /\ pc'[v] \in AtWork <=> pc[v] \in AtWork
          /\ pc'[v] = "quantize" <=> pc[v] = "quantize"
    BY <1>2, <1>3 DEF AtWork
  <2>2. \A v \in Workers : Chunk(v)' = Chunk(v)
    BY <1>1, ChunkKept
  <2> QED BY <1>1, <2>1, <2>2, RowsKept
<1> QED BY <1>4, <1>5, <1>6, <1>7, <1>8, <1>9, <1>10

\* Reading the counter.
LEMMA ReadStep == ASSUME WorkersInv, NEW w \in Workers, Read(w) PROVE WorkersInv'
<1> USE DEF WorkersInv
<1>1. /\ UNCHANGED <<nthread, imatrix_is_per_weight, bad, main, expert, total, counter,
                     new_size, valid, mutex, local_size, q>>
      /\ pc[w] = "read" /\ pc' = [pc EXCEPT ![w] = "advance"]
      /\ first_row' = [first_row EXCEPT ![w] = counter]
  BY DEF Read, args, shared, Goto
<1>2. /\ pc'[w] = "advance" /\ \A v \in Workers \ {w} : pc'[v] = pc[v]
      /\ first_row'[w] = counter /\ \A v \in Workers \ {w} : first_row'[v] = first_row[v]
  BY <1>1 DEF TypeOK
<1>3. TypeOK'
  BY <1>1 DEF TypeOK, Holding
<1>4. MutexOwned'
  BY <1>1, <1>2 DEF MutexOwned, Holding
<1>5. TeamRuns' /\ Team' = Team /\ main = "join"
  BY <1>1, TeamKept, WorkerRuns
<1>6. ChunksApart'
  BY <1>1, <1>2 DEF ChunksApart, AtWork
<1>7. SizesBounded'
  BY <1>1, <1>2 DEF SizesBounded
<1>8. ExitsExplained'
  BY <1>1, <1>2, <1>5, TeamOfWorkers DEF ExitsExplained
<1>9. RowsAccounted'
  <2>1. \A v \in Workers :
          /\ pc'[v] \in AtWork <=> pc[v] \in AtWork
          /\ pc'[v] = "quantize" <=> pc[v] = "quantize"
    BY <1>1, <1>2 DEF AtWork
  <2>2. \A v \in Workers : pc[v] \in AtWork => Chunk(v)' = Chunk(v)
    BY <1>1, <1>2, ChunkKept DEF AtWork
  <2> QED BY <1>1, <2>1, <2>2, RowsKept
<1> QED BY <1>3, <1>4, <1>5, <1>6, <1>7, <1>8, <1>9

\* Claiming a chunk.
LEMMA AdvanceStep == ASSUME WorkersInv, NEW w \in Workers, Advance(w) PROVE WorkersInv'
<1> USE DEF WorkersInv
<1>1. /\ UNCHANGED <<nthread, imatrix_is_per_weight, bad, main, expert, total,
                     new_size, valid, first_row, local_size, q>>
      /\ pc[w] = "advance" /\ pc' = [pc EXCEPT ![w] = "quantize"]
      /\ counter' = counter + RowsPerChunk /\ mutex' = 0 /\ first_row[w] < NRows
  BY DEF Advance, args, Goto
<1>2. pc'[w] = "quantize" /\ \A v \in Workers \ {w} : pc'[v] = pc[v]
  BY <1>1 DEF TypeOK
<1>3. counter \in Nat /\ counter' > counter /\ first_row[w] = counter
  BY <1>1 DEF TypeOK, ChunksApart
<1>4. TypeOK'
  BY <1>1, <1>3 DEF TypeOK
<1>5. mutex = w /\ \A v \in Workers \ {w} : pc[v] \notin Holding
  BY <1>1 DEF MutexOwned, Holding
<1>6. MutexOwned'
  BY <1>1, <1>2, <1>5 DEF MutexOwned, Holding, Workers
<1>7. TeamRuns' /\ Team' = Team /\ main = "join"
  BY <1>1, TeamKept, WorkerRuns
<1>8. ChunksApart'
  <2>1. \A v \in Workers : pc'[v] # "advance"
    BY <1>2, <1>5 DEF Holding
  <2>2. \A v \in Workers \ {w} : pc'[v] \in AtWork =>
          first_row[v] < NRows /\ first_row[v] + RowsPerChunk <= first_row[w]
    BY <1>2, <1>3 DEF ChunksApart
  <2>3. \A v \in Workers : first_row[v] \in Nat
    BY DEF TypeOK
  <2>4. \A v \in Workers : pc'[v] \in AtWork =>
          first_row[v] < NRows /\ first_row[v] + RowsPerChunk <= counter'
    BY <1>1, <1>3, <2>2, <2>3
  <2>5. \A u, v \in Workers \ {w} : u # v /\ pc'[u] \in AtWork /\ pc'[v] \in AtWork =>
            \/ first_row[u] + RowsPerChunk <= first_row[v]
            \/ first_row[v] + RowsPerChunk <= first_row[u]
    BY <1>2 DEF ChunksApart
  <2> QED BY <1>1, <2>1, <2>2, <2>4, <2>5 DEF ChunksApart
<1>9. SizesBounded'
  BY <1>1, <1>2, <1>3 DEF SizesBounded, TypeOK
<1>10. ExitsExplained'
  BY <1>1, <1>2, <1>3, <1>7, TeamOfWorkers DEF ExitsExplained
<1>11. RowsAccounted'
  <2> SUFFICES ASSUME NEW x \in Cells
               PROVE  /\ x[1] < expert => Done(x)' /\ x \notin bad
                      /\ x[1] > expert => Fresh(x)'
                      /\ x[1] = expert =>
                           /\ x[2] >= counter' => Fresh(x)'
                           /\ x[2] < counter' =>
                                  \/ Done(x)' /\ (x \notin bad \/ ~valid)
                                  \/ \E v \in Workers : pc'[v] \in AtWork /\ x[2] \in Chunk(v)'
                           /\ \A v \in Workers : pc'[v] \in AtWork /\ x[2] \in Chunk(v)' =>
                                  IF pc'[v] = "quantize" THEN Fresh(x)' ELSE Done(x)'
    BY <1>1, <1>7 DEF RowsAccounted
  <2>1. (Done(x)' <=> Done(x)) /\ (Fresh(x)' <=> Fresh(x))
    BY <1>1 DEF Done, Fresh, Importance
  <2>2. x[2] \in Rows /\ x[2] \in Int
    BY CellParts
  <2>3. \A v \in Workers : Chunk(v)' = Chunk(v)
    BY <1>1, ChunkKept
  <2>4. x[2] \in Chunk(w) <=> counter <= x[2] /\ x[2] < counter'
    BY <1>1, <1>3, <2>2, ChunkBounds
  <2>5. /\ x[1] < expert => Done(x) /\ x \notin bad
        /\ x[1] > expert => Fresh(x)
    BY DEF RowsAccounted
  <2>6. ASSUME x[1] = expert
        PROVE  /\ x[2] >= counter => Fresh(x)
               /\ x[2] < counter =>
                      \/ Done(x) /\ (x \notin bad \/ ~valid)
                      \/ \E v \in Workers : pc[v] \in AtWork /\ x[2] \in Chunk(v)
               /\ \A v \in Workers : pc[v] \in AtWork /\ x[2] \in Chunk(v) =>
                      IF pc[v] = "quantize" THEN Fresh(x) ELSE Done(x)
    BY <1>7, <2>6 DEF RowsAccounted
  <2>7. pc'[w] \in AtWork /\ \A v \in Workers : pc[v] \in AtWork => pc'[v] = pc[v]
    BY <1>1, <1>2 DEF AtWork
  <2>8. ASSUME x[1] = expert, x[2] < counter'
        PROVE  \/ Done(x)' /\ (x \notin bad \/ ~valid)
               \/ \E v \in Workers : pc'[v] \in AtWork /\ x[2] \in Chunk(v)'
    <3>1. CASE x[2] < counter
      BY <2>1, <2>3, <2>6, <2>7, <2>8, <3>1
    <3>2. CASE ~(x[2] < counter)
      BY <1>3, <2>2, <2>3, <2>4, <2>7, <2>8, <3>2
    <3> QED BY <3>1, <3>2
  <2>9. ASSUME x[1] = expert, NEW v \in Workers, pc'[v] \in AtWork, x[2] \in Chunk(v)'
        PROVE  IF pc'[v] = "quantize" THEN Fresh(x)' ELSE Done(x)'
    <3>1. CASE v = w
      BY <1>2, <1>3, <2>1, <2>2, <2>3, <2>4, <2>6, <2>9, <3>1
    <3>2. CASE v # w
      BY <1>2, <2>1, <2>3, <2>6, <2>9, <3>2
    <3> QED BY <3>1, <3>2
  <2>10. x[1] = expert /\ x[2] >= counter' => Fresh(x)'
    BY <1>1, <1>3, <2>1, <2>2, <2>6
  <2> QED BY <2>1, <2>5, <2>8, <2>9, <2>10
<1> QED BY <1>4, <1>6, <1>7, <1>8, <1>9, <1>10, <1>11

\* Leaving when no rows are left.
LEMMA RetireStep == ASSUME WorkersInv, NEW w \in Workers, Retire(w) PROVE WorkersInv'
<1> USE DEF WorkersInv
<1>1. /\ UNCHANGED <<nthread, imatrix_is_per_weight, bad, main, expert, total,
                     valid, first_row, local_size, q>>
      /\ pc[w] = "advance" /\ pc' = [pc EXCEPT ![w] = "exit"]
      /\ counter' = counter + RowsPerChunk /\ mutex' = 0 /\ first_row[w] >= NRows
      /\ new_size' = new_size + local_size[w]
  BY DEF Retire, args, Goto, SummedSize
<1>2. pc'[w] = "exit" /\ \A v \in Workers \ {w} : pc'[v] = pc[v]
  BY <1>1 DEF TypeOK
<1>3. counter \in Nat /\ counter' > counter /\ first_row[w] = counter /\ counter >= NRows
  BY <1>1 DEF TypeOK, ChunksApart
<1>4. TypeOK'
  BY <1>1, <1>3 DEF TypeOK
<1>5. mutex = w /\ \A v \in Workers \ {w} : pc[v] \notin Holding
  BY <1>1 DEF MutexOwned, Holding
<1>6. MutexOwned'
  BY <1>1, <1>2, <1>5 DEF MutexOwned, Holding, Workers
<1>7. TeamRuns' /\ Team' = Team /\ main = "join"
  BY <1>1, TeamKept, WorkerRuns
<1>8. ChunksApart'
  <2>1. \A v \in Workers : pc'[v] # "advance"
    BY <1>2, <1>5 DEF Holding
  <2>2. \A v \in Workers : pc'[v] \in AtWork => pc[v] = pc'[v]
    BY <1>1, <1>2 DEF AtWork
  <2>3. \A v \in Workers : first_row[v] \in Nat
    BY DEF TypeOK
  <2>4. \A v \in Workers : pc'[v] \in AtWork =>
          first_row[v] < NRows /\ first_row[v] + RowsPerChunk <= counter'
    BY <1>1, <1>3, <2>2, <2>3 DEF ChunksApart
  <2> QED BY <1>1, <2>1, <2>2, <2>4 DEF ChunksApart
<1>9. SizesBounded'
  BY <1>1, <1>2, <1>3 DEF SizesBounded, TypeOK
<1>10. ExitsExplained'
  BY <1>1, <1>2, <1>3, <1>7, TeamOfWorkers DEF ExitsExplained
<1>11. RowsAccounted'
  <2> SUFFICES ASSUME NEW x \in Cells
               PROVE  /\ x[1] < expert => Done(x)' /\ x \notin bad
                      /\ x[1] > expert => Fresh(x)'
                      /\ x[1] = expert =>
                           /\ ~(x[2] >= counter')
                           /\ \/ Done(x)' /\ (x \notin bad \/ ~valid)
                              \/ \E v \in Workers : pc'[v] \in AtWork /\ x[2] \in Chunk(v)'
                           /\ \A v \in Workers : pc'[v] \in AtWork /\ x[2] \in Chunk(v)' =>
                                  IF pc'[v] = "quantize" THEN Fresh(x)' ELSE Done(x)'
    BY <1>1, <1>7 DEF RowsAccounted
  <2>1. (Done(x)' <=> Done(x)) /\ (Fresh(x)' <=> Fresh(x))
    BY <1>1 DEF Done, Fresh, Importance
  <2>2. x[2] \in Int /\ x[2] < counter /\ x[2] < counter'
    BY <1>1, <1>3, CellParts DEF Rows
  <2>3. \A v \in Workers : Chunk(v)' = Chunk(v)
    BY <1>1, ChunkKept
  <2>4. \A v \in Workers : pc[v] \in AtWork \/ pc'[v] \in AtWork => pc'[v] = pc[v]
    BY <1>1, <1>2 DEF AtWork
  <2>5. /\ x[1] < expert => Done(x) /\ x \notin bad
        /\ x[1] > expert => Fresh(x)
    BY DEF RowsAccounted
  <2>6. ASSUME x[1] = expert
        PROVE  /\ \/ Done(x) /\ (x \notin bad \/ ~valid)
                  \/ \E v \in Workers : pc[v] \in AtWork /\ x[2] \in Chunk(v)
               /\ \A v \in Workers : pc[v] \in AtWork /\ x[2] \in Chunk(v) =>
                      IF pc[v] = "quantize" THEN Fresh(x) ELSE Done(x)
    BY <1>7, <2>2, <2>6 DEF RowsAccounted
  <2>7. ~(x[2] >= counter')
    BY <1>4, <2>2 DEF TypeOK
  <2> QED BY <2>1, <2>3, <2>4, <2>5, <2>6, <2>7
<1> QED BY <1>4, <1>6, <1>7, <1>8, <1>9, <1>10, <1>11

\* Chunks that are apart share no row.
LEMMA ApartShareNothing == TypeOK /\ ChunksApart => NoSharedRows
<1> SUFFICES ASSUME TypeOK, ChunksApart, NEW v \in Workers, NEW w \in Workers, v # w,
                    pc[v] \in AtWork, pc[w] \in AtWork, NEW r \in Chunk(v), r \in Chunk(w)
             PROVE  FALSE
  BY DEF NoSharedRows
<1>1. first_row[v] < NRows /\ first_row[w] < NRows /\ first_row[v] \in Nat /\ first_row[w] \in Nat
  BY DEF ChunksApart, TypeOK
<1>2. r \in Rows /\ r \in Int
  BY <1>1, ChunkBounds DEF Rows
<1>3. /\ first_row[v] <= r /\ r < first_row[v] + RowsPerChunk
      /\ first_row[w] <= r /\ r < first_row[w] + RowsPerChunk
  BY <1>1, <1>2, ChunkBounds
<1>4. \/ first_row[v] + RowsPerChunk <= first_row[w]
      \/ first_row[w] + RowsPerChunk <= first_row[v]
  BY DEF ChunksApart
<1> QED BY <1>1, <1>2, <1>3, <1>4

\* Quantizing a chunk.
LEMMA QuantizeStep == ASSUME WorkersInv, NEW w \in Workers, Quantize(w) PROVE WorkersInv'
<1> USE DEF WorkersInv
<1>1. /\ UNCHANGED <<nthread, imatrix_is_per_weight, bad, main, expert, total, mutex,
                     counter, new_size, valid, first_row>>
      /\ pc[w] = "quantize" /\ pc' = [pc EXCEPT ![w] = "validate"]
      /\ q' = Quantized(Chunk(w), first_row[w])
      /\ local_size' = [local_size EXCEPT ![w] = @ + ThisNRow(w)]
  BY DEF Quantize, args, shared, Goto
<1>2. pc'[w] = "validate" /\ \A v \in Workers \ {w} : pc'[v] = pc[v]
  BY <1>1 DEF TypeOK
<1>3. first_row[w] < NRows /\ first_row[w] + RowsPerChunk <= counter
  BY <1>1 DEF ChunksApart, AtWork
<1>4. /\ ThisNRow(w) \in Nat /\ ThisNRow(w) <= RowsPerChunk
      /\ first_row[w] + ThisNRow(w) <= NRows /\ Chunk(w) \in SUBSET Rows
  BY <1>3, ChunkBounds
<1>5. local_size[w] \in Nat /\ local_size[w] <= first_row[w] /\ first_row[w] \in Nat
  BY <1>1 DEF SizesBounded, TypeOK
<1>6. local_size'[w] = local_size[w] + ThisNRow(w) /\ local_size' \in [Workers -> 0..NRows]
  <2>1. local_size[w] + ThisNRow(w) \in 0..NRows
    BY <1>4, <1>5
  <2> QED BY <1>1, <2>1 DEF TypeOK
<1>7. q' \in [Cells -> Seq(Nat)]
  BY <1>1, <1>4, QuantizedTyped
<1>8. TypeOK'
  BY <1>1, <1>6, <1>7 DEF TypeOK
<1>9. MutexOwned'
  BY <1>1, <1>2 DEF MutexOwned, Holding
<1>10. TeamRuns' /\ Team' = Team /\ main = "join"
  BY <1>1, TeamKept, WorkerRuns
<1>11. ChunksApart'
  BY <1>1, <1>2 DEF ChunksApart, AtWork
<1>12. SizesBounded'
  <2>1. local_size'[w] <= counter
    BY <1>3, <1>4, <1>5, <1>6 DEF TypeOK
  <2>2. \A v \in Workers \ {w} : local_size'[v] = local_size[v]
    BY <1>1 DEF TypeOK
  <2> QED BY <1>1, <1>2, <2>1, <2>2 DEF SizesBounded
<1>13. ExitsExplained'
  BY <1>1, <1>2, <1>10, TeamOfWorkers DEF ExitsExplained
<1>14. RowsAccounted'
  <2> SUFFICES ASSUME NEW x \in Cells
               PROVE  /\ x[1] < expert => Done(x)' /\ x \notin bad
                      /\ x[1] > expert => Fresh(x)'
                      /\ x[1] = expert =>
                           /\ x[2] >= counter => Fresh(x)'
                           /\ x[2] < counter =>
                                  \/ Done(x)' /\ (x \notin bad \/ ~valid)
                                  \/ \E v \in Workers : pc'[v] \in AtWork /\ x[2] \in Chunk(v)'
                           /\ \A v \in Workers : pc'[v] \in AtWork /\ x[2] \in Chunk(v)' =>
                                  IF pc'[v] = "quantize" THEN Fresh(x)' ELSE Done(x)'
    BY <1>1, <1>10 DEF RowsAccounted
  <2>1. x[1] \in Int /\ x[2] \in Rows /\ x[2] \in Int /\ expert \in Int
    BY CellParts DEF TypeOK
  <2>2. \A v \in Workers : Chunk(v)' = Chunk(v)
    BY <1>1, ChunkKept
  <2>3. x[2] \in Chunk(w) => x[2] < counter
    BY <1>3, <1>5, <2>1, ChunkBounds DEF TypeOK
  <2>4. pc[w] \in AtWork /\ pc'[w] \in AtWork
    BY <1>1, <1>2 DEF AtWork
  <2>5. CASE x[1] = expert /\ x[2] \in Chunk(w)
    <3>1. Fresh(x)
      BY <1>1, <1>10, <2>4, <2>5 DEF RowsAccounted
    <3>2. Done(x)'
      BY <1>1, <2>5, <3>1, QuantizedRows
    <3>3. \A v \in Workers \ {w} : pc'[v] \in AtWork => x[2] \notin Chunk(v)
      BY <1>2, <2>4, <2>5, ApartShareNothing DEF NoSharedRows
    <3> QED BY <1>2, <2>1, <2>2, <2>3, <2>4, <2>5, <3>2, <3>3 DEF TypeOK
  <2>6. CASE ~(x[1] = expert /\ x[2] \in Chunk(w))
    <3>1. q'[x] = q[x]
      BY <1>1, <2>6, QuantizedRows
    <3>2. (Done(x)' <=> Done(x)) /\ (Fresh(x)' <=> Fresh(x))
      BY <1>1, <3>1 DEF Done, Fresh, Importance
    <3>3. /\ x[1] < expert => Done(x) /\ x \notin bad
          /\ x[1] > expert => Fresh(x)
      BY DEF RowsAccounted
    <3>4. ASSUME x[1] = expert
          PROVE  /\ x[2] >= counter => Fresh(x)
                 /\ x[2] < counter =>
                        \/ Done(x) /\ (x \notin bad \/ ~valid)
                        \/ \E v \in Workers : pc[v] \in AtWork /\ x[2] \in Chunk(v)
                 /\ \A v \in Workers : pc[v] \in AtWork /\ x[2] \in Chunk(v) =>
                        IF pc[v] = "quantize" THEN Fresh(x) ELSE Done(x)
      BY <1>10, <3>4 DEF RowsAccounted
    <3>5. \A v \in Workers : x[1] = expert /\ x[2] \in Chunk(v) => pc'[v] = pc[v]
      BY <1>2, <2>6
    <3> QED BY <2>2, <3>2, <3>3, <3>4, <3>5
  <2> QED BY <2>5, <2>6
<1> QED BY <1>8, <1>9, <1>10, <1>11, <1>12, <1>13, <1>14

\* A worker leaves its chunk, which is done and either valid or reported.
LEMMA RowsSettled ==
    ASSUME RowsAccounted, main = "join", NEW w \in Workers,
           pc[w] \in AtWork \ {"quantize"}, pc'[w] \notin AtWork,
           \A v \in Workers \ {w} : pc'[v] = pc[v],
           UNCHANGED <<q, bad, imatrix_is_per_weight, expert, main, counter, first_row>>,
           ~valid => ~valid', Validates(Chunk(w)) \/ ~valid'
    PROVE  RowsAccounted'
<1> SUFFICES ASSUME NEW x \in Cells
             PROVE  /\ x[1] < expert => Done(x)' /\ x \notin bad
                    /\ x[1] > expert => Fresh(x)'
                    /\ x[1] = expert =>
                         /\ x[2] >= counter => Fresh(x)'
                         /\ x[2] < counter =>
                                \/ Done(x)' /\ (x \notin bad \/ ~valid')
                                \/ \E v \in Workers : pc'[v] \in AtWork /\ x[2] \in Chunk(v)'
                         /\ \A v \in Workers : pc'[v] \in AtWork /\ x[2] \in Chunk(v)' =>
                                IF pc'[v] = "quantize" THEN Fresh(x)' ELSE Done(x)'
  BY DEF RowsAccounted
<1>1. (Done(x)' <=> Done(x)) /\ (Fresh(x)' <=> Fresh(x))
  BY DEF Done, Fresh, Importance
<1>2. \A v \in Workers : Chunk(v)' = Chunk(v)
  BY ChunkKept
<1>3. /\ x[1] < expert => Done(x) /\ x \notin bad
      /\ x[1] > expert => Fresh(x)
  BY DEF RowsAccounted
<1>4. ASSUME x[1] = expert
      PROVE  /\ x[2] >= counter => Fresh(x)
             /\ x[2] < counter =>
                    \/ Done(x) /\ (x \notin bad \/ ~valid)
                    \/ \E v \in Workers : pc[v] \in AtWork /\ x[2] \in Chunk(v)
             /\ \A v \in Workers : pc[v] \in AtWork /\ x[2] \in Chunk(v) =>
                    IF pc[v] = "quantize" THEN Fresh(x) ELSE Done(x)
  BY <1>4 DEF RowsAccounted
<1>5. x[1] = expert /\ x[2] \in Chunk(w) => Done(x)' /\ (x \notin bad \/ ~valid')
  BY <1>1, <1>4, CellParts DEF Validates
<1> QED BY <1>1, <1>2, <1>3, <1>4, <1>5

\* Validating a chunk.
LEMMA ValidateStep == ASSUME WorkersInv, NEW w \in Workers, Validate(w) PROVE WorkersInv'
<1> USE DEF WorkersInv
<1> DEFINE l == IF Validates(Chunk(w)) THEN "lock" ELSE "invalid"
<1>1. /\ UNCHANGED <<nthread, imatrix_is_per_weight, bad, main, expert, total, mutex,
                     counter, new_size, valid, first_row, local_size, q>>
      /\ pc[w] = "validate" /\ pc' = [pc EXCEPT ![w] = l]
  BY DEF Validate, args, shared, Goto
<1>2. /\ pc'[w] = l /\ \A v \in Workers \ {w} : pc'[v] = pc[v]
      /\ l \in {"lock", "invalid"}
  BY <1>1 DEF TypeOK
<1>3. TypeOK'
  BY <1>1, <1>2 DEF TypeOK
<1>4. MutexOwned'
  BY <1>1, <1>2 DEF MutexOwned, Holding
<1>5. TeamRuns' /\ Team' = Team /\ main = "join"
  BY <1>1, TeamKept, WorkerRuns
<1>6. ChunksApart'
  BY <1>1, <1>2 DEF ChunksApart, AtWork
<1>7. SizesBounded'
  BY <1>1, <1>2 DEF SizesBounded
<1>8. ExitsExplained'
  <2>1. l = "invalid" => bad # {}
    BY DEF Validates
  <2> QED BY <1>1, <1>2, <1>5, <2>1, TeamOfWorkers DEF ExitsExplained
<1>9. RowsAccounted'
  <2>1. CASE Validates(Chunk(w))
    <3>1. pc[w] \in AtWork \ {"quantize"} /\ pc'[w] \notin AtWork
      BY <1>1, <1>2, <2>1 DEF AtWork
    <3> QED BY <1>1, <1>2, <1>5, <2>1, <3>1, RowsSettled
  <2>2. CASE ~Validates(Chunk(w))
    <3>1. \A v \in Workers :
            /\ pc'[v] \in AtWork <=> pc[v] \in AtWork
            /\ pc'[v] = "quantize" <=> pc[v] = "quantize"
      BY <1>1, <1>2, <2>2 DEF AtWork
    <3>2. \A v \in Workers : Chunk(v)' = Chunk(v)
      BY <1>1, ChunkKept
    <3> QED BY <1>1, <3>1, <3>2, RowsKept
  <2> QED BY <2>1, <2>2
<1> QED BY <1>3, <1>4, <1>5, <1>6, <1>7, <1>8, <1>9

\* Reporting an invalid chunk.
LEMMA ReportStep == ASSUME WorkersInv, NEW w \in Workers, Report(w) PROVE WorkersInv'
<1> USE DEF WorkersInv
<1>1. /\ UNCHANGED <<nthread, imatrix_is_per_weight, bad, main, expert, total,
                     counter, new_size, first_row, local_size, q>>
      /\ pc[w] = "report" /\ pc' = [pc EXCEPT ![w] = "exit"]
      /\ valid' = FALSE /\ mutex' = 0
  BY DEF Report, args, Goto
<1>2. pc'[w] = "exit" /\ \A v \in Workers \ {w} : pc'[v] = pc[v]
  BY <1>1 DEF TypeOK
<1>3. TypeOK'
  BY <1>1 DEF TypeOK
<1>4. \A v \in Workers \ {w} : pc[v] \notin Holding
  BY <1>1 DEF MutexOwned, Holding
<1>5. MutexOwned'
  BY <1>1, <1>2, <1>4 DEF MutexOwned, Holding, Workers
<1>6. TeamRuns' /\ Team' = Team /\ main = "join"
  BY <1>1, TeamKept, WorkerRuns
<1>7. ChunksApart'
  BY <1>1, <1>2 DEF ChunksApart, AtWork
<1>8. SizesBounded'
  BY <1>1, <1>2 DEF SizesBounded
<1>9. ExitsExplained'
  BY <1>1, <1>2, <1>6 DEF ExitsExplained
<1>10. RowsAccounted'
  <2>1. pc[w] \in AtWork \ {"quantize"} /\ pc'[w] \notin AtWork
    BY <1>1, <1>2 DEF AtWork
  <2> QED BY <1>1, <1>2, <1>6, <2>1, RowsSettled
<1> QED BY <1>3, <1>5, <1>6, <1>7, <1>8, <1>9, <1>10

\* Every step keeps the invariant.
LEMMA WorkersStep == WorkersInv /\ [Next]_vars => WorkersInv'
<1> SUFFICES ASSUME WorkersInv, [Next]_vars PROVE WorkersInv'
  OBVIOUS
<1>1. CASE Caller
  BY <1>1, SingleStep, SpawnStep, JoinStep, ReturnStep DEF Caller
<1>2. ASSUME NEW w \in Workers, Work(w) PROVE WorkersInv'
  BY <1>2, LockStep, ReadStep, AdvanceStep, RetireStep, QuantizeStep, ValidateStep, ReportStep
     DEF Work
<1>3. CASE UNCHANGED vars
  <2>1. UNCHANGED <<nthread, imatrix_is_per_weight, bad, main, expert, total, pc, mutex, counter,
                    new_size, valid, first_row, local_size, q>>
    BY <1>3 DEF vars, args, shared
  <2>2. TypeOK' /\ MutexOwned' /\ TeamRuns' /\ ChunksApart' /\ SizesBounded' /\ ExitsExplained'
    BY <2>1 DEF WorkersInv, TypeOK, MutexOwned, TeamRuns, ChunksApart, SizesBounded,
       ExitsExplained, Team, NThreadUse
  <2>3. \A v \in Workers : Chunk(v)' = Chunk(v)
    BY <2>1, ChunkKept
  <2>4. RowsAccounted'
    BY <2>1, <2>3, RowsKept DEF WorkersInv
  <2> QED BY <2>2, <2>4 DEF WorkersInv
<1> QED BY <1>1, <1>2, <1>3 DEF Next

\* The workers and their caller keep their invariant.
THEOREM WorkersInvariant == Spec => []WorkersInv
BY WorkersInit, WorkersStep, PTL DEF Spec

\* Every value of the conversion is of its kind, and no worker accounts for more rows than
\* the matrix has.
THEOREM WorkersTyped == Spec => []TypeOK
<1>1. WorkersInv => TypeOK
  BY DEF WorkersInv
<1> QED BY <1>1, WorkersInvariant, PTL

\* The unlocked writes and reads of two workers never concern the same row.
THEOREM WorkersDoNotRace == Spec => []NoSharedRows
<1>1. WorkersInv => NoSharedRows
  BY ApartShareNothing DEF WorkersInv
<1> QED BY <1>1, WorkersInvariant, PTL

\* A tensor that is written out has every row quantized once, with its own importance.
THEOREM EveryRowQuantizedOnce == Spec => []QuantizedOnce
<1>1. WorkersInv => QuantizedOnce
  <2> SUFFICES ASSUME WorkersInv, main = "returned", NEW x \in Cells
               PROVE  q[x] = <<Importance(x)>>
    BY DEF QuantizedOnce
  <2>1. x[1] < expert
    BY CellParts DEF WorkersInv, TeamRuns, Experts
  <2> QED BY <2>1 DEF WorkersInv, RowsAccounted, Done
<1> QED BY <1>1, WorkersInvariant, PTL

\* Data that fails validation is never written out, and the conversion throws for no other
\* reason.
THEOREM DefectsReported == Spec => []InvalidReported
<1>1. WorkersInv => InvalidReported
  <2> SUFFICES ASSUME WorkersInv PROVE InvalidReported
    OBVIOUS
  <2>1. ASSUME main = "returned", NEW x \in bad PROVE FALSE
    <3>1. x \in Cells
      BY DEF WorkersInv, TypeOK
    <3>2. x[1] < expert
      BY <2>1, <3>1, CellParts DEF WorkersInv, TeamRuns, Experts
    <3> QED BY <3>1, <3>2 DEF WorkersInv, RowsAccounted
  <2> QED BY <2>1 DEF InvalidReported, WorkersInv, ExitsExplained
<1> QED BY <1>1, WorkersInvariant, PTL

-----------------------------------------------------------------------------
(* The size of the tensor.                                                 *)

\* What a worker has still to add to new_size: what it has quantized, and the chunk it
\* is about to quantize.
Owed == [w \in Workers |->
           IF pc[w] = "exit" THEN 0
           ELSE IF pc[w] = "quantize" THEN local_size[w] + ThisNRow(w)
           ELSE local_size[w]]

\* The rows handed out so far.
Claimed == IF counter < NRows THEN counter ELSE NRows

\* While no invalid chunk has been reported, the rows handed out are those added to
\* new_size and those the workers still owe; the experts done have full size.
SizesAdd ==
    /\ total = expert * NRows
    /\ main = "join" /\ valid => new_size + SumFunctionOnSet(Owed, Workers) = Claimed

-----------------------------------------------------------------------------
\* What a worker owes is a number, and is zero once it has left.
LEMMA OwedTyped ==
    ASSUME TypeOK, NEW w \in Workers
    PROVE  /\ Owed[w] \in Int /\ ThisNRow(w) \in Int /\ local_size[w] \in Nat
           /\ Owed[w] = IF pc[w] = "exit" THEN 0
                        ELSE IF pc[w] = "quantize" THEN local_size[w] + ThisNRow(w)
                        ELSE local_size[w]
<1>1. first_row[w] \in Int /\ local_size[w] \in Nat
  BY DEF TypeOK
<1>2. ThisNRow(w) \in Int
  BY <1>1 DEF ThisNRow
<1> QED BY <1>1, <1>2 DEF Owed

\* There are finitely many workers.
LEMMA WorkersFinite == IsFiniteSet(Workers)
BY FS_Interval DEF Workers

\* If no worker owes anything, nothing is owed.
LEMMA NothingOwed ==
    ASSUME NEW f, \A w \in Workers : f[w] = 0
    PROVE  SumFunctionOnSet(f, Workers) = 0
<1>1. \A w \in Workers : f[w] \in Int /\ f[w] = 0 * f[w]
  OBVIOUS
<1>2. \A w \in Workers : f[w] \in Int
  BY <1>1
<1>3. Workers \in SUBSET Workers
  OBVIOUS
<1>4. SumFunctionOnSet(f, Workers) \in Int
  BY <1>2, <1>3, WorkersFinite, SumInt
<1>5. 0 \in Int
  OBVIOUS
<1>6. SumFunctionOnSet(f, Workers) = 0 * SumFunctionOnSet(f, Workers)
  BY <1>1, <1>5, WorkersFinite, SumScale
<1> QED BY <1>4, <1>6

\* A step after which everybody owes as much as before, with nothing added or handed out.
LEMMA SizesKept ==
    ASSUME SizesAdd, UNCHANGED <<main, expert, total, counter, new_size, valid>>,
           \A w \in Workers : Owed'[w] = Owed[w]
    PROVE  SizesAdd'
<1>1. \A w \in Workers : (Owed')[w] = Owed[w]
  OBVIOUS
<1>2. SumFunctionOnSet(Owed', Workers) = SumFunctionOnSet(Owed, Workers)
  BY <1>1, WorkersFinite, SumAgree
<1> QED BY <1>2 DEF SizesAdd, Claimed

\* A step in which one worker comes to owe d more.
LEMMA SizesMoved ==
    ASSUME TypeOK, TypeOK', NEW w \in Workers, NEW d \in Int,
           Owed'[w] = Owed[w] + d,
           \A v \in Workers \ {w} : Owed'[v] = Owed[v]
    PROVE  /\ SumFunctionOnSet(Owed, Workers) \in Int
           /\ SumFunctionOnSet(Owed, Workers)' = SumFunctionOnSet(Owed, Workers) + d
<1>1. \A v \in Workers : Owed[v] \in Int
  BY OwedTyped
<1>2. Owed[w] + d \in Int
  BY <1>1
<1>3. \A v \in Workers : Owed[v] \in Int /\ (Owed')[v] \in Int /\ (v # w => Owed[v] = (Owed')[v])
  BY <1>1, <1>2
<1>4. Owed[w] + SumFunctionOnSet(Owed', Workers) = (Owed')[w] + SumFunctionOnSet(Owed, Workers)
  BY <1>3, WorkersFinite, SumChange
<1>5. Workers \in SUBSET Workers /\ \A v \in Workers : (Owed')[v] \in Int
  BY <1>3
<1>6. SumFunctionOnSet(Owed, Workers) \in Int
  BY <1>1, <1>5, WorkersFinite, SumInt
<1>7. SumFunctionOnSet(Owed', Workers) \in Int
  BY <1>5, WorkersFinite, SumInt
<1>8. SumFunctionOnSet(Owed', Workers) = SumFunctionOnSet(Owed, Workers) + d
  BY <1>1, <1>4, <1>6, <1>7
<1> QED BY <1>6, <1>8

\* The caller's steps keep the sizes.
LEMMA SizesCaller == WorkersInv /\ WorkersInv' /\ SizesAdd /\ Caller => SizesAdd'
<1> SUFFICES ASSUME WorkersInv, WorkersInv', SizesAdd, Caller PROVE SizesAdd'
  OBVIOUS
<1>1. /\ total \in Nat /\ expert \in Nat /\ NRows \in Nat /\ new_size \in Nat /\ counter \in Nat
      /\ total = expert * NRows
  BY DEF WorkersInv, TypeOK, SizesAdd
<1>2. (expert + 1) * NRows = expert * NRows + NRows
  BY <1>1
<1>3. CASE SingleThread
  BY <1>1, <1>2, <1>3 DEF SingleThread, SizesAdd
<1>4. CASE Spawn
  <2>1. /\ main' = "join" /\ total' = total /\ expert' = expert /\ new_size' = 0 /\ counter' = 0
        /\ \A w \in Workers : local_size'[w] = 0 /\ pc'[w] \in {"lock", "exit"}
    BY <1>4 DEF Spawn
  <2>2. \A w \in Workers : (Owed')[w] = 0
    BY <2>1, OwedTyped DEF WorkersInv, Owed
  <2>3. SumFunctionOnSet(Owed', Workers) = 0
    BY <2>2, NothingOwed
  <2> QED BY <1>1, <2>1, <2>3 DEF SizesAdd, Claimed
<1>5. CASE Join
  <2>1. main = "join" /\ \A w \in Workers : pc[w] = "exit"
    BY <1>5 DEF Join, WorkersInv, TeamRuns
  <2>2. \A w \in Workers : Owed[w] = 0
    BY <2>1 DEF Owed
  <2>3. SumFunctionOnSet(Owed, Workers) = 0
    BY <2>2, NothingOwed
  <2>4. NThreadUse \in Int /\ NThreadUse >= 2
    BY <2>1 DEF WorkersInv, TeamRuns, NThreadUse, NChunk, TypeOK
  <2>5. 1 \in Team
    BY <2>4 DEF Team
  <2>6. valid => counter >= NRows
    BY <1>5, <2>1, <2>5 DEF WorkersInv, ExitsExplained, Join
  <2>7. valid => new_size = NRows
    BY <1>1, <2>1, <2>3, <2>6 DEF SizesAdd, Claimed
  <2> QED BY <1>1, <1>2, <1>5, <2>7 DEF Join, SizesAdd
<1>6. CASE Return
  BY <1>1, <1>6 DEF Return, SizesAdd
<1> QED BY <1>3, <1>4, <1>5, <1>6 DEF Caller

\* The workers' steps keep the sizes: handing out a chunk moves it into what is owed,
\* leaving moves what is owed into new_size.
LEMMA SizesWork ==
    ASSUME WorkersInv, WorkersInv', SizesAdd, NEW w \in Workers, Work(w)
    PROVE  SizesAdd'
<1>1. TypeOK /\ TypeOK'
  BY DEF WorkersInv
<1>2. \A v \in Workers : v # w => Owed'[v] = Owed[v]
  <2> SUFFICES ASSUME NEW v \in Workers, v # w PROVE Owed'[v] = Owed[v]
    OBVIOUS
  <2>1. pc'[v] = pc[v] /\ local_size'[v] = local_size[v] /\ first_row'[v] = first_row[v]
    BY <1>1 DEF Work, Lock, Read, Advance, Retire, Quantize, Validate, LockToReport, Report,
       Goto, TypeOK
  <2>2. ThisNRow(v)' = ThisNRow(v)
    BY <2>1 DEF ThisNRow
  <2> QED BY <2>1, <2>2 DEF Owed
<1>3. CASE Lock(w) \/ Read(w) \/ Validate(w) \/ LockToReport(w)
  <2>1. /\ UNCHANGED <<main, expert, total, counter, new_size, valid>>
        /\ local_size'[w] = local_size[w]
        /\ pc[w] \notin {"exit", "quantize"} /\ pc'[w] \notin {"exit", "quantize"}
    BY <1>1, <1>3 DEF Lock, Read, Validate, LockToReport, Goto, TypeOK, shared
  <2>2. Owed'[w] = Owed[w]
    BY <2>1 DEF Owed
  <2> QED BY <1>2, <2>1, <2>2, SizesKept
<1>4. CASE Quantize(w)
  <2>1. /\ UNCHANGED <<main, expert, total, counter, new_size, valid>>
        /\ local_size'[w] = local_size[w] + ThisNRow(w)
        /\ pc[w] = "quantize" /\ pc'[w] = "validate"
    BY <1>1, <1>4 DEF Quantize, Goto, TypeOK, shared
  <2>2. Owed'[w] = Owed[w]
    BY <2>1 DEF Owed
  <2> QED BY <1>2, <2>1, <2>2, SizesKept
<1>5. CASE Advance(w)
  <2>1. /\ UNCHANGED <<main, expert, total, new_size, valid>>
        /\ local_size'[w] = local_size[w] /\ first_row'[w] = first_row[w]
        /\ first_row[w] < NRows /\ counter' = counter + RowsPerChunk
        /\ pc[w] = "advance" /\ pc'[w] = "quantize"
    BY <1>1, <1>5 DEF Advance, Goto, TypeOK
  <2>2. first_row[w] = counter
    BY <2>1 DEF WorkersInv, ChunksApart
  <2>3. ThisNRow(w)' = ThisNRow(w) /\ ThisNRow(w) \in Int /\ local_size[w] \in Nat
    BY <1>1, <2>1, OwedTyped DEF ThisNRow
  <2>4. Owed'[w] = Owed[w] + ThisNRow(w)
    BY <2>1, <2>3 DEF Owed
  <2>5. /\ SumFunctionOnSet(Owed, Workers) \in Int
        /\ SumFunctionOnSet(Owed, Workers)' = SumFunctionOnSet(Owed, Workers) + ThisNRow(w)
    BY <1>1, <1>2, <2>3, <2>4, SizesMoved
  <2>6. counter \in Nat /\ new_size \in Nat
    BY <1>1 DEF TypeOK
  <2>7. Claimed' = Claimed + ThisNRow(w) /\ Claimed \in Int
    BY <2>1, <2>2, <2>6 DEF Claimed, ThisNRow
  <2>8. SumFunctionOnSet(Owed', Workers) = SumFunctionOnSet(Owed, Workers) + ThisNRow(w)
    BY <2>5
  <2> HIDE DEF Claimed
  <2> QED BY <2>1, <2>3, <2>5, <2>6, <2>7, <2>8 DEF SizesAdd
<1>6. CASE Retire(w)
  <2>1. /\ UNCHANGED <<main, expert, total, valid>>
        /\ new_size' = new_size + local_size[w]
        /\ first_row[w] >= NRows /\ counter' = counter + RowsPerChunk
        /\ pc[w] = "advance" /\ pc'[w] = "exit"
    BY <1>1, <1>6 DEF Retire, Goto, TypeOK, SummedSize
  <2>2. first_row[w] = counter
    BY <2>1 DEF WorkersInv, ChunksApart
  <2>3. local_size[w] \in Nat /\ -local_size[w] \in Int
    BY <1>1, OwedTyped
  <2>4. Owed'[w] = Owed[w] + (-local_size[w])
    BY <2>1, <2>3 DEF Owed
  <2>5. /\ SumFunctionOnSet(Owed, Workers) \in Int
        /\ SumFunctionOnSet(Owed, Workers)' = SumFunctionOnSet(Owed, Workers) + (-local_size[w])
    BY <1>1, <1>2, <2>3, <2>4, SizesMoved
  <2>6. counter \in Nat /\ new_size \in Nat
    BY <1>1 DEF TypeOK
  <2>7. Claimed' = Claimed
    BY <2>1, <2>2, <2>6 DEF Claimed
  <2>8. SumFunctionOnSet(Owed', Workers) = SumFunctionOnSet(Owed, Workers) + (-local_size[w])
    BY <2>5
  <2> QED BY <2>1, <2>3, <2>5, <2>6, <2>7, <2>8 DEF SizesAdd
<1>7. CASE Report(w)
  BY <1>7 DEF Report, SizesAdd
<1> QED BY <1>3, <1>4, <1>5, <1>6, <1>7 DEF Work

\* The size collected for a tensor that is written out is the size of the tensor, the
\* assertion llama_model_quantize_impl makes with gguf_get_tensor_size: no worker's share
\* is lost, added twice or taken over from an earlier expert.
THEOREM SizeAddsUp == Spec => []SizeExact
<1>1. Init => SizesAdd
  BY DEF Init, SizesAdd
<1>2. WorkersInv /\ WorkersInv' /\ SizesAdd /\ [Next]_vars => SizesAdd'
  <2> SUFFICES ASSUME WorkersInv, WorkersInv', SizesAdd, [Next]_vars PROVE SizesAdd'
    OBVIOUS
  <2>1. CASE Caller
    BY <2>1, SizesCaller
  <2>2. ASSUME NEW w \in Workers, Work(w) PROVE SizesAdd'
    BY <2>2, SizesWork
  <2>3. CASE UNCHANGED vars
    <3>1. UNCHANGED <<main, expert, total, pc, counter, new_size, valid, first_row, local_size>>
      BY <2>3 DEF vars, shared
    <3>2. \A w \in Workers : Owed'[w] = Owed[w]
      BY <3>1 DEF Owed, ThisNRow
    <3> QED BY <3>1, <3>2, SizesKept
  <2> QED BY <2>1, <2>2, <2>3 DEF Next
<1>3. WorkersInv /\ SizesAdd => SizeExact
  BY DEF WorkersInv, TeamRuns, SizesAdd, SizeExact
<1> QED BY <1>1, <1>2, <1>3, WorkersInvariant, PTL DEF Spec

-----------------------------------------------------------------------------
\* While the caller waits in join, the workers are all gone, or some worker of the team can
\* take its next step: it needs no mutex, or the mutex is free.
NoneStuck ==
    main = "join" =>
        \/ \A w \in Team : pc[w] = "exit"
        \/ \E w \in Team : /\ pc[w] # "exit"
                           /\ pc[w] \in {"lock", "invalid"} => mutex = 0

\* The workers never wait for each other: compute's mutex is held only by a worker that
\* is about to release it, on the way out through the end of the rows or through an invalid
\* chunk too, so join is never left waiting for threads none of which can move.
THEOREM WorkersNeverStuck == Spec => []NoneStuck
<1>1. WorkersInv => NoneStuck
  <2> SUFFICES ASSUME WorkersInv, main = "join", NEW u \in Team, pc[u] # "exit"
               PROVE  \E w \in Team : /\ pc[w] # "exit"
                                      /\ pc[w] \in {"lock", "invalid"} => mutex = 0
    BY DEF NoneStuck
  <2>1. CASE mutex = 0
    BY <2>1
  <2>2. CASE mutex # 0
    <3>1. mutex \in Workers
      BY <2>2 DEF WorkersInv, TypeOK
    <3>2. pc[mutex] \in Holding
      BY <3>1 DEF WorkersInv, MutexOwned
    <3>3. mutex \in Team
      BY <3>1, <3>2, WorkerRuns DEF Holding
    <3> QED BY <3>2, <3>3 DEF Holding
  <2> QED BY <2>1, <2>2
<1> QED BY <1>1, WorkersInvariant, PTL
=============================================================================
