---------------------------- MODULE QuantWorkers ----------------------------
(***************************************************************************)
(* How llama-quantize converts one tensor: the loop over its experts in    *)
(* llama_model_quantize_impl and, for each, the worker threads of          *)
(* llama_tensor_quantize_impl, which take chunks of rows from a counter    *)
(* under a mutex, quantize them with their part of the importance matrix   *)
(* and validate the result.  Sizes are in units of a quantized row.        *)
(***************************************************************************)
EXTENDS Integers, Sequences, FiniteSets

CONSTANTS
    NumExperts,    \* tensor->ne[2]
    NRows,         \* tensor->ne[1]
    RowsPerChunk,  \* chunk_size / n_per_row
    MaxThreads,    \* the largest --nthread
    Defects        \* the sets of rows whose quantized data may fail validation

Experts == 0..(NumExperts - 1)
Rows == 0..(NRows - 1)
Cells == Experts \X Rows
Workers == 1..MaxThreads

ASSUME ShapeAssumption ==
    /\ NumExperts \in Nat \ {0} /\ NRows \in Nat \ {0}
    /\ RowsPerChunk \in Nat \ {0} /\ MaxThreads \in Nat \ {0}
    /\ Defects \subseteq SUBSET Cells

VARIABLES
    nthread, imatrix_is_per_weight, bad,   \* the arguments, and the rows that will
                                           \* not validate
    main,          \* the calling thread: "expert", "join", "returned", "threw"
    expert,        \* i03
    total,         \* new_size of llama_model_quantize_impl
    pc,            \* where each worker is; worker 1 is the calling thread
    mutex,         \* the worker that holds the mutex, 0 if none does
    counter, new_size, valid,
    first_row, local_size,                 \* of each worker
    q              \* history: the importance slices each row was quantized with

args == <<nthread, imatrix_is_per_weight, bad>>
shared == <<counter, new_size, valid>>
vars == <<args, main, expert, total, pc, mutex, shared, first_row, local_size, q>>

Holding == {"read", "advance", "report"}
AtWork == {"quantize", "validate", "invalid", "report"}

-----------------------------------------------------------------------------
\* nthread_use: never more threads than chunks.
NChunk == (NRows + RowsPerChunk - 1) \div RowsPerChunk
NThreadUse == IF nthread < NChunk THEN nthread ELSE NChunk
Team == 1..NThreadUse

\* Seeded fault: the last chunk is not cut at the end of the matrix.
FullChunk(w) == RowsPerChunk
\* this_nrow
ThisNRow(w) ==
    IF NRows - first_row[w] < RowsPerChunk THEN NRows - first_row[w] ELSE RowsPerChunk

Chunk(w) == first_row[w]..(first_row[w] + ThisNRow(w) - 1)

\* Seeded fault: the slice is counted from the start of the chunk.
ChunkSlice(r, first) ==
    IF imatrix_is_per_weight THEN expert * NRows + (r - first) ELSE expert
\* The slice of the importance matrix row r is quantized with, in units of n_per_row:
\* imatrix_03, and in it row_imatrix if there is one weight per element.
RowSlice(r, first) ==
    IF imatrix_is_per_weight THEN expert * NRows + r ELSE expert

\* The rows of the current expert are written, each with its slice.
Quantized(rows, first) ==
    [x \in Cells |-> IF x[1] = expert /\ x[2] \in rows
                       THEN Append(q[x], RowSlice(x[2], first)) ELSE q[x]]

Validates(rows) == \A r \in rows : <<expert, r>> \notin bad

-----------------------------------------------------------------------------
Init ==
    /\ nthread \in 1..MaxThreads
    /\ imatrix_is_per_weight \in BOOLEAN
    /\ bad \in Defects
    /\ main = "expert" /\ expert = 0 /\ total = 0
    /\ pc = [w \in Workers |-> "exit"]
    /\ mutex = 0
    /\ counter = 0 /\ new_size = 0 /\ valid = TRUE
    /\ first_row = [w \in Workers |-> 0]
    /\ local_size = [w \in Workers |-> 0]
    /\ q = [x \in Cells |-> <<>>]

\* The next expert has one chunk, or nthread is 1: the caller does it alone.
SingleThread ==
    /\ main = "expert" /\ expert < NumExperts /\ NThreadUse < 2
    /\ q' = Quantized(Rows, 0)
    /\ IF Validates(Rows)
         THEN expert' = expert + 1 /\ total' = total + NRows /\ UNCHANGED main
         ELSE main' = "threw" /\ UNCHANGED <<expert, total>>
    /\ UNCHANGED <<args, pc, mutex, shared, first_row, local_size>>

\* The next expert is quantized by a team: the locals are set up and the threads
\* started.  A thread started late is one that takes its first step late.
Spawn ==
    /\ main = "expert" /\ expert < NumExperts /\ NThreadUse >= 2
    /\ main' = "join"
    /\ pc' = [w \in Workers |-> IF w \in Team THEN "lock" ELSE "exit"]
    /\ counter' = 0 /\ new_size' = 0 /\ valid' = TRUE
    /\ local_size' = [w \in Workers |-> 0]
    /\ UNCHANGED <<args, expert, total, mutex, first_row, q>>

\* Every worker has been joined: the caller goes on to the next expert, or throws.
Join ==
    /\ main = "join"
    /\ \A w \in Team : pc[w] = "exit"
    /\ IF valid
         THEN main' = "expert" /\ expert' = expert + 1 /\ total' = total + new_size
         ELSE main' = "threw" /\ UNCHANGED <<expert, total>>
    /\ UNCHANGED <<args, pc, mutex, shared, first_row, local_size, q>>

\* The last expert is done: the tensor is written out.
Return ==
    /\ main = "expert" /\ expert = NumExperts
    /\ main' = "returned"
    /\ UNCHANGED <<args, expert, total, pc, mutex, shared, first_row, local_size, q>>

-----------------------------------------------------------------------------
Goto(w, l) == pc' = [pc EXCEPT ![w] = l]

\* Seeded fault: the counter is read without taking the mutex.
NoLock(w) ==
    /\ pc[w] = "lock"
    /\ Goto(w, "read")
    /\ UNCHANGED <<args, main, expert, total, mutex, shared, first_row, local_size, q>>
\* The top of compute's loop: take the mutex.
Lock(w) ==
    /\ pc[w] = "lock" /\ mutex = 0
    /\ mutex' = w
    /\ Goto(w, "read")
    /\ UNCHANGED <<args, main, expert, total, shared, first_row, local_size, q>>

\* first_row = counter
Read(w) ==
    /\ pc[w] = "read"
    /\ first_row' = [first_row EXCEPT ![w] = counter]
    /\ Goto(w, "advance")
    /\ UNCHANGED <<args, main, expert, total, mutex, shared, local_size, q>>

\* Seeded fault: the mutex is not released before the chunk is quantized.
HeldAdvance(w) ==
    /\ pc[w] = "advance" /\ first_row[w] < NRows
    /\ counter' = counter + RowsPerChunk
    /\ Goto(w, "quantize")
    /\ UNCHANGED <<args, main, expert, total, mutex, new_size, valid, first_row,
                   local_size, q>>
\* The worker has a chunk: advance the counter and release the mutex.
Advance(w) ==
    /\ pc[w] = "advance" /\ first_row[w] < NRows
    /\ counter' = counter + RowsPerChunk
    /\ mutex' = 0
    /\ Goto(w, "quantize")
    /\ UNCHANGED <<args, main, expert, total, new_size, valid, first_row, local_size, q>>

\* Seeded fault: the size of the last worker to finish is taken for the total.
LastSize(w) == local_size[w]
SummedSize(w) == new_size + local_size[w]

\* No chunk is left: add up the size and leave.
Retire(w) ==
    /\ pc[w] = "advance" /\ first_row[w] >= NRows
    /\ counter' = counter + RowsPerChunk
    /\ new_size' = SummedSize(w)
    /\ mutex' = 0
    /\ Goto(w, "exit")
    /\ UNCHANGED <<args, main, expert, total, valid, first_row, local_size, q>>

\* Quantize the chunk, outside the mutex.
Quantize(w) ==
    /\ pc[w] = "quantize"
    /\ q' = Quantized(Chunk(w), first_row[w])
    /\ local_size' = [local_size EXCEPT ![w] = @ + ThisNRow(w)]
    /\ Goto(w, "validate")
    /\ UNCHANGED <<args, main, expert, total, mutex, shared, first_row>>

\* Validate it and go on to the next chunk, or report.
Validate(w) ==
    /\ pc[w] = "validate"
    /\ Goto(w, IF Validates(Chunk(w)) THEN "lock" ELSE "invalid")
    /\ UNCHANGED <<args, main, expert, total, mutex, shared, first_row, local_size, q>>

\* The invalid chunk is reported under the mutex; the worker's size is lost with it.
LockToReport(w) ==
    /\ pc[w] = "invalid" /\ mutex = 0
    /\ mutex' = w
    /\ Goto(w, "report")
    /\ UNCHANGED <<args, main, expert, total, shared, first_row, local_size, q>>

\* Seeded fault: the worker leaves without reporting.
SilentReport(w) ==
    /\ pc[w] = "report"
    /\ mutex' = 0
    /\ Goto(w, "exit")
    /\ UNCHANGED <<args, main, expert, total, shared, first_row, local_size, q>>
Report(w) ==
    /\ pc[w] = "report"
    /\ valid' = FALSE
    /\ mutex' = 0
    /\ Goto(w, "exit")
    /\ UNCHANGED <<args, main, expert, total, counter, new_size, first_row, local_size, q>>

Work(w) ==
    \/ Lock(w) \/ Read(w) \/ Advance(w) \/ Retire(w)
    \/ Quantize(w) \/ Validate(w) \/ LockToReport(w) \/ Report(w)

Caller == SingleThread \/ Spawn \/ Join \/ Return

Next == Caller \/ \E w \in Workers : Work(w)

Spec == Init /\ [][Next]_vars

\* The operating system runs every thread.  A thread that waits for the mutex competes
\* with finitely many others that each take it finitely often, so weak fairness is
\* enough.
FairSpec == Spec /\ WF_vars(Caller) /\ \A w \in Workers : WF_vars(Work(w))

-----------------------------------------------------------------------------
\* Every value is of its kind; no worker accounts for more rows than there are.
TypeOK ==
    /\ nthread \in 1..MaxThreads /\ imatrix_is_per_weight \in BOOLEAN /\ bad \in Defects
    /\ main \in {"expert", "join", "returned", "threw"}
    /\ expert \in 0..NumExperts /\ total \in Nat
    /\ pc \in [Workers -> {"lock", "quantize", "validate", "invalid", "exit"} \cup Holding]
    /\ mutex \in Workers \cup {0}
    /\ counter \in Nat /\ new_size \in Nat /\ valid \in BOOLEAN
    /\ first_row \in [Workers -> Nat]
    /\ local_size \in [Workers -> 0..NRows]
    /\ q \in [Cells -> Seq(Nat)]

\* Two workers never work on the same row: the writes to new_data, which no lock
\* protects, do not race, and a worker validates its own data.
NoSharedRows ==
    \A v, w \in Workers :
        v # w /\ pc[v] \in AtWork /\ pc[w] \in AtWork => Chunk(v) \cap Chunk(w) = {}

\* The importance of a row: its own slice of a per-weight matrix, its expert's slice of a
\* per-column one.
Importance(x) == IF imatrix_is_per_weight THEN x[1] * NRows + x[2] ELSE x[1]

\* When the tensor is written out, every row of every expert has been quantized exactly
\* once and with its own importance, whatever the number of threads.
QuantizedOnce ==
    main = "returned" => \A x \in Cells : q[x] = <<Importance(x)>>

\* The size collected from the workers is that of the tensor, as the assertion on
\* gguf_get_tensor_size requires, although each worker adds its share as it leaves.
SizeExact == main = "returned" => total = NumExperts * NRows

\* Invalid data is never written out, and nothing else makes the call throw, however the
\* workers' reports interleave.
InvalidReported ==
    /\ main = "returned" => bad = {}
    /\ main = "threw" => bad # {}

\* The call ends: no worker is stuck on the mutex, every one is joined.
CallEnds == <>(main \in {"returned", "threw"})

-----------------------------------------------------------------------------
\* The parts that make the invariants above inductive.  The worker that is past a lock and
\* not yet past its unlock is the one that holds the mutex.
MutexOwned == \A w \in Workers : pc[w] \in Holding <=> mutex = w

\* The workers run between Spawn and Join; a team has at least two.
TeamRuns ==
    /\ \A w \in Workers : main # "join" \/ w \notin Team => pc[w] = "exit"
    /\ main = "join" => expert < NumExperts /\ NThreadUse >= 2
    /\ main = "returned" => expert = NumExperts

\* Chunks that have been handed out lie below the counter, and apart.
ChunksApart ==
    /\ \A w \in Workers : pc[w] = "advance" => first_row[w] = counter
    /\ \A w \in Workers : pc[w] \in AtWork =>
            first_row[w] < NRows /\ first_row[w] + RowsPerChunk <= counter
    /\ \A v, w \in Workers : v # w /\ pc[v] \in AtWork /\ pc[w] \in AtWork =>
            \/ first_row[v] + RowsPerChunk <= first_row[w]
            \/ first_row[w] + RowsPerChunk <= first_row[v]

\* What a worker has quantized lies below its current chunk.
SizesBounded ==
    \A w \in Workers :
        /\ local_size[w] <= counter
        /\ pc[w] \in {"advance", "quantize"} => local_size[w] <= first_row[w]

Fresh(x) == q[x] = <<>>
Done(x) == q[x] = <<Importance(x)>>

\* Which rows are done, for the experts before and after the current one and, while the
\* workers run, within it.
RowsAccounted ==
    \A x \in Cells :
        /\ x[1] < expert => Done(x) /\ x \notin bad
        /\ x[1] > expert => Fresh(x)
        /\ main = "expert" /\ x[1] = expert => Fresh(x)
        /\ main = "join" /\ x[1] = expert =>
             /\ x[2] >= counter => Fresh(x)
             /\ x[2] < counter =>
                    \/ Done(x) /\ (x \notin bad \/ ~valid)
                    \/ \E w \in Workers : pc[w] \in AtWork /\ x[2] \in Chunk(w)
             /\ \A w \in Workers : pc[w] \in AtWork /\ x[2] \in Chunk(w) =>
                    IF pc[w] = "quantize" THEN Fresh(x) ELSE Done(x)

\* A worker leaves when no rows are left or after reporting, and reports only real defects.
ExitsExplained ==
    /\ main = "join" =>
          \A w \in Team : pc[w] = "exit" => counter >= NRows \/ ~valid
    /\ ~valid \/ main = "threw" => bad # {}
    /\ \A w \in Workers : pc[w] \in {"invalid", "report"} => bad # {}

\* The inductive invariant of the workers and their caller.
WorkersInv ==
    /\ TypeOK
    /\ MutexOwned
    /\ TeamRuns
    /\ ChunksApart
    /\ SizesBounded
    /\ RowsAccounted
    /\ ExitsExplained
=============================================================================
