--------------------------- MODULE ThreadPoolProofs ---------------------------
(***************************************************************************)
(* Proofs about the CPU thread pool, for any number of threads, nodes and  *)
(* chunks, as long as all graphs of a pool ask for one number of threads.  *)
(***************************************************************************)
EXTENDS ThreadPool, FiniteSetTheorems, TLAPS

-----------------------------------------------------------------------------
(* Where a thread stands in the graph.                                     *)

\* The threads of the graph.
Team == 0..(n_threads_cur - 1)

\* At a barrier that has not opened, or at one that has.
Waiting(t) == pc[t] = "spin" /\ n_passed[t] = n_barrier_passed
Released(t) == pc[t] = "spin" /\ n_passed[t] # n_barrier_passed

\* It has only to notice that the last barrier has opened.
Out(t) == Released(t) /\ ret[t] = "leave"

\* It has work to do in the graph, and it knows of the graph.
Busy(t) == pc[t] \in Computing /\ ~Out(t)
Seen(t) == t = 0 \/ last_graph[t] = n_graph

\* The stage of a busy thread: 2n up to the barrier inside node n, 2n + 1 from there to the
\* barrier after the node; the last stage ends with the barrier at the end of the graph.
Stage(t) ==
    IF pc[t] = "begin" THEN 0
    ELSE IF pc[t] = "test" \/ ret[t] = "leave"
    THEN IF node_n[t] = NNodes THEN 2 * NNodes - 1 ELSE 2 * node_n[t]
    ELSE IF pc[t] \in {"mul", "fetch", "after"} \/ ret[t] = "next" \/ (ret[t] = "mul" /\ Released(t))
    THEN IF ret[t] = "next" /\ Released(t) THEN 2 * node_n[t] + 2 ELSE 2 * node_n[t] + 1
    ELSE 2 * node_n[t]

\* The number of chunks of a product.
M == ChunksFor(n_threads_cur)

\* It has a chunk to compute.
Claims(t) == pc[t] = "mul" \/ ret[t] = "mul"
\* It found no more chunks.
Past(t) == pc[t] \in {"after", "test"} \/ ret[t] \in {"next", "leave"}

-----------------------------------------------------------------------------
(* The inductive invariant.                                                *)

\* From the first graph on, the number of threads is the one all graphs ask for.
SameCount ==
    /\ pc[0] \in Computing => n_graph > 0
    /\ pc[0] = "kick" => n_graph < MaxGraphs
    /\ n_graph > 0 \/ pc[0] = "kick" => \A n \in counts : n_threads_cur = Available(n)

\* Who may have which pc.
Places ==
    /\ pc[0] \in Computing \cup {"idle", "kick", "join", "freed"}
    /\ \A w \in Workers :
         /\ pc[w] \in Computing \cup Hunting \cup {"exited"}
         /\ pc[w] \in Computing => w < n_threads_cur /\ n_graph > 0
         /\ last_graph[w] <= n_graph /\ new_graph[w] <= n_graph
         /\ pc[w] = "active" => n_graph > 0
         /\ pc[w] = "active" /\ w < n_threads_cur =>
              new_graph[w] = n_graph /\ last_graph[w] # n_graph

\* The threads of the graph are in one stage, except that in the first some may not have
\* heard of the graph; when thread 0 is done with it all are.
Together ==
    \A u \in Workers : u < n_threads_cur =>
        IF Busy(0)
        THEN IF Busy(u) THEN Seen(u) /\ Stage(u) = Stage(0)
                        ELSE ~Seen(u) /\ Stage(0) = 0
        ELSE ~Busy(u) /\ Seen(u)

\* What a thread has in its locals.
Local(t) ==
    /\ pc[t] \in {"enter", "arrive", "reset", "release", "spin"} <=> ret[t] # "none"
    /\ pc[t] \in {"convert", "mul", "fetch", "after"} => node_n[t] < NNodes
    /\ ret[t] = "mul" => node_n[t] < NNodes /\ chunk[t] = t
    /\ ret[t] = "next" => node_n[t] + 1 < NNodes
    /\ Busy(t) =>
         /\ pc[t] # "begin" => nth[t] = n_threads_cur
         /\ pc[t] = "convert" \/ ret[t] = "mul" => abort # node_n[t]
         /\ ret[t] = "leave" => node_n[t] = NNodes \/ abort = node_n[t]
         /\ pc[t] \in {"mul", "fetch", "after"} \/ ret[t] \in {"mul", "next"} =>
                wdata[t] = node_n[t]
         /\ (pc[t] = "test" \/ ret[t] = "leave") /\ node_n[t] = NNodes =>
                wdata[t] = NNodes - 1
Locals == \A t \in Threads : Local(t)

\* The barrier: the last thread to arrive finds all others waiting, and the counter
\* counts those who wait.
AtBarrier ==
    /\ \A t \in Threads :
         /\ pc[t] \in {"arrive", "reset", "release", "spin"} => n_threads_cur > 1
         /\ pc[t] = "arrive" => n_threads[t] = n_threads_cur
         /\ pc[t] \in {"arrive", "reset", "release"} => n_passed[t] = n_barrier_passed
         /\ n_passed[t] <= n_barrier_passed
         /\ pc[t] \in {"reset", "release"} => \A u \in Team \ {t} : Waiting(u)
    /\ n_barrier = IF \E t \in Threads : pc[t] = "release" THEN 0
                   ELSE IF \E t \in Threads : pc[t] = "reset" THEN n_threads_cur
                   ELSE Cardinality({t \in Threads : Waiting(t)})

\* An abort is asked for after a node and obeyed before the next.
Aborting ==
    /\ ec = "success" <=> abort = -1
    /\ Busy(0) /\ abort # -1 => Stage(0) = 2 * abort - 1 \/ Stage(0) = 2 * abort

\* The nodes behind the stage are computed, those ahead are not.
NodesDone ==
    /\ \A n \in Nodes, c \in Chunks :
         /\ Busy(0) =>
              /\ c >= M \/ Stage(0) < 2 * n + 1 => work[n][c] = 0
              /\ c < M /\ Stage(0) > 2 * n + 1 => work[n][c] = 1
         /\ pc[0] = "kick" => work[n][c] = 0
         /\ ~Busy(0) /\ pc[0] # "kick" /\ n_graph > 0 =>
              work[n][c] = IF c < M /\ (abort = -1 \/ n < abort) THEN 1 ELSE 0
         /\ n_graph = 0 => work[n][c] = 0
    /\ pc[0] = "kick" => abort = -1

\* The chunks of node n, the one at hand: below the counter each is computed or claimed
\* by one thread, above it neither.
AtHand(n) ==
    /\ current_chunk >= n_threads_cur
    /\ \A c \in Chunks : c < M =>
         /\ c >= current_chunk => work[n][c] = 0
         /\ c < current_chunk =>
              \/ work[n][c] = 1
              \/ work[n][c] = 0 /\ \E t \in Team : Claims(t) /\ chunk[t] = c
    /\ \A t \in Team :
         /\ Claims(t) => chunk[t] < current_chunk
         /\ Claims(t) /\ chunk[t] < M => work[n][chunk[t]] = 0
         /\ Past(t) => current_chunk >= M
    /\ \A t, u \in Team : t # u /\ Claims(t) /\ Claims(u) => chunk[t] # chunk[u]
ChunksHeld ==
    /\ ret[0] = "mul" /\ ~Released(0) => current_chunk = n_threads_cur
    /\ \A n \in Nodes : Busy(0) /\ Stage(0) = 2 * n + 1 => AtHand(n)

PoolInv ==
    /\ TypeOK /\ SameCount /\ Places /\ Together /\ Locals /\ AtBarrier
    /\ Aborting /\ NodesDone /\ ChunksHeld

-----------------------------------------------------------------------------
(* Facts about the operators.                                              *)

USE PoolAssumption

LEMMA ThreadSets ==
    ASSUME TypeOK
    PROVE  /\ 0 \in Threads /\ 0 \in Team /\ Team \subseteq Threads
           /\ Threads = Workers \cup {0} /\ 0 \notin Workers
           /\ \A t : t \in Team <=> t \in Threads /\ t < n_threads_cur
           /\ \A t \in Threads : t \in Nat /\ t < NThreadsMax
           /\ n_threads_cur \in Nat /\ 1 <= n_threads_cur /\ n_threads_cur <= NThreadsMax
<1>1. n_threads_cur \in 1..NThreadsMax
  BY DEF TypeOK
<1> QED BY <1>1 DEF Threads, Workers, Team

\* Every thread of the graph has a chunk to begin with, and all chunks are counted.
LEMMA ChunkNumbers ==
    ASSUME TypeOK
    PROVE  /\ M \in Nat /\ M >= n_threads_cur
           /\ \A c \in Nat : c < M => c \in Chunks
           /\ \A c \in Chunks : c \in Nat
<1>1. n_threads_cur \in Nat /\ n_threads_cur <= NThreadsMax
  BY DEF TypeOK
<1> DEFINE p == n_threads_cur * ChunksPerThread
<1>2. p \in Nat /\ p >= n_threads_cur
  BY <1>1
<1>3. M = IF FineChunks < p THEN n_threads_cur ELSE FineChunks
  BY DEF M, ChunksFor
<1> HIDE DEF p
<1>4. CASE FineChunks < p
  BY <1>1, <1>2, <1>3, <1>4 DEF Chunks
<1>5. CASE ~(FineChunks < p)
  BY <1>1, <1>2, <1>3, <1>5 DEF Chunks
<1> QED BY <1>4, <1>5

\* A step that leaves thread u alone and opens no barrier.
Same(u) ==
    /\ pc'[u] = pc[u] /\ ret'[u] = ret[u] /\ node_n'[u] = node_n[u]
    /\ n_passed'[u] = n_passed[u] /\ n_barrier_passed' = n_barrier_passed

LEMMA SameView ==
    ASSUME NEW u, Same(u)
    PROVE  /\ Waiting(u)' <=> Waiting(u)
           /\ Released(u)' <=> Released(u)
           /\ Out(u)' <=> Out(u)
           /\ Busy(u)' <=> Busy(u)
           /\ Stage(u)' = Stage(u)
           /\ Claims(u)' <=> Claims(u)
           /\ Past(u)' <=> Past(u)
<1>1. (Waiting(u)' <=> Waiting(u)) /\ (Released(u)' <=> Released(u))
  BY DEF Same, Waiting, Released
<1>2. (Out(u)' <=> Out(u)) /\ (Busy(u)' <=> Busy(u))
  BY <1>1 DEF Same, Out, Busy
<1>3. Stage(u)' = Stage(u)
  BY <1>1 DEF Same, Stage
<1>4. (Claims(u)' <=> Claims(u)) /\ (Past(u)' <=> Past(u))
  BY DEF Same, Claims, Past
<1> QED BY <1>1, <1>2, <1>3, <1>4

\* A busy thread of the graph is busy together with thread 0.
LEMMA BusyTogether ==
    ASSUME TypeOK, Places, Together, NEW t \in Threads, Busy(t)
    PROVE  /\ t \in Team /\ Busy(0) /\ Stage(t) = Stage(0) /\ Seen(t)
           /\ pc[0] \in Computing
<1>1. CASE t = 0
  BY <1>1, ThreadSets DEF Seen, Busy
<1>2. CASE t # 0
  <2>1. t \in Workers /\ t < n_threads_cur
    BY <1>2, ThreadSets DEF Places, Busy
  <2> QED BY <2>1, ThreadSets DEF Together, Busy
<1> QED BY <1>1, <1>2

\* While a thread of the graph is not waiting, no other thread opens the barrier.
LEMMA NotTheLast ==
    ASSUME TypeOK, AtBarrier, NEW t \in Team, ~Waiting(t), NEW u \in Threads, u # t
    PROVE  pc[u] \notin {"reset", "release"}
BY DEF AtBarrier

\* A step of thread t within its stage.
InStage(t) ==
    /\ \A u \in Threads \ {t} : Same(u)
    /\ pc[t] \in Computing /\ pc'[t] \in Computing
    /\ Busy(t) /\ Busy(t)' /\ Stage(t)' = Stage(t)
    /\ UNCHANGED <<counts, n_graph, n_threads_cur, last_graph, new_graph>>

LEMMA InStageKeeps ==
    ASSUME TypeOK, SameCount, Places, Together, NEW t \in Threads, InStage(t)
    PROVE  /\ SameCount' /\ Places' /\ Together'
           /\ \A u \in Threads : Busy(u)' <=> Busy(u)
           /\ \A u \in Threads : Busy(u) => Stage(u)' = Stage(u)
<1>1. \A u \in Threads : Busy(u)' <=> Busy(u)
  BY SameView DEF InStage
<1>2. \A u \in Threads : Busy(u) => Stage(u)' = Stage(u)
  BY SameView DEF InStage
<1>3. \A u \in Threads : Seen(u)' <=> Seen(u)
  BY DEF Seen, InStage
<1>4. SameCount'
  <2>1. pc'[0] \in Computing => pc[0] \in Computing
    BY ThreadSets DEF InStage, Same
  <2>2. pc'[0] = "kick" => pc[0] = "kick"
    BY ThreadSets DEF InStage, Same, Computing
  <2> QED BY <2>1, <2>2 DEF SameCount, InStage, Available
<1>5. Places'
  <2>1. pc'[0] \in Computing \cup {"idle", "kick", "join", "freed"}
    BY ThreadSets DEF InStage, Same, Places
  <2>2. ASSUME NEW w \in Workers
        PROVE /\ pc'[w] \in Computing \cup Hunting \cup {"exited"}
              /\ pc'[w] \in Computing => w < n_threads_cur' /\ n_graph' > 0
              /\ last_graph'[w] <= n_graph' /\ new_graph'[w] <= n_graph'
              /\ pc'[w] = "active" => n_graph' > 0
              /\ pc'[w] = "active" /\ w < n_threads_cur' =>
                   new_graph'[w] = n_graph' /\ last_graph'[w] # n_graph'
    <3>1. w \in Threads
      BY ThreadSets
    <3>2. CASE w = t
      BY <3>2 DEF InStage, Places, Computing
    <3>3. CASE w # t
      BY <3>1, <3>3 DEF InStage, Places, Same
    <3> QED BY <3>2, <3>3
  <2> QED BY <2>1, <2>2 DEF Places
<1>6. Together'
  <2>1. n_threads_cur' = n_threads_cur
    BY DEF InStage
  <2>2. \A u \in Workers : u \in Threads
    BY ThreadSets
  <2>3. 0 \in Threads
    BY ThreadSets
  <2> QED BY <1>1, <1>2, <1>3, <2>1, <2>2, <2>3 DEF Together
<1> QED BY <1>1, <1>2, <1>4, <1>5, <1>6

-----------------------------------------------------------------------------
(* What a step within a stage leaves alone.                                *)

\* The barrier, for a thread that neither waits nor opens it.
LEMMA BarrierKept ==
    ASSUME TypeOK, AtBarrier, NEW t \in Team, \A u \in Threads \ {t} : Same(u),
           ~Waiting(t), pc[t] \notin {"reset", "release"},
           pc'[t] \notin {"reset", "release", "spin"},
           pc'[t] = "arrive" => /\ n_threads_cur > 1 /\ n_threads'[t] = n_threads_cur
                                /\ n_passed'[t] = n_barrier_passed,
           n_passed'[t] <= n_barrier_passed, n_barrier_passed' = n_barrier_passed,
           \A u \in Threads \ {t} : n_threads'[u] = n_threads[u],
           UNCHANGED <<n_barrier, n_threads_cur>>
    PROVE  AtBarrier'
<1>1. \A u \in Threads : u # t => (Waiting(u)' <=> Waiting(u)) /\ pc'[u] = pc[u]
  BY SameView DEF Same
<1>2. \A u \in Threads : pc[u] \notin {"reset", "release"}
  BY NotTheLast
<1>3. ~Waiting(t)'
  BY DEF Waiting
<1>4. {u \in Threads : Waiting(u)}' = {u \in Threads : Waiting(u)}
  BY <1>1, <1>3
<1>5. \A u \in Threads : pc'[u] \notin {"reset", "release"}
  BY <1>1, <1>2
<1>6. n_barrier = Cardinality({u \in Threads : Waiting(u)})
  BY <1>2 DEF AtBarrier
<1>7. ASSUME NEW u \in Threads
      PROVE  /\ pc'[u] \in {"arrive", "spin"} => n_threads_cur > 1
             /\ pc'[u] = "arrive" => n_threads'[u] = n_threads_cur'
             /\ pc'[u] = "arrive" => n_passed'[u] = n_barrier_passed'
             /\ n_passed'[u] <= n_barrier_passed'
  <2>1. CASE u = t
    BY <2>1
  <2>2. CASE u # t
    BY <2>2 DEF AtBarrier, Same
  <2> QED BY <2>1, <2>2
<1> QED BY <1>4, <1>5, <1>6, <1>7 DEF AtBarrier

\* The locals of another thread.
LEMMA LocalKept ==
    ASSUME NEW u \in Threads, Same(u), Local(u), nth'[u] = nth[u], chunk'[u] = chunk[u],
           wdata'[u] = wdata[u], UNCHANGED <<n_threads_cur, abort>>
    PROVE  Local(u)'
<1>1. Busy(u)' <=> Busy(u)
  BY SameView
<1> QED BY <1>1 DEF Local, Same

\* The progress of the graph, for a step that neither computes a chunk nor aborts.
LEMMA ProgressKept ==
    ASSUME TypeOK, NEW t \in Threads, InStage(t), Aborting, NodesDone,
           \A u \in Threads : Busy(u)' <=> Busy(u),
           \A u \in Threads : Busy(u) => Stage(u)' = Stage(u),
           UNCHANGED <<abort, ec, work>>
    PROVE  Aborting' /\ NodesDone'
<1>1. (Busy(0)' <=> Busy(0)) /\ (Busy(0) => Stage(0)' = Stage(0))
  BY ThreadSets
<1>2. M' = M /\ n_graph' = n_graph
  BY DEF M, InStage, ChunksFor
<1>3. pc'[0] = "kick" <=> pc[0] = "kick"
  BY ThreadSets DEF InStage, Same, Computing
<1> QED BY <1>1, <1>2, <1>3 DEF Aborting, NodesDone

\* The chunks, for a step that neither takes nor computes one.
LEMMA ChunksKept ==
    ASSUME TypeOK, NEW t \in Team, InStage(t), ChunksHeld,
           \A u \in Threads : Busy(u)' <=> Busy(u),
           \A u \in Threads : Busy(u) => Stage(u)' = Stage(u),
           UNCHANGED <<work, current_chunk, chunk>>,
           t = 0 /\ ret'[0] = "mul" /\ ~Released(0)' => ret[0] = "mul" /\ ~Released(0),
           \A n \in Nodes : Stage(t) = 2 * n + 1 =>
               (Claims(t)' <=> Claims(t)) /\ (Past(t)' => Past(t)),
           Stage(t) = Stage(0)
    PROVE  ChunksHeld'
<1>1. (Busy(0)' <=> Busy(0)) /\ (Busy(0) => Stage(0)' = Stage(0))
  BY ThreadSets
<1>2. M' = M /\ Team' = Team /\ n_threads_cur' = n_threads_cur
  BY DEF M, InStage, Team, ChunksFor
<1>3. ret'[0] = "mul" /\ ~Released(0)' => ret[0] = "mul" /\ ~Released(0)
  BY ThreadSets, SameView DEF InStage, Same
<1>4. ASSUME NEW n \in Nodes, Busy(0)', Stage(0)' = 2 * n + 1
      PROVE  AtHand(n)'
  <2>1. AtHand(n)
    BY <1>1, <1>4 DEF ChunksHeld
  <2>2. \A u \in Team : (Claims(u)' <=> Claims(u)) /\ (Past(u)' => Past(u))
    BY <1>1, <1>4, ThreadSets, SameView DEF InStage
  <2> QED BY <1>2, <2>1, <2>2 DEF AtHand
<1> QED BY <1>2, <1>3, <1>4 DEF ChunksHeld

-----------------------------------------------------------------------------
(* The steps of a thread inside a graph.                                   *)

\* What any such step starts from.
LEMMA StepFacts ==
    ASSUME PoolInv, NEW t \in Threads, Busy(t)
    PROVE  /\ t \in Team /\ t \in Nat /\ Busy(0) /\ Stage(t) = Stage(0)
           /\ Local(t) /\ pc[t] \in Computing
           /\ node_n[t] \in Nat /\ node_n[t] <= NNodes
           /\ nth[t] \in Nat /\ chunk[t] \in Nat /\ current_chunk \in Nat
           /\ n_passed[t] \in Nat /\ n_barrier_passed \in Nat
<1>1. TypeOK /\ Places /\ Together /\ Locals
  BY DEF PoolInv
<1>2. t \in Team /\ Busy(0) /\ Stage(t) = Stage(0)
  BY <1>1, BusyTogether
<1>3. t \in Nat
  BY <1>1, ThreadSets
<1>4. Local(t)
  BY <1>1 DEF Locals
<1> QED BY <1>1, <1>2, <1>3, <1>4 DEF TypeOK, Busy

LEMMA BeginStep == ASSUME PoolInv, NEW t \in Threads, Begin(t) PROVE PoolInv'
<1> USE DEF PoolInv
<1>1. Busy(t) /\ pc[t] = "begin"
  BY DEF Begin, Busy, Out, Released, Computing
<1>2. /\ t \in Team /\ Busy(0) /\ Stage(t) = Stage(0) /\ Local(t)
      /\ n_passed[t] \in Nat /\ n_barrier_passed \in Nat
  BY <1>1, StepFacts
<1>3. TypeOK'
  BY DEF TypeOK, Begin, Goto, signals, barrier, search, Computing
<1>4. /\ pc'[t] = "test" /\ node_n'[t] = 0 /\ nth'[t] = n_threads_cur
      /\ \A u \in Threads \ {t} : Same(u) /\ nth'[u] = nth[u]
      /\ UNCHANGED <<counts, n_graph, n_threads_cur, last_graph, new_graph, n_barrier, ret,
                     n_barrier_passed, n_passed, n_threads, current_chunk, abort, ec,
                     wdata, chunk, work>>
  BY DEF Begin, Goto, signals, barrier, search, Same, TypeOK
<1>5. Stage(t) = 0 /\ Stage(t)' = 0 /\ Busy(t)'
  BY <1>1, <1>2, <1>4 DEF Stage, Local, Busy, Out, Released, Computing
<1>6. InStage(t)
  BY <1>1, <1>4, <1>5 DEF InStage, Computing
<1>7. /\ SameCount' /\ Places' /\ Together'
      /\ \A u \in Threads : Busy(u)' <=> Busy(u)
      /\ \A u \in Threads : Busy(u) => Stage(u)' = Stage(u)
  BY <1>6, InStageKeeps
<1>8. AtBarrier'
  BY <1>1, <1>2, <1>4, BarrierKept DEF Waiting, AtBarrier
<1>9. Locals'
  <2>1. Local(t)'
    BY <1>1, <1>2, <1>4 DEF Local
  <2> QED BY <1>4, <2>1, LocalKept DEF Locals
<1>10. Aborting' /\ NodesDone'
  BY <1>4, <1>6, <1>7, ProgressKept
<1>11. ChunksHeld'
  <2>1. \A n \in Nodes : Stage(t) # 2 * n + 1
    BY <1>5 DEF Nodes
  <2>2. t = 0 => ret'[0] # "mul"
    BY <1>1, <1>2, <1>4 DEF Local
  <2> QED BY <1>2, <1>4, <1>6, <1>7, <2>1, <2>2, ChunksKept
<1> QED BY <1>3, <1>7, <1>8, <1>9, <1>10, <1>11

LEMMA TestStep == ASSUME PoolInv, NEW t \in Threads, Test(t) PROVE PoolInv'
<1> USE DEF PoolInv
<1>1. Busy(t) /\ pc[t] = "test"
  BY DEF Test, Busy, Out, Released, Computing
<1>2. /\ t \in Team /\ Busy(0) /\ Stage(t) = Stage(0) /\ Local(t)
      /\ node_n[t] \in Nat /\ node_n[t] <= NNodes
      /\ n_passed[t] \in Nat /\ n_barrier_passed \in Nat
  BY <1>1, StepFacts
<1>3. TypeOK'
  BY DEF TypeOK, Test, Goto, Barrier, signals, barrier, search, compute, Computing
<1>4. /\ \/ node_n[t] < NNodes /\ abort # node_n[t] /\ pc'[t] = "convert" /\ ret'[t] = ret[t]
         \/ (node_n[t] = NNodes \/ abort = node_n[t]) /\ pc'[t] = "enter" /\ ret'[t] = "leave"
      /\ \A u \in Threads \ {t} : Same(u)
      /\ UNCHANGED <<counts, n_graph, n_threads_cur, last_graph, new_graph, n_barrier,
                     n_barrier_passed, n_passed, n_threads, current_chunk, abort, ec,
                     wdata, chunk, work, nth, node_n>>
  <2>1. CASE node_n[t] < NNodes /\ abort # node_n[t]
    BY <2>1 DEF Test, Goto, Barrier, signals, barrier, search, compute, Same, TypeOK
  <2>2. CASE ~(node_n[t] < NNodes /\ abort # node_n[t])
    <3>1. node_n[t] = NNodes \/ abort = node_n[t]
      BY <1>2, <2>2
    <3> QED BY <2>2, <3>1 DEF Test, Goto, Barrier, signals, barrier, search, compute, Same,
                              TypeOK
  <2> QED BY <2>1, <2>2
<1>5. Stage(t)' = Stage(t) /\ Busy(t)'
  BY <1>1, <1>2, <1>4 DEF Stage, Local, Busy, Out, Released, Computing
<1>6. InStage(t)
  BY <1>1, <1>4, <1>5 DEF InStage, Computing
<1>7. /\ SameCount' /\ Places' /\ Together'
      /\ \A u \in Threads : Busy(u)' <=> Busy(u)
      /\ \A u \in Threads : Busy(u) => Stage(u)' = Stage(u)
  BY <1>6, InStageKeeps
<1>8. AtBarrier'
  BY <1>1, <1>2, <1>4, BarrierKept DEF Waiting, AtBarrier
<1>9. Locals'
  <2>1. Local(t)'
    BY <1>1, <1>2, <1>4 DEF Local
  <2> QED BY <1>4, <2>1, LocalKept DEF Locals
<1>10. Aborting' /\ NodesDone'
  BY <1>4, <1>6, <1>7, ProgressKept
<1>11. ChunksHeld'
  <2>1. ASSUME NEW n \in Nodes, Stage(t) = 2 * n + 1
        PROVE  (Claims(t)' <=> Claims(t)) /\ (Past(t)' => Past(t))
    BY <1>1, <1>2, <1>4, <2>1 DEF Claims, Past, Stage, Local, Nodes
  <2>2. t = 0 /\ ret'[0] = "mul" /\ ~Released(0)' => ret[0] = "mul" /\ ~Released(0)
    BY <1>1, <1>2, <1>4 DEF Local
  <2> QED BY <1>2, <1>4, <1>6, <1>7, <2>1, <2>2, ChunksKept
<1> QED BY <1>3, <1>7, <1>8, <1>9, <1>10, <1>11

LEMMA ConvertStep == ASSUME PoolInv, NEW t \in Threads, Convert(t) PROVE PoolInv'
<1> USE DEF PoolInv
<1>1. Busy(t) /\ pc[t] = "convert"
  BY DEF Convert, Busy, Out, Released, Computing
<1>2. /\ t \in Team /\ Busy(0) /\ Stage(t) = Stage(0) /\ Local(t) /\ t \in Nat
      /\ node_n[t] \in Nat /\ node_n[t] < NNodes /\ nth[t] = n_threads_cur
      /\ n_passed[t] \in Nat /\ n_barrier_passed \in Nat /\ abort # node_n[t]
  BY <1>1, StepFacts DEF Local
<1>3. TypeOK'
  <2>1. wdata' \in [Threads -> {-1} \cup Nodes]
    BY <1>2 DEF TypeOK, Convert, Nodes
  <2>2. chunk' \in [Threads -> Nat] /\ current_chunk' \in Nat
    BY <1>2 DEF TypeOK, Convert
  <2> QED BY <2>1, <2>2 DEF TypeOK, Convert, Goto, Barrier, signals, barrier, search, Computing
<1>4. /\ pc'[t] = "enter" /\ ret'[t] = "mul" /\ wdata'[t] = node_n[t] /\ chunk'[t] = t
      /\ \A u \in Threads \ {t} : Same(u) /\ wdata'[u] = wdata[u] /\ chunk'[u] = chunk[u]
      /\ UNCHANGED <<counts, n_graph, n_threads_cur, last_graph, new_graph, n_barrier,
                     n_barrier_passed, n_passed, n_threads, abort, ec, work, nth, node_n>>
  BY DEF Convert, Goto, Barrier, signals, barrier, search, Same, TypeOK
<1>5. Stage(t) = 2 * node_n[t] /\ Stage(t)' = Stage(t) /\ Busy(t)'
  BY <1>1, <1>2, <1>4 DEF Stage, Local, Busy, Out, Released, Computing
<1>6. InStage(t)
  BY <1>1, <1>4, <1>5 DEF InStage, Computing
<1>7. /\ SameCount' /\ Places' /\ Together'
      /\ \A u \in Threads : Busy(u)' <=> Busy(u)
      /\ \A u \in Threads : Busy(u) => Stage(u)' = Stage(u)
  BY <1>6, InStageKeeps
<1>8. AtBarrier'
  BY <1>1, <1>2, <1>4, BarrierKept DEF Waiting, AtBarrier
<1>9. Locals'
  <2>1. Local(t)'
    BY <1>1, <1>2, <1>4 DEF Local
  <2> QED BY <1>4, <2>1, LocalKept DEF Locals
<1>10. Aborting' /\ NodesDone'
  BY <1>4, <1>6, <1>7, ProgressKept
<1>11. ChunksHeld'
  <2>1. Stage(0)' = Stage(t)
    BY <1>2, <1>7, ThreadSets
  <2>2. \A n \in Nodes : Stage(0)' # 2 * n + 1
    BY <1>2, <1>5, <2>1 DEF Nodes
  <2>3. ret'[0] = "mul" /\ ~Released(0)' => current_chunk' = n_threads_cur
    <3>1. CASE t = 0
      BY <1>2, <3>1 DEF Convert
    <3>2. CASE t # 0
      <4>1. Same(0)
        BY <1>4, <3>2, ThreadSets
      <4> QED BY <3>2, <4>1, SameView DEF Convert, Same, ChunksHeld
    <3> QED BY <3>1, <3>2
  <2> QED BY <1>4, <2>2, <2>3 DEF ChunksHeld
<1> QED BY <1>3, <1>7, <1>8, <1>9, <1>10, <1>11

LEMMA MulStep == ASSUME PoolInv, NEW t \in Threads, Mul(t) PROVE PoolInv'
<1> USE DEF PoolInv
<1> DEFINE n == node_n[t]
           k == chunk[t]
<1>1. Busy(t) /\ pc[t] = "mul"
  BY DEF Mul, Busy, Out, Released, Computing
<1>2. /\ t \in Team /\ Busy(0) /\ Stage(t) = Stage(0) /\ Local(t) /\ t \in Nat
      /\ n \in Nat /\ n < NNodes /\ n \in Nodes /\ nth[t] = n_threads_cur /\ k \in Nat
      /\ n_passed[t] \in Nat /\ n_barrier_passed \in Nat /\ current_chunk \in Nat
  BY <1>1, StepFacts DEF Local, Nodes
<1>3. NChunk(t) = M /\ M \in Nat /\ n_threads_cur \in Nat /\ (k < M => k \in Chunks)
  BY <1>2, ChunkNumbers, ThreadSets DEF NChunk, M
<1>4. /\ pc'[t] \in {"after", "fetch"}
      /\ pc'[t] = "after" => k >= M \/ n_threads_cur >= M
      /\ \A u \in Threads \ {t} : Same(u)
      /\ UNCHANGED <<counts, n_graph, n_threads_cur, last_graph, new_graph, n_barrier, ret,
                     n_barrier_passed, n_passed, n_threads, abort, ec, nth, node_n, wdata,
                     chunk, current_chunk>>
  BY <1>2, <1>3 DEF Mul, Goto, signals, barrier, search, Same, TypeOK
<1>5. work' = IF k < M THEN [work EXCEPT ![n][k] = @ + 1] ELSE work
  BY <1>3 DEF Mul
<1>6. Stage(t) = 2 * n + 1 /\ Stage(t)' = Stage(t) /\ Busy(t)'
  BY <1>1, <1>2, <1>4 DEF Stage, Local, Busy, Out, Released, Computing
<1>7. AtHand(n)
  BY <1>2, <1>6 DEF ChunksHeld
<1>8. k < M => work[n][k] = 0
  BY <1>1, <1>2, <1>7 DEF AtHand, Claims
<1>9. ASSUME NEW m \in Nodes, NEW c \in Chunks
      PROVE  work'[m][c] = IF m = n /\ c = k /\ k < M THEN 1 ELSE work[m][c]
  BY <1>2, <1>3, <1>5, <1>8 DEF TypeOK
<1>10. TypeOK'
  <2>1. work' \in [Nodes -> [Chunks -> Nat]]
    BY <1>2, <1>3, <1>5 DEF TypeOK
  <2>2. pc' \in [Threads -> Computing \cup Hunting \cup
                            {"exited", "idle", "kick", "join", "freed"}]
    BY DEF TypeOK, Mul, Goto, Computing
  <2> QED BY <2>1, <2>2 DEF TypeOK, Mul, signals, barrier, search
<1>11. InStage(t)
  BY <1>1, <1>4, <1>6 DEF InStage, Computing
<1>12. /\ SameCount' /\ Places' /\ Together'
       /\ \A u \in Threads : Busy(u)' <=> Busy(u)
       /\ \A u \in Threads : Busy(u) => Stage(u)' = Stage(u)
  BY <1>11, InStageKeeps
<1>13. AtBarrier'
  BY <1>1, <1>2, <1>4, BarrierKept DEF Waiting, AtBarrier
<1>14. Locals'
  <2>1. Local(t)'
    BY <1>1, <1>2, <1>4 DEF Local
  <2> QED BY <1>4, <2>1, LocalKept DEF Locals
<1>15. M' = M /\ Team' = Team
  BY <1>4 DEF M, Team, ChunksFor
<1>16. Busy(0)' /\ Stage(0)' = 2 * n + 1 /\ Stage(0) = 2 * n + 1
  BY <1>2, <1>6, <1>12, ThreadSets
<1>17. Aborting'
  BY <1>2, <1>4, <1>16 DEF Aborting
<1>18. NodesDone'
  <2>1. pc'[0] # "kick" /\ n_graph' # 0
    BY <1>2, <1>4, <1>12, <1>16 DEF Busy, Computing, SameCount
  <2>2. ASSUME NEW m \in Nodes, NEW c \in Chunks
        PROVE  /\ c >= M \/ 2 * n + 1 < 2 * m + 1 => work'[m][c] = 0
               /\ c < M /\ 2 * n + 1 > 2 * m + 1 => work'[m][c] = 1
    <3>1. m \in Nat /\ c \in Nat
      BY ChunkNumbers DEF Nodes
    <3>2. /\ c >= M \/ 2 * n + 1 < 2 * m + 1 => work[m][c] = 0
          /\ c < M /\ 2 * n + 1 > 2 * m + 1 => work[m][c] = 1
      BY <1>2, <1>16 DEF NodesDone
    <3> QED BY <1>2, <1>3, <1>9, <3>1, <3>2
  <2> QED BY <1>15, <1>16, <2>1, <2>2 DEF NodesDone
<1>19. AtHand(n)'
  <2>1. \A u \in Team : u # t =>
           (Claims(u)' <=> Claims(u)) /\ (Past(u)' <=> Past(u)) /\ chunk'[u] = chunk[u]
    BY <1>2, <1>4, ThreadSets, SameView
  <2>2. ~Claims(t)' /\ Claims(t)
    BY <1>1, <1>2, <1>4 DEF Claims, Local
  <2>3. Past(t)' => current_chunk >= M
    <3>1. Past(t)' => pc'[t] = "after"
      BY <1>1, <1>2, <1>4 DEF Past, Local
    <3>2. k < current_chunk /\ n_threads_cur <= current_chunk
      BY <1>2, <1>7, <2>2 DEF AtHand
    <3> QED BY <1>2, <1>3, <1>4, <3>1, <3>2
  <2>4. ASSUME NEW c \in Chunks, c < M
        PROVE  /\ c >= current_chunk => work'[n][c] = 0
               /\ c < current_chunk =>
                    \/ work'[n][c] = 1
                    \/ work'[n][c] = 0 /\ \E u \in Team : Claims(u)' /\ chunk'[u] = c
    <3>1. k < current_chunk /\ c \in Nat
      BY <1>2, <1>7, <2>2, ChunkNumbers DEF AtHand
    <3>2. CASE c = k
      BY <1>2, <1>9, <2>4, <3>1, <3>2
    <3>3. CASE c # k
      <4>1. work'[n][c] = work[n][c]
        BY <1>2, <1>9, <3>3
      <4> QED BY <1>7, <2>1, <2>4, <3>3, <4>1 DEF AtHand
    <3> QED BY <3>2, <3>3
  <2>5. ASSUME NEW u \in Team, Claims(u)'
        PROVE  u # t /\ chunk[u] < current_chunk /\ (chunk[u] < M => work'[n][chunk[u]] = 0)
    <3>1. u # t /\ Claims(u)
      BY <2>1, <2>2, <2>5
    <3>2. chunk[u] # k /\ chunk[u] < current_chunk /\ (chunk[u] < M => work[n][chunk[u]] = 0)
      BY <1>2, <1>7, <2>2, <3>1 DEF AtHand
    <3>3. chunk[u] < M => chunk[u] \in Chunks
      BY ThreadSets, ChunkNumbers DEF TypeOK
    <3> QED BY <1>2, <1>9, <3>1, <3>2, <3>3
  <2>6. \A u, v \in Team : u # v /\ Claims(u)' /\ Claims(v)' => chunk[u] # chunk[v]
    BY <1>7, <2>1, <2>2 DEF AtHand
  <2>7. \A u \in Team : Past(u)' => current_chunk >= M
    BY <1>7, <2>1, <2>3 DEF AtHand
  <2>8. current_chunk >= n_threads_cur
    BY <1>7 DEF AtHand
  <2> QED BY <1>4, <1>15, <2>4, <2>5, <2>6, <2>7, <2>8 DEF AtHand
<1>20. ChunksHeld'
  <2>1. \A m \in Nodes : Stage(0)' = 2 * m + 1 => m = n
    BY <1>2, <1>16 DEF Nodes
  <2>2. ret'[0] = "mul" /\ ~Released(0)' => ret[0] = "mul" /\ ~Released(0)
    <3>1. CASE t = 0
      BY <1>1, <1>2, <1>4, <3>1 DEF Local
    <3>2. CASE t # 0
      BY <1>4, <3>2, ThreadSets, SameView DEF Same
    <3> QED BY <3>1, <3>2
  <2> QED BY <1>4, <1>19, <2>1, <2>2 DEF ChunksHeld
<1> QED BY <1>10, <1>12, <1>13, <1>14, <1>17, <1>18, <1>20

LEMMA FetchStep == ASSUME PoolInv, NEW t \in Threads, Fetch(t) PROVE PoolInv'
<1> USE DEF PoolInv
<1> DEFINE n == node_n[t]
           k == current_chunk
<1>1. Busy(t) /\ pc[t] = "fetch"
  BY DEF Fetch, Busy, Out, Released, Computing
<1>2. /\ t \in Team /\ Busy(0) /\ Stage(t) = Stage(0) /\ Local(t)
      /\ n \in Nat /\ n < NNodes /\ n \in Nodes /\ nth[t] = n_threads_cur /\ k \in Nat
      /\ n_passed[t] \in Nat /\ n_barrier_passed \in Nat
  BY <1>1, StepFacts DEF Local, Nodes
<1>3. M \in Nat /\ n_threads_cur \in Nat /\ (k < M => k \in Chunks)
  BY <1>2, ChunkNumbers, ThreadSets
<1>4. /\ pc'[t] = "mul" /\ chunk'[t] = k /\ current_chunk' = k + 1
      /\ \A u \in Threads \ {t} : Same(u) /\ chunk'[u] = chunk[u]
      /\ UNCHANGED <<counts, n_graph, n_threads_cur, last_graph, new_graph, n_barrier, ret,
                     n_barrier_passed, n_passed, n_threads, abort, ec, nth, node_n, wdata,
                     work>>
  BY DEF Fetch, Goto, signals, barrier, search, Same, TypeOK
<1>5. TypeOK'
  BY DEF TypeOK, Fetch, Goto, signals, barrier, search, Computing
<1>6. Stage(t) = 2 * n + 1 /\ Stage(t)' = Stage(t) /\ Busy(t)'
  BY <1>1, <1>2, <1>4 DEF Stage, Local, Busy, Out, Released, Computing
<1>7. AtHand(n)
  BY <1>2, <1>6 DEF ChunksHeld
<1>8. InStage(t)
  BY <1>1, <1>4, <1>6 DEF InStage, Computing
<1>9. /\ SameCount' /\ Places' /\ Together'
      /\ \A u \in Threads : Busy(u)' <=> Busy(u)
      /\ \A u \in Threads : Busy(u) => Stage(u)' = Stage(u)
  BY <1>8, InStageKeeps
<1>10. AtBarrier'
  BY <1>1, <1>2, <1>4, BarrierKept DEF Waiting, AtBarrier
<1>11. Locals'
  <2>1. Local(t)'
    BY <1>1, <1>2, <1>4 DEF Local
  <2> QED BY <1>4, <2>1, LocalKept DEF Locals
<1>12. Aborting' /\ NodesDone'
  BY <1>4, <1>8, <1>9, ProgressKept
<1>13. M' = M /\ Team' = Team
  BY <1>4 DEF M, Team, ChunksFor
<1>14. AtHand(n)'
  <2>1. \A u \in Team : u # t =>
           (Claims(u)' <=> Claims(u)) /\ (Past(u)' <=> Past(u)) /\ chunk'[u] = chunk[u]
    BY <1>2, <1>4, ThreadSets, SameView
  <2>2. Claims(t)' /\ ~Claims(t) /\ ~Past(t)'
    BY <1>1, <1>2, <1>4 DEF Claims, Past, Local
  <2>3. \A u \in Team : chunk[u] \in Nat
    BY ThreadSets DEF TypeOK
  <2>4. \A u \in Team : u # t /\ Claims(u) => chunk[u] < k
    BY <1>7 DEF AtHand
  <2>5. ASSUME NEW c \in Chunks, c < M
        PROVE  /\ c >= k + 1 => work[n][c] = 0
               /\ c < k + 1 =>
                    \/ work[n][c] = 1
                    \/ work[n][c] = 0 /\ \E u \in Team : Claims(u)' /\ chunk'[u] = c
    <3>1. c \in Nat
      BY ChunkNumbers
    <3>2. CASE c > k
      BY <1>2, <1>7, <2>5, <3>1, <3>2 DEF AtHand
    <3>3. CASE c = k
      BY <1>2, <1>4, <1>7, <2>2, <2>5, <3>1, <3>3 DEF AtHand
    <3>4. CASE c < k
      BY <1>2, <1>7, <2>1, <2>2, <2>5, <3>1, <3>4 DEF AtHand
    <3> QED BY <1>2, <3>1, <3>2, <3>3, <3>4
  <2>6. ASSUME NEW u \in Team, Claims(u)'
        PROVE  chunk'[u] < k + 1 /\ (chunk'[u] < M => work[n][chunk'[u]] = 0)
    <3>1. CASE u = t
      BY <1>2, <1>3, <1>4, <1>7, <3>1 DEF AtHand
    <3>2. CASE u # t
      BY <1>2, <1>7, <2>1, <2>3, <2>6, <3>2 DEF AtHand
    <3> QED BY <3>1, <3>2
  <2>7. \A u, v \in Team : u # v /\ Claims(u)' /\ Claims(v)' => chunk'[u] # chunk'[v]
    BY <1>2, <1>4, <1>7, <2>1, <2>3, <2>4 DEF AtHand
  <2>8. \A u \in Team : Past(u)' => k + 1 >= M
    BY <1>2, <1>3, <1>7, <2>1, <2>2 DEF AtHand
  <2>9. k + 1 >= n_threads_cur
    BY <1>2, <1>3, <1>7 DEF AtHand
  <2> QED BY <1>4, <1>13, <2>5, <2>6, <2>7, <2>8, <2>9 DEF AtHand
<1>15. ChunksHeld'
  <2>1. Stage(0)' = 2 * n + 1 /\ Stage(0) = 2 * n + 1
    BY <1>2, <1>6, <1>9, ThreadSets
  <2>2. \A m \in Nodes : Stage(0)' = 2 * m + 1 => m = n
    BY <1>2, <2>1 DEF Nodes
  <2>3. ~(ret[0] = "mul" /\ ~Released(0))
    BY <1>2, <2>1, StepFacts, ThreadSets DEF Stage, Local
  <2>4. ret'[0] = "mul" => Released(0)'
    <3>1. CASE t = 0
      BY <1>1, <1>2, <1>4, <3>1 DEF Local
    <3>2. CASE t # 0
      BY <1>4, <2>3, <3>2, ThreadSets, SameView DEF Same
    <3> QED BY <3>1, <3>2
  <2> QED BY <1>4, <1>14, <2>2, <2>4 DEF ChunksHeld
<1> QED BY <1>5, <1>9, <1>10, <1>11, <1>12, <1>15

LEMMA AfterNodeStep == ASSUME PoolInv, NEW t \in Threads, AfterNode(t) PROVE PoolInv'
<1> USE DEF PoolInv
<1> DEFINE n == node_n[t]
<1>1. Busy(t) /\ pc[t] = "after"
  BY DEF AfterNode, Busy, Out, Released, Computing
<1>2. /\ t \in Team /\ Busy(0) /\ Stage(t) = Stage(0) /\ Local(t) /\ ret[t] = "none"
      /\ n \in Nat /\ n < NNodes /\ n \in Nodes /\ nth[t] = n_threads_cur
      /\ n_passed[t] \in Nat /\ n_barrier_passed \in Nat
  BY <1>1, StepFacts DEF Local, Nodes
<1>3. /\ \/ n + 1 < NNodes /\ pc'[t] = "enter" /\ ret'[t] = "next" /\ node_n'[t] = n
         \/ n + 1 = NNodes /\ pc'[t] = "test" /\ ret'[t] = "none" /\ node_n'[t] = n + 1
      /\ \A u \in Threads \ {t} : Same(u)
      /\ UNCHANGED <<counts, n_graph, n_threads_cur, last_graph, new_graph, n_barrier,
                     n_barrier_passed, n_passed, n_threads, nth, wdata, work, chunk,
                     current_chunk>>
  <2>1. CASE n + 1 < NNodes
    BY <1>2, <2>1 DEF AfterNode, NextNode, Barrier, Goto, signals, barrier, search, Same, TypeOK
  <2>2. CASE ~(n + 1 < NNodes)
    <3>1. n + 1 = NNodes
      BY <1>2, <2>2
    <3> QED BY <1>2, <2>2, <3>1 DEF AfterNode, NextNode, Barrier, Goto, signals, barrier,
                                    search, Same, TypeOK
  <2> QED BY <2>1, <2>2
<1>4. \/ UNCHANGED <<abort, ec>>
      \/ t = 0 /\ abort' = n + 1 /\ ec' = "aborted"
  BY DEF AfterNode
<1>5. TypeOK'
  <2>1. abort' \in {-1} \cup 1..NNodes /\ ec' \in {"success", "aborted"}
    BY <1>2, <1>4 DEF TypeOK
  <2>2. /\ pc' \in [Threads -> Computing \cup Hunting \cup
                               {"exited", "idle", "kick", "join", "freed"}]
        /\ node_n' \in [Threads -> 0..NNodes]
        /\ ret' \in [Threads -> {"none", "mul", "next", "leave"}]
    BY <1>2 DEF TypeOK, AfterNode, NextNode, Barrier, Goto, Computing
  <2> QED BY <2>1, <2>2 DEF TypeOK, AfterNode, signals, barrier, search
<1>6. Stage(t) = 2 * n + 1 /\ Stage(t)' = Stage(t) /\ Busy(t)'
  BY <1>1, <1>2, <1>3 DEF Stage, Local, Busy, Out, Released, Computing
<1>7. InStage(t)
  BY <1>1, <1>3, <1>6 DEF InStage, Computing
<1>8. /\ SameCount' /\ Places' /\ Together'
      /\ \A u \in Threads : Busy(u)' <=> Busy(u)
      /\ \A u \in Threads : Busy(u) => Stage(u)' = Stage(u)
  BY <1>7, InStageKeeps
<1>9. AtBarrier'
  BY <1>1, <1>2, <1>3, BarrierKept DEF Waiting, AtBarrier
<1>10. Locals'
  <2>1. Local(t)'
    BY <1>1, <1>2, <1>3 DEF Local
  <2>2. ASSUME NEW u \in Threads, u # t
        PROVE  Local(u)'
    <3>1. CASE abort' = abort
      BY <1>3, <2>2, <3>1, LocalKept DEF Locals
    <3>2. CASE t = 0 /\ abort' = n + 1
      <4>1. Busy(u)' <=> Busy(u)
        BY <1>8
      <4>2. Local(u) /\ Same(u)
        BY <1>3, <2>2 DEF Locals
      <4>3. CASE ~Busy(u)
        BY <1>3, <4>1, <4>2, <4>3 DEF Local, Same
      <4>4. CASE Busy(u)
        <5>1. Stage(u) = 2 * n + 1 /\ node_n[u] \in Nat
          BY <1>2, <1>6, <4>4, StepFacts
        <5>2. pc[u] # "convert" /\ (ret[u] = "mul" => node_n[u] = n)
          <6>1. pc[u] # "convert"
            BY <1>2, <4>2, <5>1 DEF Stage, Local
          <6>2. ret[u] = "mul" => node_n[u] = n
            BY <1>2, <4>2, <5>1 DEF Stage, Local
          <6> QED BY <6>1, <6>2
        <5>3. ret[u] = "leave" => node_n[u] = NNodes
          BY <1>2, <4>2, <5>1 DEF Stage, Local
        <5> QED BY <1>2, <1>3, <3>2, <4>2, <4>4, <5>2, <5>3 DEF Local, Same
      <4> QED BY <4>3, <4>4
    <3> QED BY <1>4, <3>1, <3>2
  <2> QED BY <2>1, <2>2 DEF Locals
<1>11. Busy(0)' /\ Stage(0)' = 2 * n + 1 /\ Stage(0) = 2 * n + 1 /\ M' = M
  BY <1>2, <1>3, <1>6, <1>8, ThreadSets DEF M, ChunksFor
<1>12. Aborting'
  <2>1. CASE UNCHANGED <<abort, ec>>
    BY <1>2, <1>11, <2>1 DEF Aborting
  <2>2. CASE abort' = n + 1 /\ ec' = "aborted"
    BY <1>2, <1>11, <2>2 DEF Aborting
  <2> QED BY <1>4, <2>1, <2>2
<1>13. NodesDone'
  <2>1. pc'[0] # "kick" /\ n_graph' # 0
    BY <1>8, <1>11 DEF Busy, Computing, SameCount
  <2> QED BY <1>2, <1>3, <1>11, <2>1 DEF NodesDone
<1>14. ChunksHeld'
  <2>1. (Claims(t)' <=> Claims(t)) /\ (Past(t)' => Past(t))
    BY <1>1, <1>2, <1>3 DEF Claims, Past
  <2>2. t = 0 => ret'[0] # "mul"
    BY <1>3
  <2> QED BY <1>2, <1>3, <1>7, <1>8, <2>1, <2>2, ChunksKept
<1> QED BY <1>5, <1>8, <1>9, <1>10, <1>12, <1>13, <1>14

-----------------------------------------------------------------------------
(* The barrier.                                                            *)

\* A thread at the barrier is one of the graph's, and does not leave its stage there.
LEMMA AtBarrierFacts ==
    ASSUME PoolInv, NEW t \in Threads, pc[t] \in {"enter", "arrive", "reset", "release"}
    PROVE  /\ Busy(t) /\ ~Waiting(t) /\ ~Released(t) /\ ret[t] # "none"
           /\ ret[t] \in {"mul", "next", "leave"}
           /\ t \in Team /\ Busy(0) /\ Stage(t) = Stage(0) /\ Local(t)
           /\ n_passed[t] \in Nat /\ n_barrier_passed \in Nat
<1>1. Busy(t) /\ ~Waiting(t) /\ ~Released(t)
  BY DEF Busy, Out, Released, Waiting, Computing
<1>2. /\ t \in Team /\ Busy(0) /\ Stage(t) = Stage(0) /\ Local(t)
      /\ n_passed[t] \in Nat /\ n_barrier_passed \in Nat
  BY <1>1, StepFacts
<1>3. ret[t] # "none"
  BY <1>2 DEF Local
<1> QED BY <1>1, <1>2, <1>3 DEF PoolInv, TypeOK

\* A step of the barrier that does not open it.
AtGate(t) ==
    /\ pc[t] \in {"enter", "arrive", "reset"}
    /\ pc'[t] \in {"arrive", "reset", "release", "spin"}
    /\ pc'[t] = "spin" => n_passed'[t] = n_barrier_passed
    /\ \A u \in Threads \ {t} : Same(u)
    /\ UNCHANGED <<counts, n_graph, n_threads_cur, last_graph, new_graph, ret,
                   n_barrier_passed, current_chunk, abort, ec, wdata, chunk, work, nth, node_n>>

LEMMA AtGateKeeps ==
    ASSUME PoolInv, NEW t \in Threads, AtGate(t)
    PROVE  /\ SameCount' /\ Places' /\ Together' /\ Locals' /\ Aborting' /\ NodesDone'
           /\ ChunksHeld'
<1> USE DEF PoolInv
<1>1. /\ Busy(t) /\ ~Released(t) /\ ret[t] # "none"
      /\ t \in Team /\ Stage(t) = Stage(0) /\ Local(t)
  BY AtBarrierFacts DEF AtGate
<1>2. ~Released(t)' /\ Busy(t)'
  BY DEF AtGate, Busy, Out, Released, Computing
<1>3. Stage(t)' = Stage(t)
  BY <1>1, <1>2 DEF Stage, AtGate
<1>4. InStage(t)
  BY <1>1, <1>2, <1>3 DEF InStage, AtGate, Computing
<1>5. /\ SameCount' /\ Places' /\ Together'
      /\ \A u \in Threads : Busy(u)' <=> Busy(u)
      /\ \A u \in Threads : Busy(u) => Stage(u)' = Stage(u)
  BY <1>4, InStageKeeps
<1>6. Locals'
  <2>1. Local(t)'
    BY <1>1, <1>2 DEF Local, AtGate
  <2> QED BY <2>1, LocalKept DEF Locals, AtGate
<1>7. Aborting' /\ NodesDone'
  BY <1>4, <1>5, ProgressKept DEF AtGate
<1>8. ChunksHeld'
  <2>1. (Claims(t)' <=> Claims(t)) /\ (Past(t)' => Past(t))
    BY DEF Claims, Past, AtGate
  <2>2. t = 0 /\ ret'[0] = "mul" /\ ~Released(0)' => ret[0] = "mul" /\ ~Released(0)
    BY <1>1 DEF AtGate
  <2> QED BY <1>1, <1>4, <1>5, <2>1, <2>2, ChunksKept DEF AtGate
<1> QED BY <1>5, <1>6, <1>7, <1>8

LEMMA EnterStep ==
    ASSUME PoolInv, NEW t \in Threads, Enter(t), n_threads_cur # 1
    PROVE  PoolInv'
<1> USE DEF PoolInv
<1>1. /\ Busy(t) /\ ~Waiting(t) /\ t \in Team /\ pc[t] = "enter"
      /\ n_barrier_passed \in Nat
  BY AtBarrierFacts DEF Enter
<1>2. TypeOK'
  <2>1. /\ n_threads' \in [Threads -> 0..NThreadsMax] /\ n_passed' \in [Threads -> Nat]
        /\ pc' \in [Threads -> Computing \cup Hunting \cup
                               {"exited", "idle", "kick", "join", "freed"}]
    BY ThreadSets DEF TypeOK, Enter, Goto, Computing
  <2> QED BY <2>1 DEF TypeOK, Enter, signals, search
<1>3. /\ pc'[t] = "arrive" /\ n_threads'[t] = n_threads_cur /\ n_passed'[t] = n_barrier_passed
      /\ \A u \in Threads \ {t} : Same(u) /\ n_threads'[u] = n_threads[u]
      /\ UNCHANGED <<counts, n_graph, n_threads_cur, last_graph, new_graph, n_barrier, ret,
                     n_barrier_passed, current_chunk, abort, ec, wdata, chunk, work, nth,
                     node_n>>
  BY DEF Enter, Goto, signals, search, Same, TypeOK
<1>4. AtGate(t)
  BY <1>1, <1>3 DEF AtGate
<1>5. AtBarrier'
  <2>1. n_threads_cur > 1
    BY ThreadSets
  <2> QED BY <1>1, <1>3, <2>1, BarrierKept
<1> QED BY <1>2, <1>4, <1>5, AtGateKeeps

\* The counter shows a thread that it is the last only when all others are waiting.
LEMMA ArriveStep == ASSUME PoolInv, NEW t \in Threads, Arrive(t) PROVE PoolInv'
<1> USE DEF PoolInv
<1> DEFINE W == {u \in Threads : Waiting(u)}
<1>1. /\ Busy(t) /\ ~Waiting(t) /\ t \in Team /\ pc[t] = "arrive"
      /\ n_barrier_passed \in Nat /\ n_passed[t] = n_barrier_passed
      /\ n_threads[t] = n_threads_cur /\ n_threads_cur > 1 /\ n_threads_cur \in Nat
      /\ n_threads_cur <= NThreadsMax
  BY AtBarrierFacts, ThreadSets DEF Arrive, AtBarrier
<1>2. \A u \in Threads : pc[u] \notin {"reset", "release"}
  BY <1>1, NotTheLast
<1>3. n_barrier = Cardinality(W)
  BY <1>2 DEF AtBarrier
<1>4. W \subseteq Team \ {t}
  <2>1. ASSUME NEW u \in Threads, Waiting(u) PROVE u \in Team /\ u # t
    <3>1. Busy(u)
      BY <2>1 DEF Busy, Out, Released, Waiting, Computing
    <3> QED BY <1>1, <2>1, <3>1, BusyTogether
  <2> QED BY <2>1
<1>5. IsFiniteSet(Team) /\ Cardinality(Team) = n_threads_cur
  BY <1>1, FS_Interval DEF Team
<1>6. IsFiniteSet(Team \ {t}) /\ Cardinality(Team \ {t}) = n_threads_cur - 1
  BY <1>1, <1>5, FS_RemoveElement
<1>7. /\ IsFiniteSet(W) /\ Cardinality(W) \in Nat /\ Cardinality(W) <= n_threads_cur - 1
      /\ Cardinality(W) = n_threads_cur - 1 => W = Team \ {t}
  BY <1>4, <1>6, FS_Subset, FS_CardinalityType
<1>8. /\ pc'[t] = IF n_barrier = n_threads_cur - 1 THEN "reset" ELSE "spin"
      /\ n_barrier' = n_barrier + 1
      /\ \A u \in Threads \ {t} : Same(u)
      /\ UNCHANGED <<counts, n_graph, n_threads_cur, last_graph, new_graph, ret, n_threads,
                     n_barrier_passed, n_passed, current_chunk, abort, ec, wdata, chunk,
                     work, nth, node_n>>
  BY <1>1 DEF Arrive, Goto, signals, search, compute, Same, TypeOK
<1>9. TypeOK'
  <2>1. n_barrier' \in 0..NThreadsMax
    BY <1>1, <1>3, <1>7, <1>8
  <2> QED BY <2>1 DEF TypeOK, Arrive, Goto, signals, search, compute, Computing
<1>10. AtGate(t)
  BY <1>1, <1>8 DEF AtGate
<1>11. AtBarrier'
  <2>1. \A u \in Threads : u # t => (Waiting(u)' <=> Waiting(u)) /\ pc'[u] = pc[u]
    BY <1>8, SameView DEF Same
  <2>2. \A u \in Threads : pc'[u] # "release"
    BY <1>2, <1>8, <2>1
  <2>3. ASSUME NEW u \in Threads
        PROVE  /\ pc'[u] = "arrive" => n_threads'[u] = n_threads_cur'
               /\ pc'[u] \in {"arrive", "reset", "release"} => n_passed'[u] = n_barrier_passed'
               /\ n_passed'[u] <= n_barrier_passed'
    BY <1>1, <1>8, <2>1 DEF AtBarrier
  <2>4. Team' = Team
    BY <1>8 DEF Team
  <2>5. CASE n_barrier = n_threads_cur - 1
    <3>1. pc'[t] = "reset" /\ n_barrier' = n_threads_cur
      BY <1>1, <1>8, <2>5
    <3>2. \A u \in Team \ {t} : Waiting(u)'
      BY <1>3, <1>7, <2>1, <2>5
    <3>3. \A u \in Threads : pc'[u] = "reset" => u = t
      BY <1>2, <2>1
    <3> QED BY <1>1, <1>8, <2>2, <2>3, <2>4, <3>1, <3>2, <3>3 DEF AtBarrier
  <2>6. CASE n_barrier # n_threads_cur - 1
    <3>1. pc'[t] = "spin" /\ Waiting(t)'
      BY <1>1, <1>8, <2>6 DEF Waiting
    <3>2. {u \in Threads : Waiting(u)}' = W \cup {t}
      BY <2>1, <3>1
    <3>3. Cardinality(W \cup {t}) = Cardinality(W) + 1
      BY <1>1, <1>7, FS_AddElement
    <3>4. \A u \in Threads : pc'[u] \notin {"reset", "release"}
      BY <1>2, <2>1, <3>1
    <3>5. n_barrier' = Cardinality({u \in Threads : Waiting(u)})'
      BY <1>3, <1>8, <3>2, <3>3
    <3> QED BY <1>1, <1>8, <2>3, <3>4, <3>5 DEF AtBarrier
  <2> QED BY <2>5, <2>6
<1> QED BY <1>9, <1>10, <1>11, AtGateKeeps

LEMMA ResetStep == ASSUME PoolInv, NEW t \in Threads, Reset(t) PROVE PoolInv'
<1> USE DEF PoolInv
<1>1. /\ Busy(t) /\ t \in Team /\ pc[t] = "reset" /\ n_passed[t] = n_barrier_passed
      /\ n_threads_cur > 1
  BY AtBarrierFacts DEF Reset, AtBarrier
<1>2. /\ pc'[t] = "release" /\ n_barrier' = 0
      /\ \A u \in Threads \ {t} : Same(u)
      /\ UNCHANGED <<counts, n_graph, n_threads_cur, last_graph, new_graph, ret, n_threads,
                     n_barrier_passed, n_passed, current_chunk, abort, ec, wdata, chunk,
                     work, nth, node_n>>
  BY DEF Reset, Goto, signals, search, compute, Same, TypeOK
<1>3. TypeOK'
  BY DEF TypeOK, Reset, Goto, signals, search, compute, Computing
<1>4. AtGate(t)
  BY <1>1, <1>2 DEF AtGate
<1>5. AtBarrier'
  <2>1. \A u \in Threads : u # t => (Waiting(u)' <=> Waiting(u)) /\ pc'[u] = pc[u]
    BY <1>2, SameView DEF Same
  <2>2. \A u \in Team \ {t} : Waiting(u)'
    BY <1>1, <2>1, ThreadSets DEF AtBarrier
  <2>3. \A u \in Threads : u # t => pc'[u] \notin {"reset", "release"}
    <3>1. ASSUME NEW u \in Threads, u # t, pc[u] \in {"reset", "release"} PROVE FALSE
      BY <1>1, <3>1, AtBarrierFacts DEF AtBarrier, Waiting
    <3> QED BY <2>1, <3>1
  <2>4. ASSUME NEW u \in Threads
        PROVE  /\ pc'[u] = "arrive" => n_threads'[u] = n_threads_cur'
               /\ pc'[u] \in {"arrive", "reset", "release"} => n_passed'[u] = n_barrier_passed'
               /\ n_passed'[u] <= n_barrier_passed'
    BY <1>1, <1>2, <2>1 DEF AtBarrier
  <2>5. Team' = Team
    BY <1>2 DEF Team
  <2> QED BY <1>1, <1>2, <2>2, <2>3, <2>4, <2>5 DEF AtBarrier
<1> QED BY <1>3, <1>4, <1>5, AtGateKeeps

\* A thread leaves the barrier: into the product, to the next node, or out of the graph.
Apart(u) ==
    /\ pc'[u] = pc[u] /\ ret'[u] = ret[u] /\ node_n'[u] = node_n[u]
    /\ n_passed'[u] = n_passed[u] /\ n_threads'[u] = n_threads[u]
    /\ nth'[u] = nth[u] /\ chunk'[u] = chunk[u]

LEMMA ReturnFacts ==
    ASSUME TypeOK, NEW t \in Threads, Return(t)
    PROVE  /\ ret'[t] = "none" /\ n_passed'[t] = 0
           /\ \/ /\ ret[t] = "mul" /\ pc'[t] = "mul" /\ node_n'[t] = node_n[t]
                 /\ nth' = nth /\ chunk' = chunk
              \/ /\ ret[t] = "next" /\ pc'[t] = "test" /\ node_n'[t] = node_n[t] + 1
                 /\ nth' = nth /\ chunk' = chunk
              \/ /\ ret[t] = "leave" /\ pc'[t] = IF t = 0 THEN "idle" ELSE "top"
                 /\ node_n'[t] = 0
           /\ \A u \in Threads \ {t} : Apart(u)
<1>1. ret'[t] = "none" /\ n_passed'[t] = 0
  BY DEF Return, TypeOK
<1>2. \/ /\ ret[t] = "mul" /\ pc'[t] = "mul" /\ node_n'[t] = node_n[t]
         /\ nth' = nth /\ chunk' = chunk
      \/ /\ ret[t] = "next" /\ pc'[t] = "test" /\ node_n'[t] = node_n[t] + 1
         /\ nth' = nth /\ chunk' = chunk
      \/ /\ ret[t] = "leave" /\ pc'[t] = IF t = 0 THEN "idle" ELSE "top"
         /\ node_n'[t] = 0
  BY DEF Return, Leave, Goto, TypeOK
<1>3. ASSUME NEW u \in Threads \ {t} PROVE Apart(u)
  <2>1. /\ pc'[u] = pc[u] /\ node_n'[u] = node_n[u]
        /\ nth'[u] = nth[u] /\ chunk'[u] = chunk[u]
    BY DEF Return, Leave, Goto, TypeOK
  <2>2. ret'[u] = ret[u] /\ n_passed'[u] = n_passed[u] /\ n_threads'[u] = n_threads[u]
    BY DEF Return, TypeOK
  <2> QED BY <2>1, <2>2 DEF Apart
<1> QED BY <1>1, <1>2, <1>3

LEMMA ReturnTypes ==
    ASSUME TypeOK, NEW t \in Threads, Return(t), Local(t)
    PROVE  /\ pc' \in [Threads -> Computing \cup Hunting \cup
                                  {"exited", "idle", "kick", "join", "freed"}]
           /\ nth' \in [Threads -> 0..NThreadsMax] /\ node_n' \in [Threads -> 0..NNodes]
           /\ chunk' \in [Threads -> Nat]
           /\ n_threads' \in [Threads -> 0..NThreadsMax] /\ n_passed' \in [Threads -> Nat]
           /\ ret' \in [Threads -> {"none", "mul", "next", "leave"}]
<1>1. pc' \in [Threads -> Computing \cup Hunting \cup
                          {"exited", "idle", "kick", "join", "freed"}]
  BY DEF TypeOK, Return, Leave, Goto, Computing, Hunting
<1>2. nth' \in [Threads -> 0..NThreadsMax] /\ chunk' \in [Threads -> Nat]
  BY DEF TypeOK, Return, Leave
<1>3. node_n' \in [Threads -> 0..NNodes]
  <2>1. ret[t] = "next" => node_n[t] + 1 \in 0..NNodes
    BY DEF TypeOK, Local
  <2> QED BY <2>1 DEF TypeOK, Return, Leave
<1>4. n_threads' \in [Threads -> 0..NThreadsMax] /\ n_passed' \in [Threads -> Nat]
  BY DEF TypeOK, Return
<1>5. ret' \in [Threads -> {"none", "mul", "next", "leave"}]
  BY DEF TypeOK, Return
<1> QED BY <1>1, <1>2, <1>3, <1>4, <1>5

\* Threads of one stage that wait at a barrier wait at the same one.
LEMMA SameBarrier ==
    ASSUME PoolInv, NEW t \in Threads, NEW u \in Threads, Busy(t), Busy(u),
           ret[t] # "none", ret[u] # "none", ~Released(t), ~Released(u)
    PROVE  ret[t] = ret[u] /\ node_n[t] = node_n[u]
<1>1. /\ Stage(t) = Stage(u) /\ Local(t) /\ Local(u)
      /\ node_n[t] \in Nat /\ node_n[t] <= NNodes
      /\ node_n[u] \in Nat /\ node_n[u] <= NNodes
  BY StepFacts
<1>2. ASSUME NEW v \in Threads, v \in {t, u}
      PROVE  /\ ret[v] \in {"mul", "next", "leave"}
             /\ ret[v] = "mul" => Stage(v) = 2 * node_n[v] /\ abort # node_n[v]
             /\ ret[v] = "next" => Stage(v) = 2 * node_n[v] + 1 /\ node_n[v] + 1 < NNodes
             /\ ret[v] = "leave" => IF node_n[v] = NNodes THEN Stage(v) = 2 * NNodes - 1
                                    ELSE Stage(v) = 2 * node_n[v] /\ abort = node_n[v]
  <2>1. /\ ret[v] # "none" /\ ~Released(v) /\ Busy(v) /\ Local(v)
        /\ pc[v] \in {"enter", "arrive", "reset", "release", "spin"}
    BY <1>1, <1>2 DEF Local
  <2> QED BY <2>1 DEF PoolInv, TypeOK, Local, Stage
<1> QED BY <1>1, <1>2

\* The barrier opens: thread t finds all others waiting, and lets them go.
Opens(t) ==
    /\ pc[t] \in {"enter", "release"}
    /\ \A u \in Team \ {t} : Waiting(u) /\ n_barrier_passed' # n_passed[u]
    /\ n_barrier_passed' \in Nat /\ n_barrier_passed' >= n_barrier_passed
    /\ n_barrier' = 0
    /\ Return(t)
    /\ UNCHANGED <<counts, signals, search, current_chunk, abort, ec, wdata, work>>

\* What the threads outside the graph do not notice.
LEMMA Outsiders ==
    ASSUME TypeOK, Places, NEW u \in Threads, u \notin Team
    PROVE  u \in Workers /\ pc[u] \notin Computing /\ ~Busy(u) /\ ~Waiting(u)
<1>1. u \in Workers /\ ~(u < n_threads_cur)
  BY ThreadSets
<1>2. pc[u] \notin Computing
  BY <1>1 DEF Places
<1> QED BY <1>1, <1>2 DEF Busy, Waiting, Computing

\* How each thread of the graph stands after the barrier has opened.
LEMMA OpenedViews ==
    ASSUME PoolInv, NEW t \in Threads, Opens(t)
    PROVE  /\ t \in Team /\ Busy(t) /\ ~Released(t) /\ ret[t] \in {"mul", "next", "leave"}
           /\ \A u \in Team : /\ Busy(u) /\ ret[u] = ret[t] /\ node_n[u] = node_n[t]
                              /\ Stage(u) = Stage(t) /\ Seen(u) /\ ~Released(u)
           /\ \A u \in Team : u # t => Released(u)' /\ Apart(u) /\ pc'[u] = "spin"
           /\ ret[t] = "mul" =>
                /\ Stage(t) = 2 * node_n[t] /\ node_n[t] < NNodes /\ abort # node_n[t]
                /\ \A u \in Team : Busy(u)' /\ Stage(u)' = 2 * node_n[t] + 1
           /\ ret[t] = "next" =>
                /\ Stage(t) = 2 * node_n[t] + 1 /\ node_n[t] + 1 < NNodes
                /\ \A u \in Team : Busy(u)' /\ Stage(u)' = 2 * node_n[t] + 2
           /\ ret[t] = "leave" =>
                /\ IF node_n[t] = NNodes THEN Stage(t) = 2 * NNodes - 1
                   ELSE Stage(t) = 2 * node_n[t] /\ abort = node_n[t]
                /\ \A u \in Team : ~Busy(u)'
<1> USE DEF PoolInv
<1>1. /\ Busy(t) /\ ~Waiting(t) /\ ~Released(t) /\ ret[t] \in {"mul", "next", "leave"}
      /\ t \in Team /\ Local(t) /\ n_barrier_passed \in Nat
  BY AtBarrierFacts DEF Opens
<1>2. ASSUME NEW u \in Team
      PROVE  /\ Busy(u) /\ ret[u] = ret[t] /\ node_n[u] = node_n[t]
             /\ Stage(u) = Stage(t) /\ Seen(u) /\ ~Released(u)
  <2>1. CASE u = t
    BY <1>1, <2>1, BusyTogether
  <2>2. CASE u # t
    <3>1. Waiting(u) /\ u \in Threads
      BY <2>2, ThreadSets DEF Opens
    <3>2. Busy(u) /\ ~Released(u)
      BY <3>1 DEF Busy, Out, Released, Waiting, Computing
    <3>3. Stage(u) = Stage(t) /\ Seen(u)
      BY <1>1, <3>1, <3>2, BusyTogether
    <3>4. ret[u] # "none"
      BY <3>1 DEF Waiting, Locals, Local
    <3> QED BY <1>1, <3>1, <3>2, <3>3, <3>4, SameBarrier
  <2> QED BY <2>1, <2>2
<1>3. ASSUME NEW u \in Team, u # t
      PROVE  Released(u)' /\ Apart(u) /\ pc'[u] = "spin"
  <2>1. u \in Threads /\ Waiting(u) /\ n_barrier_passed' # n_passed[u]
    BY <1>3, ThreadSets DEF Opens
  <2>2. Apart(u)
    BY <1>3, <2>1, ReturnFacts DEF Opens
  <2> QED BY <2>1, <2>2 DEF Apart, Waiting, Released
<1>4. pc[t] \in {"enter", "release"} /\ node_n[t] \in Nat /\ node_n[t] <= NNodes
  BY <1>1, StepFacts DEF Opens
<1>5. ASSUME ret[t] = "mul"
      PROVE  /\ Stage(t) = 2 * node_n[t] /\ node_n[t] < NNodes /\ abort # node_n[t]
             /\ \A u \in Team : Busy(u)' /\ Stage(u)' = 2 * node_n[t] + 1
  <2>1. Stage(t) = 2 * node_n[t] /\ node_n[t] < NNodes /\ abort # node_n[t]
    BY <1>1, <1>4, <1>5 DEF Stage, Local
  <2>2. ret'[t] = "none" /\ pc'[t] = "mul" /\ node_n'[t] = node_n[t]
    BY <1>5, ReturnFacts DEF Opens
  <2>3. Busy(t)' /\ Stage(t)' = 2 * node_n[t] + 1
    BY <2>2 DEF Busy, Out, Released, Computing, Stage
  <2>4. ASSUME NEW u \in Team, u # t
        PROVE  Busy(u)' /\ Stage(u)' = 2 * node_n[t] + 1
    BY <1>2, <1>3, <1>5, <2>4 DEF Busy, Out, Computing, Stage, Apart
  <2> QED BY <2>1, <2>3, <2>4
<1>6. ASSUME ret[t] = "next"
      PROVE  /\ Stage(t) = 2 * node_n[t] + 1 /\ node_n[t] + 1 < NNodes
             /\ \A u \in Team : Busy(u)' /\ Stage(u)' = 2 * node_n[t] + 2
  <2>1. Stage(t) = 2 * node_n[t] + 1 /\ node_n[t] + 1 < NNodes
    BY <1>1, <1>4, <1>6 DEF Stage, Local
  <2>2. ret'[t] = "none" /\ pc'[t] = "test" /\ node_n'[t] = node_n[t] + 1
    BY <1>6, ReturnFacts DEF Opens
  <2>3. Busy(t)' /\ Stage(t)' = 2 * node_n[t] + 2
    BY <1>4, <2>1, <2>2 DEF Busy, Out, Released, Computing, Stage
  <2>4. ASSUME NEW u \in Team, u # t
        PROVE  Busy(u)' /\ Stage(u)' = 2 * node_n[t] + 2
    BY <1>2, <1>3, <1>6, <2>4 DEF Busy, Out, Computing, Stage, Apart
  <2> QED BY <2>1, <2>3, <2>4
<1>7. ASSUME ret[t] = "leave"
      PROVE  /\ IF node_n[t] = NNodes THEN Stage(t) = 2 * NNodes - 1
                ELSE Stage(t) = 2 * node_n[t] /\ abort = node_n[t]
             /\ \A u \in Team : ~Busy(u)'
  <2>1. IF node_n[t] = NNodes THEN Stage(t) = 2 * NNodes - 1
        ELSE Stage(t) = 2 * node_n[t] /\ abort = node_n[t]
    BY <1>1, <1>4, <1>7 DEF Stage, Local
  <2>2. ~Busy(t)'
    BY <1>7, ReturnFacts DEF Opens, Busy, Computing
  <2>3. ASSUME NEW u \in Team, u # t PROVE ~Busy(u)'
    BY <1>2, <1>3, <1>7, <2>3 DEF Busy, Out, Apart
  <2> QED BY <2>1, <2>2, <2>3
<1> QED BY <1>1, <1>2, <1>3, <1>5, <1>6, <1>7

\* When the barrier after node n opens, all chunks of the node are computed.
LEMMA NodeComplete ==
    ASSUME PoolInv, NEW n \in Nodes, Busy(0), Stage(0) = 2 * n + 1,
           \A u \in Team : ret[u] \in {"next", "leave"} /\ pc[u] # "mul"
    PROVE  \A c \in Chunks : c < M => work[n][c] = 1
<1> USE DEF PoolInv
<1>1. AtHand(n)
  BY DEF ChunksHeld
<1>2. Past(0) /\ 0 \in Team /\ \A u \in Team : ~Claims(u)
  BY ThreadSets DEF Past, Claims
<1>3. current_chunk >= M
  BY <1>1, <1>2 DEF AtHand
<1>4. M \in Nat /\ current_chunk \in Nat /\ \A c \in Chunks : c \in Nat
  BY ChunkNumbers DEF TypeOK
<1> QED BY <1>1, <1>2, <1>3, <1>4 DEF AtHand

LEMMA OpensKeeps == ASSUME PoolInv, NEW t \in Threads, Opens(t) PROVE PoolInv'
<1> USE DEF PoolInv
<1> DEFINE n == node_n[t]
<1>1. /\ t \in Team /\ Busy(t) /\ ret[t] \in {"mul", "next", "leave"}
      /\ \A u \in Team : /\ Busy(u) /\ ret[u] = ret[t] /\ node_n[u] = n
                         /\ Stage(u) = Stage(t) /\ Seen(u) /\ ~Released(u)
      /\ \A u \in Team : u # t => Released(u)' /\ Apart(u) /\ pc'[u] = "spin"
  BY OpenedViews
<1>2. /\ ret[t] = "mul" =>
           /\ Stage(t) = 2 * n /\ n < NNodes /\ abort # n
           /\ \A u \in Team : Busy(u)' /\ Stage(u)' = 2 * n + 1
      /\ ret[t] = "next" =>
           /\ Stage(t) = 2 * n + 1 /\ n + 1 < NNodes
           /\ \A u \in Team : Busy(u)' /\ Stage(u)' = 2 * n + 2
      /\ ret[t] = "leave" =>
           /\ IF n = NNodes THEN Stage(t) = 2 * NNodes - 1
              ELSE Stage(t) = 2 * n /\ abort = n
           /\ \A u \in Team : ~Busy(u)'
  BY OpenedViews
<1>3. /\ n \in Nat /\ n <= NNodes /\ Local(t) /\ Busy(0) /\ Stage(t) = Stage(0)
      /\ n_barrier_passed \in Nat /\ current_chunk \in Nat /\ chunk[t] \in Nat
  BY <1>1, StepFacts
<1>4. /\ ret'[t] = "none" /\ n_passed'[t] = 0
      /\ \/ /\ ret[t] = "mul" /\ pc'[t] = "mul" /\ node_n'[t] = n
            /\ nth' = nth /\ chunk' = chunk
         \/ /\ ret[t] = "next" /\ pc'[t] = "test" /\ node_n'[t] = n + 1
            /\ nth' = nth /\ chunk' = chunk
         \/ ret[t] = "leave" /\ pc'[t] = IF t = 0 THEN "idle" ELSE "top"
      /\ \A u \in Threads \ {t} : Apart(u)
  BY ReturnFacts DEF Opens
<1>5. UNCHANGED <<counts, n_graph, n_threads_cur, last_graph, new_graph, current_chunk,
                  abort, ec, wdata, work>> /\ Team' = Team /\ M' = M
  BY DEF Opens, signals, search, Team, M, ChunksFor
<1>6. TypeOK'
  <2>1. n_barrier' \in 0..NThreadsMax /\ n_barrier_passed' \in Nat
    BY DEF Opens
  <2> QED BY <1>3, <2>1, ReturnTypes DEF TypeOK, Opens, signals, search
<1>7. /\ 0 \in Team /\ 0 \in Threads /\ Team \subseteq Threads /\ n_threads_cur \in Nat
      /\ \A u \in Threads : u \in Nat /\ (u \in Team <=> u < n_threads_cur)
      /\ \A w \in Workers : w \in Threads /\ w # 0
  BY ThreadSets
<1>8. ASSUME NEW u \in Threads, u \notin Team
      PROVE  /\ u \in Workers /\ pc[u] \notin Computing /\ pc'[u] = pc[u] /\ Apart(u)
             /\ ~Busy(u) /\ ~Busy(u)' /\ ~Waiting(u)'
  <2>1. u \in Workers /\ pc[u] \notin Computing /\ ~Busy(u) /\ Apart(u)
    BY <1>1, <1>4, <1>8, Outsiders
  <2> QED BY <2>1 DEF Apart, Busy, Waiting, Computing
<1>9. pc'[0] \in Computing \cup {"idle"} /\ n_graph > 0
  <2>1. n_graph > 0
    BY <1>3 DEF Busy, SameCount
  <2>2. CASE t = 0
    BY <1>4, <2>1, <2>2 DEF Computing
  <2>3. CASE t # 0
    BY <1>1, <1>7, <2>1, <2>3 DEF Computing
  <2> QED BY <2>2, <2>3
<1>10. SameCount'
  BY <1>5, <1>9 DEF SameCount, Available, Computing
<1>11. Places'
  <2>1. ASSUME NEW w \in Workers
        PROVE  /\ pc'[w] \in Computing \cup Hunting \cup {"exited"}
               /\ pc'[w] \in Computing => w < n_threads_cur
               /\ pc'[w] # pc[w] => pc'[w] # "active"
    <3>1. CASE w = t
      BY <1>1, <1>4, <1>7, <3>1 DEF Computing, Hunting
    <3>2. CASE w # t
      BY <1>4, <1>7, <3>2 DEF Apart, Places
    <3> QED BY <3>1, <3>2
  <2> QED BY <1>5, <1>9, <2>1 DEF Places
<1>12. Together'
  <2>1. \A u \in Team : Seen(u)'
    BY <1>1, <1>5 DEF Seen
  <2> QED BY <1>1, <1>2, <1>5, <1>7, <2>1 DEF Together
<1>13. Locals'
  <2>1. Local(t)'
    <3>1. CASE ret[t] = "mul"
      BY <1>2, <1>3, <1>1, <1>4, <1>5, <3>1 DEF Local
    <3>2. CASE ret[t] = "next"
      BY <1>2, <1>3, <1>1, <1>4, <1>5, <3>2 DEF Local
    <3>3. CASE ret[t] = "leave"
      BY <1>1, <1>2, <1>4, <3>3 DEF Local
    <3> QED BY <1>1, <3>1, <3>2, <3>3
  <2>2. ASSUME NEW u \in Threads, u # t PROVE Local(u)'
    <3>1. Local(u) /\ Apart(u) /\ (Busy(u)' => Busy(u))
      BY <1>1, <1>4, <1>8, <2>2 DEF Locals
    <3> QED BY <1>5, <3>1 DEF Local, Apart
  <2> QED BY <2>1, <2>2 DEF Locals
<1>14. AtBarrier'
  <2>1. \A u \in Threads : pc'[u] \notin {"arrive", "reset", "release"} /\ ~Waiting(u)'
    <3>1. ASSUME NEW u \in Threads, u \notin Team
          PROVE  pc'[u] \notin {"arrive", "reset", "release"} /\ ~Waiting(u)'
      BY <1>8, <3>1 DEF Computing
    <3>2. ASSUME NEW u \in Team, u # t
          PROVE  pc'[u] \notin {"arrive", "reset", "release"} /\ ~Waiting(u)'
      BY <1>1, <3>2 DEF Released, Waiting
    <3>3. pc'[t] \notin {"arrive", "reset", "release"} /\ ~Waiting(t)'
      BY <1>4 DEF Waiting
    <3> QED BY <3>1, <3>2, <3>3
  <2>2. ASSUME NEW u \in Threads, pc'[u] = "spin" PROVE n_threads_cur > 1
    <3>1. u # t
      BY <1>4, <2>2
    <3> QED BY <1>4, <2>2, <3>1 DEF Apart, AtBarrier
  <2>3. ASSUME NEW u \in Threads PROVE n_passed'[u] <= n_barrier_passed'
    <3>1. n_passed[u] \in Nat /\ n_passed[u] <= n_barrier_passed
      BY DEF TypeOK, AtBarrier
    <3>2. n_barrier_passed' \in Nat /\ n_barrier_passed' >= n_barrier_passed
      BY DEF Opens
    <3>3. n_passed'[u] = n_passed[u] \/ n_passed'[u] = 0
      BY <1>4 DEF Apart
    <3> QED BY <1>3, <3>1, <3>2, <3>3
  <2>4. {u \in Threads : Waiting(u)}' = {}
    BY <2>1
  <2>5. n_barrier' = 0 /\ Cardinality({}) = 0
    BY FS_EmptySet DEF Opens
  <2> QED BY <1>5, <2>1, <2>2, <2>3, <2>4, <2>5 DEF AtBarrier
<1>15. abort \in {-1} \cup 1..NNodes /\ (abort # -1 => abort \in Nat)
  BY DEF TypeOK
<1>16. abort # -1 => Stage(t) = 2 * abort - 1 \/ Stage(t) = 2 * abort
  BY <1>3 DEF Aborting
<1>17. Aborting'
  <2>1. CASE ret[t] = "mul"
    BY <1>2, <1>3, <1>5, <1>15, <1>16, <2>1 DEF Aborting
  <2>2. CASE ret[t] = "next"
    BY <1>2, <1>3, <1>5, <1>7, <1>15, <1>16, <2>2 DEF Aborting
  <2>3. CASE ret[t] = "leave"
    BY <1>2, <1>5, <1>7, <2>3 DEF Aborting
  <2> QED BY <1>1, <2>1, <2>2, <2>3
<1>18. \A m \in Nodes, c \in Chunks :
         /\ c >= M \/ Stage(t) < 2 * m + 1 => work[m][c] = 0
         /\ c < M /\ Stage(t) > 2 * m + 1 => work[m][c] = 1
  BY <1>3 DEF NodesDone
<1>19. ASSUME ret[t] \in {"next", "leave"}, NEW m \in Nodes, Stage(t) = 2 * m + 1
       PROVE  \A c \in Chunks : c < M => work[m][c] = 1
  <2>1. \A u \in Team : ret[u] \in {"next", "leave"} /\ pc[u] # "mul"
    BY <1>1, <1>7, <1>19 DEF Locals, Local
  <2> QED BY <1>3, <1>19, <2>1, NodeComplete
<1>20. M \in Nat /\ \A c \in Chunks : c \in Nat
  BY ChunkNumbers
<1>21. NodesDone'
  <2>1. pc'[0] # "kick" /\ n_graph' # 0
    BY <1>5, <1>9 DEF Computing
  <2>2. CASE ret[t] = "mul"
    <3>1. Busy(0)' /\ Stage(0)' = 2 * n + 1
      BY <1>2, <1>7, <2>2
    <3>2. ASSUME NEW m \in Nodes, NEW c \in Chunks
          PROVE  /\ c >= M \/ 2 * n + 1 < 2 * m + 1 => work[m][c] = 0
                 /\ c < M /\ 2 * n + 1 > 2 * m + 1 => work[m][c] = 1
      BY <1>2, <1>3, <1>18, <2>2 DEF Nodes
    <3> QED BY <1>5, <2>1, <3>1, <3>2 DEF NodesDone
  <2>3. CASE ret[t] = "next"
    <3>1. Busy(0)' /\ Stage(0)' = 2 * n + 2
      BY <1>2, <1>7, <2>3
    <3>2. ASSUME NEW m \in Nodes, NEW c \in Chunks
          PROVE  /\ c >= M \/ 2 * n + 2 < 2 * m + 1 => work[m][c] = 0
                 /\ c < M /\ 2 * n + 2 > 2 * m + 1 => work[m][c] = 1
      BY <1>2, <1>3, <1>18, <1>19, <2>3 DEF Nodes
    <3> QED BY <1>5, <2>1, <3>1, <3>2 DEF NodesDone
  <2>4. CASE ret[t] = "leave"
    <3>1. ~Busy(0)'
      BY <1>2, <1>7, <2>4
    <3>2. ASSUME NEW m \in Nodes, NEW c \in Chunks
          PROVE  work[m][c] = IF c < M /\ (abort = -1 \/ m < abort) THEN 1 ELSE 0
      <4>1. m \in Nat /\ m <= NNodes - 1 /\ c \in Nat
        BY <1>20 DEF Nodes
      <4>2. CASE n = NNodes
        <5>1. Stage(t) = 2 * NNodes - 1 /\ (abort # -1 => abort = NNodes)
          BY <1>2, <1>15, <1>16, <2>4, <4>2
        <5>2. c < M => work[m][c] = 1
          BY <1>18, <1>19, <2>4, <4>1, <5>1
        <5>3. c >= M => work[m][c] = 0
          BY <1>18
        <5> QED BY <1>20, <4>1, <5>1, <5>2, <5>3
      <4>3. CASE n # NNodes
        <5>1. Stage(t) = 2 * n /\ abort = n
          BY <1>2, <2>4, <4>3
        <5> QED BY <1>3, <1>18, <1>20, <4>1, <5>1
      <4> QED BY <4>2, <4>3
    <3> QED BY <1>5, <2>1, <3>1, <3>2 DEF NodesDone
  <2> QED BY <1>1, <2>2, <2>3, <2>4
<1>22. ChunksHeld'
  <2>1. ~(ret'[0] = "mul" /\ ~Released(0)')
    BY <1>1, <1>4, <1>7
  <2>2. CASE ret[t] = "mul"
    <3>1. n \in Nodes /\ Stage(0)' = 2 * n + 1 /\ \A m \in Nodes : 2 * n + 1 = 2 * m + 1 => m = n
      BY <1>2, <1>3, <1>7, <2>2 DEF Nodes
    <3>2. current_chunk = n_threads_cur
      BY <1>1, <1>7, <2>2 DEF ChunksHeld
    <3>3. \A u \in Team : chunk'[u] = u /\ Claims(u)' /\ ~Past(u)'
      <4>1. \A u \in Team : chunk[u] = u
        BY <1>1, <1>7, <2>2 DEF Locals, Local
      <4>2. chunk' = chunk
        BY <1>4, <2>2
      <4>3. Claims(t)' /\ ~Past(t)'
        BY <1>4, <2>2 DEF Claims, Past
      <4>4. \A u \in Team : u # t => Claims(u)' /\ ~Past(u)'
        BY <1>1, <2>2 DEF Apart, Claims, Past
      <4> QED BY <4>1, <4>2, <4>3, <4>4
    <3>4. \A c \in Chunks : work[n][c] = 0
      BY <1>2, <1>3, <1>18, <2>2, <3>1
    <3>5. M >= n_threads_cur /\ \A c \in Nat : c < M => c \in Chunks
      BY ChunkNumbers
    <3>6. AtHand(n)'
      <4>1. \A c \in Chunks : c < n_threads_cur => c \in Team
        BY <1>7, <1>20 DEF Team
      <4>2. \A u \in Team : u < n_threads_cur /\ u < M /\ u \in Chunks
        BY <1>7, <1>20, <3>5
      <4>3. node_n'[t] = n
        BY <1>4, <2>2
      <4> QED BY <1>5, <1>7, <1>20, <3>2, <3>3, <3>4, <4>1, <4>2, <4>3 DEF AtHand
    <3>7. node_n'[t] = n
      BY <1>4, <2>2
    <3> QED BY <2>1, <3>1, <3>6, <3>7 DEF ChunksHeld
  <2>3. CASE ret[t] = "next"
    <3>1. \A m \in Nodes : Stage(0)' # 2 * m + 1
      BY <1>2, <1>3, <1>7, <2>3 DEF Nodes
    <3> QED BY <2>1, <3>1 DEF ChunksHeld
  <2>4. CASE ret[t] = "leave"
    BY <1>2, <1>7, <2>1, <2>4 DEF ChunksHeld
  <2> QED BY <1>1, <2>2, <2>3, <2>4
<1> QED BY <1>6, <1>10, <1>11, <1>12, <1>13, <1>14, <1>17, <1>21, <1>22

LEMMA ReleaseStep == ASSUME PoolInv, NEW t \in Threads, Release(t) PROVE PoolInv'
<1> USE DEF PoolInv
<1>1. pc[t] = "release" /\ n_barrier_passed \in Nat /\ n_barrier_passed' = n_barrier_passed + 1
  BY DEF Release, TypeOK
<1>2. \A u \in Team \ {t} : Waiting(u)
  BY <1>1 DEF AtBarrier
<1>3. n_barrier = 0
  BY <1>1 DEF AtBarrier
<1>4. Opens(t)
  BY <1>1, <1>2, <1>3 DEF Opens, Release, Waiting
<1> QED BY <1>4, OpensKeeps

\* With one thread there is nobody to wait for.
LEMMA EnterAloneStep ==
    ASSUME PoolInv, NEW t \in Threads, Enter(t), n_threads_cur = 1
    PROVE  PoolInv'
<1> USE DEF PoolInv
<1>1. pc[t] = "enter" /\ t \in Team /\ ~Waiting(t) /\ n_barrier_passed \in Nat
  BY AtBarrierFacts DEF Enter
<1>2. \A u \in Team : u = t
  BY <1>1 DEF Team
<1>3. \A u \in Threads : ~Waiting(u)
  BY <1>1, <1>2, Outsiders
<1>4. n_barrier = 0
  <2>1. \A u \in Threads : pc[u] \notin {"reset", "release"}
    BY <1>1, NotTheLast
  <2>2. {u \in Threads : Waiting(u)} = {}
    BY <1>3
  <2> QED BY <2>1, <2>2, FS_EmptySet DEF AtBarrier
<1>5. Opens(t)
  BY <1>1, <1>2, <1>4 DEF Opens, Enter
<1> QED BY <1>5, OpensKeeps

\* A thread notices that the barrier has opened.
LEMMA SpinStep ==
    ASSUME PoolInv, NEW t \in Threads, Spin(t), ret[t] # "leave"
    PROVE  PoolInv'
<1> USE DEF PoolInv
<1>1. Busy(t) /\ pc[t] = "spin" /\ Released(t) /\ ~Waiting(t)
  BY DEF Spin, Busy, Out, Released, Waiting, Computing
<1>2. /\ t \in Team /\ Busy(0) /\ Stage(t) = Stage(0) /\ Local(t)
      /\ node_n[t] \in Nat /\ n_barrier_passed \in Nat
  BY <1>1, StepFacts
<1>3. /\ ret'[t] = "none" /\ n_passed'[t] = 0 /\ nth' = nth /\ chunk' = chunk
      /\ \/ ret[t] = "mul" /\ pc'[t] = "mul" /\ node_n'[t] = node_n[t]
         \/ ret[t] = "next" /\ pc'[t] = "test" /\ node_n'[t] = node_n[t] + 1
      /\ \A u \in Threads \ {t} : Apart(u)
  BY ReturnFacts DEF Spin
<1>4. UNCHANGED <<counts, n_graph, n_threads_cur, last_graph, new_graph, current_chunk,
                  n_barrier, n_barrier_passed, abort, ec, wdata, work>>
  BY DEF Spin, signals, search
<1>5. TypeOK'
  BY <1>2, ReturnTypes DEF TypeOK, Spin, signals, search
<1>6. \A u \in Threads \ {t} : Same(u)
  BY <1>3, <1>4 DEF Same, Apart
<1>7. Stage(t)' = Stage(t) /\ Busy(t)'
  <2>1. CASE ret[t] = "mul"
    BY <1>1, <1>3, <2>1 DEF Stage, Busy, Out, Released, Computing
  <2>2. CASE ret[t] = "next"
    <3>1. node_n[t] + 1 < NNodes
      BY <1>2, <2>2 DEF Local
    <3> QED BY <1>1, <1>2, <1>3, <2>2, <3>1 DEF Stage, Busy, Out, Released, Computing
  <2> QED BY <1>3, <2>1, <2>2
<1>8. InStage(t)
  BY <1>1, <1>3, <1>4, <1>6, <1>7 DEF InStage, Computing
<1>9. /\ SameCount' /\ Places' /\ Together'
      /\ \A u \in Threads : Busy(u)' <=> Busy(u)
      /\ \A u \in Threads : Busy(u) => Stage(u)' = Stage(u)
  BY <1>8, InStageKeeps
<1>10. AtBarrier'
  BY <1>1, <1>2, <1>3, <1>4, <1>6, BarrierKept DEF Apart
<1>11. Locals'
  <2>1. Local(t)'
    BY <1>1, <1>2, <1>3, <1>4 DEF Local
  <2> QED BY <1>3, <1>4, <1>6, <2>1, LocalKept DEF Locals
<1>12. Aborting' /\ NodesDone'
  BY <1>4, <1>8, <1>9, ProgressKept
<1>13. ChunksHeld'
  <2>1. ASSUME NEW n \in Nodes, Stage(t) = 2 * n + 1
        PROVE  (Claims(t)' <=> Claims(t)) /\ (Past(t)' => Past(t))
    <3>1. ret[t] = "mul"
      BY <1>1, <1>2, <1>3, <2>1 DEF Stage, Nodes
    <3> QED BY <1>3, <3>1 DEF Claims, Past
  <2>2. ret'[t] # "mul"
    BY <1>3
  <2> QED BY <1>2, <1>3, <1>4, <1>8, <1>9, <2>1, <2>2, ChunksKept
<1> QED BY <1>5, <1>9, <1>10, <1>11, <1>12, <1>13

-----------------------------------------------------------------------------
(* Outside a graph.                                                        *)

\* A step of threads that have nothing to do in a graph, before and after.
Aside(u) ==
    \/ Same(u) /\ Apart(u)
    \/ /\ ~Busy(u) /\ pc'[u] \notin Computing /\ ret'[u] = "none"
       /\ n_passed'[u] <= n_barrier_passed

LEMMA AsideKeeps ==
    ASSUME PoolInv, TypeOK', SameCount', Places', \A u \in Threads : Aside(u),
           \A u \in Team : Seen(u)' <=> Seen(u), pc'[0] = "kick" <=> pc[0] = "kick",
           UNCHANGED <<n_graph, n_threads_cur, n_barrier, n_barrier_passed,
                       current_chunk, abort, ec, wdata, work>>
    PROVE  PoolInv'
<1> USE DEF PoolInv
<1>1. ASSUME NEW u \in Threads
      PROVE  /\ Busy(u)' <=> Busy(u)
             /\ Busy(u) => Same(u) /\ Apart(u) /\ Stage(u)' = Stage(u)
             /\ Waiting(u)' <=> Waiting(u)
  <2>1. CASE Same(u) /\ Apart(u)
    BY <2>1, SameView
  <2>2. CASE ~Busy(u) /\ pc'[u] \notin Computing
    BY <2>2 DEF Busy, Waiting, Out, Released, Computing
  <2> QED BY <2>1, <2>2 DEF Aside
<1>2. /\ 0 \in Team /\ 0 \in Threads /\ Team \subseteq Threads
      /\ \A w \in Workers : w \in Threads /\ (w < n_threads_cur => w \in Team)
  BY ThreadSets
<1>3. Team' = Team /\ M' = M
  BY DEF Team, M, ChunksFor
<1>4. Together'
  BY <1>1, <1>2 DEF Together
<1>5. Locals'
  <2>1. ASSUME NEW u \in Threads PROVE Local(u)'
    <3>1. Local(u)
      BY DEF Locals
    <3>2. CASE Same(u) /\ Apart(u)
      BY <3>1, <3>2, LocalKept DEF Apart
    <3>3. CASE pc'[u] \notin Computing /\ ret'[u] = "none"
      BY <3>3 DEF Local, Busy, Computing
    <3> QED BY <3>2, <3>3 DEF Aside
  <2> QED BY <2>1 DEF Locals
<1>6. AtBarrier'
  <2>1. \A u \in Threads : pc'[u] \in {"arrive", "reset", "release", "spin"} => Same(u) /\ Apart(u)
    BY DEF Aside, Computing
  <2>2. \A u \in Threads : pc[u] \in {"reset", "release"} => pc'[u] = pc[u]
    BY <1>1 DEF Busy, Out, Released, Computing, Same
  <2>3. {u \in Threads : Waiting(u)}' = {u \in Threads : Waiting(u)}
    BY <1>1
  <2>4. \A u \in Threads : n_passed'[u] <= n_barrier_passed
    BY DEF Aside, Same, AtBarrier
  <2>5. ASSUME NEW u \in Threads
        PROVE  /\ pc'[u] \in {"arrive", "reset", "release", "spin"} => n_threads_cur > 1
               /\ pc'[u] = "arrive" => n_threads'[u] = n_threads_cur
               /\ pc'[u] \in {"arrive", "reset", "release"} => n_passed'[u] = n_barrier_passed
               /\ pc'[u] \in {"reset", "release"} => \A v \in Team \ {u} : Waiting(v)'
    BY <1>1, <1>2, <2>1 DEF AtBarrier, Same, Apart
  <2>6. /\ (\E u \in Threads : pc'[u] = "release") <=> (\E u \in Threads : pc[u] = "release")
        /\ (\E u \in Threads : pc'[u] = "reset") <=> (\E u \in Threads : pc[u] = "reset")
    BY <2>1, <2>2 DEF Same
  <2>7. n_barrier' = (IF \E u \in Threads : pc[u] = "release" THEN 0
                      ELSE IF \E u \in Threads : pc[u] = "reset" THEN n_threads_cur
                      ELSE Cardinality({u \in Threads : Waiting(u)}))'
    BY <2>3, <2>6 DEF AtBarrier
  <2> QED BY <1>3, <2>4, <2>5, <2>7 DEF AtBarrier
<1>7. Aborting'
  BY <1>1, <1>2 DEF Aborting
<1>8. NodesDone'
  BY <1>1, <1>2, <1>3 DEF NodesDone
<1>9. ChunksHeld'
  <2>1. ret'[0] = "mul" /\ ~Released(0)' => current_chunk = n_threads_cur
    <3>1. CASE Same(0) /\ Apart(0)
      BY <3>1, SameView DEF Same, ChunksHeld
    <3>2. CASE ret'[0] = "none"
      BY <3>2
    <3> QED BY <1>2, <3>1, <3>2 DEF Aside
  <2>2. ASSUME NEW n \in Nodes, Busy(0)', Stage(0)' = 2 * n + 1
        PROVE  AtHand(n)'
    <3>1. AtHand(n) /\ Busy(0) /\ Stage(0) = 2 * n + 1
      BY <1>1, <1>2, <2>2 DEF ChunksHeld
    <3>2. \A u \in Team : Busy(u)
      <4>1. Stage(0) # 0
        BY <3>1 DEF Nodes
      <4> QED BY <3>1, <4>1, ThreadSets DEF Together
    <3>3. \A u \in Team : /\ (Claims(u)' <=> Claims(u)) /\ (Past(u)' <=> Past(u))
                          /\ chunk'[u] = chunk[u]
      BY <1>1, <1>2, <3>2, SameView DEF Apart
    <3> QED BY <1>3, <3>1, <3>3 DEF AtHand
  <2> QED BY <2>1, <2>2 DEF ChunksHeld
<1> QED BY <1>4, <1>5, <1>6, <1>7, <1>8, <1>9

\* The last barrier has opened: the thread is out of the graph.
LEMMA SpinOutStep ==
    ASSUME PoolInv, NEW t \in Threads, Spin(t), ret[t] = "leave"
    PROVE  PoolInv'
<1> USE DEF PoolInv
<1>1. ~Busy(t) /\ pc[t] \in Computing /\ Local(t)
  BY DEF Spin, Busy, Out, Released, Computing, Locals
<1>2. /\ ret'[t] = "none" /\ n_passed'[t] = 0 /\ pc'[t] = IF t = 0 THEN "idle" ELSE "top"
      /\ \A u \in Threads \ {t} : Apart(u)
  BY ReturnFacts DEF Spin
<1>3. UNCHANGED <<counts, n_graph, n_threads_cur, last_graph, new_graph, current_chunk,
                  n_barrier, n_barrier_passed, abort, ec, wdata, work>>
  BY DEF Spin, signals, search
<1>4. TypeOK'
  BY <1>1, ReturnTypes DEF TypeOK, Spin, signals, search
<1>5. n_barrier_passed \in Nat
  BY DEF TypeOK
<1>6. \A u \in Threads : Aside(u)
  <2>1. Aside(t)
    BY <1>1, <1>2, <1>5 DEF Aside, Computing
  <2> QED BY <1>2, <1>3, <2>1 DEF Aside, Apart, Same
<1>7. 0 \in Threads /\ \A w \in Workers : w \in Threads /\ w # 0
  BY ThreadSets
<1>8. pc'[0] = pc[0] \/ (pc[0] \in Computing /\ pc'[0] = "idle")
  <2>1. CASE t = 0
    BY <1>1, <1>2, <2>1
  <2>2. CASE t # 0
    BY <1>2, <1>7, <2>2 DEF Apart
  <2> QED BY <2>1, <2>2
<1>9. SameCount'
  BY <1>3, <1>8 DEF SameCount, Available, Computing
<1>10. Places'
  <2>1. \A w \in Workers : pc'[w] = pc[w] \/ pc'[w] = "top"
    BY <1>2, <1>7 DEF Apart
  <2> QED BY <1>3, <1>8, <2>1 DEF Places, Computing, Hunting
<1>11. \A u \in Team : Seen(u)' <=> Seen(u)
  BY <1>3 DEF Seen
<1>12. pc'[0] = "kick" <=> pc[0] = "kick"
  BY <1>8 DEF Computing
<1> QED BY <1>3, <1>4, <1>6, <1>9, <1>10, <1>11, <1>12, AsideKeeps

-----------------------------------------------------------------------------
(* A worker looking for work.                                              *)

LEMMA HuntKeeps ==
    ASSUME PoolInv, TypeOK', NEW w \in Workers,
           pc[w] \in Hunting, pc'[w] \in Hunting \cup {"exited"},
           \A u \in Threads \ {w} : /\ pc'[u] = pc[u] /\ last_graph'[u] = last_graph[u]
                                    /\ new_graph'[u] = new_graph[u],
           last_graph'[w] <= n_graph, new_graph'[w] <= n_graph,
           pc'[w] = "active" => /\ n_graph > 0 /\ new_graph'[w] = n_graph
                                /\ last_graph'[w] # n_graph,
           w < n_threads_cur => (last_graph'[w] = n_graph <=> last_graph[w] = n_graph),
           UNCHANGED <<counts, signals, barrier, compute, ret>>
    PROVE  PoolInv'
<1> USE DEF PoolInv
<1>1. w \in Threads /\ w # 0 /\ 0 \in Threads /\ \A v \in Workers : v \in Threads
  BY ThreadSets
<1>2. UNCHANGED <<counts, n_graph, n_threads_cur, n_barrier, n_barrier_passed, n_passed,
                  n_threads, current_chunk, abort, ec, wdata, work, nth, node_n, chunk>>
  BY DEF signals, barrier, compute
<1>3. pc'[w] \notin Computing /\ pc[w] \notin Computing /\ ret[w] = "none"
  BY <1>1 DEF Hunting, Polling, Asleep, Computing, Locals, Local
<1>4. pc'[0] = pc[0]
  BY <1>1
<1>5. \A u \in Threads : Aside(u)
  <2>1. ASSUME NEW u \in Threads, u # w PROVE Aside(u)
    BY <1>2, <2>1 DEF Aside, Same, Apart
  <2>2. Aside(w)
    BY <1>1, <1>2, <1>3 DEF Aside, Busy, AtBarrier
  <2> QED BY <2>1, <2>2
<1>6. SameCount'
  BY <1>2, <1>4 DEF SameCount, Available
<1>7. Places'
  <2>1. ASSUME NEW v \in Workers
        PROVE  /\ pc'[v] \in Computing \cup Hunting \cup {"exited"}
               /\ pc'[v] \in Computing => v < n_threads_cur /\ n_graph > 0
               /\ last_graph'[v] <= n_graph /\ new_graph'[v] <= n_graph
               /\ pc'[v] = "active" => n_graph > 0
               /\ pc'[v] = "active" /\ v < n_threads_cur =>
                    new_graph'[v] = n_graph /\ last_graph'[v] # n_graph
    <3>1. CASE v = w
      BY <1>3, <3>1
    <3>2. CASE v # w
      BY <1>1, <3>2 DEF Places
    <3> QED BY <3>1, <3>2
  <2> QED BY <1>2, <1>4, <2>1 DEF Places
<1>8. \A u \in Team : Seen(u)' <=> Seen(u)
  BY <1>2, ThreadSets DEF Seen
<1> QED BY <1>2, <1>4, <1>5, <1>6, <1>7, <1>8, AsideKeeps

LEMMA TopStep == ASSUME PoolInv, NEW w \in Workers, Top(w) PROVE PoolInv'
<1> USE DEF PoolInv
<1>1. w \in Threads
  BY ThreadSets
<1>2. TypeOK'
  BY <1>1 DEF Top, Goto, TypeOK, signals, barrier, search, compute, Hunting
<1>3. /\ pc[w] \in Hunting /\ pc'[w] \in Hunting \cup {"exited"} /\ pc'[w] # "active"
      /\ \A u \in Threads \ {w} : pc'[u] = pc[u]
      /\ UNCHANGED <<last_graph, new_graph>>
  BY <1>1 DEF Top, Goto, TypeOK, Hunting, search
<1>4. last_graph[w] <= n_graph /\ new_graph[w] <= n_graph
  BY DEF Places
<1> QED BY <1>2, <1>3, <1>4, HuntKeeps DEF Top

LEMMA PauseWaitStep == ASSUME PoolInv, NEW w \in Workers, PauseWait(w) PROVE PoolInv'
<1> USE DEF PoolInv
<1>1. w \in Threads
  BY ThreadSets
<1>2. TypeOK'
  BY <1>1 DEF PauseWait, Goto, TypeOK, signals, barrier, search, compute, Hunting, Asleep
<1>3. /\ pc[w] \in Hunting /\ pc'[w] \in Hunting \cup {"exited"} /\ pc'[w] # "active"
      /\ \A u \in Threads \ {w} : pc'[u] = pc[u]
      /\ UNCHANGED <<last_graph, new_graph>>
  BY <1>1 DEF PauseWait, Goto, TypeOK, Hunting, Asleep, search
<1>4. last_graph[w] <= n_graph /\ new_graph[w] <= n_graph
  BY DEF Places
<1> QED BY <1>2, <1>3, <1>4, HuntKeeps DEF PauseWait

LEMMA PollStep == ASSUME PoolInv, NEW w \in Workers, Poll(w) PROVE PoolInv'
<1> USE DEF PoolInv
<1>1. w \in Threads
  BY ThreadSets
<1>2. TypeOK'
  BY <1>1 DEF Poll, Goto, TypeOK, signals, barrier, search, compute, Hunting, Polling
<1>3. /\ pc[w] \in Hunting /\ pc'[w] \in Hunting \cup {"exited"} /\ pc'[w] # "active"
      /\ \A u \in Threads \ {w} : pc'[u] = pc[u]
      /\ UNCHANGED <<last_graph, new_graph>>
  BY <1>1 DEF Poll, Goto, TypeOK, Hunting, Polling, search
<1>4. last_graph[w] <= n_graph /\ new_graph[w] <= n_graph
  BY DEF Places
<1> QED BY <1>2, <1>3, <1>4, HuntKeeps DEF Poll

LEMMA LoadGraphStep == ASSUME PoolInv, NEW w \in Workers, LoadGraph(w) PROVE PoolInv'
<1> USE DEF PoolInv
<1>1. w \in Threads /\ n_graph \in Nat /\ last_graph[w] \in Nat
  BY ThreadSets DEF TypeOK
<1>2. last_graph[w] <= n_graph /\ new_graph[w] <= n_graph
  BY DEF Places
<1>3. /\ pc[w] \in Hunting /\ pc'[w] \in {"wlock", "active"}
      /\ pc'[w] = "active" => new_graph'[w] = n_graph /\ n_graph # last_graph[w]
      /\ new_graph'[w] = n_graph \/ new_graph'[w] = new_graph[w]
      /\ \A u \in Threads \ {w} : pc'[u] = pc[u] /\ new_graph'[u] = new_graph[u]
  BY <1>1 DEF LoadGraph, Goto, TypeOK, Hunting, Polling
<1>4. TypeOK'
  BY <1>1 DEF LoadGraph, Goto, TypeOK, signals, barrier, compute, Hunting, Polling
<1>5. last_graph' = last_graph /\ UNCHANGED <<counts, signals, barrier, compute, ret>>
  BY DEF LoadGraph
<1>6. pc'[w] \in Hunting
  BY <1>3 DEF Hunting, Polling
<1>7. new_graph'[w] <= n_graph
  BY <1>1, <1>2, <1>3
<1>8. pc'[w] = "active" => n_graph > 0
  BY <1>1, <1>2, <1>3
<1> QED BY <1>2, <1>3, <1>4, <1>5, <1>6, <1>7, <1>8, HuntKeeps

\* A worker of the graph that has not heard of it yet joins in the first stage.
LEMMA JoinKeeps ==
    ASSUME PoolInv, TypeOK', NEW w \in Workers, w < n_threads_cur, ~Seen(w),
           pc[w] \in Hunting, pc'[w] = "begin", last_graph'[w] = n_graph,
           new_graph'[w] <= n_graph,
           \A u \in Threads \ {w} : /\ pc'[u] = pc[u] /\ last_graph'[u] = last_graph[u]
                                    /\ new_graph'[u] = new_graph[u],
           UNCHANGED <<counts, signals, barrier, compute, ret>>
    PROVE  PoolInv'
<1> USE DEF PoolInv
<1>1. /\ w \in Threads /\ w # 0 /\ 0 \in Threads /\ w \in Team
      /\ \A v \in Workers : v \in Threads /\ v # 0
  BY ThreadSets
<1>2. UNCHANGED <<counts, n_graph, n_threads_cur, n_barrier, n_barrier_passed, n_passed,
                  n_threads, current_chunk, abort, ec, wdata, work, nth, node_n, chunk>>
  BY DEF signals, barrier, compute
<1>3. Busy(0) /\ ~Busy(w) /\ Stage(0) = 0 /\ n_graph > 0
  BY <1>1 DEF Together, SameCount, Busy
<1>4. pc[w] \notin Computing /\ ret[w] = "none"
  BY <1>1 DEF Hunting, Polling, Asleep, Computing, Locals, Local
<1>5. Busy(w)' /\ Stage(w)' = 0 /\ Seen(w)'
  BY <1>2 DEF Busy, Out, Released, Computing, Stage, Seen
<1>6. ASSUME NEW u \in Threads, u # w
      PROVE  /\ Same(u) /\ (Busy(u)' <=> Busy(u)) /\ Stage(u)' = Stage(u)
             /\ (Seen(u)' <=> Seen(u)) /\ (Waiting(u)' <=> Waiting(u))
  <2>1. Same(u)
    BY <1>2, <1>6 DEF Same
  <2> QED BY <1>2, <1>6, <2>1, SameView DEF Seen
<1>7. pc'[0] = pc[0] /\ (Busy(0)' <=> Busy(0)) /\ Stage(0)' = Stage(0)
  BY <1>1, <1>6
<1>8. SameCount'
  BY <1>2, <1>7 DEF SameCount, Available
<1>9. Places'
  <2>1. ASSUME NEW v \in Workers
        PROVE  /\ pc'[v] \in Computing \cup Hunting \cup {"exited"}
               /\ pc'[v] \in Computing => v < n_threads_cur /\ n_graph > 0
               /\ last_graph'[v] <= n_graph /\ new_graph'[v] <= n_graph
               /\ pc'[v] = "active" => n_graph > 0
               /\ pc'[v] = "active" /\ v < n_threads_cur =>
                    new_graph'[v] = n_graph /\ last_graph'[v] # n_graph
    <3>1. CASE v = w
      BY <1>3, <3>1 DEF TypeOK, Computing
    <3>2. CASE v # w
      BY <1>1, <3>2 DEF Places
    <3> QED BY <3>1, <3>2
  <2> QED BY <1>2, <1>7, <2>1 DEF Places
<1>10. Together'
  BY <1>1, <1>2, <1>3, <1>5, <1>6, <1>7 DEF Together
<1>11. Locals'
  <2>1. Local(w)'
    BY <1>2, <1>4 DEF Local
  <2> QED BY <1>2, <1>6, <2>1, LocalKept DEF Locals
<1>12. AtBarrier'
  <2>1. ~Waiting(w) /\ pc[w] \notin {"reset", "release"}
    BY <1>4 DEF Waiting, Computing
  <2>2. n_passed[w] <= n_barrier_passed
    BY <1>1 DEF AtBarrier
  <2> QED BY <1>1, <1>2, <1>6, <2>1, <2>2, BarrierKept
<1>13. Aborting'
  BY <1>2, <1>7 DEF Aborting
<1>14. NodesDone'
  BY <1>2, <1>7 DEF NodesDone, M, ChunksFor
<1>15. ChunksHeld'
  <2>1. \A n \in Nodes : Stage(0)' # 2 * n + 1
    BY <1>3, <1>7 DEF Nodes
  <2>2. Released(0)' <=> Released(0)
    BY <1>1, <1>6, SameView
  <2> QED BY <1>2, <2>1, <2>2 DEF ChunksHeld
<1> QED BY <1>8, <1>9, <1>10, <1>11, <1>12, <1>13, <1>14, <1>15

LEMMA LoadActiveStep == ASSUME PoolInv, NEW w \in Workers, LoadActive(w) PROVE PoolInv'
<1> USE DEF PoolInv
<1>1. /\ w \in Threads /\ w # 0 /\ n_graph \in Nat /\ new_graph[w] <= n_graph
      /\ pc[w] = "active" /\ pc[w] \in Hunting
  BY ThreadSets DEF TypeOK, Places, LoadActive, Hunting, Polling
<1>2. /\ last_graph'[w] = new_graph[w] /\ new_graph'[w] = 0
      /\ \/ w < n_threads_cur /\ pc'[w] = "begin"
         \/ ~(w < n_threads_cur) /\ pc'[w] \in {"load", "wlock"}
      /\ \A u \in Threads \ {w} : /\ pc'[u] = pc[u] /\ last_graph'[u] = last_graph[u]
                                  /\ new_graph'[u] = new_graph[u]
      /\ UNCHANGED <<counts, signals, barrier, compute, ret>>
  BY <1>1 DEF LoadActive, Goto, TypeOK, Active
<1>3. TypeOK'
  <2>1. last_graph' \in [Threads -> 0..MaxGraphs] /\ new_graph' \in [Threads -> 0..MaxGraphs]
    BY <1>1 DEF LoadActive, TypeOK
  <2>2. pc' \in [Threads -> Computing \cup Hunting \cup
                            {"exited", "idle", "kick", "join", "freed"}]
    BY <1>1 DEF LoadActive, Goto, TypeOK, Hunting, Polling, Computing
  <2> QED BY <2>1, <2>2 DEF LoadActive, TypeOK, signals, barrier, compute
<1>4. CASE w < n_threads_cur
  <2>1. new_graph[w] = n_graph /\ ~Seen(w)
    BY <1>1, <1>4 DEF Places, Seen
  <2> QED BY <1>1, <1>2, <1>3, <1>4, <2>1, JoinKeeps
<1>5. CASE ~(w < n_threads_cur)
  <2>1. pc'[w] \in Hunting /\ pc'[w] # "active"
    BY <1>2, <1>5 DEF Hunting, Polling
  <2> QED BY <1>1, <1>2, <1>3, <1>5, <2>1, HuntKeeps
<1> QED BY <1>4, <1>5

LEMMA WorkWaitStep == ASSUME PoolInv, NEW w \in Workers, WorkWait(w) PROVE PoolInv'
<1> USE DEF PoolInv
<1>1. /\ w \in Threads /\ w # 0 /\ n_graph \in Nat /\ new_graph[w] <= n_graph
      /\ last_graph[w] <= n_graph /\ pc[w] \in Hunting
  BY ThreadSets DEF TypeOK, Places, WorkWait, Hunting
<1>2. /\ \/ pc'[w] = "top" /\ last_graph'[w] = last_graph[w]
         \/ /\ last_graph'[w] = n_graph /\ pc'[w] = "begin"
            /\ n_graph # last_graph[w] /\ w < n_threads_cur
         \/ /\ last_graph'[w] = n_graph /\ pc'[w] = "wsleep"
            /\ ~(n_graph # last_graph[w] /\ w < n_threads_cur)
      /\ \A u \in Threads \ {w} : pc'[u] = pc[u] /\ last_graph'[u] = last_graph[u]
  <2>1. CASE stop \/ pause
    BY <1>1, <2>1 DEF WorkWait, Goto, TypeOK
  <2>2. CASE ~(stop \/ pause)
    BY <1>1, <2>2 DEF WorkWait, Goto, TypeOK, Active
  <2> QED BY <2>1, <2>2
<1>3. new_graph' = new_graph /\ UNCHANGED <<counts, signals, barrier, compute, ret>>
  BY DEF WorkWait
<1>4. TypeOK'
  <2>1. last_graph' \in [Threads -> 0..MaxGraphs]
    BY <1>1 DEF WorkWait, TypeOK
  <2>2. pc' \in [Threads -> Computing \cup Hunting \cup
                            {"exited", "idle", "kick", "join", "freed"}]
    BY <1>1 DEF WorkWait, Goto, TypeOK, Hunting, Asleep, Computing
  <2> QED BY <2>1, <2>2 DEF WorkWait, TypeOK, signals, barrier, compute
<1>5. CASE pc'[w] = "begin"
  <2>1. ~Seen(w) /\ w < n_threads_cur /\ last_graph'[w] = n_graph
    BY <1>1, <1>2, <1>5 DEF Seen
  <2> QED BY <1>1, <1>2, <1>3, <1>4, <1>5, <2>1, JoinKeeps
<1>6. CASE pc'[w] # "begin"
  <2>1. pc'[w] \in Hunting /\ pc'[w] # "active"
    BY <1>2, <1>6 DEF Hunting, Asleep
  <2>2. /\ last_graph'[w] <= n_graph
        /\ w < n_threads_cur => (last_graph'[w] = n_graph <=> last_graph[w] = n_graph)
    BY <1>1, <1>2, <1>6
  <2> QED BY <1>1, <1>2, <1>3, <1>4, <2>1, <2>2, HuntKeeps
<1> QED BY <1>5, <1>6

-----------------------------------------------------------------------------
(* Thread 0 outside a graph.                                               *)

LEMMA Woken ==
    ASSUME TypeOK
    PROVE  /\ Broadcast(pc) \in [Threads -> Computing \cup Hunting \cup
                                            {"exited", "idle", "kick", "join", "freed"}]
           /\ \A u \in Threads :
                \/ Broadcast(pc)[u] = pc[u]
                \/ pc[u] \in Asleep /\ Broadcast(pc)[u] \in {"top", "wlock"}
<1>1. \A u \in Threads :
        \/ Broadcast(pc)[u] = pc[u]
        \/ pc[u] \in Asleep /\ Broadcast(pc)[u] \in {"top", "wlock"}
  BY DEF Broadcast, Asleep
<1>2. \A u \in Threads : Broadcast(pc)[u] \in Computing \cup Hunting \cup
                                              {"exited", "idle", "kick", "join", "freed"}
  BY <1>1 DEF TypeOK, Hunting
<1> QED BY <1>1, <1>2 DEF Broadcast

\* It stays outside and may wake the workers.
LEMMA CallerKeeps ==
    ASSUME PoolInv, TypeOK', pc[0] \in {"idle", "join"}, pc'[0] \in {"idle", "join", "freed"},
           \A w \in Workers : \/ pc'[w] = pc[w]
                              \/ pc[w] \in Asleep /\ pc'[w] \in {"top", "wlock"},
           UNCHANGED <<counts, n_graph, n_threads_cur, barrier, search, compute, ret>>
    PROVE  PoolInv'
<1> USE DEF PoolInv
<1>1. 0 \in Threads /\ Threads = Workers \cup {0}
  BY ThreadSets
<1>2. UNCHANGED <<n_barrier, n_barrier_passed, n_passed, n_threads, last_graph, new_graph,
                  current_chunk, abort, ec, wdata, work, nth, node_n, chunk>>
  BY DEF barrier, search, compute
<1>3. ASSUME NEW u \in Threads PROVE Aside(u)
  <2>1. CASE pc'[u] = pc[u]
    BY <1>2, <2>1 DEF Aside, Same, Apart
  <2>2. CASE /\ pc[u] \in Asleep \cup {"idle", "join"}
             /\ pc'[u] \in {"top", "wlock", "idle", "join", "freed"}
    <3>1. ret[u] = "none" /\ n_passed[u] <= n_barrier_passed
      BY <2>2 DEF Asleep, Locals, Local, AtBarrier
    <3> QED BY <1>2, <2>2, <3>1 DEF Aside, Asleep, Busy, Computing
  <2> QED BY <1>1, <2>1, <2>2
<1>4. SameCount'
  BY DEF SameCount, Computing, Available
<1>5. Places'
  <2>1. \A w \in Workers : pc'[w] = pc[w] \/ pc'[w] \in {"top", "wlock"}
    OBVIOUS
  <2> QED BY <1>2, <2>1 DEF Places, Computing, Hunting
<1>6. \A u \in Team : Seen(u)' <=> Seen(u)
  BY <1>2 DEF Seen
<1> QED BY <1>2, <1>3, <1>4, <1>5, <1>6, AsideKeeps

LEMMA SetPauseStep == ASSUME PoolInv, NEW p \in BOOLEAN, SetPause(p) PROVE PoolInv'
<1> USE DEF PoolInv
<1>1. 0 \in Threads /\ \A w \in Workers : w \in Threads
  BY ThreadSets
<1>2. TypeOK'
  BY Woken DEF SetPause, TypeOK, barrier, search, compute
<1>3. pc'[0] = "idle"
  BY <1>1, Woken DEF SetPause, Asleep
<1> QED BY <1>1, <1>2, <1>3, Woken, CallerKeeps DEF SetPause

LEMMA FreeStep == ASSUME PoolInv, Free PROVE PoolInv'
<1> USE DEF PoolInv
<1>1. 0 \in Threads /\ \A w \in Workers : w \in Threads /\ w # 0
  BY ThreadSets
<1>2. TypeOK'
  BY Woken DEF Free, TypeOK, barrier, search, compute
<1>3. pc'[0] = "join" /\ \A w \in Workers : pc'[w] = Broadcast(pc)[w]
  BY <1>1, Woken DEF Free
<1> QED BY <1>1, <1>2, <1>3, Woken, CallerKeeps DEF Free

LEMMA JoinedStep == ASSUME PoolInv, Joined PROVE PoolInv'
<1> USE DEF PoolInv
<1>1. 0 \in Threads /\ \A w \in Workers : w \in Threads /\ w # 0
  BY ThreadSets
<1>2. TypeOK'
  BY <1>1 DEF Joined, Goto, TypeOK, signals, barrier, search, compute
<1>3. pc'[0] = "freed" /\ \A w \in Workers : pc'[w] = pc[w]
  BY <1>1 DEF Joined, Goto, TypeOK
<1> QED BY <1>2, <1>3, CallerKeeps DEF Joined, signals

\* All graphs of a pool ask for one number of threads.
Uniform == \A C \in CountSets : \A m, n \in C : m = n

LEMMA ComputeStep ==
    ASSUME Uniform, PoolInv, NEW n \in counts, Compute(n)
    PROVE  PoolInv'
<1> USE DEF PoolInv
<1>1. 0 \in Threads /\ \A w \in Workers : w \in Threads /\ w # 0
  BY ThreadSets
<1>2. /\ pc[0] = "idle" /\ pc'[0] = "kick" /\ \A u \in Threads \ {0} : pc'[u] = pc[u]
      /\ n_threads_cur' = Available(n) /\ n_graph < MaxGraphs
      /\ UNCHANGED <<counts, n_graph, n_barrier, n_barrier_passed, n_passed, n_threads,
                     last_graph, new_graph, nth, node_n, chunk, ret>>
  BY <1>1 DEF Compute, Goto, TypeOK, barrier, search
<1>3. n \in Nat \ {0} /\ Available(n) \in 1..NThreadsMax /\ n_graph \in Nat
  BY DEF TypeOK, Available
<1>4. TypeOK'
  <2>1. work' \in [Nodes -> [Chunks -> Nat]] /\ wdata' \in [Threads -> {-1} \cup Nodes]
    BY DEF Compute
  <2>2. pc' \in [Threads -> Computing \cup Hunting \cup
                            {"exited", "idle", "kick", "join", "freed"}]
    BY <1>1 DEF Compute, Goto, TypeOK
  <2> QED BY <1>2, <1>3, <2>1, <2>2 DEF Compute, TypeOK, barrier, search
<1>5. n_graph > 0 => n_threads_cur' = n_threads_cur
  BY <1>2 DEF SameCount
<1>6. n_graph = 0 => \A w \in Workers : pc[w] \notin Computing \cup {"active"} /\ last_graph[w] = 0
  BY <1>1 DEF Places, TypeOK
<1>7. \A u \in Threads : ~Busy(u)
  <2>1. ~Busy(0)
    BY <1>2 DEF Busy, Computing
  <2> QED BY <2>1, BusyTogether
<1>8. \A u \in Threads : ~Busy(u)'
  <2>1. ~Busy(0)'
    BY <1>2 DEF Busy, Computing
  <2>2. \A u \in Threads : u # 0 => (Busy(u)' <=> Busy(u))
    BY <1>2, SameView DEF Same
  <2> QED BY <1>7, <2>1, <2>2
<1>9. SameCount'
  <2>1. \A m \in counts : m = n
    BY DEF Uniform, TypeOK
  <2> QED BY <1>2, <2>1 DEF SameCount, Available, Computing
<1>10. Places'
  <2>1. ASSUME NEW w \in Workers
        PROVE  /\ pc[w] \in Computing \cup Hunting \cup {"exited"}
               /\ pc[w] \in Computing => w < n_threads_cur' /\ n_graph > 0
               /\ last_graph[w] <= n_graph /\ new_graph[w] <= n_graph
               /\ pc[w] = "active" => n_graph > 0
               /\ pc[w] = "active" /\ w < n_threads_cur' =>
                    new_graph[w] = n_graph /\ last_graph[w] # n_graph
    BY <1>3, <1>5, <1>6 DEF Places
  <2> QED BY <1>1, <1>2, <2>1 DEF Places
<1>11. Together'
  <2>1. ASSUME NEW u \in Workers, u < n_threads_cur' PROVE Seen(u)'
    <3>1. CASE n_graph = 0
      BY <1>2, <1>6, <3>1 DEF Seen
    <3>2. CASE n_graph # 0
      <4>1. u < n_threads_cur
        BY <1>3, <1>5, <2>1, <3>2
      <4> QED BY <1>1, <1>2, <1>7, <4>1 DEF Together, Seen
    <3> QED BY <3>1, <3>2
  <2> QED BY <1>1, <1>8, <2>1 DEF Together
<1>12. Locals'
  BY <1>1, <1>2, <1>7, <1>8 DEF Locals, Local
<1>13. AtBarrier'
  <2>1. \A u \in Threads : /\ Waiting(u)' <=> Waiting(u)
                           /\ pc'[u] \in {"arrive", "reset", "release", "spin"} => pc'[u] = pc[u]
    BY <1>2 DEF Waiting
  <2>2. \A u \in Threads : pc[u] \notin {"arrive", "reset", "release"}
    BY <1>7, AtBarrierFacts
  <2>3. ASSUME NEW u \in Threads, pc'[u] = "spin" PROVE n_threads_cur' > 1
    <3>1. u # 0 /\ pc[u] = "spin"
      BY <1>2, <2>3
    <3>2. n_graph > 0
      BY <1>1, <3>1, ThreadSets DEF Places, Computing
    <3> QED BY <1>5, <3>1, <3>2 DEF AtBarrier
  <2>4. {u \in Threads : Waiting(u)}' = {u \in Threads : Waiting(u)}
    BY <2>1
  <2>5. \A u \in Threads : pc'[u] \notin {"arrive", "reset", "release"}
    BY <2>1, <2>2
  <2>6. n_barrier' = Cardinality({u \in Threads : Waiting(u)})'
    BY <1>2, <2>2, <2>4 DEF AtBarrier
  <2>7. \A u \in Threads : n_passed'[u] <= n_barrier_passed'
    BY <1>2 DEF AtBarrier
  <2> QED BY <2>3, <2>5, <2>6, <2>7 DEF AtBarrier
<1>14. Aborting'
  BY <1>1, <1>8 DEF Aborting, Compute
<1>15. NodesDone'
  BY <1>1, <1>2, <1>8 DEF NodesDone, Compute
<1>16. ChunksHeld'
  <2>1. ret[0] = "none"
    BY <1>1, <1>2 DEF Locals, Local
  <2> QED BY <1>1, <1>2, <1>8, <2>1 DEF ChunksHeld
<1> QED BY <1>4, <1>9, <1>10, <1>11, <1>12, <1>13, <1>14, <1>15, <1>16

LEMMA KickoffStep == ASSUME PoolInv, Kickoff PROVE PoolInv'
<1> USE DEF PoolInv
<1>1. 0 \in Threads /\ Threads = Workers \cup {0} /\ \A w \in Workers : w \in Threads /\ w # 0
  BY ThreadSets
<1>2. /\ pc[0] = "kick" /\ pc'[0] = "begin" /\ n_graph' = n_graph + 1
      /\ \A w \in Workers : \/ pc'[w] = pc[w]
                            \/ pc[w] \in Asleep /\ pc'[w] \in {"top", "wlock"}
      /\ UNCHANGED <<counts, n_threads_cur, n_barrier, n_barrier_passed, n_passed, n_threads,
                     last_graph, new_graph, nth, node_n, chunk, ret, current_chunk, abort,
                     ec, wdata, work>>
  BY <1>1, Woken DEF Kickoff, barrier, search, compute
<1>3. n_graph \in Nat /\ n_graph < MaxGraphs
  BY <1>2 DEF TypeOK, SameCount
<1>4. TypeOK'
  <2>1. pc' \in [Threads -> Computing \cup Hunting \cup
                            {"exited", "idle", "kick", "join", "freed"}]
    BY <1>1, Woken DEF Kickoff, Computing
  <2>2. n_graph' \in 0..MaxGraphs /\ pause' = FALSE /\ stop' = stop
    BY <1>2, <1>3 DEF Kickoff
  <2> QED BY <1>2, <2>1, <2>2 DEF TypeOK
<1>5. \A u \in Threads : ~Busy(u)
  <2>1. ~Busy(0)
    BY <1>2 DEF Busy, Computing
  <2> QED BY <2>1, BusyTogether
<1>6. \A w \in Workers : ~Busy(w)'
  <2>1. ASSUME NEW w \in Workers, pc'[w] = pc[w] PROVE ~Busy(w)'
    <3>1. Same(w)
      BY <1>2, <2>1 DEF Same
    <3> QED BY <1>1, <1>5, <3>1, SameView
  <2>2. ASSUME NEW w \in Workers, pc'[w] \in {"top", "wlock"} PROVE ~Busy(w)'
    BY <2>2 DEF Busy, Computing
  <2> QED BY <1>2, <2>1, <2>2
<1>7. Busy(0)' /\ Stage(0)' = 0
  BY <1>2 DEF Busy, Out, Released, Computing, Stage
<1>8. \A w \in Workers : w < n_threads_cur => last_graph[w] = n_graph
  BY <1>1, <1>5 DEF Together, Seen
<1>9. SameCount'
  BY <1>2, <1>3 DEF SameCount, Available
<1>10. Places'
  <2>1. ASSUME NEW w \in Workers
        PROVE  /\ pc'[w] \in Computing \cup Hunting \cup {"exited"}
               /\ pc'[w] \in Computing => w < n_threads_cur
               /\ last_graph[w] <= n_graph + 1 /\ new_graph[w] <= n_graph + 1
               /\ ~(pc'[w] = "active" /\ w < n_threads_cur)
    <3>1. w \in Threads /\ last_graph[w] \in Nat /\ new_graph[w] \in Nat
      BY <1>1 DEF TypeOK
    <3>2. last_graph[w] <= n_graph /\ new_graph[w] <= n_graph
      BY DEF Places
    <3>3. pc'[w] = pc[w] \/ pc'[w] \in {"top", "wlock"}
      BY <1>2
    <3> QED BY <1>3, <1>8, <3>1, <3>2, <3>3 DEF Places, Hunting, Computing
  <2> QED BY <1>2, <1>3, <2>1 DEF Places, Computing
<1>11. Together'
  <2>1. \A w \in Workers : w < n_threads_cur' => ~Seen(w)'
    BY <1>1, <1>2, <1>3, <1>8 DEF Seen
  <2> QED BY <1>6, <1>7, <2>1 DEF Together
<1>12. Locals'
  <2>1. Local(0)'
    <3>1. ret[0] = "none"
      BY <1>1, <1>2 DEF Locals, Local
    <3> QED BY <1>2, <3>1 DEF Local
  <2>2. ASSUME NEW w \in Workers PROVE Local(w)'
    <3>1. Local(w) /\ ~Busy(w)'
      BY <1>1, <1>6 DEF Locals
    <3>2. CASE pc'[w] = pc[w]
      BY <1>2, <3>1, <3>2 DEF Local
    <3>3. CASE pc[w] \in Asleep /\ pc'[w] \in {"top", "wlock"}
      <4>1. ret[w] = "none"
        BY <3>1, <3>3 DEF Local, Asleep
      <4> QED BY <1>2, <3>1, <3>3, <4>1 DEF Local
    <3> QED BY <1>2, <3>2, <3>3
  <2> QED BY <1>1, <2>1, <2>2 DEF Locals
<1>13. AtBarrier'
  <2>1. \A u \in Threads : /\ Waiting(u)' <=> Waiting(u)
                           /\ pc'[u] \in {"arrive", "reset", "release", "spin"} => pc'[u] = pc[u]
    BY <1>1, <1>2 DEF Waiting, Asleep
  <2>2. \A u \in Threads : pc[u] \notin {"arrive", "reset", "release"}
    BY <1>5, AtBarrierFacts
  <2>3. \A u \in Threads : pc'[u] = "spin" => n_threads_cur > 1
    BY <2>1 DEF AtBarrier
  <2>4. {u \in Threads : Waiting(u)}' = {u \in Threads : Waiting(u)}
    BY <2>1
  <2>5. \A u \in Threads : pc'[u] \notin {"arrive", "reset", "release"}
    BY <2>1, <2>2
  <2>6. n_barrier' = Cardinality({u \in Threads : Waiting(u)})'
    BY <1>2, <2>2, <2>4 DEF AtBarrier
  <2>7. \A u \in Threads : n_passed'[u] <= n_barrier_passed'
    BY <1>2 DEF AtBarrier
  <2> QED BY <1>2, <2>3, <2>5, <2>6, <2>7 DEF AtBarrier
<1>14. abort = -1 /\ \A m \in Nodes, c \in Chunks : work[m][c] = 0
  BY <1>2 DEF NodesDone
<1>15. Aborting'
  BY <1>2, <1>14 DEF Aborting
<1>16. NodesDone'
  <2>1. \A m \in Nodes : ~(0 > 2 * m + 1)
    BY DEF Nodes
  <2> QED BY <1>2, <1>3, <1>7, <1>14, <2>1 DEF NodesDone
<1>17. ChunksHeld'
  <2>1. ret[0] = "none"
    BY <1>1, <1>2 DEF Locals, Local
  <2>2. \A m \in Nodes : Stage(0)' # 2 * m + 1
    BY <1>7 DEF Nodes
  <2> QED BY <1>2, <2>1, <2>2 DEF ChunksHeld
<1> QED BY <1>4, <1>9, <1>10, <1>11, <1>12, <1>13, <1>15, <1>16, <1>17

-----------------------------------------------------------------------------
(* The invariant and what follows from it.                                 *)

LEMMA InitPool == Init => PoolInv
<1> SUFFICES ASSUME Init PROVE PoolInv
  OBVIOUS
<1>0. /\ counts \in CountSets /\ n_graph = 0 /\ n_threads_cur = NThreadsMax
      /\ stop = FALSE /\ pause \in BOOLEAN /\ n_barrier = 0 /\ n_barrier_passed = 0
      /\ current_chunk = 0 /\ abort = -1 /\ ec = "success"
  BY DEF Init
<1>1. 0 \in Threads /\ Threads = Workers \cup {0} /\ \A w \in Workers : w # 0
  BY DEF Threads, Workers
<1>2. TypeOK
  <2>1. n_threads_cur \in 1..NThreadsMax /\ n_barrier \in 0..NThreadsMax
    BY <1>0
  <2>2. pc \in [Threads -> Computing \cup Hunting \cup
                           {"exited", "idle", "kick", "join", "freed"}]
    BY DEF Init, Hunting
  <2>3. /\ last_graph \in [Threads -> 0..MaxGraphs] /\ new_graph \in [Threads -> 0..MaxGraphs]
        /\ nth \in [Threads -> 0..NThreadsMax] /\ node_n \in [Threads -> 0..NNodes]
        /\ chunk \in [Threads -> Nat]
        /\ n_threads \in [Threads -> 0..NThreadsMax] /\ n_passed \in [Threads -> Nat]
    BY DEF Init
  <2>4. /\ wdata \in [Threads -> {-1} \cup Nodes]
        /\ ret \in [Threads -> {"none", "mul", "next", "leave"}]
        /\ work \in [Nodes -> [Chunks -> Nat]]
    BY DEF Init
  <2>5. /\ counts \in CountSets /\ n_graph \in 0..MaxGraphs /\ n_barrier_passed \in Nat
        /\ current_chunk \in Nat /\ abort \in {-1} \cup 1..NNodes
        /\ ec \in {"success", "aborted"}
    BY <1>0
  <2>6. stop \in BOOLEAN /\ pause \in BOOLEAN
    BY <1>0
  <2> QED BY <2>1, <2>2, <2>3, <2>4, <2>5, <2>6 DEF TypeOK
<1>3. /\ pc[0] = "idle" /\ \A w \in Workers : pc[w] = "top"
      /\ \A u \in Threads : /\ pc[u] \notin Computing /\ ret[u] = "none" /\ n_passed[u] = 0
                            /\ last_graph[u] = 0 /\ new_graph[u] = 0
  BY <1>1 DEF Init, Computing
<1>4. \A u \in Threads : ~Busy(u) /\ ~Waiting(u)
  BY <1>3 DEF Busy, Waiting, Computing
<1>5. SameCount
  BY <1>0, <1>1, <1>3 DEF SameCount
<1>6. Places
  BY <1>0, <1>1, <1>3 DEF Places, Hunting
<1>7. Together
  BY <1>0, <1>1, <1>3, <1>4 DEF Together, Seen
<1>8. Locals
  BY <1>3, <1>4 DEF Locals, Local, Computing
<1>9. AtBarrier
  <2>1. \A u \in Threads : pc[u] \notin {"arrive", "reset", "release", "spin"}
    BY <1>3 DEF Computing
  <2>2. {u \in Threads : Waiting(u)} = {}
    BY <1>4
  <2>3. n_barrier = Cardinality({u \in Threads : Waiting(u)})
    BY <1>0, <2>2, FS_EmptySet
  <2>4. \A u \in Threads : n_passed[u] <= n_barrier_passed
    BY <1>0, <1>3
  <2> QED BY <2>1, <2>3, <2>4 DEF AtBarrier
<1>10. Aborting /\ NodesDone
  BY <1>1, <1>3, <1>4 DEF Aborting, NodesDone, Init
<1>11. ChunksHeld
  BY <1>1, <1>3, <1>4 DEF ChunksHeld
<1> QED BY <1>2, <1>5, <1>6, <1>7, <1>8, <1>9, <1>10, <1>11 DEF PoolInv

LEMMA RunStep == ASSUME PoolInv, NEW t \in Threads, Run(t) PROVE PoolInv'
<1>1. CASE Begin(t) \/ Test(t) \/ Convert(t) \/ Mul(t) \/ Fetch(t) \/ AfterNode(t)
  BY <1>1, BeginStep, TestStep, ConvertStep, MulStep, FetchStep, AfterNodeStep
<1>2. CASE Enter(t)
  BY <1>2, EnterStep, EnterAloneStep
<1>3. CASE Arrive(t) \/ Reset(t) \/ Release(t)
  BY <1>3, ArriveStep, ResetStep, ReleaseStep
<1>4. CASE Spin(t)
  BY <1>4, SpinStep, SpinOutStep
<1> QED BY <1>1, <1>2, <1>3, <1>4 DEF Run

LEMMA NextPool == ASSUME Uniform, PoolInv, [Next]_vars PROVE PoolInv'
<1>1. 0 \in Threads /\ Workers \subseteq Threads
  BY ThreadSets DEF PoolInv
<1>2. ASSUME NEW n \in counts, Compute(n) PROVE PoolInv'
  BY <1>2, ComputeStep
<1>3. ASSUME NEW p \in BOOLEAN, SetPause(p) PROVE PoolInv'
  BY <1>3, SetPauseStep
<1>4. CASE Free \/ MainStep
  BY <1>1, <1>4, FreeStep, KickoffStep, JoinedStep, RunStep DEF MainStep
<1>5. ASSUME NEW w \in Workers, WorkerStep(w) \/ Run(w) PROVE PoolInv'
  <2>1. CASE Run(w)
    BY <1>1, <2>1, RunStep
  <2>2. CASE WorkerStep(w)
    BY <2>2, TopStep, PauseWaitStep, PollStep, LoadGraphStep, LoadActiveStep, WorkWaitStep
       DEF WorkerStep
  <2> QED BY <1>5, <2>1, <2>2
<1>6. CASE UNCHANGED vars
  <2>1. UNCHANGED <<counts, n_graph, n_threads_cur, stop, pause, n_barrier, n_barrier_passed,
                    current_chunk, abort, ec, wdata, pc, last_graph, new_graph, nth, node_n,
                    chunk, n_threads, n_passed, ret, work>>
    BY <1>6 DEF vars, signals, barrier, search, compute
  <2>2. TypeOK'
    BY <2>1 DEF TypeOK, PoolInv
  <2>3. \A u \in Threads : Aside(u)
    BY <2>1 DEF Aside, Same, Apart
  <2>4. SameCount' /\ Places'
    BY <2>1 DEF PoolInv, SameCount, Places, Available
  <2>5. \A u \in Team : Seen(u)' <=> Seen(u)
    BY <2>1 DEF Seen
  <2> QED BY <2>1, <2>2, <2>3, <2>4, <2>5, AsideKeeps
<1> QED BY <1>2, <1>3, <1>4, <1>5, <1>6 DEF Next

\* The threads of a graph go through it together (ggml_graph_compute_thread, ggml_barrier):
\* stages, barrier counter, chunk counter and results agree at every step, if all graphs of
\* the pool ask for one number of threads.
THEOREM PoolInvariant == ASSUME Uniform PROVE Spec => []PoolInv
<1>1. Init => PoolInv
  BY InitPool
<1>2. PoolInv /\ [Next]_vars => PoolInv'
  BY NextPool
<1> QED BY <1>1, <1>2, PTL DEF Spec

\* Type correctness: the barrier counter, the chunks and the nodes stay in range.
THEOREM PoolTypes == ASSUME Uniform PROVE Spec => []TypeOK
<1>1. PoolInv => TypeOK
  BY DEF PoolInv
<1> QED BY <1>1, PoolInvariant, PTL

\* ggml_compute_forward_mul_mat multiplies only with a fully converted input that no thread
\* overwrites, and after all earlier nodes are done.
THEOREM PoolInStep == ASSUME Uniform PROVE Spec => []InStep
<1>1. ASSUME PoolInv PROVE InStep
  <2> SUFFICES ASSUME NEW t \in Threads, pc[t] = "mul"
               PROVE  /\ \A u \in Threads : u < nth[t] => wdata[u] = node_n[t]
                      /\ \A n \in Nodes, c \in Chunks :
                           n < node_n[t] /\ c < NChunk(t) => work[n][c] = 1
    BY DEF InStep
  <2> DEFINE k == node_n[t]
  <2>1. Busy(t)
    BY DEF Busy, Out, Released, Computing
  <2>2. /\ Busy(0) /\ Stage(t) = Stage(0) /\ nth[t] = n_threads_cur /\ k \in Nat /\ k < NNodes
        /\ ret[t] = "none"
    BY <1>1, <2>1, StepFacts DEF Local
  <2>3. Stage(t) = 2 * k + 1
    BY <2>2 DEF Stage
  <2>4. ASSUME NEW u \in Threads, u < nth[t] PROVE wdata[u] = k
    <3>1. Busy(u)
      <4>1. u = 0 \/ u \in Workers
        BY <1>1, ThreadSets DEF PoolInv
      <4> QED BY <1>1, <2>2, <2>3, <2>4, <4>1 DEF PoolInv, Together
    <3>2. /\ Stage(u) = 2 * k + 1 /\ Local(u) /\ node_n[u] \in Nat /\ pc[u] \in Computing
          /\ ret[u] \in {"none", "mul", "next", "leave"}
      BY <1>1, <2>2, <2>3, <3>1, StepFacts DEF PoolInv, TypeOK
    <3>3. CASE pc[u] = "test" \/ ret[u] = "leave"
      <4>1. node_n[u] = NNodes /\ k = NNodes - 1
        BY <2>2, <3>2, <3>3 DEF Stage, Local
      <4> QED BY <3>1, <3>2, <3>3, <4>1 DEF Local
    <3>4. CASE pc[u] \in {"mul", "fetch", "after"} \/ ret[u] \in {"mul", "next"}
      <4>1. wdata[u] = node_n[u]
        BY <3>1, <3>2, <3>4 DEF Local
      <4>2. node_n[u] = k
        BY <2>2, <3>2, <3>4 DEF Stage, Local
      <4> QED BY <4>1, <4>2
    <3>5. CASE pc[u] \in {"begin", "convert"}
      BY <2>2, <3>2, <3>5 DEF Stage, Local
    <3> QED BY <3>2, <3>3, <3>4, <3>5 DEF Computing, Local
  <2>5. ASSUME NEW n \in Nodes, NEW c \in Chunks, n < k, c < NChunk(t) PROVE work[n][c] = 1
    <3>1. NChunk(t) = M
      BY <2>2 DEF NChunk, M
    <3>2. Stage(0) > 2 * n + 1
      BY <2>2, <2>3, <2>5 DEF Nodes
    <3> QED BY <1>1, <2>2, <2>5, <3>1, <3>2 DEF PoolInv, NodesDone
  <2> QED BY <2>4, <2>5
<1> QED BY <1>1, PoolInvariant, PTL

\* However the threads race for current_chunk, no chunk is computed twice, and a graph that
\* returns success has computed every chunk of every node.
THEOREM PoolChunksOnce == ASSUME Uniform PROVE Spec => []ChunksOnce
<1>1. ASSUME PoolInv PROVE ChunksOnce
  <2> USE DEF PoolInv
  <2>1. TypeOK /\ NodesDone /\ ChunksHeld /\ Aborting
    BY <1>1
  <2>2. M \in Nat /\ \A c \in Chunks : c \in Nat
    BY <2>1, ChunkNumbers
  <2>3. ASSUME NEW n \in Nodes, NEW c \in Chunks PROVE work[n][c] <= 1
    <3>1. CASE Busy(0)
      <4>1. CASE Stage(0) = 2 * n + 1 /\ c < M
        <5>1. AtHand(n) /\ current_chunk \in Nat
          BY <2>1, <3>1, <4>1 DEF ChunksHeld, TypeOK
        <5> QED BY <2>2, <4>1, <5>1 DEF AtHand
      <4>2. Stage(0) \in Int
        <5>1. node_n[0] \in Nat
          BY <1>1, <3>1, StepFacts, <2>1, ThreadSets
        <5> QED BY <5>1 DEF Stage
      <4> QED BY <2>1, <2>2, <3>1, <4>1, <4>2 DEF NodesDone, Nodes
    <3>2. CASE ~Busy(0)
      <4>1. n_graph = 0 \/ n_graph > 0
        BY <2>1 DEF TypeOK
      <4> QED BY <2>1, <3>2, <4>1 DEF NodesDone
    <3> QED BY <3>1, <3>2
  <2>4. ASSUME pc[0] = "idle", n_graph > 0, ec = "success", NEW n \in Nodes, NEW c \in Chunks,
               c < ChunksFor(n_threads_cur)
        PROVE  work[n][c] = 1
    <3>1. ~Busy(0) /\ abort = -1 /\ c < M
      BY <2>1, <2>4 DEF Busy, Computing, Aborting, M
    <3> QED BY <2>1, <2>4, <3>1 DEF NodesDone
  <2> QED BY <2>3, <2>4 DEF ChunksOnce
<1> QED BY <1>1, PoolInvariant, PTL

\* Once the callback has aborted the graph after a node, no chunk of a later node is computed.
THEOREM PoolAbortStops == ASSUME Uniform PROVE Spec => []AbortStops
<1>1. ASSUME PoolInv PROVE AbortStops
  <2> SUFFICES ASSUME abort # -1, NEW n \in Nodes, NEW c \in Chunks, n >= abort
               PROVE  work[n][c] = 0
    BY DEF AbortStops
  <2>1. TypeOK /\ NodesDone /\ Aborting /\ abort \in Nat /\ n \in Nat
    BY <1>1 DEF PoolInv, TypeOK, Nodes
  <2>2. CASE Busy(0)
    <3>1. Stage(0) = 2 * abort - 1 \/ Stage(0) = 2 * abort
      BY <2>1, <2>2 DEF Aborting
    <3>2. Stage(0) < 2 * n + 1
      BY <2>1, <3>1
    <3> QED BY <2>1, <2>2, <3>2 DEF NodesDone
  <2>3. CASE ~Busy(0)
    <3>1. n_graph = 0 \/ n_graph > 0
      BY <2>1 DEF TypeOK
    <3> QED BY <2>1, <2>3, <3>1 DEF NodesDone
  <2> QED BY <2>2, <2>3
<1> QED BY <1>1, PoolInvariant, PTL

\* While thread 0 is outside ggml_graph_compute no worker touches the state of a graph: it has
\* at most to notice that the last barrier was passed.
THEOREM PoolQuiet == ASSUME Uniform PROVE Spec => []QuietPool
<1>1. ASSUME PoolInv PROVE QuietPool
  <2> SUFFICES ASSUME pc[0] \in {"idle", "join", "freed"}, NEW w \in Workers, pc[w] \in Computing
               PROVE  pc[w] = "spin" /\ ret[w] = "leave" /\ n_barrier_passed # n_passed[w]
    BY DEF QuietPool
  <2>1. ~Busy(0) /\ w \in Threads
    BY <1>1, ThreadSets DEF Busy, Computing, PoolInv
  <2>2. ~Busy(w)
    BY <1>1, <2>1, BusyTogether DEF PoolInv
  <2> QED BY <2>2 DEF Busy, Out, Released
<1> QED BY <1>1, PoolInvariant, PTL

-----------------------------------------------------------------------------
(* Signals and barriers leave nobody behind.                               *)

Labels == Computing \cup Hunting \cup {"exited", "idle", "kick", "join", "freed"}

\* Who sleeps, and what the flags say of thread 0.  This needs nothing of the graphs.
Wakeful ==
    /\ pc \in [Threads -> Labels] /\ pc[0] \in Computing \cup {"idle", "kick", "join", "freed"}
    /\ \A w \in Workers : pc[w] \in Computing \cup Hunting \cup {"exited"}
    /\ last_graph \in [Threads -> Nat] /\ new_graph \in [Threads -> Nat] /\ n_graph \in Nat
    /\ stop \in BOOLEAN /\ pause \in BOOLEAN
    /\ stop <=> pc[0] \in {"join", "freed"}
    /\ stop => ~pause
    /\ pc[0] \in Computing => ~pause
    /\ \A w \in Workers :
         /\ pc[w] = "exited" => stop
         /\ pc[w] = "psleep" => pause
         /\ pc[w] = "wsleep" => ~stop /\ ~pause /\ last_graph[w] = n_graph

\* Thread 0 is a thread, and not one of the workers.
LEMMA Caller0 ==
    /\ 0 \in Threads /\ Workers \subseteq Threads /\ 0 \notin Workers
    /\ \A t \in Threads : t # 0 => t \in Workers
BY DEF Threads, Workers

\* A step inside a graph moves one thread, and leaves the signals alone.
LEMMA RunFrame ==
    ASSUME NEW t \in Threads, Run(t)
    PROVE  /\ pc[t] \in Computing
           /\ \E l \in Computing \cup {IF t = 0 THEN "idle" ELSE "top"} :
                  pc' = [pc EXCEPT ![t] = l]
           /\ UNCHANGED <<n_graph, n_threads_cur, stop, pause, last_graph, new_graph>>
<1> DEFINE L == Computing \cup {IF t = 0 THEN "idle" ELSE "top"}
<1>1. UNCHANGED <<n_graph, n_threads_cur, stop, pause, last_graph, new_graph>>
  BY DEF Run, Begin, Test, Convert, Mul, Fetch, AfterNode, Enter, Arrive, Reset, Release, Spin,
     signals, search
<1>2. CASE Begin(t) \/ Test(t) \/ Convert(t) \/ Mul(t) \/ Fetch(t) \/ AfterNode(t)
  BY <1>1, <1>2 DEF Begin, Test, Convert, Mul, Fetch, AfterNode, NextNode, Barrier, Goto, Computing
<1>3. ASSUME Return(t) PROVE \E l \in L : pc' = [pc EXCEPT ![t] = l]
  BY <1>3 DEF Return, Leave, Goto, Computing
<1>4. CASE Enter(t) \/ Release(t) \/ Spin(t)
  <2>1. pc[t] \in Computing
    BY <1>4 DEF Enter, Release, Spin, Computing
  <2>2. Return(t) \/ pc' = [pc EXCEPT ![t] = "arrive"]
    BY <1>4 DEF Enter, Release, Spin, Goto
  <2>3. "arrive" \in L
    BY DEF Computing
  <2> QED BY <1>1, <1>3, <2>1, <2>2, <2>3
<1>5. CASE Arrive(t) \/ Reset(t)
  BY <1>1, <1>5 DEF Arrive, Reset, Goto, Computing
<1> QED BY <1>2, <1>4, <1>5 DEF Run

\* Every step keeps it: who sets a flag or announces a graph wakes everybody in the same
\* section of the mutex, and who goes to sleep has tested them in one.
LEMMA WakefulStep == Wakeful /\ [Next]_vars => Wakeful'
<1> SUFFICES ASSUME Wakeful, [Next]_vars PROVE Wakeful'
  OBVIOUS
<1> USE Caller0
<1>1. /\ \A t \in Threads : Broadcast(pc)[t] = CASE pc[t] = "psleep" -> "top"
                                                 [] pc[t] = "wsleep" -> "wlock"
                                                 [] OTHER -> pc[t]
      /\ Broadcast(pc) = [t \in Threads |-> Broadcast(pc)[t]]
  BY DEF Broadcast
<1>2. /\ Broadcast(pc) \in [Threads -> Labels]
      /\ Broadcast(pc)[0] = pc[0]
      /\ \A w \in Workers : /\ Broadcast(pc)[w] \in Computing \cup Hunting \cup {"exited"}
                            /\ Broadcast(pc)[w] \notin Asleep
                            /\ Broadcast(pc)[w] = "exited" => pc[w] = "exited"
  <2>1. \A t \in Threads : Broadcast(pc)[t] \in Labels
    BY <1>1 DEF Wakeful, Labels, Hunting
  <2>2. Broadcast(pc)[0] = pc[0]
    BY <1>1 DEF Wakeful, Computing
  <2>3. ASSUME NEW w \in Workers
        PROVE  /\ Broadcast(pc)[w] \in Computing \cup Hunting \cup {"exited"}
               /\ Broadcast(pc)[w] \notin Asleep
               /\ Broadcast(pc)[w] = "exited" => pc[w] = "exited"
    BY <1>1 DEF Wakeful, Hunting, Asleep, Computing
  <2> QED BY <1>1, <2>1, <2>2, <2>3
<1>3. ASSUME NEW n \in counts, Compute(n) PROVE Wakeful'
  BY <1>3 DEF Compute, Goto, search, Wakeful, Labels, Computing
<1>4. CASE Kickoff
  <2>1. /\ n_graph' = n_graph + 1 /\ pause' = FALSE /\ stop' = stop /\ pc[0] = "kick"
        /\ pc' = [Broadcast(pc) EXCEPT ![0] = "begin"]
        /\ last_graph' = last_graph /\ new_graph' = new_graph
    BY <1>4 DEF Kickoff, search
  <2>2. pc' \in [Threads -> Labels] /\ pc'[0] = "begin" /\ \A w \in Workers : pc'[w] = Broadcast(pc)[w]
    BY <1>2, <2>1 DEF Labels, Computing
  <2>3. /\ stop' = FALSE /\ n_graph' \in Nat
        /\ last_graph' \in [Threads -> Nat] /\ new_graph' \in [Threads -> Nat]
    BY <2>1 DEF Wakeful
  <2>4. \A w \in Workers : /\ pc'[w] \in Computing \cup Hunting \cup {"exited"}
                          /\ pc'[w] \notin {"psleep", "wsleep", "exited"}
    BY <1>2, <2>1, <2>2 DEF Wakeful, Asleep
  <2> QED BY <2>1, <2>2, <2>3, <2>4 DEF Wakeful, Computing
<1>5. ASSUME NEW p \in BOOLEAN, SetPause(p) PROVE Wakeful'
  <2>1. /\ pc[0] = "idle" /\ pause' = p /\ pc' = Broadcast(pc)
        /\ UNCHANGED <<n_graph, stop, last_graph, new_graph>>
    BY <1>5 DEF SetPause, search
  <2> QED BY <1>2, <2>1 DEF Wakeful, Computing, Asleep
<1>6. CASE Free
  <2>1. /\ n_graph' = n_graph /\ pause' = FALSE /\ stop' = TRUE
        /\ pc' = [Broadcast(pc) EXCEPT ![0] = "join"]
        /\ last_graph' = last_graph /\ new_graph' = new_graph
    BY <1>6 DEF Free, search
  <2>2. pc' \in [Threads -> Labels] /\ pc'[0] = "join" /\ \A w \in Workers : pc'[w] = Broadcast(pc)[w]
    BY <1>2, <2>1 DEF Labels
  <2> QED BY <1>2, <2>1, <2>2 DEF Wakeful, Computing, Asleep
<1>7. CASE Joined
  BY <1>7 DEF Joined, Goto, signals, search, Wakeful, Labels, Computing
<1>8. ASSUME NEW t \in Threads, Run(t) PROVE Wakeful'
  <2>1. PICK l \in Computing \cup {IF t = 0 THEN "idle" ELSE "top"} : pc' = [pc EXCEPT ![t] = l]
    BY <1>8, RunFrame
  <2>2. /\ pc[t] \in Computing
        /\ UNCHANGED <<n_graph, stop, pause, last_graph, new_graph>>
    BY <1>8, RunFrame
  <2>3. pc' \in [Threads -> Labels] /\ pc'[t] = l /\ \A u \in Threads \ {t} : pc'[u] = pc[u]
    BY <2>1 DEF Wakeful, Labels, Hunting
  <2> QED BY <2>1, <2>2, <2>3 DEF Wakeful, Computing, Hunting
<1>9. ASSUME NEW w \in Workers, WorkerStep(w) PROVE Wakeful'
  <2>1. PICK l : pc' = [pc EXCEPT ![w] = l] /\ l \in Hunting \cup {"begin", "exited"}
    BY <1>9 DEF WorkerStep, Top, PauseWait, Poll, LoadGraph, LoadActive, WorkWait, Goto, Hunting,
       Polling, Asleep
  <2>2. /\ UNCHANGED <<n_graph, stop, pause>>
        /\ new_graph' \in [Threads -> Nat] /\ last_graph' \in [Threads -> Nat]
        /\ \A u \in Workers \ {w} : last_graph'[u] = last_graph[u]
    BY <1>9 DEF WorkerStep, Top, PauseWait, Poll, LoadGraph, LoadActive, WorkWait, Wakeful,
       signals, search
  <2>3. /\ pc' \in [Threads -> Labels] /\ pc'[w] = l /\ pc'[0] = pc[0]
        /\ \A u \in Workers \ {w} : pc'[u] = pc[u]
    BY <2>1 DEF Wakeful, Labels, Computing
  <2>4. /\ l = "exited" => stop
        /\ l = "psleep" => pause
        /\ l = "wsleep" => ~stop /\ ~pause /\ last_graph'[w] = n_graph
    BY <1>9, <2>3 DEF WorkerStep, Top, PauseWait, Poll, LoadGraph, LoadActive, WorkWait, Goto,
       Wakeful
  <2> QED BY <2>1, <2>2, <2>3, <2>4 DEF Wakeful, Computing
<1>10. CASE UNCHANGED vars
  <2>1. UNCHANGED <<pc, n_graph, stop, pause, last_graph, new_graph>>
    BY <1>10 DEF vars, signals, search
  <2> QED BY <2>1 DEF Wakeful
<1> QED BY <1>3, <1>4, <1>5, <1>6, <1>7, <1>8, <1>9, <1>10 DEF Next, MainStep

\* The condition variable of the pool loses no wakeup, whatever numbers of threads the graphs
\* ask for: a thread is asleep in ggml_graph_compute_secondary_thread only while the pool is
\* paused, or in ggml_graph_compute_check_for_work only if it knows of the latest graph and
\* neither a stop nor a pause is pending.
THEOREM NoLostWakeup == Spec => []Wakeful
<1>1. ASSUME Init PROVE Wakeful
  <2>1. pc[0] = "idle" /\ \A w \in Workers : pc[w] = "top"
    BY <1>1, Caller0 DEF Init
  <2>2. pc \in [Threads -> Labels]
    BY <1>1 DEF Init, Labels, Hunting
  <2>3. /\ last_graph \in [Threads -> Nat] /\ new_graph \in [Threads -> Nat] /\ n_graph \in Nat
        /\ stop = FALSE /\ pause \in BOOLEAN
    BY <1>1 DEF Init
  <2> QED BY <2>1, <2>2, <2>3 DEF Wakeful, Computing, Hunting
<1> QED BY <1>1, WakefulStep, PTL DEF Spec

\* Some thread of the graph is not waiting at its barrier: the last one to arrive sees the
\* counter full, as it counts those who wait.
SomeoneMoves == \E t \in Team : ~Waiting(t)

LEMMA MovesArrive ==
    ASSUME PoolInv, PoolInv', NEW t \in Threads, Arrive(t) PROVE SomeoneMoves'
<1> DEFINE W == {u \in Threads : Waiting(u)'}
<1>1. /\ TypeOK /\ TypeOK' /\ AtBarrier /\ AtBarrier'
  BY DEF PoolInv
<1>2. /\ pc[t] = "arrive" /\ n_threads[t] = n_threads_cur /\ n_barrier' = n_barrier + 1
      /\ n_threads_cur' = n_threads_cur /\ n_threads_cur \in Nat /\ n_barrier \in Int
      /\ pc'[t] = IF n_barrier = n_threads[t] - 1 THEN "reset" ELSE "spin"
      /\ \A u \in Threads \ {t} : pc'[u] = pc[u]
  BY <1>1 DEF Arrive, Goto, TypeOK, signals, AtBarrier
<1>3. t \in Team /\ Team' = Team
  <2>1. Busy(t)
    BY <1>2 DEF Busy, Out, Released, Computing
  <2> QED BY <1>2, <2>1, StepFacts DEF Team
<1>4. CASE pc'[t] = "reset"
  BY <1>3, <1>4 DEF SomeoneMoves, Waiting
<1>5. CASE pc'[t] # "reset"
  <2>1. \A u \in Threads : pc'[u] \notin {"reset", "release"}
    <3>1. ~Waiting(t)
      BY <1>2 DEF Waiting
    <3> QED BY <1>1, <1>2, <1>3, <1>5, <3>1, NotTheLast
  <2>2. n_barrier' = Cardinality(W)
    BY <1>1, <2>1 DEF AtBarrier
  <2>3. n_barrier' # n_threads_cur
    BY <1>2, <1>5
  <2>4. IsFiniteSet(Team) /\ Cardinality(Team) = n_threads_cur
    BY <1>2, FS_Interval DEF Team
  <2>5. ASSUME \A u \in Team : Waiting(u)' PROVE FALSE
    <3>1. Team \subseteq W
      BY <1>1, <2>5, ThreadSets
    <3>2. W \subseteq Team
      <4>1. ASSUME NEW u \in Threads, Waiting(u)' PROVE u \in Team
        <5>1. Busy(u)'
          BY <4>1 DEF Busy, Out, Released, Waiting, Computing
        <5>2. u = 0 \/ u < n_threads_cur'
          BY <4>1, <5>1, Caller0 DEF PoolInv, Places, Busy
        <5> QED BY <1>1, <1>2, <4>1, <5>2, ThreadSets
      <4> QED BY <4>1
    <3> QED BY <2>2, <2>3, <2>4, <3>1, <3>2
  <2> QED BY <1>3, <2>5 DEF SomeoneMoves
<1> QED BY <1>4, <1>5

LEMMA MovesStep == PoolInv /\ PoolInv' /\ SomeoneMoves /\ [Next]_vars => SomeoneMoves'
<1> SUFFICES ASSUME PoolInv, PoolInv', SomeoneMoves, [Next]_vars PROVE SomeoneMoves'
  OBVIOUS
<1>1. TypeOK /\ TypeOK' /\ 0 \in Team'
  <2>1. TypeOK /\ TypeOK'
    BY DEF PoolInv
  <2>2. n_threads_cur' \in 1..NThreadsMax
    BY <2>1 DEF TypeOK
  <2>3. Team' = 0..(n_threads_cur' - 1)
    BY DEF Team
  <2>4. \A n \in 1..NThreadsMax : 0 \in 0..(n - 1)
    OBVIOUS
  <2>5. 0 \in Team'
    BY <2>2, <2>3, <2>4
  <2> QED BY <2>1, <2>5
<1> USE Caller0
<1>2. ASSUME pc'[0] # "spin" PROVE SomeoneMoves'
  BY <1>1, <1>2 DEF SomeoneMoves, Waiting
<1>3. ASSUME n_threads_cur' = n_threads_cur, \A t \in Threads : Waiting(t)' => Waiting(t)
      PROVE  SomeoneMoves'
  <2>1. Team' = Team /\ Team \subseteq Threads
    BY <1>1, <1>3, ThreadSets DEF Team
  <2> QED BY <1>3, <2>1 DEF SomeoneMoves
<1>4. ASSUME NEW n \in counts, Compute(n) PROVE SomeoneMoves'
  BY <1>1, <1>2, <1>4 DEF Compute, Goto, TypeOK
<1>5. CASE Kickoff
  <2>1. pc'[0] = "begin"
    BY <1>1, <1>5, Woken DEF Kickoff
  <2> QED BY <1>2, <2>1
<1>6. ASSUME NEW p \in BOOLEAN, SetPause(p) PROVE SomeoneMoves'
  <2>1. pc[0] = "idle" /\ pc'[0] \in {pc[0], "top", "wlock"}
    BY <1>1, <1>6, Woken DEF SetPause
  <2> QED BY <1>2, <2>1
<1>7. CASE Free
  <2>1. pc'[0] = "join"
    BY <1>1, <1>7, Woken DEF Free
  <2> QED BY <1>2, <2>1
<1>8. CASE Joined
  BY <1>1, <1>2, <1>8 DEF Joined, Goto, TypeOK
<1>9. ASSUME NEW w \in Workers, WorkerStep(w) PROVE SomeoneMoves'
  <2>1. /\ UNCHANGED <<n_threads_cur, n_passed, n_barrier_passed>>
        /\ pc'[w] # "spin" /\ \A u \in Threads \ {w} : pc'[u] = pc[u]
    BY <1>1, <1>9 DEF WorkerStep, Top, PauseWait, Poll, LoadGraph, LoadActive, WorkWait, Goto,
       signals, barrier, TypeOK
  <2> QED BY <1>3, <2>1 DEF Waiting
<1>10. ASSUME NEW t \in Threads, Return(t) PROVE pc'[t] # "spin"
  BY <1>1, <1>10 DEF Return, Leave, Goto, TypeOK
<1>11. ASSUME NEW t \in Threads, Run(t) PROVE SomeoneMoves'
  <2>1. PICK l : pc' = [pc EXCEPT ![t] = l]
    BY <1>11, RunFrame
  <2>2. n_threads_cur' = n_threads_cur /\ \A u \in Threads \ {t} : pc'[u] = pc[u]
    BY <1>1, <1>11, <2>1, RunFrame DEF TypeOK
  <2>3. CASE Begin(t) \/ Test(t) \/ Convert(t) \/ Mul(t) \/ Fetch(t) \/ AfterNode(t) \/ Reset(t)
    <3>1. pc'[t] # "spin" /\ UNCHANGED <<n_passed, n_barrier_passed>>
      BY <1>1, <2>3 DEF Begin, Test, Convert, Mul, Fetch, AfterNode, NextNode, Barrier, Reset, Goto,
         barrier, TypeOK
    <3> QED BY <1>3, <2>2, <3>1 DEF Waiting
  <2>4. CASE Enter(t) \/ Spin(t)
    <3>1. pc'[t] # "spin"
      BY <1>1, <1>10, <2>4 DEF Enter, Spin, Goto, TypeOK
    <3>2. n_barrier_passed' = n_barrier_passed /\ \A u \in Threads \ {t} : n_passed'[u] = n_passed[u]
      BY <1>1, <2>4 DEF Enter, Spin, Return, TypeOK
    <3> QED BY <1>3, <2>2, <3>1, <3>2 DEF Waiting
  <2>5. CASE Release(t)
    <3>1. pc[t] = "release" /\ pc'[t] # "spin"
      BY <1>10, <2>5 DEF Release
    <3>2. Busy(t)
      BY <3>1 DEF Busy, Out, Released, Computing
    <3>3. t \in Team'
      BY <2>2, <3>2, StepFacts DEF Team
    <3> QED BY <3>1, <3>3 DEF SomeoneMoves, Waiting
  <2>6. CASE Arrive(t)
    BY <2>6, MovesArrive
  <2> QED BY <1>11, <2>3, <2>4, <2>5, <2>6 DEF Run
<1>12. CASE UNCHANGED vars
  <2>1. UNCHANGED <<n_threads_cur, pc, n_passed, n_barrier_passed>>
    BY <1>12 DEF vars, signals, barrier
  <2> QED BY <1>3, <2>1 DEF Waiting
<1> QED BY <1>4, <1>5, <1>6, <1>7, <1>8, <1>9, <1>11, <1>12 DEF Next, MainStep

\* The pool does not deadlock: while ggml_graph_compute runs, some thread of the graph can go
\* on, so no barrier waits for a thread that is asleep, has exited or is itself waiting; and
\* when ggml_threadpool_free joins the workers, each of them is on its way out.
THEOREM PoolNeverStuck == ASSUME Uniform PROVE Spec => []NeverStuck
<1>1. Init => SomeoneMoves
  <2> SUFFICES ASSUME Init PROVE SomeoneMoves
    OBVIOUS
  <2>1. pc[0] = "idle" /\ 0 \in Team
    BY Caller0 DEF Init, Team
  <2> QED BY <2>1 DEF SomeoneMoves, Waiting
<1>2. PoolInv /\ PoolInv' /\ SomeoneMoves /\ [Next]_vars => SomeoneMoves'
  BY MovesStep
<1>3. ASSUME PoolInv, Wakeful, SomeoneMoves PROVE NeverStuck
  <2>1. TypeOK /\ Places /\ Together
    BY <1>3 DEF PoolInv
  <2>2. ASSUME pc[0] \in Computing PROVE \E t \in Threads : t < n_threads_cur /\ CanStep(t)
    <3>1. MutexFree /\ ~stop /\ ~pause
      BY <1>3, <2>2 DEF MutexFree, Wakeful, Computing
    <3>2. ASSUME NEW t \in Threads, pc[t] \in Computing, ~Waiting(t) PROVE CanStep(t)
      BY <3>1, <3>2 DEF CanStep, Waiting, Computing, Asleep
    <3>3. CASE ~Waiting(0)
      BY <2>1, <2>2, <3>2, <3>3, ThreadSets
    <3>4. CASE Waiting(0)
      <4>1. Busy(0)
        BY <2>2, <3>4 DEF Busy, Out, Released, Waiting
      <4>2. PICK t \in Team : ~Waiting(t)
        BY <1>3 DEF SomeoneMoves
      <4>3. t \in Threads /\ t < n_threads_cur /\ t \in Workers
        BY <2>1, <3>4, <4>2, ThreadSets
      <4>4. CASE pc[t] \in Computing
        BY <3>2, <4>2, <4>3, <4>4
      <4>5. CASE pc[t] \notin Computing
        <5>1. last_graph[t] # n_graph
          BY <2>1, <4>1, <4>3, <4>5 DEF Together, Busy, Seen
        <5>2. pc[t] \in Hunting /\ pc[t] \notin Asleep
          BY <1>3, <3>1, <4>3, <4>5, <5>1 DEF Wakeful, Asleep
        <5>3. CanStep(t)
          BY <3>1, <4>5, <5>2 DEF CanStep, Hunting, Polling, Asleep
        <5> QED BY <4>3, <5>3
      <4> QED BY <4>4, <4>5
    <3> QED BY <3>3, <3>4
  <2>3. ASSUME pc[0] = "join", NEW w \in Workers, pc[w] # "exited" PROVE CanStep(w)
    <3>1. MutexFree /\ stop /\ ~pause
      BY <1>3, <2>3 DEF MutexFree, Wakeful
    <3>2. CASE pc[w] \in Computing
      <4>1. ~Busy(0) /\ w \in Threads
        BY <2>1, <2>3, ThreadSets DEF Busy, Computing
      <4>2. ~Busy(w)
        BY <2>1, <4>1, BusyTogether
      <4>3. pc[w] = "spin" /\ n_passed[w] # n_barrier_passed
        BY <3>2, <4>2 DEF Busy, Out, Released
      <4> QED BY <4>3 DEF CanStep, Asleep
    <3>3. CASE pc[w] \notin Computing
      <4>1. pc[w] \in Hunting /\ pc[w] \notin Asleep
        BY <1>3, <2>3, <3>1, <3>3 DEF Wakeful, Asleep
      <4> QED BY <3>1, <4>1 DEF CanStep, Hunting, Polling, Asleep
    <3> QED BY <3>2, <3>3
  <2> QED BY <1>3, <2>2, <2>3 DEF NeverStuck, Wakeful
<1> QED BY <1>1, <1>2, <1>3, PoolInvariant, NoLostWakeup, PTL DEF Spec
===============================================================================
