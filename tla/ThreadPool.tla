----------------------------- MODULE ThreadPool -----------------------------
(***************************************************************************)
(* The CPU thread pool of ggml (ggml-cpu.c, built without OpenMP): thread  *)
(* 0 is the caller of ggml_graph_compute and a worker too; the others poll *)
(* for a new graph, then sleep on a condition variable.  The threads of a  *)
(* graph go through its nodes together, kept in step by a spinning barrier *)
(* after every node and one inside every matrix product, whose chunks are  *)
(* taken from a shared counter.  A step is one access to shared memory, or *)
(* one section under the mutex; atomics are taken as sequentially          *)
(* consistent.                                                             *)
(***************************************************************************)
EXTENDS Integers, FiniteSets

CONSTANTS
    NThreadsMax,      \* n_threads_max of the pool
    NNodes,           \* cgraph->n_nodes, every node a matrix product
    FineChunks,       \* chunks of a product, before the number of threads is looked at
    ChunksPerThread,  \* 4 in the code: fewer than this per thread is one chunk per thread
    CountSets,        \* sets of thread counts the graphs of one pool may ask for
    MaxGraphs         \* bound on the graphs computed

ASSUME PoolAssumption ==
    /\ NThreadsMax \in Nat \ {0} /\ NNodes \in Nat \ {0}
    /\ FineChunks \in Nat \ {0} /\ ChunksPerThread \in Nat \ {0}
    /\ CountSets \subseteq SUBSET (Nat \ {0})
    /\ MaxGraphs \in Nat

Threads == 0..(NThreadsMax - 1)
Workers == 1..(NThreadsMax - 1)
Nodes == 0..(NNodes - 1)
\* Numbers of chunks in any product: one per thread, or FineChunks.
Chunks == 0..((IF FineChunks > NThreadsMax THEN FineChunks ELSE NThreadsMax) - 1)

VARIABLES
    counts,                              \* the member of CountSets of this pool
    n_graph, n_threads_cur,              \* written under the mutex, read without it
    stop, pause,                         \*   likewise
    n_barrier, n_barrier_passed,
    current_chunk, abort, ec,
    wdata,      \* the node whose converted input each thread's slice of wdata holds
    pc,
    last_graph, new_graph,               \* of each thread's search for work
    nth, node_n, chunk,                  \* of ggml_graph_compute_thread, per thread
    n_threads, n_passed, ret,            \* of ggml_barrier, per thread; ret is where
                                         \* the thread goes on after it
    work        \* history: how often each chunk of each node was computed

signals == <<n_graph, n_threads_cur, stop, pause>>
barrier == <<n_barrier, n_barrier_passed, n_threads, n_passed>>
search == <<last_graph, new_graph>>
compute == <<current_chunk, abort, ec, wdata, nth, node_n, chunk, work>>
vars == <<counts, signals, barrier, search, compute, pc, ret>>

Goto(t, l) == pc' = [pc EXCEPT ![t] = l]

\* Inside ggml_graph_compute_thread.
Computing == {"begin", "test", "convert", "mul", "fetch", "after",
              "enter", "arrive", "reset", "release", "spin"}
Polling == {"load", "active"}
Asleep == {"psleep", "wsleep"}

\* cond_broadcast: both waits test their condition again.
Broadcast(p) == [t \in Threads |-> CASE p[t] = "psleep" -> "top"
                                     [] p[t] = "wsleep" -> "wlock"
                                     [] OTHER -> p[t]]
\* Thread 0 holds the mutex between the two stores of the kickoff.
MutexFree == pc[0] # "kick"

Active(t) == t < n_threads_cur

-----------------------------------------------------------------------------
\* ggml_threadpool_new_impl
Init ==
    /\ counts \in CountSets
    /\ n_graph = 0 /\ n_threads_cur = NThreadsMax
    /\ stop = FALSE /\ pause \in BOOLEAN
    /\ n_barrier = 0 /\ n_barrier_passed = 0
    /\ current_chunk = 0 /\ abort = -1 /\ ec = "success"
    /\ wdata = [t \in Threads |-> -1]
    /\ pc = [t \in Threads |-> IF t = 0 THEN "idle" ELSE "top"]
    /\ last_graph = [t \in Threads |-> 0] /\ new_graph = [t \in Threads |-> 0]
    /\ nth = [t \in Threads |-> 0] /\ node_n = [t \in Threads |-> 0]
    /\ chunk = [t \in Threads |-> 0]
    /\ n_threads = [t \in Threads |-> 0] /\ n_passed = [t \in Threads |-> 0]
    /\ ret = [t \in Threads |-> "none"]
    /\ work = [n \in Nodes |-> [c \in Chunks |-> 0]]

-----------------------------------------------------------------------------
\* Thread 0 outside a graph.

\* Seeded fault: a graph may ask for more threads than the pool has.
Unlimited(n) == n
Available(n) == IF n > NThreadsMax THEN NThreadsMax ELSE n

\* ggml_graph_compute, up to the first store of the kickoff: the pool is reset for
\* the graph, and no more threads are used than the pool has.
Compute(n) ==
    /\ pc[0] = "idle" /\ n_graph < MaxGraphs
    /\ current_chunk' = 0 /\ abort' = -1 /\ ec' = "success"
    /\ n_threads_cur' = Available(n)
    /\ work' = [m \in Nodes |-> [c \in Chunks |-> 0]]
    /\ wdata' = [t \in Threads |-> -1]
    /\ Goto(0, "kick")
    /\ UNCHANGED <<counts, n_graph, stop, pause, barrier, search, nth, node_n, chunk,
                   ret>>

\* Seeded fault: sleeping threads are not told of the new graph.
KickoffSilent ==
    /\ pc[0] = "kick"
    /\ n_graph' = n_graph + 1
    /\ pause' = FALSE
    /\ Goto(0, "begin")
    /\ UNCHANGED <<counts, n_threads_cur, stop, barrier, search, compute, ret>>
\* The rest of ggml_graph_compute_kickoff: the graph is announced and the pool
\* resumed, then the mutex released.
Kickoff ==
    /\ pc[0] = "kick"
    /\ n_graph' = n_graph + 1
    /\ pause' = FALSE
    /\ pc' = [Broadcast(pc) EXCEPT ![0] = "begin"]
    /\ UNCHANGED <<counts, n_threads_cur, stop, barrier, search, compute, ret>>

\* ggml_threadpool_pause, ggml_threadpool_resume
SetPause(p) ==
    /\ pc[0] = "idle" /\ pause # p
    /\ pause' = p
    /\ pc' = Broadcast(pc)
    /\ UNCHANGED <<counts, n_graph, n_threads_cur, stop, barrier, search, compute, ret>>

\* Seeded fault: a paused pool is stopped without being resumed.
FreeStaysPaused ==
    /\ pc[0] = "idle"
    /\ stop' = TRUE
    /\ pc' = [Broadcast(pc) EXCEPT ![0] = "join"]
    /\ UNCHANGED <<counts, pause, n_graph, n_threads_cur, barrier, search, compute, ret>>
\* ggml_threadpool_free
Free ==
    /\ pc[0] = "idle"
    /\ stop' = TRUE /\ pause' = FALSE
    /\ pc' = [Broadcast(pc) EXCEPT ![0] = "join"]
    /\ UNCHANGED <<counts, n_graph, n_threads_cur, barrier, search, compute, ret>>

Joined ==
    /\ pc[0] = "join"
    /\ \A w \in Workers : pc[w] = "exited"
    /\ Goto(0, "freed")
    /\ UNCHANGED <<counts, signals, barrier, search, compute, ret>>

-----------------------------------------------------------------------------
\* ggml_graph_compute_secondary_thread.  The top of its loop: sleep while the pool
\* is paused, leave if it is stopped, otherwise poll for work unless this thread
\* was not used by the last graph.
Top(w) ==
    /\ pc[w] = "top"
    /\ Goto(w, IF pause THEN "plock"
               ELSE IF stop THEN "exited"
               ELSE "poll")
    /\ UNCHANGED <<counts, signals, barrier, search, compute, ret>>

PauseWait(w) ==
    /\ pc[w] = "plock" /\ MutexFree
    /\ Goto(w, IF pause THEN "psleep" ELSE "top")
    /\ UNCHANGED <<counts, signals, barrier, search, compute, ret>>

Poll(w) ==
    /\ pc[w] = "poll"
    /\ Goto(w, IF Active(w) THEN "load" ELSE "wlock")
    /\ UNCHANGED <<counts, signals, barrier, search, compute, ret>>

\* One round of polling reads n_graph and then, if it has changed, n_threads_cur,
\* both without the mutex.  The number of rounds is limited, so after any round the
\* thread may go on to wait under the mutex.
LoadGraph(w) ==
    /\ pc[w] = "load"
    /\ IF stop \/ pause
       THEN Goto(w, "wlock") /\ UNCHANGED new_graph
       ELSE IF n_graph # last_graph[w]
       THEN Goto(w, "active") /\ new_graph' = [new_graph EXCEPT ![w] = n_graph]
       ELSE Goto(w, "wlock") /\ UNCHANGED new_graph
    /\ UNCHANGED <<counts, signals, barrier, last_graph, compute, ret>>

\* Seeded fault: the graph is noticed but not remembered as seen.
LoadActiveForgets(w) ==
    /\ pc[w] = "active"
    /\ new_graph' = [new_graph EXCEPT ![w] = 0]
    /\ \/ Active(w) /\ Goto(w, "begin")
       \/ ~Active(w) /\ \E l \in {"load", "wlock"} : Goto(w, l)
    /\ UNCHANGED <<counts, signals, barrier, last_graph, compute, ret>>
LoadActive(w) ==
    /\ pc[w] = "active"
    /\ last_graph' = [last_graph EXCEPT ![w] = new_graph[w]]
    /\ new_graph' = [new_graph EXCEPT ![w] = 0]
    /\ \/ Active(w) /\ Goto(w, "begin")
       \/ ~Active(w) /\ \E l \in {"load", "wlock"} : Goto(w, l)
    /\ UNCHANGED <<counts, signals, barrier, compute, ret>>

\* The wait under the mutex: ggml_graph_compute_thread_ready, and ggml_cond_wait if
\* it says no.
WorkWait(w) ==
    /\ pc[w] = "wlock" /\ MutexFree
    /\ IF stop \/ pause
       THEN Goto(w, "top") /\ UNCHANGED last_graph
       ELSE /\ last_graph' = [last_graph EXCEPT ![w] = n_graph]
            /\ Goto(w, IF n_graph # last_graph[w] /\ Active(w) THEN "begin" ELSE "wsleep")
    /\ UNCHANGED <<counts, signals, barrier, new_graph, compute, ret>>

-----------------------------------------------------------------------------
\* ggml_barrier, called with the place to go on at.
Barrier(t, r) ==
    /\ Goto(t, "enter")
    /\ ret' = [ret EXCEPT ![t] = r]

\* ggml_graph_compute_thread returns: the caller is back in its loop, and what was
\* local to the call is gone.
Leave(t) ==
    /\ Goto(t, IF t = 0 THEN "idle" ELSE "top")
    /\ node_n' = [node_n EXCEPT ![t] = 0]
    /\ nth' = [nth EXCEPT ![t] = 0]
    /\ chunk' = [chunk EXCEPT ![t] = 0]

\* After the barrier: into the product's chunks, on to the next node, or out.
Return(t) ==
    /\ \/ /\ ret[t] = "mul" /\ Goto(t, "mul")
          /\ UNCHANGED <<node_n, nth, chunk>>
       \/ /\ ret[t] = "next" /\ Goto(t, "test")
          /\ node_n' = [node_n EXCEPT ![t] = @ + 1]
          /\ UNCHANGED <<nth, chunk>>
       \/ ret[t] = "leave" /\ Leave(t)
    /\ ret' = [ret EXCEPT ![t] = "none"]
    /\ n_threads' = [n_threads EXCEPT ![t] = 0]
    /\ n_passed' = [n_passed EXCEPT ![t] = 0]

Enter(t) ==
    /\ pc[t] = "enter"
    /\ \/ n_threads_cur = 1 /\ Return(t)
       \/ /\ n_threads_cur # 1
          /\ n_threads' = [n_threads EXCEPT ![t] = n_threads_cur]
          /\ n_passed' = [n_passed EXCEPT ![t] = n_barrier_passed]
          /\ Goto(t, "arrive")
          /\ UNCHANGED <<ret, node_n, nth, chunk>>
    /\ UNCHANGED <<counts, signals, n_barrier, n_barrier_passed, search,
                   current_chunk, abort, ec, wdata, work>>

Arrive(t) ==
    /\ pc[t] = "arrive"
    /\ n_barrier' = n_barrier + 1
    /\ Goto(t, IF n_barrier = n_threads[t] - 1 THEN "reset" ELSE "spin")
    /\ UNCHANGED <<counts, signals, n_barrier_passed, n_threads, n_passed, search,
                   compute, ret>>

\* The last thread to arrive clears the counter, then lets the others go.
Reset(t) ==
    /\ pc[t] = "reset"
    /\ n_barrier' = 0
    /\ Goto(t, "release")
    /\ UNCHANGED <<counts, signals, n_barrier_passed, n_threads, n_passed, search,
                   compute, ret>>

Release(t) ==
    /\ pc[t] = "release"
    /\ n_barrier_passed' = n_barrier_passed + 1
    /\ Return(t)
    /\ UNCHANGED <<counts, signals, n_barrier, search, current_chunk, abort, ec,
                   wdata, work>>

Spin(t) ==
    /\ pc[t] = "spin" /\ n_barrier_passed # n_passed[t]
    /\ Return(t)
    /\ UNCHANGED <<counts, signals, n_barrier, n_barrier_passed, search,
                   current_chunk, abort, ec, wdata, work>>

-----------------------------------------------------------------------------
\* ggml_graph_compute_thread
Begin(t) ==
    /\ pc[t] = "begin"
    /\ nth' = [nth EXCEPT ![t] = n_threads_cur]
    /\ node_n' = [node_n EXCEPT ![t] = 0]
    /\ Goto(t, "test")
    /\ UNCHANGED <<counts, signals, barrier, search, current_chunk, abort, ec, wdata,
                   chunk, work, ret>>

Test(t) ==
    /\ pc[t] = "test"
    /\ IF node_n[t] < NNodes /\ abort # node_n[t]
       THEN Goto(t, "convert") /\ UNCHANGED ret
       ELSE Barrier(t, "leave")
    /\ UNCHANGED <<counts, signals, barrier, search, compute>>

\* Seeded fault: the counter is left where the last product ended.
ConvertNoReset(t) ==
    /\ pc[t] = "convert"
    /\ wdata' = [wdata EXCEPT ![t] = node_n[t]]
    /\ chunk' = [chunk EXCEPT ![t] = t]
    /\ Barrier(t, "mul")
    /\ UNCHANGED <<counts, signals, barrier, search, current_chunk, abort, ec, nth,
                   node_n, work>>
\* ggml_compute_forward_mul_mat: each thread converts its slice of the input, and
\* thread 0 sets the counter past the chunks the threads start with.
Convert(t) ==
    /\ pc[t] = "convert"
    /\ wdata' = [wdata EXCEPT ![t] = node_n[t]]
    /\ current_chunk' = IF t = 0 THEN nth[t] ELSE current_chunk
    /\ chunk' = [chunk EXCEPT ![t] = t]
    /\ Barrier(t, "mul")
    /\ UNCHANGED <<counts, signals, barrier, search, abort, ec, nth, node_n, work>>

\* nchunk0 * nchunk1 with n threads
ChunksFor(n) == IF FineChunks < n * ChunksPerThread THEN n ELSE FineChunks
NChunk(t) == ChunksFor(nth[t])

\* One chunk, or the end of the product.
Mul(t) ==
    /\ pc[t] = "mul"
    /\ IF chunk[t] < NChunk(t)
       THEN /\ work' = [work EXCEPT ![node_n[t]][chunk[t]] = @ + 1]
            /\ Goto(t, IF nth[t] >= NChunk(t) THEN "after" ELSE "fetch")
       ELSE Goto(t, "after") /\ UNCHANGED work
    /\ UNCHANGED <<counts, signals, barrier, search, current_chunk, abort, ec, wdata,
                   nth, node_n, chunk, ret>>

Fetch(t) ==
    /\ pc[t] = "fetch"
    /\ chunk' = [chunk EXCEPT ![t] = current_chunk]
    /\ current_chunk' = current_chunk + 1
    /\ Goto(t, "mul")
    /\ UNCHANGED <<counts, signals, barrier, search, abort, ec, wdata, nth, node_n,
                   work, ret>>

\* Seeded fault: no barrier after a node.
NextNodeAtOnce(t) ==
    /\ node_n' = [node_n EXCEPT ![t] = @ + 1]
    /\ Goto(t, "test")
    /\ UNCHANGED ret
\* The barrier after a node; the last one's is the one at the end.
NextNode(t) ==
    IF node_n[t] + 1 < NNodes
    THEN Barrier(t, "next") /\ UNCHANGED node_n
    ELSE /\ node_n' = [node_n EXCEPT ![t] = @ + 1]
         /\ Goto(t, "test")
         /\ UNCHANGED ret

\* The abort callback, which thread 0 asks after each node, and the node's end.
AfterNode(t) ==
    /\ pc[t] = "after"
    /\ \/ UNCHANGED <<abort, ec>>
       \/ t = 0 /\ abort' = node_n[t] + 1 /\ ec' = "aborted"
    /\ NextNode(t)
    /\ UNCHANGED <<counts, signals, barrier, search, current_chunk, wdata, nth, chunk,
                   work>>

-----------------------------------------------------------------------------
Run(t) ==
    \/ Begin(t) \/ Test(t) \/ Convert(t) \/ Mul(t) \/ Fetch(t) \/ AfterNode(t)
    \/ Enter(t) \/ Arrive(t) \/ Reset(t) \/ Release(t) \/ Spin(t)

WorkerStep(w) ==
    \/ Top(w) \/ PauseWait(w) \/ Poll(w) \/ LoadGraph(w) \/ LoadActive(w) \/ WorkWait(w)

\* What thread 0 does without being asked.
MainStep == Kickoff \/ Joined \/ Run(0)

Next ==
    \/ \E n \in counts : Compute(n)
    \/ \E p \in BOOLEAN : SetPause(p)
    \/ Free
    \/ MainStep
    \/ \E w \in Workers : WorkerStep(w) \/ Run(w)

\* Every thread keeps running.
Spec ==
    /\ Init /\ [][Next]_vars
    /\ WF_vars(MainStep)
    /\ \A w \in Workers : WF_vars(WorkerStep(w) \/ Run(w))

-----------------------------------------------------------------------------
Hunting == {"top", "plock", "poll", "wlock"} \cup Polling \cup Asleep

\* Type correctness of the pool and of every thread's locals: no graph uses more
\* threads than ggml_graph_compute clamped n_threads_cur to, and the barrier counts
\* no more arrivals than that.
TypeOK ==
    /\ counts \in CountSets
    /\ n_graph \in 0..MaxGraphs /\ n_threads_cur \in 1..NThreadsMax
    /\ stop \in BOOLEAN /\ pause \in BOOLEAN
    /\ n_barrier \in 0..NThreadsMax /\ n_barrier_passed \in Nat
    /\ current_chunk \in Nat /\ abort \in {-1} \cup 1..NNodes
    /\ ec \in {"success", "aborted"}
    /\ wdata \in [Threads -> {-1} \cup Nodes]
    /\ pc \in [Threads -> Computing \cup Hunting \cup
                          {"exited", "idle", "kick", "join", "freed"}]
    /\ last_graph \in [Threads -> 0..MaxGraphs] /\ new_graph \in [Threads -> 0..MaxGraphs]
    /\ nth \in [Threads -> 0..NThreadsMax] /\ node_n \in [Threads -> 0..NNodes]
    /\ chunk \in [Threads -> Nat]
    /\ n_threads \in [Threads -> 0..NThreadsMax] /\ n_passed \in [Threads -> Nat]
    /\ ret \in [Threads -> {"none", "mul", "next", "leave"}]
    /\ work \in [Nodes -> [Chunks -> Nat]]

\* A thread multiplies only when every thread of the graph has converted its slice
\* of this node's input, nobody has begun to overwrite it for a later node, and
\* every chunk of every earlier node is done.
InStep ==
    \A t \in Threads : pc[t] = "mul" =>
        /\ \A u \in Threads : u < nth[t] => wdata[u] = node_n[t]
        /\ \A n \in Nodes, c \in Chunks :
             n < node_n[t] /\ c < NChunk(t) => work[n][c] = 1

\* No chunk of a product is computed twice, however the threads race for the shared
\* counter, and a graph that ends with success has computed all of them.
ChunksOnce ==
    /\ \A n \in Nodes, c \in Chunks : work[n][c] <= 1
    /\ pc[0] = "idle" /\ n_graph > 0 /\ ec = "success" =>
         \A n \in Nodes, c \in Chunks : c < ChunksFor(n_threads_cur) => work[n][c] = 1

\* When the callback aborts a graph after a node, no thread starts a later one.
AbortStops ==
    abort # -1 => \A n \in Nodes, c \in Chunks : n >= abort => work[n][c] = 0

\* "No worker threads should be accessing the parameters below at this stage"
\* (ggml-cpu.c:3146): while thread 0 is outside ggml_graph_compute, no worker is
\* inside a graph, except to notice that the last barrier has been passed.
QuietPool ==
    pc[0] \in {"idle", "join", "freed"} =>
        \A w \in Workers : pc[w] \in Computing =>
            pc[w] = "spin" /\ ret[w] = "leave" /\ n_barrier_passed # n_passed[w]

\* The thread is not waiting: it neither sleeps nor spins at a closed barrier nor stands
\* before the mutex while thread 0 holds it.
CanStep(t) ==
    /\ pc[t] \notin Asleep \cup {"idle", "join", "freed", "exited"}
    /\ pc[t] = "spin" => n_barrier_passed # n_passed[t]
    /\ pc[t] \in {"plock", "wlock"} => MutexFree

\* Nobody is left behind by a signal or a barrier: a thread sleeps only while the pool is
\* paused, or knowing of the latest graph with no stop or pause pending; while thread 0 is
\* in a graph some thread of that graph can go on; and while a pool is freed every
\* worker that has not exited can.
NeverStuck ==
    /\ \A w \in Workers :
         /\ pc[w] = "psleep" => pause
         /\ pc[w] = "wsleep" => ~stop /\ ~pause /\ last_graph[w] = n_graph
    /\ pc[0] \in Computing => \E t \in Threads : t < n_threads_cur /\ CanStep(t)
    /\ pc[0] = "join" => \A w \in Workers : pc[w] = "exited" \/ CanStep(w)

\* A graph that was started ends: no barrier waits for a thread that is not coming,
\* and no sleeping thread misses the signal.
GraphReturns == pc[0] = "kick" ~> pc[0] = "idle"

\* Freeing a pool, paused or not, ends all its threads.
FreeReturns == pc[0] = "join" ~> pc[0] = "freed"
=============================================================================
