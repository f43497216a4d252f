---------------------------- MODULE BackendSched ----------------------------
(***************************************************************************)
(* The part of ggml's backend scheduler that its clients depend on: which  *)
(* graph is allocated, and therefore which graph a compute call executes.  *)
(* The scheduler is shared by every session of a model, so a client that   *)
(* believes its own graph is still allocated may be wrong.                 *)
(* A scheduler is a record; each operator is the record after the call.    *)
(***************************************************************************)

\* The graphs built over the shared scheduler: the joint graph of the main
\* session, and the graphs of the prefix and the suffix session.
Graphs == {"joint", "prefix", "suffix"}

Schedulers == [is_reset : BOOLEAN, is_alloc : BOOLEAN, graph : Graphs]

\* ggml_backend_sched_reset: forget the allocation.
SchedReset(s) == [s EXCEPT !.is_reset = TRUE, !.is_alloc = FALSE]

\* ggml_backend_sched_alloc_graph, successful: split_graph clears is_reset,
\* the splits are those of g from now on.
SchedAllocGraph(s, g) ==
    [s EXCEPT !.is_reset = FALSE, !.is_alloc = TRUE, !.graph = g]

\* ggml_backend_sched_graph_compute(s, g): g is allocated only when nothing is
\* allocated. The splits that run are those of the result's `graph`, whatever
\* the argument g was.
SchedGraphCompute(s, g) ==
    IF s.is_alloc
      THEN s
      ELSE SchedAllocGraph(IF s.is_reset THEN s ELSE SchedReset(s), g)

=============================================================================
