---------------------------- MODULE MCThreadPool ----------------------------
(***************************************************************************)
(* Constants of the runs of ThreadPool.                                    *)
(***************************************************************************)
EXTENDS ThreadPool

\* Every graph of a pool asks for the same number of threads: all of them, fewer,
\* one, or more than there are.
MCFixedCounts == {{1}, {2}, {3}, {5}}
\* A graph of single-task operations asks for one thread (ggml_graph_plan takes the
\* largest number of tasks of a node), the next one for two.
MCMixedCounts == {{1, 2}}
=============================================================================
