--------------------------- MODULE MCQuantWorkers ---------------------------
(***************************************************************************)
(* A small instance of the quantization workers: two experts of five rows  *)
(* in chunks of two (the last one short), up to three threads; no defect,  *)
(* one, two in different chunks of one expert, and one in each expert.     *)
(***************************************************************************)
EXTENDS QuantWorkers

MCDefects == {{}, {<<0, 4>>}, {<<1, 0>>, <<1, 3>>}, {<<0, 2>>, <<1, 1>>}}
=============================================================================
