------------------------- MODULE MCGenerationQueue -------------------------
(***************************************************************************)
(* GenerationQueue for TLC: four tasks against a capacity of two, so that  *)
(* one can run, two wait and one be refused.                               *)
(***************************************************************************)
EXTENDS GenerationQueue
=============================================================================
