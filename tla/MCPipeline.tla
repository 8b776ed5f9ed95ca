----------------------------- MODULE MCPipeline -----------------------------
(* AnalysisPipeline on small instances.                                    *)
EXTENDS AnalysisPipeline, TLC

WorkerSymmetry == Permutations(Workers)
=============================================================================
