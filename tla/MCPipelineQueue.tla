--------------------------- MODULE MCPipelineQueue --------------------------
(***************************************************************************)
(* PipelineQueue for TLC.                                                  *)
(***************************************************************************)
EXTENDS PipelineQueue

=============================================================================
