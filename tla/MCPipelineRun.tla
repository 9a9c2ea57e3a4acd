--------------------------- MODULE MCPipelineRun ---------------------------
(* Files for the model checking of PipelineRun: a dirty one (1 row in 10   *)
(* does not parse), and one of which adjudication rejects half.            *)
EXTENDS PipelineRun

CONSTANTS Dirt, Suspect

RowsMC == [f \in Files |-> 60]
BadRowsMC == [f \in Files |-> IF f = Dirt THEN 6 ELSE 0]
RejectsMC == [f \in Files |-> IF f = Suspect THEN 30 ELSE 0]
=============================================================================
