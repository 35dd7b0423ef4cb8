-------------------------- MODULE MCGraphGenesisV2 --------------------------
\* The second Graph Genesis composition with model values for its outputs.
EXTENDS GraphGenesisV2Execution
=============================================================================
