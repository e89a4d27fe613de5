--------------------------- MODULE MCLocalPipeline ---------------------------
EXTENDS LocalPipeline

\* The pipeline asks for the whole roster.
MCRequested == [r \in Runs |-> {}]
=============================================================================
