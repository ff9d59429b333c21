----------------------------- MODULE MCDataflow -----------------------------
EXTENDS Dataflow
CONSTANTS a, d
=============================================================================
