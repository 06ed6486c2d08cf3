------------------------ MODULE MCFileExecutionStore ------------------------
EXTENDS FileExecutionStore
=============================================================================
