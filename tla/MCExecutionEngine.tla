------------------------- MODULE MCExecutionEngine -------------------------
EXTENDS ExecutionEngine

\* Two branches; the order of the nodes is not the order of the dependencies.
Branches == <<{2}, {}, {}, {3}>>

\* No task has an input that nothing produces, or one has.
OneBlocked == {{}, {4}}
=============================================================================
