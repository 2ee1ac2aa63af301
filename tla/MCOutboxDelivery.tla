-------------------------- MODULE MCOutboxDelivery --------------------------
EXTENDS OutboxDelivery, TLC

\* Every worker of the instance serves every row (application "*").
ServeAll == [w \in Worker |-> Row]

\* A deployment with a single worker process, and a replicated one in which
\* every process runs one worker.
OneProcess == [w \in Worker |-> CHOOSE p \in Process : TRUE]
OwnProcess == [w \in Worker |-> w]

Symmetric == Permutations(Row) \union Permutations(Worker)
=============================================================================
