---------------------------- MODULE MCMaintenance ----------------------------
EXTENDS Maintenance

CONSTANTS p1, p2

\* Every command meets a running service or a restore, and is met by one.
Operator ==
  [p \in Procs |-> IF p = p1 THEN {"serve", "restore"}
                  ELSE {"cleanup", "reconcile", "repair", "backup"}]

\* Once the lease is breached and two processes are at work there is nothing left
\* that the invariants promise: such a state is checked and not followed further.
Explored == breached => \E p \in Procs : ~AtWork(p)
=============================================================================
