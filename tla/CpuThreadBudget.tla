-------------------------- MODULE CpuThreadBudget ---------------------------
(***************************************************************************)
(* The arithmetic of CpuThreadBudgetController (src/src/engine/cpu.cpp):   *)
(* leases of compute threads.  `active' counts the leased threads and      *)
(* those of them that were taken from the base allowance.                  *)
(***************************************************************************)
EXTENDS Integers

CONSTANTS
    MaxThreads,   \* thread_budget.max_threads
    NumThreads    \* thread_budget.num_threads, the base allowance

(* The clamps of the constructor.                                          *)
ASSUME ThreadBudgetAssumption ==
    /\ MaxThreads \in Nat /\ NumThreads \in 1 .. MaxThreads

Least(a, b) == IF a <= b THEN a ELSE b
Most(a, b) == IF a <= b THEN b ELSE a

Lease == [count : Nat, base : Nat]
NoLease == [count |-> 0, base |-> 0]

Available(active, extra) ==
    IF extra THEN MaxThreads - active.count
    ELSE Least(MaxThreads - active.count, NumThreads - active.base)

(* The lease granted: empty when nothing is left.  The base allowance is   *)
(* used up first, by leases of extra threads too.                          *)
Grant(active, requested, extra) ==
    LET count == Least(requested, Available(active, extra))
    IN  [count |-> count, base |-> Least(count, NumThreads - active.base)]

Leased(active, lease) ==
    [count |-> active.count + lease.count, base |-> active.base + lease.base]
Returned(active, lease) ==
    [count |-> active.count - lease.count, base |-> active.base - lease.base]

CeilDiv(a, b) == (a + b - 1) \div b

(* choose_cpu_team_size                                                    *)
TeamSize(work_units, items, per_item, available) ==
    IF work_units = 0 THEN 1
    ELSE LET useful == Least(Most(1, per_item),
                             Most(1, CeilDiv(work_units, Most(1, items))))
         IN  Least(Most(1, available), Most(1, items) * useful)
=============================================================================
