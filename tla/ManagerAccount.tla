--------------------------- MODULE ManagerAccount ---------------------------
(***************************************************************************)
(* The account that signs the operations, as the node serves it to the     *)
(* packages under src/packages (external code): its counter and whether    *)
(* its key is revealed at the head, and the mempool, which takes one       *)
(* operation per account and block.  A block that leaves the account alone *)
(* is not a step.                                                          *)
(***************************************************************************)
EXTENDS Naturals, Integers, Sequences

CONSTANTS
    Senders,        \* the sends of the toolkit
    MaxForeign      \* bound on the operations other clients have included

ASSUME AccountAssumption == MaxForeign \in Nat

VARIABLES
    account,    \* the counter and the revealed status at the head
    pool,       \* the operation of the account that waits for the next block
    foreign     \* how many operations of other clients were included

accountVars == <<account, pool, foreign>>

Account == [counter : Nat, revealed : BOOLEAN]

\* A manager operation: its first counter, whether a reveal leads it, and how many
\* operations follow.
ManagerOperation == [counter : Nat, reveal : BOOLEAN, size : Nat]

NoOperation == [counter |-> 0, reveal |-> FALSE, size |-> 0]

Length(o) == o.size + IF o.reveal THEN 1 ELSE 0

AccountTypeOK ==
    /\ account \in Account
    /\ pool \in ManagerOperation
    /\ foreign \in 0..MaxForeign

AccountInit ==
    /\ account \in [counter : {0}, revealed : BOOLEAN]
    /\ pool = NoOperation
    /\ foreign = 0

\* The operation can be applied at the head: run_operation and preapply answer so.
Applies(o) ==
    /\ o.counter = account.counter + 1
    /\ o.reveal <=> ~account.revealed

\* A block includes what the mempool holds.
Bake ==
    /\ pool # NoOperation
    /\ account' = [counter |-> account.counter + Length(pool), revealed |-> TRUE]
    /\ pool' = NoOperation
    /\ UNCHANGED foreign

\* A block includes an operation that another client has sent for the account; what
\* the mempool held has its counters in the past.
Foreign ==
    /\ foreign < MaxForeign
    /\ account' = [counter |-> account.counter + IF account.revealed THEN 1 ELSE 2,
                   revealed |-> TRUE]
    /\ pool' = NoOperation
    /\ foreign' = foreign + 1

\* The node takes o into its mempool.
Takes(o) == pool = NoOperation /\ Applies(o)
=============================================================================
