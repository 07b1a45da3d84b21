------------------------------ MODULE Estimates ------------------------------
(***************************************************************************)
(* packages/taquito/src/estimate: the limits and fees of operations.       *)
(*   rpc-estimate-provider.ts            limits of the simulation, sizes   *)
(*   estimate.ts                         what is made of its result        *)
(* A batch grows operation by operation; in every state it can be          *)
(* estimated and sent.  A fee is a whole number of mutez, gas is counted   *)
(* in thousandths.  The code adds up doubles, which may make a whole fee   *)
(* one mutez higher, never lower.                                          *)
(***************************************************************************)
EXTENDS Integers, Sequences, Sums

CONSTANTS
    Milligas,           \* what the simulation says an operation consumes
    Sizes,              \* bytes of a content that is forged for the simulation
    GasLimits,          \* limits that users give, with 0 for none
    MaxOperations,      \* bound on the operations of a batch
    HardGasOperation,   \* hard_gas_limit_per_operation
    HardGasBlock        \* hard_gas_limit_per_block

ASSUME EstimateAssumption ==
    /\ Milligas \subseteq Nat /\ Sizes \subseteq Nat /\ GasLimits \subseteq Nat
    /\ MaxOperations \in Nat \ {0} /\ {HardGasOperation, HardGasBlock} \subseteq Nat

VARIABLES
    contents,   \* the operations
    batched,    \* whether they are estimated as a batch, or one is on its own
    unrevealed  \* whether a reveal is put in front

estimateVars == <<contents, batched, unrevealed>>

Content == [milligas : Milligas, size : Sizes, gas : GasLimits]

EstimatesTypeOK ==
    /\ contents \in Seq(Content) /\ Len(contents) <= MaxOperations
    /\ batched \in BOOLEAN /\ unrevealed \in BOOLEAN

EstimatesInit == contents = <<>> /\ batched \in BOOLEAN /\ unrevealed \in BOOLEAN

-----------------------------------------------------------------------------
MINIMAL_FEE_MUTEZ == 100
GAS_BUFFER == 100
DEFAULT_GAS_REVEAL == 1100
OP_SIZE_REVEAL == 128
RevealMilligas == 1000000       \* what the simulation says of a reveal

LowerOf(a, b) == IF a < b THEN a ELSE b
CeilDiv(a, b) == (a + b - 1) \div b

\* Mutated DefaultGas: nothing is left for a reveal.
DefaultGas_NoReveal(n) ==
    IF n = 0 THEN HardGasOperation ELSE LowerOf(HardGasOperation, HardGasBlock \div n)

\* getAccountLimits: the gas of an operation that the user gives no limit, with 0 for
\* numberOfOps if it is on its own.
DefaultGas(n) ==
    IF n = 0 THEN HardGasOperation ELSE LowerOf(HardGasOperation, HardGasBlock \div (n + 1))

NumberOfOps == IF batched THEN Len(contents) ELSE 0

\* mergeLimits
SimulatedGas(i) == IF contents[i].gas # 0 THEN contents[i].gas ELSE DefaultGas(NumberOfOps)

\* The bytes that are forged for the simulation, with the branch and without a signature.
OpBytes ==
    32 + SumAll([i \in DOMAIN contents |-> contents[i].size])
       + IF unrevealed THEN OP_SIZE_REVEAL \div 2 ELSE 0

\* Mutated OperationFee: the size is left out.
OperationFee_GasOnly(milligas, bytes, n, base) ==
    base + CeilDiv(milligas + 1000 * GAS_BUFFER, 10000)

\* operationFeeMutez of one of n operations that share the bytes, and a base, rounded up.
OperationFee(milligas, bytes, n, base) ==
    base + CeilDiv(n * (milligas + 1000 * GAS_BUFFER) + 10000 * bytes, 10000 * n)

\* Mutated SuggestedFee: without the second base fee.
SuggestedFee_Once(milligas, bytes, n) == OperationFee(milligas, bytes, n, MINIMAL_FEE_MUTEZ)

SuggestedFee(milligas, bytes, n) == OperationFee(milligas, bytes, n, 2 * MINIMAL_FEE_MUTEZ)

MinimalFee(milligas, bytes, n) == OperationFee(milligas, bytes, n, MINIMAL_FEE_MUTEZ)

GasLimit(milligas) == CeilDiv(milligas, 1000) + GAS_BUFFER

\* estimate() of OperationEmitter: the limit an operation is sent with.
SentGas(i) ==
    IF contents[i].gas # 0 THEN contents[i].gas ELSE GasLimit(contents[i].milligas)

\* Another operation, on its own or behind the others.  The simulation of it succeeds.
AddOperation(c) ==
    /\ Len(contents) < IF batched THEN MaxOperations ELSE 1
    /\ contents' = Append(contents, c)
    /\ \A i \in DOMAIN contents' :
          contents'[i].milligas <= 1000 *
              IF contents'[i].gas # 0 THEN contents'[i].gas
              ELSE DefaultGas(IF batched THEN Len(contents') ELSE 0)
    /\ UNCHANGED <<batched, unrevealed>>

EstimatesNext == \E c \in Content : AddOperation(c)

EstimatesSpec == EstimatesInit /\ [][EstimatesNext]_estimateVars

-----------------------------------------------------------------------------
(* Properties *)

\* The bytes of a number in a forged operation.
Width(n) == IF n < 128 THEN 1 ELSE IF n < 16384 THEN 2 ELSE IF n < 2097152 THEN 3 ELSE 4

\* Ten times the fee that the node asks for by default: for the operation, its bytes with
\* the signature, and its gas.  Fees and limits are not those of the simulation, which
\* had no fees and, in the reveal, the fee 374.
NodeMinimum(fees, revealFee) ==
    LET growth == SumAll([i \in DOMAIN contents |->
                      Width(fees[i]) + Width(SentGas(i))])
        simulated == SumAll([i \in DOMAIN contents |-> 1 + Width(SimulatedGas(i))])
        bytes == OpBytes + growth + (IF unrevealed THEN Width(revealFee) - Width(374) ELSE 0)
                     - simulated
        gas == SumAll([i \in DOMAIN contents |-> SentGas(i)])
                   + IF unrevealed THEN GasLimit(RevealMilligas) ELSE 0
    IN  10 * MINIMAL_FEE_MUTEZ + 10 * (bytes + 64) + gas

FeesSuffice(Fee(_, _, _)) ==
    LET n == Len(contents)
        fees == [i \in 1..n |-> Fee(contents[i].milligas, OpBytes, n)]
        revealFee == Fee(RevealMilligas, OP_SIZE_REVEAL \div 2, 1)
    IN  10 * (SumAll(fees) + IF unrevealed THEN revealFee ELSE 0)
            >= NodeMinimum(fees, revealFee)

\* The fees are those of the estimated gas: a user who gives a higher limit and no fee
\* is not looked after.
EstimatedGas ==
    \A i \in DOMAIN contents : contents[i].gas <= GasLimit(contents[i].milligas)

\* The suggested fees of a batch cover what the node asks for, though each one shares the
\* bytes with the others, is rounded by itself, and none has seen the signature.  The
\* minimal fees do as well if there are two of them, with the reveal.
FeesCoverMinimum ==
    contents # <<>> /\ EstimatedGas =>
        /\ FeesSuffice(SuggestedFee)
        /\ Len(contents) > 1 \/ unrevealed => FeesSuffice(MinimalFee)

\* What the comment of minimalFeeMutez says: it is what the node asks for by default, for
\* a single operation, too.
MinimalFeeSuffices == contents # <<>> /\ EstimatedGas => FeesSuffice(MinimalFee)

\* The default limits of a batch and of the reveal fit into a block, as long as the block
\* has the gas of a reveal for each of them.
DefaultGasFitsBlock ==
    batched /\ contents # <<>> /\ HardGasBlock >= DEFAULT_GAS_REVEAL * (Len(contents) + 1) =>
        Len(contents) * DefaultGas(Len(contents)) + DEFAULT_GAS_REVEAL <= HardGasBlock
=============================================================================
