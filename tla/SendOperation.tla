---------------------------- MODULE SendOperation ----------------------------
(***************************************************************************)
(* From a call of the contract API to an injected operation:               *)
(*   packages/taquito/src/contract/rpc-contract-provider.ts   transfer     *)
(*   packages/taquito/src/batch/rpc-batch-provider.ts         send         *)
(*   packages/taquito/src/estimate/rpc-estimate-provider.ts   estimates    *)
(*   packages/taquito/src/operations/operation-emitter.ts     the pipeline *)
(*                                                                         *)
(* Every await is a point at which blocks are baked and the other sends of *)
(* the toolkit go on.  The pipeline reads the revealed status twice and    *)
(* the counter two or three times, each time at whatever the head is then. *)
(***************************************************************************)
EXTENDS ManagerAccount

CONSTANTS
    MaxOps,     \* bound on the operations of a batch
    Faults      \* whether requests and signatures fail

ASSUME SendAssumption == MaxOps \in Nat \ {0} /\ Faults \in BOOLEAN

VARIABLE send   \* the state of each send

vars == <<account, pool, foreign, send>>

(* pc is what the send awaits.  estimates is what the estimator returned, an
   estimate being known by the operation it was made for (0: the reveal); limits
   gives the estimate each operation got.  disturbed and why are history
   variables: the account has changed since the send began, and why it failed. *)
Send == [pc : {"idle", "revealed?", "counter", "simulation", "revealed again?",
               "reveal counter", "reveal simulation", "last counter", "preapply",
               "injection", "done", "failed"},
         kind : {"transfer", "batch"}, size : 0..MaxOps, reveal : BOOLEAN,
         counter : Nat, estimates : Seq(0..MaxOps), limits : Seq(0..MaxOps),
         disturbed : BOOLEAN, why : {"", "request", "node", "estimates", "mempool"}]

TypeOK ==
    /\ AccountTypeOK
    /\ send \in [Senders -> Send]
    /\ \A s \in Senders : Len(send[s].limits) \in {0, send[s].size}

Idle == [pc |-> "idle", kind |-> "transfer", size |-> 0, reveal |-> FALSE,
         counter |-> 0, estimates |-> <<>>, limits |-> <<>>,
         disturbed |-> FALSE, why |-> ""]

Init ==
    /\ AccountInit
    /\ send = [s \in Senders |-> Idle]

-----------------------------------------------------------------------------
Running(s) == send[s].pc \notin {"idle", "done", "failed"}

\* What prepareOperation makes of the last counter read.
Prepared(s) == [counter |-> send[s].counter + 1, reveal |-> send[s].reveal,
                size |-> send[s].size]

Goes(s, new) == send' = [send EXCEPT ![s] = new]

Failed(s, why) == [send[s] EXCEPT !.pc = "failed", !.why = why]

\* The caller gave fee, gas and storage limit: every operation has its own.
OwnLimits(n) == [k \in 1..n |-> k]

\* What the estimator answers for them: a leading reveal has the first estimate.
Estimates(n, reveal) == IF reveal THEN <<0>> \o OwnLimits(n) ELSE OwnLimits(n)

\* transfer() and send(): an estimate is asked for, unless the caller of transfer
\* has given all the limits.
Begin(s) ==
    /\ send[s].pc = "idle"
    /\ \/ Goes(s, [send[s] EXCEPT !.pc = "revealed again?", !.kind = "transfer",
                                  !.size = 1, !.limits = OwnLimits(1)])
       \/ Goes(s, [send[s] EXCEPT !.pc = "revealed?", !.kind = "transfer", !.size = 1])
       \/ \E n \in 1..MaxOps :
             Goes(s, [send[s] EXCEPT !.pc = "revealed?", !.kind = "batch", !.size = n])
    /\ UNCHANGED accountVars

\* The estimator asks whether the account needs a reveal.
ReadRevealed(s) ==
    /\ send[s].pc = "revealed?"
    /\ Goes(s, [send[s] EXCEPT !.pc = "counter", !.reveal = ~account.revealed])
    /\ UNCHANGED accountVars

\* prepareOperation, for the estimator (which simulates next) or to be sent.
ReadCounter(s) ==
    /\ \E step \in {<<"counter", "simulation">>, <<"reveal counter", "reveal simulation">>,
                    <<"last counter", "preapply">>} :
          /\ send[s].pc = step[1]
          /\ Goes(s, [send[s] EXCEPT !.pc = step[2], !.counter = account.counter])
    /\ UNCHANGED accountVars

\* Mutated Simulate: transfer takes the estimates with the reveal's among them.
Simulate_NoShift(s) ==
    /\ send[s].pc = "simulation"
    /\ Applies(Prepared(s))
    /\ Goes(s, [send[s] EXCEPT !.pc = "revealed again?",
                         !.limits = Estimates(send[s].size, send[s].reveal)])
    /\ UNCHANGED accountVars

\* prepareEstimate simulates the operations at the head and throws on any error; the
\* estimate of a leading reveal is dropped by transfer.
Simulate(s) ==
    /\ send[s].pc = "simulation"
    /\ Goes(s, IF ~Applies(Prepared(s)) THEN Failed(s, "node")
               ELSE IF send[s].kind = "batch"
               THEN [send[s] EXCEPT !.pc = "revealed again?",
                                    !.estimates = Estimates(send[s].size, send[s].reveal)]
               ELSE [send[s] EXCEPT !.pc = "revealed again?",
                                    !.limits = OwnLimits(send[s].size)])
    /\ UNCHANGED accountVars

\* Mutated RevealTransfer: the answer that the estimator got is used again.
RevealTransfer_Remembered(s) ==
    /\ send[s].kind = "transfer"
    /\ Goes(s, [send[s] EXCEPT
                  !.pc = IF send[s].reveal THEN "reveal counter" ELSE "last counter"])

\* addRevealOperationIfNeeded: estimator.reveal() answers with an estimate only if
\* the account is not revealed now.
RevealTransfer(s) ==
    /\ send[s].kind = "transfer"
    /\ Goes(s, [send[s] EXCEPT
                  !.reveal = ~account.revealed,
                  !.pc = IF account.revealed THEN "last counter" ELSE "reveal counter"])

\* The reveal is estimated by itself.
SimulateReveal(s) ==
    /\ send[s].pc = "reveal simulation"
    /\ Goes(s, IF Applies([Prepared(s) EXCEPT !.size = 0])
               THEN [send[s] EXCEPT !.pc = "last counter"]
               ELSE Failed(s, "node"))
    /\ UNCHANGED accountVars

\* Mutated RevealBatch: the estimates are taken in order, the reveal forgotten.
RevealBatch_Unshifted(s) ==
    /\ send[s].kind = "batch"
    /\ Goes(s, [send[s] EXCEPT
                  !.pc = "last counter", !.reveal = ~account.revealed,
                  !.limits = [k \in 1..send[s].size |-> send[s].estimates[k]]])

\* send() of the batch asks again and takes the estimates from the second on when
\* the account is not revealed NOW; one estimate too few is a TypeError.
RevealBatch(s) ==
    LET shift == IF account.revealed THEN 0 ELSE 1
    IN  /\ send[s].kind = "batch"
        /\ Goes(s, IF send[s].size + shift > Len(send[s].estimates)
                   THEN Failed(s, "estimates")
                   ELSE [send[s] EXCEPT
                           !.pc = "last counter", !.reveal = ~account.revealed,
                           !.limits = [k \in 1..send[s].size |->
                                         send[s].estimates[k + shift]]])

ReadRevealedAgain(s) ==
    /\ send[s].pc = "revealed again?"
    /\ RevealTransfer(s) \/ RevealBatch(s)
    /\ UNCHANGED accountVars

\* signAndInject: what the node would not apply is not injected.  Limits estimated
\* for another operation may or may not be enough.
Preapply(s) ==
    /\ send[s].pc = "preapply"
    /\ \/ /\ Applies(Prepared(s))
          /\ Goes(s, [send[s] EXCEPT !.pc = "injection"])
       \/ /\ ~Applies(Prepared(s)) \/ send[s].limits # OwnLimits(send[s].size)
          /\ Goes(s, Failed(s, IF Applies(Prepared(s)) THEN "estimates" ELSE "node"))
    /\ UNCHANGED accountVars

Inject(s) ==
    /\ send[s].pc = "injection"
    /\ IF Takes(Prepared(s))
       THEN /\ pool' = Prepared(s)
            /\ Goes(s, [send[s] EXCEPT !.pc = "done"])
       ELSE /\ UNCHANGED pool
            /\ Goes(s, Failed(s, IF pool # NoOperation THEN "mempool" ELSE "node"))
    /\ UNCHANGED <<account, foreign>>

\* A request or the signer fails: the error is the caller's.
RequestFails(s) ==
    /\ Faults
    /\ Running(s)
    /\ Goes(s, Failed(s, "request"))
    /\ UNCHANGED accountVars

\* A block changes the account under the sends that are under way.
AccountStep ==
    /\ Bake \/ Foreign
    /\ send' = [s \in Senders |->
                  IF Running(s) THEN [send[s] EXCEPT !.disturbed = TRUE] ELSE send[s]]

SendStep(s) ==
    \/ Begin(s) \/ ReadRevealed(s) \/ ReadCounter(s) \/ Simulate(s)
    \/ ReadRevealedAgain(s) \/ SimulateReveal(s)
    \/ Preapply(s) \/ Inject(s) \/ RequestFails(s)

Next == AccountStep \/ \E s \in Senders : SendStep(s)

Spec == Init /\ [][Next]_vars

-----------------------------------------------------------------------------
(* Properties *)

\* A send fails for a reason outside of it: a request or the signer failed, the
\* account changed between its reads, or another operation of the account waits for
\* the next block.  Left alone, the reads of the pipeline fit together: the counter
\* is the next one, and a reveal leads exactly when it is needed.
UndisturbedSendSucceeds ==
    \A s \in Senders :
        send[s].pc = "failed" =>
            \/ send[s].why \in {"request", "mempool"}
            \/ send[s].disturbed

\* However the sends of a toolkit interleave, they do not make each other fail all:
\* if no request fails and no other client uses the account, one of them gets in.
SomebodyGetsIn ==
    /\ foreign = 0
    /\ \A s \in Senders : send[s].pc \in {"done", "failed"} /\ send[s].why # "request"
    => Senders = {} \/ \E s \in Senders : send[s].pc = "done"

\* "If a reveal operation is needed, the first element of the array is the Estimate
\* for the reveal operation": every operation sent has the limits estimated for it.
LimitsFit ==
    \A s \in Senders :
        send[s].pc \in {"last counter", "preapply", "injection", "done"} =>
            send[s].limits = OwnLimits(send[s].size)

\* What the code guarantees instead: an operation is sent with the limits of another
\* only in a batch, and only when the account was revealed during the send.
LimitsFitUnlessRevealed ==
    \A s \in Senders :
        send[s].pc \in {"last counter", "preapply", "injection", "done"} =>
            \/ send[s].limits = OwnLimits(send[s].size)
            \/ send[s].kind = "batch" /\ send[s].disturbed /\ account.revealed
=============================================================================
