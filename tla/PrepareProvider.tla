--------------------------- MODULE PrepareProvider ---------------------------
(***************************************************************************)
(* packages/taquito/src/prepare/prepare-provider.ts: operations prepared   *)
(* for a caller that forges, signs and injects them itself.  The provider  *)
(* is one per toolkit and keeps its counters in the field #counters, which *)
(* every prepare clears before it awaits the counter of the head and uses  *)
(* after that; other prepares run in between.                              *)
(***************************************************************************)
EXTENDS ManagerAccount

CONSTANTS
    Preparers,      \* the calls of the provider
    MaxBatch        \* bound on the operations of a batch

ASSUME PrepareAssumption == MaxBatch \in Nat \ {0}

VARIABLES
    counters,   \* #counters[pkh], 0 when it is not set
    prepare     \* the state of each call

prepareVars == <<account, pool, foreign, counters, prepare>>

(* The kinds differ in what they await.  "manager" stands for the eleven methods
   that estimate one operation and add a reveal, "vote" for ballot and proposals. *)
Kinds == {"manager", "batch", "reveal", "contractCall", "vote", "drain"}

(* op and head are what the call returns; overlapped and disturbed are history:
   another call used the counters, or the account changed, since this one began. *)
Prepare == [pc : {"idle", "estimate", "reveal", "head counter", "answered",
                  "prepared", "submitted", "failed"},
            kind : Kinds, op : ManagerOperation, head : Nat,
            overlapped : BOOLEAN, disturbed : BOOLEAN]

PrepareTypeOK ==
    /\ AccountTypeOK
    /\ counters \in Nat
    /\ prepare \in [Preparers -> Prepare]

PrepareInit ==
    /\ AccountInit
    /\ counters = 0
    /\ prepare = [p \in Preparers |->
                    [pc |-> "idle", kind |-> "manager", op |-> NoOperation, head |-> 0,
                     overlapped |-> FALSE, disturbed |-> FALSE]]

-----------------------------------------------------------------------------
Prepares(p, new) == prepare' = [prepare EXCEPT ![p] = new]

\* The operations among the contents that have a counter.
Counted(p) == prepare[p].kind \in {"manager", "batch", "reveal", "contractCall"}

Larger(a, b) == IF a > b THEN a ELSE b

\* Mutated FirstCounter: the counters are not raised to the head's.
FirstCounter_Kept(head) == IF counters = 0 THEN head + 1 ELSE counters + 1

\* getFee: the counters are raised to the head's, if need be, and counted on.
FirstCounter(head) == Larger(counters, head) + 1

\* An estimate comes first; contractCall asks for its one last, and a vote or a
\* drained delegate needs none.
BeginPrepare(p) ==
    /\ prepare[p].pc = "idle"
    /\ \E kind \in Kinds, n \in 1..MaxBatch :
          /\ n = 1 \/ kind = "batch"
          /\ Prepares(p, [prepare[p] EXCEPT
                !.kind = kind,
                !.op.size = IF kind = "reveal" THEN 0 ELSE n,
                !.pc = IF kind \in {"manager", "batch", "reveal"} THEN "estimate"
                       ELSE "reveal"])
    /\ UNCHANGED <<accountVars, counters>>

\* A reveal that is not needed is refused.
EstimateAnswered(p) ==
    /\ prepare[p].pc = "estimate"
    /\ Prepares(p, IF prepare[p].kind = "reveal" /\ account.revealed
                   THEN [prepare[p] EXCEPT !.pc = "failed"]
                   ELSE [prepare[p] EXCEPT !.pc = "reveal"])
    /\ UNCHANGED <<accountVars, counters>>

\* addRevealOperationIfNeeded: there is an estimate for a reveal only if the account is
\* not revealed now.
RevealAdded(p) == prepare[p].kind = "manager" /\ ~account.revealed

\* toPrepare of a batch asks again whether it needs a reveal in front.
RevealLeads(p) == prepare[p].kind = "batch" /\ ~account.revealed

\* Mutated ClearCounters: the field is not cleared.
ClearCounters_Missing(p) ==
    /\ prepare[p].pc = "reveal"
    /\ Prepares(p, [prepare[p] EXCEPT
          !.op.reveal = prepare[p].kind = "reveal" \/ RevealAdded(p) \/ RevealLeads(p),
          !.pc = "head counter"])
    /\ UNCHANGED <<accountVars, counters>>

\* What has no reveal of its own may get one, except in contractCall.  Then the counters
\* are cleared, and the counter of the head is asked for.
ClearCounters(p) ==
    /\ prepare[p].pc = "reveal"
    /\ Prepares(p, [prepare[p] EXCEPT
          !.op.reveal = prepare[p].kind = "reveal" \/ RevealAdded(p) \/ RevealLeads(p),
          !.pc = "head counter"])
    /\ counters' = 0
    /\ UNCHANGED accountVars

\* The node serves the counter.  The answer is on its way, or, in contractCall and
\* a vote, an estimate or the voting period is awaited as well.
HeadCounterServed(p) ==
    /\ prepare[p].pc = "head counter"
    /\ Prepares(p, [prepare[p] EXCEPT !.head = account.counter, !.pc = "answered"])
    /\ UNCHANGED <<accountVars, counters>>

\* constructOpContents: each content with a counter takes the next one.
ConstructContents(p) ==
    /\ prepare[p].pc = "answered"
    /\ IF Counted(p)
       THEN /\ prepare' = [q \in Preparers |->
                 IF q = p
                 THEN [prepare[p] EXCEPT !.op.counter = FirstCounter(prepare[p].head),
                                         !.pc = "prepared"]
                 ELSE IF prepare[q].pc \in {"head counter", "answered"}
                 THEN [prepare[q] EXCEPT !.overlapped = TRUE] ELSE prepare[q]]
            /\ counters' = FirstCounter(prepare[p].head) + Length(prepare[p].op) - 1
       ELSE /\ Prepares(p, [prepare[p] EXCEPT !.pc = "prepared"])
            /\ UNCHANGED counters
    /\ UNCHANGED accountVars

\* The caller signs and injects what toPreapply and toForge make of it.
Submit(p) ==
    /\ prepare[p].pc = "prepared"
    /\ Counted(p)
    /\ IF Takes(prepare[p].op)
       THEN pool' = prepare[p].op /\ Prepares(p, [prepare[p] EXCEPT !.pc = "submitted"])
       ELSE UNCHANGED pool /\ Prepares(p, [prepare[p] EXCEPT !.pc = "failed"])
    /\ UNCHANGED <<account, foreign, counters>>

\* A request fails, and the error is the caller's.
PrepareFails(p) ==
    /\ prepare[p].pc \in {"estimate", "reveal", "head counter", "answered"}
    /\ Prepares(p, [prepare[p] EXCEPT !.pc = "failed"])
    /\ UNCHANGED <<accountVars, counters>>

PrepareAccountStep ==
    /\ Bake \/ Foreign
    /\ prepare' = [p \in Preparers |->
                     IF prepare[p].pc = "idle" THEN prepare[p]
                     ELSE [prepare[p] EXCEPT !.disturbed = TRUE]]
    /\ UNCHANGED counters

PrepareNext ==
    \/ PrepareAccountStep
    \/ \E p \in Preparers :
          \/ BeginPrepare(p) \/ EstimateAnswered(p) \/ ClearCounters(p)
          \/ HeadCounterServed(p) \/ ConstructContents(p) \/ Submit(p) \/ PrepareFails(p)

PrepareSpec == PrepareInit /\ [][PrepareNext]_prepareVars

-----------------------------------------------------------------------------
(* Properties *)

\* However prepares interleave, one that was not overlapped by the end of another
\* counts from the head it read, and one that was overlapped counts on from the head
\* or right behind another prepared operation: no counter is used up by nobody.
CountersContinue(p) ==
    \/ prepare[p].op.counter = prepare[p].head + 1
    \/ /\ prepare[p].overlapped
       /\ prepare[p].op.counter > prepare[p].head
       /\ \E q \in Preparers \ {p} :
             prepare[p].op.counter = prepare[q].op.counter + Length(prepare[q].op)

\* What was prepared while the account and the counters were left alone is accepted
\* by the node, except for a contract call of an account that is not revealed:
\* contractCall adds no reveal.
PreparedContentsFit ==
    \A p \in Preparers :
        prepare[p].pc = "prepared" /\ Counted(p) =>
            /\ CountersContinue(p)
            /\ ~prepare[p].overlapped /\ ~prepare[p].disturbed =>
                  (Applies(prepare[p].op) <=>
                      account.revealed \/ prepare[p].kind # "contractCall")
=============================================================================
