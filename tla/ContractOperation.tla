-------------------------- MODULE ContractOperation --------------------------
(***************************************************************************)
(* packages/taquito/src/operations/operations.ts: the Operation that the   *)
(* contract API returns, and its confirmation().                           *)
(*                                                                         *)
(* _pollingConfig$ -> switchMap timeout -> switchMap (head stream with its *)
(* gaps filled, tap lastHead) -> shareReplay({refCount}) is currentHead$;  *)
(* confirmed$ scans it for the operation and is shareReplay()ed; each call *)
(* of confirmation() switches from confirmed$ to currentHead$.  Nothing is *)
(* polled before the first call, and every call restarts timer and stream. *)
(***************************************************************************)
EXTENDS HeadPoller, Integers

CONSTANTS
    Callers,        \* calls of confirmation()
    MaxConf         \* bound on the confirmation counts asked for

ASSUME CallersAssumption == MaxConf \in Nat

VARIABLE op         \* the Operation and the calls of its confirmation()

vars == <<chain, top, forged, reorgs, poller, op>>

(* A call waits for confirmed$ and then follows currentHead$; result is what its
   promise resolves to, and block (a history variable) the head it resolved on. *)
Call == [state : {"idle", "waiting", "following", "done", "failed"}, conf : Nat,
         result : Int, block : Block]

(* tracking says that confirmed$ is subscribed to currentHead$: it no longer is
   once the operation was found (found: the block of _foundAt) or after an error.
   source says whether currentHead$ is connected to the head stream; heads are
   the ones its shareReplay holds since then.  fill is the next level to fetch
   below target, 0 when no gap is being filled.  from is a history variable: the
   level of the first block scanned. *)
Operation == [tracking : BOOLEAN, source : {"idle", "heads"}, heads : SUBSET Block,
              lastHead : Block, fill : Nat, target : Block, found : Block,
              from : Nat, calls : [Callers -> Call]]

TypeOK ==
    /\ NodeTypeOK
    /\ poller \in Poller
    /\ op \in Operation

-----------------------------------------------------------------------------
(* The operators of the cascade *)

\* Somebody is subscribed to currentHead$.
Listening(o) == o.tracking \/ \E c \in Callers : o.calls[c].state = "following"

\* The depth at which filter() lets a head through.
DeepEnough(head, found, conf) == head.level - found.level >= conf - 1

Resolved(call, head, found) ==
    [call EXCEPT !.state = "done", !.result = found.level + (call.conf - 1),
                 !.block = head]

\* A call that follows currentHead$ gets a head.
Deepen(call, head, found) ==
    IF call.state = "following" /\ DeepEnough(head, found, call.conf)
    THEN Resolved(call, head, found) ELSE call

\* Mutated Follow: the call resolves as soon as the operation is found.
Follow_AtOnce(call, heads, found) ==
    IF call.state # "waiting" THEN call ELSE Resolved(call, found, found)

\* confirmed$ emits: a waiting call switches to currentHead$, which replays all
\* the heads it holds; one that is deep enough resolves it (which one does not
\* matter: the result is computed from _foundAt).
Follow(call, heads, found) ==
    LET deep == {h \in heads : DeepEnough(h, found, call.conf)}
    IN  IF call.state # "waiting" THEN call
        ELSE IF deep = {} THEN [call EXCEPT !.state = "following"]
        ELSE Resolved(call, CHOOSE h \in deep : TRUE, found)

\* confirmed$ has found the operation in b.
Include(o, b) ==
    [o EXCEPT !.found = b, !.tracking = FALSE,
              !.calls = [c \in Callers |-> Follow(o.calls[c], o.heads, b)]]

\* currentHead$ emits b.
Emit(o, b) ==
    LET seen == [o EXCEPT !.lastHead = b, !.heads = @ \union {b},
                          !.from = IF @ = 0 THEN b.level ELSE @]
    IN  IF o.tracking /\ b.op THEN Include(seen, b)
        ELSE [seen EXCEPT !.calls = [c \in Callers |-> Deepen(o.calls[c], b, o.found)]]

\* Mutated Receive: levels skipped while nothing was polled are not fetched.
Receive_OnlyConnectedGaps(o, head) ==
    LET prevHead == IF o.heads = {} THEN head.level - 1 ELSE o.lastHead.level
    IN  IF prevHead + 1 >= head.level
        THEN Emit([o EXCEPT !.fill = 0, !.target = NoBlock], head)
        ELSE [o EXCEPT !.fill = prevHead + 1, !.target = head]

\* switchMap: a new head drops the gap being filled and starts from lastHead.
Receive(o, head) ==
    LET prevHead == IF o.lastHead = NoBlock THEN head.level - 1 ELSE o.lastHead.level
    IN  IF prevHead + 1 >= head.level
        THEN Emit([o EXCEPT !.fill = 0, !.target = NoBlock], head)
        ELSE [o EXCEPT !.fill = prevHead + 1, !.target = head]

\* Mutated Disconnected: the state of a stream that must not be subscribed again.
Disconnected_ForGood(o) ==
    [o EXCEPT !.source = "failed", !.heads = {}, !.fill = 0, !.target = NoBlock]

\* currentHead$ loses its last subscriber or its source.
Disconnected(o) ==
    [o EXCEPT !.source = "idle", !.heads = {}, !.fill = 0, !.target = NoBlock]

\* Mutated Broken: the calls that follow currentHead$ are not told.
Broken_WaitersOnly(o) ==
    [Disconnected(o) EXCEPT
        !.tracking = FALSE,
        !.calls = [c \in Callers |->
           IF o.calls[c].state = "waiting"
           THEN [o.calls[c] EXCEPT !.state = "failed"] ELSE o.calls[c]]]

\* An error of the stream reaches every call; shareReplay starts anew afterwards.
Broken(o) ==
    [Disconnected(o) EXCEPT
        !.tracking = FALSE,
        !.calls = [c \in Callers |->
           IF o.calls[c].state \in {"waiting", "following"}
           THEN [o.calls[c] EXCEPT !.state = "failed"] ELSE o.calls[c]]]

\* refCount of currentHead$.
Settle(o) == IF Listening(o) THEN o ELSE Disconnected(o)

\* The operation becomes o; p is the poller it leaves or follows.
Become(o, p) ==
    /\ op' = o
    /\ poller' = Shared(p, o.source = "heads")

-----------------------------------------------------------------------------
\* The constructor subscribes confirmed$, which waits for a polling configuration.
Init ==
    /\ NodeInit
    /\ PollerInit
    /\ op = [tracking |-> TRUE, source |-> "idle", heads |-> {}, lastHead |-> NoBlock,
             fill |-> 0, target |-> NoBlock, found |-> NoBlock, from |-> 0,
             calls |-> [c \in Callers |->
                          [state |-> "idle", conf |-> 0, result |-> 0,
                           block |-> NoBlock]]]

(* The shared poller *)

OtherOperation ==
    /\ OtherSubscriber(op.source = "heads")
    /\ UNCHANGED <<nodeVars, op>>

PollTick == Tick /\ UNCHANGED <<nodeVars, op>>

PollServed == Serve /\ UNCHANGED <<nodeVars, op>>

PollDelivered ==
    LET head == poller.block
    IN  /\ poller.state = "answered"
        /\ IF head.hash # poller.seen /\ op.source = "heads"
           THEN Become(Settle(Receive(op, head)), Delivered)
           ELSE Become(op, Delivered)
        /\ UNCHANGED nodeVars

PollFails ==
    /\ Faults
    /\ poller.state = "asked"
    /\ Become(IF op.source = "heads" THEN Broken(op) ELSE op, Killed)
    /\ UNCHANGED nodeVars

\* timeoutWith: the timeout of the latest call, counted from that call on
\* whatever is emitted in between.
TimeoutExpires ==
    /\ Faults
    /\ op.source = "heads"
    /\ Become(Broken(op), poller)
    /\ UNCHANGED nodeVars

GapServed ==
    /\ op.fill \in 1..top
    /\ LET fetched == Emit(op, chain[op.fill])
           ended == [fetched EXCEPT !.fill = 0, !.target = NoBlock]
       IN  Become(IF ~Listening(fetched) THEN Settle(fetched)
                  ELSE IF op.fill + 1 < op.target.level
                       THEN [fetched EXCEPT !.fill = @ + 1]
                       ELSE Settle(Emit(ended, op.target)), poller)
    /\ UNCHANGED nodeVars

GapFails ==
    /\ op.fill # 0
    /\ Faults \/ op.fill > top
    /\ Become(Broken(op), poller)
    /\ UNCHANGED nodeVars

(* The callers *)

\* Mutated Restarted: confirmed$ is not started again after an error.
Restarted_Once(o) ==
    [o EXCEPT !.source = "heads", !.fill = 0, !.target = NoBlock]

\* _pollingConfig$.next: a connected stream is left, with the gap it was filling,
\* and subscribed again.  confirmed$ starts again if an error had ended it.
Restarted(o) ==
    [o EXCEPT !.source = "heads", !.fill = 0, !.target = NoBlock,
              !.tracking = (o.found = NoBlock)]

Confirmation(c, n) ==
    LET asked == [op EXCEPT !.calls[c].state = "waiting", !.calls[c].conf = n]
        started == Restarted(asked)
    IN  /\ op.calls[c].state = "idle"
        /\ n >= 1
        /\ Become(IF op.found = NoBlock THEN started
                  ELSE Settle([started EXCEPT
                                 !.calls[c] = Follow(@, started.heads, op.found)]),
                  Shared(poller, FALSE))
        /\ UNCHANGED nodeVars

\* confirmation(n) throws InvalidConfirmationCountError.
ConfirmationInvalid(c) ==
    /\ op.calls[c].state = "idle"
    /\ op' = [op EXCEPT !.calls[c].state = "failed"]
    /\ UNCHANGED <<nodeVars, poller>>

NodeStep == NodeNext /\ UNCHANGED <<poller, op>>

PollerNext == PollTick \/ PollServed \/ PollDelivered \/ PollFails \/ OtherOperation

OperationNext ==
    \/ TimeoutExpires
    \/ GapServed \/ GapFails
    \/ \E c \in Callers : \E n \in 1..MaxConf : Confirmation(c, n)
    \/ \E c \in Callers : ConfirmationInvalid(c)

Next == NodeStep \/ PollerNext \/ OperationNext

Spec == Init /\ [][Next]_vars

(* Fairness: as in WalletOperation, the node bakes, the timer fires, requests are
   answered and infinitely often before the next tick gives them up. *)
Fairness ==
    /\ WF_vars(NodeStep /\ top' = top + 1)
    /\ WF_vars(PollTick)
    /\ WF_vars(PollServed)
    /\ SF_vars(PollDelivered)
    /\ WF_vars(GapServed)

FairSpec == Spec /\ Fairness

\* The event loop runs the timer of timeoutWith when it is due.
TimedSpec == FairSpec /\ WF_vars(TimeoutExpires)

-----------------------------------------------------------------------------
(* Properties *)

\* Without a reorganisation no inclusion is missed from the first call on: every
\* level between the first block scanned and the last head has been looked into,
\* although timeouts and errors stop the stream and later calls start it again.
NoLevelMissed ==
    reorgs = 0 /\ op.found = NoBlock /\ op.from # 0
        => \A l \in 1..MaxLevel :
              op.from <= l /\ l <= op.lastHead.level => ~chain[l].op

\* A call resolves on heads that are deep enough: when the block of _foundAt and the
\* head it resolved on are on the branch of the node, the level it returns exists
\* and is conf - 1 levels above the inclusion.
ResultMeansDepth ==
    \A c \in Callers :
        /\ op.calls[c].state = "done"
        /\ OnBranch(op.found)
        /\ OnBranch(op.calls[c].block)
        => /\ op.calls[c].result <= top
           /\ op.calls[c].result - op.found.level + 1 = op.calls[c].conf
           /\ chain[op.found.level].op

\* The head stream is subscribed exactly while a promise is pending, and whoever
\* is pending is registered where the next head will be looked at.
PendingIsSubscribed ==
    /\ op.source = "heads" <=>
          \E c \in Callers : op.calls[c].state \in {"waiting", "following"}
    /\ poller.state # "off" <=> ~poller.dead /\ (poller.others \/ op.source = "heads")
    /\ op.fill # 0 => op.source = "heads"
    /\ \A c \in Callers :
          /\ op.calls[c].state = "waiting" => op.tracking
          /\ op.calls[c].state = "following" => op.found # NoBlock

Pending(c) == op.calls[c].state \in {"waiting", "following"}

\* The operation is on the branch as deep as c asked, and the node has a head that
\* the shared stream has yet to emit.
Due(c, l) ==
    /\ Pending(c)
    /\ chain[top].hash # poller.seen
    /\ chain[l].op
    /\ top - l + 1 >= op.calls[c].conf

\* Another call may still restart the stream in the middle of a gap, and the head
\* that opened the gap is not emitted again while other operations keep the shared
\* stream running.
Undisturbed(c) == \A d \in Callers \ {c} : op.calls[d].state # "idle"

\* confirmation(n) waits for n confirmations "before resolving the promise": a
\* promise asked of an operation that has them resolves.
LateCallResolves ==
    \A c \in Callers :
        Undisturbed(c) /\ (\E l \in 1..top : Due(c, l))
            ~> op.calls[c].state = "done"

InclusionLevel ==
    IF \E l \in 1..top : chain[l].op THEN CHOOSE l \in 1..top : chain[l].op ELSE 0

Promise == INSTANCE ConfirmationPromise WITH
    height <- top,
    included <- InclusionLevel,
    promise <- [c \in Callers |->
                  [state |-> IF Pending(c) THEN "waiting" ELSE op.calls[c].state,
                   conf |-> op.calls[c].conf]]

\* Without reorganisations the contract API keeps the promise that the wallet API
\* keeps: no call resolves early, none is answered twice, and a failure of the
\* stream leaves nobody waiting.  What is never included or is polled from a dead stream
\* is rejected by the timeout: nobody waits for ever.
KeepsPromise == Promise!Spec /\ Promise!EveryCallSettles
=============================================================================
