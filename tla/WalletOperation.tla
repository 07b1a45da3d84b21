--------------------------- MODULE WalletOperation ---------------------------
(***************************************************************************)
(* The confirmation tracking of the wallet API:                            *)
(*   packages/taquito/src/subscribe/polling-subcribe-provider.ts  poller   *)
(*   packages/taquito/src/wallet/operation-factory.ts       head stream    *)
(*   packages/taquito/src/wallet/operation.ts               WalletOperation*)
(*                                                                         *)
(* timer$ -> getLastBlock -> distinct hash -> publish/refCount (shared by  *)
(* all operations of a toolkit) -> timeout, publishReplay(1)/refCount (one *)
(* per operation) -> gap filling, publishReplay(1)/refCount (newHead$) ->  *)
(* confirmed$, and one combineLatest per call of confirmationObservable.   *)
(*                                                                         *)
(* RxJS delivers a value to all subscribers in one synchronous cascade, so *)
(* each asynchronous event (a timer, an answer, a call) is one action; the *)
(* cascade is the composition of the operators on the record op below.     *)
(***************************************************************************)
EXTENDS HeadPoller, Integers

CONSTANTS
    Callers,        \* calls of confirmationObservable / confirmation
    MaxConf,        \* bound on the confirmation counts asked for
    StartLevel      \* config.blockIdentifier, as a level; 0 when not given

ASSUME OperationAssumption ==
    /\ MaxConf \in Nat
    /\ StartLevel \in 0..MaxLevel

VARIABLES
    past,       \* the block that the promise of createPastBlockWalker holds
    op          \* the WalletOperation and its subscribers

vars == <<chain, top, forged, reorgs, past, poller, op>>

(* op.source: not created yet, newHead$ not connected, waiting for the start block, following
   the head, or in error.  replay is the value held by the publishReplay of the
   head stream, lastHead the one held by newHead$ (and the field lastHead).
   fill is the next level to fetch below target, 0 when no gap is being filled.
   watching says that confirmed$ is subscribed, found is _includedInBlock.
   from is a history variable: the level of the first block scanned. *)
Call == [state : {"idle", "waiting", "done", "failed"}, conf : Nat,
         seen : Nat, events : Nat, first : Int, current : Int, block : Block]

Operation == [source : {"new", "idle", "past", "heads", "failed"}, replay : Block,
              lastHead : Block, fill : Nat, target : Block, watching : BOOLEAN,
              found : Block, from : Nat, calls : [Callers -> Call]]

TypeOK ==
    /\ NodeTypeOK
    /\ past \in Block
    /\ poller \in Poller
    /\ op \in Operation

-----------------------------------------------------------------------------
(* The operators of the cascade *)

\* Some observer keeps newHead$ connected.
Listening(o) == o.watching \/ \E c \in Callers : o.calls[c].state = "waiting"

\* Mutated Notify: no distinctUntilChanged.
Notify_Repeats(call, head, found) ==
    IF call.state # "waiting" THEN call
    ELSE LET current == head.level - found.level + 1
         IN  [call EXCEPT !.seen = head.hash, !.events = @ + 1, !.current = current,
                          !.first = IF call.events = 0 THEN current ELSE @,
                          !.block = head,
                          !.state = IF current >= call.conf THEN "done" ELSE @]

\* Mutated Notify: one confirmation too few completes the call.
Notify_Early(call, head, found) ==
    IF call.state # "waiting" \/ head.hash = call.seen THEN call
    ELSE LET current == head.level - found.level + 1
         IN  [call EXCEPT !.seen = head.hash, !.events = @ + 1, !.current = current,
                          !.first = IF call.events = 0 THEN current ELSE @,
                          !.block = head,
                          !.state = IF current >= call.conf - 1 THEN "done" ELSE @]

\* One emission of combineLatest for a call: dropped by distinctUntilChanged when
\* the head is the one of the previous emission, otherwise an event; takeWhile
\* (inclusive) completes the call when the head is deep enough.
Notify(call, head, found) ==
    IF call.state # "waiting" \/ head.hash = call.seen THEN call
    ELSE LET current == head.level - found.level + 1
         IN  [call EXCEPT
                !.seen = head.hash,
                !.events = @ + 1,
                !.first = IF call.events = 0 THEN current ELSE @,
                !.current = current,
                !.block = head,
                !.state = IF head.level - found.level >= call.conf - 1
                          THEN "done" ELSE "waiting"]

NotifyAll(o, head) ==
    [o EXCEPT !.calls = [c \in Callers |-> Notify(o.calls[c], head, o.found)]]

\* Mutated Include: the first block is taken for the including one.
Include_AnyBlock(o, b) ==
    IF o.watching THEN NotifyAll([o EXCEPT !.found = b, !.watching = FALSE], b) ELSE o

\* confirmed$ finds the operation in b: _includedInBlock emits, and the calls
\* combine it with the value newHead$ had BEFORE b, if it had one.
Include(o, b) ==
    LET included == [o EXCEPT !.found = b, !.watching = FALSE]
    IN  IF ~(o.watching /\ b.op) THEN o
        ELSE IF o.lastHead = NoBlock THEN included
        ELSE NotifyAll(included, o.lastHead)

\* newHead$ emits b: confirmed$ is its first subscriber, the calls come after.
Emit(o, b) ==
    LET scanned == [Include(o, b) EXCEPT
                      !.lastHead = b,
                      !.from = IF o.lastHead = NoBlock THEN b.level ELSE @]
    IN  IF scanned.found = NoBlock THEN scanned ELSE NotifyAll(scanned, b)

\* Mutated Receive: skipped levels are not fetched.
Receive_NoGapFilling(o, head) ==
    Emit([o EXCEPT !.fill = 0, !.target = NoBlock], head)

\* switchMap: a new head drops the gap being filled and starts from lastHead.
Receive(o, head) ==
    LET prevHead == IF o.lastHead = NoBlock THEN head.level - 1 ELSE o.lastHead.level
    IN  IF prevHead + 1 >= head.level
        THEN Emit([o EXCEPT !.fill = 0, !.target = NoBlock], head)
        ELSE [o EXCEPT !.fill = prevHead + 1, !.target = head]

\* An error of the source: it reaches every subscriber, and the publishReplay
\* subjects keep it for the later ones.
Broken(o) ==
    [o EXCEPT !.source = "failed", !.fill = 0, !.target = NoBlock,
              !.watching = FALSE,
              !.calls = [c \in Callers |->
                 IF o.calls[c].state = "waiting"
                 THEN [o.calls[c] EXCEPT !.state = "failed"] ELSE o.calls[c]]]

\* The head stream: its replayed value first, then the shared poller.  When the
\* poller is dead, its error comes while subscribeBlock constructs the
\* subscription, before createObservableFromSubscription listens to it: the
\* operation follows a stream that never says anything.
ConnectHeads(o) ==
    LET live == [o EXCEPT !.source = "heads"]
    IN  IF o.replay = NoBlock THEN live ELSE Receive(live, o.replay)

\* refCount connects newHead$ when its first subscriber comes.
Connect(o) ==
    IF o.source # "idle" THEN o
    ELSE IF StartLevel # 0 THEN [o EXCEPT !.source = "past"]
    ELSE ConnectHeads(o)

\* Mutated Settle: the end of confirmed$ disconnects everybody.
Settle_IgnoresCalls(o) ==
    IF o.source = "failed" \/ o.watching THEN o
    ELSE [o EXCEPT !.source = "idle", !.fill = 0, !.target = NoBlock]

\* Mutated Settle: a stream without subscribers completes.
Settle_Completes(o) ==
    IF o.source = "failed" \/ Listening(o) THEN o
    ELSE [o EXCEPT !.source = "complete", !.fill = 0, !.target = NoBlock]

\* refCount disconnects it when the last one has left.
Settle(o) ==
    IF o.source = "failed" \/ Listening(o) THEN o
    ELSE [o EXCEPT !.source = "idle", !.fill = 0, !.target = NoBlock]

\* The operation becomes o; the poller follows its subscriptions.
Become(o, p) ==
    /\ op' = o
    /\ poller' = Shared(p, o.source = "heads")

-----------------------------------------------------------------------------
NotCreated ==
    [source |-> "new", replay |-> NoBlock, lastHead |-> NoBlock,
     fill |-> 0, target |-> NoBlock,
     watching |-> FALSE, found |-> NoBlock, from |-> 0,
     calls |-> [c \in Callers |->
                  [state |-> "idle", conf |-> 0, seen |-> 0, events |-> 0,
                   first |-> 0, current |-> 0, block |-> NoBlock]]]

Init ==
    /\ NodeInit
    /\ past = NoBlock
    /\ op = NotCreated
    /\ PollerInit

\* createOperation, once the operation is injected: the constructor subscribes
\* confirmed$, which connects the streams.
CreateOperation ==
    /\ op.source = "new"
    /\ Become(Connect([op EXCEPT !.source = "idle", !.watching = TRUE]), poller)
    /\ UNCHANGED <<nodeVars, past>>

(* The shared poller *)

OtherOperation ==
    /\ OtherSubscriber(op.source = "heads")
    /\ UNCHANGED <<nodeVars, past, op>>

PollTick == Tick /\ UNCHANGED <<nodeVars, past, op>>

PollServed == Serve /\ UNCHANGED <<nodeVars, past, op>>

\* The answer arrives; a hash already emitted stops at distinctUntilKeyChanged.
PollDelivered ==
    LET head == poller.block
    IN  /\ poller.state = "answered"
        /\ IF head.hash # poller.seen /\ op.source = "heads"
           THEN Become(Settle(Receive([op EXCEPT !.replay = head], head)), Delivered)
           ELSE Become(op, Delivered)
        /\ UNCHANGED <<nodeVars, past>>

\* The request fails: the error reaches everybody who follows the stream.
PollFails ==
    /\ Faults
    /\ poller.state = "asked"
    /\ Become(IF op.source = "heads" THEN Broken(op) ELSE op, Killed)
    /\ UNCHANGED <<nodeVars, past>>

\* Mutated TimeoutExpires: only a stream that still polls times out.
TimeoutExpires_WhilePolling ==
    /\ Faults
    /\ op.source = "heads" /\ poller.state # "off"
    /\ Become(Broken(op), poller)
    /\ UNCHANGED <<nodeVars, past>>

\* timeoutAfter: confirmationPollingTimeoutSecond after the connection, whatever
\* was emitted in between.
TimeoutExpires ==
    /\ Faults
    /\ op.source = "heads"
    /\ Become(Broken(op), poller)
    /\ UNCHANGED <<nodeVars, past>>

(* The block the operation starts from, and the gaps *)

\* createPastBlockWalker asks once, when the operation is created: a later
\* subscription is handed the block that the promise already holds.
PastServed ==
    /\ op.source = "past"
    /\ IF past # NoBlock THEN past' = past
       ELSE StartLevel <= top /\ past' = chain[StartLevel]
    /\ LET started == Receive(op, past')
       IN  Become(Settle(IF Listening(started) THEN ConnectHeads(started) ELSE started),
                  poller)
    /\ UNCHANGED nodeVars

PastFails ==
    /\ op.source = "past"
    /\ past = NoBlock
    /\ Faults \/ StartLevel > top
    /\ Become(Broken(op), poller)
    /\ UNCHANGED <<nodeVars, past>>

\* Mutated GapServed: the head that opened the gap is not emitted after it.
GapServed_NoEndWith ==
    /\ op.fill \in 1..top
    /\ LET fetched == Emit(op, chain[op.fill])
       IN  Become(IF ~Listening(fetched) THEN Settle(fetched)
                  ELSE IF op.fill + 1 < op.target.level
                       THEN [fetched EXCEPT !.fill = @ + 1]
                       ELSE [fetched EXCEPT !.fill = 0, !.target = NoBlock], poller)
    /\ UNCHANGED <<nodeVars, past>>

\* getBlock(level) of concatMap answers from the branch of that moment; the head
\* that opened the gap ends it (endWith).
GapServed ==
    /\ op.fill \in 1..top
    /\ LET fetched == Emit(op, chain[op.fill])
           ended == [fetched EXCEPT !.fill = 0, !.target = NoBlock]
       IN  Become(IF ~Listening(fetched) THEN Settle(fetched)
                  ELSE IF op.fill + 1 < op.target.level
                       THEN [fetched EXCEPT !.fill = @ + 1]
                       ELSE Settle(Emit(ended, op.target)), poller)
    /\ UNCHANGED <<nodeVars, past>>

GapFails ==
    /\ op.fill # 0
    /\ Faults \/ op.fill > top
    /\ Become(Broken(op), poller)
    /\ UNCHANGED <<nodeVars, past>>

(* The callers *)

Asking(c, n) == [op EXCEPT !.calls[c].state = "waiting", !.calls[c].conf = n]

\* confirmationObservable(n): combineLatest subscribes to the two replays, which
\* hand over what they hold at once, and the subscription connects newHead$.
Confirmation(c, n) ==
    LET asked == Asking(c, n)
        replayed == IF op.found = NoBlock \/ op.lastHead = NoBlock THEN asked
                    ELSE [asked EXCEPT
                            !.calls[c] = Notify(@, op.lastHead, op.found)]
    IN  /\ op.source # "new"
        /\ op.calls[c].state = "idle"
        /\ n >= 1
        /\ Become(IF op.source = "failed" THEN Broken(replayed)
                  ELSE Settle(Connect(replayed)), poller)
        /\ UNCHANGED <<nodeVars, past>>

\* confirmationObservable(n) throws InvalidConfirmationCountError.
ConfirmationInvalid(c) ==
    /\ op.source # "new"
    /\ op.calls[c].state = "idle"
    /\ op' = [op EXCEPT !.calls[c].state = "failed"]
    /\ UNCHANGED <<nodeVars, past, poller>>

NodeStep == NodeNext /\ UNCHANGED <<past, poller, op>>

PollerNext == PollTick \/ PollServed \/ PollDelivered \/ PollFails \/ OtherOperation

OperationNext ==
    \/ CreateOperation
    \/ TimeoutExpires
    \/ PastServed \/ PastFails
    \/ GapServed \/ GapFails
    \/ \E c \in Callers : \E n \in 1..MaxConf : Confirmation(c, n)
    \/ \E c \in Callers : ConfirmationInvalid(c)

Next == NodeStep \/ PollerNext \/ OperationNext

Spec == Init /\ [][Next]_vars

(* Fairness: the timer keeps firing and the node keeps answering; infinitely
   often an answer comes before the next tick of the timer gives it up (strong
   fairness: switchMap cancels a request slower than the polling interval).  The
   node goes on baking.  Nothing is assumed of callers and faults. *)
Fairness ==
    /\ WF_vars(NodeStep /\ top' = top + 1)
    /\ WF_vars(PollTick)
    /\ WF_vars(PollServed)
    /\ SF_vars(PollDelivered)
    /\ WF_vars(PastServed)
    /\ WF_vars(GapServed)

FairSpec == Spec /\ Fairness

\* The event loop runs the timer of timeoutWith when it is due.
TimedSpec == FairSpec /\ WF_vars(TimeoutExpires)

-----------------------------------------------------------------------------
(* Properties *)

\* Without a reorganisation no inclusion is missed: once the head stream has
\* reached a level, every block from the first one scanned up to it has been
\* looked into, however many heads were skipped between two polls and however
\* often a new head interrupted the filling of a gap.
NoInclusionMissed ==
    reorgs = 0 /\ op.found = NoBlock /\ op.source # "failed"
        => \A l \in 1..MaxLevel :
              op.from <= l /\ l <= op.lastHead.level /\ op.from # 0
                  => ~chain[l].op

\* The block reported as including the operation does include it and, without a
\* reorganisation, is on the branch of the node.
FoundOnBranch ==
    op.found # NoBlock => op.found.op /\ (reorgs = 0 => OnBranch(op.found))

\* The events of a call count confirmations one by one: no confirmation number is
\* repeated or skipped, through replays, reconnections and filled gaps (as long
\* as the node does not reorganise and no start block was configured).
EventsContiguous ==
    reorgs = 0 /\ StartLevel = 0 =>
        \A c \in Callers : op.calls[c].events # 0 =>
            op.calls[c].events = op.calls[c].current - op.calls[c].first + 1

\* A call that has resolved had the depth it asked for: if the including block
\* and the block that completed the call are both on the branch of the node, the
\* head is at least conf - 1 levels above the including block.
DoneMeansDepth ==
    \A c \in Callers :
        /\ op.calls[c].state = "done"
        /\ OnBranch(op.found)
        /\ OnBranch(op.calls[c].block)
        => top - op.found.level + 1 >= op.calls[c].conf

\* refCount: whoever waits is connected to a live source or sees it fail, and
\* when nobody waits nothing is fetched or polled on behalf of the operation.
WaitingIsConnected ==
    /\ Listening(op) <=> op.source \in {"past", "heads"}
    /\ op.fill # 0 => op.source = "heads"
    /\ poller.state # "off" <=> ~poller.dead /\ (poller.others \/ op.source = "heads")

\* The call c waits for nothing but news: the operation is on the branch as deep
\* as c asked, the first block scanned is not above it, and the head is one that
\* the shared stream has yet to emit.
Answerable(c) ==
    /\ op.calls[c].state = "waiting"
    /\ chain[top].hash # poller.seen
    /\ \E l \in 1..top : /\ chain[l].op
                         /\ op.from \in 1..l
                         /\ top - l + 1 >= op.calls[c].conf

\* confirmation() resolves in the end once the operation is deep enough, although
\* polls are given up, gaps interrupted and the stream disconnected in between.
EveryCallResolves ==
    \A c \in Callers : Answerable(c) ~> op.calls[c].state = "done"
=============================================================================
