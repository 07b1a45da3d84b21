----------------------------- MODULE HeadPoller -----------------------------
(***************************************************************************)
(* newBlock$ of packages/taquito/src/subscribe/polling-subcribe-provider.ts*)
(* timer$ -> switchMap getLastBlock -> distinctUntilKeyChanged('hash') ->  *)
(* publish() -> refCount(), one per toolkit and shared by everything that  *)
(* subscribes to heads.  The module describes the stream alone; what its   *)
(* subscribers do with a head or an error is theirs.                       *)
(***************************************************************************)
EXTENDS BlockChain

CONSTANTS
    Faults,     \* whether requests fail and timeouts expire
    Sharing     \* whether other operations use the same stream

ASSUME PollerAssumption == Faults \in BOOLEAN /\ Sharing \in BOOLEAN

VARIABLE poller

(* poller.state: nobody subscribed, no request outstanding, a getBlock('head')
   on its way to the node, its answer on its way back.  seen is the hash last
   let through by distinctUntilKeyChanged (0: none since the connection), others
   says that another operation of the toolkit is subscribed, dead that the
   Subject of publish() has received an error. *)
Poller == [state : {"off", "between", "asked", "answered"}, block : Block,
           seen : Nat, others : BOOLEAN, dead : BOOLEAN]

PollerInit ==
    poller = [state |-> "off", block |-> NoBlock, seen |-> 0,
              others |-> FALSE, dead |-> FALSE]

\* refCount of the shared stream: it runs while others or the operation follow
\* it, and connecting starts afresh, the distinct included.
Shared(p, following) ==
    IF p.dead \/ ~(p.others \/ following)
    THEN [p EXCEPT !.state = "off", !.block = NoBlock, !.seen = 0]
    ELSE IF p.state = "off" THEN [p EXCEPT !.state = "between"]
    ELSE p

\* The answer has arrived: its hash is the last one let through.
Delivered == [poller EXCEPT !.state = "between", !.block = NoBlock,
                            !.seen = poller.block.hash]

\* The request failed: the Subject of publish() is in error for good.
Killed == [poller EXCEPT !.dead = TRUE, !.others = FALSE]

\* Another operation of the toolkit subscribes to the stream, or leaves it.
OtherSubscriber(following) ==
    /\ Sharing /\ ~poller.dead
    /\ poller' = Shared([poller EXCEPT !.others = ~@], following)

\* timer$ fires: switchMap gives up the request under way and asks again.
Tick ==
    /\ poller.state \in {"between", "answered"}
    /\ poller' = [poller EXCEPT !.state = "asked", !.block = NoBlock]

\* The node answers getBlock('head').
Serve ==
    /\ poller.state = "asked"
    /\ poller' = [poller EXCEPT !.state = "answered", !.block = chain[top]]
=============================================================================
