----------------------- MODULE ObservableSubscription -----------------------
(***************************************************************************)
(* packages/taquito/src/subscribe/observable-subscription.ts: what a user  *)
(* of the streamer registers listeners with.  A dispatch walks through the *)
(* live array of listeners; a listener may register, remove and close      *)
(* while it is called, and close() dispatches in the middle of another     *)
(* dispatch.  The stream is the shared newBlock$: an error stops the       *)
(* Subject inside of publish() for good.                                   *)
(***************************************************************************)
EXTENDS Naturals, Sequences, FiniteSets

Arrays == INSTANCE SequencesExt     \* Range, RemoveFirst

CONSTANTS
    Listeners,      \* the callbacks
    MaxChanges,     \* bound on the calls of on() and off()
    MaxHeads        \* bound on the blocks of the stream

ASSUME SubscriptionAssumption == MaxChanges \in Nat /\ MaxHeads \in Nat

VARIABLES
    source,         \* "live", or "dead" after an error of newBlock$
    subscription,   \* the state of the pipe: "live", "closed" or "failed"
    retries,        \* shouldRetry, with the default retry()
    listening,      \* the three arrays of listeners
    dispatches,     \* the calls of call() under way, the innermost one last
    changes,        \* how many times on() and off() were called
    heads           \* how many blocks the stream has emitted

subscriptionVars ==
    <<source, subscription, retries, listening, dispatches, changes, heads>>

Events == {"data", "error", "close"}

(* pos is how far the iterator is; heard, added and removed are history: who was
   called, who was registered, and whether somebody was removed since it began. *)
Dispatch == [event : Events, pos : Nat, start : SUBSET Listeners,
             heard : Seq(Listeners), added : SUBSET Listeners, removed : BOOLEAN]

SubscriptionTypeOK ==
    /\ source \in {"live", "dead"}
    /\ subscription \in {"live", "closed", "failed"}
    /\ retries \in BOOLEAN
    /\ listening \in [Events -> Seq(Listeners)]
    /\ dispatches \in Seq(Dispatch)
    /\ changes \in 0..MaxChanges /\ heads \in 0..MaxHeads

SubscriptionInit ==
    /\ source = "live" /\ subscription = "live"
    /\ retries \in BOOLEAN
    /\ listening = [e \in Events |-> <<>>]
    /\ dispatches = <<>>
    /\ changes = 0 /\ heads = 0

-----------------------------------------------------------------------------
Begun(event) == [event |-> event, pos |-> 0, start |-> Arrays!Range(listening[event]),
                 heard |-> <<>>, added |-> {}, removed |-> FALSE]

Innermost == dispatches[Len(dispatches)]

\* What a change of the listeners of an event means for the dispatches of it.
Noted(event, l, wasRemoved) ==
    [i \in DOMAIN dispatches |->
        IF dispatches[i].event # event THEN dispatches[i]
        ELSE [dispatches[i] EXCEPT !.removed = @ \/ wasRemoved,
                                   !.added = IF wasRemoved THEN @ ELSE @ \cup {l},
                                   !.start = IF wasRemoved THEN @ \ {l} ELSE @]]

\* Mutated On: the listener goes to the front.
On_First(event, l) ==
    /\ changes < MaxChanges
    /\ listening' = [listening EXCEPT ![event] = <<l>> \o @]
    /\ dispatches' = Noted(event, l, FALSE)
    /\ changes' = changes + 1
    /\ UNCHANGED <<source, subscription, retries, heads>>

\* on(): at any time, also by a listener that is being called.
On(event, l) ==
    /\ changes < MaxChanges
    /\ listening' = [listening EXCEPT ![event] = Append(@, l)]
    /\ dispatches' = Noted(event, l, FALSE)
    /\ changes' = changes + 1
    /\ UNCHANGED <<source, subscription, retries, heads>>

\* off(): the first registration of the callback is spliced out of the array.
Off(event, l) ==
    /\ changes < MaxChanges
    /\ l \in Arrays!Range(listening[event])
    /\ listening' = [listening EXCEPT ![event] = Arrays!RemoveFirst(@, l)]
    /\ dispatches' = Noted(event, l, TRUE)
    /\ changes' = changes + 1
    /\ UNCHANGED <<source, subscription, retries, heads>>

\* Mutated CallListener: the iterator stops before the last listener.
CallListener_NotLast ==
    /\ dispatches # <<>> /\ Innermost.pos + 1 < Len(listening[Innermost.event])
    /\ LET l == listening[Innermost.event][Innermost.pos + 1]
       IN  dispatches' = [dispatches EXCEPT ![Len(dispatches)].pos = @ + 1,
                                            ![Len(dispatches)].heard = Append(@, l)]
    /\ UNCHANGED <<source, subscription, retries, listening, changes, heads>>

\* call(): the iterator of the array goes by the index.
CallListener ==
    /\ dispatches # <<>> /\ Innermost.pos < Len(listening[Innermost.event])
    /\ LET l == listening[Innermost.event][Innermost.pos + 1]
       IN  dispatches' = [dispatches EXCEPT ![Len(dispatches)].pos = @ + 1,
                                            ![Len(dispatches)].heard = Append(@, l)]
    /\ UNCHANGED <<source, subscription, retries, listening, changes, heads>>

\* The iterator is at the end.  After the error of a stream whose Subject is dead,
\* retry() subscribes again and is told the error again, at once.
DispatchEnds ==
    /\ dispatches # <<>> /\ Innermost.pos >= Len(listening[Innermost.event])
    /\ dispatches' = IF Innermost.event = "error" /\ retries THEN <<Begun("error")>>
                     ELSE SubSeq(dispatches, 1, Len(dispatches) - 1)
    /\ UNCHANGED <<source, subscription, retries, listening, changes, heads>>

HeadArrives ==
    /\ source = "live" /\ subscription = "live" /\ dispatches = <<>>
    /\ heads < MaxHeads
    /\ dispatches' = <<Begun("data")>>
    /\ heads' = heads + 1
    /\ UNCHANGED <<source, subscription, retries, listening, changes>>

\* A request of the stream fails.  The error ends takeUntil and tap, whatever comes
\* behind them.
StreamFails ==
    /\ source = "live" /\ subscription = "live" /\ dispatches = <<>>
    /\ source' = "dead" /\ subscription' = "failed"
    /\ dispatches' = <<Begun("error")>>
    /\ UNCHANGED <<retries, listening, changes, heads>>

\* Mutated Close: a second call is dispatched as well.
Close_Again ==
    /\ subscription \in {"live", "closed"} /\ Len(dispatches) < 3
    /\ subscription' = "closed"
    /\ dispatches' = Append(dispatches, Begun("close"))
    /\ UNCHANGED <<source, retries, listening, changes, heads>>

\* close(): takeUntil completes, and the close listeners are called right away, be
\* it from inside of another dispatch.  A pipe that has ended does not notice.
Close ==
    /\ subscription = "live"
    /\ subscription' = "closed"
    /\ dispatches' = Append(dispatches, Begun("close"))
    /\ UNCHANGED <<source, retries, listening, changes, heads>>

SubscriptionNext ==
    \/ \E event \in Events, l \in Listeners : On(event, l) \/ Off(event, l)
    \/ CallListener \/ DispatchEnds \/ HeadArrives \/ StreamFails \/ Close

SubscriptionSpec == SubscriptionInit /\ [][SubscriptionNext]_subscriptionVars

-----------------------------------------------------------------------------
(* Properties *)

Times(s, l) == Cardinality({i \in DOMAIN s : s[i] = l})

\* A listener that is registered when a dispatch begins and still is at its end has
\* been called, unless some listener was removed meanwhile: the array closes up
\* under the iterator, and the one behind the removed one is skipped.  Nobody is called
\* more often than it is registered, unless it was added during the dispatch.
CalledAsRegistered ==
    \A i \in DOMAIN dispatches :
        LET d == dispatches[i]
        IN  d.removed \/
            /\ i = Len(dispatches) /\ d.pos >= Len(listening[d.event])
                   => d.start \subseteq Arrays!Range(d.heard)
            /\ \A l \in Listeners \ d.added :
                   Times(d.heard, l) <= Times(listening[d.event], l)

\* The end of a subscription is final, with or without a retry: after an error no
\* block and no close is dispatched any more, and the close listeners are called
\* for one close only; at most the dispatch in which close() was called goes on.
EndIsFinal ==
    [][subscription # "live" =>
          \A i \in DOMAIN dispatches' :
              /\ i > Len(dispatches) => dispatches'[i].event = "error"
              /\ subscription = "failed" => dispatches'[i].event = "error"
      ]_subscriptionVars
=============================================================================
