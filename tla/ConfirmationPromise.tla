------------------------- MODULE ConfirmationPromise -------------------------
(***************************************************************************)
(* What WalletOperation.confirmation(n) promises to its callers on a chain *)
(* that is not reorganised, with nothing about polling, replays or gaps: a *)
(* call resolves only when the operation is n blocks deep, an answer is    *)
(* final, a failure of the stream is told to everybody who waits, and in   *)
(* the end everybody has an answer.                                        *)
(***************************************************************************)
EXTENDS Naturals

CONSTANTS Callers, MaxConf

VARIABLES
    height,     \* the level of the head
    included,   \* the level that includes the operation, 0 when none does
    promise     \* what each caller asked, and how it was settled

vars == <<height, included, promise>>

Pending == [state |-> "idle", conf |-> 0]

Init ==
    /\ height = 1
    /\ included = 0
    /\ promise = [c \in Callers |-> Pending]

Deep(n) == included # 0 /\ height - included + 1 >= n

\* A block is added, which may include the operation.
Grow ==
    /\ height' = height + 1
    /\ included' \in IF included = 0 THEN {0, height + 1} ELSE {included}
    /\ UNCHANGED promise

\* A call is made: it waits, or is settled at once.  Only a positive number of
\* confirmations can be waited for.
Ask(c, n) ==
    /\ promise[c].state = "idle"
    /\ \E s \in {"waiting", "done", "failed"} :
          /\ s # "failed" => n >= 1
          /\ s = "done" => Deep(n)
          /\ promise' = [promise EXCEPT ![c] = [state |-> s, conf |-> n]]
    /\ UNCHANGED <<height, included>>

\* Some of those who wait are told that the operation is as deep as they asked.
Resolve(S) ==
    /\ \A c \in S : promise[c].state = "waiting" /\ Deep(promise[c].conf)
    /\ promise' = [c \in Callers |->
          IF c \in S THEN [promise[c] EXCEPT !.state = "done"] ELSE promise[c]]
    /\ UNCHANGED <<height, included>>

\* The stream breaks: nobody is left waiting.
Break ==
    /\ promise' = [c \in Callers |->
          IF promise[c].state = "waiting" THEN [promise[c] EXCEPT !.state = "failed"]
          ELSE promise[c]]
    /\ UNCHANGED <<height, included>>

Next ==
    \/ Grow
    \/ \E c \in Callers, n \in 0..MaxConf : Ask(c, n)
    \/ \E S \in SUBSET Callers : Resolve(S)
    \/ Break

Spec == Init /\ [][Next]_vars

\* Nobody waits for ever.
EveryCallSettles == \A c \in Callers : promise[c].state = "waiting" ~> promise[c].state # "waiting"
=============================================================================
