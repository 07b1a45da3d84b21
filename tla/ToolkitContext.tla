--------------------------- MODULE ToolkitContext ---------------------------
(***************************************************************************)
(* packages/taquito/src/taquito.ts and context.ts: the providers that a    *)
(* toolkit is configured with, and the copies of its context that the      *)
(* operations take along.  A default provider is bound to the context it   *)
(* was made for and asks that for the node; the default read provider is   *)
(* bound to a node.                                                        *)
(***************************************************************************)
EXTENDS Naturals

CONSTANTS
    Nodes,          \* the RPC clients
    Services,       \* signer, forger, wallet, packer, globalConstants, parser, stream
    Operations,     \* the operations that were sent
    MaxSettings     \* bound on the calls that configure the toolkit

ASSUME ToolkitAssumption ==
    /\ "stream" \in Services /\ MaxSettings \in Nat
    /\ Nodes \cap {"default", "custom", "none"} = {}

VARIABLES
    toolkit,    \* _context
    copy,       \* the context of each operation; moved is history: the rpc was set
                \* on its own before, or to another one since
    given,      \* history: what the user has given last for each service
    adrift,     \* history: the rpc was set, and the read provider not since then
    settings    \* how many calls configured the toolkit

toolkitVars == <<toolkit, copy, given, adrift, settings>>

(* A read provider is custom or an adapter of a node; a stream is custom, polls a
   node with a context of its own, or is the default one, bound to the toolkit. *)
Provider == {"default", "custom"} \cup Nodes
Context == [rpc : Nodes, read : Provider \ {"default"}, proto : BOOLEAN,
            service : [Services -> Provider]]

ToolkitTypeOK ==
    /\ toolkit \in Context
    /\ copy \in [Operations -> [sent : BOOLEAN, context : Context, moved : BOOLEAN]]
    /\ given \in [Services -> Provider]
    /\ adrift \in BOOLEAN
    /\ settings \in 0..MaxSettings

\* The constructor, with the rpc alone.
ToolkitInit ==
    /\ \E n \in Nodes : toolkit = [rpc |-> n, read |-> n, proto |-> FALSE,
                                   service |-> [s \in Services |-> "default"]]
    /\ copy = [o \in Operations |-> [sent |-> FALSE, context |-> toolkit, moved |-> FALSE]]
    /\ given = [s \in Services |-> "default"]
    /\ adrift = FALSE
    /\ settings = 0

-----------------------------------------------------------------------------
\* What each setter makes of the context, with "none" for an option that is not given.
WithRpc(context, rpc) == IF rpc = "none" THEN context ELSE [context EXCEPT !.rpc = rpc]

\* Mutated WithRead: the adapter in use is kept.
WithRead_Kept(context, read) ==
    IF read = "none" THEN context ELSE [context EXCEPT !.read = read]

\* setReadProvider: without one, a new adapter for the rpc.
WithRead(context, read) ==
    [context EXCEPT !.read = IF read = "none" THEN context.rpc ELSE read]

\* Mutated WithServices: what is not given goes back to the default.
WithServices_Reset(context, services) ==
    [context EXCEPT !.service = [s \in Services |-> IF s \in DOMAIN services THEN services[s]
                                                    ELSE "default"]]

\* setSignerProvider and all the others: what is not given stays as it is.
WithServices(context, services) ==
    [context EXCEPT !.service = [s \in Services |-> IF s \in DOMAIN services THEN services[s]
                                                    ELSE @[s]]]

Moved(n) == [o \in Operations |-> [copy[o] EXCEPT !.moved = @ \/ n # toolkit.rpc]]

Given(services) == [s \in Services |-> IF s \in DOMAIN services THEN services[s] ELSE given[s]]

SetRpcProvider(rpc) ==
    /\ toolkit' = WithRpc(toolkit, rpc)
    /\ copy' = Moved(rpc)
    /\ adrift' = TRUE
    /\ UNCHANGED given

SetReadProvider(read) ==
    /\ toolkit' = WithRead(toolkit, read)
    /\ adrift' = FALSE
    /\ UNCHANGED <<copy, given>>

SetServiceProvider(services) ==
    /\ toolkit' = WithServices(toolkit, services)
    /\ given' = Given(services)
    /\ UNCHANGED <<copy, adrift>>

\* Mutated SetProvider: the read provider is set before the rpc.
SetProvider_ReadFirst(rpc, read, services, proto) ==
    /\ toolkit' = [WithRpc(WithServices(WithRead(toolkit, read), services), rpc)
                      EXCEPT !.proto = proto]
    /\ copy' = Moved(toolkit'.rpc)
    /\ given' = Given(services)
    /\ adrift' = FALSE

\* setProvider: all of them, the rpc first; the protocol is what it is told or unset.
SetProvider(rpc, read, services, proto) ==
    /\ toolkit' = [WithRead(WithServices(WithRpc(toolkit, rpc), services), read)
                      EXCEPT !.proto = proto]
    /\ copy' = Moved(toolkit'.rpc)
    /\ given' = Given(services)
    /\ adrift' = FALSE

Options == [{"stream"} -> {"custom"} \cup Nodes]
           \cup UNION {[S -> {"custom"}] : S \in SUBSET Services}

Configure ==
    /\ settings < MaxSettings
    /\ settings' = settings + 1
    /\ \/ \E rpc \in Nodes : SetRpcProvider(rpc)
       \/ \E read \in {"custom", "none"} : SetReadProvider(read)
       \/ \E services \in Options : SetServiceProvider(services)
       \/ \E rpc \in Nodes \cup {"none"}, read \in {"custom", "none"},
             services \in Options, proto \in BOOLEAN :
             SetProvider(rpc, read, services, proto)

\* clone(): an operation is sent and keeps a copy for its confirmation.
SendOperation(o) ==
    /\ ~copy[o].sent
    /\ copy' = [copy EXCEPT ![o] = [sent |-> TRUE, context |-> toolkit, moved |-> adrift]]
    /\ UNCHANGED <<toolkit, given, adrift, settings>>

ToolkitNext == Configure \/ \E o \in Operations : SendOperation(o)

ToolkitSpec == ToolkitInit /\ [][ToolkitNext]_toolkitVars

-----------------------------------------------------------------------------
(* Properties *)

\* The node a context gets its heads from: the default stream asks the toolkit.
HeadsOf(context) ==
    IF context.service["stream"] = "default" THEN toolkit.rpc ELSE context.service["stream"]

\* Operations are prepared from the node they are injected into, unless the rpc was
\* set on its own, which leaves the reads with the node before, or the reads are custom.
ReadsFollowRpc == toolkit.read \in {toolkit.rpc, "custom"} \/ adrift

\* The copy of an operation reads its heads and the blocks in between from one node,
\* unless one of the two was given by the user, or the toolkit was given another rpc
\* after the operation was sent: the stream of the copy is the toolkit's and follows.
CopySeesOneNode(o) ==
    LET context == copy[o].context
    IN  copy[o].sent =>
            \/ "custom" \in {context.read, HeadsOf(context)}
            \/ context.service["stream"] \in Nodes
            \/ HeadsOf(context) = context.read
            \/ copy[o].moved

\* Through every order of the setters: a provider that was given stays in use until
\* another one is given (only the read provider and the protocol do not stay), and
\* what is not given agrees on one node.
ProvidersAgree ==
    /\ toolkit.service = given
    /\ ReadsFollowRpc
    /\ \A o \in Operations : CopySeesOneNode(o)
=============================================================================
