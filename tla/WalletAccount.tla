---------------------------- MODULE WalletAccount ----------------------------
(***************************************************************************)
(* packages/taquito/src/wallet/wallet.ts with                              *)
(* packages/taquito-beacon-wallet/src/taquito-beacon-wallet.ts: whose      *)
(* account a wallet command is for.  The toolkit keeps the public key hash *)
(* that the wallet told it once; the wallet sends from the account that is *)
(* active by then, and asks its client for it each time.                   *)
(***************************************************************************)
EXTENDS Naturals

CONSTANTS
    Accounts,
    Commands,       \* the commands of the wallet API
    NoAccount,
    MaxSwitches     \* bound on the changes of the active account

ASSUME WalletAssumption == NoAccount \notin Accounts /\ MaxSwitches \in Nat

VARIABLES
    active,     \* the active account of the Beacon client
    permitted,  \* whether its scopes have OPERATION_REQUEST
    pkh,        \* _pkh
    pkhFresh,   \* history: the active account is the one it was when pkh was read
    screen,     \* whether the screen of showPrepare is there
    command,    \* the state of each command
    switches    \* how often the active account has changed

walletVars == <<active, permitted, pkh, pkhFresh, screen, command, switches>>

CommandKinds == {"transfer", "registerDelegate", "refetch"}

(* fresh is history: the active account is the one it was when the public key hash
   that this command uses was read. *)
Command == [kind : CommandKinds, pc : {"idle", "params", "asked", "told", "mapped", "checked",
                                "done", "failed", "not sent"},
            delegate : Accounts \cup {NoAccount}, source : Accounts \cup {NoAccount},
            fresh : BOOLEAN]

WalletTypeOK ==
    /\ active \in Accounts \cup {NoAccount} /\ permitted \in BOOLEAN
    /\ pkh \in Accounts \cup {NoAccount} /\ pkhFresh \in BOOLEAN
    /\ screen \in BOOLEAN
    /\ command \in [Commands -> Command]
    /\ switches \in 0..MaxSwitches

WalletInit ==
    /\ active = NoAccount /\ permitted = FALSE
    /\ pkh = NoAccount /\ pkhFresh = FALSE
    /\ screen = FALSE
    /\ command = [c \in Commands |->
                    [kind |-> "transfer", pc |-> "idle", delegate |-> NoAccount,
                     source |-> NoAccount, fresh |-> FALSE]]
    /\ switches = 0

-----------------------------------------------------------------------------
\* requestPermissions makes an account active, clearActiveAccount none; the user may
\* choose another one in the wallet.
SwitchAccount ==
    /\ switches < MaxSwitches
    /\ switches' = switches + 1
    /\ active' \in (Accounts \cup {NoAccount}) \ {active}
    /\ permitted' \in IF active' = NoAccount THEN {FALSE} ELSE BOOLEAN
    /\ pkhFresh' = FALSE
    /\ command' = [c \in Commands |-> IF command[c].pc = "done" THEN command[c]
                                      ELSE [command[c] EXCEPT !.fresh = FALSE]]
    /\ UNCHANGED <<pkh, screen>>

\* send() of a command shows the screen first; pkh({ forceRefetch: true }) asks.
BeginCommand(c, kind) ==
    /\ command[c].pc = "idle"
    /\ command' = [command EXCEPT ![c].kind = kind,
                                  ![c].pc = IF kind = "refetch" THEN "asked" ELSE "params"]
    /\ screen' = (screen \/ kind # "refetch")
    /\ UNCHANGED <<active, permitted, pkh, pkhFresh, switches>>

\* Mutated TransferParams: the screen is left when the parameters fail.
TransferParams_Shown(c) ==
    /\ command[c].pc = "params" /\ command[c].kind = "transfer"
    /\ \E next \in {"mapped", "failed"} : command' = [command EXCEPT ![c].pc = next]
    /\ UNCHANGED <<active, permitted, pkh, pkhFresh, screen, switches>>

\* The parameters of a call: they may fail, and then the screen is hidden.
TransferParams(c) ==
    /\ command[c].pc = "params" /\ command[c].kind = "transfer"
    /\ \/ command' = [command EXCEPT ![c].pc = "mapped"] /\ UNCHANGED screen
       \/ command' = [command EXCEPT ![c].pc = "failed"] /\ screen' = FALSE
    /\ UNCHANGED <<active, permitted, pkh, pkhFresh, switches>>

\* registerDelegate takes the account from pkh(), which asks only if none is kept.
DelegateParams(c) ==
    /\ command[c].pc = "params" /\ command[c].kind = "registerDelegate"
    /\ command' = [command EXCEPT
          ![c] = IF pkh = NoAccount THEN [@ EXCEPT !.pc = "asked"]
                 ELSE [@ EXCEPT !.pc = "mapped", !.delegate = pkh, !.fresh = pkhFresh]]
    /\ UNCHANGED <<active, permitted, pkh, pkhFresh, screen, switches>>

\* getPKH: the active account, or BeaconWalletNotInitialized.
PkhRead(c) ==
    /\ command[c].pc = "asked"
    /\ IF active = NoAccount
       THEN /\ command' = [command EXCEPT ![c].pc = "failed"]
            /\ screen' = (screen /\ command[c].kind = "refetch")
       ELSE /\ command' = [command EXCEPT ![c].pc = "told", ![c].delegate = active,
                                          ![c].fresh = TRUE]
            /\ UNCHANGED screen
    /\ UNCHANGED <<active, permitted, pkh, pkhFresh, switches>>

\* Mutated PkhKept: what is kept is not replaced.
PkhKept_First(c) ==
    /\ command[c].pc = "told"
    /\ pkh' = IF pkh = NoAccount THEN command[c].delegate ELSE pkh
    /\ pkhFresh' = command[c].fresh
    /\ command' = [command EXCEPT ![c].delegate = pkh', ![c].pc =
                      IF command[c].kind = "refetch" THEN "done" ELSE "mapped"]
    /\ UNCHANGED <<active, permitted, screen, switches>>

\* The answer is there, and kept from now on.
PkhKept(c) ==
    /\ command[c].pc = "told"
    /\ pkh' = command[c].delegate
    /\ pkhFresh' = command[c].fresh
    /\ command' = [command EXCEPT ![c].delegate = pkh', ![c].pc =
                      IF command[c].kind = "refetch" THEN "done" ELSE "mapped"]
    /\ UNCHANGED <<active, permitted, screen, switches>>

\* sendOperations: the active account is asked for again, and its scopes.  An error does
\* not hide the screen.
AccountChecked(c) ==
    /\ command[c].pc = "mapped"
    /\ command' = [command EXCEPT ![c].pc =
                      IF active # NoAccount /\ permitted THEN "checked" ELSE "not sent"]
    /\ UNCHANGED <<active, permitted, pkh, pkhFresh, screen, switches>>

\* requestOperation: the client takes the account that is active by now.  It puts its own
\* screen in the place of the first one, on which the user accepts or rejects.
OperationRequested(c) ==
    /\ command[c].pc = "checked"
    /\ IF active # NoAccount /\ permitted
       THEN /\ \/ command' = [command EXCEPT ![c].pc = "done", ![c].source = active]
               \/ command' = [command EXCEPT ![c].pc = "failed"]
            /\ screen' = FALSE
       ELSE command' = [command EXCEPT ![c].pc = "not sent"] /\ UNCHANGED screen
    /\ UNCHANGED <<active, permitted, pkh, pkhFresh, switches>>

WalletNext ==
    \/ SwitchAccount
    \/ \E c \in Commands :
          \/ \E kind \in CommandKinds : BeginCommand(c, kind)
          \/ TransferParams(c) \/ DelegateParams(c) \/ PkhRead(c) \/ PkhKept(c)
          \/ AccountChecked(c) \/ OperationRequested(c)

WalletSpec == WalletInit /\ [][WalletNext]_walletVars

-----------------------------------------------------------------------------
(* Properties *)

\* Who registers as a delegate registers himself, unless the active account has
\* changed since the public key hash was read, be it in the call of another command.
RegistersItself ==
    \A c \in Commands :
        /\ command[c].pc = "done" /\ command[c].kind = "registerDelegate"
        /\ command[c].fresh
        => command[c].delegate = command[c].source

\* The screen that says that an operation is being prepared goes away with the last
\* command, unless that one could not be sent for want of an account or a permission.
ScreenCloses ==
    screen => \E c \in Commands :
        command[c].pc \in {"params", "asked", "told", "mapped", "checked", "not sent"}
=============================================================================
