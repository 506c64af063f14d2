------------------------ MODULE ManagementAuthority ------------------------
(***************************************************************************)
(* The life of the management authority: Genesis on an empty control       *)
(* directory (AuthorityGenesis), then successor transactions               *)
(* (AuthoritySuccessor).  The two never run together: every successor      *)
(* requires a terminal Genesis, and Genesis on an initialised directory    *)
(* only reopens its own proof.  The composition therefore takes the        *)
(* behaviours of the one stage or of the other, chosen at first, and       *)
(* shows that what the first one leaves is what the second one starts      *)
(* from.                                                                   *)
(***************************************************************************)
EXTENDS AuthoritySuccessor

CONSTANTS Inputs,       \* the input tuples operators try Genesis with
          Nobody,       \* no Genesis transaction
          MaxGenFault   \* bound: crashes and failed writes of Genesis

VARIABLES stage,                                   \* the stage that moves
          mode, store, cmd, bot, late, gfaults     \* those of Genesis

G == INSTANCE AuthorityGenesis

genesisVars == <<mode, store, cmd, bot, late, gfaults>>
authorityVars == <<stage, vars, genesisVars>>

AuthorityInit ==
    /\ stage \in {"genesis", "successor"} /\ Init /\ G!Init
    /\ stage = "genesis" => disk.reader = "no-reader"
    /\ stage = "successor" => mode = "no-reader"

AuthorityNext ==
    \/ stage = "genesis" /\ G!Next /\ UNCHANGED <<stage, vars>>
    \/ stage = "successor" /\ Next /\ UNCHANGED <<stage, genesisVars>>

\* A command that runs goes on, a running bot acknowledges a successor, the
\* thirty seconds of a grant pass, and the operator repeats the command of the
\* transaction that is unfinished until it gets the management locks (commands
\* with other inputs compete for them).  Nothing obliges the bot to answer a
\* Genesis handshake in time.
InGenesis == stage = "genesis"
InSuccessor == stage = "successor"
AuthoritySpec ==
    /\ AuthorityInit /\ [][AuthorityNext]_authorityVars
    /\ WF_genesisVars(InGenesis /\ G!GenOperation)
    /\ WF_genesisVars(InGenesis /\ G!GrantExpires)
    /\ SF_genesisVars(InGenesis /\ G!GenCommand(store.owner))
    /\ WF_vars(InSuccessor /\ Progress)
    /\ WF_vars(InSuccessor /\ completePendingSuccessor)
    /\ SF_vars(InSuccessor /\ Retry)

-----------------------------------------------------------------------------
(* Properties.                                                             *)

Count(kind) == IF kind \in store.recs THEN 1 ELSE 0
By(kind) == IF kind \in store.recs THEN Genesis ELSE NoTx

\* What the records Genesis left say of the authority, in the terms of the
\* successor transactions.
Left ==
    [mg |-> [rev |-> 0, epoch |-> Count("epoch"), fence |-> Count("fenceCommitted"),
             tok |-> Count("tokenCommitted"), map |-> 0, phase |-> store.phase,
             tx |-> IF store.tx = store.owner THEN Genesis ELSE NoTx,
             suffix |-> FALSE],
     req |-> <<>>, recs |-> {},
     head |-> [tx |-> By("authorityReceipt"), seq |-> Count("zFinality"),
               phase |-> "none"],
     fence |-> [res |-> Count("fenceReserved"), com |-> Count("fenceCommitted"),
                resTx |-> By("fenceReserved"), comTx |-> By("fenceCommitted")],
     epoch |-> [res |-> Count("epochReserved"), com |-> Count("epochFloor"),
                resTx |-> By("epochReserved"), comTx |-> By("epochFloor")],
     token |-> [phase |-> IF G!Has({"tokenCommitted"}) THEN "committed" ELSE "pending",
                res |-> Count("tokenReserved"), com |-> Count("tokenCommitted"),
                resTx |-> By("tokenReserved"), comTx |-> By("tokenCommitted")],
     target |-> [tx |-> By("target"), fence |-> Count("target")],
     root |-> Count("root"), marker |-> Count("marker"),
     close |-> [tx |-> NoTx, reason |-> ""],
     reader |-> IF G!Has({"ack"}) THEN "bound-reader" ELSE "no-reader"]

\* A Genesis that is terminal and not closed left exactly what the successor
\* transactions start from, with the reader's acknowledgement when it was
\* asked for a reader, however often it failed, crashed, was repeated or
\* raced the bot on the way (management-runtime.js #genesis).
TerminalGenesisComplete ==
    (InGenesis /\ store.phase = "terminal" /\ G!NotClosed) =>
        Left = GenesisDisk(IF mode = "handshake" THEN "bound-reader"
                           ELSE "no-reader")

\* The records and the state of the management authority never contradict each
\* other: a terminal state has all that it stands on, a cleanup that ended says
\* so, and Genesis leaves what its successors start from (persistFinality,
\* manualCleanup, #genesis).
AuthorityRecorded ==
    TypeOK /\ TerminalStateBacked /\ CleanupRecorded /\ TerminalGenesisComplete

\* Past a terminal-close neither stage writes anything but the manual state
\* and the suffix of the closed transaction: no floor, target, request or
\* reader record moves, not even under a bot that had read the authority
\* before (requireNoTerminalClose in every native operation).
FrozenAfterClose ==
    [][/\ (InSuccessor => FrozenStep)
       /\ (InGenesis => G!FrozenStep)]_authorityVars

\* No transaction stays in the way: under retries a successor's head becomes
\* terminal or a close record is written (recoverPublicSuccessor), and a
\* Genesis that left a record ends terminal, closed, or stranded before
\* anything was published (#genesis, completePendingGenesis).
AuthoritySettles ==
    /\ (InSuccessor /\ Unfinished) ~> (~Unfinished \/ ~NoClose)
    /\ (InGenesis /\ store.owner # Nobody)
         ~> (store.phase = "terminal" \/ ~G!NotClosed \/ G!Stranded)
=============================================================================
