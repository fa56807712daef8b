----------------------------- MODULE WalletSdk ------------------------------
(***************************************************************************)
(* Handles of the wallet SDK (crates/wallet/sdk), the relayer that sends   *)
(* what they sign, and the wallets of one account id on several chains.    *)
(*                                                                         *)
(* Clones of a handle share, through an Arc, what they know about the      *)
(* wallet (`initialized') and the pool that they draw nonces from.  A cell *)
(* behind an Arc is a number here.  The wallet contract is abstract: it    *)
(* takes a nonce once, and runs the request of an enabled extension.       *)
(***************************************************************************)
EXTENDS Naturals, Sequences, SequencesExt, FiniteSets

CONSTANTS
    Networks,     \* chain ids
    MAINNET,
    real_id,      \* the real account id of the wallet
    Masters,      \* wallets that may have it as an extension
    Handles,      \* names of handles; bounds the number of clones
    None,         \* no handle, client, relayer or MPC contract
    MaxArcs,      \* bounds the number of cells
    MaxConfigs,   \* bounds the number of calls that configure handles
    MaxRequests,  \* bounds the number of requests that are signed
    BLOCK,        \* 2^5: the nonces of a block
    BLOCKS        \* 2^27: the blocks

ASSUME SdkAssumption ==
    /\ MAINNET \in Networks
    /\ real_id \notin Masters
    /\ {MaxArcs, MaxConfigs, MaxRequests, BLOCK, BLOCKS} \subseteq Nat \ {0}

VARIABLES
    handles,      \* the Wallet handles
    arcs,         \* how many cells there are
    configs,      \* how often handles were configured
    initialized,  \* the AtomicBool cells
    pools,        \* the ConcurrentNonces cells: `next' and, as history, how
                  \* many blocks it drew and how often it was replaced
    signed,       \* the messages that were signed, in order
    exists,       \* the chains on which the wallet exists
    used,         \* the nonces that the wallet of a chain has accepted
    calls,        \* w_execute_extension() calls under way
    executed,     \* the requests that took effect, and on whose behalf
    assumed       \* history: cells set without a look at the chain they are of

chainVars == <<exists, used, calls, executed>>
sdkVars == <<handles, arcs, configs, initialized, pools, signed, assumed, chainVars>>
-----------------------------------------------------------------------------
SdkInit ==
    /\ handles = [h \in Handles |-> None]
    /\ arcs = 0
    /\ configs = 0
    /\ initialized = [i \in 1 .. MaxArcs |-> FALSE]
    /\ pools = [i \in 1 .. MaxArcs |-> [next |-> 0, drawn |-> 0, seed |-> 0]]
    /\ signed = <<>>
    /\ exists = {}
    /\ used = [c \in Networks |-> {}]
    /\ calls = {}
    /\ executed = <<>>
    /\ assumed = {}

Built == {h \in Handles : handles[h] # None}
Set(h, wallet) == handles' = [handles EXCEPT ![h] = wallet]
Configure(h, wallet) ==
    /\ configs < MaxConfigs
    /\ configs' = configs + 1
    /\ Set(h, wallet)
NewArc == arcs < MaxArcs /\ arcs' = arcs + 1

account_id(wallet) ==
    IF wallet.as_extension_chain = <<>> THEN real_id ELSE Last(wallet.as_extension_chain)

(* WalletBuilder::build().                                                 *)
Build(h) ==
    /\ handles[h] = None
    /\ NewArc
    /\ Set(h, [initialized |-> arcs', nonces |-> arcs', as_extension_chain |-> <<>>,
               chain_id |-> MAINNET, client |-> None, relayer |-> None,
               mpc_contract_id |-> MAINNET])
    /\ UNCHANGED <<configs, initialized, pools, signed, assumed, chainVars>>

Clone(h, g) ==
    /\ handles[g] = None
    /\ Set(g, handles[h])
    /\ UNCHANGED <<arcs, configs, initialized, pools, signed, assumed, chainVars>>

(* The MPC contract of a chain has the name of the chain here; the SDK     *)
(* only knows the one of mainnet.                                          *)
DefaultMpc(c) == IF c = MAINNET THEN MAINNET ELSE None

(* Mutation: what is known about the wallet is kept.                       *)
MovedKnowing(wallet, c, arc) ==
    [wallet EXCEPT !.chain_id = c, !.nonces = arc, !.mpc_contract_id = DefaultMpc(c)]
Moved(wallet, c, arc) ==
    [wallet EXCEPT !.chain_id = c, !.initialized = arc, !.nonces = arc,
                   !.mpc_contract_id = DefaultMpc(c)]

WithChainId(h, c) ==
    /\ c # handles[h].chain_id
    /\ NewArc
    /\ Configure(h, Moved(handles[h], c, arcs'))
    /\ UNCHANGED <<initialized, pools, signed, assumed, chainVars>>

WithClient(h, c) ==
    /\ IF c = handles[h].chain_id
       THEN Configure(h, [handles[h] EXCEPT !.client = c]) /\ UNCHANGED arcs
       ELSE NewArc /\ Configure(h, [Moved(handles[h], c, arcs') EXCEPT !.client = c])
    /\ UNCHANGED <<initialized, pools, signed, assumed, chainVars>>

WithRelayer(h, c) ==
    /\ Configure(h, [handles[h] EXCEPT !.relayer = c])
    /\ UNCHANGED <<arcs, initialized, pools, signed, assumed, chainVars>>

(* The MPC contract of the chain that the handle is for.                   *)
WithMpcContractId(h) ==
    /\ Configure(h, [handles[h] EXCEPT !.mpc_contract_id = handles[h].chain_id])
    /\ UNCHANGED <<arcs, initialized, pools, signed, assumed, chainVars>>

AsInitializedUnchecked(h) ==
    /\ NewArc
    /\ Configure(h, [handles[h] EXCEPT !.initialized = arcs'])
    /\ initialized' = [initialized EXCEPT ![arcs'] = TRUE]
    /\ assumed' = assumed \cup {arcs'}
    /\ UNCHANGED <<pools, signed, chainVars>>

(* It panics if that would close a cycle.                                  *)
AsExtensionOf(h, m) ==
    /\ m \notin {real_id} \cup Range(handles[h].as_extension_chain)
    /\ Configure(h, [handles[h] EXCEPT !.as_extension_chain = Append(@, m)])
    /\ UNCHANGED <<arcs, initialized, pools, signed, assumed, chainVars>>

AsSelf(h) ==
    /\ Configure(h, [handles[h] EXCEPT !.as_extension_chain = <<>>])
    /\ UNCHANGED <<arcs, initialized, pools, signed, assumed, chainVars>>
-----------------------------------------------------------------------------
(* ConcurrentNonces::next(), on a pool that the Mutex guards: a new block  *)
(* is drawn when the last is used up.                                      *)
IsBoundary(next) == next % BLOCK = 0

Drawn(pool, b) ==
    IF IsBoundary(pool.next) THEN [pool EXCEPT !.next = b * BLOCK, !.drawn = @ + 1]
    ELSE pool

Advanced(pool) == [pool EXCEPT !.next = (@ + 1) % (BLOCKS * BLOCK)]

ReseedNonces(h) ==
    /\ Configure(h, handles[h])
    /\ pools' = [pools EXCEPT ![handles[h].nonces] =
                     [next |-> 0, drawn |-> 0, seed |-> @.seed + 1]]
    /\ UNCHANGED <<arcs, initialized, signed, assumed, chainVars>>

(* wrap_request_msg(): a call of w_execute_extension() for every wallet    *)
(* of the chain of extensions, around the request.                         *)
CallExtension(m, request) == [to |-> m, request |-> request]

(* Mutation: wrapped from the first extension on.                          *)
WrapRequestForwards(request, extension_chain) ==
    FoldLeft(LAMBDA r, m : CallExtension(m, r), request, extension_chain)
WrapRequest(request, extension_chain) ==
    FoldRight(CallExtension, extension_chain, request)

(* sign(), and what the message was meant for.                             *)
Sign(wallet, b, awaited) ==
    LET pool == Drawn(pools[wallet.nonces], b)
        id == Len(signed) + 1
    IN  /\ Len(signed) < MaxRequests
        /\ pools' = [pools EXCEPT ![wallet.nonces] = Advanced(pool)]
        /\ signed' = Append(signed,
               [chain_id |-> wallet.chain_id, nonce |-> pool.next,
                request |-> WrapRequest([to |-> None, id |-> id], wallet.as_extension_chain),
                state_init |-> ~ initialized[wallet.initialized],
                awaited |-> awaited, cell |-> wallet.initialized, client |-> wallet.client,
                relayed |-> wallet.relayer = wallet.chain_id,
                as |-> account_id(wallet), drawn |-> pool.drawn,
                pool |-> <<wallet.nonces, pool.seed>>])

(* sign_and_send() panics without a relayer, before it signs.  A relayer   *)
(* for another chain refuses the message.                                  *)
SignAndSend(h, b) ==
    /\ handles[h].relayer # None
    /\ Sign(handles[h], b, FALSE)
    /\ UNCHANGED <<handles, arcs, configs, initialized, assumed, chainVars>>

(* check_initialized(): the client is asked if the wallet is there.        *)
CheckInitialized(wallet) ==
    /\ wallet.client # None
    /\ initialized[wallet.initialized] \/ wallet.client \in exists

(* initialize(): nothing is sent if the wallet is known to exist;          *)
(* otherwise an empty request is.                                          *)
Initialize(h, b) ==
    LET wallet == handles[h]
    IN  /\ wallet.as_extension_chain = <<>>
        /\ wallet.client # None
        /\ IF CheckInitialized(wallet)
           THEN /\ initialized' = [initialized EXCEPT ![wallet.initialized] = TRUE]
                /\ assumed' = IF ~ initialized[wallet.initialized]
                                 /\ wallet.client # wallet.chain_id
                              THEN assumed \cup {wallet.initialized} ELSE assumed
                /\ UNCHANGED <<signed, pools>>
           ELSE /\ wallet.relayer # None
                /\ Sign(wallet, b, TRUE)
                /\ UNCHANGED <<initialized, assumed>>
        /\ UNCHANGED <<handles, arcs, configs, chainVars>>

(* The rest of initialize(): its transaction is final, as the client sees  *)
(* it, and some receipt of the wallet succeeded.                           *)
InitializeDone(id) ==
    LET m == signed[id]
    IN  /\ m.awaited
        /\ m.client = m.chain_id
        /\ \E i \in DOMAIN executed : executed[i].id = id
        /\ initialized' = [initialized EXCEPT ![m.cell] = TRUE]
        /\ UNCHANGED <<handles, arcs, configs, pools, signed, assumed, chainVars>>
-----------------------------------------------------------------------------
(* A request runs on behalf of an account: it takes effect, or is one call *)
(* of the next wallet.                                                     *)
Run(c, account, request, others) ==
    IF request.to = None
    THEN /\ executed' = Append(executed, [id |-> request.id, chain |-> c, as |-> account])
         /\ calls' = others
    ELSE /\ calls' = others \cup {[chain |-> c, from |-> account, to |-> request.to,
                                   request |-> request.request]}
         /\ UNCHANGED executed

(* The relayer's transaction: DeterministicStateInit if it is part of it,  *)
(* and then w_execute_signed(); both or none.  The relayer sends it again  *)
(* until it is included, and others may as well.                           *)
ExecuteSigned(id, c) ==
    LET m == signed[id]
    IN  /\ m.relayed
        /\ m.state_init \/ c \in exists
        /\ c = m.chain_id
        /\ m.nonce \notin used[c]
        /\ exists' = exists \cup {c}
        /\ used' = [used EXCEPT ![c] = @ \cup {m.nonce}]
        /\ Run(c, real_id, m.request, calls)
        /\ UNCHANGED <<handles, arcs, configs, initialized, pools, signed, assumed>>

(* w_execute_extension(): the wallet has the caller as an extension, or    *)
(* the call fails.                                                         *)
ExecuteExtension(call) ==
    /\ \/ Run(call.chain, call.to, call.request, calls \ {call})
       \/ calls' = calls \ {call} /\ UNCHANGED executed
    /\ UNCHANGED <<handles, arcs, configs, initialized, pools, signed, assumed, exists, used>>

SdkNext ==
    \/ \E h \in Handles : Build(h)
    \/ \E h \in Built :
           \/ \E g \in Handles : Clone(h, g)
           \/ \E c \in Networks : WithChainId(h, c) \/ WithClient(h, c) \/ WithRelayer(h, c)
           \/ \E m \in Masters : AsExtensionOf(h, m)
           \/ WithMpcContractId(h) \/ AsInitializedUnchecked(h) \/ AsSelf(h)
           \/ \E b \in 0 .. BLOCKS - 1 : SignAndSend(h, b) \/ Initialize(h, b)
           \/ ReseedNonces(h)
    \/ \E id \in DOMAIN signed : \/ InitializeDone(id)
                                 \/ \E c \in Networks : ExecuteSigned(id, c)
    \/ \E call \in calls : ExecuteExtension(call)
-----------------------------------------------------------------------------
(* What handles know is about the chain that they are for, however they    *)
(* were cloned and moved between chains: a wallet that is known to be      *)
(* initialized exists on that chain, so that what is sent without          *)
(* DeterministicStateInit finds a contract, and the MPC contract is of     *)
(* that chain.  Cells that were set without a look at the chain are        *)
(* excepted (as_initialized_unchecked(), or a client of another chain).    *)
HandlesKnowTheirChain ==
    /\ \A h \in Built :
          /\ initialized[handles[h].initialized] /\ handles[h].initialized \notin assumed
             => handles[h].chain_id \in exists
          /\ handles[h].mpc_contract_id \in {None, handles[h].chain_id}
    /\ \A id \in DOMAIN signed :
          signed[id].state_init \/ signed[id].cell \in assumed
          \/ signed[id].chain_id \in exists

(* Clones that draw from one pool never get a nonce twice from one block,  *)
(* and use a block up before they draw another, so that what the wallet    *)
(* has to store is dense (ConcurrentNonces::next).                         *)
ClonesShareBlocks ==
    \A i, j \in DOMAIN signed :
        i < j /\ signed[i].pool = signed[j].pool =>
            IF signed[i].drawn = signed[j].drawn
            THEN /\ signed[i].nonce \div BLOCK = signed[j].nonce \div BLOCK
                 /\ signed[i].nonce < signed[j].nonce
            ELSE BLOCK = Cardinality({k \in DOMAIN signed :
                             /\ signed[k].pool = signed[i].pool
                             /\ signed[k].drawn = signed[i].drawn})

(* Handles that were cloned, moved between chains and reseeded, in any     *)
(* order, agree on what they share: what the chain they are for has, and   *)
(* the nonces of their pool.                                               *)
HandlesAgree == HandlesKnowTheirChain /\ ClonesShareBlocks

(* A request takes effect at most once, on the chain it was signed for and *)
(* on behalf of the account that was the effective one when it was signed, *)
(* whatever is retried, cloned, moved or disabled in between (account_id,  *)
(* as_extension_of, wrap_request_msg).                                     *)
ExecutedAsSigned ==
    /\ \A i \in DOMAIN executed :
          LET m == signed[executed[i].id]
          IN  executed[i].as = m.as /\ executed[i].chain = m.chain_id
    /\ \A i, j \in DOMAIN executed : executed[i].id = executed[j].id => i = j
=============================================================================
