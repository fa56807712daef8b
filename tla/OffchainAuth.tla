---------------------------- MODULE OffchainAuth ----------------------------
(***************************************************************************)
(* Offchain authorizations (crates/signatures/nep641): RpcResolver asks    *)
(* the chain, with RPC calls, what an authorization of an account says.    *)
(* The account answers with a payload and with further authorizations, of  *)
(* other accounts, which the resolver looks up concurrently.  Wallets      *)
(* (contracts/wallet) are such accounts, and the wallet SDK                *)
(* (crates/wallet/sdk) writes such authorizations.                         *)
(*                                                                         *)
(* The chain goes on meanwhile.  A block never changes, so that one lookup *)
(* is one step, at the block that the RPC node serves.  An RPC node may    *)
(* lag, fail, or answer for another block than the one asked for.          *)
(***************************************************************************)
EXTENDS Naturals, Sequences, SequencesExt, FiniteSets

CONSTANTS
    Accounts,       \* account ids; the key of an account has the same name
    Payloads,
    ChainIds,
    chain_id,       \* the chain of the resolver
    Chains,         \* what the blocks of the chain can be
    Queries,        \* what the resolver is asked
    max_sub_auths,  \* RpcResolver::max_sub_auths
    max_depth,      \* RpcResolver::max_depth
    NoAnswer        \* also: no block, no payload

ASSUME AuthAssumption ==
    /\ chain_id \in ChainIds
    /\ max_sub_auths \in Nat
    /\ max_depth \in 0 .. max_sub_auths  \* with_max_depth() panics otherwise

VARIABLES
    chain,      \* the states of the blocks
    head,       \* the last final block
    query,      \* arguments of resolve_auth(), and RpcResolver::at_block
    faulty,     \* history: some RPC call failed or answered for another block
    block_hash, \* the block of the top-level resolution
    payload,    \* the payload of the top-level resolution
    in_flight,  \* the lookups under way
    sub_count,  \* how many sub-authorizations there are so far
    answer      \* the result of resolve_auth()

vars == <<chain, head, query, faulty, block_hash, payload, in_flight, sub_count, answer>>
-----------------------------------------------------------------------------
(* An account of a block: the keys that have full access to it, and the    *)
(* contract it runs.  Besides wallets there are contracts that answer with *)
(* a list given in the authorization, and contracts that always ask for    *)
(* one more authorization of their own.                                    *)
Account == [exists : BOOLEAN, full_access : SUBSET Accounts,
            code : {"none", "wallet", "list", "loop"},
            signature_enabled : BOOLEAN, extensions : SUBSET Accounts]

(* OffchainMessage.  A signature is over all of its fields.                *)
Message(chain_, signer, path, timestamp, p) ==
    [chain_id |-> chain_, signer_id |-> signer, path |-> path,
     timestamp |-> timestamp, payload |-> p]

top_level_id(msg) == IF msg.path = <<>> THEN msg.signer_id ELSE Last(msg.path)
depth(msg) == Len(msg.path)

(* Authorizations; signed_by is the key that made the signature.           *)
AccessKeyAuthorization(msg, access_key, signed_by) ==
    [t |-> "access_key", msg |-> msg, access_key |-> access_key, signed_by |-> signed_by]
SignatureAuthorization(msg, signed_by) ==
    [t |-> "signature", msg |-> msg, signed_by |-> signed_by]
ExtensionAuthorization(account, auth, p) ==
    [t |-> "extension", account_id |-> account, authorization |-> auth, payload |-> p]
ListAuthorization(p, pending) ==
    [t |-> "list", payload |-> p, pending |-> pending]

Pending(account, auth, expect) ==
    [account_id |-> account, authorization |-> auth, expect |-> expect]

(* AuthorizationResolution, and why there is none.                         *)
Leaf(p) == [ok |-> TRUE, payload |-> p, pending |-> <<>>, block |-> 0]
AddPending(r, account, auth, expect) ==
    [r EXCEPT !.pending = Append(@, Pending(account, auth, expect))]
Failed(kind) == [ok |-> FALSE, kind |-> kind, pending |-> <<>>]
-----------------------------------------------------------------------------
(* The account's side, in the state st of the block at time `now'.         *)
IsSignatureAllowed(a) == a.signature_enabled \/ a.extensions = {}

SignatureIsValidAnyPath(a, account, path, auth, now) ==
    /\ IsSignatureAllowed(a)
    /\ auth.msg.chain_id = chain_id
    /\ auth.msg.signer_id = account
    /\ auth.msg.timestamp <= now
    /\ auth.signed_by = account
SignatureIsValid(a, account, path, auth, now) ==
    /\ IsSignatureAllowed(a)
    /\ auth.msg.chain_id = chain_id
    /\ auth.msg.signer_id = account
    /\ auth.msg.path = path
    /\ auth.msg.timestamp <= now
    /\ auth.signed_by = account

(* w_resolve_auth() of a wallet.                                           *)
WalletResolveAuth(a, now, account, path, auth) ==
    IF auth.t = "signature" /\ SignatureIsValid(a, account, path, auth, now)
    THEN Leaf(auth.msg.payload)
    ELSE IF auth.t = "extension" /\ auth.account_id \in a.extensions
    THEN AddPending(Leaf(auth.payload), auth.account_id, auth.authorization, auth.payload)
    ELSE Failed("contract")

ContractResolution(st, now, account, path, auth) ==
    LET a == st[account]
        code == IF a.exists THEN a.code ELSE "none"
    IN  CASE code = "wallet" -> WalletResolveAuth(a, now, account, path, auth)
          [] code = "list" /\ auth.t = "list" ->
                 [Leaf(auth.payload) EXCEPT !.pending = auth.pending]
          [] code = "loop" ->
                 AddPending(Leaf(NoAnswer), account, auth, NoAnswer)
          [] OTHER -> Failed("contract")

(* The key has full access, or the account does not exist and is the       *)
(* implicit account of the key.                                            *)
HasFullAccess(a, account, key) ==
    IF a.exists THEN key \in a.full_access ELSE key = account

AccessKeyIsValid(st, time, account, path, auth) ==
    /\ auth.msg.chain_id = chain_id
    /\ auth.msg.signer_id = account
    /\ auth.msg.path = path
    /\ auth.signed_by = auth.access_key
    /\ auth.msg.timestamp <= time
    /\ HasFullAccess(st[account], account, auth.access_key)

AccessKeyResolution(st, time, account, path, auth) ==
    IF auth.t # "access_key" THEN Failed("json")
    ELSE IF AccessKeyIsValid(st, time, account, path, auth) THEN Leaf(auth.msg.payload)
    ELSE Failed("access_key")

(* An access key goes before the contract, and so does its error if there  *)
(* is no better answer.                                                    *)
Prefer(access_key, contract) ==
    IF \/ access_key.ok
       \/ ~ contract.ok /\ access_key.kind = "access_key"
    THEN access_key
    ELSE contract

Resolution(st, now, account, path, auth) ==
    Prefer(AccessKeyResolution(st, now, account, path, auth),
           ContractResolution(st, now, account, path, auth))
-----------------------------------------------------------------------------
(* The wallet SDK.  A wallet that acts as an extension of extension_of[1], *)
(* which is an extension of extension_of[2] and so on, signs for the last  *)
(* of them.                                                                *)
AsExtensionOf(auth, account) ==
    ExtensionAuthorization(account, auth,
        IF auth.t = "extension" THEN auth.payload ELSE auth.msg.payload)

WrapOffchainMsgReversed(auth, real, extension_of) ==
    FoldRight(LAMBDA account, a : AsExtensionOf(a, account),
              IF extension_of = <<>> THEN <<>> ELSE <<real>> \o Front(extension_of), auth)
WrapOffchainMsg(auth, real, extension_of) ==
    FoldLeft(AsExtensionOf, auth,
             IF extension_of = <<>> THEN <<>> ELSE <<real>> \o Front(extension_of))

SignOffchainMsg(real, extension_of, path, timestamp, p) ==
    WrapOffchainMsg(
        SignatureAuthorization(
            Message(chain_id, real, extension_of \o path, timestamp, p), real),
        real, extension_of)
-----------------------------------------------------------------------------
(* The resolver.  A lookup has the REVERSED path, from the top-level       *)
(* account down, and an identity.                                          *)
Lookup(id, account, rev_path, auth, expect, block) ==
    [id |-> id, account_id |-> account, rev_path |-> rev_path,
     authorization |-> auth, expect |-> expect, block |-> block]

Init ==
    /\ chain \in Chains
    /\ head = 1
    /\ query \in {q \in Queries : q.at_block <= head}
    /\ faulty = FALSE
    /\ block_hash = NoAnswer
    /\ payload = NoAnswer
    /\ in_flight = {Lookup(0, query.account_id, <<>>, query.authorization, NoAnswer,
                           query.at_block)}
    /\ sub_count = 0
    /\ answer = NoAnswer

NewBlock ==
    /\ head < Len(chain)
    /\ head' = head + 1
    /\ UNCHANGED <<chain, query, faulty, block_hash, payload, in_flight, sub_count, answer>>

(* What the RPC node serves when it is asked for a block: one that it      *)
(* has, or 0 for an error.  Block 0 is the final one.                      *)
Served == 0 .. head
IsFault(asked, served) == served = 0 \/ (asked # 0 /\ served # asked)

(* resolve_access_key(): the block first, or at the same time if it is     *)
(* known by its hash; the key is looked up in the block asked for.         *)
ResolveAccessKey(l, served) ==
    IF l.authorization.t # "access_key" THEN Failed("json")
    ELSE IF served = 0 THEN Failed("rpc")
    ELSE AccessKeyResolution(chain[IF l.block = 0 THEN served ELSE l.block], served,
                             l.account_id, Reverse(l.rev_path), l.authorization)

(* resolve_contract().                                                     *)
ResolveContract(l, served) ==
    IF served = 0 THEN Failed("rpc")
    ELSE ContractResolution(chain[served], served, l.account_id, Reverse(l.rev_path),
                            l.authorization)

IsAnyBlock(l, served) == TRUE
IsServedBlock(l, served) == l.block = 0 \/ served = l.block

IsExpected(l, r) == l.expect = NoAnswer \/ l.expect = r.payload

(* do_resolve_single().                                                    *)
DoResolveSingle(l, served_key, served_contract) ==
    LET access_key == ResolveAccessKey(l, served_key)
        contract == ResolveContract(l, served_contract)
        r == Prefer(access_key, contract)
        served == IF access_key.ok THEN served_key ELSE served_contract
    IN  IF ~ r.ok THEN r
        ELSE IF ~ IsServedBlock(l, served) THEN Failed("rpc")
        ELSE IF ~ IsExpected(l, r) THEN Failed("payload")
        ELSE [r EXCEPT !.block = served]

Answer(a) ==
    /\ answer' = a
    /\ in_flight' = {}

(* The sub-authorizations of a lookup, of which there are n already.       *)
SubLookups(l, r, n) ==
    {Lookup(n + i, r.pending[i].account_id, Append(l.rev_path, l.account_id),
            r.pending[i].authorization, r.pending[i].expect,
            IF l.id = 0 THEN r.block ELSE block_hash) : i \in DOMAIN r.pending}

ExceedsDepth(l, r) == r.pending # <<>> /\ Len(l.rev_path) >= max_depth
ExceedsCount(n) == n > max_sub_auths

IsDoneBefore(left) == in_flight = {}
IsDone(left) == left = {}

(* A turn of the loop of resolve_auth(): a lookup is done, its             *)
(* sub-authorizations are started, and when none is left the top-level     *)
(* payload is the answer.                                                  *)
Resolved(l, r) ==
    LET n == sub_count + Len(r.pending)
        left == (in_flight \ {l}) \cup SubLookups(l, r, sub_count)
        top_payload == IF l.id = 0 THEN r.payload ELSE payload
    IN  /\ payload' = top_payload
        /\ block_hash' = IF l.id = 0 THEN r.block ELSE block_hash
        /\ sub_count' = n
        /\ IF ExceedsDepth(l, r) \/ ExceedsCount(n) THEN Answer([ok |-> FALSE])
           ELSE IF IsDone(left) THEN Answer([ok |-> TRUE, payload |-> top_payload])
           ELSE in_flight' = left /\ UNCHANGED answer

ResolveSingle(l) ==
    \E served_key, served_contract \in Served :
        LET r == DoResolveSingle(l, served_key, served_contract)
        IN  /\ faulty' = (faulty \/ IsFault(l.block, served_key)
                                 \/ IsFault(l.block, served_contract))
            /\ IF r.ok THEN Resolved(l, r)
               ELSE Answer([ok |-> FALSE]) /\ UNCHANGED <<payload, block_hash, sub_count>>
            /\ UNCHANGED <<chain, head, query>>

Next == NewBlock \/ \E l \in in_flight : ResolveSingle(l)

(* The futures are polled, and an RPC call ends, if only with a timeout.   *)
Spec == Init /\ [][Next]_vars /\ WF_vars(\E l \in in_flight : ResolveSingle(l))
-----------------------------------------------------------------------------
(* The resolver answers as if it had looked at one block only: an accepted *)
(* payload is what the authorization means in a single final block, with   *)
(* every sub-authorization, and a refusal has a reason: a block in which   *)
(* it does not mean anything, or a call that failed (resolve_auth).        *)
Atomic == INSTANCE Authorization WITH MaxSubs <- max_sub_auths, MaxDepth <- max_depth
AtomicSpec == Atomic!Spec

(* The leaf of an authorization made of extensions.                        *)
RECURSIVE LeafOf(_)
LeafOf(auth) == IF auth.t = "extension" THEN LeafOf(auth.authorization) ELSE auth

(* An accepted payload was signed, by the key of the account at the end of *)
(* the chain of extensions, for this very account and no other that the    *)
(* signer is an extension of (path of OffchainMessage), and not later than *)
(* the block that it was checked against.                                  *)
SignedForThisAccount ==
    answer # NoAnswer /\ answer.ok =>
        LET leaf == LeafOf(query.authorization)
        IN  leaf.t # "list" =>
                /\ top_level_id(leaf.msg) = query.account_id
                /\ leaf.msg.payload = answer.payload
                /\ leaf.msg.timestamp <= block_hash
                /\ depth(leaf.msg) = sub_count

(* Contracts decide what they answer, and some always ask for more: the    *)
(* resolver does no more lookups than its limits allow                     *)
(* (with_max_sub_authorizations, with_max_depth).                          *)
WithinLimits ==
    /\ Cardinality(in_flight) <= 1 + max_sub_auths
    /\ \A l \in in_flight : l.id <= max_sub_auths /\ Len(l.rev_path) <= max_depth

(* resolve_auth() returns, also for authorizations without end.            *)
EventuallyAnswered == <>(answer # NoAnswer)

(* resolve_auth() returns, within its limits.                              *)
AnsweredWithinLimits == EventuallyAnswered /\ []WithinLimits

(* The accounts that the SDK signs through have each the one before as an  *)
(* extension, in all blocks that the resolver may look at.                 *)
Linked(real, extension_of, blocks) ==
    \A b \in blocks :
        /\ chain[b][real].exists /\ chain[b][real].code = "wallet"
        /\ IsSignatureAllowed(chain[b][real])
        /\ \A i \in DOMAIN extension_of :
               LET a == chain[b][extension_of[i]]
               IN  /\ a.exists /\ a.code = "wallet"
                   /\ (IF i = 1 THEN real ELSE extension_of[i - 1]) \in a.extensions

(* What the SDK signs for a wallet, through any extensions, is accepted    *)
(* unless an RPC call fails, if the limits allow for as many extensions    *)
(* (sign_offchain_msg, wrap_offchain_msg, w_resolve_auth).                 *)
SdkIsUnderstood ==
    answer # NoAnswer /\ ~ answer.ok /\ ~ faulty =>
        LET msg == LeafOf(query.authorization).msg
        IN  ~ \E real \in Accounts, extension_of \in SeqOf(Accounts, max_depth) :
               /\ query.authorization.t # "list"
               /\ query.account_id = IF extension_of = <<>> THEN real ELSE Last(extension_of)
               /\ query.authorization =
                      SignOffchainMsg(real, extension_of, <<>>, msg.timestamp, msg.payload)
               /\ msg.timestamp = 1
               /\ Linked(real, extension_of, 1 .. head)
=============================================================================
