--------------------------- MODULE MCOffchainAuth ---------------------------
(* An instance of OffchainAuth for TLC: a wallet w, its extension x and an *)
(* account k with keys or a wallet, in chains of two blocks that differ in    *)
(* one account.                                                            *)
EXTENDS OffchainAuth, TLC

CONSTANTS w, x, k, p, q, mainnet, testnet

Wallet(signature_enabled, extensions) ==
    [exists |-> TRUE, full_access |-> {}, code |-> "wallet",
     signature_enabled |-> signature_enabled, extensions |-> extensions]
Contract(code) == [Wallet(FALSE, {}) EXCEPT !.code = code]
Keys(full_access) == [Contract("none") EXCEPT !.full_access = full_access]
Missing == [Contract("none") EXCEPT !.exists = FALSE]

MCAccounts == {w, x, k}
BlockStates ==
    {(w :> aw) @@ (x :> ax) @@ (k :> ak) :
        aw \in {Wallet(TRUE, {}), Wallet(TRUE, {x}), Wallet(FALSE, {x, k}), Contract("list")},
        ax \in {Wallet(TRUE, {}), Wallet(FALSE, {k}), Contract("loop")},
        ak \in {Missing, Keys({k}), Wallet(TRUE, {})}}
MCChains ==
    {c \in BlockStates \X BlockStates :
        Cardinality({a \in MCAccounts : c[1][a] # c[2][a]}) <= 1}

Messages(signer) ==
    {Message(mainnet, signer, path, timestamp, p) :
        path \in {<<>>, <<w>>, <<x, w>>}, timestamp \in {1, 2}}
Leaves ==
    {SignatureAuthorization(msg, x) : msg \in Messages(x)}
    \cup {SignatureAuthorization(msg, w) : msg \in Messages(w)}
    \cup {AccessKeyAuthorization(msg, k, k) : msg \in Messages(k)}
    \cup {AccessKeyAuthorization(Message(testnet, k, <<>>, 1, p), k, k),
          AccessKeyAuthorization(Message(mainnet, k, <<>>, 1, p), k, w),
          SignatureAuthorization(Message(mainnet, w, <<>>, 1, p), x)}
Wrapped(through) == {FoldLeft(AsExtensionOf, leaf, through) : leaf \in Leaves}
Lists ==
    {ListAuthorization(p, <<Pending(x, SignatureAuthorization(mx, x), p),
                            Pending(k, AccessKeyAuthorization(mk, k, k), pk)>>) :
        mx \in {Message(mainnet, x, path, 1, px) : path \in {<<>>, <<w>>}, px \in {p, q}},
        mk \in {Message(mainnet, k, <<w>>, timestamp, p) : timestamp \in {1, 2}},
        pk \in {p, q}}
Sdk == {<<w, SignOffchainMsg(w, <<>>, <<>>, 1, p)>>,
        <<w, SignOffchainMsg(x, <<w>>, <<>>, 1, p)>>,
        <<w, SignOffchainMsg(k, <<x, w>>, <<>>, 1, p)>>,
        <<x, SignOffchainMsg(k, <<x>>, <<>>, 1, p)>>}

Asked(account, auths) == {<<account, auth>> : auth \in auths}
MCQueries ==
    {[account_id |-> a[1], authorization |-> a[2], at_block |-> b] : b \in {0, 1},
        a \in Sdk \cup Asked(w, Leaves \cup Wrapped(<<x>>) \cup Wrapped(<<k>>)
                                \cup Wrapped(<<k, x>>) \cup Lists)
              \cup Asked(x, Leaves \cup Wrapped(<<k>>)) \cup Asked(k, Leaves)}
=============================================================================
