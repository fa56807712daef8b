------------------------------ MODULE MCWallet ------------------------------
(***************************************************************************)
(* Two possible extensions; requests of up to two operations, with no      *)
(* promise, a good one, a self-call or an unsupported action.              *)
(***************************************************************************)
EXTENDS Wallet

CONSTANTS e1, e2

MCAccounts == {e1, e2}

Set(b) == [op |-> "set_signature_mode", enable |-> b]
Add(e) == [op |-> "add_extension", account_id |-> e]
Remove(e) == [op |-> "remove_extension", account_id |-> e]
Call == [to_self |-> FALSE, supported |-> TRUE]
SelfCall == [to_self |-> TRUE, supported |-> TRUE]
AddKey == [to_self |-> FALSE, supported |-> FALSE]

MCOps ==
    {Set(b) : b \in BOOLEAN} \cup {Add(e) : e \in MCAccounts}
                             \cup {Remove(e) : e \in MCAccounts}

MCRequests ==
    [internal : {<<o>> : o \in MCOps} \cup {<<o, p>> : o, p \in MCOps},
     external : {{}}]
    \cup [internal : {<<>>}, external : {{Call}, {Call, SelfCall}, {AddKey}}]

(* The owner signs a handful of these.                                     *)
SignedRequests ==
    {[internal |-> ops, external |-> {}] :
        ops \in {<<Set(FALSE)>>, <<Set(TRUE)>>, <<Add(e1)>>, <<Remove(e1)>>,
                 <<Add(e1), Set(FALSE)>>, <<Set(FALSE), Add(e1)>>}}
    \cup {[internal |-> <<Add(e2)>>, external |-> {SelfCall}]}

\* They are signed with the wallet's timeout; messages that only make a call also
\* with a shorter and a longer one, and one message has a nonce of its own.
MCMessages ==
    [nonce : {1}, created_at : 0 .. MaxTime, timeout : {Timeout},
     request : SignedRequests]
    \cup [nonce : {1}, created_at : 0 .. MaxTime, timeout : {Timeout - 1, Timeout + 1},
          request : {[internal |-> <<>>, external |-> {Call}]}]
    \cup [nonce : {2}, created_at : {1}, timeout : {Timeout},
          request : {[internal |-> <<>>, external |-> {Call}]}]
=============================================================================
