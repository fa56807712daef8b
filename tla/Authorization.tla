--------------------------- MODULE Authorization ----------------------------
(***************************************************************************)
(* What the resolution of an offchain authorization promises (NEP-641):    *)
(* the answer is what the authorization means in one single block of the   *)
(* chain, although the resolver gathers it with many calls.                *)
(***************************************************************************)
EXTENDS Naturals, Sequences, SequencesExt

CONSTANTS
    Resolution(_, _, _, _, _),  \* what an account makes of an authorization
    MaxSubs, MaxDepth,          \* the limits of the resolver
    NoAnswer

VARIABLES
    chain,    \* the states of the blocks
    head,     \* the last final block
    query,    \* the account, its authorization and the block to look at
    faulty,   \* some RPC call failed or answered for another block
    answer

avars == <<chain, head, query, faulty, answer>>
-----------------------------------------------------------------------------
Refused == [ok |-> FALSE, payload |-> NoAnswer, subs |-> 0]

(* An authorization means its payload if the account resolves it and all   *)
(* the authorizations it depends on mean what it expects of them, and they *)
(* are not too many nor too deep.                                          *)
RECURSIVE Meaning(_, _, _, _)
Meaning(b, account, path, auth) ==
    LET r == Resolution(chain[b], b, account, path, auth)
        subs == [i \in DOMAIN r.pending |->
                    Meaning(b, r.pending[i].account_id, <<account>> \o path,
                            r.pending[i].authorization)]
        total == FoldLeft(LAMBDA n, s : n + 1 + s.subs, 0, subs)
    IN  IF ~ r.ok \/ (r.pending # <<>> /\ Len(path) >= MaxDepth) THEN Refused
        ELSE IF \E i \in DOMAIN subs : \/ ~ subs[i].ok
                                       \/ subs[i].payload # r.pending[i].expect
             THEN Refused
        ELSE [ok |-> total <= MaxSubs, payload |-> r.payload, subs |-> total]

Verdict(b) == Meaning(b, query.account_id, <<>>, query.authorization)

(* The blocks that the question can be about; 0 stands for the final one,  *)
(* whichever the RPC node has.                                             *)
Candidates == IF query.at_block = 0 THEN 1 .. head ELSE {query.at_block}
-----------------------------------------------------------------------------
Init ==
    /\ head \in DOMAIN chain
    /\ faulty = FALSE
    /\ answer = NoAnswer

Grow ==
    /\ head < Len(chain)
    /\ head' = head + 1
    /\ UNCHANGED <<chain, query, faulty, answer>>

Fault ==
    /\ answer = NoAnswer
    /\ faulty' = TRUE
    /\ UNCHANGED <<chain, head, query, answer>>

Accept ==
    /\ answer = NoAnswer
    /\ \E b \in Candidates : /\ Verdict(b).ok
                             /\ answer' = [ok |-> TRUE, payload |-> Verdict(b).payload]
    /\ faulty' \in {faulty, TRUE}
    /\ UNCHANGED <<chain, head, query>>

Reject ==
    /\ answer = NoAnswer
    /\ faulty' \in {faulty, TRUE}
    /\ faulty' \/ \E b \in Candidates : ~ Verdict(b).ok
    /\ answer' = [ok |-> FALSE]
    /\ UNCHANGED <<chain, head, query>>

Spec == Init /\ [][Grow \/ Fault \/ Accept \/ Reject]_avars
=============================================================================
