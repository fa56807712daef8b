------------------------------- MODULE BitSet -------------------------------
(***************************************************************************)
(* What a bitmap promises: it is a set of numbers, and each operation      *)
(* tells whether the number was there.                                     *)
(***************************************************************************)
CONSTANTS
    Bits,                \* the numbers that are set and cleared
    Words                \* the sets of numbers that can be removed together

VARIABLES
    set,                 \* the numbers that are set
    last                 \* the last operation and what it returned

Did(op, was) == last' = [op |-> op, was |-> was]

Set(n) == Did("set", n \in set) /\ set' = set \cup {n}
Clear(n) == Did("clear", n \in set) /\ set' = set \ {n}
Toggle(n) ==
    /\ Did("toggle", n \in set)
    /\ set' = IF n \in set THEN set \ {n} ELSE set \cup {n}

(* The answer is that there was something to remove, which may have been   *)
(* an empty word.                                                          *)
Cleanup(word) ==
    /\ set' = set \ word
    /\ \E was \in BOOLEAN : Did("cleanup", was) /\ (set' # set => was)

Init == set = {} /\ last = [op |-> "new", was |-> FALSE]
Next ==
    \/ \E n \in Bits : Set(n) \/ Clear(n) \/ Toggle(n)
    \/ \E word \in Words : Cleanup(word)
Spec == Init /\ [][Next]_<<set, last>>
=============================================================================
