------------------------------ MODULE ByteLogs ------------------------------
(***************************************************************************)
(* What the users of write buffers rely on: a buffer holds the bytes that  *)
(* were written to it, in order, until all buffers of its pool end.        *)
(***************************************************************************)
EXTENDS Sequences

CONSTANT Data           \* what may be written at a time

VARIABLE value          \* what each open buffer holds

Init == value = << >>

Open(w) == /\ w \notin DOMAIN value
           /\ value' = [v \in DOMAIN value \cup {w} |->
                          IF v = w THEN << >> ELSE value[v]]

Write(w, data) == /\ w \in DOMAIN value
                  /\ value' = [value EXCEPT ![w] = @ \o data]

End == value' = << >>

Next == \/ \E w \in DOMAIN value' : Open(w)
        \/ \E w \in DOMAIN value, data \in Data : Write(w, data)
        \/ End

Spec == Init /\ [][Next]_value

=============================================================================
