------------------------------ MODULE CallTable ------------------------------
(***************************************************************************)
(* What a caller of the remote side relies on: every call is under a name  *)
(* of its own, is answered at most once, and only while it is open.        *)
(***************************************************************************)
VARIABLES open,         \* the calls that wait for an answer
          answered      \* the calls whose callback has run

vars == << open, answered >>

Init == open = {} /\ answered = {}

Issue(id) == /\ id \notin open \cup answered
             /\ open' = open \cup {id}
             /\ UNCHANGED answered

Answer(id) == /\ id \in open
              /\ open' = open \ {id}
              /\ answered' = answered \cup {id}

Next == \/ \E id \in open' : Issue(id)
        \/ \E id \in open : Answer(id)

Spec == Init /\ [][Next]_vars

=============================================================================
