-------------------------- MODULE MCCheckRegistry --------------------------
(* Small instances of CheckRegistry for TLC. *)
EXTENDS CheckRegistry

CONSTANTS u1, u2, n1, n2, n3

\* Each check has names of its own: n1 and n2 belong to u1, n3 to u2.
OwnNames == [u : {u1}, name : {n1, n2}, seq : {1, 2}]
              \cup [u : {u2}, name : {n3}, seq : {0, 2}]
OwnPeer == {[u |-> u1, name |-> n1, seq |-> 2, deleted |-> d] : d \in BOOLEAN}

\* One check, two names, three sequence numbers.
OneCheck == [u : {u1}, name : {n1, n2}, seq : 1 .. 3]
\* One check, renamed by its second version.
Rename == {[u |-> u1, name |-> n1, seq |-> 1], [u |-> u1, name |-> n2, seq |-> 2]}
OnePeer == {[u |-> u1, name |-> n1, seq |-> 2, deleted |-> FALSE]}
=============================================================================
