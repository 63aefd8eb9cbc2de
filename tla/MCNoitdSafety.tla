--------------------------- MODULE MCNoitdSafety ---------------------------
(***************************************************************************)
(* The shared tables of noitd under concurrent use, side by side: the      *)
(* registry of checks, the replication between two noitds, and the         *)
(* director's interests.  A behaviour is a behaviour of one of them.       *)
(***************************************************************************)
EXTENDS TLC, CheckRegistry, ClusterRepl, DirectorSelect

CONSTANTS u1, n1, n2, node1, node2, check1, m1, k1, s1, s2, d1

VARIABLE part    \* the component that moves in this behaviour

\* CheckRegistry: one check, renamed by its second version.
Rename == {[u |-> u1, name |-> n1, seq |-> 1], [u |-> u1, name |-> n2, seq |-> 2]}
OnePeer == {[u |-> u1, name |-> n1, seq |-> 2, deleted |-> FALSE]}

\* ClusterRepl: two noitds.
TwoNodes == {node1, node2}
Symm == Permutations(TwoNodes)

\* DirectorSelect: a metric all of whose keys fall together, and a search for
\* each of two lanes.  The first search matches before and after the tags of the
\* check change, the second only afterwards.
OneMetric == {m1}
OneKey == {k1}
SameKey == [m \in OneMetric |-> <<k1, k1, k1, k1>>]
TwoSearches == {s1, s2}
OnTwoLanes == (s1 :> 1) @@ (s2 :> 2)
FirstAndLast == (s1 :> 1) @@ (s2 :> 4)
MatchSome == (s1 :> {<<m1, 0>>, <<m1, 1>>}) @@ (s2 :> {<<m1, 1>>})
NoLane == {}
OneDist == {d1}

-----------------------------------------------------------------------------
Init ==
    /\ part \in {"registry", "cluster", "select"}
    /\ RegistryInit /\ ClusterInit /\ SelectInit

Stays(name, state) == IF part = name THEN TRUE ELSE UNCHANGED state

Next ==
    /\ UNCHANGED part
    /\ \/ part = "registry" /\ RegistryNext
       \/ part = "cluster" /\ ClusterNext
       \/ part = "select" /\ SelectNext
    /\ Stays("registry", registryVars) /\ Stays("cluster", clusterVars)
    /\ Stays("select", selectVars)

allVars == <<part, registryVars, clusterVars, selectVars>>
Spec == Init /\ [][Next]_allVars
=============================================================================
