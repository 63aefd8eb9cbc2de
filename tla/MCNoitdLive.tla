---------------------------- MODULE MCNoitdLive ----------------------------
(***************************************************************************)
(* The parts of noitd that must get somewhere, side by side: the director's *)
(* lanes, the table of filtersets, and watches.  A behaviour is a behaviour *)
(* of one of them.                                                         *)
(***************************************************************************)
EXTENDS TLC, DirectorLanes, FilterSets, Watches

CONSTANTS m1, m2, d1, d2, x1

VARIABLE part    \* the component that moves in this behaviour

TwoMsgs == {m1, m2}
TwoDists == {d1, d2}
OneFlush == {x1}

MCKind == [s \in Stream |-> IF s = "w" THEN "web" ELSE IF s = "c" THEN "console" ELSE "live"]

-----------------------------------------------------------------------------
Init ==
    /\ part \in {"lanes", "filters", "watches"}
    /\ \/ part = "filters"
       \/ filterRows = [n \in FilterName |-> [seq |-> 0, doc |-> 0]]
    /\ LanesInit /\ FilterSetsInit /\ WatchInit

Stays(name, state) == IF part = name THEN TRUE ELSE UNCHANGED state

Next ==
    /\ UNCHANGED part
    /\ \/ part = "lanes" /\ LanesNext
       \/ part = "filters" /\ FilterSetsNext
       \/ part = "watches" /\ WatchNext
    /\ Stays("lanes", lanesVars) /\ Stays("filters", filterSetsVars) /\ Stays("watches", watchVars)

\* The fairness of each component, in the behaviours in which it moves.

LanesFair ==
    /\ \A x \in Flush : WF_lanesVars(part = "lanes" /\ (FlushLane(x) \/ FlushEnqueue(x) \/ FlushEnd(x)))
    /\ \A l \in LaneId : WF_lanesVars(part = "lanes" /\ LaneStep(l))

FiltersFair ==
    /\ WF_filterSetsVars(part = "filters" /\ FilterSetStep)
    /\ WF_filterSetsVars(part = "filters" /\ FilterReplStep)
    /\ WF_filterSetsVars(part = "filters" /\ CullStep)
    /\ WF_filterSetsVars(part = "filters" /\ RefreshStep)
    /\ WF_filterSetsVars(part = "filters" /\ ShowRunningEnd)

WatchesFair ==
    \A i \in 1 .. MaxCopies :
        WF_watchVars(part = "watches" /\ i \in DOMAIN copies /\ CopyRuns(i))

allVars == <<part, lanesVars, filterSetsVars, watchVars>>
Spec == Init /\ [][Next]_allVars /\ LanesFair /\ FiltersFair /\ WatchesFair

-----------------------------------------------------------------------------
(* Properties *)

\* What was begun ends: every set, replication and cull job of filtersets comes to
\* its end, unless a show command left filterset_lock locked, and the watched
\* copies of checks stop firing once their clients have gone.
BegunEnds == JobsFinish /\ CopiesStop
=============================================================================
