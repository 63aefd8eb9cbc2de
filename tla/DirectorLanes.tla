--------------------------- MODULE DirectorLanes ---------------------------
(***************************************************************************)
(* The lanes of the metric director (noit_metric_director.c): one FIFO and *)
(* one backlog counter per event loop thread.  Distributor threads push a  *)
(* reference-counted message down every interested lane, each lane's own   *)
(* thread takes messages out with lane_next, and a flush puts a marker     *)
(* into every lane and fires an event when the last lane has reached it.   *)
(*                                                                         *)
(* Which lanes are interested is decided by DirectorSelect; here it is any *)
(* set of lanes that have a FIFO.                                          *)
(***************************************************************************)
EXTENDS Integers, FiniteSets, Sequences

CONSTANTS
    LaneCount,        \* nthreads
    Msg,           \* messages, each allocated at most once
    DistThread,          \* threads that receive messages and distribute them
    Flush,         \* calls of noit_metric_director_flush
    DropOver,      \* drop_backlog_over; 0 means never drop
    NoItem

LaneId == 1 .. LaneCount

ASSUME LanesAssumption ==
    /\ LaneCount \in Nat \ {0} /\ DropOver \in Nat
    /\ IsFiniteSet(Msg) /\ IsFiniteSet(DistThread) /\ IsFiniteSet(Flush)
    /\ Msg \cap Flush = {}
    /\ NoItem \notin Msg \cup Flush

VARIABLES
    nlanes,        \* lanes 1..nlanes have a FIFO
    fifo,          \* lane -> queued messages and flush markers
    backlog,       \* lane -> queues[i].thread.backlog
    refcnt,        \* message -> message->refcnt
    fresh,         \* messages not allocated yet
    dthread,          \* the distributor threads
    lane,          \* lane -> what its thread is doing with a dequeued message
    flush,         \* the flushes: dmflush_t and the loop of the caller
    markersLeaked         \* history: markers the thread of a lane has dequeued

lanesVars == <<nlanes, fifo, backlog, refcnt, fresh, dthread, lane, flush, markersLeaked>>

IdleDistributor == [pc |-> "idle", msg |-> NoItem, to |-> {}, i |-> 1]

LanesInit ==
    /\ nlanes = 0
    /\ fifo = [l \in LaneId |-> <<>>]
    /\ backlog = [l \in LaneId |-> 0]
    /\ refcnt = [m \in Msg |-> 0]
    /\ fresh = Msg
    /\ dthread = [d \in DistThread |-> IdleDistributor]
    /\ lane = [l \in LaneId |-> [pc |-> "idle", msg |-> NoItem]]
    /\ flush = [f \in Flush |-> [pc |-> "new", i |-> 1, refcnt |-> 0, fired |-> 0,
                                 before |-> {}]]
    /\ markersLeaked = [l \in LaneId |-> 0]

\* get_my_lane: the thread claims the first free slot of queues.
GetMyLane ==
    /\ nlanes < LaneCount
    /\ nlanes' = nlanes + 1
    /\ UNCHANGED <<fifo, backlog, refcnt, fresh, dthread, lane, flush, markersLeaked>>

----------------------------------------------------------------------------
(* Distribution.                                                           *)

\* handle_metric_buffer: allocate a message with one reference and enter the
\* loop of distribute_message_with_interests.
Receive(d) ==
    /\ dthread[d].pc = "idle"
    /\ \E m \in fresh, to \in SUBSET (1 .. nlanes) :
          /\ fresh' = fresh \ {m}
          /\ refcnt' = [refcnt EXCEPT ![m] = 1]
          /\ dthread' = [dthread EXCEPT ![d] = [pc |-> "loop", msg |-> m, to |-> to, i |-> 1]]
    /\ UNCHANGED <<nlanes, fifo, backlog, lane, flush, markersLeaked>>

\* One lane of the loop: not interested, too far behind, or to be queued to.
\* The backlog is loaded here and incremented in a later step.
Consider(d) ==
    /\ dthread[d].pc = "loop" /\ dthread[d].i <= LaneCount
    /\ \/ /\ \/ dthread[d].i \notin dthread[d].to
             \/ DropOver # 0 /\ backlog[dthread[d].i] > DropOver
          /\ dthread' = [dthread EXCEPT ![d].i = @ + 1]
       \/ /\ dthread[d].i \in dthread[d].to
          /\ DropOver = 0 \/ backlog[dthread[d].i] <= DropOver
          /\ dthread' = [dthread EXCEPT ![d].pc = "inc"]
    /\ UNCHANGED <<nlanes, fifo, backlog, refcnt, fresh, lane, flush, markersLeaked>>

IncBacklog(d) ==
    /\ dthread[d].pc = "inc"
    /\ backlog' = [backlog EXCEPT ![dthread[d].i] = @ + 1]
    /\ dthread' = [dthread EXCEPT ![d].pc = "enqueue"]
    /\ UNCHANGED <<nlanes, fifo, refcnt, fresh, lane, flush, markersLeaked>>

\* Mutant of Enqueue: the lane's reference is not taken.
EnqueueUnreferenced(d) ==
    /\ dthread[d].pc = "enqueue"
    /\ fifo' = [fifo EXCEPT ![dthread[d].i] = Append(@, dthread[d].msg)]
    /\ dthread' = [dthread EXCEPT ![d].pc = "loop", ![d].i = @ + 1]
    /\ UNCHANGED <<nlanes, backlog, refcnt, fresh, lane, flush, markersLeaked>>

\* Under the enqueue lock: reference the message and append it.
Enqueue(d) ==
    /\ dthread[d].pc = "enqueue"
    /\ refcnt' = [refcnt EXCEPT ![dthread[d].msg] = @ + 1]
    /\ fifo' = [fifo EXCEPT ![dthread[d].i] = Append(@, dthread[d].msg)]
    /\ dthread' = [dthread EXCEPT ![d].pc = "loop", ![d].i = @ + 1]
    /\ UNCHANGED <<nlanes, backlog, fresh, lane, flush, markersLeaked>>

\* The end of handle_metric_buffer: drop the reference it started with.
MessageDone(d) ==
    /\ dthread[d].pc = "loop" /\ dthread[d].i > LaneCount
    /\ refcnt' = [refcnt EXCEPT ![dthread[d].msg] = @ - 1]
    /\ dthread' = [dthread EXCEPT ![d] = IdleDistributor]
    /\ UNCHANGED <<nlanes, fifo, backlog, fresh, lane, flush, markersLeaked>>

----------------------------------------------------------------------------
(* Flush.                                                                  *)

\* The messages whose distribution is over.
Distributed == {m \in Msg \ fresh : \A d \in DistThread : dthread[d].msg # m}

\* Mutant of FlushBegin: the caller holds no reference of its own.
FlushBeginUnreferenced(f) ==
    /\ flush[f].pc = "new"
    /\ flush' = [flush EXCEPT ![f].pc = "loop", ![f].before = Distributed]
    /\ UNCHANGED <<nlanes, fifo, backlog, refcnt, fresh, dthread, lane, markersLeaked>>

\* noit_metric_director_flush: allocate the dmflush_t with the caller's
\* reference.
FlushBegin(f) ==
    /\ flush[f].pc = "new"
    /\ flush' = [flush EXCEPT ![f].pc = "loop", ![f].refcnt = 1, ![f].before = Distributed]
    /\ UNCHANGED <<nlanes, fifo, backlog, refcnt, fresh, dthread, lane, markersLeaked>>

\* One lane: without a FIFO it is passed over, otherwise the reference and the
\* backlog are counted first.
FlushLane(f) ==
    LET l == flush[f].i IN
    /\ flush[f].pc = "loop" /\ l <= LaneCount
    /\ IF l > nlanes
       THEN /\ flush' = [flush EXCEPT ![f].i = @ + 1]
            /\ UNCHANGED backlog
       ELSE /\ flush' = [flush EXCEPT ![f].pc = "enqueue", ![f].refcnt = @ + 1]
            /\ backlog' = [backlog EXCEPT ![l] = @ + 1]
    /\ UNCHANGED <<nlanes, fifo, refcnt, fresh, dthread, lane, markersLeaked>>

FlushEnqueue(f) ==
    /\ flush[f].pc = "enqueue"
    /\ fifo' = [fifo EXCEPT ![flush[f].i] = Append(@, f)]
    /\ flush' = [flush EXCEPT ![f].pc = "loop", ![f].i = @ + 1]
    /\ UNCHANGED <<nlanes, backlog, refcnt, fresh, dthread, lane, markersLeaked>>

\* dmflush_observe: drop a reference; the last one triggers the event and frees
\* the dmflush_t.
Observe(fl) == [fl EXCEPT !.refcnt = @ - 1,
                          !.fired = IF fl.refcnt = 1 THEN @ + 1 ELSE @]

\* Mutant of FlushEnd: the caller's reference is never dropped.
FlushEndForgotten(f) ==
    /\ flush[f].pc = "loop" /\ flush[f].i > LaneCount
    /\ flush' = [flush EXCEPT ![f].pc = "end"]
    /\ UNCHANGED <<nlanes, fifo, backlog, refcnt, fresh, dthread, lane, markersLeaked>>

\* All lanes have been told: drop the caller's own reference.
FlushEnd(f) ==
    /\ flush[f].pc = "loop" /\ flush[f].i > LaneCount
    /\ flush' = [flush EXCEPT ![f] = [Observe(flush[f]) EXCEPT !.pc = "end"]]
    /\ UNCHANGED <<nlanes, fifo, backlog, refcnt, fresh, dthread, lane, markersLeaked>>

----------------------------------------------------------------------------
(* The lane's thread.                                                      *)

\* noit_metric_director_lane_next_backlog dequeues.  A marker is observed and
\* the next entry is taken; its share of the backlog is not given back.
Dequeue(l) ==
    /\ lane[l].pc = "idle"
    /\ fifo[l] # <<>>
    /\ fifo' = [fifo EXCEPT ![l] = Tail(@)]
    /\ IF Head(fifo[l]) \in Flush
       THEN /\ flush' = [flush EXCEPT ![Head(fifo[l])] = Observe(@)]
            /\ markersLeaked' = [markersLeaked EXCEPT ![l] = @ + 1]
            /\ UNCHANGED lane
       ELSE /\ lane' = [lane EXCEPT ![l] = [pc |-> "dec", msg |-> Head(fifo[l])]]
            /\ UNCHANGED <<flush, markersLeaked>>
    /\ UNCHANGED <<nlanes, backlog, refcnt, fresh, dthread>>

\* Mutant of DecBacklog: the dequeued message stays in the backlog.
DecBacklogForgotten(l) ==
    /\ lane[l].pc = "dec"
    /\ lane' = [lane EXCEPT ![l].pc = "use"]
    /\ UNCHANGED <<nlanes, fifo, backlog, refcnt, fresh, dthread, flush, markersLeaked>>

DecBacklog(l) ==
    /\ lane[l].pc = "dec"
    /\ backlog' = [backlog EXCEPT ![l] = @ - 1]
    /\ lane' = [lane EXCEPT ![l].pc = "use"]
    /\ UNCHANGED <<nlanes, fifo, refcnt, fresh, dthread, flush, markersLeaked>>

\* The caller of lane_next is done with the message.
Release(l) ==
    /\ lane[l].pc = "use"
    /\ refcnt' = [refcnt EXCEPT ![lane[l].msg] = @ - 1]
    /\ lane' = [lane EXCEPT ![l] = [pc |-> "idle", msg |-> NoItem]]
    /\ UNCHANGED <<nlanes, fifo, backlog, fresh, dthread, flush, markersLeaked>>

----------------------------------------------------------------------------
DistThreadStep(d) == Receive(d) \/ Consider(d) \/ IncBacklog(d) \/ Enqueue(d) \/ MessageDone(d)
FlushStep(f) == FlushBegin(f) \/ FlushLane(f) \/ FlushEnqueue(f) \/ FlushEnd(f)
LaneStep(l) == Dequeue(l) \/ DecBacklog(l) \/ Release(l)

LanesNext ==
    \/ GetMyLane
    \/ \E d \in DistThread : DistThreadStep(d)
    \/ \E f \in Flush : FlushStep(f)
    \/ \E l \in LaneId : LaneStep(l)

LanesSpec == LanesInit /\ [][LanesNext]_lanesVars

\* Threads run: a flush that has been called finishes its loop and a lane's
\* thread keeps calling lane_next.
LanesFairSpec ==
    /\ LanesSpec
    /\ \A f \in Flush : WF_lanesVars(FlushLane(f) \/ FlushEnqueue(f) \/ FlushEnd(f))
    /\ \A l \in LaneId : WF_lanesVars(LaneStep(l))

----------------------------------------------------------------------------
(* Properties.                                                             *)

OnQueues(l) == {fifo[l][n] : n \in 1 .. Len(fifo[l])}

\* No thread touches a freed message: whoever holds one, a distributor, a FIFO
\* or the thread of a lane, keeps its reference count above zero.
NoUseAfterFree ==
    \A m \in Msg :
        (\/ \E d \in DistThread : dthread[d].msg = m
         \/ \E l \in LaneId : m \in OnQueues(l) \/ lane[l].msg = m)
        => refcnt[m] > 0

\* No message leaks: once nobody holds it any more it has been freed.
NoMessageLeak ==
    \A m \in Msg \ fresh :
        (/\ \A d \in DistThread : dthread[d].msg # m
         /\ \A l \in LaneId : m \notin OnQueues(l) /\ lane[l].msg # m)
        => refcnt[m] = 0

\* A flush is a barrier: when its event fires, every message that had been
\* distributed before the flush was called has left every lane.
FlushIsBarrier ==
    \A f \in Flush :
        flush[f].fired > 0 => \A l \in LaneId : flush[f].before \cap OnQueues(l) = {}

\* The flush's event is triggered at most once, and never while a lane still
\* holds the marker (which points to the freed dmflush_t from then on).
FlushFiresOnce ==
    \A f \in Flush :
        /\ flush[f].fired <= 1
        /\ flush[f].fired = 1 => /\ flush[f].pc = "end"
                                 /\ \A l \in LaneId : f \notin OnQueues(l)

\* Increments of the backlog of lane l whose entry is not queued yet, or whose
\* message has been dequeued but not counted down yet.
InTransit(l) ==
    Cardinality({d \in DistThread : dthread[d].pc = "enqueue" /\ dthread[d].i = l})
    + Cardinality({f \in Flush : flush[f].pc = "enqueue" /\ flush[f].i = l})
    + (IF lane[l].pc = "dec" THEN 1 ELSE 0)

\* What the backlog counter of a lane really is: the entries in the FIFO, the
\* ones in transit and one for every flush marker the lane ever passed.
BacklogAccount ==
    \A l \in LaneId : backlog[l] = Len(fifo[l]) + InTransit(l) + markersLeaked[l]

\* The director's account of its messages: a message nobody holds any more has
\* been freed, and a lane's backlog counter is what waits in its queue, what is
\* on its way there, and the flush markers it never counts down for.
MessagesAccounted == NoMessageLeak /\ BacklogAccount

\* A flush is a barrier that fires once: when its event fires, everything that
\* was distributed before the call has left every lane, no lane holds the marker
\* any more, and it does not fire again.
FlushesExact == FlushIsBarrier /\ FlushFiresOnce

\* A flush that was called fires its event.
FlushCompletes == \A f \in Flush : (flush[f].pc # "new") ~> (flush[f].fired = 1)
============================================================================
