---------------------------- MODULE ClusterRepl ----------------------------
(***************************************************************************)
(* Replication of checks and filtersets between noitds                     *)
(* (noit_clustering.c).  Every noitd numbers its changes, queues each one  *)
(* for every peer, and announces the last number in its heartbeat.  A peer *)
(* that sees a new number starts a job that fetches the changes from where *)
(* it stands, applies what is newer than its own and remembers how far it  *)
(* got; its next request tells the sender which queued changes to drop.  A *)
(* peer that restarted is sent everything again.  A deleted check stays as *)
(* a tombstone until no peer has it queued any more.                       *)
(***************************************************************************)
EXTENDS Integers, FiniteSets

CONSTANTS
    Node,          \* the noitds of the cluster
    Check,         \* checks, by uuid
    Filter,        \* filtersets, by name
    MaxSeq,        \* bound: versions of a check or filterset
    MaxFaults,     \* bound: restarts and failed fetches, all together
    MaxProduced,   \* bound: no tombstone is purged after so many changes of checks
    BatchSize,     \* batch_size
    StaleJobs,     \* whether a job may outlive the incarnation of the peer that
                   \* its numbers are from
    NoValue

Item == Check \cup Filter
Kind == {"filters", "checks"}
KindOf(x) == IF x \in Check THEN "checks" ELSE "filters"
Pairs == {q \in Node \X Node : q[1] # q[2]}

ASSUME ClusterAssumption ==
    /\ IsFiniteSet(Check) /\ IsFiniteSet(Filter) /\ Check \cap Filter = {}
    /\ MaxSeq \in Nat /\ MaxProduced \in Nat
    /\ MaxFaults \in Nat /\ BatchSize \in Nat \ {0}
    /\ StaleJobs \in BOOLEAN
    /\ NoValue \notin Node

VARIABLES
    seq,           \* seq[n][x]: the version of x that n holds, 0 for none
    gone,          \* gone[n]: the checks that n holds as deleted
    boot,          \* boot[n]: the incarnation of n, its boot time
    produced,      \* produced[n][k]: checks_produced, filters_produced
    peer,          \* peer[n][p]: the noit_peer_t of p on n
    seen,          \* seen[n][p]: the last heartbeat of p that n's cluster library took
    upd,           \* upd[n]: the update_peer in progress on n
    job,           \* job[n][p]: n's replication job for p
    faults,        \* restarts and failed fetches so far
    latest,        \* history: the newest version of an item anyone was given
    knew           \* history: knew[n][x] is the newest version n ever held

store == <<seq, gone, latest, knew>>
clusterVars == <<store, boot, produced, peer, seen, upd, job, faults>>

NoPeer == [known |-> FALSE, boot |-> 0, inflight |-> FALSE,
           prev_fetched |-> [k \in Kind |-> 0], fetched |-> [k \in Kind |-> 0],
           available |-> [k \in Kind |-> 0], last_batch |-> [k \in Kind |-> 0],
           log |-> {}]
NoUpdate == [p |-> NoValue, todo |-> {}]
Unseen == [boot |-> 0, produced |-> [k \in Kind |-> 0]]

ClusterInit ==
    /\ seq = [n \in Node |-> [x \in Item |-> 0]]
    /\ gone = [n \in Node |-> {}]
    /\ boot = [n \in Node |-> 1]
    /\ produced = [n \in Node |-> [k \in Kind |-> 0]]
    /\ peer = [n \in Node |-> [p \in Node |-> NoPeer]]
    /\ seen = [n \in Node |-> [p \in Node |-> Unseen]]
    /\ upd = [n \in Node |-> NoUpdate]
    /\ job = [n \in Node |-> [p \in Node |-> NoValue]]
    /\ faults = 0
    /\ latest = [x \in Item |-> 0]
    /\ knew = [n \in Node |-> [x \in Item |-> 0]]

----------------------------------------------------------------------------
(* The queues of changes.  They are kept per peer; the queue of checks and *)
(* the queue of filtersets are one set here, told apart by KindOf.  The    *)
(* numbers of the changes are their order.                                 *)

\* The next numbers of n for items X of kind k, in the order they are taken.
Numberings(n, k, X) ==
    {num \in [X -> produced[n][k] + 1 .. produced[n][k] + Cardinality(X)] :
        \A x, y \in X : num[x] = num[y] => x = y}

\* noit_cluster_mark_check_changed, noit_cluster_mark_filter_changed: items X of
\* n, of kind k, get the next numbers and are queued for the peers in P.
MarkAll(n, k, X, P) ==
    \E num \in Numberings(n, k, X) :
        LET changes == {[x |-> x, q |-> num[x]] : x \in X}
        IN /\ produced' = [produced EXCEPT ![n][k] = @ + Cardinality(X)]
           /\ peer' = [peer EXCEPT ![n] = [p \in Node |->
                         IF p \in P /\ peer[n][p].known
                         THEN [peer[n][p] EXCEPT !.log = peer[n][p].log \cup changes]
                         ELSE peer[n][p]]]

Queue(p, n) == {e.x : e \in peer[p][n].log}

\* noit_cluster_checkid_replication_pending
Pending(n, x) == \E p \in Node : peer[n][p].known /\ x \in Queue(n, p)

----------------------------------------------------------------------------
(* The operator and the recycler.                                          *)

\* An item is set on n with a number the operator has not used before.
SetItem(n, x) ==
    /\ latest[x] < MaxSeq
    /\ latest' = [latest EXCEPT ![x] = @ + 1]
    /\ seq' = [seq EXCEPT ![n][x] = latest[x] + 1]
    /\ knew' = [knew EXCEPT ![n][x] = latest[x] + 1]
    /\ gone' = [gone EXCEPT ![n] = @ \ {x}]
    /\ MarkAll(n, KindOf(x), {x}, Node)
    /\ UNCHANGED <<boot, seen, upd, job, faults>>

\* A check is deleted on a noitd that holds its newest version: the number is
\* raised and the check stays as a tombstone.
DeleteItem(n, x) ==
    /\ seq[n][x] = latest[x] /\ latest[x] \in 1 .. MaxSeq - 1
    /\ x \notin gone[n]
    /\ latest' = [latest EXCEPT ![x] = @ + 1]
    /\ seq' = [seq EXCEPT ![n][x] = @ + 1]
    /\ knew' = [knew EXCEPT ![n][x] = latest[x] + 1]
    /\ gone' = [gone EXCEPT ![n] = @ \cup {x}]
    /\ MarkAll(n, KindOf(x), {x}, Node)
    /\ UNCHANGED <<boot, seen, upd, job, faults>>

\* check_recycle_bin_processor_internal: a tombstone that no peer has queued is
\* dropped.
PurgeItem(n, x) ==
    /\ x \in gone[n]
    /\ ~Pending(n, x)
    /\ produced[n]["checks"] < MaxProduced
    /\ seq' = [seq EXCEPT ![n][x] = 0]
    /\ gone' = [gone EXCEPT ![n] = @ \ {x}]
    /\ UNCHANGED <<boot, produced, peer, seen, upd, job, latest, knew, faults>>

\* n stops and starts again: it loads, and numbers, what it holds.
Restart(n) ==
    /\ faults < MaxFaults
    /\ faults' = faults + 1
    /\ boot' = [boot EXCEPT ![n] = @ + 1]
    /\ produced' = [produced EXCEPT ![n] =
          [k \in Kind |-> Cardinality({x \in Item : KindOf(x) = k /\ seq[n][x] # 0})]]
    /\ peer' = [peer EXCEPT ![n] = [p \in Node |-> NoPeer]]
    /\ seen' = [seen EXCEPT ![n] = [p \in Node |-> Unseen]]
    /\ upd' = [upd EXCEPT ![n] = NoUpdate]
    /\ job' = [job EXCEPT ![n] = [p \in Node |-> NoValue]]
    /\ UNCHANGED store

----------------------------------------------------------------------------
(* Jobs.  The field "of", which the code does not have, says from which     *)
(* incarnation of the peer the numbers of a job are.                       *)

\* The part of a job for one kind: possibly_start_job's prev and end.
Interval(R, k) ==
    LET far == R.available[k] - R.fetched[k] > BatchSize
        end == IF far THEN R.fetched[k] + BatchSize ELSE R.available[k]
        done == R.prev_fetched[k] = end /\ R.last_batch[k] = 0
    IN [prev |-> IF done THEN 0 ELSE R.fetched[k], end |-> IF done THEN 0 ELSE end,
        batch |-> 0, success |-> FALSE]

\* What repl_work pulls next: filtersets first, then checks.
Stage(J) == CASE J.todo = {} -> "done"
              [] "filters" \in J.todo -> "filters"
              [] OTHER -> "checks"

NewJob(R) ==
    LET part == [k \in Kind |-> Interval(R, k)]
    IN [part |-> part, todo |-> {k \in Kind : part[k].end # 0}, resp |-> NoValue, of |-> R.boot]

\* possibly_start_job, on the record R of a peer.
MustFetch(R) ==
    /\ ~R.inflight
    /\ \E k \in Kind : R.last_batch[k] # 0 \/ R.available[k] # R.prev_fetched[k]

\* The job has an answer that is not accounted for in the peer's record yet.
GotSome(J) == J # NoValue /\ (J.resp # NoValue \/ \E k \in Kind : J.part[k].success)

\* p's record on n becomes R, then a job is started if there is work.
PossiblyStart(n, p, R, J) ==
    /\ peer' = [peer EXCEPT ![n][p] = [R EXCEPT !.inflight = R.inflight \/ MustFetch(R)]]
    /\ job' = [job EXCEPT ![n][p] = IF MustFetch(R) THEN NewJob(R) ELSE J]

\* Mutant of Kept: eats one change more than the peer has confirmed.
KeptLess(L, k, prev) == {e \in L : KindOf(e.x) # k \/ e.q > prev + 1}

\* noit_cluster_xml_check_changes, noit_cluster_xml_filter_changes on p for n:
\* what n has seen is dropped, the rest up to the end n asked for is sent.
Kept(L, k, prev) == {e \in L : KindOf(e.x) # k \/ e.q > prev}
Answer(p, L, k, end) ==
    {[x |-> x, seq |-> seq[p][x], gone |-> x \in gone[p]] :
        x \in {y \in Item : /\ KindOf(y) = k /\ seq[p][y] # 0
                            /\ \E e \in L : e.x = y /\ e.q <= end}}

Serve(n, p) ==
    LET J == job[n][p]
        k == Stage(J)
        L == Kept(peer[p][n].log, k, J.part[k].prev)
    IN /\ J # NoValue /\ J.todo # {} /\ J.resp = NoValue
       /\ StaleJobs \/ J.of = boot[p]
       /\ IF peer[p][n].known
          THEN /\ peer' = [peer EXCEPT ![p][n].log = L]
               /\ job' = [job EXCEPT ![n][p].resp = Answer(p, L, k, J.part[k].end)]
          ELSE /\ job' = [job EXCEPT ![n][p].resp = {}]
               /\ UNCHANGED peer
       /\ UNCHANGED <<store, boot, produced, seen, upd, faults>>

\* repl_work has pulled the items of kind k, or failed to.
Pulled(J, k, batch, success) ==
    [J EXCEPT !.todo = J.todo \ {k}, !.resp = NoValue,
              !.part[k] = [J.part[k] EXCEPT !.batch = batch, !.success = success]]

\* The request or its answer is lost (the batch is left at 0), or the daemon is
\* not ready to apply it (-1).
Failed(n, p) ==
    LET J == job[n][p]
        k == Stage(J)
    IN /\ J # NoValue /\ J.todo # {}
       /\ \E r \in IF J.resp = NoValue THEN {0} ELSE {0, -1} :
            job' = [job EXCEPT ![n][p] = Pulled(J, k, r, FALSE)]
       /\ UNCHANGED <<store, boot, produced, peer, seen, upd>>

FetchFails(n, p) ==
    /\ faults < MaxFaults
    /\ faults' = faults + 1
    /\ Failed(n, p)

\* Unless StaleJobs, a request with the numbers of an earlier incarnation of the
\* peer is one that its restart made fail.
StaleFails(n, p) ==
    /\ ~StaleJobs
    /\ job[n][p] # NoValue /\ job[n][p].of # boot[p]
    /\ Failed(n, p)
    /\ UNCHANGED faults

\* noit_check_process_repl, noit_filters_process_repl: what is newer than one's
\* own is taken over, and queued for one's own peers.
Apply(n, p) ==
    LET J == job[n][p]
        k == Stage(J)
        Newer == {r \in J.resp : r.seq > seq[n][r.x]}
        X == {r.x : r \in Newer}
        Got(x) == CHOOSE r \in Newer : r.x = x
    IN /\ J # NoValue /\ J.todo # {} /\ J.resp # NoValue
       /\ seq' = [seq EXCEPT ![n] = [x \in Item |-> IF x \in X THEN Got(x).seq ELSE seq[n][x]]]
       /\ knew' = [knew EXCEPT ![n] = [x \in Item |-> IF x \in X /\ Got(x).seq > knew[n][x]
                                                      THEN Got(x).seq ELSE knew[n][x]]]
       /\ gone' = [gone EXCEPT ![n] = (@ \ X) \cup {x \in X : Got(x).gone}]
       /\ MarkAll(n, k, X, Node)
       /\ job' = [job EXCEPT ![n][p] = Pulled(J, k, Cardinality(J.resp), TRUE)]
       /\ UNCHANGED <<boot, seen, upd, latest, faults>>

\* Mutant of JobDone: moves on whether the job succeeded or not.
JobDoneBlind(n, p) ==
    LET J == job[n][p]
        R == peer[n][p]
    IN /\ J # NoValue /\ J.todo = {}
       /\ StaleJobs \/ upd[n].p # p
       /\ PossiblyStart(n, p,
            [R EXCEPT !.inflight = FALSE,
                      !.last_batch = [k \in Kind |-> J.part[k].batch],
                      !.prev_fetched = [k \in Kind |-> J.part[k].prev],
                      !.fetched = [k \in Kind |-> IF J.part[k].end # 0 THEN J.part[k].end ELSE R.fetched[k]]], NoValue)
       /\ UNCHANGED <<store, boot, produced, seen, upd, faults>>

\* repl_work, completion: the peer's record moves to where the job got.
JobDone(n, p) ==
    LET J == job[n][p]
        R == peer[n][p]
    IN /\ J # NoValue /\ J.todo = {}
       /\ StaleJobs \/ upd[n].p # p
       /\ PossiblyStart(n, p,
            [R EXCEPT !.inflight = FALSE,
                      !.last_batch = [k \in Kind |-> J.part[k].batch],
                      !.prev_fetched = [k \in Kind |-> IF J.part[k].success /\ J.part[k].prev # 0
                                                       THEN J.part[k].prev ELSE R.prev_fetched[k]],
                      !.fetched = [k \in Kind |-> IF J.part[k].success /\ J.part[k].end # 0
                                                  THEN J.part[k].end ELSE R.fetched[k]]], NoValue)
       /\ UNCHANGED <<store, boot, produced, seen, upd, faults>>

----------------------------------------------------------------------------
(* The callback of the cluster library.                                    *)

\* attach_to_cluster makes all nodes of the cluster known.
Attached(n) == [p \in Node |-> IF p = n THEN NoPeer ELSE [peer[n][p] EXCEPT !.known = TRUE]]

\* A callback about n itself.
Attach(n) ==
    /\ upd[n] = NoUpdate
    /\ \E p \in Node \ {n} : ~peer[n][p].known
    /\ peer' = [peer EXCEPT ![n] = Attached(n)]
    /\ UNCHANGED <<store, boot, produced, seen, upd, job, faults>>

\* What a new boot time b does to a peer's record: what was fetched is forgotten
\* and the queue is emptied, to be built again.
Reborn(R, b) ==
    [R EXCEPT !.boot = b, !.fetched = [k \in Kind |-> 0],
              !.prev_fetched = [k \in Kind |-> 0], !.log = {}]

\* n's cluster library takes a heartbeat of p that says something new and calls
\* update_peer.
UpdateBegin(n, p) ==
    LET beat == [boot |-> boot[p], produced |-> produced[p]]
        A == Attached(n)
        reborn == A[p].boot # beat.boot
    IN /\ upd[n] = NoUpdate
       /\ seen[n][p] # beat
       /\ (reborn /\ ~StaleJobs) => ~GotSome(job[n][p])
       /\ seen' = [seen EXCEPT ![n][p] = beat]
       /\ peer' = [peer EXCEPT ![n] =
            IF reborn THEN [A EXCEPT ![p] = Reborn(A[p], boot[p])] ELSE A]
       /\ upd' = [upd EXCEPT ![n] =
            [p |-> p, todo |-> IF reborn THEN {x \in Item : seq[n][x] # 0} ELSE {}]]
       /\ UNCHANGED <<store, boot, produced, job, faults>>

\* noit_filtersets_build_cluster_changelog, then noit_check_build_cluster_
\* changelog: what n holds is queued for the peer, one item at a time.
UpdateMark(n) ==
    /\ upd[n].todo # {}
    /\ \E x \in upd[n].todo :
         /\ x \in Check => upd[n].todo \subseteq Check
         /\ upd' = [upd EXCEPT ![n].todo = @ \ {x}]
         /\ IF seq[n][x] = 0 THEN UNCHANGED <<produced, peer>>
            ELSE MarkAll(n, KindOf(x), {x}, {upd[n].p})
    /\ UNCHANGED <<store, boot, seen, job, faults>>

\* The end of update_peer: what the heartbeat announced is available.
UpdateEnd(n) ==
    /\ upd[n] # NoUpdate /\ upd[n].todo = {}
    /\ LET p == upd[n].p
       IN PossiblyStart(n, p, [peer[n][p] EXCEPT !.available = seen[n][p].produced], job[n][p])
    /\ upd' = [upd EXCEPT ![n] = NoUpdate]
    /\ UNCHANGED <<store, boot, produced, seen, faults>>

----------------------------------------------------------------------------
JobStep(n, p) == Serve(n, p) \/ Apply(n, p) \/ JobDone(n, p) \/ StaleFails(n, p)
UpdateStep(n) == UpdateMark(n) \/ UpdateEnd(n) \/ \E p \in Node \ {n} : UpdateBegin(n, p)

ClusterNext ==
    \/ \E n \in Node, x \in Item : SetItem(n, x)
    \/ \E n \in Node, x \in Check : DeleteItem(n, x) \/ PurgeItem(n, x)
    \/ \E n \in Node : Restart(n) \/ Attach(n) \/ UpdateStep(n)
    \/ \E q \in Pairs : JobStep(q[1], q[2]) \/ FetchFails(q[1], q[2])

ClusterSpec == ClusterInit /\ [][ClusterNext]_clusterVars

\* Heartbeats keep coming, callbacks and jobs run to their end, and the recycler
\* comes around.  Nobody has to set, delete, restart or lose anything.
ClusterFairSpec ==
    /\ ClusterSpec
    /\ \A n \in Node : WF_clusterVars(UpdateMark(n) \/ UpdateEnd(n))
    /\ \A q \in Pairs : /\ WF_clusterVars(UpdateBegin(q[1], q[2]))
                        /\ WF_clusterVars(JobStep(q[1], q[2]))

----------------------------------------------------------------------------
(* Properties.                                                             *)

\* Nothing a peer still needs is dropped from its queue: once p has taken notice
\* of n, every item of which p holds a version that n never had is queued for n,
\* or about to be by the rebuild in progress.  This is what the sender's "First
\* eat anything we know they've seen" rests on.
Queued ==
    \A q \in Pairs : LET n == q[1]
                        p == q[2]
                    IN peer[p][n].boot # 0 =>
        \A x \in Item : seq[p][x] > knew[n][x] =>
            x \in Queue(p, n) \/ (upd[p].p = n /\ x \in upd[p].todo)

\* The newest version has won: every noitd holds it or, if it was a deletion, has
\* purged its tombstone.
Settled ==
    \A n \in Node, x \in Item :
        /\ knew[n][x] = latest[x]
        /\ \/ seq[n][x] = latest[x]
           \/ seq[n][x] = 0 /\ \A m \in Node : seq[m][x] = 0 \/ x \in gone[m]

\* However the changes, restarts and failed fetches fall, the newest version of
\* every check and filterset gets to every noitd and stays there.
Converges == <>[]Settled
=============================================================================
