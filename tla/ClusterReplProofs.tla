------------------------- MODULE ClusterReplProofs -------------------------
(***************************************************************************)
(* Proof that no change a peer still needs is dropped from its queue       *)
(* (Queued), for any cluster.  The invariant is about every pair of a      *)
(* receiver n and a sender p: p's queue holds, for every item of which p   *)
(* has a version n never had, a change whose number n has not passed and   *)
(* will not pass by the job it is running.  It needs that numbers are      *)
(* compared only within one incarnation of the sender.                     *)
(***************************************************************************)
EXTENDS ClusterRepl, FiniteSetTheorems, TLAPS

\* The numbers of the two kinds.
Numbers == [Kind -> Nat]
\* What a queue holds: an item and the number of its change.
Change == [x : Item, q : Nat \ {0}]
\* An item of an answer, and how many a pull brought, -1 when it was not applied.
Reply == [x : Item, seq : Nat, gone : BOOLEAN]
Batch == {0, -1} \cup {Cardinality(S) : S \in SUBSET Reply}
\* The record of a peer, noit_peer_t.
PeerRecord == [known : BOOLEAN, boot : Nat, inflight : BOOLEAN,
               prev_fetched : Numbers, fetched : Numbers, available : Numbers,
               last_batch : [Kind -> Batch], log : SUBSET Change]
\* The part of a job for one kind, and a job.
Part == [prev : Nat, end : Nat, batch : Batch, success : BOOLEAN]
Job == [part : [Kind -> Part], todo : SUBSET Kind,
        resp : {NoValue} \cup SUBSET Reply, of : Nat]

\* The types of the variables.
ClusterTypes ==
    /\ seq \in [Node -> [Item -> Nat]]
    /\ gone \in [Node -> SUBSET Item]
    /\ boot \in [Node -> Nat \ {0}]
    /\ produced \in [Node -> Numbers]
    /\ peer \in [Node -> [Node -> PeerRecord]]
    /\ seen \in [Node -> [Node -> [boot : Nat, produced : Numbers]]]
    /\ upd \in [Node -> [p : Node \cup {NoValue}, todo : SUBSET Item]]
    /\ job \in [Node -> [Node -> Job \cup {NoValue}]]
    /\ latest \in [Item -> Nat]
    /\ knew \in [Node -> [Item -> Nat]]

\* A noitd knew every version it holds, and no version is newer than the newest.
VersionsKnown ==
    \A n \in Node, x \in Item : seq[n][x] <= knew[n][x] /\ knew[n][x] <= latest[x]

\* update_peer is about another noitd, and has nothing to queue when it is not running.
UpdOK == \A n \in Node : upd[n].p # n /\ (upd[n].p = NoValue => upd[n] = NoUpdate)

\* n's job for p: its numbers are not from a later incarnation than n's record, and
\* from the same one if an answer is yet to be accounted for.  An answer has at most
\* one reply for an item, of the kind being pulled.
JobOK(n, p) ==
    LET J == job[n][p] IN
    J # NoValue =>
        /\ J.of <= peer[n][p].boot
        /\ GotSome(J) => J.of = peer[n][p].boot
        /\ J.resp # NoValue =>
             /\ \A r, s \in J.resp : r.x = s.x => r = s
             /\ \A r \in J.resp : KindOf(r.x) = Stage(J) /\ r.seq <= latest[r.x]

\* n's record of p is of an incarnation that p has had, and the one of p's last
\* heartbeat.
BootOK(n, p) ==
    /\ peer[n][p].boot <= boot[p]
    /\ peer[n][p].boot # 0 => peer[n][p].known
    /\ seen[n][p].boot = peer[n][p].boot

\* Numbers of p's incarnation do not exceed what p has produced: in p's queue for n,
\* in the heartbeat that n has seen, in n's record, in n's job.
NumbersOK(n, p) ==
    \A k \in Kind :
    /\ \A e \in peer[p][n].log : e.q <= produced[p][KindOf(e.x)]
    /\ seen[n][p].boot = boot[p] => seen[n][p].produced[k] <= produced[p][k]
    /\ peer[n][p].boot = boot[p] =>
         /\ peer[n][p].fetched[k] <= produced[p][k]
         /\ upd[n].p # p => peer[n][p].available[k] <= produced[p][k]
    /\ (job[n][p] # NoValue /\ job[n][p].of = boot[p]) =>
         /\ job[n][p].part[k].prev <= produced[p][k]
         /\ job[n][p].part[k].end <= produced[p][k]

\* The change of x with number q is one that n will still be sent: its number is
\* above what n has fetched, above what n's job will confirm, and above what the job
\* will count as fetched unless the answer it holds has the version of p.
Ahead(n, p, x, q) ==
    LET k == KindOf(x)
        J == job[n][p]
    IN /\ peer[n][p].boot = boot[p] => q > peer[n][p].fetched[k]
       /\ (J # NoValue /\ J.of = boot[p]) =>
            /\ q > J.part[k].prev
            /\ J.part[k].success => q > J.part[k].end
            /\ (J.resp # NoValue /\ Stage(J) = k) =>
                 \/ q > J.part[k].end
                 \/ \E r \in J.resp : r.x = x /\ r.seq >= seq[p][x]

\* Whatever p holds in a version n never had is queued ahead of n, or about to be.
QueuedAhead(n, p) ==
    peer[p][n].boot # 0 =>
        \A x \in Item : seq[p][x] > knew[n][x] =>
            \/ upd[p].p = n /\ x \in upd[p].todo
            \/ \E e \in peer[p][n].log : e.x = x /\ Ahead(n, p, x, e.q)

\* What the invariant says of the receiver n and the sender p.
PairOK(n, p) == JobOK(n, p) /\ BootOK(n, p) /\ NumbersOK(n, p) /\ QueuedAhead(n, p)

\* The inductive invariant.
ClusterInv ==
    /\ ClusterTypes
    /\ VersionsKnown
    /\ UpdOK
    /\ \A n, p \in Node : n # p => PairOK(n, p)

----------------------------------------------------------------------------
(* Lemmas on the operators.                                                *)

\* Every item is of one of the two kinds.
LEMMA KindOfItem ==
    ASSUME NEW x
    PROVE  KindOf(x) \in Kind
BY Zenon DEF KindOf, Kind

\* Any set of items is finite: a daemon numbers only finitely many changes.
LEMMA ItemsFinite ==
    ASSUME NEW X \in SUBSET Item
    PROVE  Cardinality(X) \in Nat
<1>1. IsFiniteSet(Item)
  BY ClusterAssumption, FS_Union, Zenon DEF Item
<1>2. IsFiniteSet(X)
  BY <1>1, FS_Subset
<1> QED
  BY <1>2, FS_CardinalityType

\* What a pull may bring.
LEMMA BatchIs ==
    0 \in Batch /\ -1 \in Batch /\ \A S \in SUBSET Reply : Cardinality(S) \in Batch
BY Zenon DEF Batch

\* A job with something to pull is at one of the kinds it has to pull.
LEMMA StageOf ==
    ASSUME NEW J \in Job, J.todo # {}
    PROVE  Stage(J) \in J.todo /\ Stage(J) \in Kind
<1>1. J.todo \subseteq Kind
  BY Zenon DEF Job
<1> QED
  BY <1>1, Zenon DEF Stage, Kind

\* The stage of a job depends only on what is left to pull.
LEMMA StageSame ==
    ASSUME NEW J, NEW K, J.todo = K.todo
    PROVE  Stage(J) = Stage(K)
BY Zenon DEF Stage

\* A record with another queue is a record, and nothing else of it changes.
LEMMA LogSet ==
    ASSUME NEW R \in PeerRecord, NEW S \in SUBSET Change
    PROVE  LET T == [R EXCEPT !.log = S]
           IN /\ T \in PeerRecord
              /\ T.log = S /\ T.known = R.known /\ T.boot = R.boot
              /\ T.fetched = R.fetched /\ T.available = R.available
BY Zenon DEF PeerRecord

\* T has the incarnation and the numbers of R.
SameRecord(T, R) == /\ R.known => T.known
                    /\ T.boot = R.boot
                    /\ T.fetched = R.fetched /\ T.available = R.available

\* What MarkAll does, in terms of the invariant.
MarkedFor(n, k, X, P) ==
    /\ produced' \in [Node -> Numbers]
    /\ peer' \in [Node -> [Node -> PeerRecord]]
    /\ \A m \in Node : m # n => produced'[m] = produced[m] /\ peer'[m] = peer[m]
    /\ \A m \in Node, j \in Kind : produced'[m][j] >= produced[m][j]
    /\ \A m, p \in Node :
         /\ SameRecord(peer'[m][p], peer[m][p])
         /\ peer[m][p].log \subseteq peer'[m][p].log
         /\ \A e \in peer'[m][p].log : e \in peer[m][p].log \/ e.q <= produced'[m][KindOf(e.x)]
    /\ \A p \in P, x \in X : peer[n][p].known =>
         \E e \in peer'[n][p].log : e.x = x /\ e.q > produced[n][k]

\* MarkAll has the effects of MarkedFor: numbers only grow, the records of peers
\* keep all but their queue, queues only grow, by changes with the new numbers, and
\* every peer in P that is known gets a change with a number above the old ones for
\* every item of X.
LEMMA Marked ==
    ASSUME ClusterTypes, NEW n \in Node, NEW k \in Kind, NEW X \in SUBSET Item, NEW P \in SUBSET Node,
           \A x \in X : KindOf(x) = k,
           MarkAll(n, k, X, P)
    PROVE  MarkedFor(n, k, X, P)
<1>1. PICK num \in Numberings(n, k, X) :
         LET changes == {[x |-> x, q |-> num[x]] : x \in X}
         IN /\ produced' = [produced EXCEPT ![n][k] = @ + Cardinality(X)]
            /\ peer' = [peer EXCEPT ![n] = [p \in Node |->
                         IF p \in P /\ peer[n][p].known
                         THEN [peer[n][p] EXCEPT !.log = peer[n][p].log \cup changes]
                         ELSE peer[n][p]]]
  BY Zenon DEF MarkAll
<1> DEFINE changes == {[x |-> x, q |-> num[x]] : x \in X}
<1>2. Cardinality(X) \in Nat
  BY ItemsFinite, Zenon
<1>3. /\ produced \in [Node -> [Kind -> Nat]]
      /\ peer \in [Node -> [Node -> PeerRecord]]
  BY Zenon DEF ClusterTypes, Numbers
<1>4. /\ produced' \in [Node -> [Kind -> Nat]]
      /\ produced'[n][k] = produced[n][k] + Cardinality(X)
      /\ \A m \in Node : m # n => produced'[m] = produced[m]
      /\ \A j \in Kind : produced'[n][j] >= produced[n][j]
  BY <1>1, <1>2, <1>3
<1>5. \A x \in X : num[x] \in Nat /\ num[x] > produced[n][k] /\ num[x] <= produced'[n][k]
  BY <1>2, <1>3, <1>4, <1>1 DEF Numberings
<1>6. changes \in SUBSET Change
  <2> SUFFICES ASSUME NEW x \in X PROVE [x |-> x, q |-> num[x]] \in Change
    BY Zenon
  <2>1. num[x] \in Nat \ {0}
    BY <1>5, <1>3
  <2> QED
    BY <2>1, Zenon DEF Change
<1>7. \A e \in changes : e.x \in X /\ e.q = num[e.x]
  OBVIOUS
<1>8. \A p \in Node : peer[n][p].log \cup changes \in SUBSET Change
  BY <1>6, <1>3 DEF PeerRecord
<1> HIDE DEF changes
<1>9. ASSUME NEW p \in Node
      PROVE  /\ peer'[n][p] \in PeerRecord
             /\ SameRecord(peer'[n][p], peer[n][p])
             /\ peer'[n][p].log = IF p \in P /\ peer[n][p].known THEN peer[n][p].log \cup changes
                                  ELSE peer[n][p].log
  <2>1. peer'[n][p] = IF p \in P /\ peer[n][p].known
                         THEN [peer[n][p] EXCEPT !.log = peer[n][p].log \cup changes]
                         ELSE peer[n][p]
    BY <1>1, <1>3, Zenon DEF changes
  <2>2. CASE p \in P /\ peer[n][p].known
    <3>1. peer'[n][p] = [peer[n][p] EXCEPT !.log = peer[n][p].log \cup changes]
      BY <2>1, <2>2, Zenon
    <3>2. peer[n][p] \in PeerRecord /\ peer[n][p].log \cup changes \in SUBSET Change
      BY <1>3, <1>8, Zenon
    <3>3. peer'[n][p] \in PeerRecord /\ peer'[n][p].log = peer[n][p].log \cup changes
      BY <3>1, <3>2, LogSet
    <3>4. SameRecord(peer'[n][p], peer[n][p])
      BY <3>1, <3>2, LogSet DEF SameRecord
    <3> QED
      BY <3>3, <3>4, <2>2, Zenon
  <2>3. CASE ~(p \in P /\ peer[n][p].known)
    BY <2>1, <2>3, <1>3, Zenon DEF SameRecord
  <2> QED
    BY <2>2, <2>3, Zenon
<1>10. /\ peer' \in [Node -> [Node -> PeerRecord]]
       /\ \A m \in Node : m # n => peer'[m] = peer[m]
  <2>1. \A m \in Node : m # n => peer'[m] = peer[m]
    BY <1>1, <1>3, Zenon
  <2>2. peer'[n] = [p \in Node |-> peer'[n][p]]
    BY <1>1, <1>3, Zenon
  <2>3. peer'[n] \in [Node -> PeerRecord]
    BY <2>2, <1>9, Zenon
  <2>4. peer' = [m \in Node |-> peer'[m]]
    BY <1>1, <1>3, Zenon
  <2> QED
    BY <2>1, <2>3, <2>4, <1>3, Zenon
<1>11. ASSUME NEW p \in Node, NEW e \in peer'[n][p].log, e \notin peer[n][p].log
       PROVE  e.q <= produced'[n][KindOf(e.x)]
  <2>1. e \in changes
    BY <1>11, <1>9, Zenon
  <2> QED
    BY <2>1, <1>7, <1>5, Zenon
<1>12. ASSUME NEW p \in P, NEW x \in X, peer[n][p].known
       PROVE  \E e \in peer'[n][p].log : e.x = x /\ e.q > produced[n][k]
  <2>1. [x |-> x, q |-> num[x]] \in changes
    BY Zenon DEF changes
  <2>2. [x |-> x, q |-> num[x]] \in peer'[n][p].log
    BY <2>1, <1>9, <1>12, Zenon
  <2> QED
    BY <2>2, <1>5, Zenon
<1>13. \A m \in Node, j \in Kind : produced'[m][j] >= produced[m][j]
  BY <1>4, <1>3
<1>14. ASSUME NEW m \in Node, NEW p \in Node
       PROVE  /\ SameRecord(peer'[m][p], peer[m][p])
              /\ peer[m][p].log \subseteq peer'[m][p].log
              /\ \A e \in peer'[m][p].log : e \in peer[m][p].log \/ e.q <= produced'[m][KindOf(e.x)]
  <2>1. CASE m = n
    BY <2>1, <1>9, <1>11, Zenon
  <2>2. CASE m # n
    BY <2>2, <1>10, Zenon DEF SameRecord
  <2> QED
    BY <2>1, <2>2, Zenon
<1> QED
  BY <1>4, <1>10, <1>12, <1>13, <1>14, Zenon DEF Numbers, MarkedFor

\* A step keeps n's record of p and n's job, and p's numbers only grow.
Keeps(n, p) ==
    /\ SameRecord(peer'[n][p], peer[n][p])
    /\ job'[n][p] = job[n][p] /\ seen'[n][p] = seen[n][p]
    /\ upd'[n].p # p => upd[n].p # p
    /\ boot'[p] = boot[p]
    /\ \A k \in Kind : produced'[p][k] >= produced[p][k]
    /\ \A e \in peer'[p][n].log : e \in peer[p][n].log \/ e.q <= produced'[p][KindOf(e.x)]
    /\ \A x \in Item : latest'[x] >= latest[x]

\* A step keeps p's queue for n, and queues for n with a new number what it makes
\* newer.
KeepsQueue(n, p) ==
    /\ peer'[p][n].boot = peer[p][n].boot
    /\ peer[p][n].log \subseteq peer'[p][n].log
    /\ peer[p][n].boot # 0 =>
         \A x \in Item : seq'[p][x] > knew'[n][x] =>
            \/ /\ seq[p][x] > knew[n][x] /\ seq'[p][x] = seq[p][x]
               /\ (upd[p].p = n /\ x \in upd[p].todo) => (upd'[p].p = n /\ x \in upd'[p].todo)
            \/ \E e \in peer'[p][n].log : e.x = x /\ e.q > produced[p][KindOf(x)]

\* The types of what two noitds hold of each other.
LEMMA PairTypes ==
    ASSUME ClusterTypes, NEW n \in Node, NEW p \in Node
    PROVE  /\ peer[n][p] \in PeerRecord
           /\ job[n][p] # NoValue => job[n][p] \in Job
           /\ boot[p] \in Nat \ {0}
           /\ produced[p] \in Numbers
           /\ seen[n][p].boot \in Nat /\ seen[n][p].produced \in Numbers
           /\ upd[n].p \in Node \cup {NoValue} /\ upd[n].todo \in SUBSET Item
           /\ \A k \in Kind : /\ produced[p][k] \in Nat
                              /\ seen[n][p].produced[k] \in Nat
           /\ \A x \in Item : seq[n][x] \in Nat /\ knew[n][x] \in Nat /\ latest[x] \in Nat
BY DEF ClusterTypes, Numbers

\* The types of the fields of a peer's record.
LEMMA RecordTypes ==
    ASSUME NEW R \in PeerRecord
    PROVE  /\ R.boot \in Nat
           /\ \A k \in Kind : R.fetched[k] \in Nat /\ R.available[k] \in Nat
           /\ \A e \in R.log : e.x \in Item /\ e.q \in Nat /\ e.q > 0
BY DEF PeerRecord, Numbers, Change

\* The types of the fields of a job.
LEMMA JobTypes ==
    ASSUME NEW J \in Job
    PROVE  /\ J.of \in Nat
           /\ \A k \in Kind : /\ J.part[k] \in Part
                              /\ J.part[k].prev \in Nat /\ J.part[k].end \in Nat
                              /\ J.part[k].success \in BOOLEAN
           /\ J.resp # NoValue => \A r \in J.resp : r.x \in Item /\ r.seq \in Nat
BY Zenon DEF Job, Part, Reply

\* A step that keeps a pair's record, job and numbers keeps what is said of them.
LEMMA KeptNumbers ==
    ASSUME ClusterTypes, ClusterTypes', NEW n \in Node, NEW p \in Node, PairOK(n, p), Keeps(n, p)
    PROVE  JobOK(n, p)' /\ BootOK(n, p)' /\ NumbersOK(n, p)'
<1>1. JobOK(n, p)'
  <2> SUFFICES ASSUME job'[n][p] # NoValue
               PROVE  JobOK(n, p)'
    BY Zenon DEF JobOK
  <2>1. /\ job[n][p] # NoValue /\ job'[n][p] = job[n][p] /\ job[n][p] \in Job
        /\ peer'[n][p].boot = peer[n][p].boot
    BY PairTypes, Zenon DEF Keeps, SameRecord
  <2>2. \A r \in job[n][p].resp : job[n][p].resp # NoValue => r.seq <= latest'[r.x]
    <3> SUFFICES ASSUME NEW r \in job[n][p].resp, job[n][p].resp # NoValue
                 PROVE  r.seq <= latest'[r.x]
      BY Zenon
    <3>1. r.x \in Item /\ r.seq \in Nat
      BY <2>1, JobTypes, Zenon
    <3>2. r.seq <= latest[r.x]
      BY <2>1, Zenon DEF PairOK, JobOK
    <3>3. latest[r.x] \in Nat /\ latest'[r.x] \in Nat /\ latest'[r.x] >= latest[r.x]
      BY <3>1, Zenon DEF Keeps, ClusterTypes
    <3> QED
      BY <3>1, <3>2, <3>3
  <2> QED
    BY <2>1, <2>2, Zenon DEF PairOK, JobOK
<1>2. BootOK(n, p)'
  BY Zenon DEF PairOK, BootOK, Keeps, SameRecord
<1>3. NumbersOK(n, p)'
  <2> SUFFICES ASSUME NEW k \in Kind
               PROVE
    /\ \A e \in peer'[p][n].log : e.q <= produced'[p][KindOf(e.x)]
    /\ seen'[n][p].boot = boot'[p] => seen'[n][p].produced[k] <= produced'[p][k]
    /\ peer'[n][p].boot = boot'[p] =>
         /\ peer'[n][p].fetched[k] <= produced'[p][k]
         /\ upd'[n].p # p => peer'[n][p].available[k] <= produced'[p][k]
    /\ (job'[n][p] # NoValue /\ job'[n][p].of = boot'[p]) =>
         /\ job'[n][p].part[k].prev <= produced'[p][k]
         /\ job'[n][p].part[k].end <= produced'[p][k]
    BY Zenon DEF NumbersOK
  <2>0. /\ produced[p][k] \in Nat /\ produced'[p][k] \in Nat /\ produced'[p][k] >= produced[p][k]
        /\ seen[n][p].produced[k] \in Nat
    BY PairTypes DEF Keeps, ClusterTypes, Numbers
  <2>1. ASSUME NEW e \in peer'[p][n].log PROVE e.q <= produced'[p][KindOf(e.x)]
    <3>1. CASE e \in peer[p][n].log
      <4>1. e.q <= produced[p][KindOf(e.x)] /\ e.q \in Nat
        BY <3>1, PairTypes, RecordTypes, Zenon DEF PairOK, NumbersOK
      <4>2. /\ produced[p][KindOf(e.x)] \in Nat /\ produced'[p][KindOf(e.x)] \in Nat
            /\ produced'[p][KindOf(e.x)] >= produced[p][KindOf(e.x)]
        BY KindOfItem DEF Keeps, ClusterTypes, Numbers
      <4> QED
        BY <4>1, <4>2
    <3> QED
      BY <3>1, Zenon DEF Keeps
  <2>2. seen'[n][p].boot = boot'[p] => seen'[n][p].produced[k] <= produced'[p][k]
    BY <2>0, SMTT(30) DEF Keeps, PairOK, NumbersOK
  <2>3. peer'[n][p].boot = boot'[p] =>
         /\ peer'[n][p].fetched[k] <= produced'[p][k]
         /\ upd'[n].p # p => peer'[n][p].available[k] <= produced'[p][k]
    <3>1. peer[n][p].fetched[k] \in Nat /\ peer[n][p].available[k] \in Nat
      BY PairTypes, RecordTypes, Zenon
    <3> QED
      BY <3>1, <2>0 DEF Keeps, SameRecord, PairOK, NumbersOK
  <2>4. (job'[n][p] # NoValue /\ job'[n][p].of = boot'[p]) =>
         /\ job'[n][p].part[k].prev <= produced'[p][k]
         /\ job'[n][p].part[k].end <= produced'[p][k]
    <3> SUFFICES ASSUME job'[n][p] # NoValue, job'[n][p].of = boot'[p]
                 PROVE  /\ job'[n][p].part[k].prev <= produced'[p][k]
                        /\ job'[n][p].part[k].end <= produced'[p][k]
      BY Zenon
    <3>1. /\ job[n][p] # NoValue /\ job[n][p].of = boot[p] /\ job'[n][p] = job[n][p]
          /\ job[n][p] \in Job
      BY PairTypes, Zenon DEF Keeps
    <3>2. job[n][p].part[k].prev \in Nat /\ job[n][p].part[k].end \in Nat
      BY <3>1, JobTypes, Zenon
    <3>3. job[n][p].part[k].prev <= produced[p][k] /\ job[n][p].part[k].end <= produced[p][k]
      BY <3>1, Zenon DEF PairOK, NumbersOK
    <3> QED
      BY <3>1, <3>2, <3>3, <2>0
  <2> QED
    BY <2>1, <2>2, <2>3, <2>4, Zenon
<1> QED
  BY <1>1, <1>2, <1>3, Zenon

\* q is a number that n, and n's job for p, do not reach.
Beyond(n, p, x, q) ==
    /\ peer[n][p].boot = boot[p] => q > peer[n][p].fetched[KindOf(x)]
    /\ (job[n][p] # NoValue /\ job[n][p].of = boot[p]) =>
         /\ q > job[n][p].part[KindOf(x)].prev
         /\ q > job[n][p].part[KindOf(x)].end

\* A number above all that p has produced is beyond what n has fetched or asked for.
LEMMA NewIsBeyond ==
    ASSUME ClusterTypes, NEW n \in Node, NEW p \in Node, NEW x \in Item, NEW q \in Nat,
           NumbersOK(n, p), q > produced[p][KindOf(x)]
    PROVE  Beyond(n, p, x, q)
<1>1. KindOf(x) \in Kind /\ produced[p][KindOf(x)] \in Nat
  BY KindOfItem, PairTypes, Zenon
<1>2. peer[n][p].boot = boot[p] => q > peer[n][p].fetched[KindOf(x)]
  <2>1. peer[n][p].fetched[KindOf(x)] \in Nat
    BY <1>1, PairTypes, RecordTypes, Zenon
  <2> QED
    BY <1>1, <2>1 DEF NumbersOK
<1>3. ASSUME job[n][p] # NoValue, job[n][p].of = boot[p]
      PROVE  q > job[n][p].part[KindOf(x)].prev /\ q > job[n][p].part[KindOf(x)].end
  <2>1. job[n][p].part[KindOf(x)].prev \in Nat /\ job[n][p].part[KindOf(x)].end \in Nat
    BY <1>3, <1>1, PairTypes, JobTypes, Zenon
  <2> QED
    BY <1>1, <1>3, <2>1 DEF NumbersOK
<1> QED
  BY <1>2, <1>3, Zenon DEF Beyond

\* A change stays ahead of n over a step that keeps n's record and job.
LEMMA StaysAhead ==
    ASSUME NEW n \in Node, NEW p \in Node, NEW x \in Item, NEW q,
           Keeps(n, p), seq'[p][x] = seq[p][x], Ahead(n, p, x, q)
    PROVE  Ahead(n, p, x, q)'
BY Zenon DEF Keeps, SameRecord, Ahead

\* A step that keeps a pair's record and job, and that queues what it makes newer,
\* keeps all that the invariant says of the pair.
LEMMA KeptPair ==
    ASSUME ClusterTypes, ClusterTypes', NEW n \in Node, NEW p \in Node, PairOK(n, p),
           Keeps(n, p), KeepsQueue(n, p)
    PROVE  PairOK(n, p)'
<1>1. JobOK(n, p)' /\ BootOK(n, p)' /\ NumbersOK(n, p)'
  BY KeptNumbers, Zenon
<1>2. QueuedAhead(n, p)'
  <2> SUFFICES ASSUME peer'[p][n].boot # 0, NEW x \in Item, seq'[p][x] > knew'[n][x]
               PROVE  \/ upd'[p].p = n /\ x \in upd'[p].todo
                      \/ \E e \in peer'[p][n].log : e.x = x /\ Ahead(n, p, x, e.q)'
    BY Zenon DEF QueuedAhead
  <2>0. peer[p][n].boot # 0
    BY Zenon DEF KeepsQueue
  <2>1. CASE /\ seq[p][x] > knew[n][x] /\ seq'[p][x] = seq[p][x]
             /\ (upd[p].p = n /\ x \in upd[p].todo) => (upd'[p].p = n /\ x \in upd'[p].todo)
    <3>1. CASE upd[p].p = n /\ x \in upd[p].todo
      BY <2>1, <3>1, Zenon
    <3>2. CASE \E e \in peer[p][n].log : e.x = x /\ Ahead(n, p, x, e.q)
      <4>1. PICK e \in peer[p][n].log : e.x = x /\ Ahead(n, p, x, e.q)
        BY <3>2, Zenon
      <4>2. e \in peer'[p][n].log
        BY Zenon DEF KeepsQueue
      <4>3. Ahead(n, p, x, e.q)'
        BY <4>1, <2>1, StaysAhead, Zenon
      <4> QED
        BY <4>1, <4>2, <4>3, Zenon
    <3> QED
      BY <2>0, <2>1, <3>1, <3>2, Zenon DEF PairOK, QueuedAhead
  <2>2. CASE \E e \in peer'[p][n].log : e.x = x /\ e.q > produced[p][KindOf(x)]
    <3>1. PICK e \in peer'[p][n].log : e.x = x /\ e.q > produced[p][KindOf(x)]
      BY <2>2, Zenon
    <3>2. e.q \in Nat
      <4>1. peer'[p][n] \in PeerRecord
        BY DEF ClusterTypes
      <4> QED
        BY <4>1, RecordTypes, Zenon
    <3>3. Beyond(n, p, x, e.q)
      BY <3>1, <3>2, NewIsBeyond, Zenon DEF PairOK
    <3>4. Beyond(n, p, x, e.q)'
      BY <3>3, Zenon DEF Beyond, Keeps, SameRecord
    <3>5. Ahead(n, p, x, e.q)'
      BY <3>4, Zenon DEF Beyond, Ahead
    <3> QED
      BY <3>1, <3>5, Zenon
  <2> QED
    BY <2>0, <2>1, <2>2, Zenon DEF KeepsQueue
<1> QED
  BY <1>1, <1>2, Zenon DEF PairOK

\* A step that touches neither the record, the job nor the queue of a pair keeps all
\* that the invariant says of the pair.
LEMMA OtherPairs ==
    ASSUME ClusterInv, ClusterTypes', NEW n \in Node, NEW p \in Node, PairOK(n, p),
           SameRecord(peer'[n][p], peer[n][p]),
           peer'[p][n].log = peer[p][n].log, peer'[p][n].boot = peer[p][n].boot,
           job'[n][p] = job[n][p], seen'[n][p] = seen[n][p],
           upd'[n].p # p => upd[n].p # p,
           (upd[p].p = n /\ upd[p].todo # {}) => upd'[p] = upd[p],
           UNCHANGED <<boot, produced, store>>
    PROVE  PairOK(n, p)'
<1>1. /\ \A k \in Kind : produced[p][k] \in Nat
      /\ \A x \in Item : latest[x] \in Nat
  BY PairTypes, Zenon DEF ClusterInv
<1>2. Keeps(n, p)
  BY <1>1 DEF Keeps, store
<1>3. KeepsQueue(n, p)
  BY Zenon DEF KeepsQueue, store
<1> QED
  BY <1>2, <1>3, KeptPair, Zenon DEF ClusterInv

----------------------------------------------------------------------------
\* The versions are kept in order by a step that only raises what one noitd holds.
LEMMA Versions ==
    ASSUME ClusterInv, ClusterTypes', NEW n \in Node,
           \A x \in Item : latest'[x] >= latest[x],
           \A m \in Node : m # n => seq'[m] = seq[m] /\ knew'[m] = knew[m],
           \A x \in Item : seq'[n][x] <= knew'[n][x] /\ knew'[n][x] <= latest'[x]
    PROVE  VersionsKnown'
<1> SUFFICES ASSUME NEW m \in Node, NEW x \in Item, m # n
             PROVE  seq'[m][x] <= knew'[m][x] /\ knew'[m][x] <= latest'[x]
  BY Zenon DEF VersionsKnown
<1>1. /\ seq[m][x] <= knew[m][x] /\ knew[m][x] <= latest[x]
      /\ seq'[m][x] = seq[m][x] /\ knew'[m][x] = knew[m][x]
  BY Zenon DEF ClusterInv, VersionsKnown
<1>2. /\ seq[m][x] \in Nat /\ knew[m][x] \in Nat /\ latest[x] \in Nat
      /\ latest'[x] \in Nat /\ latest'[x] >= latest[x]
  BY DEF ClusterInv, ClusterTypes
<1> QED
  BY <1>1, <1>2

\* x is given the version latest[x] + 1 on n and is queued for every peer.
Changes(n, x) ==
    /\ latest' = [latest EXCEPT ![x] = @ + 1]
    /\ seq' = [seq EXCEPT ![n][x] = latest[x] + 1]
    /\ knew' = [knew EXCEPT ![n][x] = latest[x] + 1]
    /\ gone' \in [Node -> SUBSET Item]
    /\ MarkAll(n, KindOf(x), {x}, Node)
    /\ UNCHANGED <<boot, seen, upd, job>>

\* Giving an item a new version on n preserves the invariant.
LEMMA ChangesOK ==
    ASSUME ClusterInv, NEW n \in Node, NEW x \in Item, Changes(n, x)
    PROVE  ClusterInv'
<1> USE DEF Changes
<1>0. ClusterTypes /\ KindOf(x) \in Kind
  BY KindOfItem, Zenon DEF ClusterInv
<1>1. MarkedFor(n, KindOf(x), {x}, Node)
  <2>1. {x} \in SUBSET Item /\ (\A y \in {x} : KindOf(y) = KindOf(x)) /\ Node \in SUBSET Node
    BY Zenon
  <2>2. MarkAll(n, KindOf(x), {x}, Node)
    BY Zenon
  <2> HIDE DEF Changes
  <2> QED
    BY <1>0, <2>1, <2>2, Marked, Zenon
<1>2. /\ latest' \in [Item -> Nat]
      /\ seq' \in [Node -> [Item -> Nat]]
      /\ knew' \in [Node -> [Item -> Nat]]
      /\ \A m \in Node : m # n => seq'[m] = seq[m] /\ knew'[m] = knew[m]
      /\ \A y \in Item : y # x => /\ seq'[n][y] = seq[n][y] /\ knew'[n][y] = knew[n][y]
                                  /\ latest'[y] = latest[y]
      /\ seq'[n][x] = latest[x] + 1 /\ knew'[n][x] = latest[x] + 1 /\ latest'[x] = latest[x] + 1
  BY <1>0 DEF ClusterTypes
<1>3. ClusterTypes'
  BY <1>0, <1>1, <1>2, Zenon DEF ClusterTypes, MarkedFor
<1>4. \A y \in Item : latest[y] \in Nat /\ latest'[y] >= latest[y]
  BY <1>2, <1>0 DEF ClusterTypes
<1>5. VersionsKnown'
  <2>1. \A y \in Item : seq'[n][y] <= knew'[n][y] /\ knew'[n][y] <= latest'[y]
    BY <1>2, <1>0 DEF ClusterInv, VersionsKnown, ClusterTypes
  <2> QED
    BY <2>1, <1>2, <1>3, <1>4, Versions, Zenon
<1>6. UpdOK'
  BY Zenon DEF ClusterInv, UpdOK
<1>7. ASSUME NEW m \in Node, NEW p \in Node, m # p
      PROVE  PairOK(m, p)'
  <2>1. Keeps(m, p)
    BY <1>1, <1>4, Zenon DEF Keeps, MarkedFor
  <2>2. KeepsQueue(m, p)
    <3>1. /\ peer'[p][m].boot = peer[p][m].boot
          /\ peer[p][m].log \subseteq peer'[p][m].log
      BY <1>1, Zenon DEF SameRecord, MarkedFor
    <3>2. ASSUME peer[p][m].boot # 0, NEW y \in Item, seq'[p][y] > knew'[m][y]
          PROVE  \/ seq[p][y] > knew[m][y] /\ seq'[p][y] = seq[p][y]
                 \/ \E e \in peer'[p][m].log : e.x = y /\ e.q > produced[p][KindOf(y)]
      <4>1. CASE p = n /\ y = x
        <5>1. peer[p][m].known
          BY <3>2, <1>7, Zenon DEF ClusterInv, PairOK, BootOK
        <5> QED
          BY <4>1, <5>1, <1>1, Zenon DEF MarkedFor
      <4>2. CASE m = n /\ y = x
        <5>1. /\ knew[m][y] <= latest[x] /\ knew[m][y] \in Nat /\ latest[x] \in Nat
              /\ seq'[p][y] = seq[p][y] /\ seq[p][y] \in Nat /\ knew'[m][y] = latest[x] + 1
          BY <4>2, <1>2, <1>7, <1>0 DEF ClusterInv, VersionsKnown, ClusterTypes
        <5> QED
          BY <5>1, <3>2
      <4>3. CASE y # x \/ (p # n /\ m # n)
        BY <4>3, <3>2, <1>2, <1>7, Zenon
      <4> QED
        BY <4>1, <4>2, <4>3, Zenon
    <3> QED
      BY <3>1, <3>2, Zenon DEF KeepsQueue
  <2>3. PairOK(m, p)
    BY <1>7, Zenon DEF ClusterInv
  <2> QED
    BY <2>1, <2>2, <2>3, <1>0, <1>3, KeptPair, Zenon
<1> QED
  BY <1>3, <1>5, <1>6, <1>7, Zenon DEF ClusterInv

\* Setting an item preserves the invariant.
LEMMA SetItemOK ==
    ASSUME ClusterInv, NEW n \in Node, NEW x \in Item, SetItem(n, x)
    PROVE  ClusterInv'
<1>1. gone' \in [Node -> SUBSET Item]
  BY Zenon DEF SetItem, ClusterInv, ClusterTypes
<1>2. Changes(n, x)
  BY <1>1, Zenon DEF SetItem, Changes
<1> QED
  BY <1>2, ChangesOK, Zenon

\* Deleting a check preserves the invariant.
LEMMA DeleteItemOK ==
    ASSUME ClusterInv, NEW n \in Node, NEW x \in Check, DeleteItem(n, x)
    PROVE  ClusterInv'
<1>0. x \in Item
  BY Zenon DEF Item
<1>1. gone' \in [Node -> SUBSET Item]
  BY <1>0, Zenon DEF DeleteItem, ClusterInv, ClusterTypes
<1>2. seq' = [seq EXCEPT ![n][x] = latest[x] + 1]
  BY <1>0, Zenon DEF DeleteItem, ClusterInv, ClusterTypes
<1>3. Changes(n, x)
  BY <1>1, <1>2, Zenon DEF DeleteItem, Changes
<1> QED
  BY <1>0, <1>3, ChangesOK, Zenon

\* Purging a tombstone preserves the invariant.
LEMMA PurgeItemOK ==
    ASSUME ClusterInv, NEW n \in Node, NEW x \in Check, PurgeItem(n, x)
    PROVE  ClusterInv'
<1> USE DEF PurgeItem
<1>0. ClusterTypes /\ x \in Item
  BY Zenon DEF ClusterInv, Item
<1>1. /\ seq' \in [Node -> [Item -> Nat]]
      /\ seq'[n][x] = 0
      /\ \A m \in Node, y \in Item : (m # n \/ y # x) => seq'[m][y] = seq[m][y]
  BY <1>0, Zenon DEF ClusterTypes
<1>2. ClusterTypes'
  BY <1>0, <1>1, Zenon DEF ClusterTypes
<1>3. VersionsKnown'
  BY <1>0, <1>1 DEF ClusterInv, VersionsKnown, ClusterTypes
<1>4. UpdOK'
  BY Zenon DEF ClusterInv, UpdOK
<1>5. ASSUME NEW m \in Node, NEW p \in Node, m # p
      PROVE  PairOK(m, p)'
  <2>1. Keeps(m, p)
    BY <1>0 DEF Keeps, SameRecord, ClusterTypes, Numbers
  <2>2. KeepsQueue(m, p)
    <3>1. \A y \in Item : seq'[p][y] > knew'[m][y] => seq'[p][y] = seq[p][y]
      BY <1>0, <1>1 DEF ClusterTypes
    <3> QED
      BY <3>1, Zenon DEF KeepsQueue
  <2> QED
    BY <2>1, <2>2, <1>0, <1>2, <1>5, KeptPair, Zenon DEF ClusterInv
<1> QED
  BY <1>2, <1>3, <1>4, <1>5, Zenon DEF ClusterInv

\* A record that becomes known is a record, and nothing else of it changes.
LEMMA KnownSet ==
    ASSUME NEW R \in PeerRecord
    PROVE  LET T == [R EXCEPT !.known = TRUE]
           IN /\ T \in PeerRecord
              /\ T.log = R.log /\ T.known = TRUE /\ T.boot = R.boot
              /\ T.fetched = R.fetched /\ T.available = R.available
BY Zenon DEF PeerRecord

\* The record of a peer that was never seen is a record.
LEMMA NoPeerType == NoPeer \in PeerRecord
BY BatchIs, Zenon DEF NoPeer, PeerRecord, Numbers, Change

\* attach_to_cluster only makes the peers known.
LEMMA AttachedOK ==
    ASSUME ClusterTypes, NEW n \in Node
    PROVE  /\ Attached(n) \in [Node -> PeerRecord]
           /\ \A p \in Node : p # n =>
                /\ SameRecord(Attached(n)[p], peer[n][p])
                /\ Attached(n)[p].log = peer[n][p].log /\ Attached(n)[p].known = TRUE
<1>1. ASSUME NEW p \in Node
      PROVE  /\ Attached(n)[p] \in PeerRecord
             /\ p # n =>
                /\ SameRecord(Attached(n)[p], peer[n][p])
                /\ Attached(n)[p].log = peer[n][p].log /\ Attached(n)[p].known = TRUE
  <2>1. CASE p = n
    BY <2>1, NoPeerType, Zenon DEF Attached
  <2>2. CASE p # n
    <3>1. Attached(n)[p] = [peer[n][p] EXCEPT !.known = TRUE]
      BY <2>2, Zenon DEF Attached
    <3> QED
      BY <3>1, KnownSet, PairTypes DEF SameRecord
  <2> QED
    BY <2>1, <2>2, Zenon
<1>2. Attached(n) = [p \in Node |-> Attached(n)[p]]
  BY Zenon DEF Attached
<1> QED
  BY <1>1, <1>2, Zenon

\* A callback about the noitd itself preserves the invariant.
LEMMA AttachOK ==
    ASSUME ClusterInv, NEW n \in Node, Attach(n)
    PROVE  ClusterInv'
<1> USE DEF Attach
<1>0. ClusterTypes
  BY Zenon DEF ClusterInv
<1>1. ClusterTypes'
  <2>1. peer' \in [Node -> [Node -> PeerRecord]]
    BY <1>0, AttachedOK, Zenon DEF ClusterTypes
  <2> QED
    BY <2>1, <1>0, Zenon DEF ClusterTypes, store
<1>2. VersionsKnown' /\ UpdOK'
  BY Zenon DEF ClusterInv, VersionsKnown, UpdOK, store
<1>3. ASSUME NEW m \in Node, NEW p \in Node, m # p
      PROVE  SameRecord(peer'[m][p], peer[m][p]) /\ peer'[m][p].log = peer[m][p].log
  <2>1. CASE m = n
    <3>1. peer'[m][p] = Attached(n)[p]
      BY <2>1, <1>0, Zenon DEF ClusterTypes
    <3> HIDE DEF Attach
    <3>2. SameRecord(Attached(n)[p], peer[n][p]) /\ Attached(n)[p].log = peer[n][p].log
      BY <2>1, <1>0, <1>3, AttachedOK, Zenon
    <3> QED
      BY <2>1, <3>1, <3>2, Zenon
  <2>2. CASE m # n
    BY <2>2, <1>0, Zenon DEF ClusterTypes, SameRecord
  <2> QED
    BY <2>1, <2>2, Zenon
<1>4. ASSUME NEW m \in Node, NEW p \in Node, m # p
      PROVE  PairOK(m, p)'
  <2>1. /\ SameRecord(peer'[m][p], peer[m][p])
        /\ peer'[p][m].log = peer[p][m].log /\ peer'[p][m].boot = peer[p][m].boot
    BY <1>3, <1>4 DEF SameRecord
  <2>2. PairOK(m, p)
    BY <1>4, Zenon DEF ClusterInv
  <2> QED
    BY <2>1, <2>2, <1>1, OtherPairs, Zenon
<1> QED
  BY <1>1, <1>2, <1>4, Zenon DEF ClusterInv

\* Queueing the next item of a rebuild preserves the invariant.
LEMMA UpdateMarkOK ==
    ASSUME ClusterInv, NEW n \in Node, UpdateMark(n)
    PROVE  ClusterInv'
<1>0. ClusterTypes
  BY Zenon DEF ClusterInv
<1>1. PICK x \in upd[n].todo :
         /\ upd' = [upd EXCEPT ![n].todo = @ \ {x}]
         /\ IF seq[n][x] = 0 THEN UNCHANGED <<produced, peer>>
            ELSE MarkAll(n, KindOf(x), {x}, {upd[n].p})
  BY Zenon DEF UpdateMark
<1>2. x \in Item /\ upd[n].p \in Node
  <2>1. upd[n].todo \in SUBSET Item /\ upd[n].p \in Node \cup {NoValue}
    BY <1>0, PairTypes, Zenon
  <2>2. upd[n] # NoUpdate
    BY <1>1 DEF NoUpdate
  <2> QED
    BY <2>1, <2>2, <1>1, Zenon DEF ClusterInv, UpdOK
<1>3. /\ upd' \in [Node -> [p : Node \cup {NoValue}, todo : SUBSET Item]]
      /\ \A m \in Node : upd'[m].p = upd[m].p
      /\ \A m \in Node : m # n => upd'[m] = upd[m]
      /\ upd'[n].todo = upd[n].todo \ {x}
  BY <1>0, <1>1 DEF ClusterTypes
<1>4. UNCHANGED <<store, boot, seen, job>>
  BY Zenon DEF UpdateMark
<1>5. seq[n][x] # 0 => MarkedFor(n, KindOf(x), {x}, {upd[n].p})
  <2> SUFFICES ASSUME seq[n][x] # 0
               PROVE  MarkedFor(n, KindOf(x), {x}, {upd[n].p})
    BY Zenon
  <2>1. {x} \in SUBSET Item /\ (\A y \in {x} : KindOf(y) = KindOf(x)) /\ {upd[n].p} \in SUBSET Node
    BY <1>2, Zenon
  <2>2. MarkAll(n, KindOf(x), {x}, {upd[n].p})
    BY <1>1, Zenon
  <2> QED
    BY <1>0, <2>1, <2>2, KindOfItem, Marked, Zenon
<1>6. ClusterTypes'
  <2>1. produced' \in [Node -> Numbers] /\ peer' \in [Node -> [Node -> PeerRecord]]
    BY <1>0, <1>1, <1>5, Zenon DEF ClusterTypes, MarkedFor
  <2> QED
    BY <2>1, <1>0, <1>3, <1>4, Zenon DEF ClusterTypes, store
<1>7. VersionsKnown'
  BY <1>4, Zenon DEF ClusterInv, VersionsKnown, store
<1>8. UpdOK'
  BY <1>3, <1>2, ClusterAssumption DEF ClusterInv, UpdOK
<1>9. ASSUME NEW m \in Node, NEW p \in Node, m # p
      PROVE  PairOK(m, p)'
  <2>1. /\ SameRecord(peer'[m][p], peer[m][p])
        /\ \A k \in Kind : produced'[p][k] >= produced[p][k]
        /\ \A e \in peer'[p][m].log : e \in peer[p][m].log \/ e.q <= produced'[p][KindOf(e.x)]
        /\ peer'[p][m].boot = peer[p][m].boot
        /\ peer[p][m].log \subseteq peer'[p][m].log
    <3>1. CASE seq[n][x] = 0
      BY <3>1, <1>0, <1>1, SMTT(30) DEF SameRecord, ClusterTypes, Numbers
    <3>2. CASE seq[n][x] # 0
      BY <3>2, <1>5 DEF MarkedFor, SameRecord
    <3> QED
      BY <3>1, <3>2, Zenon
  <2>2. Keeps(m, p)
    <3>1. \A y \in Item : latest'[y] >= latest[y]
      BY <1>0, <1>4, SMTT(30) DEF ClusterTypes, store
    <3> QED
      BY <2>1, <3>1, <1>3, <1>4, Zenon DEF Keeps
  <2>3. KeepsQueue(m, p)
    <3>1. ASSUME peer[p][m].boot # 0, NEW y \in Item, seq[p][y] > knew[m][y],
                 upd[p].p = m, y \in upd[p].todo, y \notin upd'[p].todo
          PROVE  \E e \in peer'[p][m].log : e.x = y /\ e.q > produced[p][KindOf(y)]
      <4>1. p = n /\ y = x
        BY <3>1, <1>3, Zenon
      <4>2. peer[p][m].known
        BY <3>1, <1>9, Zenon DEF ClusterInv, PairOK, BootOK
      <4>3. seq[n][x] # 0
        BY <4>1, <3>1, <1>0, <1>2 DEF ClusterTypes
      <4> QED
        BY <4>1, <4>2, <4>3, <3>1, <1>5, Zenon DEF MarkedFor
    <3> QED
      BY <3>1, <2>1, <1>3, <1>4, Zenon DEF KeepsQueue, store
  <2> QED
    BY <2>2, <2>3, <1>0, <1>6, <1>9, KeptPair, Zenon DEF ClusterInv
<1> QED
  BY <1>6, <1>7, <1>8, <1>9, Zenon DEF ClusterInv

\* A restart preserves the invariant: the noitd forgets its peers, and its own numbers
\* are those of a new incarnation.
LEMMA RestartOK ==
    ASSUME ClusterInv, NEW n \in Node, Restart(n)
    PROVE  ClusterInv'
<1>0. ClusterTypes
  BY Zenon DEF ClusterInv
<1>1. /\ boot' \in [Node -> Nat \ {0}]
      /\ boot'[n] = boot[n] + 1
      /\ \A m \in Node : m # n => boot'[m] = boot[m]
  BY <1>0 DEF Restart, ClusterTypes
<1>2. /\ produced' \in [Node -> Numbers]
      /\ \A m \in Node : m # n => produced'[m] = produced[m]
  <2>1. \A k \in Kind : Cardinality({x \in Item : KindOf(x) = k /\ seq[n][x] # 0}) \in Nat
    BY ItemsFinite, Zenon
  <2> QED
    BY <2>1, <1>0, Zenon DEF Restart, ClusterTypes, Numbers
<1>3. /\ peer' \in [Node -> [Node -> PeerRecord]]
      /\ \A p \in Node : peer'[n][p] = NoPeer
      /\ \A m \in Node : m # n => peer'[m] = peer[m]
  BY <1>0, NoPeerType, Zenon DEF Restart, ClusterTypes
<1>4. /\ seen' \in [Node -> [Node -> [boot : Nat, produced : Numbers]]]
      /\ \A p \in Node : seen'[n][p] = Unseen
      /\ \A m \in Node : m # n => seen'[m] = seen[m]
  <2>1. Unseen \in [boot : Nat, produced : Numbers]
    BY Zenon DEF Unseen, Numbers
  <2> QED
    BY <1>0, <2>1, Zenon DEF Restart, ClusterTypes
<1>5. /\ upd' \in [Node -> [p : Node \cup {NoValue}, todo : SUBSET Item]]
      /\ upd'[n] = NoUpdate
      /\ \A m \in Node : m # n => upd'[m] = upd[m]
  <2>1. NoUpdate \in [p : Node \cup {NoValue}, todo : SUBSET Item]
    BY Zenon DEF NoUpdate
  <2> QED
    BY <1>0, <2>1, Zenon DEF Restart, ClusterTypes
<1>6. /\ job' \in [Node -> [Node -> Job \cup {NoValue}]]
      /\ \A p \in Node : job'[n][p] = NoValue
      /\ \A m \in Node : m # n => job'[m] = job[m]
  BY <1>0, Zenon DEF Restart, ClusterTypes
<1>7. UNCHANGED <<seq, gone, latest, knew>>
  BY Zenon DEF Restart, store
<1>8. ClusterTypes'
  BY <1>0, <1>1, <1>2, <1>3, <1>4, <1>5, <1>6, <1>7, Zenon DEF ClusterTypes
<1>9. VersionsKnown' /\ UpdOK'
  BY <1>5, <1>7, ClusterAssumption DEF ClusterInv, VersionsKnown, UpdOK, NoUpdate
<1>10. ASSUME NEW m \in Node, NEW p \in Node, m # p
       PROVE  PairOK(m, p)'
  <2>0. PairOK(m, p)
    BY <1>10, Zenon DEF ClusterInv
  <2>1. CASE m = n
    <3>1. /\ peer'[m][p] = NoPeer /\ job'[m][p] = NoValue /\ seen'[m][p] = Unseen
          /\ boot'[p] = boot[p] /\ produced'[p] = produced[p] /\ peer'[p] = peer[p]
          /\ upd'[p] = upd[p]
      BY <2>1, <1>10, <1>1, <1>2, <1>3, <1>4, <1>5, <1>6, Zenon
    <3>2. boot[p] \in Nat \ {0} /\ NoPeer.boot = 0 /\ Unseen.boot = 0
      BY <1>0, Zenon DEF ClusterTypes, NoPeer, Unseen
    <3>3. JobOK(m, p)' /\ BootOK(m, p)'
      BY <3>1, <3>2, SMTT(30) DEF JobOK, BootOK
    <3>4. NumbersOK(m, p)'
      BY <3>1, <3>2, <2>0, Zenon DEF PairOK, NumbersOK
    <3>5. QueuedAhead(m, p)'
      BY <3>1, <3>2, <2>0, <1>7, Zenon DEF PairOK, QueuedAhead, Ahead
    <3> QED
      BY <3>3, <3>4, <3>5, Zenon DEF PairOK
  <2>2. CASE p = n
    <3>1. /\ peer'[p][m] = NoPeer /\ boot'[p] = boot[p] + 1 /\ boot[p] \in Nat
          /\ peer'[m] = peer[m] /\ job'[m] = job[m] /\ seen'[m] = seen[m]
      BY <2>2, <1>10, <1>0, <1>1, <1>3, <1>4, <1>6, Zenon DEF ClusterTypes
    <3>2. NoPeer.boot = 0 /\ NoPeer.log = {}
      BY Zenon DEF NoPeer
    <3>3. /\ peer[m][p].boot \in Nat /\ peer[m][p].boot <= boot[p]
          /\ seen[m][p].boot = peer[m][p].boot
      BY <2>0, <1>0, PairTypes, RecordTypes, Zenon DEF PairOK, BootOK
    <3>4. job[m][p] # NoValue => job[m][p].of \in Nat /\ job[m][p].of <= peer[m][p].boot
      BY <2>0, <1>0, PairTypes, JobTypes, Zenon DEF PairOK, JobOK
    <3>5. JobOK(m, p)'
      BY <3>1, <2>0, <1>7, ZenonT(30) DEF PairOK, JobOK
    <3>6. BootOK(m, p)'
      BY <3>1, <3>3, <2>0, SMTT(30) DEF PairOK, BootOK
    <3>7. NumbersOK(m, p)'
      BY <3>1, <3>2, <3>3, <3>4, SMTT(30) DEF NumbersOK
    <3>8. QueuedAhead(m, p)'
      BY <3>1, <3>2, Zenon DEF QueuedAhead
    <3> QED
      BY <3>5, <3>6, <3>7, <3>8, Zenon DEF PairOK
  <2>3. CASE m # n /\ p # n
    <3>1. /\ peer'[p] = peer[p] /\ peer'[m] = peer[m] /\ job'[m] = job[m] /\ seen'[m] = seen[m]
          /\ boot'[p] = boot[p] /\ produced'[p] = produced[p] /\ upd'[p] = upd[p] /\ upd'[m] = upd[m]
      BY <2>3, <1>1, <1>2, <1>3, <1>4, <1>5, <1>6, Zenon
    <3>2. /\ \A k \in Kind : produced[p][k] \in Nat
          /\ \A x \in Item : latest[x] \in Nat
      BY <1>0, PairTypes, Zenon
    <3>3. Keeps(m, p)
      BY <3>1, <3>2, <1>7, SMTT(30) DEF Keeps, SameRecord
    <3>4. KeepsQueue(m, p)
      BY <3>1, <1>7, Zenon DEF KeepsQueue
    <3> QED
      BY <3>3, <3>4, <2>0, <1>0, <1>8, KeptPair, Zenon
  <2> QED
    BY <2>1, <2>2, <2>3, Zenon
<1> QED
  BY <1>8, <1>9, <1>10, Zenon DEF ClusterInv

\* A job with an answer is a job, and nothing else of it changes.
LEMMA RespSet ==
    ASSUME NEW J \in Job, NEW A \in SUBSET Reply
    PROVE  LET K == [J EXCEPT !.resp = A]
           IN /\ K \in Job
              /\ K.resp = A /\ K.part = J.part /\ K.todo = J.todo /\ K.of = J.of
BY Zenon DEF Job

\* An answer has one reply for every item queued up to the end asked for, with the
\* version that the sender holds.
LEMMA AnswerOK ==
    ASSUME ClusterTypes, NEW p \in Node, NEW L, NEW k \in Kind, NEW end,
           VersionsKnown
    PROVE  /\ Answer(p, L, k, end) \in SUBSET Reply
           /\ \A r, s \in Answer(p, L, k, end) : r.x = s.x => r = s
           /\ \A r \in Answer(p, L, k, end) : KindOf(r.x) = k /\ r.seq <= latest[r.x]
           /\ \A x \in Item : (/\ KindOf(x) = k /\ seq[p][x] # 0
                               /\ \E e \in L : e.x = x /\ e.q <= end)
                 => \E r \in Answer(p, L, k, end) : r.x = x /\ r.seq = seq[p][x]
<1> DEFINE X == {y \in Item : /\ KindOf(y) = k /\ seq[p][y] # 0
                              /\ \E e \in L : e.x = y /\ e.q <= end}
           reply(x) == [x |-> x, seq |-> seq[p][x], gone |-> x \in gone[p]]
<1>1. Answer(p, L, k, end) = {reply(x) : x \in X}
  BY Zenon DEF Answer
<1>2. \A x \in X : reply(x) \in Reply /\ reply(x).x = x /\ reply(x).seq = seq[p][x]
  BY DEF ClusterTypes, Reply
<1>3. \A x \in X : KindOf(x) = k /\ seq[p][x] <= latest[x]
  BY DEF ClusterTypes, VersionsKnown
<1>4. \A x \in Item : (/\ KindOf(x) = k /\ seq[p][x] # 0
                       /\ \E e \in L : e.x = x /\ e.q <= end) => x \in X
  BY Zenon
<1> HIDE DEF X, reply
<1>5. X \subseteq Item
  BY Zenon DEF X
<1>6. \A x \in Item : x \in X =>
         \E r \in Answer(p, L, k, end) : r.x = x /\ r.seq = seq[p][x]
  BY <1>1, <1>2, Zenon
<1>7. Answer(p, L, k, end) \in SUBSET Reply
  BY <1>1, <1>2, Zenon
<1>8. \A r, s \in Answer(p, L, k, end) : r.x = s.x => r = s
  BY <1>1, <1>2
<1>9. \A r \in Answer(p, L, k, end) : KindOf(r.x) = k /\ r.seq <= latest[r.x]
  BY <1>1, <1>2, <1>3, Zenon
<1> QED
  BY <1>4, <1>6, <1>7, <1>8, <1>9, Zenon

\* Answering a request preserves the invariant: only what the peer has confirmed is
\* dropped from its queue.
LEMMA ServeOK ==
    ASSUME ClusterInv, ~StaleJobs, NEW n \in Node, NEW p \in Node, n # p, Serve(n, p)
    PROVE  ClusterInv'
<1> DEFINE J == job[n][p]
           k == Stage(J)
           L == Kept(peer[p][n].log, k, J.part[k].prev)
           A == IF peer[p][n].known THEN Answer(p, L, k, J.part[k].end) ELSE {}
<1>0. ClusterTypes /\ VersionsKnown /\ PairOK(n, p)
  BY Zenon DEF ClusterInv
<1>1. J \in Job /\ J.todo # {} /\ J.resp = NoValue /\ J.of = boot[p] /\ k \in Kind /\ k \in J.todo
  <2>1. J # NoValue /\ J.todo # {} /\ J.resp = NoValue /\ J.of = boot[p]
    BY Zenon DEF Serve
  <2>2. J \in Job
    BY <2>1, <1>0, PairTypes, Zenon
  <2> QED
    BY <2>1, <2>2, StageOf, Zenon
<1>2. /\ A \in SUBSET Reply
      /\ \A r, s \in A : r.x = s.x => r = s
      /\ \A r \in A : KindOf(r.x) = k /\ r.seq <= latest[r.x]
      /\ peer[p][n].known =>
           \A x \in Item : (/\ KindOf(x) = k /\ seq[p][x] # 0
                            /\ \E e \in L : e.x = x /\ e.q <= J.part[k].end)
                 => \E r \in A : r.x = x /\ r.seq = seq[p][x]
  <2> HIDE DEF J, k, L
  <2>1. CASE peer[p][n].known
    <3> DEFINE end == J.part[k].end
    <3>1. A = Answer(p, L, k, end)
      BY <2>1, Zenon
    <3> HIDE DEF A, end
    <3>2. /\ Answer(p, L, k, end) \in SUBSET Reply
          /\ \A r, s \in Answer(p, L, k, end) : r.x = s.x => r = s
          /\ \A r \in Answer(p, L, k, end) : KindOf(r.x) = k /\ r.seq <= latest[r.x]
          /\ \A x \in Item : (/\ KindOf(x) = k /\ seq[p][x] # 0
                              /\ \E e \in L : e.x = x /\ e.q <= end)
                 => \E r \in Answer(p, L, k, end) : r.x = x /\ r.seq = seq[p][x]
      BY <1>0, <1>1, AnswerOK, SMTT(30)
    <3> QED
      BY <3>1, <3>2, Zenon DEF end
  <2>2. CASE ~peer[p][n].known
    BY <2>2, Zenon
  <2> QED
    BY <2>1, <2>2, Zenon
<1>3. UNCHANGED <<store, boot, produced, seen, upd>>
  BY Zenon DEF Serve
<1>4. /\ job' = [job EXCEPT ![n][p].resp = A]
      /\ peer' = IF peer[p][n].known THEN [peer EXCEPT ![p][n].log = L] ELSE peer
  BY Zenon DEF Serve
<1> HIDE DEF J, k, L, A
<1>5. /\ job' \in [Node -> [Node -> Job \cup {NoValue}]]
      /\ job'[n][p] = [J EXCEPT !.resp = A] /\ job'[n][p] \in Job
      /\ \A a, b \in Node : (a # n \/ b # p) => job'[a][b] = job[a][b]
  <2>1. [J EXCEPT !.resp = A] \in Job
    BY <1>1, <1>2, RespSet, Zenon
  <2>2. job' = [job EXCEPT ![n] = [job[n] EXCEPT ![p] = [J EXCEPT !.resp = A]]]
    BY <1>4, Zenon DEF J
  <2> QED
    BY <2>1, <2>2, <1>0, Zenon DEF ClusterTypes
<1>6. /\ job'[n][p].resp = A /\ job'[n][p].part = J.part /\ job'[n][p].todo = J.todo
      /\ job'[n][p].of = J.of
  BY <1>1, <1>2, <1>5, RespSet
<1>7. /\ peer' \in [Node -> [Node -> PeerRecord]]
      /\ \A a, b \in Node : SameRecord(peer'[a][b], peer[a][b])
      /\ \A a, b \in Node : (a # p \/ b # n) => peer'[a][b].log = peer[a][b].log
      /\ peer'[p][n].log = IF peer[p][n].known THEN L ELSE peer[p][n].log
  <2>1. CASE ~peer[p][n].known
    BY <2>1, <1>4, <1>0, Zenon DEF ClusterTypes, SameRecord
  <2>2. CASE peer[p][n].known
    <3> DEFINE T == [peer[p][n] EXCEPT !.log = L]
    <3>1. peer' = [peer EXCEPT ![p] = [peer[p] EXCEPT ![n] = T]]
      BY <2>2, <1>4, Zenon
    <3>2. peer[p][n] \in PeerRecord /\ L \in SUBSET Change
      <4>1. peer[p][n] \in PeerRecord
        BY <1>0, PairTypes, Zenon
      <4>2. peer[p][n].log \in SUBSET Change
        BY <4>1, Zenon DEF PeerRecord
      <4> QED
        BY <4>1, <4>2, Zenon DEF L, Kept
    <3>3. T \in PeerRecord /\ T.log = L /\ SameRecord(T, peer[p][n])
      BY <3>2, LogSet DEF SameRecord
    <3> HIDE DEF T
    <3>4. /\ peer' \in [Node -> [Node -> PeerRecord]]
          /\ peer'[p][n] = T
          /\ \A a, b \in Node : (a # p \/ b # n) => peer'[a][b] = peer[a][b]
      BY <3>1, <3>3, <1>0, Zenon DEF ClusterTypes
    <3> QED
      BY <3>3, <3>4, <2>2 DEF SameRecord
  <2> QED
    BY <2>1, <2>2, Zenon
<1>8. ClusterTypes'
  BY <1>0, <1>3, <1>5, <1>7, Zenon DEF ClusterTypes, store
<1>9. VersionsKnown' /\ UpdOK'
  BY <1>3, Zenon DEF ClusterInv, VersionsKnown, UpdOK, store
<1>10. PairOK(n, p)'
  <2>1. peer[n][p].boot = boot[p] /\ J.of = peer[n][p].boot
    <3>1. J.of <= peer[n][p].boot /\ peer[n][p].boot <= boot[p]
      BY <1>0, <1>1, <1>4, Zenon DEF PairOK, JobOK, BootOK, J, Serve
    <3> QED
      BY <3>1, <1>1, <1>0, PairTypes, RecordTypes
  <2>2. /\ peer'[n][p].boot = peer[n][p].boot /\ peer'[n][p].fetched = peer[n][p].fetched
        /\ peer'[n][p].available = peer[n][p].available /\ (peer[n][p].known => peer'[n][p].known)
        /\ peer'[p][n].boot = peer[p][n].boot /\ peer'[p][n].log \subseteq peer[p][n].log
    BY <1>7 DEF SameRecord, L, Kept
  <2>3. Stage(job'[n][p]) = k
    BY <1>6, StageSame, ZenonT(30) DEF k
  <2>4. JobOK(n, p)'
    BY <1>2, <1>3, <1>6, <2>1, <2>2, <2>3, <1>0, PairTypes, RecordTypes, SMTT(30) DEF JobOK, store
  <2>5. BootOK(n, p)'
    BY <2>2, <1>0, <1>3, Zenon DEF PairOK, BootOK
  <2>6. NumbersOK(n, p)'
    <3>1. J # NoValue
      BY Zenon DEF Serve, J
    <3> QED
      BY <3>1, <2>2, <1>0, <1>3, <1>6, Zenon DEF PairOK, NumbersOK, J
  <2>7. QueuedAhead(n, p)'
    <3> SUFFICES ASSUME peer'[p][n].boot # 0, NEW x \in Item, seq'[p][x] > knew'[n][x],
                        ~(upd'[p].p = n /\ x \in upd'[p].todo)
                 PROVE  \E e \in peer'[p][n].log : e.x = x /\ Ahead(n, p, x, e.q)'
      BY ZenonT(30) DEF QueuedAhead
    <3>0. /\ peer[p][n].boot # 0 /\ peer[p][n].known /\ seq[p][x] > knew[n][x]
          /\ seq[p][x] # 0
      BY <2>2, <1>0, <1>3, PairTypes DEF store, ClusterInv, PairOK, BootOK
    <3>1. PICK e \in peer[p][n].log : e.x = x /\ Ahead(n, p, x, e.q)
      BY <3>0, <1>0, <1>3, Zenon DEF PairOK, QueuedAhead
    <3>2. J # NoValue
      BY Zenon DEF Serve, J
    <3>3. e.q > J.part[KindOf(x)].prev
      BY <3>1, <3>2, <1>1, Zenon DEF Ahead, J
    <3>4. e \in L
      BY <3>1, <3>3, Zenon DEF L, Kept
    <3>5. KindOf(x) = k => e.q > J.part[k].end \/ \E r \in A : r.x = x /\ r.seq >= seq[p][x]
      <4> SUFFICES ASSUME KindOf(x) = k, ~(e.q > J.part[k].end)
                   PROVE  \E r \in A : r.x = x /\ r.seq >= seq[p][x]
        BY Zenon
      <4>1. e.q <= J.part[k].end
        BY <1>1, JobTypes, <1>0, PairTypes, RecordTypes
      <4>2. \E r \in A : r.x = x /\ r.seq = seq[p][x]
        BY <4>1, <3>0, <3>1, <3>4, <1>2, ZenonT(30)
      <4> QED
        BY <4>2, <1>0, SMTT(30) DEF ClusterTypes
    <3>6. Ahead(n, p, x, e.q)'
      BY <3>1, <3>2, <3>5, <1>1, <1>3, <1>6, <2>2, <2>3, Zenon DEF Ahead, J, store
    <3> QED
      BY <3>0, <3>1, <3>4, <3>6, <1>7, Zenon
  <2> QED
    BY <2>4, <2>5, <2>6, <2>7, Zenon DEF PairOK
<1>11. ASSUME NEW a \in Node, NEW b \in Node, a # b, ~(a = n /\ b = p)
       PROVE  PairOK(a, b)'
  <2>1. /\ SameRecord(peer'[a][b], peer[a][b])
        /\ peer'[b][a].log = peer[b][a].log /\ peer'[b][a].boot = peer[b][a].boot
        /\ job'[a][b] = job[a][b] /\ seen'[a][b] = seen[a][b]
    BY <1>11, <1>3, <1>5, <1>7 DEF SameRecord
  <2>2. PairOK(a, b)
    BY <1>11, Zenon DEF ClusterInv
  <2> QED
    BY <2>1, <2>2, <1>3, <1>8, OtherPairs, Zenon
<1> QED
  BY <1>8, <1>9, <1>10, <1>11, Zenon DEF ClusterInv

\* A job that has pulled one kind keeps its numbers.
LEMMA PulledOK ==
    ASSUME NEW J \in Job, NEW k \in Kind, NEW r \in Batch, NEW s \in BOOLEAN
    PROVE  LET K == Pulled(J, k, r, s)
           IN /\ K \in Job /\ K.resp = NoValue /\ K.of = J.of
              /\ \A j \in Kind : /\ K.part[j].prev = J.part[j].prev
                                 /\ K.part[j].end = J.part[j].end
                                 /\ j # k => K.part[j].success = J.part[j].success
              /\ K.part[k].success = s
<1> DEFINE P == [J.part[k] EXCEPT !.batch = r, !.success = s]
           K == [J EXCEPT !.todo = J.todo \ {k}, !.resp = NoValue, !.part[k] = P]
<1>1. P \in Part /\ P.prev = J.part[k].prev /\ P.end = J.part[k].end /\ P.success = s
  BY Zenon DEF Job, Part
<1> HIDE DEF P
<1>2. K \in Job /\ K.resp = NoValue /\ K.of = J.of /\ K.part = [J.part EXCEPT ![k] = P]
  BY <1>1, Zenon DEF Job
<1>3. J.part \in [Kind -> Part]
  BY Zenon DEF Job
<1>4. /\ K.part[k] = P
      /\ \A j \in Kind : j # k => K.part[j] = J.part[j]
  BY <1>2, <1>3, Zenon
<1>5. Pulled(J, k, r, s) = K
  BY Zenon DEF Pulled, P
<1> HIDE DEF K
<1> QED
  BY <1>1, <1>2, <1>4, <1>5, Zenon

\* A failed fetch preserves the invariant.
LEMMA FailedOK ==
    ASSUME ClusterInv, NEW n \in Node, NEW p \in Node, n # p, Failed(n, p)
    PROVE  ClusterInv'
<1> DEFINE J == job[n][p]
           k == Stage(J)
<1>0. ClusterTypes /\ PairOK(n, p)
  BY Zenon DEF ClusterInv
<1>1. PICK r \in {0, -1} :
         job' = [job EXCEPT ![n][p] = Pulled(J, k, r, FALSE)]
  BY Zenon DEF Failed
<1>2. J # NoValue /\ J \in Job /\ k \in Kind
  <2>1. J # NoValue /\ J.todo # {}
    BY Zenon DEF Failed
  <2>2. J \in Job
    BY <2>1, <1>0, PairTypes, Zenon
  <2> QED
    BY <2>1, <2>2, StageOf, Zenon
<1>3. UNCHANGED <<store, boot, produced, peer, seen, upd>>
  BY Zenon DEF Failed
<1> DEFINE K == Pulled(J, k, r, FALSE)
<1>4. job' = [job EXCEPT ![n][p] = K]
  BY <1>1, Zenon
<1> HIDE DEF J, k
<1>5. /\ K \in Job /\ K.resp = NoValue /\ K.of = J.of
      /\ \A j \in Kind : /\ K.part[j].prev = J.part[j].prev
                         /\ K.part[j].end = J.part[j].end
                         /\ j # k => K.part[j].success = J.part[j].success
      /\ K.part[k].success = FALSE
  <2>1. PICK s \in BOOLEAN : s = FALSE
    BY Zenon
  <2>2. K = Pulled(J, k, r, s)
    BY <2>1, Zenon
  <2> HIDE DEF K
  <2>3. /\ K \in Job /\ K.resp = NoValue /\ K.of = J.of
        /\ \A j \in Kind : /\ K.part[j].prev = J.part[j].prev
                           /\ K.part[j].end = J.part[j].end
                           /\ j # k => K.part[j].success = J.part[j].success
        /\ K.part[k].success = s
    <3>1. r \in Batch
      BY BatchIs, Zenon
    <3> QED
      BY <2>2, <3>1, <1>2, PulledOK
  <2> QED
    BY <2>1, <2>3, Zenon
<1> HIDE DEF K
<1>6. /\ job' \in [Node -> [Node -> Job \cup {NoValue}]]
      /\ job'[n][p] = K
      /\ \A a, b \in Node : (a # n \/ b # p) => job'[a][b] = job[a][b]
  BY <1>0, <1>4, <1>5, Zenon DEF ClusterTypes
<1>7. ClusterTypes'
  BY <1>0, <1>3, <1>6, Zenon DEF ClusterTypes, store
<1>8. VersionsKnown' /\ UpdOK'
  BY <1>3, Zenon DEF ClusterInv, VersionsKnown, UpdOK, store
<1>9. PairOK(n, p)'
  <2>1. JobOK(n, p)'
    BY <1>0, <1>2, <1>3, <1>5, <1>6, Zenon DEF PairOK, JobOK, GotSome, J
  <2>2. BootOK(n, p)'
    BY <1>0, <1>3, Zenon DEF PairOK, BootOK
  <2>3. NumbersOK(n, p)'
    BY <1>0, <1>2, <1>3, <1>5, <1>6, Zenon DEF PairOK, NumbersOK, J
  <2>4. QueuedAhead(n, p)'
    <3>1. ASSUME NEW x \in Item, NEW q, Ahead(n, p, x, q)
          PROVE  Ahead(n, p, x, q)'
      BY <3>1, <1>2, <1>3, <1>5, <1>6, KindOfItem, Zenon DEF Ahead, J, store
    <3> QED
      BY <3>1, <1>0, <1>3, Zenon DEF PairOK, QueuedAhead, store
  <2> QED
    BY <2>1, <2>2, <2>3, <2>4, Zenon DEF PairOK
<1>10. ASSUME NEW a \in Node, NEW b \in Node, a # b, ~(a = n /\ b = p)
       PROVE  PairOK(a, b)'
  <2>1. SameRecord(peer'[a][b], peer[a][b]) /\ job'[a][b] = job[a][b]
    BY <1>10, <1>3, <1>6, Zenon DEF SameRecord
  <2>2. PairOK(a, b)
    BY <1>10, Zenon DEF ClusterInv
  <2> QED
    BY <2>1, <2>2, <1>3, <1>7, OtherPairs, ZenonT(30)
<1> QED
  BY <1>7, <1>8, <1>9, <1>10, Zenon DEF ClusterInv

\* Applying an answer preserves the invariant: what the job then counts as fetched is
\* held, in the version answered or a newer one.
LEMMA ApplyOK ==
    ASSUME ClusterInv, NEW n \in Node, NEW p \in Node, n # p, Apply(n, p)
    PROVE  ClusterInv'
<1> DEFINE J == job[n][p]
           k == Stage(J)
           Newer == {r \in J.resp : r.seq > seq[n][r.x]}
           X == {r.x : r \in Newer}
           Got(x) == CHOOSE r \in Newer : r.x = x
           held == [x \in Item |-> IF x \in X THEN Got(x).seq ELSE seq[n][x]]
           ever == [x \in Item |-> IF x \in X /\ Got(x).seq > knew[n][x]
                                  THEN Got(x).seq ELSE knew[n][x]]
           K == Pulled(J, k, Cardinality(J.resp), TRUE)
<1>0. ClusterTypes /\ VersionsKnown /\ PairOK(n, p)
  BY Zenon DEF ClusterInv
<1>1. /\ J # NoValue /\ J \in Job /\ J.resp # NoValue /\ k \in Kind
      /\ J.resp \in SUBSET Reply
  <2>1. J # NoValue /\ J.todo # {} /\ J.resp # NoValue
    BY Zenon DEF Apply
  <2>2. J \in Job
    BY <2>1, <1>0, PairTypes, Zenon
  <2>3. J.resp \in SUBSET Reply
    BY <2>1, <2>2, Zenon DEF Job
  <2> QED
    BY <2>1, <2>2, <2>3, StageOf, Zenon
<1>2. /\ seq' = [seq EXCEPT ![n] = held]
      /\ knew' = [knew EXCEPT ![n] = ever]
      /\ gone' = [gone EXCEPT ![n] = (@ \ X) \cup {x \in X : Got(x).gone}]
      /\ MarkAll(n, k, X, Node)
      /\ job' = [job EXCEPT ![n][p] = K]
      /\ UNCHANGED <<boot, seen, upd, latest>>
  BY Zenon DEF Apply
<1>3. /\ \A r, s \in J.resp : r.x = s.x => r = s
      /\ \A r \in J.resp : KindOf(r.x) = k /\ r.seq <= latest[r.x]
      /\ J.of = peer[n][p].boot
  BY <1>0, <1>1, Zenon DEF PairOK, JobOK, GotSome
<1>4. /\ \A r \in J.resp : r.x \in Item /\ r.seq \in Nat
      /\ X \in SUBSET Item
      /\ \A x \in X : KindOf(x) = k
  BY <1>1, <1>3 DEF Reply
<1>5. \A x \in X : /\ Got(x) \in J.resp /\ Got(x).x = x /\ Got(x).seq > seq[n][x]
                   /\ Got(x).seq \in Nat /\ Got(x).seq <= latest[x]
  <2> SUFFICES ASSUME NEW x \in X
               PROVE  /\ Got(x) \in J.resp /\ Got(x).x = x /\ Got(x).seq > seq[n][x]
                      /\ Got(x).seq \in Nat /\ Got(x).seq <= latest[x]
    BY ZenonT(30)
  <2>1. \E r \in Newer : r.x = x
    BY Zenon
  <2>2. Got(x) \in Newer /\ Got(x).x = x
    BY <2>1, Zenon
  <2> QED
    BY <2>2, <1>3, <1>4, ZenonT(30)
<1>6. \A r \in J.resp : r.x \notin X => r.seq <= seq[n][r.x]
  <2> SUFFICES ASSUME NEW r \in J.resp, ~(r.seq <= seq[n][r.x])
               PROVE  r.x \in X
    BY Zenon
  <2>1. r.seq \in Nat /\ r.x \in Item /\ seq[n][r.x] \in Nat
    BY <1>4, <1>0 DEF ClusterTypes
  <2> QED
    BY <2>1
<1> HIDE DEF J, k, Newer, Got
<1>19. ASSUME NEW x \in Item
       PROVE  /\ held[x] \in Nat /\ ever[x] \in Nat /\ latest[x] \in Nat /\ knew[n][x] \in Nat
              /\ held[x] <= ever[x] /\ knew[n][x] <= ever[x] /\ ever[x] <= latest[x]
              /\ x \in X => held[x] = Got(x).seq
              /\ x \notin X => held[x] = seq[n][x]
  <2> HIDE DEF X
  <2>1. /\ seq[n][x] \in Nat /\ knew[n][x] \in Nat /\ latest[x] \in Nat
        /\ seq[n][x] <= knew[n][x] /\ knew[n][x] <= latest[x]
    BY <1>0 DEF ClusterTypes, VersionsKnown
  <2>2. CASE x \in X
    <3>1. Got(x).seq \in Nat /\ Got(x).seq <= latest[x] /\ held[x] = Got(x).seq
      BY <2>2, <1>5, Zenon
    <3>2. CASE Got(x).seq > knew[n][x]
      <4>1. ever[x] = Got(x).seq
        BY <2>2, <3>2, Zenon
      <4> HIDE DEF held, ever
      <4> QED
        BY <2>1, <3>1, <3>2, <4>1, <2>2
    <3>3. CASE ~(Got(x).seq > knew[n][x])
      <4>1. ever[x] = knew[n][x]
        BY <2>2, <3>3, Zenon
      <4> HIDE DEF held, ever
      <4> QED
        BY <2>1, <3>1, <3>3, <4>1, <2>2
    <3> QED
      BY <3>2, <3>3, Zenon
  <2>3. CASE x \notin X
    <3>1. held[x] = seq[n][x] /\ ever[x] = knew[n][x]
      BY <2>3, Zenon
    <3> HIDE DEF held, ever
    <3> QED
      BY <2>1, <2>3, <3>1
  <2> QED
    BY <2>2, <2>3, Zenon
<1>20. held = [x \in Item |-> held[x]] /\ ever = [x \in Item |-> ever[x]]
  BY Zenon
<1>7. MarkedFor(n, k, X, Node)
  <2>1. MarkAll(n, k, X, Node)
    BY <1>2, Zenon
  <2> HIDE DEF X
  <2> QED
    BY <1>0, <1>1, <1>4, <2>1, Marked, Zenon
<1> HIDE DEF X, held, ever
<1>8. /\ K \in Job /\ K.resp = NoValue /\ K.of = J.of
      /\ \A j \in Kind : /\ K.part[j].prev = J.part[j].prev
                         /\ K.part[j].end = J.part[j].end
                         /\ j # k => K.part[j].success = J.part[j].success
      /\ K.part[k].success = TRUE
  <2>1. Cardinality(J.resp) \in Batch
    BY <1>1, <1>3, BatchIs, Zenon DEF Job
  <2> QED
    BY <1>1, <2>1, PulledOK, Zenon
<1> HIDE DEF K
<1>9. /\ job' \in [Node -> [Node -> Job \cup {NoValue}]]
      /\ job'[n][p] = K
      /\ \A a, b \in Node : (a # n \/ b # p) => job'[a][b] = job[a][b]
  BY <1>0, <1>2, <1>8, Zenon DEF ClusterTypes
<1>10. /\ seq' \in [Node -> [Item -> Nat]] /\ knew' \in [Node -> [Item -> Nat]]
       /\ \A m \in Node : m # n => seq'[m] = seq[m] /\ knew'[m] = knew[m]
       /\ seq'[n] = held /\ knew'[n] = ever
  <2>1. held \in [Item -> Nat] /\ ever \in [Item -> Nat]
    BY <1>19, <1>20, Zenon
  <2> QED
    BY <2>1, <1>0, <1>2, Zenon DEF ClusterTypes
<1>11. gone' \in [Node -> SUBSET Item]
  BY <1>0, <1>2, <1>4, Zenon DEF ClusterTypes
<1>12. ClusterTypes'
  BY <1>0, <1>2, <1>7, <1>9, <1>10, <1>11, ZenonT(30) DEF ClusterTypes, MarkedFor
<1>13. \A x \in Item : /\ seq'[n][x] <= knew'[n][x] /\ knew'[n][x] <= latest[x]
                       /\ knew[n][x] <= knew'[n][x]
                       /\ latest[x] \in Nat /\ knew[n][x] \in Nat /\ knew'[n][x] \in Nat
  BY <1>10, <1>19, Zenon
<1>14. VersionsKnown'
  BY <1>2, <1>10, <1>12, <1>13, Versions
<1>15. UpdOK'
  BY <1>2, Zenon DEF ClusterInv, UpdOK
<1>16. ASSUME NEW a \in Node, NEW b \in Node
       PROVE  /\ SameRecord(peer'[a][b], peer[a][b])
              /\ seen'[a][b] = seen[a][b] /\ upd'[a].p = upd[a].p /\ upd'[b] = upd[b]
              /\ boot'[b] = boot[b]
              /\ \A j \in Kind : produced'[b][j] >= produced[b][j]
              /\ \A e \in peer'[b][a].log : e \in peer[b][a].log \/ e.q <= produced'[b][KindOf(e.x)]
              /\ \A x \in Item : latest'[x] >= latest[x]
              /\ peer'[b][a].boot = peer[b][a].boot /\ peer[b][a].log \subseteq peer'[b][a].log
  BY <1>2, <1>7, <1>13 DEF MarkedFor, SameRecord
<1>17. ASSUME NEW a \in Node, NEW b \in Node, a # b, ~(a = n /\ b = p)
       PROVE  PairOK(a, b)'
  <2>1. Keeps(a, b)
    BY <1>16, <1>17, <1>9, SMTT(30) DEF Keeps
  <2>2. KeepsQueue(a, b)
    <3>1. ASSUME peer[b][a].boot # 0, NEW x \in Item, seq'[b][x] > knew'[a][x]
          PROVE  \/ seq[b][x] > knew[a][x] /\ seq'[b][x] = seq[b][x]
                 \/ \E e \in peer'[b][a].log : e.x = x /\ e.q > produced[b][KindOf(x)]
      <4>1. CASE b = n /\ x \in X
        <5>1. peer[b][a].known
          BY <3>1, <1>17, Zenon DEF ClusterInv, PairOK, BootOK
        <5> QED
          BY <4>1, <5>1, <1>4, <1>7, Zenon DEF MarkedFor
      <4>2. CASE b = n /\ x \notin X
        <5>1. seq'[b][x] = seq[b][x] /\ knew'[a][x] = knew[a][x]
          BY <4>2, <1>10, <1>17, <1>19, Zenon
        <5> QED
          BY <5>1, <3>1, Zenon
      <4>3. CASE b # n
        <5>1. knew[a][x] <= knew'[a][x] /\ knew[a][x] \in Nat /\ knew'[a][x] \in Nat
          <6>1. knew[a][x] \in Nat /\ knew'[a][x] \in Nat
            BY <1>0, <1>12, SMTT(30) DEF ClusterTypes
          <6>2. CASE a = n
            BY <6>2, <1>13, Zenon
          <6>3. CASE a # n
            BY <6>1, <6>3, <1>10
          <6> QED
            BY <6>1, <6>2, <6>3, Zenon
        <5>2. seq'[b][x] = seq[b][x] /\ seq[b][x] \in Nat
          BY <4>3, <1>10, <1>0, Zenon DEF ClusterTypes
        <5> QED
          BY <5>1, <5>2, <3>1, SMTT(30)
      <4> QED
        BY <4>1, <4>2, <4>3, Zenon
    <3> QED
      BY <3>1, <1>16, Zenon DEF KeepsQueue
  <2> QED
    BY <2>1, <2>2, <1>0, <1>12, <1>17, KeptPair, ZenonT(30) DEF ClusterInv
<1>18. PairOK(n, p)'
  <2>1. /\ peer'[n][p].boot = peer[n][p].boot /\ peer'[n][p].fetched = peer[n][p].fetched
        /\ peer'[n][p].available = peer[n][p].available /\ (peer[n][p].known => peer'[n][p].known)
        /\ peer'[p][n].boot = peer[p][n].boot /\ peer'[p][n].log = peer[p][n].log
        /\ produced'[p] = produced[p] /\ seq'[p] = seq[p]
    BY <1>7, <1>10, Zenon DEF MarkedFor, SameRecord
  <2>2. JobOK(n, p)'
    BY <2>1, <1>0, <1>1, <1>3, <1>8, <1>9, Zenon DEF PairOK, JobOK, GotSome, J
  <2>3. BootOK(n, p)'
    BY <2>1, <1>0, <1>2, Zenon DEF PairOK, BootOK
  <2>4. NumbersOK(n, p)'
    BY <2>1, <1>0, <1>1, <1>2, <1>8, <1>9, ZenonT(30) DEF PairOK, NumbersOK, J
  <2>5. QueuedAhead(n, p)'
    <3> SUFFICES ASSUME peer'[p][n].boot # 0, NEW x \in Item, seq'[p][x] > knew'[n][x],
                        ~(upd'[p].p = n /\ x \in upd'[p].todo)
                 PROVE  \E e \in peer'[p][n].log : e.x = x /\ Ahead(n, p, x, e.q)'
      BY Zenon DEF QueuedAhead
    <3>1. seq[p][x] > knew[n][x]
      BY <2>1, <1>0, <1>13 DEF ClusterTypes
    <3>2. PICK e \in peer[p][n].log : e.x = x /\ Ahead(n, p, x, e.q)
      BY <3>1, <2>1, <1>0, <1>2, Zenon DEF PairOK, QueuedAhead
    <3>3. ASSUME J.of = boot[p], KindOf(x) = k
          PROVE  e.q > J.part[k].end
      <4> SUFFICES ASSUME NEW r \in J.resp, r.x = x, r.seq >= seq[p][x]
                   PROVE  FALSE
        BY <3>2, <3>3, <1>1, Zenon DEF Ahead, J, k
      <4>1. r.seq \in Nat /\ seq[p][x] \in Nat /\ seq[n][x] \in Nat
        BY <1>0, <1>4, SMTT(30) DEF ClusterTypes
      <4>2. r.seq <= seq'[n][x]
        <5>1. CASE x \in X
          <6>1. Got(x) = r
            BY <5>1, <1>3, <1>5, Zenon
          <6> QED
            BY <5>1, <6>1, <1>10, <1>19, <4>1, SMTT(30)
        <5>2. CASE x \notin X
          BY <5>2, <1>6, <1>10, <1>19, Zenon
        <5> QED
          BY <5>1, <5>2, Zenon
      <4>3. seq'[n][x] <= knew'[n][x] /\ knew'[n][x] \in Nat /\ seq'[n][x] \in Nat
        BY <1>13, <1>12, SMTT(30) DEF ClusterTypes
      <4> QED
        BY <4>1, <4>2, <4>3, <2>1, SMTT(30)
    <3>4. Ahead(n, p, x, e.q)'
      BY <3>2, <3>3, <2>1, <1>1, <1>2, <1>8, <1>9, KindOfItem, SMTT(30) DEF Ahead, J
    <3> QED
      BY <3>2, <3>4, <2>1, Zenon
  <2> QED
    BY <2>2, <2>3, <2>4, <2>5, Zenon DEF PairOK
<1> QED
  BY <1>12, <1>14, <1>15, <1>17, <1>18, Zenon DEF ClusterInv

\* A new job starts at what is fetched, or at 0, and ends within what is available.
LEMMA NewJobOK ==
    ASSUME NEW R \in PeerRecord
    PROVE  /\ NewJob(R) \in Job
           /\ NewJob(R).of = R.boot /\ NewJob(R).resp = NoValue
           /\ \A k \in Kind :
                /\ NewJob(R).part[k].success = FALSE
                /\ NewJob(R).part[k].prev \in {0, R.fetched[k]}
                /\ NewJob(R).part[k].end <= R.available[k]
<1>0. /\ R.boot \in Nat
      /\ \A k \in Kind : /\ R.fetched[k] \in Nat /\ R.available[k] \in Nat
                         /\ R.prev_fetched[k] \in Nat
  BY Zenon DEF PeerRecord, Numbers
<1>1. ASSUME NEW k \in Kind
      PROVE  /\ Interval(R, k) \in Part
             /\ Interval(R, k).success = FALSE
             /\ Interval(R, k).prev \in {0, R.fetched[k]}
             /\ Interval(R, k).end <= R.available[k]
  <2> DEFINE far == R.available[k] - R.fetched[k] > BatchSize
             end == IF far THEN R.fetched[k] + BatchSize ELSE R.available[k]
             done == R.prev_fetched[k] = end /\ R.last_batch[k] = 0
             pr == IF done THEN 0 ELSE R.fetched[k]
             en == IF done THEN 0 ELSE end
  <2>1. end \in Nat /\ end <= R.available[k]
    BY <1>0, ClusterAssumption
  <2> HIDE DEF end
  <2>2. /\ pr \in Nat /\ pr \in {0, R.fetched[k]}
        /\ en \in Nat /\ en <= R.available[k]
    BY <2>1, <1>0
  <2>3. Interval(R, k) = [prev |-> pr, end |-> en, batch |-> 0, success |-> FALSE]
    BY Zenon DEF Interval, end
  <2> HIDE DEF pr, en
  <2> QED
    BY <2>2, <2>3, BatchIs DEF Part
<1> DEFINE part == [k \in Kind |-> Interval(R, k)]
           todo == {k \in Kind : part[k].end # 0}
<1>2. /\ part \in [Kind -> Part]
      /\ \A k \in Kind : /\ part[k].success = FALSE
                         /\ part[k].prev \in {0, R.fetched[k]}
                         /\ part[k].end <= R.available[k]
  BY <1>1, Zenon
<1>3. todo \in SUBSET Kind
  BY Zenon
<1>4. NewJob(R) = [part |-> part, todo |-> todo, resp |-> NoValue, of |-> R.boot]
  BY Zenon DEF NewJob
<1> HIDE DEF part, todo
<1>5. NewJob(R) \in Job
  BY <1>0, <1>2, <1>3, <1>4 DEF Job
<1> QED
  BY <1>2, <1>4, <1>5

\* A record whose job starts is a record, and nothing else of it changes.
LEMMA InflightSet ==
    ASSUME NEW R \in PeerRecord, NEW b \in BOOLEAN
    PROVE  LET T == [R EXCEPT !.inflight = b]
           IN /\ T \in PeerRecord
              /\ T.log = R.log /\ T.known = R.known /\ T.boot = R.boot
              /\ T.fetched = R.fetched /\ T.available = R.available
BY Zenon DEF PeerRecord

\* possibly_start_job, on a record whose numbers are right, preserves the invariant.
LEMMA StartOK ==
    ASSUME ClusterInv, NEW n \in Node, NEW p \in Node, n # p, NEW R \in PeerRecord, NEW J0,
           PossiblyStart(n, p, R, J0),
           UNCHANGED <<store, boot, produced, seen>>,
           R.known = peer[n][p].known, R.boot = peer[n][p].boot, R.log = peer[n][p].log,
           J0 = job[n][p] \/ J0 = NoValue,
           R.boot = boot[p] => \A k \in Kind : /\ R.fetched[k] <= produced[p][k]
                                               /\ R.available[k] <= produced[p][k],
           \A x \in Item, q \in Nat : Ahead(n, p, x, q) =>
              (R.boot = boot[p] => q > R.fetched[KindOf(x)]),
           upd' \in [Node -> [p : Node \cup {NoValue}, todo : SUBSET Item]], UpdOK',
           \A m \in Node : upd'[m] # upd[m] => m = n /\ upd[n].p = p /\ upd[n].todo = {}
    PROVE  ClusterInv'
<1> DEFINE T == [R EXCEPT !.inflight = R.inflight \/ MustFetch(R)]
           J == IF MustFetch(R) THEN NewJob(R) ELSE J0
<1>0. ClusterTypes /\ PairOK(n, p)
  BY Zenon DEF ClusterInv
<1>1. peer' = [peer EXCEPT ![n][p] = T] /\ job' = [job EXCEPT ![n][p] = J]
  BY Zenon DEF PossiblyStart
<1>2. /\ T \in PeerRecord /\ T.log = R.log /\ T.known = R.known /\ T.boot = R.boot
      /\ T.fetched = R.fetched /\ T.available = R.available
  <2>1. (R.inflight \/ MustFetch(R)) \in BOOLEAN
    BY Zenon
  <2> QED
    BY <2>1, InflightSet, ZenonT(30)
<1>3. J = NewJob(R) \/ J = job[n][p] \/ J = NoValue
  BY Zenon
<1>4. /\ NewJob(R) \in Job
      /\ NewJob(R).of = R.boot /\ NewJob(R).resp = NoValue
      /\ \A k \in Kind :
           /\ NewJob(R).part[k].success = FALSE
           /\ NewJob(R).part[k].prev \in {0, R.fetched[k]}
           /\ NewJob(R).part[k].end <= R.available[k]
  BY NewJobOK, Zenon
<1>5. J \in Job \cup {NoValue}
  BY <1>3, <1>4, <1>0, PairTypes, SMTT(30)
<1> HIDE DEF T, J
<1>6. /\ peer' \in [Node -> [Node -> PeerRecord]] /\ peer'[n][p] = T
      /\ \A a, b \in Node : (a # n \/ b # p) => peer'[a][b] = peer[a][b]
  BY <1>0, <1>1, <1>2, Zenon DEF ClusterTypes
<1>7. /\ job' \in [Node -> [Node -> Job \cup {NoValue}]] /\ job'[n][p] = J
      /\ \A a, b \in Node : (a # n \/ b # p) => job'[a][b] = job[a][b]
  BY <1>0, <1>1, <1>5, Zenon DEF ClusterTypes
<1>8. ClusterTypes'
  BY <1>0, <1>6, <1>7, Zenon DEF ClusterTypes, store
<1>9. VersionsKnown'
  BY Zenon DEF ClusterInv, VersionsKnown, store
<1>10. PairOK(n, p)'
  <2>0. /\ peer'[p][n] = peer[p][n] /\ upd'[p] = upd[p]
        /\ peer'[n][p].boot = R.boot /\ peer'[n][p].known = R.known
        /\ peer'[n][p].fetched = R.fetched /\ peer'[n][p].available = R.available
    BY <1>2, <1>6, Zenon
  <2>1. JobOK(n, p)'
    <3>1. CASE J = NewJob(R)
      BY <3>1, <2>0, <1>4, <1>7, RecordTypes, SMTT(30) DEF JobOK
    <3>2. CASE J = job[n][p]
      BY <3>2, <2>0, <1>0, <1>7, Zenon DEF PairOK, JobOK, store
    <3>3. CASE J = NoValue
      BY <3>3, <1>7, Zenon DEF JobOK
    <3> QED
      BY <3>1, <3>2, <3>3, <1>3, ZenonT(30)
  <2>2. BootOK(n, p)'
    BY <2>0, <1>0, Zenon DEF PairOK, BootOK
  <2>3. NumbersOK(n, p)'
    <3>1. ASSUME NEW k \in Kind
          PROVE  /\ peer'[n][p].boot = boot'[p] =>
                      /\ peer'[n][p].fetched[k] <= produced'[p][k]
                      /\ peer'[n][p].available[k] <= produced'[p][k]
                 /\ (job'[n][p] # NoValue /\ job'[n][p].of = boot'[p]) =>
                      /\ job'[n][p].part[k].prev <= produced'[p][k]
                      /\ job'[n][p].part[k].end <= produced'[p][k]
      <4>1. peer'[n][p].boot = boot'[p] =>
                      /\ peer'[n][p].fetched[k] <= produced'[p][k]
                      /\ peer'[n][p].available[k] <= produced'[p][k]
        BY <2>0, Zenon
      <4>2. CASE J = NewJob(R)
        <5>1. /\ produced[p][k] \in Nat /\ R.available[k] \in Nat /\ R.fetched[k] \in Nat
              /\ NewJob(R).part[k].end \in Nat
          BY <1>0, <1>4, PairTypes, RecordTypes, JobTypes, ZenonT(30)
        <5>2. J.of = boot[p] => J.part[k].prev <= produced[p][k] /\ J.part[k].end <= produced[p][k]
          BY <4>2, <5>1, <1>4, SMTT(30)
        <5> QED
          BY <4>1, <5>2, <1>7, Zenon
      <4>3. CASE J = job[n][p]
        BY <4>1, <4>3, <1>0, <1>7, Zenon DEF PairOK, NumbersOK
      <4>4. CASE J = NoValue
        BY <4>1, <4>4, <1>7, Zenon
      <4> QED
        BY <4>2, <4>3, <4>4, <1>3, Zenon
    <3> QED
      BY <3>1, <2>0, <1>0, Zenon DEF PairOK, NumbersOK
  <2>4. QueuedAhead(n, p)'
    <3>1. ASSUME NEW x \in Item, NEW q \in Nat, q > 0, Ahead(n, p, x, q)
          PROVE  Ahead(n, p, x, q)'
      <4>1. peer'[n][p].boot = boot'[p] => q > peer'[n][p].fetched[KindOf(x)]
        BY <3>1, <2>0, ZenonT(30)
      <4>2. CASE J = NewJob(R)
        BY <4>1, <4>2, <3>1, <1>4, <1>7, KindOfItem, SMTT(30) DEF Ahead
      <4>3. CASE J = job[n][p]
        BY <4>1, <4>3, <3>1, <1>7, Zenon DEF Ahead, store
      <4>4. CASE J = NoValue
        BY <4>1, <4>4, <1>7, ZenonT(30) DEF Ahead
      <4> QED
        BY <4>2, <4>3, <4>4, <1>3, Zenon
    <3>2. \A e \in peer[p][n].log : e.q \in Nat /\ e.q > 0
      BY <1>0, PairTypes, RecordTypes, Zenon
    <3> SUFFICES ASSUME peer'[p][n].boot # 0, NEW x \in Item, seq'[p][x] > knew'[n][x],
                        ~(upd'[p].p = n /\ x \in upd'[p].todo)
                 PROVE  \E e \in peer'[p][n].log : e.x = x /\ Ahead(n, p, x, e.q)'
      BY Zenon DEF QueuedAhead
    <3>3. PICK e \in peer[p][n].log : e.x = x /\ Ahead(n, p, x, e.q)
      BY <2>0, <1>0, Zenon DEF PairOK, QueuedAhead, store
    <3>4. Ahead(n, p, x, e.q)'
      BY <3>1, <3>2, <3>3, Zenon
    <3> QED
      BY <3>3, <3>4, <2>0, ZenonT(30)
  <2> QED
    BY <2>1, <2>2, <2>3, <2>4, ZenonT(30) DEF PairOK
<1>11. ASSUME NEW a \in Node, NEW b \in Node, a # b, ~(a = n /\ b = p)
       PROVE  PairOK(a, b)'
  <2>1. /\ SameRecord(peer'[a][b], peer[a][b]) /\ job'[a][b] = job[a][b]
        /\ peer'[b][a].log = peer[b][a].log /\ peer'[b][a].boot = peer[b][a].boot
    BY <1>11, <1>2, <1>6, <1>7, Zenon DEF SameRecord
  <2>2. /\ upd'[a].p # b => upd[a].p # b
        /\ (upd[b].p = a /\ upd[b].todo # {}) => upd'[b] = upd[b]
    BY <1>11, ZenonT(30)
  <2>3. PairOK(a, b)
    BY <1>11, Zenon DEF ClusterInv
  <2> QED
    BY <2>1, <2>2, <2>3, <1>8, OtherPairs, Zenon
<1> QED
  BY <1>8, <1>9, <1>10, <1>11, Zenon DEF ClusterInv

\* The completion of a job preserves the invariant: what is counted as fetched was
\* answered and applied.
LEMMA JobDoneOK ==
    ASSUME ClusterInv, ~StaleJobs, NEW n \in Node, NEW p \in Node, n # p, JobDone(n, p)
    PROVE  ClusterInv'
<1> DEFINE J == job[n][p]
           O == peer[n][p]
           pf == [k \in Kind |-> IF J.part[k].success /\ J.part[k].prev # 0
                                 THEN J.part[k].prev ELSE O.prev_fetched[k]]
           fe == [k \in Kind |-> IF J.part[k].success /\ J.part[k].end # 0
                                 THEN J.part[k].end ELSE O.fetched[k]]
           lb == [k \in Kind |-> J.part[k].batch]
           R == [O EXCEPT !.inflight = FALSE, !.last_batch = lb, !.prev_fetched = pf, !.fetched = fe]
<1>0. ClusterTypes /\ PairOK(n, p) /\ O \in PeerRecord
  BY PairTypes, Zenon DEF ClusterInv
<1>1. J # NoValue /\ J \in Job /\ upd[n].p # p
  BY <1>0, PairTypes, Zenon DEF JobDone
<1>2. PossiblyStart(n, p, R, NoValue) /\ UNCHANGED <<store, boot, produced, seen, upd>>
  BY Zenon DEF JobDone
<1> HIDE DEF J, O
<1>3. J.part \in [Kind -> Part] /\ O.prev_fetched \in [Kind -> Nat] /\ O.fetched \in [Kind -> Nat]
  BY <1>0, <1>1, Zenon DEF Job, PeerRecord, Numbers
<1>4. pf \in Numbers /\ fe \in Numbers /\ lb \in [Kind -> Batch]
  BY <1>3 DEF Part, Numbers
<1>5. \A k \in Kind : fe[k] = IF J.part[k].success /\ J.part[k].end # 0
                              THEN J.part[k].end ELSE O.fetched[k]
  BY Zenon
<1> HIDE DEF pf, fe, lb
<1>6. /\ R \in PeerRecord /\ R.known = O.known /\ R.boot = O.boot /\ R.log = O.log
      /\ R.fetched = fe /\ R.available = O.available
  BY <1>0, <1>4, Zenon DEF PeerRecord
<1>7. \A k \in Kind : J.part[k].success => J.of = O.boot
  BY <1>0, <1>1, Zenon DEF PairOK, JobOK, GotSome, J, O
<1>8. ASSUME R.boot = boot[p], NEW k \in Kind
      PROVE  R.fetched[k] <= produced[p][k] /\ R.available[k] <= produced[p][k]
  <2>1. /\ O.fetched[k] <= produced[p][k] /\ O.available[k] <= produced[p][k]
        /\ J.of = boot[p] => J.part[k].end <= produced[p][k]
    BY <1>8, <1>0, <1>1, <1>6, Zenon DEF PairOK, NumbersOK, J, O
  <2> QED
    BY <2>1, <1>5, <1>6, <1>7, <1>8, Zenon
<1>9. ASSUME NEW x \in Item, NEW q \in Nat, Ahead(n, p, x, q), R.boot = boot[p]
      PROVE  q > R.fetched[KindOf(x)]
  <2>1. /\ q > O.fetched[KindOf(x)]
        /\ J.of = boot[p] /\ J.part[KindOf(x)].success => q > J.part[KindOf(x)].end
    BY <1>9, <1>1, <1>6, Zenon DEF Ahead, J, O
  <2> QED
    BY <2>1, <1>5, <1>6, <1>7, <1>9, KindOfItem, Zenon
<1> HIDE DEF R
<1>10. /\ upd' \in [Node -> [p : Node \cup {NoValue}, todo : SUBSET Item]]
       /\ UpdOK'
       /\ \A m \in Node : upd'[m] = upd[m]
  BY <1>0, <1>2, Zenon DEF ClusterInv, UpdOK, ClusterTypes
<1> QED
  BY <1>2, <1>6, <1>8, <1>9, <1>10, StartOK, Zenon DEF O

\* The end of update_peer preserves the invariant.
LEMMA UpdateEndOK ==
    ASSUME ClusterInv, NEW n \in Node, UpdateEnd(n)
    PROVE  ClusterInv'
<1> DEFINE p == upd[n].p
           O == peer[n][p]
           av == seen[n][p].produced
           R == [O EXCEPT !.available = av]
<1>0. ClusterTypes
  BY Zenon DEF ClusterInv
<1>1. upd[n] # NoUpdate /\ upd[n].todo = {} /\ upd' = [upd EXCEPT ![n] = NoUpdate]
  BY Zenon DEF UpdateEnd
<1>2. PossiblyStart(n, p, R, job[n][p]) /\ UNCHANGED <<store, boot, produced, seen>>
  BY Zenon DEF UpdateEnd
<1>3. p \in Node /\ p # n
  <2>1. p \in Node \cup {NoValue}
    BY <1>0, PairTypes, Zenon
  <2> QED
    BY <2>1, <1>1, Zenon DEF ClusterInv, UpdOK
<1>4. PairOK(n, p) /\ O \in PeerRecord /\ av \in Numbers
  BY <1>0, <1>3, PairTypes, Zenon DEF ClusterInv
<1> HIDE DEF p, O, av
<1>5. /\ R \in PeerRecord /\ R.known = O.known /\ R.boot = O.boot /\ R.log = O.log
      /\ R.fetched = O.fetched /\ R.available = av
  BY <1>4, Zenon DEF PeerRecord
<1>6. ASSUME R.boot = boot[p], NEW k \in Kind
      PROVE  R.fetched[k] <= produced[p][k] /\ R.available[k] <= produced[p][k]
  BY <1>6, <1>4, <1>5, Zenon DEF PairOK, BootOK, NumbersOK, O, av
<1>7. ASSUME NEW x \in Item, NEW q \in Nat, Ahead(n, p, x, q), R.boot = boot[p]
      PROVE  q > R.fetched[KindOf(x)]
  BY <1>7, <1>5, Zenon DEF Ahead, O
<1> HIDE DEF R
<1>8. /\ upd' \in [Node -> [p : Node \cup {NoValue}, todo : SUBSET Item]]
      /\ upd'[n] = NoUpdate
      /\ \A m \in Node : m # n => upd'[m] = upd[m]
  BY <1>0, <1>1, Zenon DEF ClusterTypes, NoUpdate
<1>9. UpdOK'
  BY <1>8, ClusterAssumption DEF ClusterInv, UpdOK, NoUpdate
<1>10. \A m \in Node : upd'[m] # upd[m] => m = n /\ upd[n].p = p /\ upd[n].todo = {}
  BY <1>1, <1>8, Zenon DEF p
<1> QED
  BY <1>2, <1>3, <1>5, <1>6, <1>7, <1>8, <1>9, <1>10, StartOK, Zenon DEF O

\* A record with a new boot time has fetched nothing and has an empty queue.
LEMMA RebornOK ==
    ASSUME NEW R \in PeerRecord, NEW b \in Nat
    PROVE  /\ Reborn(R, b) \in PeerRecord
           /\ Reborn(R, b).boot = b /\ Reborn(R, b).log = {}
           /\ Reborn(R, b).known = R.known
           /\ \A k \in Kind : Reborn(R, b).fetched[k] = 0
<1> DEFINE zero == [k \in Kind |-> 0]
<1>1. zero \in Numbers /\ \A k \in Kind : zero[k] = 0
  BY Zenon DEF Numbers
<1>2. Reborn(R, b) = [R EXCEPT !.boot = b, !.fetched = zero, !.prev_fetched = zero, !.log = {}]
  BY Zenon DEF Reborn
<1> HIDE DEF zero
<1> QED
  BY <1>1, <1>2, Zenon DEF PeerRecord

\* Taking a heartbeat preserves the invariant: a queue is emptied only for a rebuild
\* that is about to queue everything again.
LEMMA UpdateBeginOK ==
    ASSUME ClusterInv, ~StaleJobs, NEW n \in Node, NEW p \in Node, n # p, UpdateBegin(n, p)
    PROVE  ClusterInv'
<1> DEFINE A == Attached(n)
           reborn == A[p].boot # boot[p]
           T == IF reborn THEN Reborn(A[p], boot[p]) ELSE A[p]
           todo == IF reborn THEN {x \in Item : seq[n][x] # 0} ELSE {}
           beat == [boot |-> boot[p], produced |-> produced[p]]
<1>0. ClusterTypes /\ PairOK(n, p) /\ PairOK(p, n)
  BY Zenon DEF ClusterInv
<1>1. /\ upd[n] = NoUpdate
      /\ reborn => ~GotSome(job[n][p])
      /\ seen' = [seen EXCEPT ![n][p] = beat]
      /\ peer' = [peer EXCEPT ![n] = IF reborn THEN [A EXCEPT ![p] = Reborn(A[p], boot[p])] ELSE A]
      /\ upd' = [upd EXCEPT ![n] = [p |-> p, todo |-> todo]]
      /\ UNCHANGED <<store, boot, produced, job>>
  BY Zenon DEF UpdateBegin
<1>2. /\ A \in [Node -> PeerRecord]
      /\ \A q \in Node : q # n => /\ SameRecord(A[q], peer[n][q])
                                  /\ A[q].log = peer[n][q].log /\ A[q].known = TRUE
  BY <1>0, AttachedOK, Zenon
<1>3. boot[p] \in Nat \ {0} /\ produced[p] \in Numbers
  BY <1>0, PairTypes, Zenon
<1>4. todo \in SUBSET Item
  BY Zenon
<1> HIDE DEF A
<1>5. /\ T \in PeerRecord /\ T.known = TRUE /\ T.boot = boot[p]
      /\ reborn => T.log = {} /\ \A k \in Kind : T.fetched[k] = 0
      /\ ~reborn => T = A[p]
  <2>1. CASE reborn
    BY <2>1, <1>2, <1>3, RebornOK, SMTT(30)
  <2>2. CASE ~reborn
    BY <2>2, <1>2, Zenon
  <2> QED
    BY <2>1, <2>2, Zenon
<1>6. reborn <=> peer[n][p].boot # boot[p]
  BY <1>2, Zenon DEF SameRecord
<1>7. todo = IF reborn THEN {x \in Item : seq[n][x] # 0} ELSE {}
  BY Zenon
<1>8. peer'[n] = [A EXCEPT ![p] = T] /\ \A m \in Node : m # n => peer'[m] = peer[m]
  <2>1. CASE reborn
    BY <2>1, <1>0, <1>1, Zenon DEF ClusterTypes
  <2>2. CASE ~reborn
    <3>1. A = [A EXCEPT ![p] = A[p]]
      BY <1>2, Zenon
    <3> QED
      BY <2>2, <3>1, <1>0, <1>1, Zenon DEF ClusterTypes
  <2> QED
    BY <2>1, <2>2, Zenon
<1> HIDE DEF T, reborn, todo
<1>9. /\ peer' \in [Node -> [Node -> PeerRecord]]
      /\ peer'[n][p] = T
      /\ \A q \in Node : q # p => peer'[n][q] = A[q]
  <2>1. peer'[n] \in [Node -> PeerRecord]
    BY <1>2, <1>5, <1>8, Zenon
  <2>2. peer' = [m \in Node |-> peer'[m]]
    BY <1>0, <1>1, ZenonT(30) DEF ClusterTypes
  <2>3. \A m \in Node : peer'[m] \in [Node -> PeerRecord]
    BY <2>1, <1>0, <1>8, Zenon DEF ClusterTypes
  <2> QED
    BY <2>2, <2>3, <1>2, <1>8, Zenon
<1>10. /\ upd' \in [Node -> [p : Node \cup {NoValue}, todo : SUBSET Item]]
       /\ upd'[n].p = p /\ upd'[n].todo = todo
       /\ \A m \in Node : m # n => upd'[m] = upd[m]
       /\ upd[n].p = NoValue
  BY <1>0, <1>1, <1>4, SMTT(30) DEF ClusterTypes, NoUpdate
<1>11. /\ seen' \in [Node -> [Node -> [boot : Nat, produced : Numbers]]]
       /\ seen'[n][p].boot = boot[p] /\ seen'[n][p].produced = produced[p]
       /\ \A a, b \in Node : (a # n \/ b # p) => seen'[a][b] = seen[a][b]
  <2>1. beat \in [boot : Nat, produced : Numbers] /\ beat.boot = boot[p] /\ beat.produced = produced[p]
    BY <1>3, Zenon
  <2> HIDE DEF beat
  <2> QED
    BY <2>1, <1>0, <1>1, Zenon DEF ClusterTypes
<1>12. UNCHANGED <<seq, gone, latest, knew, boot, produced, job>>
  BY <1>1, Zenon DEF store
<1>13. ClusterTypes'
  BY <1>0, <1>9, <1>10, <1>11, <1>12, Zenon DEF ClusterTypes
<1>14. VersionsKnown' /\ UpdOK'
  BY <1>10, <1>12, ClusterAssumption, Zenon DEF ClusterInv, VersionsKnown, UpdOK
<1>15. ASSUME NEW a \in Node, NEW b \in Node, a # b, ~(a = n /\ b = p),
              (a = p /\ b = n) => ~reborn
       PROVE  PairOK(a, b)'
  <2>1. ASSUME NEW c \in Node, NEW d \in Node, c # d, c # n \/ d # p \/ ~reborn
        PROVE  SameRecord(peer'[c][d], peer[c][d]) /\ peer'[c][d].log = peer[c][d].log
    <3>1. CASE c # n
      BY <3>1, <1>8, Zenon DEF SameRecord
    <3>2. CASE c = n
      <4>1. peer'[n][d] = A[d]
        BY <2>1, <3>2, <1>5, <1>9, Zenon
      <4> QED
        BY <2>1, <3>2, <4>1, <1>2, Zenon
    <3> QED
      BY <3>1, <3>2, Zenon
  <2>2. /\ SameRecord(peer'[a][b], peer[a][b])
        /\ peer'[b][a].log = peer[b][a].log /\ peer'[b][a].boot = peer[b][a].boot
    <3>1. SameRecord(peer'[a][b], peer[a][b])
      BY <2>1, <1>15, Zenon
    <3>2. SameRecord(peer'[b][a], peer[b][a]) /\ peer'[b][a].log = peer[b][a].log
      BY <2>1, <1>15, Zenon
    <3> QED
      BY <3>1, <3>2, Zenon DEF SameRecord
  <2>3. /\ upd'[a].p # b => upd[a].p # b
        /\ (upd[b].p = a /\ upd[b].todo # {}) => upd'[b] = upd[b]
        /\ seen'[a][b] = seen[a][b]
    BY <1>10, <1>11, <1>15, ClusterAssumption
  <2>4. PairOK(a, b) /\ job'[a][b] = job[a][b]
    BY <1>12, <1>15, Zenon DEF ClusterInv
  <2> QED
    BY <2>2, <2>3, <2>4, <1>1, <1>13, OtherPairs, Zenon
<1>16. PairOK(n, p)'
  <2>1. peer'[p] = peer[p] /\ upd'[p] = upd[p]
    BY <1>8, <1>10, Zenon
  <2>2. /\ peer'[n][p].boot = boot[p] /\ peer'[n][p].known = TRUE
        /\ \A k \in Kind : peer'[n][p].fetched[k] =
              IF reborn THEN 0 ELSE peer[n][p].fetched[k]
    BY <1>2, <1>5, <1>9, ZenonT(30) DEF SameRecord
  <2>3. JobOK(n, p)'
    <3>1. peer[n][p].boot <= boot[p] /\ peer[n][p].boot \in Nat
      BY <1>0, PairTypes, RecordTypes, Zenon DEF PairOK, BootOK
    <3>2. job[n][p] # NoValue => job[n][p].of \in Nat
      BY <1>0, PairTypes, JobTypes, Zenon
    <3>3. reborn => ~GotSome(job[n][p])
      BY <1>1, ZenonT(30)
    <3> QED
      BY <3>1, <3>2, <3>3, <2>2, <1>0, <1>3, <1>6, <1>12, SMTT(30) DEF PairOK, JobOK
  <2>4. BootOK(n, p)'
    BY <2>2, <1>3, <1>11, <1>12, SMTT(30) DEF BootOK
  <2>5. NumbersOK(n, p)'
    <3>1. ASSUME NEW k \in Kind
          PROVE  produced[p][k] \in Nat /\ peer'[n][p].fetched[k] <= produced[p][k]
      <4>1. produced[p][k] \in Nat
        BY <1>0, PairTypes, Zenon
      <4> QED
        BY <4>1, <2>2, <1>0, <1>6, SMTT(30) DEF PairOK, NumbersOK
    <3> QED
      BY <3>1, <2>1, <1>0, <1>10, <1>11, <1>12, SMTT(30) DEF PairOK, NumbersOK
  <2>6. QueuedAhead(n, p)'
    <3> SUFFICES ASSUME peer'[p][n].boot # 0, NEW x \in Item, seq'[p][x] > knew'[n][x],
                        ~(upd'[p].p = n /\ x \in upd'[p].todo)
                 PROVE  \E e \in peer'[p][n].log : e.x = x /\ Ahead(n, p, x, e.q)'
      BY Zenon DEF QueuedAhead
    <3>1. PICK e \in peer[p][n].log : e.x = x /\ Ahead(n, p, x, e.q)
      BY <2>1, <1>0, <1>12, Zenon DEF PairOK, QueuedAhead
    <3>2. e.q \in Nat /\ e.q > 0
      BY <1>0, PairTypes, RecordTypes, Zenon
    <3>3. e.q > peer'[n][p].fetched[KindOf(x)]
      BY <3>1, <3>2, <2>2, <1>6, KindOfItem, Zenon DEF Ahead
    <3>4. Ahead(n, p, x, e.q)'
      BY <3>1, <3>3, <1>12, Zenon DEF Ahead
    <3> QED
      BY <3>1, <3>4, <2>1, Zenon
  <2> QED
    BY <2>3, <2>4, <2>5, <2>6, Zenon DEF PairOK
<1>17. ASSUME reborn
       PROVE  PairOK(p, n)'
  <2>1. /\ peer'[p] = peer[p] /\ upd'[p] = upd[p] /\ seen'[p][n] = seen[p][n]
        /\ peer'[n][p].log = {}
    BY <1>5, <1>8, <1>9, <1>10, <1>11, <1>17, Zenon
  <2>2. JobOK(p, n)' /\ BootOK(p, n)'
    BY <2>1, <1>0, <1>12, Zenon DEF PairOK, JobOK, BootOK
  <2>3. NumbersOK(p, n)'
    BY <2>1, <1>0, <1>12, Zenon DEF PairOK, NumbersOK
  <2>4. QueuedAhead(p, n)'
    <3>1. ASSUME NEW x \in Item, seq'[n][x] > knew'[p][x] PROVE x \in todo
      BY <3>1, <1>0, <1>7, <1>12, <1>17 DEF ClusterTypes
    <3> QED
      BY <3>1, <1>10, Zenon DEF QueuedAhead
  <2> QED
    BY <2>2, <2>3, <2>4, Zenon DEF PairOK
<1> QED
  BY <1>13, <1>14, <1>15, <1>16, <1>17, Zenon DEF ClusterInv

----------------------------------------------------------------------------
\* The invariant holds when no noitd knows another.
LEMMA ClusterInitOK ==
    ASSUME ClusterInit
    PROVE  ClusterInv
<1>1. ClusterTypes
  <2>1. /\ Unseen \in [boot : Nat, produced : Numbers]
        /\ NoUpdate \in [p : Node \cup {NoValue}, todo : SUBSET Item]
    BY Zenon DEF Unseen, NoUpdate, Numbers
  <2> QED
    BY <2>1, NoPeerType DEF ClusterInit, ClusterTypes, Numbers
<1>2. VersionsKnown /\ UpdOK
  BY ClusterAssumption, SMTT(30) DEF ClusterInit, VersionsKnown, UpdOK, NoUpdate
<1>3. ASSUME NEW n \in Node, NEW p \in Node
      PROVE  PairOK(n, p)
  <2>1. /\ peer[n][p] = NoPeer /\ peer[p][n] = NoPeer /\ job[n][p] = NoValue
        /\ seen[n][p] = Unseen /\ boot[p] = 1
    BY Zenon DEF ClusterInit
  <2>2. NoPeer.boot = 0 /\ NoPeer.log = {} /\ Unseen.boot = 0
    BY Zenon DEF NoPeer, Unseen
  <2> QED
    BY <2>1, <2>2 DEF PairOK, JobOK, BootOK, NumbersOK, QueuedAhead
<1> QED
  BY <1>1, <1>2, <1>3, Zenon DEF ClusterInv

\* Every step preserves the invariant, unless a job may outlive the incarnation of the
\* peer that its numbers are from.
LEMMA ClusterStepOK ==
    ASSUME ClusterInv, ~StaleJobs, [ClusterNext]_clusterVars
    PROVE  ClusterInv'
<1>1. ASSUME NEW n \in Node, NEW x \in Item, SetItem(n, x) PROVE ClusterInv'
  BY <1>1, SetItemOK, Zenon
<1>2. ASSUME NEW n \in Node, NEW x \in Check, DeleteItem(n, x) PROVE ClusterInv'
  BY <1>2, DeleteItemOK, Zenon
<1>3. ASSUME NEW n \in Node, NEW x \in Check, PurgeItem(n, x) PROVE ClusterInv'
  BY <1>3, PurgeItemOK, Zenon
<1>4. ASSUME NEW n \in Node, Restart(n) PROVE ClusterInv'
  BY <1>4, RestartOK, Zenon
<1>5. ASSUME NEW n \in Node, Attach(n) PROVE ClusterInv'
  BY <1>5, AttachOK, Zenon
<1>6. ASSUME NEW n \in Node, UpdateStep(n) PROVE ClusterInv'
  <2>1. CASE UpdateMark(n)
    BY <2>1, UpdateMarkOK, Zenon
  <2>2. CASE UpdateEnd(n)
    BY <2>2, UpdateEndOK, Zenon
  <2>3. ASSUME NEW p \in Node \ {n}, UpdateBegin(n, p) PROVE ClusterInv'
    BY <2>3, UpdateBeginOK, Zenon
  <2> QED
    BY <1>6, <2>1, <2>2, <2>3, Zenon DEF UpdateStep
<1>7. ASSUME NEW q \in Pairs, JobStep(q[1], q[2]) \/ FetchFails(q[1], q[2]) PROVE ClusterInv'
  <2>1. PICK n \in Node, p \in Node : n # p /\ n = q[1] /\ p = q[2]
    BY Zenon DEF Pairs
  <2>2. CASE Serve(n, p)
    BY <2>1, <2>2, ServeOK, Zenon
  <2>3. CASE Apply(n, p)
    BY <2>1, <2>3, ApplyOK, Zenon
  <2>4. CASE JobDone(n, p)
    BY <2>1, <2>4, JobDoneOK, Zenon
  <2>5. CASE Failed(n, p)
    BY <2>1, <2>5, FailedOK, Zenon
  <2> QED
    BY <1>7, <2>1, <2>2, <2>3, <2>4, <2>5, Zenon DEF JobStep, StaleFails, FetchFails
<1>8. CASE UNCHANGED clusterVars
  <2> USE <1>8 DEF clusterVars, store
  <2>1. ClusterTypes' /\ VersionsKnown' /\ UpdOK'
    BY Zenon DEF ClusterInv, ClusterTypes, VersionsKnown, UpdOK
  <2>2. ASSUME NEW n \in Node, NEW p \in Node, n # p
        PROVE  PairOK(n, p)'
    <3>1. PairOK(n, p)
      BY <2>2, Zenon DEF ClusterInv
    <3>2. JobOK(n, p)' /\ BootOK(n, p)'
      BY <3>1, Zenon DEF PairOK, JobOK, BootOK
    <3>3. NumbersOK(n, p)'
      BY <3>1, Zenon DEF PairOK, NumbersOK
    <3>4. ASSUME NEW x, NEW q, Ahead(n, p, x, q)
          PROVE  Ahead(n, p, x, q)'
      BY <3>4, Zenon DEF Ahead
    <3>5. QueuedAhead(n, p)'
      BY <3>1, <3>4, Zenon DEF PairOK, QueuedAhead
    <3> QED
      BY <3>2, <3>3, <3>5, Zenon DEF PairOK
  <2> QED
    BY <2>1, <2>2, Zenon DEF ClusterInv
<1> QED
  BY <1>1, <1>2, <1>3, <1>4, <1>5, <1>6, <1>7, <1>8, Zenon DEF ClusterNext

\* The invariant says more than Queued: not only is the change queued, its number is
\* one the peer will not skip.
LEMMA InvQueued == ClusterInv => Queued
<1> SUFFICES ASSUME ClusterInv, NEW n \in Node, NEW p \in Node, n # p, peer[p][n].boot # 0,
                    NEW x \in Item, seq[p][x] > knew[n][x],
                    ~(upd[p].p = n /\ x \in upd[p].todo)
             PROVE  x \in Queue(p, n)
  BY ZenonT(30) DEF Queued, Pairs
<1>1. PICK e \in peer[p][n].log : e.x = x
  BY SMTT(30) DEF ClusterInv, PairOK, QueuedAhead
<1> QED
  BY <1>1, Zenon DEF Queue

\* Nothing a peer still needs is dropped from its queue, for any number of noitds,
\* checks and filtersets and any bounds, if no job outlives the incarnation of the
\* peer that its numbers are from (noit_clustering.c:284, "First eat anything we know
\* they've seen").
THEOREM NothingNeededIsDropped == ~StaleJobs => (ClusterSpec => []Queued)
<1> SUFFICES ASSUME ~StaleJobs
             PROVE  ClusterSpec => []Queued
  BY Zenon
<1>1. ClusterInit => ClusterInv
  BY ClusterInitOK, Zenon
<1>2. ClusterInv /\ [ClusterNext]_clusterVars => ClusterInv'
  BY ClusterStepOK, Zenon
<1>3. ClusterInv => Queued
  BY InvQueued, Zenon
<1> QED
  BY <1>1, <1>2, <1>3, PTL DEF ClusterSpec
============================================================================
