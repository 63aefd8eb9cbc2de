------------------------ MODULE DirectorLanesProofs ------------------------
(***************************************************************************)
(* No message of the metric director is used after it was freed, none      *)
(* leaks, and a flush is a barrier that fires once, for every number of    *)
(* lanes, distributor threads, messages and flushes.                       *)
(*                                                                         *)
(* The reference count of a message is shown to be exact: one for the      *)
(* thread that distributes it, and one for every lane that has it, in its  *)
(* FIFO or in the hands of its thread.  A lane has a message at most once  *)
(* because the distributor passes every lane once, in order.               *)
(***************************************************************************)
EXTENDS DirectorLanes, FiniteSetTheorems, TLAPS

Item == Msg \cup Flush
In(s) == {s[n] : n \in 1 .. Len(s)}
Unrepeated(s) == \A n, k \in 1 .. Len(s) : s[n] = s[k] /\ s[n] \in Msg => n = k

LaneHas(l, m) == m \in In(fifo[l]) \/ lane[l].msg = m
LanesWith(m) == {l \in LaneId : LaneHas(l, m)}
Distributing(m) == \E d \in DistThread : dthread[d].msg = m

Distributor == [pc : {"idle", "loop", "inc", "enqueue"}, msg : Msg \cup {NoItem},
                to : SUBSET LaneId, i : 1 .. LaneCount + 1]

LanesTypes ==
    /\ nlanes \in 0 .. LaneCount
    /\ fifo \in [LaneId -> Seq(Item)]
    /\ refcnt \in [Msg -> Int]
    /\ fresh \subseteq Msg
    /\ dthread \in [DistThread -> Distributor]
    /\ lane \in [LaneId -> [pc : {"idle", "dec", "use"}, msg : Msg \cup {NoItem}]]

\* A thread's message is there exactly while it works on one, and a
\* distributor that is about to queue stands at a lane.
WorkersOK ==
    /\ \A d \in DistThread : /\ dthread[d].pc = "idle" <=> dthread[d].msg = NoItem
                             /\ dthread[d].pc \in {"inc", "enqueue"} => dthread[d].i <= LaneCount
    /\ \A l \in LaneId : lane[l].pc = "idle" <=> lane[l].msg = NoItem

\* A message has one distributor.
OneDistributor ==
    \A d, e \in DistThread : dthread[d].msg = dthread[e].msg /\ dthread[d].msg # NoItem => d = e

\* Nobody has a message that is not allocated yet.
FreshUnheld == \A m \in fresh : ~Distributing(m) /\ \A l \in LaneId : ~LaneHas(l, m)

\* A lane has a message at most once, and only if its distributor is past it.
HeldOnce ==
    /\ \A l \in LaneId : Unrepeated(fifo[l]) /\ lane[l].msg \notin In(fifo[l])
    /\ \A d \in DistThread, l \in LaneId :
          dthread[d].msg # NoItem /\ LaneHas(l, dthread[d].msg) => l < dthread[d].i

\* The count is exact.
Counted ==
    \A m \in Msg : refcnt[m] = (IF Distributing(m) THEN 1 ELSE 0) + Cardinality(LanesWith(m))

LanesInv == LanesTypes /\ WorkersOK /\ OneDistributor /\ FreshUnheld /\ HeldOnce /\ Counted

----------------------------------------------------------------------------
\* What is queued after an Append: every earlier entry and the new one.
LEMMA AppendQueue ==
    ASSUME NEW s \in Seq(Item), NEW x \in Item
    PROVE  /\ Append(s, x) \in Seq(Item)
           /\ In(Append(s, x)) = In(s) \cup {x}
           /\ Unrepeated(s) /\ (x \in Msg => x \notin In(s)) => Unrepeated(Append(s, x))
<1>1. Append(s, x) \in Seq(Item) /\ Len(Append(s, x)) = Len(s) + 1 /\ Len(s) \in Nat
      /\ Append(s, x)[Len(s) + 1] = x
      /\ \A n \in 1 .. Len(s) : Append(s, x)[n] = s[n]
  OBVIOUS
<1> DEFINE t == Append(s, x)
<1> HIDE DEF t
<1>2. In(t) = In(s) \cup {x}
  <2>1. ASSUME NEW y \in In(t) PROVE y \in In(s) \cup {x}
    BY <1>1 DEF In, t
  <2>2. ASSUME NEW y \in In(s) \cup {x} PROVE y \in In(t)
    <3>1. CASE y = x  BY <3>1, <1>1, Len(s) + 1 \in 1 .. Len(t), Zenon DEF In, t
    <3>2. CASE y \in In(s)  BY <3>2, <1>1, 1 .. Len(s) \subseteq 1 .. Len(t), Zenon DEF In, t
    <3> QED  BY <3>1, <3>2, Zenon
  <2> QED  BY <2>1, <2>2, Zenon
<1>3. ASSUME Unrepeated(s), x \in Msg => x \notin In(s) PROVE Unrepeated(t)
  <2> SUFFICES ASSUME NEW n \in 1 .. Len(t), NEW k \in 1 .. Len(t), t[n] = t[k], t[n] \in Msg
               PROVE  n = k
    BY Zenon DEF Unrepeated
  <2>1. CASE n <= Len(s) /\ k <= Len(s)  BY <2>1, <1>1, <1>3 DEF Unrepeated, t
  <2>2. CASE n = Len(s) + 1 \/ k = Len(s) + 1  BY <2>2, <1>1, <1>3 DEF In, t
  <2> QED  BY <2>1, <2>2, <1>1 DEF t
<1> QED  BY <1>1, <1>2, <1>3, Zenon DEF t

\* What is queued after the first entry was taken: of the messages, all the
\* others.
LEMMA TailQueue ==
    ASSUME NEW s \in Seq(Item), s # <<>>, Unrepeated(s)
    PROVE  /\ Head(s) \in In(s) /\ Head(s) \in Item
           /\ Tail(s) \in Seq(Item)
           /\ Unrepeated(Tail(s))
           /\ \A m \in Msg : m \in In(Tail(s)) <=> m \in In(s) /\ m # Head(s)
<1> DEFINE t == Tail(s)
<1>1. t \in Seq(Item) /\ Len(t) = Len(s) - 1 /\ Len(s) \in Nat \ {0}
      /\ Head(s) = s[1] /\ Head(s) \in Item
      /\ \A n \in 1 .. Len(t) : t[n] = s[n + 1]
  OBVIOUS
<1> HIDE DEF t
<1>2. Head(s) \in In(s)  BY <1>1, 1 \in 1 .. Len(s), Zenon DEF In
<1>3. Unrepeated(t)
  <2> SUFFICES ASSUME NEW n \in 1 .. Len(t), NEW k \in 1 .. Len(t), t[n] = t[k], t[n] \in Msg
               PROVE  n = k
    BY Zenon DEF Unrepeated
  <2>1. n + 1 \in 1 .. Len(s) /\ k + 1 \in 1 .. Len(s)  BY <1>1
  <2>2. s[n + 1] = s[k + 1] /\ s[n + 1] \in Msg  BY <1>1, Zenon
  <2>3. n + 1 = k + 1  BY <2>1, <2>2, Zenon DEF Unrepeated
  <2> QED  BY <2>3, <1>1
<1>4. ASSUME NEW m \in Msg, m \in In(t) PROVE m \in In(s) /\ m # Head(s)
  <2>1. PICK n \in 1 .. Len(t) : t[n] = m  BY <1>4, Zenon DEF In
  <2>2. n + 1 \in 1 .. Len(s) /\ s[n + 1] = m /\ 1 \in 1 .. Len(s) /\ n + 1 # 1  BY <2>1, <1>1
  <2> QED  BY <2>2, <1>1, Zenon DEF In, Unrepeated
<1>5. ASSUME NEW m \in Msg, m \in In(s), m # Head(s) PROVE m \in In(t)
  <2>1. PICK n \in 1 .. Len(s) : s[n] = m  BY <1>5, Zenon DEF In
  <2>2. n # 1  BY <2>1, <1>1, <1>5, Zenon
  <2>3. n - 1 \in 1 .. Len(t) /\ t[n - 1] = m  BY <2>1, <2>2, <1>1
  <2> QED  BY <2>3, Zenon DEF In
<1> QED  BY <1>1, <1>2, <1>3, <1>4, <1>5, Zenon DEF t

\* Sets of lanes are finite and can be counted one lane at a time.
LEMMA LanesCount ==
    ASSUME NEW S \in SUBSET LaneId
    PROVE  /\ IsFiniteSet(S) /\ Cardinality(S) \in Nat
           /\ S = {} <=> Cardinality(S) = 0
           /\ \A l \in LaneId \ S : Cardinality(S \cup {l}) = Cardinality(S) + 1
           /\ \A l \in S : Cardinality(S \ {l}) = Cardinality(S) - 1
<1>1. IsFiniteSet(LaneId)  BY FS_Interval, LanesAssumption DEF LaneId
<1>2. IsFiniteSet(S)  BY <1>1, FS_Subset, Zenon
<1>3. Cardinality(S) \in Nat  BY <1>2, FS_CardinalityType, Zenon
<1> QED  BY <1>2, <1>3, FS_EmptySet, FS_AddElement, FS_RemoveElement, Zenon

\* The first state: no lane has anything.
LEMMA LanesInitOK == LanesInit => LanesInv
<1> SUFFICES ASSUME LanesInit PROVE LanesInv  BY Zenon
<1> USE LanesAssumption DEF LanesInit
<1>1. LanesTypes  BY DEF LanesTypes, LaneId, IdleDistributor, Item, Distributor
<1>2. \A l \in LaneId : In(fifo[l]) = {} /\ lane[l].msg = NoItem  BY DEF In, LaneId
<1>3. \A d \in DistThread : dthread[d].msg = NoItem /\ dthread[d].pc = "idle"
  BY Zenon DEF IdleDistributor
<1>4. WorkersOK /\ OneDistributor  BY <1>3, Zenon DEF WorkersOK, OneDistributor
<1>5. \A m \in Msg : ~Distributing(m) /\ \A l \in LaneId : ~LaneHas(l, m)
  BY <1>2, <1>3, Zenon DEF Distributing, LaneHas
<1>6. FreshUnheld  BY <1>5, Zenon DEF FreshUnheld
<1>7. HeldOnce  BY <1>2, <1>3 DEF HeldOnce, Unrepeated
<1>8. Counted
  <2> SUFFICES ASSUME NEW m \in Msg PROVE Cardinality(LanesWith(m)) = 0
    BY <1>5 DEF Counted
  <2> QED  BY <1>5, LanesCount, Zenon DEF LanesWith
<1> QED  BY <1>1, <1>4, <1>6, <1>7, <1>8, Zenon DEF LanesInv

\* A step that leaves the threads' messages, the queued messages and the counts
\* alone, and lets no distributor go back, keeps who has what.
LEMMA NothingMoves ==
    ASSUME LanesInv, LanesTypes', WorkersOK',
           UNCHANGED <<refcnt, fresh, lane>>,
           \A d \in DistThread : dthread'[d].msg = dthread[d].msg /\ dthread'[d].i >= dthread[d].i,
           \A l \in LaneId : /\ Unrepeated(fifo'[l])
                             /\ \A m \in Msg \cup {NoItem} : m \in In(fifo'[l]) <=> m \in In(fifo[l])
    PROVE  LanesInv'
<1> USE DEF LanesInv
<1>1. \A m \in Msg : (Distributing(m) <=> Distributing(m)') /\ \A l \in LaneId : LaneHas(l, m)' <=> LaneHas(l, m)
  BY Zenon DEF Distributing, LaneHas
<1>2. OneDistributor'  BY Zenon DEF OneDistributor
<1>3. FreshUnheld'  BY <1>1, Zenon DEF FreshUnheld, LanesTypes
<1>4. HeldOnce'
  <2>1. ASSUME NEW l \in LaneId PROVE Unrepeated(fifo'[l]) /\ lane'[l].msg \notin In(fifo'[l])
    BY Zenon DEF HeldOnce, LanesTypes
  <2>2. ASSUME NEW d \in DistThread, NEW l \in LaneId,
               dthread'[d].msg # NoItem, LaneHas(l, dthread[d].msg)'
        PROVE  l < dthread'[d].i
    <3>1. dthread[d].msg \in Msg /\ dthread[d].i \in Int /\ dthread'[d].i \in Int /\ l \in Int
      BY <2>2 DEF LanesTypes, LaneId, Distributor
    <3>2. LaneHas(l, dthread[d].msg)  BY <3>1, <2>2, <1>1, Zenon DEF LaneHas
    <3> QED  BY <2>2, <3>1, <3>2 DEF HeldOnce
  <2> QED  BY <2>1, <2>2, Zenon DEF HeldOnce, LaneHas
<1>5. Counted'
  <2>1. ASSUME NEW m \in Msg PROVE LanesWith(m)' = LanesWith(m)  BY <1>1, Zenon DEF LanesWith
  <2> QED  BY <2>1, <1>1, Zenon DEF Counted
<1> QED  BY <1>2, <1>3, <1>4, <1>5, Zenon

\* A message is received: it was nobody's, and its distributor has the only
\* reference.
LEMMA ReceiveOK == ASSUME LanesInv, NEW d \in DistThread, Receive(d) PROVE LanesInv'
<1> USE DEF LanesInv
<1>1. PICK m \in fresh, to \in SUBSET (1 .. nlanes) :
        /\ fresh' = fresh \ {m}
        /\ refcnt' = [refcnt EXCEPT ![m] = 1]
        /\ dthread' = [dthread EXCEPT ![d] = [pc |-> "loop", msg |-> m, to |-> to, i |-> 1]]
  BY Zenon DEF Receive
<1>2. m \in Msg /\ m # NoItem /\ UNCHANGED <<nlanes, fifo, lane, flush>> /\ dthread[d].pc = "idle"
  BY LanesAssumption, Zenon DEF Receive, LanesTypes
<1>3. ~Distributing(m) /\ \A l \in LaneId : ~LaneHas(l, m)  BY Zenon DEF FreshUnheld
<1>4. dthread'[d].msg = m /\ dthread'[d].i = 1 /\ dthread'[d].pc = "loop" /\ dthread[d].msg = NoItem
      /\ \A e \in DistThread \ {d} : dthread'[e] = dthread[e]
  BY <1>1, <1>2, Zenon DEF LanesTypes, WorkersOK
<1>5. LanesTypes'
  <2>1. to \in SUBSET LaneId /\ 1 \in 1 .. LaneCount + 1
    BY LanesAssumption DEF LanesTypes, LaneId
  <2> QED  BY <1>1, <1>2, <2>1 DEF LanesTypes, Distributor
<1>6. WorkersOK'  BY <1>2, <1>4, Zenon DEF WorkersOK
<1>7. OneDistributor'  BY <1>3, <1>4 DEF OneDistributor, Distributing
<1>8. /\ Distributing(m)'
      /\ \A k \in Msg \ {m} : Distributing(k)' <=> Distributing(k)
      /\ \A k \in Msg, l \in LaneId : LaneHas(l, k)' <=> LaneHas(l, k)
  <2>1. Distributing(m)'  BY <1>4, Zenon DEF Distributing
  <2>2. \A k \in Msg, l \in LaneId : LaneHas(l, k)' <=> LaneHas(l, k)  BY <1>2, Zenon DEF LaneHas
  <2>3. \A k \in Msg \ {m} : Distributing(k)' <=> Distributing(k)
    BY <1>4, LanesAssumption, Zenon DEF Distributing
  <2> QED  BY <2>1, <2>2, <2>3, Zenon
<1>9. FreshUnheld'  BY <1>1, <1>8, Zenon DEF FreshUnheld, LanesTypes
<1>10. HeldOnce'
  <2>1. \A l \in LaneId : Unrepeated(fifo'[l]) /\ lane'[l].msg \notin In(fifo'[l])
    BY <1>2, Zenon DEF HeldOnce
  <2>2. ASSUME NEW e \in DistThread, NEW l \in LaneId, dthread'[e].msg # NoItem,
               LaneHas(l, dthread[e].msg)'
        PROVE  l < dthread'[e].i
    <3>1. LaneHas(l, dthread'[e].msg)  BY <2>2, <1>2, Zenon DEF LaneHas
    <3>2. e # d  BY <3>1, <1>3, <1>4, Zenon
    <3> QED  BY <3>1, <3>2, <2>2, <1>4, Zenon DEF HeldOnce
  <2> QED  BY <2>1, <2>2, Zenon DEF HeldOnce
<1>11. Counted'
  <2> SUFFICES ASSUME NEW k \in Msg
               PROVE  refcnt'[k] = (IF Distributing(k)' THEN 1 ELSE 0) + Cardinality(LanesWith(k)')
    BY Zenon DEF Counted
  <2>1. LanesWith(k)' = LanesWith(k)  BY <1>8, Zenon DEF LanesWith
  <2>2. CASE k = m
    <3>1. LanesWith(m) = {}  BY <1>3, Zenon DEF LanesWith
    <3>2. Cardinality(LanesWith(m)) = 0  BY <3>1, LanesCount, Zenon
    <3> QED  BY <2>1, <2>2, <3>2, <1>1, <1>2, <1>8 DEF LanesTypes
  <2>3. CASE k # m  BY <2>1, <2>3, <1>1, <1>8, Zenon DEF Counted, LanesTypes
  <2> QED  BY <2>2, <2>3, Zenon
<1> QED  BY <1>5, <1>6, <1>7, <1>9, <1>10, <1>11, Zenon

\* The loop of the distributor moves on without touching a message.
LEMMA ConsiderOK == ASSUME LanesInv, NEW d \in DistThread, Consider(d) \/ IncBacklog(d) PROVE LanesInv'
<1> USE DEF LanesInv
<1>1. UNCHANGED <<nlanes, fifo, refcnt, fresh, lane, flush>>  BY Zenon DEF Consider, IncBacklog
<1>2. dthread[d] \in Distributor /\ dthread \in [DistThread -> Distributor]  BY Zenon DEF LanesTypes
<1>3. \E r \in Distributor :
       /\ dthread' = [dthread EXCEPT ![d] = r]
       /\ dthread[d].pc # "idle" /\ r.pc # "idle"
       /\ r.pc \in {"inc", "enqueue"} => r.i <= LaneCount
       /\ r.msg = dthread[d].msg /\ r.i >= dthread[d].i
  <2>1. CASE dthread' = [dthread EXCEPT ![d].i = @ + 1] /\ Consider(d)
    <3>1. dthread[d].i + 1 \in 1 .. LaneCount + 1 /\ dthread[d].pc = "loop" /\ dthread[d].i \in Int
      BY <1>2, <2>1, LanesAssumption DEF Consider, Distributor
    <3> DEFINE r == [dthread[d] EXCEPT !.i = @ + 1]
    <3>2. r \in Distributor /\ r.pc = "loop" /\ r.msg = dthread[d].msg /\ r.i = dthread[d].i + 1
      BY <1>2, <3>1, Zenon DEF Distributor
    <3>3. dthread' = [dthread EXCEPT ![d] = r]  BY <2>1, Zenon
    <3>4. /\ dthread[d].pc # "idle" /\ r.pc # "idle"
          /\ r.pc \in {"inc", "enqueue"} => r.i <= LaneCount
          /\ r.msg = dthread[d].msg /\ r.i >= dthread[d].i
      BY <3>1, <3>2
    <3> QED  BY <3>2, <3>3, <3>4, Zenon
  <2>2. CASE dthread' = [dthread EXCEPT ![d].pc = "inc"] /\ Consider(d)
    <3>1. dthread[d].i <= LaneCount /\ dthread[d].pc = "loop" /\ dthread[d].i \in Int
      BY <1>2, <2>2 DEF Consider, Distributor
    <3> DEFINE r == [dthread[d] EXCEPT !.pc = "inc"]
    <3>2. r \in Distributor /\ r.pc = "inc" /\ r.msg = dthread[d].msg /\ r.i = dthread[d].i
      BY <1>2, <3>1, Zenon DEF Distributor
    <3>3. dthread' = [dthread EXCEPT ![d] = r]  BY <2>2, Zenon
    <3>4. /\ dthread[d].pc # "idle" /\ r.pc # "idle"
          /\ r.pc \in {"inc", "enqueue"} => r.i <= LaneCount
          /\ r.msg = dthread[d].msg /\ r.i >= dthread[d].i
      BY <3>1, <3>2
    <3> QED  BY <3>2, <3>3, <3>4, Zenon
  <2>3. CASE dthread' = [dthread EXCEPT ![d].pc = "enqueue"] /\ IncBacklog(d)
    <3>1. dthread[d].i <= LaneCount /\ dthread[d].pc = "inc" /\ dthread[d].i \in Int
      BY <1>2, <2>3 DEF IncBacklog, WorkersOK, Distributor
    <3> DEFINE r == [dthread[d] EXCEPT !.pc = "enqueue"]
    <3>2. r \in Distributor /\ r.pc = "enqueue" /\ r.msg = dthread[d].msg /\ r.i = dthread[d].i
      BY <1>2, <3>1, Zenon DEF Distributor
    <3>3. dthread' = [dthread EXCEPT ![d] = r]  BY <2>3, Zenon
    <3>4. /\ dthread[d].pc # "idle" /\ r.pc # "idle"
          /\ r.pc \in {"inc", "enqueue"} => r.i <= LaneCount
          /\ r.msg = dthread[d].msg /\ r.i >= dthread[d].i
      BY <3>1, <3>2
    <3> QED  BY <3>2, <3>3, <3>4, Zenon
  <2> QED  BY <2>1, <2>2, <2>3, Zenon DEF Consider, IncBacklog
<1>4. PICK r \in Distributor :
       /\ dthread' = [dthread EXCEPT ![d] = r]
       /\ dthread[d].pc # "idle" /\ r.pc # "idle"
       /\ r.pc \in {"inc", "enqueue"} => r.i <= LaneCount
       /\ r.msg = dthread[d].msg /\ r.i >= dthread[d].i
  BY <1>3, Zenon
<1>5. dthread'[d] = r /\ \A e \in DistThread \ {d} : dthread'[e] = dthread[e]  BY <1>2, <1>4, Zenon
<1>6. LanesTypes'  BY <1>1, <1>2, <1>4, Zenon DEF LanesTypes
<1>7. \A e \in DistThread : dthread'[e].msg = dthread[e].msg /\ dthread'[e].i >= dthread[e].i
  <2> SUFFICES ASSUME NEW e \in DistThread
               PROVE  dthread'[e].msg = dthread[e].msg /\ dthread'[e].i >= dthread[e].i
    BY Zenon
  <2>1. dthread[e].i \in Int  BY <1>2 DEF Distributor
  <2> QED  BY <2>1, <1>4, <1>5
<1>8. WorkersOK'  BY <1>1, <1>4, <1>5 DEF WorkersOK
<1>9. \A l \in LaneId : Unrepeated(fifo'[l])  BY <1>1, Zenon DEF HeldOnce
<1> QED  BY <1>1, <1>6, <1>7, <1>8, <1>9, NothingMoves, Zenon

\* A lane is given the message and the reference that goes with it; it did not
\* have it before, for the distributor was not past it.
LEMMA EnqueueOK == ASSUME LanesInv, NEW d \in DistThread, Enqueue(d) PROVE LanesInv'
<1> USE DEF LanesInv
<1>1. /\ dthread[d].pc = "enqueue" /\ UNCHANGED <<nlanes, fresh, lane, flush>>
      /\ refcnt' = [refcnt EXCEPT ![dthread[d].msg] = @ + 1]
      /\ fifo' = [fifo EXCEPT ![dthread[d].i] = Append(@, dthread[d].msg)]
      /\ dthread' = [dthread EXCEPT ![d].pc = "loop", ![d].i = @ + 1]
  BY Zenon DEF Enqueue
<1>2. dthread[d] \in Distributor /\ dthread \in [DistThread -> Distributor]  BY Zenon DEF LanesTypes
<1>3. PICK m \in Msg, h \in LaneId :
        /\ m = dthread[d].msg /\ h = dthread[d].i
        /\ m # NoItem /\ m \in Item /\ fifo[h] \in Seq(Item) /\ h \in Int
  BY <1>1, <1>2, LanesAssumption DEF WorkersOK, Distributor, LaneId, Item, LanesTypes
<1>4. /\ dthread'[d] \in Distributor /\ dthread'[d].msg = m /\ dthread'[d].pc = "loop"
      /\ dthread'[d].i = h + 1
      /\ \A e \in DistThread \ {d} : dthread'[e] = dthread[e]
  <2> DEFINE r == [dthread[d] EXCEPT !.pc = "loop", !.i = @ + 1]
  <2>1. h + 1 \in 1 .. LaneCount + 1  BY <1>3, LanesAssumption DEF LaneId
  <2>2. r \in Distributor /\ r.msg = m /\ r.pc = "loop" /\ r.i = h + 1
    BY <1>2, <1>3, <2>1, Zenon DEF Distributor
  <2>3. dthread' = [dthread EXCEPT ![d] = r]  BY <1>1, <1>2, Zenon
  <2> HIDE DEF r
  <2> QED  BY <1>2, <2>2, <2>3, Zenon
<1>5. ~LaneHas(h, m)  BY <1>3 DEF HeldOnce
<1>6. /\ fifo' = [fifo EXCEPT ![h] = Append(fifo[h], m)] /\ fifo'[h] \in Seq(Item)
      /\ In(fifo'[h]) = In(fifo[h]) \cup {m} /\ Unrepeated(fifo'[h])
      /\ \A l \in LaneId \ {h} : fifo'[l] = fifo[l]
  <2>1. m \notin In(fifo[h]) /\ Unrepeated(fifo[h])  BY <1>3, <1>5, Zenon DEF HeldOnce, LaneHas
  <2>2. fifo'[h] = Append(fifo[h], m)  BY <1>1, <1>3, Zenon DEF LanesTypes
  <2> QED  BY <1>1, <1>3, <2>1, <2>2, AppendQueue, Zenon DEF LanesTypes
<1>7. LanesTypes'
  <2>1. dthread' \in [DistThread -> Distributor]  BY <1>1, <1>2, <1>4, Zenon
  <2>2. fifo' \in [LaneId -> Seq(Item)]  BY <1>3, <1>6, Zenon DEF LanesTypes
  <2>3. refcnt' \in [Msg -> Int]  BY <1>1, <1>3 DEF LanesTypes
  <2> QED  BY <1>1, <2>1, <2>2, <2>3, Zenon DEF LanesTypes
<1>8. WorkersOK'  BY <1>1, <1>3, <1>4, Zenon DEF WorkersOK
<1>9. \A e \in DistThread : dthread'[e].msg = dthread[e].msg  BY <1>3, <1>4, Zenon
<1>10. OneDistributor'  BY <1>9, Zenon DEF OneDistributor
<1>11. /\ \A k \in Msg : Distributing(k)' <=> Distributing(k)
       /\ Distributing(m)
       /\ LaneHas(h, m)'
       /\ \A k \in Msg, l \in LaneId : k # m \/ l # h => (LaneHas(l, k)' <=> LaneHas(l, k))
  <2>1. \A k \in Msg : Distributing(k)' <=> Distributing(k)  BY <1>9, Zenon DEF Distributing
  <2>2. Distributing(m)  BY <1>3, Zenon DEF Distributing
  <2>3. LaneHas(h, m)'  BY <1>6, Zenon DEF LaneHas
  <2>4. \A k \in Msg, l \in LaneId : k # m \/ l # h => (LaneHas(l, k)' <=> LaneHas(l, k))
    BY <1>1, <1>6, Zenon DEF LaneHas
  <2> QED  BY <2>1, <2>2, <2>3, <2>4, Zenon
<1>12. FreshUnheld'
  <2>1. m \notin fresh  BY <1>11, Zenon DEF FreshUnheld
  <2> QED  BY <1>1, <1>11, <2>1, Zenon DEF FreshUnheld, LanesTypes
<1>13. HeldOnce'
  <2>1. \A l \in LaneId : Unrepeated(fifo'[l]) /\ lane'[l].msg \notin In(fifo'[l])
    BY <1>1, <1>5, <1>6, Zenon DEF HeldOnce, LaneHas
  <2>2. ASSUME NEW e \in DistThread, NEW l \in LaneId, dthread'[e].msg # NoItem,
               LaneHas(l, dthread[e].msg)'
        PROVE  l < dthread'[e].i
    <3>1. dthread[e] \in Distributor /\ dthread[e].msg \in Msg /\ l \in Int
          /\ LaneHas(l, dthread[e].msg)' /\ dthread[e].i \in Int
      BY <2>2, <1>2, <1>9 DEF Distributor, LaneId
    <3>2. CASE e = d /\ l = h  BY <3>1, <3>2, <1>3, <1>4
    <3>3. CASE e = d /\ l # h
      <4>1. dthread[e].msg = m  BY <1>3, <3>3, Zenon
      <4>2. LaneHas(l, m)  BY <4>1, <3>1, <3>3, <1>11, <1>9, <2>2, Zenon DEF LaneHas
      <4>3. l < h  BY <4>2, <4>1, <3>3, <1>3, Zenon DEF HeldOnce
      <4> QED  BY <4>3, <3>1, <3>3, <1>3, <1>4
    <3>4. CASE e # d
      <4>1. dthread[e].msg # m  BY <3>4, <1>3, Zenon DEF OneDistributor
      <4>2. LaneHas(l, dthread[e].msg)  BY <4>1, <3>1, <1>11, <1>9, <2>2, Zenon DEF LaneHas
      <4> QED  BY <4>2, <3>4, <2>2, <1>4, Zenon DEF HeldOnce
    <3> QED  BY <3>2, <3>3, <3>4, Zenon
  <2> QED  BY <2>1, <2>2, Zenon DEF HeldOnce, LaneHas
<1>14. Counted'
  <2> SUFFICES ASSUME NEW k \in Msg
               PROVE  refcnt'[k] = (IF Distributing(k)' THEN 1 ELSE 0) + Cardinality(LanesWith(k)')
    BY Zenon DEF Counted
  <2>1. CASE k = m
    <3>1. LanesWith(m)' = LanesWith(m) \cup {h}  BY <1>3, <1>11, Zenon DEF LanesWith
    <3>2. h \in LaneId \ LanesWith(m) /\ LanesWith(m) \in SUBSET LaneId  BY <1>3, <1>5, Zenon DEF LanesWith
    <3>3. Cardinality(LanesWith(m)') = Cardinality(LanesWith(m)) + 1 /\ Cardinality(LanesWith(m)) \in Nat
      BY <3>1, <3>2, LanesCount
    <3>4. refcnt'[m] = refcnt[m] + 1  BY <1>1, <1>3, Zenon DEF LanesTypes
    <3>5. refcnt[m] = 1 + Cardinality(LanesWith(m))  BY <1>3, <1>11, Zenon DEF Counted
    <3> QED  BY <2>1, <3>3, <3>4, <3>5, <1>11
  <2>2. CASE k # m
    <3>1. LanesWith(k)' = LanesWith(k)  BY <2>2, <1>11, Zenon DEF LanesWith
    <3>2. refcnt'[k] = refcnt[k]  BY <2>2, <1>1, <1>3, Zenon DEF LanesTypes
    <3>3. refcnt[k] = (IF Distributing(k) THEN 1 ELSE 0) + Cardinality(LanesWith(k))  BY Zenon DEF Counted
    <3>4. CASE Distributing(k)  BY <3>1, <3>2, <3>3, <3>4, <1>11, Zenon
    <3>5. CASE ~Distributing(k)  BY <3>1, <3>2, <3>3, <3>5, <1>11, Zenon
    <3> QED  BY <3>4, <3>5, Zenon
  <2> QED  BY <2>1, <2>2, Zenon
<1> QED  BY <1>7, <1>8, <1>10, <1>12, <1>13, <1>14, Zenon

\* The distributor is done and gives its own reference back.
LEMMA MessageDoneOK == ASSUME LanesInv, NEW d \in DistThread, MessageDone(d) PROVE LanesInv'
<1> USE DEF LanesInv
<1>1. /\ dthread[d].pc = "loop" /\ UNCHANGED <<nlanes, fifo, fresh, lane, flush>>
      /\ refcnt' = [refcnt EXCEPT ![dthread[d].msg] = @ - 1]
      /\ dthread' = [dthread EXCEPT ![d] = IdleDistributor]
  BY Zenon DEF MessageDone
<1>2. dthread[d] \in Distributor /\ dthread \in [DistThread -> Distributor]  BY Zenon DEF LanesTypes
<1>3. PICK m \in Msg : m = dthread[d].msg /\ m # NoItem
  BY <1>1, <1>2, LanesAssumption, Zenon DEF WorkersOK, Distributor
<1>4. /\ IdleDistributor \in Distributor
      /\ dthread'[d].msg = NoItem /\ dthread'[d].pc = "idle"
      /\ \A e \in DistThread \ {d} : dthread'[e] = dthread[e]
  BY <1>1, <1>2, LanesAssumption DEF IdleDistributor, Distributor
<1>5. LanesTypes'
  <2>1. dthread' \in [DistThread -> Distributor]  BY <1>1, <1>2, <1>4, Zenon
  <2>2. refcnt' \in [Msg -> Int]  BY <1>1, <1>3 DEF LanesTypes
  <2> QED  BY <1>1, <2>1, <2>2, Zenon DEF LanesTypes
<1>6. WorkersOK'  BY <1>1, <1>4 DEF WorkersOK
<1>7. OneDistributor'  BY <1>4, Zenon DEF OneDistributor
<1>8. /\ \A k \in Msg, l \in LaneId : LaneHas(l, k)' <=> LaneHas(l, k)
      /\ Distributing(m) /\ ~Distributing(m)'
      /\ \A k \in Msg \ {m} : Distributing(k)' <=> Distributing(k)
  <2>1. \A k \in Msg, l \in LaneId : LaneHas(l, k)' <=> LaneHas(l, k)  BY <1>1, Zenon DEF LaneHas
  <2>2. Distributing(m)  BY <1>3, Zenon DEF Distributing
  <2>3. ~Distributing(m)'  BY <1>3, <1>4, Zenon DEF Distributing, OneDistributor
  <2>4. \A k \in Msg \ {m} : Distributing(k)' <=> Distributing(k)
    BY <1>3, <1>4, LanesAssumption, Zenon DEF Distributing
  <2> QED  BY <2>1, <2>2, <2>3, <2>4, Zenon
<1>9. FreshUnheld'  BY <1>1, <1>8, Zenon DEF FreshUnheld, LanesTypes
<1>10. HeldOnce'
  <2>1. \A l \in LaneId : Unrepeated(fifo'[l]) /\ lane'[l].msg \notin In(fifo'[l])
    BY <1>1, Zenon DEF HeldOnce
  <2>2. ASSUME NEW e \in DistThread, NEW l \in LaneId, dthread'[e].msg # NoItem,
               LaneHas(l, dthread[e].msg)'
        PROVE  l < dthread'[e].i
    <3>1. e # d /\ dthread'[e] = dthread[e]  BY <2>2, <1>4, Zenon
    <3>2. LaneHas(l, dthread[e].msg)  BY <2>2, <3>1, <1>1, Zenon DEF LaneHas
    <3> QED  BY <3>1, <3>2, <2>2, Zenon DEF HeldOnce
  <2> QED  BY <2>1, <2>2, Zenon DEF HeldOnce
<1>11. Counted'
  <2> SUFFICES ASSUME NEW k \in Msg
               PROVE  refcnt'[k] = (IF Distributing(k)' THEN 1 ELSE 0) + Cardinality(LanesWith(k)')
    BY Zenon DEF Counted
  <2>1. LanesWith(k)' = LanesWith(k)  BY <1>8, Zenon DEF LanesWith
  <2>2. LanesWith(k) \in SUBSET LaneId  BY Zenon DEF LanesWith
  <2>3. Cardinality(LanesWith(k)) \in Nat  BY <2>2, LanesCount, Zenon
  <2>4. refcnt[k] = (IF Distributing(k) THEN 1 ELSE 0) + Cardinality(LanesWith(k))  BY Zenon DEF Counted
  <2>5. CASE k = m
    <3>1. refcnt'[m] = refcnt[m] - 1  BY <1>1, <1>3, Zenon DEF LanesTypes
    <3> QED  BY <2>1, <2>3, <2>4, <2>5, <3>1, <1>8
  <2>6. CASE k # m
    <3>1. refcnt'[k] = refcnt[k]  BY <2>6, <1>1, <1>3, Zenon DEF LanesTypes
    <3>2. CASE Distributing(k)  BY <2>1, <2>4, <2>6, <3>1, <3>2, <1>8, Zenon
    <3>3. CASE ~Distributing(k)  BY <2>1, <2>4, <2>6, <3>1, <3>3, <1>8, Zenon
    <3> QED  BY <3>2, <3>3, Zenon
  <2> QED  BY <2>5, <2>6, Zenon
<1> QED  BY <1>5, <1>6, <1>7, <1>9, <1>10, <1>11, Zenon

\* A flush touches no message: it queues markers and changes its own state.
LEMMA FlushStepOK == ASSUME LanesInv, NEW f \in Flush, FlushStep(f) PROVE LanesInv'
<1> USE DEF LanesInv
<1>1. UNCHANGED <<nlanes, refcnt, fresh, dthread, lane>>
  BY Zenon DEF FlushStep, FlushBegin, FlushLane, FlushEnqueue, FlushEnd
<1>2. /\ fifo' \in [LaneId -> Seq(Item)]
      /\ \A l \in LaneId : /\ Unrepeated(fifo'[l])
                            /\ \A m \in Msg \cup {NoItem} : m \in In(fifo'[l]) <=> m \in In(fifo[l])
  <2>1. CASE fifo' = fifo  BY <2>1, Zenon DEF HeldOnce, LanesTypes
  <2>2. CASE FlushEnqueue(f) /\ flush[f].i \in LaneId
    <3>1. PICK h \in LaneId : h = flush[f].i /\ fifo' = [fifo EXCEPT ![h] = Append(fifo[h], f)]
      BY <2>2, Zenon DEF FlushEnqueue
    <3>2. f \in Item /\ fifo[h] \in Seq(Item) /\ f \notin Msg \cup {NoItem}
      BY LanesAssumption, Zenon DEF Item, LanesTypes
    <3>3. fifo'[h] = Append(fifo[h], f) /\ \A l \in LaneId \ {h} : fifo'[l] = fifo[l]
      BY <3>1, Zenon DEF LanesTypes
    <3>4. fifo'[h] \in Seq(Item) /\ Unrepeated(fifo'[h]) /\ In(fifo'[h]) = In(fifo[h]) \cup {f}
      BY <3>2, <3>3, AppendQueue DEF HeldOnce
    <3> QED  BY <3>1, <3>2, <3>3, <3>4, Zenon DEF HeldOnce, LanesTypes
  <2>3. CASE FlushEnqueue(f) /\ flush[f].i \notin LaneId
    <3>1. fifo' = fifo  BY <2>3, Zenon DEF FlushEnqueue, LanesTypes
    <3> QED  BY <3>1, <2>1, Zenon
  <2> QED  BY <2>1, <2>2, <2>3, Zenon DEF FlushStep, FlushBegin, FlushLane, FlushEnqueue, FlushEnd
<1>3. LanesTypes'  BY <1>1, <1>2, Zenon DEF LanesTypes
<1>4. WorkersOK'  BY <1>1, Zenon DEF WorkersOK
<1>5. \A d \in DistThread : dthread'[d].msg = dthread[d].msg /\ dthread'[d].i >= dthread[d].i
  <2> SUFFICES ASSUME NEW d \in DistThread PROVE dthread[d].i >= dthread[d].i  BY <1>1, Zenon
  <2>1. dthread[d].i \in Int  BY DEF LanesTypes, Distributor
  <2> QED  BY <2>1
<1> QED  BY <1>1, <1>2, <1>3, <1>4, <1>5, NothingMoves, Zenon

\* A lane's thread takes the first entry of its FIFO: a marker is no message,
\* and a message goes from the FIFO into its hands.
LEMMA DequeueOK == ASSUME LanesInv, NEW h \in LaneId, Dequeue(h) PROVE LanesInv'
<1> USE DEF LanesInv
<1>1. /\ lane[h].pc = "idle" /\ fifo[h] # <<>> /\ UNCHANGED <<nlanes, refcnt, fresh, dthread>>
      /\ fifo' = [fifo EXCEPT ![h] = Tail(fifo[h])]
  BY Zenon DEF Dequeue
<1>2. fifo[h] \in Seq(Item) /\ Unrepeated(fifo[h]) /\ lane[h].msg = NoItem /\ lane \in [LaneId -> [pc : {"idle", "dec", "use"}, msg : Msg \cup {NoItem}]]
  BY <1>1, Zenon DEF LanesTypes, HeldOnce, WorkersOK
<1>3. fifo'[h] = Tail(fifo[h]) /\ \A l \in LaneId \ {h} : fifo'[l] = fifo[l]  BY <1>1, Zenon DEF LanesTypes
<1>4. PICK x : x = Head(fifo[h])  BY Zenon
<1>5. /\ x \in In(fifo[h]) /\ x \in Item /\ fifo'[h] \in Seq(Item) /\ Unrepeated(fifo'[h])
      /\ \A m \in Msg : m \in In(fifo'[h]) <=> m \in In(fifo[h]) /\ m # x
  BY <1>1, <1>2, <1>3, <1>4, TailQueue
<1>6. fifo' \in [LaneId -> Seq(Item)] /\ \A l \in LaneId : Unrepeated(fifo'[l])
  BY <1>1, <1>3, <1>5, Zenon DEF LanesTypes, HeldOnce
<1>7. \A l \in LaneId : NoItem \notin In(fifo[l]) /\ NoItem \notin In(fifo'[l])
  <2>1. ASSUME NEW s \in Seq(Item) PROVE NoItem \notin In(s)
    <3>1. \A n \in 1 .. Len(s) : s[n] \in Item  OBVIOUS
    <3> QED  BY <3>1, LanesAssumption, Zenon DEF In, Item
  <2> QED  BY <2>1, <1>6, Zenon DEF LanesTypes
<1>8. \A d \in DistThread : dthread'[d].msg = dthread[d].msg /\ dthread'[d].i >= dthread[d].i
  <2> SUFFICES ASSUME NEW d \in DistThread PROVE dthread[d].i >= dthread[d].i  BY <1>1, Zenon
  <2>1. dthread[d].i \in Int  BY DEF LanesTypes, Distributor
  <2> QED  BY <2>1
<1>9. CASE x \in Flush
  <2>1. x \notin Msg /\ lane' = lane  BY <1>4, <1>9, LanesAssumption, Zenon DEF Dequeue
  <2>2. LanesTypes' /\ WorkersOK'  BY <2>1, <1>1, <1>6, Zenon DEF LanesTypes, WorkersOK
  <2>3. \A l \in LaneId, m \in Msg \cup {NoItem} : m \in In(fifo'[l]) <=> m \in In(fifo[l])
    BY <2>1, <1>3, <1>5, <1>7, Zenon
  <2> QED  BY <2>1, <2>2, <2>3, <1>1, <1>6, <1>8, NothingMoves, Zenon
<1>10. CASE x \notin Flush
  <2>1. x \in Msg /\ x # NoItem /\ lane' = [lane EXCEPT ![h] = [pc |-> "dec", msg |-> x]]
    BY <1>4, <1>5, <1>10, LanesAssumption, Zenon DEF Dequeue, Item
  <2>2. lane'[h].msg = x /\ lane'[h].pc = "dec" /\ \A l \in LaneId \ {h} : lane'[l] = lane[l]
    BY <2>1, <1>2, Zenon
  <2>3. LanesTypes'
    <3>1. lane' \in [LaneId -> [pc : {"idle", "dec", "use"}, msg : Msg \cup {NoItem}]]  BY <2>1, <1>2, Zenon
    <3> QED  BY <3>1, <1>1, <1>6, Zenon DEF LanesTypes
  <2>4. WorkersOK'  BY <2>1, <2>2, <1>1, Zenon DEF WorkersOK
  <2>5. \A l \in LaneId, m \in Msg : LaneHas(l, m)' <=> LaneHas(l, m)
    BY <2>1, <2>2, <1>2, <1>3, <1>5, LanesAssumption DEF LaneHas
  <2>6. \A m \in Msg : Distributing(m)' <=> Distributing(m)  BY <1>1, Zenon DEF Distributing
  <2>7. OneDistributor'  BY <1>1, Zenon DEF OneDistributor
  <2>8. FreshUnheld'  BY <2>5, <2>6, <1>1, Zenon DEF FreshUnheld, LanesTypes
  <2>9. HeldOnce'
    <3>1. \A l \in LaneId : Unrepeated(fifo'[l]) /\ lane'[l].msg \notin In(fifo'[l])
      BY <2>1, <2>2, <1>3, <1>5, <1>6, Zenon DEF HeldOnce
    <3>2. ASSUME NEW d \in DistThread, NEW l \in LaneId, dthread'[d].msg # NoItem,
                 LaneHas(l, dthread[d].msg)'
          PROVE  l < dthread'[d].i
      <4>1. dthread[d].msg \in Msg  BY <3>2, <1>1, Zenon DEF LanesTypes, Distributor
      <4>2. LaneHas(l, dthread[d].msg)  BY <4>1, <3>2, <2>5, <1>1, Zenon DEF LaneHas
      <4> QED  BY <4>2, <3>2, <1>1, Zenon DEF HeldOnce
    <3> QED  BY <3>1, <3>2, Zenon DEF HeldOnce, LaneHas
  <2>10. Counted'
    <3>1. ASSUME NEW m \in Msg PROVE LanesWith(m)' = LanesWith(m)  BY <2>5, Zenon DEF LanesWith
    <3> QED  BY <3>1, <2>6, <1>1, Zenon DEF Counted
  <2> QED  BY <2>3, <2>4, <2>7, <2>8, <2>9, <2>10, Zenon
<1> QED  BY <1>9, <1>10, Zenon

\* The backlog counter is no part of who has what.
LEMMA DecBacklogOK == ASSUME LanesInv, NEW h \in LaneId, DecBacklog(h) PROVE LanesInv'
<1> USE DEF LanesInv
<1>1. /\ lane[h].pc = "dec" /\ UNCHANGED <<nlanes, fifo, refcnt, fresh, dthread>>
      /\ lane' = [lane EXCEPT ![h].pc = "use"]
  BY Zenon DEF DecBacklog
<1>2. \A l \in LaneId : lane'[l].msg = lane[l].msg /\ (lane'[l].pc = "idle" <=> lane[l].pc = "idle")
  BY <1>1, Zenon DEF LanesTypes
<1>3. LanesTypes'  BY <1>1, Zenon DEF LanesTypes
<1>4. WorkersOK'  BY <1>1, <1>2, Zenon DEF WorkersOK
<1>5. \A m \in Msg : (Distributing(m)' <=> Distributing(m)) /\ \A l \in LaneId : LaneHas(l, m)' <=> LaneHas(l, m)
  BY <1>1, <1>2, Zenon DEF Distributing, LaneHas
<1>6. OneDistributor' /\ FreshUnheld'  BY <1>1, <1>5, Zenon DEF OneDistributor, FreshUnheld, LanesTypes
<1>7. HeldOnce'  BY <1>1, <1>2, Zenon DEF HeldOnce, LaneHas
<1>8. Counted'
  <2>1. ASSUME NEW m \in Msg PROVE LanesWith(m)' = LanesWith(m)  BY <1>5, Zenon DEF LanesWith
  <2> QED  BY <2>1, <1>1, <1>5, Zenon DEF Counted
<1> QED  BY <1>3, <1>4, <1>6, <1>7, <1>8, Zenon

\* The lane's thread gives its message back: the lane had it nowhere else.
LEMMA ReleaseOK == ASSUME LanesInv, NEW h \in LaneId, Release(h) PROVE LanesInv'
<1> USE DEF LanesInv
<1>1. /\ lane[h].pc = "use" /\ UNCHANGED <<nlanes, fifo, fresh, dthread>>
      /\ refcnt' = [refcnt EXCEPT ![lane[h].msg] = @ - 1]
      /\ lane' = [lane EXCEPT ![h] = [pc |-> "idle", msg |-> NoItem]]
  BY Zenon DEF Release
<1>2. PICK m \in Msg : m = lane[h].msg /\ m # NoItem
  BY <1>1, LanesAssumption, Zenon DEF WorkersOK, LanesTypes
<1>3. lane'[h].msg = NoItem /\ lane'[h].pc = "idle" /\ \A l \in LaneId \ {h} : lane'[l] = lane[l]
  BY <1>1, Zenon DEF LanesTypes
<1>4. LanesTypes'
  <2>1. lane' \in [LaneId -> [pc : {"idle", "dec", "use"}, msg : Msg \cup {NoItem}]]  BY <1>1, Zenon DEF LanesTypes
  <2>2. refcnt' \in [Msg -> Int]  BY <1>1, <1>2 DEF LanesTypes
  <2> QED  BY <2>1, <2>2, <1>1, Zenon DEF LanesTypes
<1>5. WorkersOK'  BY <1>1, <1>3, Zenon DEF WorkersOK
<1>6. /\ \A k \in Msg : Distributing(k)' <=> Distributing(k)
      /\ LaneHas(h, m) /\ ~LaneHas(h, m)'
      /\ \A k \in Msg, l \in LaneId : k # m \/ l # h => (LaneHas(l, k)' <=> LaneHas(l, k))
  <2>1. \A k \in Msg : Distributing(k)' <=> Distributing(k)  BY <1>1, Zenon DEF Distributing
  <2>2. LaneHas(h, m) /\ ~LaneHas(h, m)'  BY <1>1, <1>2, <1>3, Zenon DEF LaneHas, HeldOnce
  <2>3. \A k \in Msg, l \in LaneId : k # m \/ l # h => (LaneHas(l, k)' <=> LaneHas(l, k))
    BY <1>1, <1>2, <1>3, LanesAssumption, Zenon DEF LaneHas
  <2> QED  BY <2>1, <2>2, <2>3, Zenon
<1>7. OneDistributor'  BY <1>1, Zenon DEF OneDistributor
<1>8. FreshUnheld'  BY <1>1, <1>6, Zenon DEF FreshUnheld, LanesTypes
<1>9. HeldOnce'
  <2>1. \A l \in LaneId : NoItem \notin In(fifo[l])
    <3>1. ASSUME NEW s \in Seq(Item) PROVE NoItem \notin In(s)
      <4>1. \A n \in 1 .. Len(s) : s[n] \in Item  OBVIOUS
      <4> QED  BY <4>1, LanesAssumption, Zenon DEF In, Item
    <3> QED  BY <3>1, Zenon DEF LanesTypes
  <2>2. \A l \in LaneId : Unrepeated(fifo'[l]) /\ lane'[l].msg \notin In(fifo'[l])
    BY <2>1, <1>1, <1>3, Zenon DEF HeldOnce
  <2>3. ASSUME NEW d \in DistThread, NEW l \in LaneId, dthread'[d].msg # NoItem,
               LaneHas(l, dthread[d].msg)'
        PROVE  l < dthread'[d].i
    <3>1. dthread[d].msg \in Msg  BY <2>3, <1>1, Zenon DEF LanesTypes, Distributor
    <3>2. LaneHas(l, dthread[d].msg)  BY <3>1, <2>3, <1>1, <1>3, LanesAssumption, Zenon DEF LaneHas
    <3> QED  BY <3>2, <2>3, <1>1, Zenon DEF HeldOnce
  <2> QED  BY <2>2, <2>3, Zenon DEF HeldOnce
<1>10. Counted'
  <2> SUFFICES ASSUME NEW k \in Msg
               PROVE  refcnt'[k] = (IF Distributing(k)' THEN 1 ELSE 0) + Cardinality(LanesWith(k)')
    BY Zenon DEF Counted
  <2>1. LanesWith(k) \in SUBSET LaneId  BY Zenon DEF LanesWith
  <2>2. Cardinality(LanesWith(k)) \in Nat  BY <2>1, LanesCount, Zenon
  <2>3. refcnt[k] = (IF Distributing(k) THEN 1 ELSE 0) + Cardinality(LanesWith(k))  BY Zenon DEF Counted
  <2>4. CASE k = m
    <3>1. LanesWith(m)' = LanesWith(m) \ {h} /\ h \in LanesWith(m)  BY <1>6, Zenon DEF LanesWith
    <3>2. Cardinality(LanesWith(m)') = Cardinality(LanesWith(m)) - 1
      BY <2>1, <2>4, <3>1, LanesCount, Zenon
    <3>3. refcnt'[m] = refcnt[m] - 1  BY <1>1, <1>2, Zenon DEF LanesTypes
    <3>4. CASE Distributing(k)  BY <2>2, <2>3, <2>4, <3>2, <3>3, <3>4, <1>6
    <3>5. CASE ~Distributing(k)  BY <2>2, <2>3, <2>4, <3>2, <3>3, <3>5, <1>6
    <3> QED  BY <3>4, <3>5, Zenon
  <2>5. CASE k # m
    <3>1. LanesWith(k)' = LanesWith(k)  BY <2>5, <1>6, Zenon DEF LanesWith
    <3>2. refcnt'[k] = refcnt[k]  BY <2>5, <1>1, <1>2, Zenon DEF LanesTypes
    <3>3. CASE Distributing(k)  BY <2>3, <3>1, <3>2, <3>3, <1>6, Zenon
    <3>4. CASE ~Distributing(k)  BY <2>3, <3>1, <3>2, <3>4, <1>6, Zenon
    <3> QED  BY <3>3, <3>4, Zenon
  <2> QED  BY <2>4, <2>5, Zenon
<1> QED  BY <1>4, <1>5, <1>7, <1>8, <1>9, <1>10, Zenon

\* A new lane has an empty FIFO, and a step that changes nothing keeps all.
LEMMA StillOK == ASSUME LanesInv, GetMyLane \/ UNCHANGED lanesVars PROVE LanesInv'
<1> USE DEF LanesInv
<1>1. UNCHANGED <<fifo, refcnt, fresh, dthread, lane>>  BY Zenon DEF GetMyLane, lanesVars
<1>2. nlanes' \in 0 .. LaneCount  BY LanesAssumption DEF GetMyLane, lanesVars, LanesTypes
<1>3. LanesTypes' /\ WorkersOK'  BY <1>1, <1>2, Zenon DEF LanesTypes, WorkersOK
<1>4. \A d \in DistThread : dthread'[d].msg = dthread[d].msg /\ dthread'[d].i >= dthread[d].i
  <2> SUFFICES ASSUME NEW d \in DistThread PROVE dthread[d].i >= dthread[d].i  BY <1>1, Zenon
  <2>1. dthread[d].i \in Int  BY DEF LanesTypes, Distributor
  <2> QED  BY <2>1
<1>5. \A l \in LaneId : Unrepeated(fifo'[l])  BY <1>1, Zenon DEF HeldOnce
<1> QED  BY <1>1, <1>3, <1>4, <1>5, NothingMoves, Zenon

\* The reference counts of the director's messages are exact in every state:
\* noit_metric_director_message_ref and _deref balance on every path.
THEOREM LanesInductive == LanesSpec => []LanesInv
<1>1. LanesInit => LanesInv  BY LanesInitOK, Zenon
<1>2. LanesInv /\ [LanesNext]_lanesVars => LanesInv'
  <2> SUFFICES ASSUME LanesInv, [LanesNext]_lanesVars PROVE LanesInv'  BY Zenon
  <2>1. CASE GetMyLane \/ UNCHANGED lanesVars  BY <2>1, StillOK, Zenon
  <2>2. ASSUME NEW d \in DistThread, DistThreadStep(d) PROVE LanesInv'
    BY <2>2, ReceiveOK, ConsiderOK, EnqueueOK, MessageDoneOK, Zenon DEF DistThreadStep
  <2>3. ASSUME NEW f \in Flush, FlushStep(f) PROVE LanesInv'  BY <2>3, FlushStepOK, Zenon
  <2>4. ASSUME NEW l \in LaneId, LaneStep(l) PROVE LanesInv'
    BY <2>4, DequeueOK, DecBacklogOK, ReleaseOK, Zenon DEF LaneStep
  <2> QED  BY <2>1, <2>2, <2>3, <2>4, Zenon DEF LanesNext
<1> QED  BY <1>1, <1>2, PTL DEF LanesSpec

\* No thread touches a freed message, whatever the number of lanes, threads,
\* messages and flushes: whoever has one (distribute_message_with_interests, a
\* FIFO, the caller of lane_next) keeps its reference count above zero.
THEOREM MessagesHeld == LanesSpec => []NoUseAfterFree
<1>1. LanesInv => NoUseAfterFree
  <2> SUFFICES ASSUME LanesInv, NEW m \in Msg,
                      Distributing(m) \/ \E l \in LaneId : LaneHas(l, m)
               PROVE  refcnt[m] > 0
    BY Zenon DEF NoUseAfterFree, Distributing, LaneHas, OnQueues, In
  <2>1. refcnt[m] = (IF Distributing(m) THEN 1 ELSE 0) + Cardinality(LanesWith(m))
    BY Zenon DEF LanesInv, Counted
  <2>2. LanesWith(m) \in SUBSET LaneId  BY Zenon DEF LanesWith
  <2>3. Cardinality(LanesWith(m)) \in Nat /\ (LanesWith(m) # {} => Cardinality(LanesWith(m)) # 0)
    BY <2>2, LanesCount, Zenon
  <2>4. Distributing(m) \/ LanesWith(m) # {}  BY Zenon DEF LanesWith
  <2> QED  BY <2>1, <2>3, <2>4
<1> QED  BY <1>1, LanesInductive, PTL

\* No message leaks: the last holder's release frees it.
THEOREM MessagesFreed == LanesSpec => []NoMessageLeak
<1>1. LanesInv => NoMessageLeak
  <2> SUFFICES ASSUME LanesInv, NEW m \in Msg \ fresh,
                      ~Distributing(m), \A l \in LaneId : ~LaneHas(l, m)
               PROVE  refcnt[m] = 0
    BY Zenon DEF NoMessageLeak, Distributing, LaneHas, OnQueues, In
  <2>1. refcnt[m] = (IF Distributing(m) THEN 1 ELSE 0) + Cardinality(LanesWith(m))
    BY Zenon DEF LanesInv, Counted
  <2>2. LanesWith(m) = {}  BY Zenon DEF LanesWith
  <2>3. Cardinality(LanesWith(m)) = 0  BY <2>2, LanesCount, Zenon
  <2> QED  BY <2>1, <2>3
<1> QED  BY <1>1, LanesInductive, PTL

-----------------------------------------------------------------------------
(***************************************************************************)
(* A flush of the metric director is a barrier that fires once, and a      *)
(* lane's backlog counter is exactly accounted for.                        *)
(*                                                                         *)
(* On top of who has which message the argument needs where a flush is in  *)
(* its loop over the lanes: the marker is in a lane at most once and only  *)
(* behind the caller's position, the reference count of the flush counts   *)
(* the markers, and what was distributed before the call has the marker    *)
(* behind it in every lane the caller has passed.                          *)
(***************************************************************************)

\* Every entry m of the sequence has an entry f behind it.
Behind(s, f, m) == \A n \in 1 .. Len(s) : s[n] = m => \E k \in n + 1 .. Len(s) : s[k] = f

\* The sequence has at most one entry f.
Once(s, f) == \A n, k \in 1 .. Len(s) : s[n] = f /\ s[k] = f => n = k

\* The lanes that hold the marker of a flush.
Marked(f) == {l \in LaneId : f \in In(fifo[l])}

FlushRecord == [pc : {"new", "loop", "enqueue", "end"}, i : 1 .. LaneCount + 1,
                refcnt : Int, fired : Int, before : SUBSET Msg]

FlushTypes ==
    /\ flush \in [Flush -> FlushRecord]
    /\ backlog \in [LaneId -> Int]
    /\ markersLeaked \in [LaneId -> Int]

\* A lane without a FIFO is empty, and nobody is about to queue to one.
NoFifoNoEntry ==
    /\ \A l \in LaneId : l > nlanes => fifo[l] = <<>>
    /\ \A d \in DistThread : dthread[d].to \subseteq 1 .. nlanes
    /\ \A d \in DistThread : dthread[d].pc \in {"inc", "enqueue"} => dthread[d].i \in dthread[d].to
    /\ \A f \in Flush : flush[f].pc = "enqueue" => flush[f].i <= nlanes

FlushPlace ==
    \A f \in Flush :
        /\ flush[f].pc = "new" => flush[f].i = 1
        /\ flush[f].pc = "enqueue" => flush[f].i <= LaneCount
        /\ flush[f].pc = "end" => flush[f].i = LaneCount + 1

\* A marker is put into a lane once, when the caller passes it.
MarkedOnce ==
    \A f \in Flush, l \in LaneId :
        /\ f \in In(fifo[l]) => l < flush[f].i
        /\ Once(fifo[l], f)

\* The reference count of a flush: the caller's own, the one it took for the
\* lane it is about to queue to, and one for every lane with the marker.
FlushCounted ==
    \A f \in Flush :
        flush[f].refcnt = (IF flush[f].pc \in {"loop", "enqueue"} THEN 1 ELSE 0)
                          + (IF flush[f].pc = "enqueue" THEN 1 ELSE 0)
                          + Cardinality(Marked(f))

FiredWhenDone ==
    \A f \in Flush :
        flush[f].fired = IF flush[f].pc = "end" /\ flush[f].refcnt = 0 THEN 1 ELSE 0

\* What was distributed before the flush is not distributed again, and in every
\* lane the caller has passed the marker is behind it.
BeforeMarked ==
    \A f \in Flush : \A m \in flush[f].before :
        /\ m \notin fresh /\ ~Distributing(m)
        /\ \A l \in LaneId : l < flush[f].i => Behind(fifo[l], f, m)

FlushInv ==
    /\ FlushTypes /\ NoFifoNoEntry /\ FlushPlace /\ MarkedOnce
    /\ FlushCounted /\ FiredWhenDone /\ BeforeMarked /\ BacklogAccount

\* The threads that have counted an entry of the lane and not queued it yet.
Queuing(l) == {d \in DistThread : dthread[d].pc = "enqueue" /\ dthread[d].i = l}
Marking(l) == {f \in Flush : flush[f].pc = "enqueue" /\ flush[f].i = l}

Decs(l) == IF lane[l].pc = "dec" THEN 1 ELSE 0

\* The backlog of one lane, as BacklogAccount has it.
BacklogOf(l) ==
    backlog[l] = Len(fifo[l]) + (Cardinality(Queuing(l)) + Cardinality(Marking(l)) + Decs(l))
                 + markersLeaked[l]

\* BacklogAccount, lane by lane, in the names of this module.
LEMMA BacklogByLane ==
    /\ BacklogAccount <=> \A l \in LaneId : BacklogOf(l)
    /\ BacklogAccount' <=> \A l \in LaneId : BacklogOf(l)'
BY Zenon DEF BacklogAccount, BacklogOf, InTransit, Queuing, Marking, Decs

\* Subsets of a finite set are counted one element at a time.
LEMMA CountByOne ==
    ASSUME NEW T, IsFiniteSet(T), NEW S \in SUBSET T
    PROVE  /\ Cardinality(S) \in Nat
           /\ S = {} <=> Cardinality(S) = 0
           /\ \A x \in T \ S : Cardinality(S \cup {x}) = Cardinality(S) + 1
           /\ \A x \in S : Cardinality(S \ {x}) = Cardinality(S) - 1
<1>1. IsFiniteSet(S)  BY FS_Subset, Zenon
<1> QED  BY <1>1, FS_CardinalityType, FS_EmptySet, FS_AddElement, FS_RemoveElement, Zenon

\* The parts of a backlog are natural numbers.
LEMMA BacklogParts ==
    ASSUME LanesInv, FlushTypes, NEW l \in LaneId
    PROVE  /\ Len(fifo[l]) \in Nat /\ backlog[l] \in Int /\ markersLeaked[l] \in Int
           /\ Queuing(l) \in SUBSET DistThread /\ Cardinality(Queuing(l)) \in Nat
           /\ Marking(l) \in SUBSET Flush /\ Cardinality(Marking(l)) \in Nat
           /\ Decs(l) \in Nat
<1>1. Queuing(l) \in SUBSET DistThread /\ Marking(l) \in SUBSET Flush  BY Zenon DEF Queuing, Marking
<1>2. Cardinality(Queuing(l)) \in Nat /\ Cardinality(Marking(l)) \in Nat
  BY <1>1, CountByOne, LanesAssumption, Zenon
<1>3. fifo[l] \in Seq(Item)  BY Zenon DEF LanesInv, LanesTypes
<1> QED  BY <1>1, <1>2, <1>3 DEF FlushTypes, Decs

\* What an Append does to Behind: an entry other than m keeps it, the marker
\* itself establishes it.
LEMMA BehindAppend ==
    ASSUME NEW s \in Seq(Item), NEW x \in Item, NEW f \in Item, NEW m \in Item, x # m
    PROVE  /\ Behind(s, f, m) => Behind(Append(s, x), f, m)
           /\ x = f => Behind(Append(s, x), f, m)
<1> DEFINE t == Append(s, x)
<1>1. Len(t) = Len(s) + 1 /\ Len(s) \in Nat /\ t[Len(s) + 1] = x
      /\ \A n \in 1 .. Len(s) : t[n] = s[n]
  OBVIOUS
<1> HIDE DEF t
<1>2. ASSUME NEW n \in 1 .. Len(t), t[n] = m PROVE n \in 1 .. Len(s) /\ s[n] = m
  BY <1>1, <1>2
<1>3. ASSUME Behind(s, f, m) PROVE Behind(t, f, m)
  <2> SUFFICES ASSUME NEW n \in 1 .. Len(t), t[n] = m
               PROVE  \E k \in n + 1 .. Len(t) : t[k] = f
    BY Zenon DEF Behind
  <2>1. n \in 1 .. Len(s) /\ s[n] = m  BY <1>2, Zenon
  <2>2. PICK k \in n + 1 .. Len(s) : s[k] = f  BY <1>3, <2>1, Zenon DEF Behind
  <2>3. k \in n + 1 .. Len(t) /\ t[k] = f  BY <1>1, <2>1, <2>2
  <2> QED  BY <2>3, Zenon
<1>4. ASSUME x = f PROVE Behind(t, f, m)
  <2> SUFFICES ASSUME NEW n \in 1 .. Len(t), t[n] = m
               PROVE  \E k \in n + 1 .. Len(t) : t[k] = f
    BY Zenon DEF Behind
  <2>1. n \in 1 .. Len(s)  BY <1>2, Zenon
  <2>2. Len(s) + 1 \in n + 1 .. Len(t) /\ t[Len(s) + 1] = f  BY <1>1, <1>4, <2>1
  <2> QED  BY <2>2, Zenon
<1> QED  BY <1>3, <1>4, Zenon DEF t

\* Taking the first entry keeps Behind.
LEMMA BehindTail ==
    ASSUME NEW s \in Seq(Item), s # <<>>, NEW f, NEW m, Behind(s, f, m)
    PROVE  Behind(Tail(s), f, m)
<1> DEFINE t == Tail(s)
<1>1. Len(t) = Len(s) - 1 /\ Len(s) \in Nat \ {0} /\ \A n \in 1 .. Len(t) : t[n] = s[n + 1]
  OBVIOUS
<1> HIDE DEF t
<1>2. ASSUME NEW n \in 1 .. Len(t), t[n] = m PROVE \E k \in n + 1 .. Len(t) : t[k] = f
  <2>1. n + 1 \in 1 .. Len(s) /\ s[n + 1] = m  BY <1>1, <1>2
  <2>2. PICK k \in n + 1 + 1 .. Len(s) : s[k] = f  BY <2>1, Zenon DEF Behind
  <2>3. k - 1 \in n + 1 .. Len(t) /\ t[k - 1] = f  BY <1>1, <2>1, <2>2
  <2> QED  BY <2>3, Zenon
<1> QED  BY <1>2, Zenon DEF Behind, t

\* An entry that occurs once is gone when the first entry was it, and others
\* keep their number of occurrences.
LEMMA OnceTail ==
    ASSUME NEW s \in Seq(Item), s # <<>>, NEW f, Once(s, f)
    PROVE  /\ Once(Tail(s), f)
           /\ f \in In(Tail(s)) <=> f \in In(s) /\ f # Head(s)
<1> DEFINE t == Tail(s)
<1>1. Len(t) = Len(s) - 1 /\ Len(s) \in Nat \ {0} /\ Head(s) = s[1]
      /\ \A n \in 1 .. Len(t) : t[n] = s[n + 1]
  OBVIOUS
<1> HIDE DEF t
<1>2. Once(t, f)
  <2> SUFFICES ASSUME NEW n \in 1 .. Len(t), NEW k \in 1 .. Len(t), t[n] = f, t[k] = f
               PROVE  n = k
    BY Zenon DEF Once
  <2>1. n + 1 \in 1 .. Len(s) /\ k + 1 \in 1 .. Len(s) /\ s[n + 1] = f /\ s[k + 1] = f  BY <1>1
  <2>2. n + 1 = k + 1  BY <2>1, Zenon DEF Once
  <2> QED  BY <2>2
<1>3. ASSUME f \in In(t) PROVE f \in In(s) /\ f # Head(s)
  <2>1. PICK n \in 1 .. Len(t) : t[n] = f  BY <1>3, Zenon DEF In
  <2>2. n + 1 \in 1 .. Len(s) /\ s[n + 1] = f /\ 1 \in 1 .. Len(s) /\ n + 1 # 1  BY <2>1, <1>1
  <2> QED  BY <2>2, <1>1, Zenon DEF In, Once
<1>4. ASSUME f \in In(s), f # Head(s) PROVE f \in In(t)
  <2>1. PICK n \in 1 .. Len(s) : s[n] = f  BY <1>4, Zenon DEF In
  <2>2. n # 1  BY <2>1, <1>1, <1>4, Zenon
  <2>3. n - 1 \in 1 .. Len(t) /\ t[n - 1] = f  BY <2>1, <2>2, <1>1
  <2> QED  BY <2>3, Zenon DEF In
<1> QED  BY <1>2, <1>3, <1>4, Zenon DEF t

\* An item that is not in a queue, or another one, may be appended: every marker
\* still occurs at most once.
LEMMA OnceAppend ==
    ASSUME NEW s \in Seq(Item), NEW x \in Item, NEW f, Once(s, f), x = f => f \notin In(s)
    PROVE  Once(Append(s, x), f)
<1> DEFINE t == Append(s, x)
<1>1. Len(t) = Len(s) + 1 /\ Len(s) \in Nat /\ t[Len(s) + 1] = x
      /\ \A n \in 1 .. Len(s) : t[n] = s[n]
  OBVIOUS
<1> HIDE DEF t
<1>2. ASSUME NEW n \in 1 .. Len(t), NEW k \in 1 .. Len(t), t[n] = f, t[k] = f PROVE n = k
  <2>1. CASE n \in 1 .. Len(s) /\ k \in 1 .. Len(s)  BY <2>1, <1>1, <1>2, Zenon DEF Once
  <2>2. CASE n = Len(s) + 1 /\ k \in 1 .. Len(s)
    <3>1. x = f /\ s[k] = f  BY <2>2, <1>1, <1>2, Zenon
    <3> QED  BY <3>1, <2>2, Zenon DEF In
  <2>3. CASE n \in 1 .. Len(s) /\ k = Len(s) + 1
    <3>1. x = f /\ s[n] = f  BY <2>3, <1>1, <1>2, Zenon
    <3> QED  BY <3>1, <2>3, Zenon DEF In
  <2> QED  BY <2>1, <2>2, <2>3, <1>1
<1> QED  BY <1>2, Zenon DEF Once, t

\* The first state: no flush has been called and every counter is zero.
LEMMA FlushInitOK == LanesInit => FlushInv
<1> SUFFICES ASSUME LanesInit PROVE FlushInv  BY Zenon
<1> USE LanesAssumption DEF LanesInit
<1>0. LanesInv  BY LanesInitOK, Zenon
<1>1. FlushTypes  BY DEF FlushTypes, FlushRecord
<1>2. \A f \in Flush : flush[f].pc = "new" /\ flush[f].i = 1 /\ flush[f].refcnt = 0
                       /\ flush[f].fired = 0 /\ flush[f].before = {}
  BY Zenon
<1>3. \A l \in LaneId : fifo[l] = <<>> /\ Len(fifo[l]) = 0 /\ In(fifo[l]) = {}  BY DEF In
<1>4. \A d \in DistThread : dthread[d].pc = "idle" /\ dthread[d].to = {}  BY Zenon DEF IdleDistributor
<1>5. NoFifoNoEntry  BY <1>2, <1>3, <1>4, Zenon DEF NoFifoNoEntry
<1>6. FlushPlace /\ MarkedOnce  BY <1>2, <1>3 DEF FlushPlace, MarkedOnce, Once
<1>7. FlushCounted
  <2> SUFFICES ASSUME NEW f \in Flush PROVE Cardinality(Marked(f)) = 0  BY <1>2 DEF FlushCounted
  <2>1. Marked(f) = {}  BY <1>3, Zenon DEF Marked
  <2> QED  BY <2>1, LanesCount, Zenon
<1>8. FiredWhenDone /\ BeforeMarked  BY <1>2, Zenon DEF FiredWhenDone, BeforeMarked
<1>9. BacklogAccount
  <2> SUFFICES ASSUME NEW l \in LaneId PROVE BacklogOf(l)  BY BacklogByLane, Zenon
  <2>1. Queuing(l) = {} /\ Marking(l) = {}  BY <1>2, <1>4, Zenon DEF Queuing, Marking
  <2>2. Cardinality(Queuing(l)) = 0 /\ Cardinality(Marking(l)) = 0
    BY <2>1, <1>0, <1>1, BacklogParts, CountByOne, Zenon
  <2>3. lane[l].pc = "idle" /\ backlog[l] = 0 /\ markersLeaked[l] = 0  BY Zenon
  <2> QED  BY <2>2, <2>3, <1>3 DEF BacklogOf, Decs
<1> QED  BY <1>1, <1>5, <1>6, <1>7, <1>8, <1>9, Zenon DEF FlushInv

\* A step that leaves the FIFOs and the flushes alone and makes no distributed
\* message new again keeps all that is said about flushes.
LEMMA FlushesUntouched ==
    ASSUME FlushInv, FlushTypes', NoFifoNoEntry', BacklogAccount', UNCHANGED <<fifo, flush>>,
           \A m \in Msg : m \notin fresh /\ ~Distributing(m) => m \notin fresh' /\ ~Distributing(m)'
    PROVE  FlushInv'
<1>1. FlushPlace' /\ MarkedOnce' /\ FiredWhenDone'
  BY Zenon DEF FlushInv, FlushPlace, MarkedOnce, FiredWhenDone
<1>2. FlushCounted'
  <2>1. \A f \in Flush : Marked(f)' = Marked(f)  BY Zenon DEF Marked
  <2> QED  BY <2>1, Zenon DEF FlushInv, FlushCounted
<1>3. BeforeMarked'
  <2>1. \A f \in Flush : flush[f].before \subseteq Msg  BY Zenon DEF FlushInv, FlushTypes, FlushRecord
  <2> QED  BY <2>1, Zenon DEF FlushInv, BeforeMarked
<1> QED  BY <1>1, <1>2, <1>3, Zenon DEF FlushInv

\* The backlog of every lane is untouched.
LEMMA BacklogUntouched ==
    ASSUME BacklogAccount, UNCHANGED <<fifo, backlog, flush, markersLeaked>>,
           \A d \in DistThread : dthread'[d].pc = "enqueue" <=> dthread[d].pc = "enqueue",
           \A d \in DistThread : dthread[d].pc = "enqueue" => dthread'[d].i = dthread[d].i,
           \A l \in LaneId : lane'[l].pc = "dec" <=> lane[l].pc = "dec"
    PROVE  BacklogAccount'
<1> SUFFICES ASSUME NEW l \in LaneId PROVE BacklogOf(l)'  BY BacklogByLane, Zenon
<1>1. Queuing(l)' = Queuing(l) /\ Marking(l)' = Marking(l)  BY Zenon DEF Queuing, Marking
<1>2. BacklogOf(l)  BY BacklogByLane, Zenon
<1> QED  BY <1>1, <1>2, Zenon DEF BacklogOf, Decs

\* A new lane, or nothing.
LEMMA FlushStillOK == ASSUME LanesInv, FlushInv, GetMyLane \/ UNCHANGED lanesVars PROVE FlushInv'
<1>1. UNCHANGED <<fifo, backlog, refcnt, fresh, dthread, lane, flush, markersLeaked>>
      /\ nlanes' \in Nat /\ nlanes \in Nat /\ nlanes' >= nlanes
  BY LanesAssumption DEF GetMyLane, lanesVars, LanesInv, LanesTypes
<1>2. FlushTypes'  BY <1>1, Zenon DEF FlushInv, FlushTypes
<1>3. NoFifoNoEntry'
  <2>1. \A l \in LaneId : l \in Nat /\ (l > nlanes' => l > nlanes)  BY <1>1, LanesAssumption DEF LaneId
  <2>2. 1 .. nlanes \subseteq 1 .. nlanes'  BY <1>1
  <2>3. \A f \in Flush : flush[f].i \in Nat  BY DEF FlushInv, FlushTypes, FlushRecord
  <2> QED  BY <1>1, <2>1, <2>2, <2>3 DEF FlushInv, NoFifoNoEntry
<1>4. BacklogAccount'  BY <1>1, BacklogUntouched, Zenon DEF FlushInv
<1>5. \A m \in Msg : Distributing(m)' <=> Distributing(m)  BY <1>1, Zenon DEF Distributing
<1> QED  BY <1>1, <1>2, <1>3, <1>4, <1>5, FlushesUntouched, Zenon

\* A message is received: it was not distributed before.
LEMMA FlushReceiveOK == ASSUME LanesInv, LanesInv', FlushInv, NEW d \in DistThread, Receive(d) PROVE FlushInv'
<1>1. PICK m \in fresh, to \in SUBSET (1 .. nlanes) :
        /\ fresh' = fresh \ {m}
        /\ dthread' = [dthread EXCEPT ![d] = [pc |-> "loop", msg |-> m, to |-> to, i |-> 1]]
  BY Zenon DEF Receive
<1>2. UNCHANGED <<nlanes, fifo, backlog, lane, flush, markersLeaked>> /\ dthread[d].pc = "idle"
  BY Zenon DEF Receive
<1>3. dthread'[d] = [pc |-> "loop", msg |-> m, to |-> to, i |-> 1]
      /\ \A e \in DistThread \ {d} : dthread'[e] = dthread[e]
  BY <1>1, Zenon DEF LanesInv, LanesTypes
<1>4. FlushTypes'  BY <1>2, Zenon DEF FlushInv, FlushTypes
<1>5. NoFifoNoEntry'  BY <1>2, <1>3 DEF FlushInv, NoFifoNoEntry
<1>6. BacklogAccount'  BY <1>2, <1>3, BacklogUntouched DEF FlushInv
<1>7. \A k \in Msg : k \notin fresh /\ ~Distributing(k) => k \notin fresh' /\ ~Distributing(k)'
  BY <1>1, <1>3 DEF Distributing
<1> QED  BY <1>2, <1>4, <1>5, <1>6, <1>7, FlushesUntouched, Zenon

\* The distributor looks at a lane.
LEMMA FlushConsiderOK == ASSUME LanesInv, FlushInv, NEW d \in DistThread, Consider(d) PROVE FlushInv'
<1>1. UNCHANGED <<nlanes, fifo, backlog, fresh, lane, flush, markersLeaked>> /\ dthread[d].pc = "loop"
  BY Zenon DEF Consider
<1>2. dthread[d] \in Distributor /\ dthread \in [DistThread -> Distributor]
  BY Zenon DEF LanesInv, LanesTypes
<1>3. /\ dthread'[d].to = dthread[d].to /\ dthread'[d].msg = dthread[d].msg
      /\ dthread'[d].pc # "enqueue"
      /\ dthread'[d].pc = "inc" => dthread'[d].i \in dthread'[d].to
      /\ \A e \in DistThread \ {d} : dthread'[e] = dthread[e]
  <2>1. CASE dthread' = [dthread EXCEPT ![d].i = @ + 1]  BY <2>1, <1>1, <1>2, Zenon DEF Distributor
  <2>2. CASE dthread' = [dthread EXCEPT ![d].pc = "inc"] /\ dthread[d].i \in dthread[d].to
    BY <2>2, <1>1, <1>2, Zenon DEF Distributor
  <2> QED  BY <2>1, <2>2, Zenon DEF Consider
<1>4. FlushTypes'  BY <1>1, Zenon DEF FlushInv, FlushTypes
<1>5. NoFifoNoEntry'
  <2>1. \A e \in DistThread : dthread'[e].to = dthread[e].to  BY <1>3, Zenon
  <2>2. \A e \in DistThread : dthread'[e].pc \in {"inc", "enqueue"} => dthread'[e].i \in dthread'[e].to
    BY <1>3, Zenon DEF FlushInv, NoFifoNoEntry
  <2> QED  BY <1>1, <2>1, <2>2, Zenon DEF FlushInv, NoFifoNoEntry
<1>6. BacklogAccount'  BY <1>1, <1>3, BacklogUntouched, Zenon DEF FlushInv
<1>7. \A m \in Msg : Distributing(m)' <=> Distributing(m)  BY <1>3, Zenon DEF Distributing
<1> QED  BY <1>1, <1>4, <1>5, <1>6, <1>7, FlushesUntouched, Zenon

\* The lane is counted before the message is queued.
LEMMA FlushIncOK == ASSUME LanesInv, FlushInv, NEW d \in DistThread, IncBacklog(d) PROVE FlushInv'
<1>1. /\ UNCHANGED <<nlanes, fifo, fresh, lane, flush, markersLeaked>> /\ dthread[d].pc = "inc"
      /\ backlog' = [backlog EXCEPT ![dthread[d].i] = @ + 1]
      /\ dthread' = [dthread EXCEPT ![d].pc = "enqueue"]
  BY Zenon DEF IncBacklog
<1>2. dthread[d] \in Distributor /\ dthread \in [DistThread -> Distributor]
  BY Zenon DEF LanesInv, LanesTypes
<1>3. PICK h \in LaneId : h = dthread[d].i
  BY <1>1, <1>2 DEF LanesInv, WorkersOK, Distributor, LaneId
<1>4. /\ dthread'[d].to = dthread[d].to /\ dthread'[d].msg = dthread[d].msg
      /\ dthread'[d].pc = "enqueue" /\ dthread'[d].i = h
      /\ \A e \in DistThread \ {d} : dthread'[e] = dthread[e]
  BY <1>1, <1>2, <1>3, Zenon DEF Distributor
<1>5. FlushTypes /\ FlushTypes'  BY <1>1, <1>3 DEF FlushInv, FlushTypes
<1>6. NoFifoNoEntry'
  <2>1. \A e \in DistThread : dthread'[e].to = dthread[e].to  BY <1>4, Zenon
  <2>2. \A e \in DistThread : dthread'[e].pc \in {"inc", "enqueue"} => dthread'[e].i \in dthread'[e].to
    BY <1>1, <1>3, <1>4, Zenon DEF FlushInv, NoFifoNoEntry
  <2> QED  BY <1>1, <2>1, <2>2, Zenon DEF FlushInv, NoFifoNoEntry
<1>7. BacklogAccount'
  <2> SUFFICES ASSUME NEW l \in LaneId PROVE BacklogOf(l)'  BY BacklogByLane, Zenon
  <2>1. BacklogOf(l)  BY BacklogByLane, Zenon DEF FlushInv
  <2>2. Marking(l)' = Marking(l)  BY <1>1, Zenon DEF Marking
  <2>3. CASE l = h
    <3>1. Queuing(l)' = Queuing(l) \cup {d} /\ d \notin Queuing(l)
      BY <2>3, <1>1, <1>4, Zenon DEF Queuing
    <3>2. Cardinality(Queuing(l)') = Cardinality(Queuing(l)) + 1
      BY <3>1, <1>5, BacklogParts, CountByOne, LanesAssumption
    <3>3. backlog'[l] = backlog[l] + 1  BY <2>3, <1>1, <1>3, <1>5, Zenon DEF FlushTypes
    <3>4. fifo'[l] = fifo[l] /\ Decs(l)' = Decs(l) /\ markersLeaked'[l] = markersLeaked[l]
      BY <1>1, Zenon DEF Decs
    <3>5. Decs(l) \in Nat /\ Cardinality(Queuing(l)) \in Nat /\ Cardinality(Marking(l)) \in Nat
          /\ Len(fifo[l]) \in Nat /\ markersLeaked[l] \in Int
      BY <1>5, BacklogParts, Zenon
    <3> QED  BY <2>1, <2>2, <3>2, <3>3, <3>4, <3>5 DEF BacklogOf
  <2>4. CASE l # h
    <3>1. Queuing(l)' = Queuing(l)  BY <2>4, <1>1, <1>4, Zenon DEF Queuing
    <3>2. backlog'[l] = backlog[l]  BY <2>4, <1>1, <1>3, <1>5, Zenon DEF FlushTypes
    <3> QED  BY <2>1, <2>2, <3>1, <3>2, <1>1, Zenon DEF BacklogOf, Decs
  <2> QED  BY <2>3, <2>4, Zenon
<1>8. \A m \in Msg : Distributing(m)' <=> Distributing(m)  BY <1>4, Zenon DEF Distributing
<1> QED  BY <1>1, <1>5, <1>6, <1>7, <1>8, FlushesUntouched, Zenon

\* A message goes into a lane.  It is being distributed, so it is none of those
\* a flush has to wait for, and the increment that waited becomes an entry.
LEMMA FlushEnqueueMsgOK == ASSUME LanesInv, FlushInv, NEW d \in DistThread, Enqueue(d) PROVE FlushInv'
<1>1. /\ UNCHANGED <<nlanes, backlog, fresh, lane, flush, markersLeaked>> /\ dthread[d].pc = "enqueue"
      /\ fifo' = [fifo EXCEPT ![dthread[d].i] = Append(@, dthread[d].msg)]
      /\ dthread' = [dthread EXCEPT ![d].pc = "loop", ![d].i = @ + 1]
  BY Zenon DEF Enqueue
<1>2. dthread[d] \in Distributor /\ dthread \in [DistThread -> Distributor]
      /\ fifo \in [LaneId -> Seq(Item)]
  BY Zenon DEF LanesInv, LanesTypes
<1>3. PICK m \in Msg, h \in LaneId : m = dthread[d].msg /\ h = dthread[d].i
  BY <1>1, <1>2 DEF LanesInv, WorkersOK, Distributor, LaneId
<1>4. /\ dthread'[d].to = dthread[d].to /\ dthread'[d].msg = m /\ dthread'[d].pc = "loop"
      /\ \A e \in DistThread \ {d} : dthread'[e] = dthread[e]
  BY <1>1, <1>2, <1>3, Zenon DEF Distributor
<1>5. m \in Item /\ m \notin Flush /\ fifo[h] \in Seq(Item)  BY <1>2, <1>3, LanesAssumption, Zenon DEF Item
<1>6. /\ fifo'[h] = Append(fifo[h], m) /\ In(fifo'[h]) = In(fifo[h]) \cup {m}
      /\ Len(fifo'[h]) = Len(fifo[h]) + 1
      /\ \A l \in LaneId \ {h} : fifo'[l] = fifo[l]
  <2>1. fifo'[h] = Append(fifo[h], m) /\ \A l \in LaneId \ {h} : fifo'[l] = fifo[l]
    BY <1>1, <1>2, <1>3, Zenon
  <2> QED  BY <2>1, <1>5, AppendQueue
<1>7. FlushTypes /\ FlushTypes'  BY <1>1, Zenon DEF FlushInv, FlushTypes
<1>8. NoFifoNoEntry'
  <2>1. \A e \in DistThread : dthread'[e].to = dthread[e].to  BY <1>4, Zenon
  <2>2. \A e \in DistThread : dthread'[e].pc \in {"inc", "enqueue"} => dthread'[e].i \in dthread'[e].to
    BY <1>4, Zenon DEF FlushInv, NoFifoNoEntry
  <2>3. nlanes \in Nat  BY LanesAssumption DEF LanesInv, LanesTypes
  <2>6. h \in 1 .. nlanes  BY <1>1, <1>3, Zenon DEF FlushInv, NoFifoNoEntry
  <2>4. ~(h > nlanes)  BY <2>3, <2>6
  <2>5. \A l \in LaneId : l > nlanes => fifo'[l] = <<>>  BY <2>4, <1>6, Zenon DEF FlushInv, NoFifoNoEntry
  <2> QED  BY <1>1, <2>1, <2>2, <2>5, Zenon DEF FlushInv, NoFifoNoEntry
<1>9. FlushPlace' /\ FiredWhenDone'  BY <1>1, Zenon DEF FlushInv, FlushPlace, FiredWhenDone
<1>10. \A f \in Flush, l \in LaneId : f \in In(fifo'[l]) <=> f \in In(fifo[l])  BY Zenon, <1>5, <1>6
<1>11. MarkedOnce'
  <2> SUFFICES ASSUME NEW f \in Flush, NEW l \in LaneId
               PROVE  (f \in In(fifo'[l]) => l < flush'[f].i) /\ Once(fifo'[l], f)
    BY Zenon DEF MarkedOnce
  <2>1. Once(fifo[l], f) /\ (f \in In(fifo[l]) => l < flush[f].i)  BY Zenon DEF FlushInv, MarkedOnce
  <2>2. Once(fifo'[l], f)  BY <2>1, <1>5, <1>6, OnceAppend, Zenon
  <2> QED  BY <2>1, <2>2, <1>1, <1>10, Zenon
<1>12. FlushCounted'
  <2>1. \A f \in Flush : Marked(f)' = Marked(f)  BY <1>10, Zenon DEF Marked
  <2> QED  BY <2>1, <1>1, Zenon DEF FlushInv, FlushCounted
<1>13. BeforeMarked'
  <2> SUFFICES ASSUME NEW f \in Flush, NEW k \in flush[f].before
               PROVE  /\ k \notin fresh /\ ~Distributing(k)'
                      /\ \A l \in LaneId : l < flush[f].i => Behind(fifo'[l], f, k)
    BY <1>1, Zenon DEF BeforeMarked
  <2>1. k \notin fresh /\ ~Distributing(k)
        /\ \A l \in LaneId : l < flush[f].i => Behind(fifo[l], f, k)
    BY Zenon DEF FlushInv, BeforeMarked
  <2>2. k # m  BY <2>1, <1>3, Zenon DEF Distributing
  <2>3. ~Distributing(k)'  BY <2>1, <2>2, <1>4, Zenon DEF Distributing
  <2>4. k \in Item /\ f \in Item  BY <1>7, Zenon DEF FlushTypes, FlushRecord, Item
  <2>5. ASSUME NEW l \in LaneId, l < flush[f].i PROVE Behind(fifo'[l], f, k)
    <3>1. CASE l = h  BY <3>1, <2>1, <2>2, <2>4, <2>5, <1>5, <1>6, BehindAppend, Zenon
    <3>2. CASE l # h  BY <3>2, <2>1, <2>5, <1>6, Zenon
    <3> QED  BY <3>1, <3>2, Zenon
  <2> QED  BY <2>1, <2>3, <2>5, Zenon
<1>14. BacklogAccount'
  <2> SUFFICES ASSUME NEW l \in LaneId PROVE BacklogOf(l)'  BY BacklogByLane, Zenon
  <2>1. BacklogOf(l)  BY BacklogByLane, Zenon DEF FlushInv
  <2>2. Marking(l)' = Marking(l) /\ Decs(l)' = Decs(l) /\ markersLeaked'[l] = markersLeaked[l]
        /\ backlog'[l] = backlog[l]
    BY <1>1, Zenon DEF Marking, Decs
  <2>3. CASE l = h
    <3>1. Queuing(l)' = Queuing(l) \ {d} /\ d \in Queuing(l)
      BY <2>3, <1>1, <1>3, <1>4, Zenon DEF Queuing
    <3>2. Cardinality(Queuing(l)') = Cardinality(Queuing(l)) - 1
      BY <3>1, <1>7, BacklogParts, CountByOne, LanesAssumption
    <3>3. Decs(l) \in Nat /\ Cardinality(Queuing(l)) \in Nat /\ Cardinality(Marking(l)) \in Nat
          /\ Len(fifo[l]) \in Nat /\ markersLeaked[l] \in Int
      BY <1>7, BacklogParts, Zenon
    <3> QED  BY <2>1, <2>2, <2>3, <3>2, <3>3, <1>6 DEF BacklogOf
  <2>4. CASE l # h
    <3>1. Queuing(l)' = Queuing(l)  BY <2>4, <1>1, <1>3, <1>4, Zenon DEF Queuing
    <3> QED  BY <2>1, <2>2, <2>4, <3>1, <1>6, Zenon DEF BacklogOf
  <2> QED  BY <2>3, <2>4, Zenon
<1> QED  BY <1>7, <1>8, <1>9, <1>11, <1>12, <1>13, <1>14, Zenon DEF FlushInv

\* The distributor is done with a message.
LEMMA FlushMessageDoneOK == ASSUME LanesInv, FlushInv, NEW d \in DistThread, MessageDone(d) PROVE FlushInv'
<1>1. /\ UNCHANGED <<nlanes, fifo, backlog, fresh, lane, flush, markersLeaked>>
      /\ dthread[d].pc = "loop" /\ dthread' = [dthread EXCEPT ![d] = IdleDistributor]
  BY Zenon DEF MessageDone
<1>2. dthread'[d] = IdleDistributor /\ \A e \in DistThread \ {d} : dthread'[e] = dthread[e]
  BY <1>1, Zenon DEF LanesInv, LanesTypes
<1>3. dthread'[d].pc = "idle" /\ dthread'[d].to = {} /\ dthread'[d].msg = NoItem
  BY <1>2 DEF IdleDistributor
<1>4. FlushTypes'  BY <1>1, Zenon DEF FlushInv, FlushTypes
<1>5. NoFifoNoEntry'  BY <1>1, <1>2, <1>3, Zenon DEF FlushInv, NoFifoNoEntry
<1>6. BacklogAccount'  BY <1>1, <1>2, <1>3, BacklogUntouched, Zenon DEF FlushInv
<1>7. \A m \in Msg : ~Distributing(m) => ~Distributing(m)'
  BY <1>2, <1>3, LanesAssumption, Zenon DEF Distributing
<1> QED  BY <1>1, <1>4, <1>5, <1>6, <1>7, FlushesUntouched, Zenon

\* A lane's thread counts down, or gives its message back.
LEMMA FlushDecOK == ASSUME LanesInv, FlushInv, NEW h \in LaneId, DecBacklog(h) PROVE FlushInv'
<1>1. /\ UNCHANGED <<nlanes, fifo, fresh, dthread, flush, markersLeaked>> /\ lane[h].pc = "dec"
      /\ backlog' = [backlog EXCEPT ![h] = @ - 1]
      /\ lane' = [lane EXCEPT ![h].pc = "use"]
  BY Zenon DEF DecBacklog
<1>2. lane'[h].pc = "use" /\ \A l \in LaneId \ {h} : lane'[l] = lane[l]
  BY <1>1, Zenon DEF LanesInv, LanesTypes
<1>3. FlushTypes /\ FlushTypes'  BY <1>1 DEF FlushInv, FlushTypes
<1>4. NoFifoNoEntry'  BY <1>1, Zenon DEF FlushInv, NoFifoNoEntry
<1>5. BacklogAccount'
  <2> SUFFICES ASSUME NEW l \in LaneId PROVE BacklogOf(l)'  BY BacklogByLane, Zenon
  <2>1. BacklogOf(l)  BY BacklogByLane, Zenon DEF FlushInv
  <2>2. Marking(l)' = Marking(l) /\ Queuing(l)' = Queuing(l) /\ markersLeaked'[l] = markersLeaked[l]
        /\ fifo'[l] = fifo[l]
    BY <1>1, Zenon DEF Marking, Queuing
  <2>3. CASE l = h
    <3>1. Decs(l) = 1 /\ Decs(l)' = 0  BY <2>3, <1>1, <1>2, Zenon DEF Decs
    <3>2. backlog'[l] = backlog[l] - 1  BY <2>3, <1>1, <1>3, Zenon DEF FlushTypes
    <3>3. Cardinality(Queuing(l)) \in Nat /\ Cardinality(Marking(l)) \in Nat
          /\ Len(fifo[l]) \in Nat /\ markersLeaked[l] \in Int
      BY <1>3, BacklogParts, Zenon
    <3> QED  BY <2>1, <2>2, <3>1, <3>2, <3>3 DEF BacklogOf
  <2>4. CASE l # h
    <3>1. Decs(l)' = Decs(l) /\ backlog'[l] = backlog[l]
      BY <2>4, <1>1, <1>2, <1>3, Zenon DEF Decs, FlushTypes
    <3> QED  BY <2>1, <2>2, <3>1, Zenon DEF BacklogOf
  <2> QED  BY <2>3, <2>4, Zenon
<1>6. \A m \in Msg : Distributing(m)' <=> Distributing(m)  BY <1>1, Zenon DEF Distributing
<1> QED  BY <1>1, <1>3, <1>4, <1>5, <1>6, FlushesUntouched, Zenon

\* A lane that releases its message changes no queue and no flush.
LEMMA FlushReleaseOK == ASSUME LanesInv, FlushInv, NEW h \in LaneId, Release(h) PROVE FlushInv'
<1>1. /\ UNCHANGED <<nlanes, fifo, backlog, fresh, dthread, flush, markersLeaked>> /\ lane[h].pc = "use"
      /\ lane' = [lane EXCEPT ![h] = [pc |-> "idle", msg |-> NoItem]]
  BY Zenon DEF Release
<1>2. lane'[h].pc = "idle" /\ \A l \in LaneId \ {h} : lane'[l] = lane[l]
  BY <1>1, Zenon DEF LanesInv, LanesTypes
<1>3. FlushTypes'  BY <1>1, Zenon DEF FlushInv, FlushTypes
<1>4. NoFifoNoEntry'  BY <1>1, Zenon DEF FlushInv, NoFifoNoEntry
<1>5. BacklogAccount'  BY <1>1, <1>2, BacklogUntouched, Zenon DEF FlushInv
<1>6. \A m \in Msg : Distributing(m)' <=> Distributing(m)  BY <1>1, Zenon DEF Distributing
<1> QED  BY <1>1, <1>3, <1>4, <1>5, <1>6, FlushesUntouched, Zenon

\* A step of one flush: what changes is its own record, and the record keeps
\* its place in the loop.
LEMMA FlushBeginOK == ASSUME LanesInv, FlushInv, NEW f \in Flush, FlushBegin(f) PROVE FlushInv'
<1>1. /\ UNCHANGED <<nlanes, fifo, backlog, fresh, dthread, lane, markersLeaked>>
      /\ flush[f].pc = "new"
      /\ flush' = [flush EXCEPT ![f].pc = "loop", ![f].refcnt = 1, ![f].before = Distributed]
  BY Zenon DEF FlushBegin
<1>2. flush \in [Flush -> FlushRecord] /\ flush[f] \in FlushRecord  BY Zenon DEF FlushInv, FlushTypes
<1>3. Distributed \in SUBSET Msg  BY Zenon DEF Distributed
<1>4. PICK r : r = [flush[f] EXCEPT !.pc = "loop", !.refcnt = 1, !.before = Distributed]  BY Zenon
<1>5. /\ r \in FlushRecord /\ r.pc = "loop" /\ r.i = flush[f].i /\ r.refcnt = 1
      /\ r.fired = flush[f].fired /\ r.before = Distributed
  <2>1. PICK B \in SUBSET Msg : B = Distributed  BY <1>3, Zenon
  <2>2. r = [pc |-> "loop", i |-> flush[f].i, refcnt |-> 1, fired |-> flush[f].fired, before |-> B]
    BY <1>2, <1>4, <2>1, Zenon DEF FlushRecord
  <2>3. flush[f].i \in 1 .. LaneCount + 1 /\ flush[f].fired \in Int  BY <1>2, Zenon DEF FlushRecord
  <2> QED  BY <2>1, <2>2, <2>3 DEF FlushRecord
<1>6. flush' = [flush EXCEPT ![f] = r]  BY <1>1, <1>2, <1>4, Zenon DEF FlushRecord
<1>7. flush'[f] = r /\ \A g \in Flush \ {f} : flush'[g] = flush[g]  BY <1>2, <1>6, Zenon
<1>8. FlushTypes'  BY <1>1, <1>2, <1>5, <1>6, Zenon DEF FlushInv, FlushTypes
<1>9. NoFifoNoEntry'  BY <1>1, <1>5, <1>7, Zenon DEF FlushInv, NoFifoNoEntry
<1>10. FlushPlace'  BY <1>5, <1>7, Zenon DEF FlushInv, FlushPlace
<1>11. r.i = 1 /\ \A l \in LaneId : ~(l < r.i) /\ f \notin In(fifo[l])
  <2>1. r.i = 1  BY <1>1, <1>5, Zenon DEF FlushInv, FlushPlace
  <2>2. \A l \in LaneId : ~(l < 1)  BY LanesAssumption DEF LaneId
  <2> QED  BY <2>1, <2>2, <1>5, Zenon DEF FlushInv, MarkedOnce
<1>12. MarkedOnce'  BY <1>1, <1>5, <1>7, Zenon DEF FlushInv, MarkedOnce
<1>13. FlushCounted'
  <2> SUFFICES ASSUME NEW g \in Flush
               PROVE  flush'[g].refcnt = (IF flush'[g].pc \in {"loop", "enqueue"} THEN 1 ELSE 0)
                                         + (IF flush'[g].pc = "enqueue" THEN 1 ELSE 0)
                                         + Cardinality(Marked(g)')
    BY Zenon DEF FlushCounted
  <2>1. Marked(g)' = Marked(g)  BY <1>1, Zenon DEF Marked
  <2>2. CASE g = f
    <3>1. Marked(f) = {}  BY <1>11, Zenon DEF Marked
    <3>2. Cardinality(Marked(f)) = 0  BY <3>1, LanesCount, Zenon
    <3> QED  BY <2>1, <2>2, <3>2, <1>5, <1>7
  <2>3. CASE g # f  BY <2>1, <2>3, <1>7, Zenon DEF FlushInv, FlushCounted
  <2> QED  BY <2>2, <2>3, Zenon
<1>14. FiredWhenDone'  BY <1>1, <1>5, <1>7, Zenon DEF FlushInv, FiredWhenDone
<1>15. BeforeMarked'
  <2>1. ASSUME NEW g \in Flush, NEW m \in flush'[g].before
        PROVE  m \notin fresh /\ ~Distributing(m)
               /\ \A l \in LaneId : l < flush'[g].i => Behind(fifo[l], g, m)
    <3>1. CASE g = f  BY <2>1, <3>1, <1>5, <1>7, <1>11, Zenon DEF Distributed, Distributing
    <3>2. CASE g # f  BY <2>1, <3>2, <1>7, Zenon DEF FlushInv, BeforeMarked
    <3> QED  BY <3>1, <3>2, Zenon
  <2> QED  BY <2>1, <1>1, Zenon DEF BeforeMarked, Distributing
<1>16. BacklogAccount'
  <2> SUFFICES ASSUME NEW l \in LaneId PROVE BacklogOf(l)'  BY BacklogByLane, Zenon
  <2>1. BacklogOf(l)  BY BacklogByLane, Zenon DEF FlushInv
  <2>2. Marking(l)' = Marking(l)  BY Zenon, <1>1, <1>5, <1>7 DEF Marking
  <2>3. Queuing(l)' = Queuing(l) /\ Decs(l)' = Decs(l)  BY <1>1, Zenon DEF Queuing, Decs
  <2> QED  BY <2>1, <2>2, <2>3, <1>1, Zenon DEF BacklogOf
<1> QED  BY <1>8, <1>9, <1>10, <1>12, <1>13, <1>14, <1>15, <1>16, Zenon DEF FlushInv

\* The caller passes a lane without a FIFO, which is empty.
LEMMA FlushSkipOK ==
    ASSUME LanesInv, FlushInv, NEW f \in Flush, FlushLane(f), flush[f].i > nlanes
    PROVE  FlushInv'
<1>1. /\ UNCHANGED <<nlanes, fifo, backlog, fresh, dthread, lane, markersLeaked>>
      /\ flush[f].pc = "loop" /\ flush[f].i <= LaneCount
      /\ flush' = [flush EXCEPT ![f].i = @ + 1]
  BY Zenon DEF FlushLane
<1>2. flush \in [Flush -> FlushRecord] /\ flush[f] \in FlushRecord  BY Zenon DEF FlushInv, FlushTypes
<1>3. PICK h \in LaneId : h = flush[f].i  BY <1>1, <1>2 DEF FlushRecord, LaneId
<1>4. PICK r : r = [flush[f] EXCEPT !.i = @ + 1]  BY Zenon
<1>5. /\ r \in FlushRecord /\ r.pc = "loop" /\ r.i = h + 1 /\ r.refcnt = flush[f].refcnt
      /\ r.fired = flush[f].fired /\ r.before = flush[f].before
  <2>1. h + 1 \in 1 .. LaneCount + 1  BY LanesAssumption DEF LaneId
  <2> QED  BY <1>1, <1>2, <1>3, <1>4, <2>1, Zenon DEF FlushRecord
<1>6. flush' = [flush EXCEPT ![f] = r]  BY <1>1, <1>2, <1>4, Zenon DEF FlushRecord
<1>7. flush'[f] = r /\ \A g \in Flush \ {f} : flush'[g] = flush[g]  BY <1>2, <1>6, Zenon
<1>8. FlushTypes'  BY <1>1, <1>2, <1>5, <1>6, Zenon DEF FlushInv, FlushTypes
<1>9. NoFifoNoEntry'  BY <1>1, <1>5, <1>7, Zenon DEF FlushInv, NoFifoNoEntry
<1>10. FlushPlace'  BY <1>5, <1>7, Zenon DEF FlushInv, FlushPlace
<1>11. \A l \in LaneId : (l < h => l < h + 1) /\ (l < h + 1 => l < h \/ l = h)
  BY LanesAssumption DEF LaneId
<1>12. MarkedOnce'  BY <1>1, <1>3, <1>5, <1>7, <1>11, Zenon DEF FlushInv, MarkedOnce
<1>13. FlushCounted'
  <2>1. \A g \in Flush : Marked(g)' = Marked(g)  BY <1>1, Zenon DEF Marked
  <2>2. \A g \in Flush : flush'[g].pc = flush[g].pc /\ flush'[g].refcnt = flush[g].refcnt
    BY <1>1, <1>5, <1>7, Zenon
  <2> QED  BY <2>1, <2>2, Zenon DEF FlushInv, FlushCounted
<1>14. FiredWhenDone'  BY <1>1, <1>5, <1>7 DEF FlushInv, FiredWhenDone
<1>15. BeforeMarked'
  <2>1. ASSUME NEW g \in Flush, NEW m \in flush'[g].before
        PROVE  m \notin fresh /\ ~Distributing(m)
               /\ \A l \in LaneId : l < flush'[g].i => Behind(fifo[l], g, m)
    <3>1. CASE g = f
      <4>1. fifo[h] = <<>>  BY <1>3, Zenon DEF FlushInv, NoFifoNoEntry
      <4>2. Behind(fifo[h], f, m)  BY <4>1 DEF Behind
      <4> QED  BY <2>1, <3>1, <4>2, <1>3, <1>5, <1>7, <1>11, Zenon DEF FlushInv, BeforeMarked
    <3>2. CASE g # f  BY <2>1, <3>2, <1>7, Zenon DEF FlushInv, BeforeMarked
    <3> QED  BY <3>1, <3>2, Zenon
  <2> QED  BY <2>1, <1>1, Zenon DEF BeforeMarked, Distributing
<1>16. BacklogAccount'
  <2> SUFFICES ASSUME NEW l \in LaneId PROVE BacklogOf(l)'  BY BacklogByLane, Zenon
  <2>1. BacklogOf(l)  BY BacklogByLane, Zenon DEF FlushInv
  <2>2. Marking(l)' = Marking(l)  BY <1>1, <1>5, <1>7, Zenon DEF Marking
  <2>3. Queuing(l)' = Queuing(l) /\ Decs(l)' = Decs(l)  BY <1>1, Zenon DEF Queuing, Decs
  <2> QED  BY <2>1, <2>2, <2>3, <1>1, Zenon DEF BacklogOf
<1> QED  BY <1>8, <1>9, <1>10, <1>12, <1>13, <1>14, <1>15, <1>16, Zenon DEF FlushInv

\* The caller counts the marker of a lane before it queues it.
LEMMA FlushCountOK ==
    ASSUME LanesInv, FlushInv, NEW f \in Flush, FlushLane(f), ~(flush[f].i > nlanes)
    PROVE  FlushInv'
<1>1. /\ UNCHANGED <<nlanes, fifo, fresh, dthread, lane, markersLeaked>>
      /\ flush[f].pc = "loop" /\ flush[f].i <= LaneCount
      /\ flush' = [flush EXCEPT ![f].pc = "enqueue", ![f].refcnt = @ + 1]
      /\ backlog' = [backlog EXCEPT ![flush[f].i] = @ + 1]
  BY Zenon DEF FlushLane
<1>2. flush \in [Flush -> FlushRecord] /\ flush[f] \in FlushRecord  BY Zenon DEF FlushInv, FlushTypes
<1>3. PICK h \in LaneId : h = flush[f].i  BY <1>1, <1>2 DEF FlushRecord, LaneId
<1>4. PICK r : r = [flush[f] EXCEPT !.pc = "enqueue", !.refcnt = @ + 1]  BY Zenon
<1>5. /\ r \in FlushRecord /\ r.pc = "enqueue" /\ r.i = h /\ r.refcnt = flush[f].refcnt + 1
      /\ r.fired = flush[f].fired /\ r.before = flush[f].before /\ flush[f].refcnt \in Int
  <2>1. r = [pc |-> "enqueue", i |-> flush[f].i, refcnt |-> flush[f].refcnt + 1,
             fired |-> flush[f].fired, before |-> flush[f].before]
    BY <1>2, <1>4, Zenon DEF FlushRecord
  <2>2. flush[f].i \in 1 .. LaneCount + 1 /\ flush[f].fired \in Int /\ flush[f].refcnt \in Int
        /\ flush[f].before \in SUBSET Msg /\ flush[f].refcnt + 1 \in Int
    BY <1>2 DEF FlushRecord
  <2> QED  BY <2>1, <2>2, <1>3, Zenon DEF FlushRecord
<1>6. flush' = [flush EXCEPT ![f] = r]  BY <1>1, <1>2, <1>4, Zenon DEF FlushRecord
<1>7. flush'[f] = r /\ \A g \in Flush \ {f} : flush'[g] = flush[g]  BY <1>2, <1>6, Zenon
<1>8. FlushTypes /\ FlushTypes'
  <2>1. backlog \in [LaneId -> Int] /\ markersLeaked \in [LaneId -> Int]  BY Zenon DEF FlushInv, FlushTypes
  <2>2. backlog' \in [LaneId -> Int]  BY <2>1, <1>1, <1>3
  <2>3. flush' \in [Flush -> FlushRecord]  BY <1>2, <1>5, <1>6, Zenon
  <2> QED  BY <2>1, <2>2, <2>3, <1>1, <1>2, Zenon DEF FlushTypes
<1>9. NoFifoNoEntry'
  <2>1. nlanes \in Int /\ h \in Int /\ h <= nlanes
    BY <1>3, LanesAssumption DEF LaneId, LanesInv, LanesTypes
  <2> QED  BY Zenon, <2>1, <1>1, <1>5, <1>7 DEF FlushInv, NoFifoNoEntry
<1>10. FlushPlace'  BY <1>1, <1>3, <1>5, <1>7, Zenon DEF FlushInv, FlushPlace
<1>11. MarkedOnce'  BY <1>1, <1>3, <1>5, <1>7, Zenon DEF FlushInv, MarkedOnce
<1>12. FlushCounted'
  <2> SUFFICES ASSUME NEW g \in Flush
               PROVE  flush'[g].refcnt = (IF flush'[g].pc \in {"loop", "enqueue"} THEN 1 ELSE 0)
                                         + (IF flush'[g].pc = "enqueue" THEN 1 ELSE 0)
                                         + Cardinality(Marked(g)')
    BY Zenon DEF FlushCounted
  <2>1. Marked(g)' = Marked(g) /\ Marked(g) \in SUBSET LaneId  BY <1>1, Zenon DEF Marked
  <2>2. Cardinality(Marked(g)) \in Nat  BY <2>1, LanesCount, Zenon
  <2>3. CASE g = f
    <3>1. flush[f].refcnt = 1 + 0 + Cardinality(Marked(f))  BY <1>1, Zenon DEF FlushInv, FlushCounted
    <3> QED  BY <2>1, <2>2, <2>3, <3>1, <1>5, <1>7, SMTT(30)
  <2>4. CASE g # f  BY <2>1, <2>4, <1>7, Zenon DEF FlushInv, FlushCounted
  <2> QED  BY <2>3, <2>4, Zenon
<1>13. FiredWhenDone'  BY <1>1, <1>5, <1>7, Zenon DEF FlushInv, FiredWhenDone
<1>14. BeforeMarked'
  <2>1. \A g \in Flush : flush'[g].before = flush[g].before /\ flush'[g].i = flush[g].i
    BY <1>3, <1>5, <1>7, Zenon
  <2> QED  BY <2>1, <1>1, Zenon DEF FlushInv, BeforeMarked, Distributing
<1>15. BacklogAccount'
  <2> SUFFICES ASSUME NEW l \in LaneId PROVE BacklogOf(l)'  BY BacklogByLane, Zenon
  <2>1. BacklogOf(l)  BY BacklogByLane, Zenon DEF FlushInv
  <2>2. Queuing(l)' = Queuing(l) /\ Decs(l)' = Decs(l) /\ fifo'[l] = fifo[l]
        /\ markersLeaked'[l] = markersLeaked[l]
    BY <1>1, Zenon DEF Queuing, Decs
  <2>3. CASE l = h
    <3>1. Marking(l)' = Marking(l) \cup {f} /\ f \notin Marking(l)
      BY <2>3, <1>1, <1>5, <1>7, Zenon DEF Marking
    <3>2. Cardinality(Marking(l)') = Cardinality(Marking(l)) + 1
      BY <3>1, <1>8, BacklogParts, CountByOne, LanesAssumption
    <3>3. backlog'[l] = backlog[l] + 1  BY <2>3, <1>1, <1>3, <1>8, Zenon DEF FlushTypes
    <3>4. Decs(l) \in Nat /\ Cardinality(Queuing(l)) \in Nat /\ Cardinality(Marking(l)) \in Nat
          /\ Len(fifo[l]) \in Nat /\ markersLeaked[l] \in Int
      BY <1>8, BacklogParts, Zenon
    <3> QED  BY <2>1, <2>2, <3>2, <3>3, <3>4, SMTT(30) DEF BacklogOf
  <2>4. CASE l # h
    <3>1. Marking(l)' = Marking(l)  BY <2>4, <1>1, <1>5, <1>7, Zenon DEF Marking
    <3>2. backlog'[l] = backlog[l]  BY <2>4, <1>1, <1>3, <1>8, Zenon DEF FlushTypes
    <3> QED  BY <2>1, <2>2, <3>1, <3>2, Zenon DEF BacklogOf
  <2> QED  BY <2>3, <2>4, Zenon
<1> QED  BY <1>8, <1>9, <1>10, <1>11, <1>12, <1>13, <1>14, <1>15, Zenon DEF FlushInv

\* The marker goes into the lane, behind all that is queued there.
LEMMA FlushMarkOK == ASSUME LanesInv, FlushInv, NEW f \in Flush, FlushEnqueue(f) PROVE FlushInv'
<1>1. /\ UNCHANGED <<nlanes, backlog, fresh, dthread, lane, markersLeaked>>
      /\ flush[f].pc = "enqueue"
      /\ fifo' = [fifo EXCEPT ![flush[f].i] = Append(@, f)]
      /\ flush' = [flush EXCEPT ![f].pc = "loop", ![f].i = @ + 1]
  BY Zenon DEF FlushEnqueue
<1>2. flush \in [Flush -> FlushRecord] /\ flush[f] \in FlushRecord /\ fifo \in [LaneId -> Seq(Item)]
  BY Zenon DEF FlushInv, FlushTypes, LanesInv, LanesTypes
<1>3. PICK h \in LaneId : h = flush[f].i
  BY <1>1, <1>2 DEF FlushInv, FlushPlace, FlushRecord, LaneId
<1>4. PICK r : r = [flush[f] EXCEPT !.pc = "loop", !.i = @ + 1]  BY Zenon
<1>5. /\ r \in FlushRecord /\ r.pc = "loop" /\ r.i = h + 1 /\ r.refcnt = flush[f].refcnt
      /\ r.fired = flush[f].fired /\ r.before = flush[f].before /\ flush[f].refcnt \in Int
  <2>1. h + 1 \in 1 .. LaneCount + 1  BY LanesAssumption DEF LaneId
  <2> QED  BY Zenon, <1>2, <1>3, <1>4, <2>1 DEF FlushRecord
<1>6. flush' = [flush EXCEPT ![f] = r]  BY <1>1, <1>2, <1>4, Zenon DEF FlushRecord
<1>7. flush'[f] = r /\ \A g \in Flush \ {f} : flush'[g] = flush[g]  BY <1>2, <1>6, Zenon
<1>8. f \in Item /\ f \notin Msg /\ fifo[h] \in Seq(Item)  BY <1>2, LanesAssumption, Zenon DEF Item
<1>9. /\ fifo'[h] = Append(fifo[h], f) /\ In(fifo'[h]) = In(fifo[h]) \cup {f}
      /\ Len(fifo'[h]) = Len(fifo[h]) + 1
      /\ \A l \in LaneId \ {h} : fifo'[l] = fifo[l]
  <2>1. fifo'[h] = Append(fifo[h], f) /\ \A l \in LaneId \ {h} : fifo'[l] = fifo[l]
    BY <1>1, <1>2, <1>3, Zenon
  <2> QED  BY <2>1, <1>8, AppendQueue
<1>10. \A l \in LaneId : (l < h => l < h + 1) /\ (l < h + 1 => l < h \/ l = h) /\ ~(h < h) /\ h < h + 1
  BY LanesAssumption DEF LaneId
<1>11. FlushTypes /\ FlushTypes'
  <2>1. flush' \in [Flush -> FlushRecord]  BY <1>2, <1>5, <1>6, ZenonT(30)
  <2> QED  BY <2>1, <1>1, Zenon DEF FlushInv, FlushTypes
<1>12. NoFifoNoEntry'
  <2>1. nlanes \in Int /\ h \in Int  BY LanesAssumption DEF LaneId, LanesInv, LanesTypes
  <2>2. h <= nlanes  BY <1>1, <1>3, Zenon DEF FlushInv, NoFifoNoEntry
  <2>3. ~(h > nlanes)  BY <2>1, <2>2
  <2> QED  BY <2>3, <1>1, <1>5, <1>7, <1>9, Zenon DEF FlushInv, NoFifoNoEntry
<1>13. FlushPlace'  BY <1>5, <1>7, Zenon DEF FlushInv, FlushPlace
<1>14. f \notin In(fifo[h])  BY <1>3, <1>10, Zenon DEF FlushInv, MarkedOnce
<1>15. /\ f \in In(fifo'[h])
       /\ \A g \in Flush, l \in LaneId : g # f \/ l # h => (g \in In(fifo'[l]) <=> g \in In(fifo[l]))
  BY <1>9, Zenon
<1>16. MarkedOnce'
  <2> SUFFICES ASSUME NEW g \in Flush, NEW l \in LaneId
               PROVE  (g \in In(fifo'[l]) => l < flush'[g].i) /\ Once(fifo'[l], g)
    BY Zenon DEF MarkedOnce
  <2>1. Once(fifo[l], g) /\ (g \in In(fifo[l]) => l < flush[g].i)  BY Zenon DEF FlushInv, MarkedOnce
  <2>2. Once(fifo'[l], g)
    <3>1. CASE l = h
      <4>1. Once(fifo[h], g) /\ (f = g => g \notin In(fifo[h]))  BY <2>1, <3>1, <1>14, Zenon
      <4> QED  BY <4>1, <3>1, <1>8, <1>9, OnceAppend
    <3>2. CASE l # h  BY <2>1, <3>2, <1>9, Zenon
    <3> QED  BY <3>1, <3>2, Zenon
  <2>3. CASE g = f  BY <2>1, <2>2, <2>3, <1>3, <1>5, <1>7, <1>10, <1>15, Zenon
  <2>4. CASE g # f  BY <2>1, <2>2, <2>4, <1>7, <1>15, Zenon
  <2> QED  BY <2>3, <2>4, Zenon
<1>17. FlushCounted'
  <2> SUFFICES ASSUME NEW g \in Flush
               PROVE  flush'[g].refcnt = (IF flush'[g].pc \in {"loop", "enqueue"} THEN 1 ELSE 0)
                                         + (IF flush'[g].pc = "enqueue" THEN 1 ELSE 0)
                                         + Cardinality(Marked(g)')
    BY Zenon DEF FlushCounted
  <2>1. CASE g = f
    <3>1. Marked(f)' = Marked(f) \cup {h} /\ h \in LaneId \ Marked(f) /\ Marked(f) \in SUBSET LaneId
      BY <1>14, <1>15, Zenon DEF Marked
    <3>2. Cardinality(Marked(f)') = Cardinality(Marked(f)) + 1 /\ Cardinality(Marked(f)) \in Nat
      BY <3>1, LanesCount, Zenon
    <3>3. flush[f].refcnt = 1 + 1 + Cardinality(Marked(f))  BY <1>1, Zenon DEF FlushInv, FlushCounted
    <3> QED  BY <2>1, <3>2, <3>3, <1>5, <1>7
  <2>2. CASE g # f
    <3>1. Marked(g)' = Marked(g)  BY <2>2, <1>15, Zenon DEF Marked
    <3> QED  BY <2>2, <3>1, <1>7, Zenon DEF FlushInv, FlushCounted
  <2> QED  BY <2>1, <2>2, Zenon
<1>18. FiredWhenDone'
  <2>1. \A g \in Flush : flush[g].fired = IF flush[g].pc = "end" /\ flush[g].refcnt = 0 THEN 1 ELSE 0
    BY Zenon DEF FlushInv, FiredWhenDone
  <2>2. \A g \in Flush \ {f} : flush'[g] = flush[g]  BY <1>7, Zenon
  <2>3. flush'[f].fired = IF flush'[f].pc = "end" /\ flush'[f].refcnt = 0 THEN 1 ELSE 0
    BY <1>1, <1>5, <1>7, <2>1, Zenon
  <2> QED  BY <2>1, <2>2, <2>3, Zenon DEF FiredWhenDone
<1>19. BeforeMarked'
  <2>1. ASSUME NEW g \in Flush, NEW m \in flush'[g].before
        PROVE  m \notin fresh /\ ~Distributing(m)
               /\ \A l \in LaneId : l < flush'[g].i => Behind(fifo'[l], g, m)
    <3>1. flush'[g].before = flush[g].before  BY <1>5, <1>7, Zenon
    <3>2. m \notin fresh /\ ~Distributing(m)
          /\ \A l \in LaneId : l < flush[g].i => Behind(fifo[l], g, m)
      BY <2>1, <3>1, Zenon DEF FlushInv, BeforeMarked
    <3>3. m \in Item /\ m # f /\ g \in Item
      <4>1. m \in Msg  BY <2>1, <3>1, <1>2, Zenon DEF FlushRecord
      <4> QED  BY <4>1, LanesAssumption, Zenon DEF Item
    <3>4. ASSUME NEW l \in LaneId, l < flush'[g].i PROVE Behind(fifo'[l], g, m)
      <4>1. CASE l # h
        <5>1. l < flush[g].i  BY <3>4, <4>1, <1>3, <1>5, <1>7, <1>10, Zenon
        <5> QED  BY <5>1, <4>1, <3>2, <1>9, Zenon
      <4>2. CASE l = h /\ g = f  BY <4>2, <3>3, <1>8, <1>9, BehindAppend, Zenon
      <4>3. CASE l = h /\ g # f  BY <4>3, <3>2, <3>3, <3>4, <1>7, <1>8, <1>9, BehindAppend, Zenon
      <4> QED  BY <4>1, <4>2, <4>3, Zenon
    <3> QED  BY <3>2, <3>4, Zenon
  <2> QED  BY <2>1, <1>1, Zenon DEF BeforeMarked, Distributing
<1>20. BacklogAccount'
  <2> SUFFICES ASSUME NEW l \in LaneId PROVE BacklogOf(l)'  BY BacklogByLane, Zenon
  <2>1. BacklogOf(l)  BY BacklogByLane, Zenon DEF FlushInv
  <2>2. Queuing(l)' = Queuing(l) /\ Decs(l)' = Decs(l) /\ backlog'[l] = backlog[l]
        /\ markersLeaked'[l] = markersLeaked[l]
    BY <1>1, Zenon DEF Queuing, Decs
  <2>3. CASE l = h
    <3>1. Marking(l)' = Marking(l) \ {f} /\ f \in Marking(l)
      BY <2>3, <1>1, <1>3, <1>5, <1>7, Zenon DEF Marking
    <3>2. Cardinality(Marking(l)') = Cardinality(Marking(l)) - 1
      BY <3>1, <1>11, BacklogParts, CountByOne, LanesAssumption, SMTT(30)
    <3>3. Decs(l) \in Nat /\ Cardinality(Queuing(l)) \in Nat /\ Cardinality(Marking(l)) \in Nat
          /\ Len(fifo[l]) \in Nat /\ markersLeaked[l] \in Int
      BY <1>11, BacklogParts, Zenon
    <3> QED  BY <2>1, <2>2, <2>3, <3>2, <3>3, <1>9, SMTT(30) DEF BacklogOf
  <2>4. CASE l # h
    <3>1. Marking(l)' = Marking(l)  BY <2>4, <1>1, <1>3, <1>5, <1>7, Zenon DEF Marking
    <3> QED  BY <2>1, <2>2, <2>4, <3>1, <1>9, Zenon DEF BacklogOf
  <2> QED  BY <2>3, <2>4, Zenon
<1> QED  BY <1>11, <1>12, <1>13, <1>16, <1>17, <1>18, <1>19, <1>20, Zenon DEF FlushInv

\* What Observe does to a record: one reference less, and the event fires with
\* the last one.
LEMMA ObserveRecord ==
    ASSUME NEW fl \in FlushRecord
    PROVE  /\ Observe(fl) \in FlushRecord
           /\ Observe(fl).pc = fl.pc /\ Observe(fl).i = fl.i /\ Observe(fl).before = fl.before
           /\ Observe(fl).refcnt = fl.refcnt - 1
           /\ Observe(fl).fired = IF fl.refcnt = 1 THEN fl.fired + 1 ELSE fl.fired
           /\ fl.refcnt \in Int /\ fl.fired \in Int
<1> DEFINE fired == IF fl.refcnt = 1 THEN fl.fired + 1 ELSE fl.fired
<1>1. fl.i \in 1 .. LaneCount + 1 /\ fl.fired \in Int /\ fl.refcnt \in Int
      /\ fl.before \in SUBSET Msg /\ fl.refcnt - 1 \in Int
      /\ fl.pc \in {"new", "loop", "enqueue", "end"}
  BY DEF FlushRecord
<1>2. fired \in Int  BY <1>1
<1>3. Observe(fl) = [fl EXCEPT !.refcnt = fl.refcnt - 1, !.fired = fired]  BY Zenon DEF Observe
<1> HIDE DEF fired
<1>4. Observe(fl) = [pc |-> fl.pc, i |-> fl.i, refcnt |-> fl.refcnt - 1, fired |-> fired,
                     before |-> fl.before]
  BY <1>3, Zenon DEF FlushRecord
<1>5. Observe(fl) \in FlushRecord  BY <1>1, <1>2, <1>4, SMTT(30) DEF FlushRecord
<1>6. /\ Observe(fl).pc = fl.pc /\ Observe(fl).i = fl.i /\ Observe(fl).before = fl.before
      /\ Observe(fl).refcnt = fl.refcnt - 1 /\ Observe(fl).fired = fired
  BY <1>4
<1> QED  BY <1>1, <1>5, <1>6, Zenon DEF fired

\* The caller gives its own reference back, when every lane has been told.
LEMMA FlushEndOK == ASSUME LanesInv, FlushInv, NEW f \in Flush, FlushEnd(f) PROVE FlushInv'
<1>1. /\ UNCHANGED <<nlanes, fifo, backlog, fresh, dthread, lane, markersLeaked>>
      /\ flush[f].pc = "loop" /\ flush[f].i > LaneCount
      /\ flush' = [flush EXCEPT ![f] = [Observe(flush[f]) EXCEPT !.pc = "end"]]
  BY Zenon DEF FlushEnd
<1>2. flush \in [Flush -> FlushRecord] /\ flush[f] \in FlushRecord  BY Zenon DEF FlushInv, FlushTypes
<1>3. PICK ob \in FlushRecord : ob = Observe(flush[f])  BY <1>2, ObserveRecord, Zenon
<1>4. /\ ob.i = flush[f].i /\ ob.before = flush[f].before /\ ob.refcnt = flush[f].refcnt - 1
      /\ ob.fired = (IF flush[f].refcnt = 1 THEN flush[f].fired + 1 ELSE flush[f].fired)
      /\ flush[f].refcnt \in Int /\ flush[f].fired \in Int
  BY <1>2, <1>3, ObserveRecord, Zenon
<1>5. PICK r : r = [ob EXCEPT !.pc = "end"]  BY Zenon
<1>6. /\ r \in FlushRecord /\ r.pc = "end" /\ r.i = ob.i /\ r.refcnt = ob.refcnt
      /\ r.fired = ob.fired /\ r.before = ob.before
  BY <1>5, Zenon DEF FlushRecord
<1>7. flush' = [flush EXCEPT ![f] = r]  BY <1>1, <1>3, <1>5, Zenon
<1>8. flush'[f] = r /\ \A g \in Flush \ {f} : flush'[g] = flush[g]  BY <1>2, <1>7, Zenon
<1>9. FlushTypes'  BY <1>1, <1>2, <1>6, <1>7, Zenon DEF FlushInv, FlushTypes
<1>10. NoFifoNoEntry'  BY <1>1, <1>6, <1>8, Zenon DEF FlushInv, NoFifoNoEntry
<1>11. FlushPlace'
  <2>1. r.i = LaneCount + 1  BY <1>1, <1>2, <1>4, <1>6, LanesAssumption DEF FlushRecord
  <2> QED  BY <2>1, <1>6, <1>8 DEF FlushInv, FlushPlace
<1>12. MarkedOnce'  BY <1>1, <1>4, <1>6, <1>8, Zenon DEF FlushInv, MarkedOnce
<1>13. Marked(f) \in SUBSET LaneId /\ \A g \in Flush : Marked(g)' = Marked(g)  BY <1>1, Zenon DEF Marked
<1>14. Cardinality(Marked(f)) \in Nat /\ flush[f].refcnt = 1 + Cardinality(Marked(f))
  <2>1. Cardinality(Marked(f)) \in Nat  BY <1>13, LanesCount, Zenon
  <2>2. flush[f].refcnt = 1 + 0 + Cardinality(Marked(f))  BY <1>1, Zenon DEF FlushInv, FlushCounted
  <2> QED  BY <2>1, <2>2
<1>15. FlushCounted'
  <2> SUFFICES ASSUME NEW g \in Flush
               PROVE  flush'[g].refcnt = (IF flush'[g].pc \in {"loop", "enqueue"} THEN 1 ELSE 0)
                                         + (IF flush'[g].pc = "enqueue" THEN 1 ELSE 0)
                                         + Cardinality(Marked(g)')
    BY Zenon DEF FlushCounted
  <2>1. CASE g = f  BY <2>1, <1>4, <1>6, <1>8, <1>13, <1>14
  <2>2. CASE g # f  BY <2>2, <1>8, <1>13, Zenon DEF FlushInv, FlushCounted
  <2> QED  BY <2>1, <2>2, Zenon
<1>16. FiredWhenDone'
  <2> SUFFICES ASSUME NEW g \in Flush
               PROVE  flush'[g].fired = IF flush'[g].pc = "end" /\ flush'[g].refcnt = 0 THEN 1 ELSE 0
    BY Zenon DEF FiredWhenDone
  <2>1. CASE g = f
    <3>1. flush[f].fired = 0  BY <1>1, Zenon DEF FlushInv, FiredWhenDone
    <3> QED  BY <2>1, <3>1, <1>4, <1>6, <1>8
  <2>2. CASE g # f  BY <2>2, <1>8, Zenon DEF FlushInv, FiredWhenDone
  <2> QED  BY <2>1, <2>2, Zenon
<1>17. BeforeMarked'
  <2>1. \A g \in Flush : flush'[g].before = flush[g].before /\ flush'[g].i = flush[g].i
    BY <1>4, <1>6, <1>8, Zenon
  <2> QED  BY <2>1, <1>1, Zenon DEF FlushInv, BeforeMarked, Distributing
<1>18. BacklogAccount'
  <2> SUFFICES ASSUME NEW l \in LaneId PROVE BacklogOf(l)'  BY BacklogByLane, Zenon
  <2>1. BacklogOf(l)  BY BacklogByLane, Zenon DEF FlushInv
  <2>2. Marking(l)' = Marking(l)  BY <1>1, <1>6, <1>8 DEF Marking
  <2>3. Queuing(l)' = Queuing(l) /\ Decs(l)' = Decs(l)  BY <1>1, Zenon DEF Queuing, Decs
  <2> QED  BY <2>1, <2>2, <2>3, <1>1, Zenon DEF BacklogOf
<1> QED  BY <1>9, <1>10, <1>11, <1>12, <1>15, <1>16, <1>17, <1>18, Zenon DEF FlushInv

\* A lane's thread takes an entry.  A message is still to be counted down; a
\* marker gives one reference of its flush back, and its share of the backlog
\* stays.
LEMMA FlushDequeueOK == ASSUME LanesInv, FlushInv, NEW h \in LaneId, Dequeue(h) PROVE FlushInv'
<1>1. /\ lane[h].pc = "idle" /\ fifo[h] # <<>> /\ UNCHANGED <<nlanes, backlog, fresh, dthread>>
      /\ fifo' = [fifo EXCEPT ![h] = Tail(fifo[h])]
  BY Zenon DEF Dequeue
<1>2. fifo \in [LaneId -> Seq(Item)] /\ fifo[h] \in Seq(Item) /\ FlushTypes
      /\ flush \in [Flush -> FlushRecord]
  BY Zenon DEF LanesInv, LanesTypes, FlushInv, FlushTypes
<1>3. fifo'[h] = Tail(fifo[h]) /\ \A l \in LaneId \ {h} : fifo'[l] = fifo[l]  BY <1>1, <1>2, Zenon
<1>4. PICK x \in Item : x = Head(fifo[h]) /\ x \in In(fifo[h])
  <2>1. Head(fifo[h]) \in Item /\ Len(fifo[h]) \in Nat \ {0} /\ Head(fifo[h]) = fifo[h][1]
    BY <1>1, <1>2
  <2>2. Head(fifo[h]) \in In(fifo[h])  BY <2>1, 1 \in 1 .. Len(fifo[h]), Zenon DEF In
  <2> QED  BY <2>1, <2>2, Zenon
<1>5. Len(fifo'[h]) = Len(fifo[h]) - 1 /\ Len(fifo[h]) \in Nat  BY <1>1, <1>2, <1>3
<1>6. \A g \in Flush, l \in LaneId :
         /\ Once(fifo'[l], g)
         /\ g \in In(fifo'[l]) <=> g \in In(fifo[l]) /\ (l # h \/ g # x)
  <2> SUFFICES ASSUME NEW g \in Flush, NEW l \in LaneId
               PROVE  /\ Once(fifo'[l], g)
                      /\ g \in In(fifo'[l]) <=> g \in In(fifo[l]) /\ (l # h \/ g # x)
    BY Zenon
  <2>1. Once(fifo[l], g)  BY Zenon DEF FlushInv, MarkedOnce
  <2>2. CASE l = h  BY <2>1, <2>2, <1>1, <1>2, <1>3, <1>4, OnceTail, Zenon
  <2>3. CASE l # h  BY <2>1, <2>3, <1>3, Zenon
  <2> QED  BY <2>2, <2>3, Zenon
<1>7. /\ \A g \in Flush : flush'[g].pc = flush[g].pc /\ flush'[g].i = flush[g].i
                          /\ flush'[g].before = flush[g].before
      /\ \A g \in Flush \ {x} : flush'[g] = flush[g]
      /\ flush' \in [Flush -> FlushRecord]
      /\ x \in Flush => flush'[x] = Observe(flush[x])
  <2>1. CASE x \in Flush
    <3>1. flush' = [flush EXCEPT ![x] = Observe(flush[x])]  BY <2>1, <1>4, Zenon DEF Dequeue
    <3>2. Observe(flush[x]) \in FlushRecord /\ Observe(flush[x]).pc = flush[x].pc
          /\ Observe(flush[x]).i = flush[x].i /\ Observe(flush[x]).before = flush[x].before
      BY <2>1, <1>2, ObserveRecord, Zenon
    <3> QED  BY <2>1, <3>1, <3>2, <1>2, Zenon
  <2>2. CASE x \notin Flush
    <3>1. flush' = flush  BY <2>2, <1>4, Zenon DEF Dequeue
    <3> QED  BY <2>2, <3>1, <1>2, Zenon
  <2> QED  BY <2>1, <2>2, Zenon
<1>8. FlushTypes'
  <2>1. markersLeaked \in [LaneId -> Int] /\ backlog \in [LaneId -> Int]  BY <1>2, Zenon DEF FlushTypes
  <2>2. markersLeaked' = markersLeaked \/ markersLeaked' = [markersLeaked EXCEPT ![h] = @ + 1]
    BY Zenon DEF Dequeue
  <2>3. markersLeaked' \in [LaneId -> Int]  BY <2>1, <2>2
  <2> QED  BY <2>1, <2>3, <1>1, <1>7, Zenon DEF FlushTypes
<1>9. NoFifoNoEntry'
  <2>1. ~(h > nlanes)  BY <1>1, Zenon DEF FlushInv, NoFifoNoEntry
  <2> QED  BY <2>1, <1>1, <1>3, <1>7, Zenon DEF FlushInv, NoFifoNoEntry
<1>10. FlushPlace'  BY <1>7, Zenon DEF FlushInv, FlushPlace
<1>11. MarkedOnce'  BY <1>6, <1>7, Zenon DEF FlushInv, MarkedOnce
<1>12. \A g \in Flush : Marked(g) \in SUBSET LaneId /\ Cardinality(Marked(g)) \in Nat
  <2>1. \A g \in Flush : Marked(g) \in SUBSET LaneId  BY Zenon DEF Marked
  <2> QED  BY <2>1, LanesCount, Zenon
<1>13. \A g \in Flush \ {x} : Marked(g)' = Marked(g)  BY <1>6, ZenonT(30) DEF Marked
<1>14. ASSUME x \in Flush
       PROVE  /\ Cardinality(Marked(x)') = Cardinality(Marked(x)) - 1 /\ Cardinality(Marked(x)) > 0
              /\ flush[x].pc \in {"loop", "enqueue", "end"}
              /\ flush'[x].refcnt = flush[x].refcnt - 1
              /\ flush'[x].fired = IF flush[x].refcnt = 1 THEN flush[x].fired + 1 ELSE flush[x].fired
              /\ flush[x].refcnt \in Int /\ flush[x].fired \in Int
  <2>1. Marked(x)' = Marked(x) \ {h} /\ h \in Marked(x)  BY <1>4, <1>6, <1>14, Zenon DEF Marked
  <2>2. Cardinality(Marked(x)') = Cardinality(Marked(x)) - 1 /\ Cardinality(Marked(x)) # 0
    BY <2>1, <1>12, <1>14, LanesCount
  <2>3. h < flush[x].i  BY <1>4, <1>14, Zenon DEF FlushInv, MarkedOnce
  <2>4. ~(h < 1)  BY LanesAssumption DEF LaneId
  <2>5. flush[x].pc # "new"  BY <2>3, <2>4, <1>14, Zenon DEF FlushInv, FlushPlace
  <2>6. flush[x] \in FlushRecord /\ flush[x].pc \in {"new", "loop", "enqueue", "end"}
    BY <1>2, <1>14, Zenon DEF FlushRecord
  <2> QED  BY <2>2, <2>5, <2>6, <1>7, <1>12, <1>14, ObserveRecord
<1>15. FlushCounted'
  <2> SUFFICES ASSUME NEW g \in Flush
               PROVE  flush'[g].refcnt = (IF flush'[g].pc \in {"loop", "enqueue"} THEN 1 ELSE 0)
                                         + (IF flush'[g].pc = "enqueue" THEN 1 ELSE 0)
                                         + Cardinality(Marked(g)')
    BY Zenon DEF FlushCounted
  <2>1. flush[g].refcnt = (IF flush[g].pc \in {"loop", "enqueue"} THEN 1 ELSE 0)
                          + (IF flush[g].pc = "enqueue" THEN 1 ELSE 0)
                          + Cardinality(Marked(g))
    BY Zenon DEF FlushInv, FlushCounted
  <2>2. CASE g = x
    <3>1. CASE flush[x].pc = "loop"  BY <2>1, <2>2, <3>1, <1>7, <1>12, <1>14, SMTT(30)
    <3>2. CASE flush[x].pc = "enqueue"  BY <2>1, <2>2, <3>2, <1>7, <1>12, <1>14, SMTT(30)
    <3>3. CASE flush[x].pc = "end"  BY <2>1, <2>2, <3>3, <1>7, <1>12, <1>14
    <3> QED  BY <2>2, <3>1, <3>2, <3>3, <1>14, ZenonT(30)
  <2>3. CASE g # x  BY <2>1, <2>3, <1>7, <1>13, Zenon
  <2> QED  BY <2>2, <2>3, Zenon
<1>16. FiredWhenDone'
  <2> SUFFICES ASSUME NEW g \in Flush
               PROVE  flush'[g].fired = IF flush'[g].pc = "end" /\ flush'[g].refcnt = 0 THEN 1 ELSE 0
    BY Zenon DEF FiredWhenDone
  <2>1. flush[g].fired = IF flush[g].pc = "end" /\ flush[g].refcnt = 0 THEN 1 ELSE 0
    BY Zenon DEF FlushInv, FiredWhenDone
  <2>2. CASE g = x
    <3>1. flush[x].refcnt = (IF flush[x].pc \in {"loop", "enqueue"} THEN 1 ELSE 0)
                            + (IF flush[x].pc = "enqueue" THEN 1 ELSE 0)
                            + Cardinality(Marked(x))
      BY <2>2, Zenon DEF FlushInv, FlushCounted
    <3>2. CASE flush[x].pc = "loop"  BY <2>1, <2>2, <3>1, <3>2, <1>7, <1>12, <1>14, SMTT(30)
    <3>3. CASE flush[x].pc = "enqueue"  BY <2>1, <2>2, <3>1, <3>3, <1>7, <1>12, <1>14, SMTT(30)
    <3>4. CASE flush[x].pc = "end"  BY <2>1, <2>2, <3>1, <3>4, <1>7, <1>12, <1>14
    <3> QED  BY <2>2, <3>2, <3>3, <3>4, <1>14, Zenon
  <2>3. CASE g # x  BY <2>1, <2>3, <1>7, Zenon
  <2> QED  BY <2>2, <2>3, Zenon
<1>17. BeforeMarked'
  <2>1. ASSUME NEW g \in Flush, NEW m \in flush'[g].before
        PROVE  m \notin fresh /\ ~Distributing(m)
               /\ \A l \in LaneId : l < flush'[g].i => Behind(fifo'[l], g, m)
    <3>1. m \notin fresh /\ ~Distributing(m)
          /\ \A l \in LaneId : l < flush[g].i => Behind(fifo[l], g, m)
      BY <2>1, <1>7, Zenon DEF FlushInv, BeforeMarked
    <3>2. ASSUME NEW l \in LaneId, l < flush'[g].i PROVE Behind(fifo'[l], g, m)
      <4>1. Behind(fifo[l], g, m)  BY <3>1, <3>2, <1>7, Zenon
      <4>2. CASE l = h  BY <4>1, <4>2, <1>1, <1>2, <1>3, BehindTail, Zenon
      <4>3. CASE l # h  BY <4>1, <4>3, <1>3, Zenon
      <4> QED  BY <4>2, <4>3, Zenon
    <3> QED  BY <3>1, <3>2, Zenon
  <2> QED  BY <2>1, <1>1, Zenon DEF BeforeMarked, Distributing
<1>18. BacklogAccount'
  <2> SUFFICES ASSUME NEW l \in LaneId PROVE BacklogOf(l)'  BY BacklogByLane, Zenon
  <2>1. BacklogOf(l)  BY BacklogByLane, Zenon DEF FlushInv
  <2>2. Queuing(l)' = Queuing(l) /\ Marking(l)' = Marking(l) /\ backlog'[l] = backlog[l]
    BY <1>1, <1>7, Zenon DEF Queuing, Marking
  <2>3. Decs(l) \in Nat /\ Cardinality(Queuing(l)) \in Nat /\ Cardinality(Marking(l)) \in Nat
        /\ Len(fifo[l]) \in Nat /\ markersLeaked[l] \in Int
    BY <1>2, BacklogParts, Zenon
  <2>4. lane \in [LaneId -> [pc : {"idle", "dec", "use"}, msg : Msg \cup {NoItem}]]
        /\ markersLeaked \in [LaneId -> Int]
    BY <1>2, Zenon DEF LanesInv, LanesTypes, FlushTypes
  <2>5. CASE l = h /\ x \in Flush
    <3>1. lane' = lane /\ markersLeaked' = [markersLeaked EXCEPT ![h] = @ + 1]
      BY <2>5, <1>4, Zenon DEF Dequeue
    <3>2. Decs(l)' = Decs(l) /\ markersLeaked'[l] = markersLeaked[l] + 1
      BY <2>4, <2>5, <3>1, Zenon DEF Decs
    <3> QED  BY <2>1, <2>2, <2>3, <2>5, <3>2, <1>5 DEF BacklogOf
  <2>6. CASE l = h /\ x \notin Flush
    <3>1. lane' = [lane EXCEPT ![h] = [pc |-> "dec", msg |-> x]] /\ markersLeaked' = markersLeaked
      BY <2>6, <1>4, Zenon DEF Dequeue
    <3>2. Decs(l)' = 1 /\ Decs(l) = 0 /\ markersLeaked'[l] = markersLeaked[l]
      BY <2>4, <2>6, <3>1, <1>1, Zenon DEF Decs
    <3> QED  BY <2>1, <2>2, <2>3, <2>6, <3>2, <1>5 DEF BacklogOf
  <2>7. CASE l # h
    <3>1. lane'[l] = lane[l] /\ markersLeaked'[l] = markersLeaked[l]  BY <2>4, <2>7, Zenon DEF Dequeue
    <3>2. Decs(l)' = Decs(l)  BY <3>1, Zenon DEF Decs
    <3> QED  BY <2>1, <2>2, <2>7, <3>1, <3>2, <1>3, Zenon DEF BacklogOf
  <2> QED  BY <2>5, <2>6, <2>7, Zenon
<1> QED  BY <1>8, <1>9, <1>10, <1>11, <1>15, <1>16, <1>17, <1>18, Zenon DEF FlushInv

\* What the flushes and the counters are holds in every state.
THEOREM FlushInductive == LanesSpec => []FlushInv
<1>1. LanesInit => FlushInv  BY FlushInitOK, Zenon
<1>2. LanesInv /\ LanesInv' /\ FlushInv /\ [LanesNext]_lanesVars => FlushInv'
  <2> SUFFICES ASSUME LanesInv, LanesInv', FlushInv, [LanesNext]_lanesVars PROVE FlushInv'
    BY Zenon
  <2>1. CASE GetMyLane \/ UNCHANGED lanesVars  BY <2>1, FlushStillOK, Zenon
  <2>2. ASSUME NEW d \in DistThread, DistThreadStep(d) PROVE FlushInv'
    BY <2>2, FlushReceiveOK, FlushConsiderOK, FlushIncOK, FlushEnqueueMsgOK, FlushMessageDoneOK, Zenon
       DEF DistThreadStep
  <2>3. ASSUME NEW f \in Flush, FlushStep(f) PROVE FlushInv'
    BY <2>3, FlushBeginOK, FlushSkipOK, FlushCountOK, FlushMarkOK, FlushEndOK, Zenon DEF FlushStep
  <2>4. ASSUME NEW l \in LaneId, LaneStep(l) PROVE FlushInv'
    BY <2>4, FlushDequeueOK, FlushDecOK, FlushReleaseOK, Zenon DEF LaneStep
  <2> QED  BY <2>1, <2>2, <2>3, <2>4, Zenon DEF LanesNext
<1> QED  BY <1>1, <1>2, LanesInductive, PTL DEF LanesSpec

\* A flush is a barrier and fires once, whatever the number of lanes, threads,
\* messages and flushes: noit_metric_director_flush gives every lane a marker
\* behind what was distributed before, and dmflush_observe counts them all.
THEOREM FlushesAreExact == LanesSpec => []FlushesExact
<1>1. LanesInv /\ FlushInv => FlushesExact
  <2> SUFFICES ASSUME LanesInv, FlushInv, NEW f \in Flush
               PROVE  /\ flush[f].fired > 0 => \A l \in LaneId : flush[f].before \cap OnQueues(l) = {}
                      /\ flush[f].fired <= 1
                      /\ flush[f].fired = 1 => flush[f].pc = "end" /\ \A l \in LaneId : f \notin OnQueues(l)
    BY Zenon DEF FlushesExact, FlushIsBarrier, FlushFiresOnce
  <2>1. flush[f].fired = IF flush[f].pc = "end" /\ flush[f].refcnt = 0 THEN 1 ELSE 0
    BY Zenon DEF FlushInv, FiredWhenDone
  <2>2. ASSUME flush[f].pc = "end", flush[f].refcnt = 0
        PROVE  /\ \A l \in LaneId : flush[f].before \cap OnQueues(l) = {}
               /\ \A l \in LaneId : f \notin OnQueues(l)
    <3>1. Marked(f) \in SUBSET LaneId  BY Zenon DEF Marked
    <3>2. flush[f].refcnt = 0 + 0 + Cardinality(Marked(f))  BY <2>2, Zenon DEF FlushInv, FlushCounted
    <3>3. Marked(f) = {}  BY <2>2, <3>1, <3>2, LanesCount
    <3>4. \A l \in LaneId : f \notin In(fifo[l])  BY <3>3, Zenon DEF Marked
    <3>5. \A l \in LaneId : l < flush[f].i
      <4>1. flush[f].i = LaneCount + 1  BY <2>2, Zenon DEF FlushInv, FlushPlace
      <4> QED  BY <4>1, LanesAssumption DEF LaneId
    <3>6. ASSUME NEW l \in LaneId, NEW m \in flush[f].before, m \in In(fifo[l]) PROVE FALSE
      <4>1. Behind(fifo[l], f, m)  BY <3>5, Zenon DEF FlushInv, BeforeMarked
      <4>2. PICK n \in 1 .. Len(fifo[l]) : fifo[l][n] = m  BY <3>6, Zenon DEF In
      <4>3. PICK k \in n + 1 .. Len(fifo[l]) : fifo[l][k] = f  BY <4>1, <4>2, Zenon DEF Behind
      <4>4. Len(fifo[l]) \in Nat  BY DEF LanesInv, LanesTypes
      <4>5. k \in 1 .. Len(fifo[l])  BY <4>2, <4>3, <4>4
      <4> QED  BY <4>3, <4>5, <3>4, Zenon DEF In
    <3> QED  BY <3>4, <3>6, Zenon DEF In, OnQueues
  <2> QED  BY <2>1, <2>2
<1> QED  BY <1>1, LanesInductive, FlushInductive, PTL

\* The director's account of messages and backlogs is exact: the last deref
\* frees a message, and a lane's backlog counter is what waits, what is on its
\* way, and one for every flush marker the lane has passed.
THEOREM MessagesAreAccounted == LanesSpec => []MessagesAccounted
<1>1. FlushInv /\ NoMessageLeak => MessagesAccounted  BY Zenon DEF FlushInv, MessagesAccounted
<1> QED  BY <1>1, FlushInductive, MessagesFreed, PTL
============================================================================
