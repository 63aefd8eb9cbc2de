------------------------- MODULE CheckRegistrySteps -------------------------
(***************************************************************************)
(* The inductive invariant of the registry of checks, and the lemmas that  *)
(* every step keeps it and that it covers what is claimed of references,   *)
(* assertions and indexes.  Module CheckRegistryProofs states the results. *)
(***************************************************************************)
EXTENDS CheckRegistry, TLAPS

\* No two checks are ever asked to have the same name.
NamesApart == \A a, b \in Asks \cup Peer : a.name = b.name => a.u = b.u

\* The names a check may have: its own uuid, once it is deleted, and those that
\* requests and peers ask for it.
OwnName(u) == {u} \cup {a.name : a \in {b \in Asks \cup Peer : b.u = u}}

\* The places of a thread: it holds the transaction of a reload, it fills in the
\* object it made, it sets, it applies what a peer sent.
Loading == {"load_inherit", "load_find", "load_drop", "load_replace", "sched",
            "update", "replace", "bury", "load_end"}
Filling == {"update", "replace"}
Asking == {"set_in_db", "set_dup", "set_read", "set_write"}
Fetching == {"repl_test", "repl_write"}
Places == Loading \cup Asking \cup Fetching
            \cup {"idle", "load", "end", "del_desched", "del_mark", "del_remove"}

\* Rows, check objects, the tables of the registry, and threads.
Row == [name : AnyName, seq : Nat, deleted : BOOLEAN]
Object == [u : Uuid, name : AnyName, seq : Nat, ref : Int, disabled : BOOLEAN,
           killed : BOOLEAN, deleted : BOOLEAN, running : BOOLEAN,
           event : BOOLEAN, released : BOOLEAN]
Registry == [polls : [Uuid -> Nat], byname : [AnyName -> Nat], obj : Seq(Object),
             bin : SUBSET Nat, failed : SUBSET {"remove", "existing"}]
Work == [pc : Places, u : Uuid \cup {None}, ask : Asks \cup Peer \cup {None}, outer : Nat,
         indb : BOOLEAN, old : Nat, snap : BOOLEAN, row : Row \cup {None},
         found : Nat, n : Nat]

\* The types of the state.
RegistryTypes ==
    /\ db \in [Uuid -> Row \cup {None}]
    /\ txn \in Thread \cup {None}
    /\ reg \in Registry
    /\ thr \in [Thread -> Work]

\* A thread that fills in the object o of the check that it loads.
Fills(th, o) == th.pc \in Filling /\ th.n = o

\* What a thread knows of its own request, and of the tables.
WorkOK(th) ==
    /\ th.pc = "idle" => th.outer = 0
    /\ th.pc # "idle" => th.u \in Uuid
    /\ th.pc \in Asking => th.ask \in Asks /\ th.ask.u = th.u
    /\ th.pc \in Fetching => th.ask \in Peer /\ th.ask.u = th.u
    /\ th.pc \in Loading => th.row \in Row /\ th.row.name \in OwnName(th.u)
    /\ th.pc \notin Loading \/ th.pc \in {"load_inherit", "load_find"} => th.found = 0
    /\ th.pc \in {"del_desched", "del_mark"} => th.outer # 0

\* Nothing is found by the uuid of a check that is being made, and the object being
\* filled in is what its name finds.
Knows(th, R) ==
    /\ th.outer \in {0} \cup DOMAIN R.obj
    /\ th.found \in {0} \cup DOMAIN R.obj
    /\ th.pc \in {"sched"} \cup Filling => R.polls[th.u] = 0
    /\ th.pc \in Filling =>
         /\ th.n \in DOMAIN R.obj
         /\ R.obj[th.n].u = th.u
         /\ R.byname[R.obj[th.n].name] = th.n

\* A thread that is loading, and no other, holds the transaction.
ThreadOK(t) ==
    /\ thr[t].pc \in Loading <=> txn = t
    /\ WorkOK(thr[t])
    /\ Knows(thr[t], reg)

\* What a uuid finds is that check, and its name finds it too; what a name finds has
\* that name, and its uuid finds it unless it is being filled in; names belong to
\* their checks; what is in the bin is not found by its name.
IndexOK ==
    /\ \A u \in Uuid : reg.polls[u] # 0 =>
         /\ reg.polls[u] \in DOMAIN reg.obj
         /\ reg.obj[reg.polls[u]].u = u
         /\ reg.byname[reg.obj[reg.polls[u]].name] = reg.polls[u]
    /\ \A k \in AnyName : reg.byname[k] # 0 =>
         /\ reg.byname[k] \in DOMAIN reg.obj
         /\ reg.obj[reg.byname[k]].name = k
         /\ \/ reg.polls[reg.obj[reg.byname[k]].u] = reg.byname[k]
            \/ \E t \in Thread : Fills(thr[t], reg.byname[k])
    /\ \A o \in DOMAIN reg.obj : reg.obj[o].name \in OwnName(reg.obj[o].u)
    /\ \A o \in reg.bin : o \in DOMAIN reg.obj /\ reg.byname[reg.obj[o].name] # o
    /\ \A u \in Uuid : db[u] # None => db[u].name \in OwnName(u)

\* The references of the tables, the bin, the firing and the run, and those of a
\* thread.
TableRefs(R, o) ==
    B2N(R.polls[R.obj[o].u] = o) + B2N(R.byname[R.obj[o].name] = o) + B2N(o \in R.bin)
      + B2N(R.obj[o].event) + B2N(R.obj[o].running)
Own(th, o) == B2N(th.outer = o) + B2N(th.found = o) + 2 * B2N(Fills(th, o))
ThreadRefs(o) ==
    Cardinality({t \in Thread : thr[t].outer = o})
      + Cardinality({t \in Thread : thr[t].found = o})
      + 2 * Cardinality({t \in Thread : Fills(thr[t], o)})

\* The count of an object covers the references of the tables and h others; a
\* released object has none.
Counted(R, o, h) ==
    IF R.obj[o].released THEN TableRefs(R, o) + h = 0
    ELSE R.obj[o].ref >= TableRefs(R, o) + h /\ R.obj[o].ref > 0

\* How sets of threads are counted: by one more or less when a thread joins or
\* leaves.  It follows from there being finitely many threads (lemma ThreadsCounted
\* of CheckRegistryProofs), and is a conjunct of the invariant so that the steps can
\* be proved without the theory of finite sets.
ThreadsCount ==
    /\ Cardinality({}) = 0 /\ \A z : Cardinality({z}) = 1
    /\ \A A \in SUBSET Thread : \A t :
         /\ Cardinality(A) \in Nat /\ Cardinality(A \ {t}) \in Nat
         /\ Cardinality(A \ {t}) = IF t \in A THEN Cardinality(A) - 1 ELSE Cardinality(A)

\* The inductive invariant.
RegistryInv ==
    /\ ThreadsCount
    /\ RegistryTypes
    /\ reg.failed = {}
    /\ \A t \in Thread : ThreadOK(t)
    /\ IndexOK
    /\ \A o \in DOMAIN reg.obj : Counted(reg, o, ThreadRefs(o))

USE DEF B2N

\* A function on the indexes of a sequence is a sequence.
LEMMA SeqOf ==
    ASSUME NEW S, NEW s \in Seq(S), NEW f \in [DOMAIN s -> S]
    PROVE  f \in Seq(S) /\ DOMAIN f = DOMAIN s
BY SMTT(30)

\* What Append adds, and what it leaves.
LEMMA SeqMore ==
    ASSUME NEW S, NEW s \in Seq(S), NEW e \in S
    PROVE  /\ Append(s, e) \in Seq(S)
           /\ Len(s) + 1 \notin DOMAIN s
           /\ DOMAIN Append(s, e) = DOMAIN s \cup {Len(s) + 1}
           /\ \A i \in DOMAIN s : Append(s, e)[i] = s[i]
           /\ Append(s, e)[Len(s) + 1] = e
           /\ Len(s) + 1 \in Nat \ {0}
OBVIOUS

\* What is added and taken away again leaves a count as it was.
LEMMA BackAgain ==
    ASSUME NEW a \in Nat, NEW d \in Nat, NEW e \in Nat, d = e
    PROVE  a + d - e = a
OBVIOUS

\* A sequence number that is at most another is not above it.
LEMMA NotGreater ==
    ASSUME NEW i \in Nat, NEW j \in Nat, i <= j
    PROVE  ~(i > j)
OBVIOUS

\* The types of the parts of a registry; no object has the number 0.
LEMMA Indexes ==
    ASSUME NEW R \in Registry
    PROVE  /\ R.obj \in Seq(Object)
           /\ 0 \notin DOMAIN R.obj
           /\ DOMAIN R.obj \subseteq Nat
           /\ \A o \in DOMAIN R.obj : R.obj[o] \in Object
           /\ R.polls \in [Uuid -> Nat] /\ R.byname \in [AnyName -> Nat]
<1>1. R.obj \in Seq(Object) /\ R.polls \in [Uuid -> Nat] /\ R.byname \in [AnyName -> Nat]
  BY Zenon DEF Registry
<1>2. Len(R.obj) \in Nat /\ R.obj \in [1 .. Len(R.obj) -> Object] /\ DOMAIN R.obj = 1 .. Len(R.obj)
  BY <1>1
<1> QED  BY <1>1, <1>2

\* Objects in which only the count, the flags and the number differ.
SameCheck(ob, was) ==
    /\ ob.u = was.u /\ ob.name = was.name
    /\ ob.event = was.event /\ ob.running = was.running

\* Objects that look the same to whoever finds them.
SameFace(ob, was) ==
    /\ ob.name = was.name /\ ob.seq = was.seq
    /\ ob.deleted = was.deleted /\ ob.disabled = was.disabled

\* Taking a reference only changes the count.
LEMMA HeldIs ==
    ASSUME NEW ob \in Object
    PROVE  /\ Held(ob) \in Object /\ SameCheck(Held(ob), ob)
           /\ Held(ob).ref = ob.ref + 1 /\ Held(ob).released = ob.released
           /\ SameFace(Held(ob), ob)
BY DEF Held, Object, SameCheck, SameFace

\* Dropping a reference only changes the count, and releases at the last one.
LEMMA DroppedIs ==
    ASSUME NEW ob \in Object
    PROVE  /\ Dropped(ob) \in Object /\ SameCheck(Dropped(ob), ob) /\ SameFace(Dropped(ob), ob)
           /\ Dropped(ob).ref = ob.ref - 1
           /\ Dropped(ob).released <=> ob.released \/ ob.ref = 1
<1>1. PICK b \in BOOLEAN : b = (ob.released \/ ob.ref = 1)  BY Zenon
<1>2. Dropped(ob) = [ob EXCEPT !.ref = ob.ref - 1, !.released = b]  BY <1>1, Zenon DEF Dropped
<1>3. /\ Dropped(ob) \in Object /\ SameCheck(Dropped(ob), ob) /\ SameFace(Dropped(ob), ob)
      /\ Dropped(ob).ref = ob.ref - 1 /\ Dropped(ob).released = b
  <2>1. PICK r \in Int : r = ob.ref - 1  BY DEF Object
  <2>2. Dropped(ob) = [ob EXCEPT !.ref = r, !.released = b]  BY <1>2, <2>1, Zenon
  <2> QED  BY <2>1, <2>2, Zenon DEF Object, SameCheck, SameFace
<1> QED  BY <1>1, <1>3, Zenon

\* Flagging a check for deletion keeps its count and its number.
LEMMA FlaggedIs ==
    ASSUME NEW ob \in Object
    PROVE  /\ Flagged(ob) \in Object /\ SameCheck(Flagged(ob), ob)
           /\ Flagged(ob).ref = ob.ref /\ Flagged(ob).released = ob.released
           /\ Flagged(ob).deleted /\ Flagged(ob).seq = ob.seq
BY Zenon DEF Flagged, Object, SameCheck

\* Another object in the place of o.
LEMMA ObjectSet ==
    ASSUME NEW R \in Registry, NEW o \in DOMAIN R.obj, NEW ob \in Object
    PROVE  LET S == [R EXCEPT !.obj[o] = ob]
           IN /\ S \in Registry
              /\ DOMAIN S.obj = DOMAIN R.obj
              /\ \A p \in DOMAIN R.obj : S.obj[p] = IF p = o THEN ob ELSE R.obj[p]
              /\ S.polls = R.polls /\ S.byname = R.byname /\ S.bin = R.bin /\ S.failed = R.failed
<1>1. PICK f : f = [R.obj EXCEPT ![o] = ob]  BY Zenon
<1>2. /\ f \in [DOMAIN R.obj -> Object]
      /\ \A p \in DOMAIN R.obj : f[p] = IF p = o THEN ob ELSE R.obj[p]
  BY <1>1, Indexes, Zenon
<1>3. f \in Seq(Object) /\ DOMAIN f = DOMAIN R.obj
  BY <1>2, SeqOf, Indexes, Zenon
<1>4. PICK S : S = [R EXCEPT !.obj = f]  BY Zenon
<1>5. [R EXCEPT !.obj[o] = ob] = S
  BY <1>1, <1>4, Zenon
<1>6. /\ S \in Registry /\ S.obj = f
      /\ S.polls = R.polls /\ S.byname = R.byname /\ S.bin = R.bin /\ S.failed = R.failed
  BY <1>3, <1>4, Zenon DEF Registry
<1> QED  BY <1>2, <1>3, <1>5, <1>6, Zenon

\* Ref holds one object, if there is one, and leaves the tables.
LEMMA RefIs ==
    ASSUME NEW R \in Registry, NEW o \in {0} \cup DOMAIN R.obj
    PROVE  /\ Ref(R, o) \in Registry
           /\ DOMAIN Ref(R, o).obj = DOMAIN R.obj
           /\ \A p \in DOMAIN R.obj : Ref(R, o).obj[p] = IF p = o THEN Held(R.obj[p]) ELSE R.obj[p]
           /\ Ref(R, o).polls = R.polls /\ Ref(R, o).byname = R.byname
           /\ Ref(R, o).bin = R.bin /\ Ref(R, o).failed = R.failed
<1>1. CASE o = 0  BY <1>1, Indexes, Zenon DEF Ref
<1>2. CASE o # 0
  <2>1. o \in DOMAIN R.obj /\ R.obj[o] \in Object /\ Held(R.obj[o]) \in Object  BY <1>2, Indexes, HeldIs, Zenon
  <2> QED  BY <1>2, <2>1, ObjectSet DEF Ref
<1> QED  BY <1>1, <1>2, Zenon

\* Deref drops one object, if there is one, and leaves the tables.
LEMMA DerefIs ==
    ASSUME NEW R \in Registry, NEW o \in {0} \cup DOMAIN R.obj
    PROVE  /\ Deref(R, o) \in Registry
           /\ DOMAIN Deref(R, o).obj = DOMAIN R.obj
           /\ \A p \in DOMAIN R.obj : Deref(R, o).obj[p] = IF p = o THEN Dropped(R.obj[p]) ELSE R.obj[p]
           /\ Deref(R, o).polls = R.polls /\ Deref(R, o).byname = R.byname
           /\ Deref(R, o).bin = R.bin /\ Deref(R, o).failed = R.failed
<1>1. CASE o = 0  BY <1>1, Indexes, Zenon DEF Deref
<1>2. CASE o # 0
  <2>1. o \in DOMAIN R.obj /\ R.obj[o] \in Object /\ Dropped(R.obj[o]) \in Object  BY <1>2, Indexes, DroppedIs, Zenon
  <2> QED  BY <1>2, <2>1, ObjectSet DEF Deref
<1> QED  BY <1>1, <1>2, Zenon

\* No thread and one thread are counted as 0 and 1.
LEMMA SmallCounts ==
    ASSUME RegistryInv
    PROVE  Cardinality({}) = 0 /\ \A z : Cardinality({z}) = 1
BY Zenon DEF RegistryInv, ThreadsCount

\* Sets of threads that differ in one thread differ by one in size.
LEMMA CountMoves ==
    ASSUME RegistryInv, NEW A \in SUBSET Thread, NEW B \in SUBSET Thread, NEW t, A \ {t} = B \ {t}
    PROVE  /\ Cardinality(A) \in Nat /\ Cardinality(B) \in Nat
           /\ Cardinality(B) + B2N(t \in A) = Cardinality(A) + B2N(t \in B)
           /\ Cardinality(A) >= B2N(t \in A)
<1>2. ThreadsCount  BY Zenon DEF RegistryInv
<1>3. /\ Cardinality(A) \in Nat /\ Cardinality(B) \in Nat
      /\ Cardinality(A \ {t}) \in Nat
  BY <1>2, Zenon DEF ThreadsCount
<1>4. Cardinality(A \ {t}) = IF t \in A THEN Cardinality(A) - 1 ELSE Cardinality(A)
  BY <1>2, Zenon DEF ThreadsCount
<1>5. Cardinality(A \ {t}) = IF t \in B THEN Cardinality(B) - 1 ELSE Cardinality(B)
  BY <1>2, Zenon DEF ThreadsCount
<1>6. CASE t \in A /\ t \in B  BY <1>3, <1>4, <1>5, <1>6
<1>7. CASE t \in A /\ t \notin B  BY <1>3, <1>4, <1>5, <1>7
<1>8. CASE t \notin A /\ t \in B  BY <1>3, <1>4, <1>5, <1>8
<1>9. CASE t \notin A /\ t \notin B  BY <1>3, <1>4, <1>5, <1>9
<1> QED  BY <1>6, <1>7, <1>8, <1>9, Zenon

\* When one thread moves, the references of the threads change by what that
\* thread gives up and takes.
LEMMA ThreadMoves ==
    ASSUME RegistryInv, NEW t \in Thread, NEW x \in Work,
           thr \in [Thread -> Work], thr' = [thr EXCEPT ![t] = x], NEW o
    PROVE  /\ ThreadRefs(o) \in Nat /\ ThreadRefs(o)' \in Nat
           /\ Own(x, o) \in Nat /\ Own(thr[t], o) \in Nat
           /\ ThreadRefs(o)' = ThreadRefs(o) + Own(x, o) - Own(thr[t], o)
           /\ ThreadRefs(o) >= Own(thr[t], o)
<1>0. /\ thr'[t] = x /\ \A s \in Thread \ {t} : thr'[s] = thr[s]
      /\ t \in Thread
  BY Zenon
<1> DEFINE A1 == {s \in Thread : thr[s].outer = o}
           B1 == {s \in Thread : thr'[s].outer = o}
           A2 == {s \in Thread : thr[s].found = o}
           B2 == {s \in Thread : thr'[s].found = o}
           A3 == {s \in Thread : Fills(thr[s], o)}
           B3 == {s \in Thread : Fills(thr'[s], o)}
<1>1. A1 \ {t} = B1 \ {t} /\ A2 \ {t} = B2 \ {t} /\ A3 \ {t} = B3 \ {t}
  BY <1>0, Zenon
<1>2. /\ t \in A1 <=> thr[t].outer = o
      /\ t \in A2 <=> thr[t].found = o
      /\ t \in A3 <=> Fills(thr[t], o)
  BY Zenon
<1>3. /\ t \in B1 <=> x.outer = o
      /\ t \in B2 <=> x.found = o
      /\ t \in B3 <=> Fills(x, o)
  BY <1>0, Zenon
<1>4. A1 \in SUBSET Thread /\ B1 \in SUBSET Thread /\ A2 \in SUBSET Thread /\ B2 \in SUBSET Thread
        /\ A3 \in SUBSET Thread /\ B3 \in SUBSET Thread
  BY Zenon
<1>5. ThreadRefs(o) = Cardinality(A1) + Cardinality(A2) + 2 * Cardinality(A3)  BY Zenon DEF ThreadRefs
<1>6. ThreadRefs(o)' = Cardinality(B1) + Cardinality(B2) + 2 * Cardinality(B3)  BY Zenon DEF ThreadRefs, Fills
<1> HIDE DEF A1, B1, A2, B2, A3, B3
<1>7. /\ Cardinality(A1) \in Nat /\ Cardinality(B1) \in Nat
      /\ Cardinality(B1) + B2N(t \in A1) = Cardinality(A1) + B2N(t \in B1)
      /\ Cardinality(A1) >= B2N(t \in A1)
  BY <1>1, <1>4, CountMoves, Zenon
<1>8. /\ Cardinality(A2) \in Nat /\ Cardinality(B2) \in Nat
      /\ Cardinality(B2) + B2N(t \in A2) = Cardinality(A2) + B2N(t \in B2)
      /\ Cardinality(A2) >= B2N(t \in A2)
  BY <1>1, <1>4, CountMoves, Zenon
<1>9. /\ Cardinality(A3) \in Nat /\ Cardinality(B3) \in Nat
      /\ Cardinality(B3) + B2N(t \in A3) = Cardinality(A3) + B2N(t \in B3)
      /\ Cardinality(A3) >= B2N(t \in A3)
  BY <1>1, <1>4, CountMoves, Zenon
<1> QED  BY <1>2, <1>3, <1>5, <1>6, <1>7, <1>8, <1>9 DEF Own

\* The references of the threads can be counted.
LEMMA ThreadRefsNat ==
    ASSUME RegistryInv, NEW o
    PROVE  ThreadRefs(o) \in Nat
<1>1. \A A \in SUBSET Thread : Cardinality(A) \in Nat  BY CountMoves, Zenon
<1> QED  BY <1>1 DEF ThreadRefs

\* What a step does to the count of an object: d references more.
Moves(ob, was, d) ==
    /\ d \in {-1, 0, 1}
    /\ ob.ref = was.ref + d
    /\ ob.released <=> was.released \/ (d = -1 /\ was.ref = 1)

\* An object that stays covers the same references.
LEMMA NoMove ==
    ASSUME NEW ob \in Object
    PROVE  SameCheck(ob, ob) /\ Moves(ob, ob, 0)
BY DEF Object, SameCheck, Moves

\* An object that is held covers one more reference.
LEMMA HeldMoves ==
    ASSUME NEW ob \in Object
    PROVE  SameCheck(Held(ob), ob) /\ Moves(Held(ob), ob, 1)
BY HeldIs DEF Object, Moves

\* An object that is dropped covers one reference fewer.
LEMMA DroppedMoves ==
    ASSUME NEW ob \in Object
    PROVE  SameCheck(Dropped(ob), ob) /\ Moves(Dropped(ob), ob, -1)
BY DroppedIs, Zenon DEF Object, Moves

\* The tables are those of R.
SameTables(S, R) ==
    /\ S.polls = R.polls /\ S.byname = R.byname /\ S.bin = R.bin
    /\ S.failed = R.failed /\ DOMAIN S.obj = DOMAIN R.obj

\* The references of the tables can be counted.
LEMMA TableRefsNat ==
    ASSUME NEW R, NEW o
    PROVE  TableRefs(R, o) \in Nat
BY DEF TableRefs

\* The references of the tables depend on the tables and on what SameCheck keeps.
LEMMA SameTableRefs ==
    ASSUME NEW R, NEW S, NEW o, SameTables(S, R), SameCheck(S.obj[o], R.obj[o])
    PROVE  TableRefs(S, o) = TableRefs(R, o)
BY Zenon DEF TableRefs, SameTables, SameCheck

\* The count of an object follows the references of a thread.
LEMMA CountFollows ==
    ASSUME NEW R \in Registry, NEW S \in Registry, NEW o \in DOMAIN R.obj,
           SameTables(S, R), SameCheck(S.obj[o], R.obj[o]),
           NEW h \in Nat, NEW k \in Nat, NEW d, k = h + d,
           Moves(S.obj[o], R.obj[o], d),
           d = 1 => TableRefs(R, o) > 0,
           Counted(R, o, h)
    PROVE  Counted(S, o, k)
<1>1. TableRefs(S, o) = TableRefs(R, o) /\ TableRefs(R, o) \in Nat  BY SameTableRefs, TableRefsNat, Zenon
<1>2. R.obj[o] \in Object  BY Indexes, Zenon
<1>3. R.obj[o].ref \in Int /\ d \in Int  BY <1>2 DEF Object, Moves
<1>4. S.obj[o].ref = R.obj[o].ref + d
  BY Zenon DEF Moves
<1>5. S.obj[o].released <=> R.obj[o].released \/ (d = -1 /\ R.obj[o].ref = 1)
  BY Zenon DEF Moves
<1>6. d \in {-1, 0, 1}  BY Zenon DEF Moves
<1>7. CASE R.obj[o].released
  <2>1. TableRefs(R, o) = 0 /\ h = 0  BY <1>1, <1>7 DEF Counted
  <2>2. d = 0  BY <1>6, <2>1
  <2> QED  BY <1>1, <1>5, <1>7, <2>1, <2>2, Zenon DEF Counted
<1>8. CASE ~R.obj[o].released
  <2>1. R.obj[o].ref >= TableRefs(R, o) + h /\ R.obj[o].ref > 0  BY <1>8, Zenon DEF Counted
  <2>2. CASE d = -1 /\ R.obj[o].ref = 1
    <3>1. S.obj[o].released  BY <1>5, <2>2, Zenon
    <3>2. TableRefs(R, o) + h <= 1 /\ h = 1 + k  BY <1>1, <2>1, <2>2
    <3>3. TableRefs(S, o) + k = 0  BY <1>1, <3>2
    <3> QED  BY <3>1, <3>3, Zenon DEF Counted
  <2>3. CASE ~(d = -1 /\ R.obj[o].ref = 1)
    <3>1. ~S.obj[o].released  BY <1>5, <1>8, <2>3, Zenon
    <3>2. S.obj[o].ref >= TableRefs(S, o) + k /\ S.obj[o].ref > 0
      BY <1>1, <1>3, <1>4, <1>6, <2>1, <2>3
    <3> QED  BY <3>1, <3>2, Zenon DEF Counted
  <2> QED  BY <2>2, <2>3, Zenon
<1> QED  BY <1>7, <1>8, Zenon

\* The rows keep names of their own.
RowsNamed(D) == D \in [Uuid -> Row \cup {None}]
                  /\ \A u \in Uuid : D[u] # None => D[u].name \in OwnName(u)

\* One thread moves on, the tables stay.
ThreadStep(t, x) ==
    /\ t \in Thread /\ x \in Work
    /\ thr' = [thr EXCEPT ![t] = x]
    /\ reg' \in Registry
    /\ SameTables(reg', reg)
    /\ RowsNamed(db')
    /\ txn' \in Thread \cup {None}
    /\ x.pc \in Loading <=> txn' = t
    /\ \A s \in Thread \ {t} : txn' = s <=> txn = s
    /\ WorkOK(x) /\ Knows(x, reg')
    /\ x.pc \notin Filling /\ thr[t].pc \notin Filling
    /\ \A o \in DOMAIN reg.obj :
         /\ SameCheck(reg'.obj[o], reg.obj[o])
         /\ Moves(reg'.obj[o], reg.obj[o], Own(x, o) - Own(thr[t], o))
         /\ Own(x, o) - Own(thr[t], o) = 1 => TableRefs(reg, o) > 0

\* What a thread knows of the tables depends only on the tables and the names.
LEMMA KnowsStill ==
    ASSUME NEW th, NEW R, NEW S, SameTables(S, R), Knows(th, R),
           \A o \in DOMAIN R.obj : SameCheck(S.obj[o], R.obj[o])
    PROVE  Knows(th, S)
BY Zenon DEF Knows, SameTables, SameCheck

\* A step of one thread that changes the count of each object by what the thread
\* takes or gives up keeps the invariant.
LEMMA ThreadStepKeeps ==
    ASSUME RegistryInv, NEW t, NEW x, ThreadStep(t, x)
    PROVE  RegistryInv'
<1>0. /\ RegistryTypes /\ reg.failed = {} /\ (\A s \in Thread : ThreadOK(s)) /\ IndexOK
      /\ \A o \in DOMAIN reg.obj : Counted(reg, o, ThreadRefs(o))
  BY Zenon DEF RegistryInv
<1>a. t \in Thread /\ x \in Work /\ thr \in [Thread -> Work] /\ reg \in Registry /\ reg' \in Registry
  BY <1>0, Zenon DEF ThreadStep, RegistryTypes
<1>b. thr' \in [Thread -> Work] /\ thr'[t] = x /\ \A s \in Thread \ {t} : thr'[s] = thr[s]
  BY <1>a, Zenon DEF ThreadStep
<1>c. SameTables(reg', reg) /\ \A o \in DOMAIN reg.obj : SameCheck(reg'.obj[o], reg.obj[o])
  BY Zenon DEF ThreadStep
<1>d. reg'.polls = reg.polls /\ reg'.byname = reg.byname /\ reg'.bin = reg.bin
        /\ reg'.failed = reg.failed /\ DOMAIN reg'.obj = DOMAIN reg.obj
  BY <1>c, Zenon DEF SameTables
<1>1. RegistryTypes'
  BY <1>a, <1>b, Zenon DEF RegistryTypes, ThreadStep, RowsNamed
<1>2. (reg.failed = {})'  BY <1>0, <1>d, Zenon
<1>3. ASSUME NEW s \in Thread PROVE ThreadOK(s)'
  <2>1. CASE s = t
    BY <1>b, <2>1, Zenon DEF ThreadOK, ThreadStep, WorkOK, Knows
  <2>2. CASE s # t
    <3>1. thr'[s] = thr[s] /\ ThreadOK(s) /\ s \in Thread \ {t}  BY <1>0, <1>b, <2>2, Zenon
    <3>2. Knows(thr[s], reg')  BY <1>c, <3>1, KnowsStill, Zenon DEF ThreadOK
    <3>3. txn' = s <=> txn = s  BY <3>1, Zenon DEF ThreadStep
    <3> QED  BY <3>1, <3>2, <3>3, Zenon DEF ThreadOK, WorkOK, Knows
  <2> QED  BY <2>1, <2>2, Zenon
<1>4. IndexOK'
  <2>1. \A s \in Thread, o \in Nat : Fills(thr[s], o) => Fills(thr'[s], o)
    BY <1>b, Zenon DEF Fills, ThreadStep
  <2>2. \A k \in AnyName : reg.byname[k] \in Nat  BY <1>a, Indexes, Zenon
  <2>3. \A u \in Uuid : reg'.polls[u] # 0 =>
          /\ reg'.polls[u] \in DOMAIN reg'.obj
          /\ reg'.obj[reg'.polls[u]].u = u
          /\ reg'.byname[reg'.obj[reg'.polls[u]].name] = reg'.polls[u]
    BY <1>0, <1>c, <1>d, SMTT(30) DEF IndexOK, SameCheck
  <2>4. ASSUME NEW k \in AnyName, reg'.byname[k] # 0
        PROVE  /\ reg'.byname[k] \in DOMAIN reg'.obj
               /\ reg'.obj[reg'.byname[k]].name = k
               /\ \/ reg'.polls[reg'.obj[reg'.byname[k]].u] = reg'.byname[k]
                  \/ \E s \in Thread : Fills(thr'[s], reg'.byname[k])
    <3>1. /\ reg.byname[k] \in DOMAIN reg.obj /\ reg.obj[reg.byname[k]].name = k
          /\ \/ reg.polls[reg.obj[reg.byname[k]].u] = reg.byname[k]
             \/ \E s \in Thread : Fills(thr[s], reg.byname[k])
      BY <1>0, <1>d, <2>4, Zenon DEF IndexOK
    <3>2. SameCheck(reg'.obj[reg.byname[k]], reg.obj[reg.byname[k]])  BY <1>c, <3>1, Zenon
    <3> QED  BY <1>d, <2>1, <2>2, <3>1, <3>2, Zenon DEF SameCheck
  <2>5. \A o \in DOMAIN reg'.obj : reg'.obj[o].name \in OwnName(reg'.obj[o].u)
    BY <1>0, <1>c, <1>d, Zenon DEF IndexOK, SameCheck
  <2>6. \A o \in reg'.bin : o \in DOMAIN reg'.obj /\ reg'.byname[reg'.obj[o].name] # o
    BY <1>0, <1>c, <1>d DEF IndexOK, SameCheck
  <2>7. \A u \in Uuid : db'[u] # None => db'[u].name \in OwnName(u)
    BY Zenon DEF ThreadStep, RowsNamed
  <2> QED  BY <2>3, <2>4, <2>5, <2>6, <2>7, Zenon DEF IndexOK, Fills
<1>5. ASSUME NEW o \in DOMAIN reg.obj PROVE Counted(reg', o, ThreadRefs(o)')
  <2>1. /\ ThreadRefs(o) \in Nat /\ ThreadRefs(o)' \in Nat
        /\ Own(x, o) \in Nat /\ Own(thr[t], o) \in Nat
        /\ ThreadRefs(o)' = ThreadRefs(o) + Own(x, o) - Own(thr[t], o)
    BY <1>a, ThreadMoves, Zenon DEF ThreadStep
  <2>2. PICK d \in Int : d = Own(x, o) - Own(thr[t], o)  BY <2>1
  <2>3. ThreadRefs(o)' = ThreadRefs(o) + d  BY <2>1, <2>2, Zenon
  <2>4. Moves(reg'.obj[o], reg.obj[o], d) /\ (d = 1 => TableRefs(reg, o) > 0)
    BY <2>2, Zenon DEF ThreadStep
  <2>5. Counted(reg, o, ThreadRefs(o))  BY <1>0, Zenon
  <2> QED  BY <1>a, <1>c, <2>1, <2>3, <2>4, <2>5, CountFollows, Zenon
<1>6. ThreadsCount'  BY Zenon DEF RegistryInv, ThreadsCount
<1> QED  BY <1>1, <1>2, <1>3, <1>4, <1>5, <1>6, <1>d, Zenon DEF RegistryInv, Counted, TableRefs

\* What the invariant says of a thread and of the tables it works on.
LEMMA Known ==
    ASSUME RegistryInv, NEW t \in Thread
    PROVE  /\ thr \in [Thread -> Work] /\ thr[t] \in Work /\ reg \in Registry
           /\ reg.failed = {}
           /\ thr[t].pc \in Loading <=> txn = t
           /\ WorkOK(thr[t]) /\ Knows(thr[t], reg) /\ RowsNamed(db)
           /\ txn \in Thread \cup {None} /\ None \notin Thread
BY RegistryConstants, Zenon DEF RegistryInv, RegistryTypes, ThreadOK, IndexOK, RowsNamed, Thread

\* A thread that fills in no object holds what it looked up.
LEMMA OwnPlain ==
    ASSUME NEW th, NEW o, th.pc \notin Filling
    PROVE  Own(th, o) = B2N(th.outer = o) + B2N(th.found = o)
BY SMTT(30) DEF Own, Fills

\* What a uuid finds is referenced by the tables.
LEMMA PollsReferenced ==
    ASSUME RegistryInv, NEW u \in Uuid, reg.polls[u] # 0
    PROVE  /\ reg.polls[u] \in DOMAIN reg.obj
           /\ TableRefs(reg, reg.polls[u]) > 0
           /\ reg.obj[reg.polls[u]].u = u
           /\ reg.byname[reg.obj[reg.polls[u]].name] = reg.polls[u]
BY DEF RegistryInv, IndexOK, TableRefs

\* One thread moves on, and keeps the objects that it holds.
PlainStep(t, x) ==
    /\ t \in Thread /\ x \in Work
    /\ thr' = [thr EXCEPT ![t] = x]
    /\ reg' \in Registry
    /\ SameTables(reg', reg)
    /\ RowsNamed(db')
    /\ txn' \in Thread \cup {None}
    /\ x.pc \in Loading <=> txn' = t
    /\ \A s \in Thread \ {t} : txn' = s <=> txn = s
    /\ WorkOK(x)
    /\ x.pc \notin Filling \cup {"sched"} /\ thr[t].pc \notin Filling
    /\ x.outer = thr[t].outer /\ x.found = thr[t].found
    /\ \A o \in DOMAIN reg.obj :
         SameCheck(reg'.obj[o], reg.obj[o]) /\ Moves(reg'.obj[o], reg.obj[o], 0)

\* A step of one thread that moves no reference keeps the invariant.
LEMMA PlainStepKeeps ==
    ASSUME RegistryInv, NEW t, NEW x, PlainStep(t, x)
    PROVE  RegistryInv'
<1>1. t \in Thread /\ x.pc \notin Filling /\ thr[t].pc \notin Filling
        /\ x.outer = thr[t].outer /\ x.found = thr[t].found /\ x.pc # "sched"
  BY Zenon DEF PlainStep
<1>2. ASSUME NEW o \in DOMAIN reg.obj
      PROVE  /\ SameCheck(reg'.obj[o], reg.obj[o])
             /\ Moves(reg'.obj[o], reg.obj[o], Own(x, o) - Own(thr[t], o))
             /\ Own(x, o) - Own(thr[t], o) = 1 => TableRefs(reg, o) > 0
  <2>1. Own(x, o) - Own(thr[t], o) = 0  BY <1>1, OwnPlain
  <2> QED  BY <2>1 DEF PlainStep
<1>3. Knows(x, reg')
  BY <1>1, Known, Zenon DEF Knows, PlainStep, SameTables
<1>4. ThreadStep(t, x)  BY <1>1, <1>2, <1>3, Zenon DEF PlainStep, ThreadStep
<1> QED  BY <1>4, ThreadStepKeeps, Zenon

\* Tables that stay as they are move no reference.
LEMMA SameRegistry ==
    ASSUME RegistryInv, reg' = reg
    PROVE  /\ reg' \in Registry /\ SameTables(reg', reg)
           /\ \A o \in DOMAIN reg.obj :
                SameCheck(reg'.obj[o], reg.obj[o]) /\ Moves(reg'.obj[o], reg.obj[o], 0)
<1>1. reg \in Registry  BY Zenon DEF RegistryInv, RegistryTypes
<1>2. \A o \in DOMAIN reg.obj : reg.obj[o] \in Object  BY <1>1, Indexes, Zenon
<1> QED  BY <1>1, <1>2, NoMove, Zenon DEF SameTables

\* A thread takes its next step; the rest stays as it is.
LEMMA PlainMove ==
    ASSUME RegistryInv, NEW t \in Thread, NEW x \in Work, thr' = [thr EXCEPT ![t] = x],
           UNCHANGED <<reg, txn>>, RowsNamed(db'), WorkOK(x),
           x.pc \notin Filling \cup {"sched"}, thr[t].pc \notin Filling,
           x.pc \in Loading <=> thr[t].pc \in Loading,
           x.outer = thr[t].outer, x.found = thr[t].found
    PROVE  RegistryInv'
BY SameRegistry, Known, PlainStepKeeps, Zenon DEF PlainStep

\* The look into the database of a set keeps the invariant.
LEMMA SetInDbKeeps ==
    ASSUME RegistryInv, NEW t \in Thread, SetInDb(t)
    PROVE  RegistryInv'
<1>1. thr[t] \in Work /\ WorkOK(thr[t]) /\ RowsNamed(db) /\ thr[t].pc = "set_in_db"
  BY Known, Zenon DEF SetInDb, At
<1>2. PICK b \in BOOLEAN, p \in {"end", "load", "set_dup"} :
        thr' = [thr EXCEPT ![t] = [thr[t] EXCEPT !.indb = b, !.pc = p]]
  <2>1. PICK b \in BOOLEAN : b = (db[thr[t].u] # None)  BY Zenon
  <2>2. PICK p : p = CASE ~b /\ thr[t].outer # 0 -> "end"
                      [] b /\ ~(thr[t].outer # 0) -> "load"
                      [] OTHER -> "set_dup"
    BY Zenon
  <2>3. p \in {"end", "load", "set_dup"}  BY <2>2, Zenon
  <2>4. thr' = [thr EXCEPT ![t] = [thr[t] EXCEPT !.indb = b, !.pc = p]]
    BY <2>1, <2>2, Zenon DEF SetInDb, Become
  <2> QED  BY <2>3, <2>4, Zenon
<1>3. PICK x : x = [thr[t] EXCEPT !.indb = b, !.pc = p]  BY Zenon
<1>4. x \in Work /\ x.pc = p /\ x.outer = thr[t].outer /\ x.found = thr[t].found
        /\ x.u = thr[t].u /\ x.ask = thr[t].ask
  BY <1>1, <1>3, Zenon DEF Work, Places, Loading, Asking, Fetching, Filling
<1>5. WorkOK(x)  BY <1>1, <1>4, Zenon DEF WorkOK, Loading, Asking, Fetching
<1> QED  BY <1>1, <1>2, <1>3, <1>4, <1>5, PlainMove, Zenon DEF SetInDb, Filling, Loading

\* A thread only changes its place.
LEMMA GotoIs ==
    ASSUME RegistryInv, NEW t \in Thread, NEW p \in Places, Goto(t, p)
    PROVE  \E x \in Work : /\ thr' = [thr EXCEPT ![t] = x]
                           /\ x.pc = p /\ x.u = thr[t].u /\ x.ask = thr[t].ask /\ x.outer = thr[t].outer
                           /\ x.row = thr[t].row /\ x.found = thr[t].found /\ x.n = thr[t].n
                           /\ x.indb = thr[t].indb
<1>1. thr[t] \in Work /\ thr \in [Thread -> Work]  BY Known, Zenon
<1>2. PICK x : x = [thr[t] EXCEPT !.pc = p]  BY Zenon
<1>3. /\ x \in Work /\ x.pc = p /\ x.u = thr[t].u /\ x.ask = thr[t].ask /\ x.outer = thr[t].outer
      /\ x.row = thr[t].row /\ x.found = thr[t].found /\ x.n = thr[t].n
      /\ x.indb = thr[t].indb
  BY <1>1, <1>2, Zenon DEF Work
<1>4. thr' = [thr EXCEPT ![t] = x]  BY <1>1, <1>2, Zenon DEF Goto
<1> QED  BY <1>3, <1>4, Zenon

\* The look for a check of the same name keeps the invariant.
LEMMA SetDupKeeps ==
    ASSUME RegistryInv, NEW t \in Thread, SetDup(t)
    PROVE  RegistryInv'
<1>1. thr[t] \in Work /\ WorkOK(thr[t]) /\ RowsNamed(db) /\ thr[t].pc = "set_dup"
  BY Known, Zenon DEF SetDup, At
<1>2. PICK p \in {"set_read", "end"} : Goto(t, p)  BY Zenon DEF SetDup
<1>3. PICK x \in Work : /\ thr' = [thr EXCEPT ![t] = x]
                        /\ x.pc = p /\ x.u = thr[t].u /\ x.ask = thr[t].ask /\ x.outer = thr[t].outer
                        /\ x.found = thr[t].found
  BY <1>2, GotoIs DEF Places, Loading, Asking, Fetching
<1>4. WorkOK(x)  BY <1>1, <1>3, Zenon DEF WorkOK, Loading, Asking, Fetching
<1> QED  BY <1>1, <1>3, <1>4, PlainMove, Zenon DEF SetDup, Filling, Loading

\* Reading the old number and keys of the row keeps the invariant.
LEMMA SetReadKeeps ==
    ASSUME RegistryInv, NEW t \in Thread, SetRead(t)
    PROVE  RegistryInv'
<1>1. thr[t] \in Work /\ WorkOK(thr[t]) /\ RowsNamed(db) /\ thr[t].pc = "set_read"
  BY Known, Zenon DEF SetRead, At
<1>2. thr[t].u \in Uuid  BY <1>1, Zenon DEF WorkOK
<1>3. db[thr[t].u] \in Row \cup {None}  BY <1>1, <1>2, Zenon DEF RowsNamed
<1>4. PICK o \in Nat : o = IF thr[t].indb /\ db[thr[t].u] # None THEN db[thr[t].u].seq ELSE 0
  BY <1>3, Zenon DEF Row
<1>5. PICK b \in BOOLEAN : b = (db[thr[t].u] # None /\ db[thr[t].u].deleted)  BY Zenon
<1>6. PICK x : x = [thr[t] EXCEPT !.pc = "set_write", !.old = o, !.snap = b]  BY Zenon
<1>7. x \in Work /\ x.pc = "set_write" /\ x.outer = thr[t].outer /\ x.found = thr[t].found
        /\ x.u = thr[t].u /\ x.ask = thr[t].ask
  BY <1>1, <1>6, Zenon DEF Work, Places, Asking
<1>8. thr' = [thr EXCEPT ![t] = x]  BY <1>4, <1>5, <1>6, Zenon DEF SetRead, Become
<1>9. WorkOK(x)  BY <1>1, <1>7, Zenon DEF WorkOK, Loading, Asking, Fetching
<1> QED  BY <1>1, <1>7, <1>8, <1>9, PlainMove, Zenon DEF SetRead, Filling, Loading

\* A row that has a name of its check.
LEMMA RowPut ==
    ASSUME RowsNamed(db), NEW u \in Uuid, NEW r \in Row, r.name \in OwnName(u),
           db' = [db EXCEPT ![u] = r]
    PROVE  RowsNamed(db')
BY Zenon DEF RowsNamed

\* Rows that are left keep their names when a row is removed.
LEMMA RowGone ==
    ASSUME RowsNamed(db), NEW u, db' = [db EXCEPT ![u] = None]
    PROVE  RowsNamed(db')
BY Zenon DEF RowsNamed

\* What is asked for a check is one of its names.
LEMMA AskedName ==
    ASSUME NEW a \in Asks \cup Peer
    PROVE  a.u \in Uuid /\ a.name \in AnyName /\ a.seq \in Nat /\ a.name \in OwnName(a.u)
BY RegistryConstants, Zenon DEF AnyName, OwnName

\* Writing the row of a set keeps the invariant.
LEMMA SetWriteKeeps ==
    ASSUME RegistryInv, NEW t \in Thread, SetWrite(t)
    PROVE  RegistryInv'
<1>1. thr[t] \in Work /\ WorkOK(thr[t]) /\ RowsNamed(db) /\ thr[t].pc = "set_write"
  BY Known, Zenon DEF SetWrite, At
<1>2. /\ thr[t].u \in Uuid /\ thr[t].ask \in Asks /\ thr[t].ask.u = thr[t].u
  BY <1>1, Zenon DEF WorkOK, Asking
<1>3. RowsNamed(db') /\ \E p \in {"end", "load"} : Goto(t, p)
  <2>1. CASE thr[t].old # 0 /\ thr[t].old >= thr[t].ask.seq
    BY <1>1, <2>1, Zenon DEF SetWrite
  <2>2. CASE ~(thr[t].old # 0 /\ thr[t].old >= thr[t].ask.seq)
    <3>1. PICK b \in BOOLEAN : b = (db[thr[t].u] # None /\ db[thr[t].u].deleted /\ ~thr[t].snap)
      BY Zenon
    <3>2. PICK r : r = [name |-> thr[t].ask.name, seq |-> thr[t].ask.seq, deleted |-> b]
      BY Zenon
    <3>3. r \in Row /\ r.name \in OwnName(thr[t].u)  BY <1>2, <3>2, AskedName, Zenon DEF Row
    <3>4. db' = [db EXCEPT ![thr[t].u] = r] /\ Goto(t, "load")
      BY <2>2, <3>1, <3>2, Zenon DEF SetWrite
    <3> QED  BY <1>1, <1>2, <3>3, <3>4, RowPut, Zenon
  <2> QED  BY <2>1, <2>2, Zenon
<1>4. PICK p \in {"end", "load"} : Goto(t, p)  BY <1>3, Zenon
<1>5. PICK x \in Work : /\ thr' = [thr EXCEPT ![t] = x]
                        /\ x.pc = p /\ x.u = thr[t].u /\ x.ask = thr[t].ask /\ x.outer = thr[t].outer
                        /\ x.found = thr[t].found
  BY <1>4, GotoIs DEF Places, Loading, Asking, Fetching
<1>6. WorkOK(x)  BY <1>1, <1>5, Zenon DEF WorkOK, Loading, Asking, Fetching
<1> QED  BY <1>1, <1>3, <1>5, <1>6, PlainMove, Zenon DEF SetWrite, Filling, Loading

\* The transaction of a reload begins.
LEMMA LoadBeginKeeps ==
    ASSUME RegistryInv, NEW t \in Thread, LoadBegin(t)
    PROVE  RegistryInv'
<1>1. thr[t] \in Work /\ WorkOK(thr[t]) /\ RowsNamed(db) /\ thr[t].pc = "load"
  BY Known, Zenon DEF LoadBegin, At
<1>2. thr[t].u \in Uuid  BY <1>1, Zenon DEF WorkOK
<1>3. CASE db[thr[t].u] = None
  <2>1. PICK x \in Work : /\ thr' = [thr EXCEPT ![t] = x]
                          /\ x.pc = "end" /\ x.u = thr[t].u /\ x.ask = thr[t].ask
                          /\ x.outer = thr[t].outer /\ x.found = thr[t].found
    BY <1>3, GotoIs DEF LoadBegin, Places
  <2>2. WorkOK(x)  BY <1>1, <2>1, Zenon DEF WorkOK, Loading, Asking, Fetching
  <2> QED  BY <1>1, <1>3, <2>1, <2>2, PlainMove, Zenon DEF LoadBegin, Filling, Loading
<1>4. CASE db[thr[t].u] # None
  <2>1. db[thr[t].u] \in Row /\ db[thr[t].u].name \in OwnName(thr[t].u)
    BY <1>1, <1>2, <1>4, Zenon DEF RowsNamed
  <2>2. PICK x : x = [thr[t] EXCEPT !.pc = "load_inherit", !.row = db[thr[t].u]]  BY Zenon
  <2>3. /\ x \in Work /\ x.pc = "load_inherit" /\ x.outer = thr[t].outer /\ x.found = thr[t].found
        /\ x.u = thr[t].u /\ x.ask = thr[t].ask /\ x.row = db[thr[t].u]
    BY <1>1, <2>1, <2>2, Zenon DEF Work, Places, Loading
  <2>4. WorkOK(x)  BY <1>1, <2>1, <2>3, Zenon DEF WorkOK, Loading, Asking, Fetching
  <2>5. txn = None /\ txn' = t /\ thr' = [thr EXCEPT ![t] = x] /\ reg' = reg /\ db' = db
    BY <1>4, <2>2, Zenon DEF LoadBegin, Become
  <2>6. PlainStep(t, x)
    BY <1>1, <2>3, <2>4, <2>5, SameRegistry, Known, Zenon DEF PlainStep, Filling, Loading
  <2> QED  BY <2>6, PlainStepKeeps, Zenon
<1> QED  BY <1>3, <1>4, Zenon

\* Reading the inherited configuration keeps the invariant.
LEMMA LoadInheritKeeps ==
    ASSUME RegistryInv, NEW t \in Thread, LoadInherit(t)
    PROVE  RegistryInv'
<1>1. thr[t] \in Work /\ WorkOK(thr[t]) /\ RowsNamed(db) /\ thr[t].pc = "load_inherit"
  BY Known, Zenon DEF LoadInherit, At
<1>2. PICK x \in Work : /\ thr' = [thr EXCEPT ![t] = x]
                        /\ x.pc = "load_find" /\ x.u = thr[t].u /\ x.ask = thr[t].ask
                        /\ x.outer = thr[t].outer /\ x.row = thr[t].row /\ x.found = thr[t].found
  BY GotoIs DEF LoadInherit, Places, Loading
<1>3. WorkOK(x)  BY <1>1, <1>2, Zenon DEF WorkOK, Loading, Asking, Fetching
<1> QED  BY <1>1, <1>2, <1>3, PlainMove, Zenon DEF LoadInherit, Filling, Loading

\* Removing the row of a check keeps the invariant.
LEMMA DeleteRemoveKeeps ==
    ASSUME RegistryInv, NEW t \in Thread, DeleteRemove(t)
    PROVE  RegistryInv'
<1>1. thr[t] \in Work /\ WorkOK(thr[t]) /\ RowsNamed(db) /\ thr[t].pc = "del_remove"
  BY Known, Zenon DEF DeleteRemove, At
<1>2. PICK x \in Work : /\ thr' = [thr EXCEPT ![t] = x]
                        /\ x.pc = "end" /\ x.u = thr[t].u /\ x.ask = thr[t].ask
                        /\ x.outer = thr[t].outer /\ x.found = thr[t].found
  BY GotoIs DEF DeleteRemove, Places
<1>3. WorkOK(x)  BY <1>1, <1>2, Zenon DEF WorkOK, Loading, Asking, Fetching
<1>4. RowsNamed(db')  BY <1>1, RowGone, Zenon DEF DeleteRemove
<1> QED  BY <1>1, <1>2, <1>3, <1>4, PlainMove, Zenon DEF DeleteRemove, Filling, Loading

\* The test of the sequence number of a replicated row keeps the invariant.
LEMMA ReplTestKeeps ==
    ASSUME RegistryInv, NEW t \in Thread, ReplTest(t)
    PROVE  RegistryInv'
<1>1. thr[t] \in Work /\ WorkOK(thr[t]) /\ RowsNamed(db) /\ thr[t].pc = "repl_test"
  BY Known, Zenon DEF ReplTest, At
<1>2. PICK p \in {"repl_write", "load"} : Goto(t, p)  BY Zenon DEF ReplTest
<1>3. PICK x \in Work : /\ thr' = [thr EXCEPT ![t] = x]
                        /\ x.pc = p /\ x.u = thr[t].u /\ x.ask = thr[t].ask
                        /\ x.outer = thr[t].outer /\ x.found = thr[t].found
  BY <1>2, GotoIs DEF Places, Fetching
<1>4. WorkOK(x)  BY <1>1, <1>3, Zenon DEF WorkOK, Loading, Asking, Fetching
<1> QED  BY <1>1, <1>3, <1>4, PlainMove, Zenon DEF ReplTest, Filling, Loading

\* Writing a replicated row keeps the invariant.
LEMMA ReplWriteKeeps ==
    ASSUME RegistryInv, NEW t \in Thread, ReplWrite(t)
    PROVE  RegistryInv'
<1>1. thr[t] \in Work /\ WorkOK(thr[t]) /\ RowsNamed(db) /\ thr[t].pc = "repl_write"
  BY Known, Zenon DEF ReplWrite, At
<1>2. thr[t].ask \in Peer  BY <1>1, Zenon DEF WorkOK, Fetching
<1>3. PICK r : r = [name |-> thr[t].ask.name, seq |-> thr[t].ask.seq, deleted |-> thr[t].ask.deleted]
  BY Zenon
<1>4. r \in Row /\ r.name \in OwnName(thr[t].ask.u) /\ thr[t].ask.u \in Uuid
  <2>1. thr[t].ask.deleted \in BOOLEAN  BY <1>2, RegistryConstants, Zenon
  <2> QED  BY <1>2, <1>3, <2>1, AskedName, Zenon DEF Row
<1>5. RowsNamed(db')  BY <1>1, <1>3, <1>4, RowPut, Zenon DEF ReplWrite
<1>6. PICK x \in Work : /\ thr' = [thr EXCEPT ![t] = x]
                        /\ x.pc = "load" /\ x.u = thr[t].u /\ x.ask = thr[t].ask
                        /\ x.outer = thr[t].outer /\ x.found = thr[t].found
  BY GotoIs DEF ReplWrite, Places
<1>7. WorkOK(x)  BY <1>1, <1>6, Zenon DEF WorkOK, Loading, Asking, Fetching
<1> QED  BY <1>1, <1>5, <1>6, <1>7, PlainMove, Zenon DEF ReplWrite, Filling, Loading

\* A replication job begins.
LEMMA ReplBeginKeeps ==
    ASSUME RegistryInv, NEW t \in Thread, ReplBegin(t)
    PROVE  RegistryInv'
<1>1. thr[t] \in Work /\ WorkOK(thr[t]) /\ RowsNamed(db) /\ thr[t].pc = "idle"
  BY Known, Zenon DEF ReplBegin, MayAsk, At
<1>2. PICK a \in Peer, p \in {"end", "repl_test"} :
        thr' = [thr EXCEPT ![t] = [thr[t] EXCEPT !.u = a.u, !.ask = a, !.pc = p]]
  BY Zenon DEF ReplBegin, Become
<1>3. PICK x : x = [thr[t] EXCEPT !.u = a.u, !.ask = a, !.pc = p]  BY Zenon
<1>4. /\ x \in Work /\ x.pc = p /\ x.outer = thr[t].outer /\ x.found = thr[t].found
      /\ x.u = a.u /\ x.ask = a /\ a.u \in Uuid
  BY <1>1, <1>3, AskedName, Zenon DEF Work, Places, Fetching
<1>5. WorkOK(x)  BY <1>1, <1>4, Zenon DEF WorkOK, Loading, Asking, Fetching
<1> QED  BY <1>1, <1>2, <1>3, <1>4, <1>5, PlainMove, Zenon DEF ReplBegin, Filling, Loading

\* Marking the row deleted, and numbering the object, keeps the invariant.
LEMMA DeleteMarkKeeps ==
    ASSUME RegistryInv, NEW t \in Thread, DeleteMark(t)
    PROVE  RegistryInv'
<1>1. thr[t] \in Work /\ WorkOK(thr[t]) /\ RowsNamed(db) /\ thr[t].pc = "del_mark"
        /\ reg \in Registry /\ Knows(thr[t], reg)
  BY Known, Zenon DEF DeleteMark, At
<1>2. thr[t].u \in Uuid /\ thr[t].outer \in DOMAIN reg.obj /\ db[thr[t].u] \in Row \cup {None}
  BY <1>1, Zenon DEF WorkOK, Knows, RowsNamed
<1>3. PICK q \in Nat : q = IF db[thr[t].u] = None THEN 0 ELSE db[thr[t].u].seq + 1
  BY <1>2 DEF Row
<1>4. PICK k : k = IF db[thr[t].u] = None THEN thr[t].u ELSE db[thr[t].u].name  BY Zenon
<1>5. k \in AnyName /\ k \in OwnName(thr[t].u)
  BY <1>1, <1>2, <1>4, Zenon DEF AnyName, OwnName, RowsNamed, Row
<1>6. PICK r : r = [name |-> k, seq |-> q, deleted |-> TRUE]  BY Zenon
<1>7. r \in Row /\ r.name = k  BY <1>3, <1>5, <1>6, Zenon DEF Row
<1>8. db' = [db EXCEPT ![thr[t].u] = r]  BY <1>3, <1>4, <1>6, Zenon DEF DeleteMark
<1>9. RowsNamed(db')  BY <1>1, <1>2, <1>5, <1>7, <1>8, RowPut, Zenon
<1>10. PICK ob : ob = [reg.obj[thr[t].outer] EXCEPT !.seq = IF q = 0 THEN 1 ELSE q]  BY Zenon
<1>11. reg.obj[thr[t].outer] \in Object  BY <1>1, <1>2, Indexes, ZenonT(30)
<1>12. /\ ob \in Object /\ SameCheck(ob, reg.obj[thr[t].outer])
       /\ Moves(ob, reg.obj[thr[t].outer], 0)
  BY <1>3, <1>10, <1>11 DEF Object, SameCheck, Moves
<1>13. reg' = [reg EXCEPT !.obj[thr[t].outer] = ob]
  BY <1>1, <1>3, <1>10, Indexes, Zenon DEF DeleteMark
<1>14. /\ reg' \in Registry /\ SameTables(reg', reg)
       /\ \A o \in DOMAIN reg.obj : reg'.obj[o] = IF o = thr[t].outer THEN ob ELSE reg.obj[o]
  BY <1>1, <1>2, <1>12, <1>13, ObjectSet, SMTT(30) DEF SameTables
<1>15. \A o \in DOMAIN reg.obj :
         SameCheck(reg'.obj[o], reg.obj[o]) /\ Moves(reg'.obj[o], reg.obj[o], 0)
  BY <1>1, <1>12, <1>14, Indexes, NoMove, Zenon
<1>16. PICK x \in Work : /\ thr' = [thr EXCEPT ![t] = x]
                         /\ x.pc = "end" /\ x.u = thr[t].u /\ x.ask = thr[t].ask
                         /\ x.outer = thr[t].outer /\ x.found = thr[t].found
  BY GotoIs, SMTT(30) DEF DeleteMark, Places
<1>17. WorkOK(x)  BY <1>1, <1>16, Zenon DEF WorkOK, Loading, Asking, Fetching
<1>18. txn' = txn  BY Zenon DEF DeleteMark
<1>19. PlainStep(t, x)
  BY <1>1, <1>9, <1>14, <1>15, <1>16, <1>17, <1>18, Known, Zenon DEF PlainStep, Filling, Loading
<1> QED  BY <1>19, PlainStepKeeps, Zenon

\* A thread takes hold of what a uuid finds.
LEMMA TakeStep ==
    ASSUME RegistryInv, NEW t \in Thread, NEW x \in Work, NEW u \in Uuid, NEW o,
           o = reg.polls[u], reg' = Ref(reg, o),
           thr' = [thr EXCEPT ![t] = x], txn' = txn, db' = db, WorkOK(x),
           x.pc \notin Filling, thr[t].pc \notin Filling,
           x.pc \in Loading <=> thr[t].pc \in Loading,
           x.pc = "sched" => x.u = u /\ o = 0,
           \/ x.outer = o /\ thr[t].outer = 0 /\ x.found = thr[t].found
           \/ x.found = o /\ thr[t].found = 0 /\ x.outer = thr[t].outer
    PROVE  RegistryInv'
<1>1. /\ reg \in Registry /\ RowsNamed(db) /\ Knows(thr[t], reg)
      /\ txn \in Thread \cup {None} /\ (thr[t].pc \in Loading <=> txn = t)
  BY Known, Zenon
<1>2. o \in {0} \cup DOMAIN reg.obj /\ (o # 0 => TableRefs(reg, o) > 0)
  BY PollsReferenced, Zenon
<1>3. /\ reg' \in Registry /\ SameTables(reg', reg)
      /\ \A p \in DOMAIN reg.obj : reg'.obj[p] = IF p = o THEN Held(reg.obj[p]) ELSE reg.obj[p]
  BY <1>1, <1>2, RefIs, Zenon DEF SameTables
<1>4. ASSUME NEW p \in DOMAIN reg.obj
      PROVE  /\ SameCheck(reg'.obj[p], reg.obj[p])
             /\ Moves(reg'.obj[p], reg.obj[p], Own(x, p) - Own(thr[t], p))
             /\ Own(x, p) - Own(thr[t], p) = 1 => TableRefs(reg, p) > 0
  <2>1. p # 0 /\ reg.obj[p] \in Object  BY <1>1, Indexes, Zenon
  <2>2. /\ Own(x, p) = B2N(x.outer = p) + B2N(x.found = p)
        /\ Own(thr[t], p) = B2N(thr[t].outer = p) + B2N(thr[t].found = p)
    BY OwnPlain, Zenon
  <2>3. CASE p = o
    <3>1. Own(x, p) - Own(thr[t], p) = 1  BY <2>1, <2>2, <2>3, SMTT(30)
    <3> QED  BY <1>2, <1>3, <2>1, <2>3, <3>1, HeldMoves, Zenon
  <2>4. CASE p # o
    <3>1. Own(x, p) - Own(thr[t], p) = 0  BY <2>1, <2>2, <2>4, SMTT(30)
    <3> QED  BY <1>3, <2>1, <2>4, <3>1, NoMove
  <2> QED  BY <2>3, <2>4, Zenon
<1>5. Knows(x, reg')
  BY <1>1, <1>2, <1>3, Zenon DEF Knows, SameTables
<1>6. ThreadStep(t, x)
  BY <1>1, <1>3, <1>4, <1>5, Zenon DEF ThreadStep
<1> QED  BY <1>6, ThreadStepKeeps, Zenon

\* A thread lets go of what it holds.
LEMMA DropStep ==
    ASSUME RegistryInv, NEW t \in Thread, NEW x \in Work, NEW o, reg' = Deref(reg, o),
           thr' = [thr EXCEPT ![t] = x], db' = db, WorkOK(x),
           txn' \in Thread \cup {None}, x.pc \in Loading <=> txn' = t,
           \A s \in Thread \ {t} : txn' = s <=> txn = s,
           x.pc \notin Filling \cup {"sched"}, thr[t].pc \notin Filling,
           \/ x.outer = 0 /\ thr[t].outer = o /\ x.found = thr[t].found
           \/ x.found = 0 /\ thr[t].found = o /\ x.outer = thr[t].outer
    PROVE  RegistryInv'
<1>1. reg \in Registry /\ RowsNamed(db) /\ Knows(thr[t], reg)
  BY Known, Zenon
<1>2. o \in {0} \cup DOMAIN reg.obj
  BY <1>1, Zenon DEF Knows
<1>3. /\ reg' \in Registry /\ SameTables(reg', reg)
      /\ \A p \in DOMAIN reg.obj : reg'.obj[p] = IF p = o THEN Dropped(reg.obj[p]) ELSE reg.obj[p]
  BY <1>1, <1>2, DerefIs, Zenon DEF SameTables
<1>4. ASSUME NEW p \in DOMAIN reg.obj
      PROVE  /\ SameCheck(reg'.obj[p], reg.obj[p])
             /\ Moves(reg'.obj[p], reg.obj[p], Own(x, p) - Own(thr[t], p))
             /\ Own(x, p) - Own(thr[t], p) = 1 => TableRefs(reg, p) > 0
  <2>1. p # 0 /\ reg.obj[p] \in Object  BY <1>1, Indexes, Zenon
  <2>2. /\ Own(x, p) = B2N(x.outer = p) + B2N(x.found = p)
        /\ Own(thr[t], p) = B2N(thr[t].outer = p) + B2N(thr[t].found = p)
    BY OwnPlain, Zenon
  <2>3. CASE p = o
    <3>1. Own(x, p) - Own(thr[t], p) = -1  BY <2>1, <2>2, <2>3, SMTT(30)
    <3> QED  BY <1>3, <2>1, <2>3, <3>1, DroppedMoves, SMTT(30)
  <2>4. CASE p # o
    <3>1. Own(x, p) - Own(thr[t], p) = 0  BY <2>1, <2>2, <2>4, SMTT(30)
    <3> QED  BY <1>3, <2>1, <2>4, <3>1, NoMove
  <2> QED  BY <2>3, <2>4, Zenon
<1>5. Knows(x, reg')
  BY <1>1, <1>2, <1>3, Zenon DEF Knows, SameTables
<1>6. ThreadStep(t, x)
  BY <1>1, <1>3, <1>4, <1>5, Zenon DEF ThreadStep
<1> QED  BY <1>6, ThreadStepKeeps, Zenon

\* The first look-up of a set takes a reference of what it finds.
LEMMA SetLookupKeeps ==
    ASSUME RegistryInv, NEW t \in Thread, SetLookup(t)
    PROVE  RegistryInv'
<1>1. thr[t] \in Work /\ WorkOK(thr[t]) /\ thr[t].pc = "idle" /\ reg \in Registry
  BY Known, Zenon DEF SetLookup, MayAsk, At
<1>2. thr[t].outer = 0  BY <1>1, Zenon DEF WorkOK
<1>3. PICK a \in Asks :
        /\ reg' = Ref(reg, reg.polls[a.u])
        /\ thr' = [thr EXCEPT ![t] = [thr[t] EXCEPT !.pc = "set_in_db", !.u = a.u, !.ask = a,
                                                    !.outer = reg.polls[a.u]]]
  BY Zenon DEF SetLookup, Become
<1>4. PICK x : x = [thr[t] EXCEPT !.pc = "set_in_db", !.u = a.u, !.ask = a,
                                  !.outer = reg.polls[a.u]]
  BY Zenon
<1>5. a.u \in Uuid /\ reg.polls[a.u] \in Nat  BY <1>1, AskedName, Indexes, Zenon
<1>6. /\ x \in Work /\ x.pc = "set_in_db" /\ x.outer = reg.polls[a.u] /\ x.found = thr[t].found
      /\ x.u = a.u /\ x.ask = a
  BY <1>1, <1>4, <1>5, Zenon DEF Work, Places, Asking
<1>7. WorkOK(x)  BY <1>1, <1>5, <1>6, Zenon DEF WorkOK, Loading, Asking, Fetching
<1>8. txn' = txn /\ db' = db  BY Zenon DEF SetLookup
<1> QED  BY <1>1, <1>2, <1>3, <1>4, <1>5, <1>6, <1>7, <1>8, TakeStep, Zenon DEF Filling, Loading

\* The first look-up of a delete takes a reference of what it finds.
LEMMA DeleteLookupKeeps ==
    ASSUME RegistryInv, NEW t \in Thread, DeleteLookup(t)
    PROVE  RegistryInv'
<1>1. thr[t] \in Work /\ WorkOK(thr[t]) /\ thr[t].pc = "idle" /\ reg \in Registry
  BY Known, Zenon DEF DeleteLookup, MayAsk, At
<1>2. thr[t].outer = 0  BY <1>1, Zenon DEF WorkOK
<1>3. PICK u \in Uuid, p \in {"del_remove", "del_desched"} :
        /\ reg' = Ref(reg, reg.polls[u])
        /\ p = "del_desched" => reg.polls[u] # 0
        /\ thr' = [thr EXCEPT ![t] = [thr[t] EXCEPT !.u = u, !.outer = reg.polls[u], !.pc = p]]
  <2>1. PICK u \in Uuid :
        /\ reg' = Ref(reg, reg.polls[u])
        /\ thr' = [thr EXCEPT ![t] = [thr[t] EXCEPT !.u = u, !.outer = reg.polls[u],
                    !.pc = IF reg.polls[u] = 0 THEN "del_remove" ELSE "del_desched"]]
    BY Zenon DEF DeleteLookup, Become
  <2>2. PICK p : p = IF reg.polls[u] = 0 THEN "del_remove" ELSE "del_desched"  BY Zenon
  <2>3. p \in {"del_remove", "del_desched"} /\ (p = "del_desched" => reg.polls[u] # 0)  BY <2>2, Zenon
  <2>4. thr' = [thr EXCEPT ![t] = [thr[t] EXCEPT !.u = u, !.outer = reg.polls[u], !.pc = p]]
    BY <2>1, <2>2, Zenon
  <2> QED  BY <2>1, <2>3, <2>4, Zenon
<1>4. PICK x : x = [thr[t] EXCEPT !.u = u, !.outer = reg.polls[u], !.pc = p]
  BY Zenon
<1>5. reg.polls[u] \in Nat  BY <1>1, Indexes, Zenon
<1>6. /\ x \in Work /\ x.pc = p /\ x.outer = reg.polls[u] /\ x.found = thr[t].found
      /\ x.u = u
  BY <1>1, <1>4, <1>5, Zenon DEF Work, Places
<1>7. WorkOK(x)  BY <1>1, <1>3, <1>6, Zenon DEF WorkOK, Loading, Asking, Fetching
<1>8. txn' = txn /\ db' = db  BY Zenon DEF DeleteLookup
<1> QED  BY <1>1, <1>2, <1>3, <1>4, <1>5, <1>6, <1>7, <1>8, TakeStep, Zenon DEF Filling, Loading

\* A reload takes a reference of what its uuid finds.
LEMMA LoadFindKeeps ==
    ASSUME RegistryInv, NEW t \in Thread, LoadFind(t)
    PROVE  RegistryInv'
<1>1. thr[t] \in Work /\ WorkOK(thr[t]) /\ thr[t].pc = "load_find" /\ reg \in Registry
  BY Known, Zenon DEF LoadFind, At
<1>2. thr[t].found = 0 /\ thr[t].u \in Uuid  BY <1>1, Zenon DEF WorkOK
<1>3. PICK o : o = reg.polls[thr[t].u]  BY Zenon
<1>4. o \in Nat  BY <1>1, <1>2, <1>3, Indexes, Zenon
<1>5. PICK p \in {"sched", "load_drop", "load_replace"} :
        /\ p = "sched" => o = 0
        /\ thr' = [thr EXCEPT ![t] = [thr[t] EXCEPT !.found = o, !.pc = p]]
  <2>1. PICK p : p = CASE o = 0 -> "sched"
                       [] o # 0 /\ reg.obj[o].seq > thr[t].row.seq -> "load_drop"
                       [] OTHER -> "load_replace"
    BY Zenon
  <2>2. p \in {"sched", "load_drop", "load_replace"} /\ (p = "sched" => o = 0)  BY <2>1, Zenon
  <2>3. thr' = [thr EXCEPT ![t] = [thr[t] EXCEPT !.found = o, !.pc = p]]
    BY <1>3, <2>1, Zenon DEF LoadFind, Become
  <2> QED  BY <2>2, <2>3, Zenon
<1>6. PICK x : x = [thr[t] EXCEPT !.found = o, !.pc = p]  BY Zenon
<1>7. /\ x \in Work /\ x.pc = p /\ x.found = o /\ x.outer = thr[t].outer /\ x.u = thr[t].u
      /\ x.ask = thr[t].ask /\ x.row = thr[t].row
  BY <1>1, <1>4, <1>6, Zenon DEF Work, Places, Loading
<1>8. WorkOK(x)  BY <1>1, <1>2, <1>7, Zenon DEF WorkOK, Loading, Asking, Fetching
<1>9. txn' = txn /\ db' = db /\ reg' = Ref(reg, o)  BY <1>3, Zenon DEF LoadFind
<1> QED  BY <1>1, <1>2, <1>3, <1>5, <1>6, <1>7, <1>8, <1>9, TakeStep, Zenon DEF Filling, Loading

\* A reload ends, and lets go of what it found.
LEMMA LoadEndKeeps ==
    ASSUME RegistryInv, NEW t \in Thread, LoadEnd(t)
    PROVE  RegistryInv'
<1>1. thr[t] \in Work /\ WorkOK(thr[t]) /\ thr[t].pc = "load_end" /\ txn = t /\ None \notin Thread
  BY Known, Zenon DEF LoadEnd, At, Loading
<1>2. PICK x : x = [thr[t] EXCEPT !.pc = "end", !.found = 0, !.n = 0, !.row = None]  BY Zenon
<1>3. /\ x \in Work /\ x.pc = "end" /\ x.found = 0 /\ x.outer = thr[t].outer /\ x.u = thr[t].u
  BY <1>1, <1>2, Zenon DEF Work, Places
<1>4. WorkOK(x)  BY <1>1, <1>3, Zenon DEF WorkOK, Loading, Asking, Fetching
<1>5. /\ reg' = Deref(reg, thr[t].found) /\ txn' = None /\ db' = db
      /\ thr' = [thr EXCEPT ![t] = x]
  BY <1>2, Zenon DEF LoadEnd, Become
<1> QED  BY <1>1, <1>3, <1>4, <1>5, DropStep, Zenon DEF Filling, Loading

\* A request is answered, and lets go of what it looked up.
LEMMA EndKeeps ==
    ASSUME RegistryInv, NEW t \in Thread, End(t)
    PROVE  RegistryInv'
<1>1. thr[t] \in Work /\ WorkOK(thr[t]) /\ thr[t].pc = "end" /\ txn # t /\ txn \in Thread \cup {None}
  BY Known, Zenon DEF End, At, Loading
<1>2. thr[t].found = 0  BY <1>1, Zenon DEF WorkOK, Loading
<1>3. PICK x : x = IdleThread  BY Zenon
<1>4. x \in Work /\ x.pc = "idle" /\ x.found = 0 /\ x.outer = 0
  BY <1>3, Zenon DEF Work, Places, IdleThread
<1>5. WorkOK(x)  BY <1>4, Zenon DEF WorkOK, Loading, Asking, Fetching
<1>6. /\ reg' = Deref(reg, thr[t].outer) /\ txn' = txn /\ db' = db
      /\ thr' = [thr EXCEPT ![t] = x]
  BY <1>3, Zenon DEF End
<1> QED  BY <1>1, <1>2, <1>4, <1>5, <1>6, DropStep, Zenon DEF Filling, Loading

\* The indexes and the bin of R, when the objects of F are being filled in.
IndexAll(R, F) ==
    /\ \A u \in Uuid : R.polls[u] # 0 =>
         /\ R.polls[u] \in DOMAIN R.obj
         /\ R.obj[R.polls[u]].u = u
         /\ R.byname[R.obj[R.polls[u]].name] = R.polls[u]
    /\ \A k \in AnyName : R.byname[k] # 0 =>
         /\ R.byname[k] \in DOMAIN R.obj
         /\ R.obj[R.byname[k]].name = k
         /\ R.polls[R.obj[R.byname[k]].u] = R.byname[k] \/ R.byname[k] \in F
    /\ \A o \in DOMAIN R.obj : R.obj[o].name \in OwnName(R.obj[o].u)
    /\ \A o \in R.bin : o \in DOMAIN R.obj /\ R.byname[R.obj[o].name] # o

\* The objects that are being filled in.
Filled == {thr[t].n : t \in {s \in Thread : thr[s].pc \in Filling}}

\* The two ways to say that the indexes agree.
LEMMA IndexOKIs ==
    IndexOK <=> IndexAll(reg, Filled) /\ \A u \in Uuid : db[u] # None => db[u].name \in OwnName(u)
<1>1. ASSUME NEW o PROVE (o \in Filled) <=> \E t \in Thread : Fills(thr[t], o)
  BY Zenon DEF Filled, Fills
<1> QED  BY <1>1, Zenon DEF IndexOK, IndexAll

\* The same, for the next state.
LEMMA IndexOKNext ==
    ASSUME IndexAll(reg', Filled'), RowsNamed(db')
    PROVE  IndexOK'
<1>1. ASSUME NEW o PROVE (o \in Filled') <=> \E t \in Thread : Fills(thr'[t], o)
  BY Zenon DEF Filled, Fills
<1> QED  BY <1>1, Zenon DEF IndexOK, IndexAll, RowsNamed, Fills

\* Tables Q that are as good as the tables R.
Follows(Q, R, F) ==
    /\ Q \in Registry /\ DOMAIN Q.obj = DOMAIN R.obj /\ Q.failed = R.failed
    /\ IndexAll(Q, F)
    /\ \A o \in DOMAIN R.obj, h \in Nat : Counted(R, o, h) => Counted(Q, o, h)
    /\ \A th \in Work : WorkOK(th) /\ Knows(th, R) => Knows(th, Q)

\* Tables as good as tables as good as R are as good as R.
LEMMA FollowsOn ==
    ASSUME NEW P, NEW Q, NEW R, NEW F, Follows(Q, R, F), Follows(P, Q, F)
    PROVE  Follows(P, R, F)
BY Zenon DEF Follows

\* The tables stay, and so do the names of the objects.
LEMMA FollowsSame ==
    ASSUME NEW Q \in Registry, NEW R \in Registry, NEW F, IndexAll(R, F), SameTables(Q, R),
           \A o \in DOMAIN R.obj : Q.obj[o].u = R.obj[o].u /\ Q.obj[o].name = R.obj[o].name,
           \A o \in DOMAIN R.obj, h \in Nat : Counted(R, o, h) => Counted(Q, o, h)
    PROVE  Follows(Q, R, F)
<1>1. IndexAll(Q, F)
  BY SMTT(30) DEF IndexAll, SameTables
<1>2. \A th \in Work : WorkOK(th) /\ Knows(th, R) => Knows(th, Q)
  BY Zenon DEF Knows, SameTables
<1> QED  BY <1>1, <1>2, ZenonT(30) DEF Follows, SameTables

\* What the next state has to have.
Assembled ==
    /\ reg' \in Registry /\ reg'.failed = {}
    /\ thr' \in [Thread -> Work]
    /\ txn' \in Thread \cup {None}
    /\ RowsNamed(db')
    /\ \A s \in Thread : /\ thr'[s].pc \in Loading <=> txn' = s
                         /\ WorkOK(thr'[s])
                         /\ Knows(thr'[s], reg')
    /\ IndexAll(reg', Filled')
    /\ \A o \in DOMAIN reg'.obj : Counted(reg', o, ThreadRefs(o)')

\* What the next state has to have is the invariant.
LEMMA Assemble ==
    ASSUME RegistryInv, Assembled
    PROVE  RegistryInv'
<1>1. RegistryTypes'  BY Zenon DEF Assembled, RegistryTypes, RowsNamed
<1>2. IndexOK'  BY IndexOKNext, Zenon DEF Assembled
<1>3. \A s \in Thread : ThreadOK(s)'
  BY Zenon DEF Assembled, ThreadOK, WorkOK, Knows
<1>4. ThreadsCount'  BY Zenon DEF RegistryInv, ThreadsCount
<1> QED  BY <1>1, <1>2, <1>3, <1>4, ZenonT(30) DEF Assembled, RegistryInv, Counted, TableRefs

\* The parts of the invariant.
LEMMA InvIs ==
    ASSUME RegistryInv
    PROVE  /\ reg \in Registry /\ reg.failed = {} /\ IndexAll(reg, Filled)
           /\ thr \in [Thread -> Work] /\ RowsNamed(db) /\ txn \in Thread \cup {None}
           /\ \A s \in Thread : /\ thr[s].pc \in Loading <=> txn = s
                                /\ WorkOK(thr[s]) /\ Knows(thr[s], reg)
           /\ \A o \in DOMAIN reg.obj : Counted(reg, o, ThreadRefs(o))
BY IndexOKIs, Zenon DEF RegistryInv, RegistryTypes, ThreadOK, RowsNamed, IndexOK

\* The threads stay where they are.
LEMMA FollowAlone ==
    ASSUME RegistryInv, Follows(reg', reg, Filled), RowsNamed(db'), UNCHANGED <<thr, txn>>
    PROVE  RegistryInv'
<1>1. Filled' = Filled /\ \A o : ThreadRefs(o)' = ThreadRefs(o)
  BY Zenon DEF Filled, ThreadRefs, Fills
<1>2. \A o : ThreadRefs(o) \in Nat  BY ThreadRefsNat, Zenon
<1>3. Assembled
  BY <1>1, <1>2, InvIs, Zenon DEF Assembled, Follows
<1> QED  BY <1>3, Assemble, Zenon

\* One thread moves on, and keeps the objects that it holds.
LEMMA FollowStep ==
    ASSUME RegistryInv, Follows(reg', reg, Filled), NEW t \in Thread, NEW x \in Work,
           thr' = [thr EXCEPT ![t] = x], UNCHANGED <<db, txn>>, WorkOK(x),
           x.pc \notin Filling, thr[t].pc \notin Filling,
           x.pc \in Loading <=> thr[t].pc \in Loading,
           x.pc = "sched" => reg'.polls[x.u] = 0,
           x.outer = thr[t].outer, x.found = thr[t].found
    PROVE  RegistryInv'
<1>1. /\ thr \in [Thread -> Work] /\ thr' \in [Thread -> Work]
      /\ thr'[t] = x /\ \A s \in Thread \ {t} : thr'[s] = thr[s]
  BY InvIs, Zenon
<1>2. Filled' = Filled
  BY <1>1, Zenon DEF Filled
<1>3. ASSUME NEW o PROVE ThreadRefs(o)' = ThreadRefs(o) /\ ThreadRefs(o) \in Nat
  <2>1. Own(x, o) = Own(thr[t], o)  BY OwnPlain, SMTT(30)
  <2>2. /\ ThreadRefs(o) \in Nat /\ ThreadRefs(o)' \in Nat
        /\ Own(x, o) \in Nat /\ Own(thr[t], o) \in Nat
        /\ ThreadRefs(o)' = ThreadRefs(o) + Own(x, o) - Own(thr[t], o)
    BY <1>1, ThreadMoves, ZenonT(30)
  <2> QED  BY <2>1, <2>2
<1>4. ASSUME NEW s \in Thread
      PROVE  /\ thr'[s].pc \in Loading <=> txn' = s
             /\ WorkOK(thr'[s]) /\ Knows(thr'[s], reg')
  <2>1. Knows(thr[s], reg') /\ (thr[s].pc \in Loading <=> txn = s) /\ WorkOK(thr[s])
    BY <1>1, InvIs, Zenon DEF Follows
  <2>2. CASE s = t  BY <1>1, <2>1, <2>2, Zenon DEF Knows
  <2>3. CASE s # t  BY <1>1, <2>1, <2>3, Zenon
  <2> QED  BY <2>2, <2>3, Zenon
<1>5. \A o \in DOMAIN reg'.obj : Counted(reg', o, ThreadRefs(o)')
  BY <1>3, InvIs, Zenon DEF Follows
<1>6. Assembled
  BY <1>1, <1>2, <1>4, <1>5, InvIs, Zenon DEF Assembled, Follows
<1> QED  BY <1>6, Assemble, Zenon

\* An object leaves both indexes, with the references of both.
LEMMA UnlistedIs ==
    ASSUME NEW ob \in Object, ~ob.released, ob.ref >= 2, ob.running => ob.ref >= 3
    PROVE  /\ Unlisted(ob) \in Object /\ SameCheck(Unlisted(ob), ob)
           /\ Unlisted(ob).ref = IF ob.running THEN ob.ref - 1 ELSE ob.ref - 2
           /\ Unlisted(ob).released <=> ~ob.running /\ ob.ref = 2
<1>0. ob.ref \in Int /\ ob.running \in BOOLEAN  BY Zenon DEF Object
<1>1. PICK a : a = Held(Flagged(ob))  BY Zenon
<1>2. a \in Object /\ SameCheck(a, ob) /\ a.ref = ob.ref + 1 /\ ~a.released
  BY <1>0, <1>1, HeldIs, FlaggedIs DEF SameCheck
<1>3. PICK b : b = Dropped(a)  BY Zenon
<1>4. b \in Object /\ SameCheck(b, ob) /\ b.ref = ob.ref /\ ~b.released
  BY <1>0, <1>2, <1>3, DroppedIs DEF SameCheck
<1>5. PICK c : c = Dropped(b)  BY Zenon
<1>6. c \in Object /\ SameCheck(c, ob) /\ c.ref = ob.ref - 1 /\ ~c.released
  BY <1>0, <1>4, <1>5, DroppedIs DEF SameCheck
<1>7. PICK d : d = Dropped(c)  BY Zenon
<1>8. d \in Object /\ SameCheck(d, ob) /\ d.ref = ob.ref - 2 /\ (d.released <=> ob.ref = 2)
  BY <1>0, <1>6, <1>7, DroppedIs DEF SameCheck
<1>9. Unlisted(ob) = IF ob.running THEN c ELSE d
  BY <1>1, <1>3, <1>5, <1>7, Zenon DEF Unlisted
<1>10. CASE ob.running
  <2>1. Unlisted(ob) = c  BY <1>9, <1>10, Zenon
  <2> QED  BY <1>0, <1>6, <1>10, <2>1, Zenon
<1>11. CASE ~ob.running
  <2>1. Unlisted(ob) = d  BY <1>9, <1>11, Zenon
  <2> QED  BY <1>0, <1>8, <1>11, <2>1, Zenon
<1> QED  BY <1>10, <1>11, Zenon

\* The object o leaves both indexes when the checks of S do.
Gone(R, S, o) == R.obj[o].u \in S /\ R.polls[R.obj[o].u] = o

\* The checks of S leave both indexes.
LEMMA UnlistIs ==
    ASSUME NEW R \in Registry, NEW S \in SUBSET Uuid, NEW F, IndexAll(R, F),
           \A u \in S : R.polls[u] # 0,
           \A o \in DOMAIN R.obj : Gone(R, S, o) => Unlisted(R.obj[o]) \in Object
    PROVE  /\ Unlist(R, S) \in Registry
           /\ DOMAIN Unlist(R, S).obj = DOMAIN R.obj
           /\ Unlist(R, S).failed = R.failed
           /\ \A u \in Uuid : Unlist(R, S).polls[u] = IF u \in S THEN 0 ELSE R.polls[u]
           /\ \A k \in AnyName : Unlist(R, S).byname[k]
                = IF R.byname[k] # 0 /\ Gone(R, S, R.byname[k]) THEN 0 ELSE R.byname[k]
           /\ \A o \in DOMAIN R.obj : Unlist(R, S).obj[o]
                = IF Gone(R, S, o) THEN Unlisted(R.obj[o]) ELSE R.obj[o]
           /\ Unlist(R, S).bin = R.bin \cup {o \in DOMAIN R.obj : Gone(R, S, o) /\ R.obj[o].running}
<1> DEFINE os == {R.polls[u] : u \in S}
           NameOf(u) == R.obj[R.polls[u]].name
           bad == \E u \in S : \/ R.byname[NameOf(u)] = 0
                               \/ \E v \in S \ {u} : NameOf(v) = NameOf(u)
<1>0. /\ R.obj \in Seq(Object) /\ 0 \notin DOMAIN R.obj /\ DOMAIN R.obj \subseteq Nat
      /\ \A o \in DOMAIN R.obj : R.obj[o] \in Object
      /\ R.polls \in [Uuid -> Nat] /\ R.byname \in [AnyName -> Nat]
  BY Indexes, Zenon
<1>1. \A u \in S : /\ R.polls[u] \in DOMAIN R.obj /\ R.obj[R.polls[u]].u = u
                   /\ R.byname[NameOf(u)] = R.polls[u] /\ R.polls[u] # 0
  BY ZenonT(30) DEF IndexAll
<1>2. \A o \in DOMAIN R.obj : o \in os <=> Gone(R, S, o)
  BY <1>1 DEF Gone
<1>3. os \subseteq DOMAIN R.obj
  BY <1>1, ZenonT(30)
<1>4. ~bad
  BY <1>1
<1>5. \A k \in AnyName : (\E u \in S : NameOf(u) = k) <=> R.byname[k] # 0 /\ Gone(R, S, R.byname[k])
  <2>1. ASSUME NEW k \in AnyName, NEW u \in S, NameOf(u) = k
        PROVE  R.byname[k] # 0 /\ Gone(R, S, R.byname[k])
    BY <1>1, <2>1 DEF Gone
  <2>2. ASSUME NEW k \in AnyName, R.byname[k] # 0, Gone(R, S, R.byname[k])
        PROVE  \E u \in S : NameOf(u) = k
    <3>1. R.obj[R.byname[k]].name = k  BY <2>2, Zenon DEF IndexAll
    <3>2. NameOf(R.obj[R.byname[k]].u) = k /\ R.obj[R.byname[k]].u \in S
      BY <2>2, <3>1, Zenon DEF Gone
    <3> QED  BY <3>2, ZenonT(30)
  <2> QED  BY <2>1, <2>2, ZenonT(30)
<1>6. PICK P : P = [u \in Uuid |-> IF u \in S THEN 0 ELSE R.polls[u]]  BY Zenon
<1>7. PICK N : N = [k \in AnyName |-> IF \E u \in S : NameOf(u) = k THEN 0 ELSE R.byname[k]]  BY Zenon
<1>8. PICK O : O = [o \in DOMAIN R.obj |-> IF o \in os THEN Unlisted(R.obj[o]) ELSE R.obj[o]]  BY Zenon
<1>9. PICK G : G = R.bin \cup {o \in os : R.obj[o].running}  BY Zenon
<1>10. Unlist(R, S) = [R EXCEPT !.polls = P, !.byname = N, !.obj = O, !.bin = G, !.failed = R.failed]
  <2>1. Unlist(R, S) = [R EXCEPT !.polls = P, !.byname = N, !.obj = O, !.bin = G,
                          !.failed = IF bad THEN R.failed \cup {"remove"} ELSE R.failed]
    BY <1>6, <1>7, <1>8, <1>9, Zenon DEF Unlist
  <2>2. (IF bad THEN R.failed \cup {"remove"} ELSE R.failed) = R.failed  BY <1>4, Zenon
  <2> QED  BY <2>1, <2>2, Zenon
<1>11. P \in [Uuid -> Nat] /\ \A u \in Uuid : P[u] = IF u \in S THEN 0 ELSE R.polls[u]
  BY <1>0, <1>6, Zenon
<1>12. /\ N \in [AnyName -> Nat]
       /\ \A k \in AnyName : N[k] = IF R.byname[k] # 0 /\ Gone(R, S, R.byname[k]) THEN 0 ELSE R.byname[k]
  <2> HIDE DEF NameOf
  <2> QED  BY <1>0, <1>5, <1>7, Zenon
<1>13. /\ O \in [DOMAIN R.obj -> Object]
       /\ \A o \in DOMAIN R.obj : O[o] = IF Gone(R, S, o) THEN Unlisted(R.obj[o]) ELSE R.obj[o]
  <2> HIDE DEF os
  <2> QED  BY <1>0, <1>2, <1>8, Zenon
<1>14. O \in Seq(Object) /\ DOMAIN O = DOMAIN R.obj
  BY <1>0, <1>13, SeqOf, Zenon
<1>15. G = R.bin \cup {o \in DOMAIN R.obj : Gone(R, S, o) /\ R.obj[o].running}
  <2> HIDE DEF os
  <2> QED  BY <1>2, <1>3, <1>9, Zenon
<1>16. G \in SUBSET Nat
  BY <1>0, <1>15, Zenon DEF Registry
<1>17. PICK Q : Q = Unlist(R, S)  BY Zenon
<1>18. /\ Q \in Registry /\ Q.polls = P /\ Q.byname = N /\ Q.obj = O /\ Q.bin = G /\ Q.failed = R.failed
  <2> HIDE DEF os, NameOf, bad
  <2> QED  BY <1>10, <1>11, <1>12, <1>14, <1>16, <1>17, Zenon DEF Registry
<1> QED  BY <1>11, <1>12, <1>13, <1>14, <1>15, <1>17, <1>18, Zenon

\* An object that leaves both indexes is still that check.
LEMMA UnlistedType ==
    ASSUME NEW ob \in Object
    PROVE  Unlisted(ob) \in Object /\ SameCheck(Unlisted(ob), ob)
<1>1. PICK a : a = Held(Flagged(ob))  BY Zenon
<1>2. a \in Object /\ SameCheck(a, ob)
  BY <1>1, HeldIs, FlaggedIs DEF SameCheck
<1>3. PICK c : c = Dropped(Dropped(a))  BY Zenon
<1>4. c \in Object /\ SameCheck(c, ob)
  BY <1>2, <1>3, DroppedIs, Zenon DEF SameCheck
<1>5. Dropped(c) \in Object /\ SameCheck(Dropped(c), ob)
  BY <1>4, DroppedIs, Zenon DEF SameCheck
<1>6. Unlisted(ob) = IF ob.running THEN c ELSE Dropped(c)
  BY <1>1, <1>3, Zenon DEF Unlisted
<1> QED  BY <1>4, <1>5, <1>6, Zenon

\* What is left when the checks of S leave both indexes is as good as before.
LEMMA UnlistFollows ==
    ASSUME NEW R \in Registry, NEW S \in SUBSET Uuid, NEW F, IndexAll(R, F),
           \A u \in S : R.polls[u] # 0
    PROVE  Follows(Unlist(R, S), R, F)
<1>0. /\ 0 \notin DOMAIN R.obj /\ \A o \in DOMAIN R.obj : R.obj[o] \in Object
      /\ R.polls \in [Uuid -> Nat] /\ R.byname \in [AnyName -> Nat]
  BY Indexes, Zenon
<1>a. \A o \in DOMAIN R.obj : Unlisted(R.obj[o]) \in Object /\ SameCheck(Unlisted(R.obj[o]), R.obj[o])
  BY <1>0, UnlistedType, Zenon
<1>b. \A o \in DOMAIN R.obj : R.obj[o].u \in Uuid /\ R.obj[o].name \in AnyName  BY <1>0, Zenon DEF Object
<1>1. PICK Q : Q = Unlist(R, S)  BY Zenon
<1>2. /\ Q \in Registry /\ DOMAIN Q.obj = DOMAIN R.obj /\ Q.failed = R.failed
      /\ \A u \in Uuid : Q.polls[u] = IF u \in S THEN 0 ELSE R.polls[u]
      /\ \A k \in AnyName : Q.byname[k]
           = IF R.byname[k] # 0 /\ Gone(R, S, R.byname[k]) THEN 0 ELSE R.byname[k]
      /\ \A o \in DOMAIN R.obj : Q.obj[o] = IF Gone(R, S, o) THEN Unlisted(R.obj[o]) ELSE R.obj[o]
      /\ Q.bin = R.bin \cup {o \in DOMAIN R.obj : Gone(R, S, o) /\ R.obj[o].running}
  BY <1>1, <1>a, UnlistIs, SMTT(30)
<1>3. \A o \in DOMAIN R.obj : SameCheck(Q.obj[o], R.obj[o])
  BY <1>2, <1>a DEF SameCheck
<1>4. IndexAll(Q, F)
  <2>1. ASSUME NEW u \in Uuid, Q.polls[u] # 0
        PROVE  /\ Q.polls[u] \in DOMAIN Q.obj /\ Q.obj[Q.polls[u]].u = u
               /\ Q.byname[Q.obj[Q.polls[u]].name] = Q.polls[u]
    <3>1. u \notin S /\ Q.polls[u] = R.polls[u]  BY <1>2, <2>1, Zenon
    <3>2. /\ R.polls[u] \in DOMAIN R.obj /\ R.obj[R.polls[u]].u = u
          /\ R.byname[R.obj[R.polls[u]].name] = R.polls[u]
      BY <2>1, <3>1, Zenon DEF IndexAll
    <3>3. ~Gone(R, S, R.polls[u])  BY <3>1, <3>2, Zenon DEF Gone
    <3> QED  BY <1>2, <1>b, <3>1, <3>2, <3>3
  <2>2. ASSUME NEW k \in AnyName, Q.byname[k] # 0
        PROVE  /\ Q.byname[k] \in DOMAIN Q.obj /\ Q.obj[Q.byname[k]].name = k
               /\ Q.polls[Q.obj[Q.byname[k]].u] = Q.byname[k] \/ Q.byname[k] \in F
    <3>1. Q.byname[k] = R.byname[k] /\ ~Gone(R, S, R.byname[k])  BY <1>2, <2>2, Zenon
    <3>2. /\ R.byname[k] \in DOMAIN R.obj /\ R.obj[R.byname[k]].name = k
          /\ R.polls[R.obj[R.byname[k]].u] = R.byname[k] \/ R.byname[k] \in F
      BY <2>2, <3>1, Zenon DEF IndexAll
    <3>3. Q.obj[R.byname[k]] = R.obj[R.byname[k]]  BY <1>2, <3>1, <3>2, Zenon
    <3>4. R.obj[R.byname[k]].u \in Uuid  BY <1>b, <3>2, Zenon
    <3>5. PICK o : o = R.byname[k]  BY Zenon
    <3>6. R.polls[R.obj[o].u] = o => Q.polls[R.obj[o].u] = o
      BY <1>2, <3>1, <3>4, <3>5, ZenonT(30) DEF Gone
    <3> QED  BY <1>2, <3>1, <3>2, <3>3, <3>5, <3>6, Zenon
  <2>3. \A o \in DOMAIN Q.obj : Q.obj[o].name \in OwnName(Q.obj[o].u)
    BY <1>2, <1>3, Zenon DEF IndexAll, SameCheck
  <2>4. ASSUME NEW o \in Q.bin PROVE o \in DOMAIN Q.obj /\ Q.byname[Q.obj[o].name] # o
    <3>1. o \in DOMAIN R.obj  BY <1>2, Zenon DEF IndexAll
    <3>2. Q.obj[o].name = R.obj[o].name /\ R.obj[o].name \in AnyName /\ o # 0
      BY <1>0, <1>3, <1>b, <3>1, ZenonT(30) DEF SameCheck
    <3>3. CASE o \in R.bin
      BY <1>2, <3>1, <3>2, <3>3, SMTT(30) DEF IndexAll
    <3>4. CASE Gone(R, S, o)
      <4>1. R.byname[R.obj[o].name] = o
        BY <3>1, <3>2, <3>4, Zenon DEF IndexAll, Gone
      <4> QED  BY <1>2, <3>1, <3>2, <3>4, <4>1, SMTT(30)
    <3> QED  BY <1>2, <3>3, <3>4, Zenon
  <2> QED  BY <2>1, <2>2, <2>3, <2>4, ZenonT(30) DEF IndexAll
<1>5. ASSUME NEW o \in DOMAIN R.obj, NEW h \in Nat, Counted(R, o, h)
      PROVE  Counted(Q, o, h)
  <2>0. /\ R.obj[o] \in Object /\ o # 0 /\ SameCheck(Q.obj[o], R.obj[o])
        /\ R.obj[o].u \in Uuid /\ R.obj[o].name \in AnyName
    BY <1>0, <1>3, <1>b, Zenon
  <2>a. /\ Q.obj[o].u = R.obj[o].u /\ Q.obj[o].name = R.obj[o].name
        /\ Q.obj[o].event = R.obj[o].event /\ Q.obj[o].running = R.obj[o].running
    BY <2>0, Zenon DEF SameCheck
  <2>1. CASE ~Gone(R, S, o)
    <3>1. Q.obj[o] = R.obj[o]  BY <1>2, <2>1, Zenon
    <3>2. (Q.polls[R.obj[o].u] = o) <=> (R.polls[R.obj[o].u] = o)
      BY <1>2, <2>0, <2>1, Zenon DEF Gone
    <3>3. (Q.byname[R.obj[o].name] = o) <=> (R.byname[R.obj[o].name] = o)
      BY <1>2, <2>0, <2>1, SMTT(30)
    <3>4. (o \in Q.bin) <=> (o \in R.bin)
      BY <1>2, <2>1, Zenon
    <3>5. TableRefs(Q, o) = TableRefs(R, o)
      BY <3>1, <3>2, <3>3, <3>4, Zenon DEF TableRefs
    <3> QED  BY <1>5, <3>1, <3>5, Zenon DEF Counted
  <2>2. CASE Gone(R, S, o)
    <3>1. R.polls[R.obj[o].u] = o /\ R.obj[o].u \in S /\ R.byname[R.obj[o].name] = o
      BY <2>0, <2>2, SMTT(30) DEF Gone, IndexAll
    <3>2. o \notin R.bin  BY <3>1, Zenon DEF IndexAll
    <3>3. TableRefs(R, o) = 2 + B2N(R.obj[o].event) + B2N(R.obj[o].running)
      BY <3>1, <3>2, SMTT(30) DEF TableRefs
    <3>4. ~R.obj[o].released /\ R.obj[o].ref >= TableRefs(R, o) + h
      BY <1>5, <3>3 DEF Counted
    <3>5. R.obj[o].ref \in Int /\ R.obj[o].running \in BOOLEAN  BY <2>0, Zenon DEF Object
    <3>6. R.obj[o].ref >= 2 /\ (R.obj[o].running => R.obj[o].ref >= 3)
      BY <3>3, <3>4, <3>5, SMTT(30)
    <3>7. /\ Q.obj[o].ref = IF R.obj[o].running THEN R.obj[o].ref - 1 ELSE R.obj[o].ref - 2
          /\ Q.obj[o].released <=> ~R.obj[o].running /\ R.obj[o].ref = 2
      BY <1>2, <2>0, <2>2, <3>4, <3>6, UnlistedIs, SMTT(30)
    <3>8. Q.polls[R.obj[o].u] = 0 /\ Q.byname[R.obj[o].name] = 0
      BY <1>2, <2>0, <2>2, <3>1, SMTT(30)
    <3>9. o \in Q.bin <=> R.obj[o].running
      BY <1>2, <2>2, <3>2, Zenon
    <3>10. TableRefs(Q, o) = 2 * B2N(R.obj[o].running) + B2N(R.obj[o].event)
      BY <2>0, <2>a, <3>8, <3>9, SMTT(30) DEF TableRefs
    <3>11. CASE R.obj[o].running
      BY <3>3, <3>4, <3>5, <3>7, <3>10, <3>11, SMTT(30) DEF Counted
    <3>12. CASE ~R.obj[o].running
      BY <3>3, <3>4, <3>5, <3>6, <3>7, <3>10, <3>12, SMTT(30) DEF Counted
    <3> QED  BY <3>11, <3>12, ZenonT(30)
  <2> QED  BY <2>1, <2>2, Zenon
<1>6. ASSUME NEW th \in Work, WorkOK(th), Knows(th, R) PROVE Knows(th, Q)
  <2>1. /\ th.outer \in {0} \cup DOMAIN Q.obj /\ th.found \in {0} \cup DOMAIN Q.obj
    BY <1>2, <1>6, Zenon DEF Knows
  <2>2. ASSUME th.pc \in {"sched"} \cup Filling PROVE Q.polls[th.u] = 0
    <3>1. th.u \in Uuid /\ R.polls[th.u] = 0  BY <1>6, <2>2, Zenon DEF WorkOK, Knows, Filling
    <3> QED  BY <1>2, <3>1, Zenon
  <2>3. ASSUME th.pc \in Filling
        PROVE  /\ th.n \in DOMAIN Q.obj /\ Q.obj[th.n].u = th.u
               /\ Q.byname[Q.obj[th.n].name] = th.n
    <3>1. /\ th.u \in Uuid /\ R.polls[th.u] = 0 /\ th.n \in DOMAIN R.obj /\ R.obj[th.n].u = th.u
          /\ R.byname[R.obj[th.n].name] = th.n
      BY <1>6, <2>3, Zenon DEF WorkOK, Knows, Filling
    <3>2. ~Gone(R, S, th.n)  BY <1>0, <3>1, Zenon DEF Gone
    <3>3. Q.obj[th.n] = R.obj[th.n] /\ R.obj[th.n].name \in AnyName  BY <1>2, <1>b, <3>1, <3>2, Zenon
    <3> QED  BY <1>2, <3>1, <3>2, <3>3, SMTT(30)
  <2> QED  BY <2>1, <2>2, <2>3, Zenon DEF Knows
<1> QED  BY <1>1, <1>2, <1>4, <1>5, <1>6, Zenon DEF Follows

\* A check is only held once more, or its number changes.
LEMMA FollowsLooser ==
    ASSUME NEW Q \in Registry, NEW R \in Registry, NEW F, IndexAll(R, F), SameTables(Q, R),
           \A o \in DOMAIN R.obj :
             /\ SameCheck(Q.obj[o], R.obj[o])
             /\ Q.obj[o].ref \in {R.obj[o].ref, R.obj[o].ref + 1} /\ Q.obj[o].released = R.obj[o].released
    PROVE  Follows(Q, R, F)
<1>1. ASSUME NEW o \in DOMAIN R.obj, NEW h \in Nat, Counted(R, o, h)
      PROVE  Counted(Q, o, h)
  <2>1. TableRefs(Q, o) = TableRefs(R, o) /\ TableRefs(R, o) \in Nat  BY SameTableRefs, TableRefsNat, Zenon
  <2>2. R.obj[o].ref \in Int  BY Indexes, Zenon DEF Object
  <2> QED  BY <1>1, <2>1, <2>2, SMTT(30) DEF Counted
<1> QED  BY <1>1, FollowsSame, Zenon DEF SameCheck

\* Descheduling a check leaves tables as good as before, and when the check is
\* read again its uuid finds nothing.
LEMMA DescheduleFollows ==
    ASSUME NEW R \in Registry, NEW u \in Uuid, NEW b \in BOOLEAN, NEW F, IndexAll(R, F)
    PROVE  /\ Follows(Deschedule(R, u, b), R, F)
           /\ b => Deschedule(R, u, b).polls[u] = 0
<1>1. CASE R.polls[u] = 0
  <2>1. Deschedule(R, u, b) = R  BY <1>1, Zenon DEF Deschedule
  <2>2. Follows(R, R, F)  BY Zenon DEF Follows
  <2> QED  BY <1>1, <2>1, <2>2, Zenon
<1>2. CASE R.polls[u] # 0 /\ R.obj[R.polls[u]].seq # 0 /\ ~b
  <2>1. PICK o : o = R.polls[u]  BY Zenon
  <2>2. o \in DOMAIN R.obj /\ R.obj[o] \in Object  BY <1>2, <2>1, Indexes, Zenon DEF IndexAll
  <2>3. PICK ob : ob = Held(Flagged(R.obj[o]))  BY Zenon
  <2>4. /\ ob \in Object /\ SameCheck(ob, R.obj[o]) /\ ob.ref = R.obj[o].ref + 1
        /\ ob.released = R.obj[o].released
    BY <2>2, <2>3, HeldIs, FlaggedIs DEF SameCheck
  <2>5. Deschedule(R, u, b) = [R EXCEPT !.obj[o] = ob]
    BY <1>2, <2>1, <2>3, Zenon DEF Deschedule
  <2>6. PICK Q : Q = [R EXCEPT !.obj[o] = ob]  BY ZenonT(30)
  <2>7. /\ Q \in Registry /\ SameTables(Q, R)
        /\ \A p \in DOMAIN R.obj : Q.obj[p] = IF p = o THEN ob ELSE R.obj[p]
    BY <2>2, <2>4, <2>6, ObjectSet DEF SameTables
  <2>8. \A p \in DOMAIN R.obj :
          /\ SameCheck(Q.obj[p], R.obj[p])
          /\ Q.obj[p].ref \in {R.obj[p].ref, R.obj[p].ref + 1} /\ Q.obj[p].released = R.obj[p].released
    BY <2>4, <2>7, Zenon DEF SameCheck
  <2>9. Follows(Q, R, F)  BY <2>7, <2>8, FollowsLooser, Zenon
  <2> QED  BY <1>2, <2>5, <2>6, <2>9, Zenon
<1>3. CASE R.polls[u] # 0 /\ ~(R.obj[R.polls[u]].seq # 0 /\ ~b)
  <2>1. Deschedule(R, u, b) = Unlist(R, {u})  BY <1>3, Zenon DEF Deschedule
  <2>2. Follows(Unlist(R, {u}), R, F)  BY <1>3, UnlistFollows, Zenon
  <2>3. Unlist(R, {u}).polls[u] = 0
    <3>1. \A o \in DOMAIN R.obj : Unlisted(R.obj[o]) \in Object  BY UnlistedType, Indexes, Zenon
    <3> QED  BY <1>3, <3>1, UnlistIs
  <2> QED  BY <2>1, <2>2, <2>3, Zenon
<1> QED  BY <1>1, <1>2, <1>3, Zenon

\* A reload deschedules what memory has of the check.
LEMMA LoadDescheduleKeeps ==
    ASSUME RegistryInv, NEW t \in Thread, LoadDeschedule(t)
    PROVE  RegistryInv'
<1>1. thr[t] \in Work /\ WorkOK(thr[t]) /\ thr[t].pc \in {"load_drop", "load_replace"}
        /\ reg \in Registry /\ IndexAll(reg, Filled)
  BY Known, InvIs, Zenon DEF LoadDeschedule, At
<1>2. thr[t].u \in Uuid  BY <1>1, Zenon DEF WorkOK
<1>3. reg' = Deschedule(reg, thr[t].u, TRUE)  BY Zenon DEF LoadDeschedule
<1>4. Follows(reg', reg, Filled) /\ reg'.polls[thr[t].u] = 0
  BY <1>1, <1>2, <1>3, DescheduleFollows, Zenon
<1>5. PICK p \in {"load_end", "sched"} : Goto(t, p)  BY Zenon DEF LoadDeschedule
<1>6. PICK x \in Work : /\ thr' = [thr EXCEPT ![t] = x]
                        /\ x.pc = p /\ x.u = thr[t].u /\ x.ask = thr[t].ask /\ x.outer = thr[t].outer
                        /\ x.found = thr[t].found /\ x.row = thr[t].row
  BY <1>5, GotoIs DEF Places, Loading
<1>7. WorkOK(x)  BY <1>1, <1>6, Zenon DEF WorkOK, Loading, Asking, Fetching
<1>8. UNCHANGED <<db, txn>>  BY Zenon DEF LoadDeschedule
<1> QED  BY <1>1, <1>4, <1>6, <1>7, <1>8, FollowStep, ZenonT(30) DEF Filling, Loading

\* A reload of a deleted row deschedules the check that it made.
LEMMA BuryKeeps ==
    ASSUME RegistryInv, NEW t \in Thread, Bury(t)
    PROVE  RegistryInv'
<1>1. thr[t] \in Work /\ WorkOK(thr[t]) /\ thr[t].pc = "bury"
        /\ reg \in Registry /\ IndexAll(reg, Filled)
  BY Known, InvIs, ZenonT(30) DEF Bury, At
<1>2. thr[t].u \in Uuid  BY <1>1, Zenon DEF WorkOK
<1>3. reg' = Deschedule(reg, thr[t].u, FALSE)  BY Zenon DEF Bury
<1>4. Follows(reg', reg, Filled)
  BY <1>1, <1>2, <1>3, DescheduleFollows, Zenon
<1>5. PICK x \in Work : /\ thr' = [thr EXCEPT ![t] = x]
                        /\ x.pc = "load_end" /\ x.u = thr[t].u /\ x.ask = thr[t].ask
                        /\ x.outer = thr[t].outer /\ x.found = thr[t].found /\ x.row = thr[t].row
  BY GotoIs, SMTT(30) DEF Bury, Places, Loading
<1>6. WorkOK(x)  BY <1>1, <1>5, Zenon DEF WorkOK, Loading, Asking, Fetching
<1>7. UNCHANGED <<db, txn>>  BY Zenon DEF Bury
<1> QED  BY <1>1, <1>4, <1>5, <1>6, <1>7, FollowStep, Zenon DEF Filling, Loading

\* A delete deschedules the check.
LEMMA DeleteDescheduleKeeps ==
    ASSUME RegistryInv, NEW t \in Thread, DeleteDeschedule(t)
    PROVE  RegistryInv'
<1>1. thr[t] \in Work /\ WorkOK(thr[t]) /\ thr[t].pc = "del_desched"
        /\ reg \in Registry /\ IndexAll(reg, Filled)
  BY Known, InvIs, ZenonT(30) DEF DeleteDeschedule, At
<1>2. thr[t].u \in Uuid  BY <1>1, Zenon DEF WorkOK
<1>3. reg' = Deschedule(reg, thr[t].u, FALSE)  BY Zenon DEF DeleteDeschedule
<1>4. Follows(reg', reg, Filled)
  BY <1>1, <1>2, <1>3, DescheduleFollows, ZenonT(30)
<1>5. PICK p \in {"del_mark", "del_remove"} : Goto(t, p)  BY Zenon DEF DeleteDeschedule
<1>6. PICK x \in Work : /\ thr' = [thr EXCEPT ![t] = x]
                        /\ x.pc = p /\ x.u = thr[t].u /\ x.ask = thr[t].ask
                        /\ x.outer = thr[t].outer /\ x.found = thr[t].found
  BY <1>5, GotoIs DEF Places
<1>7. WorkOK(x)  BY <1>1, <1>6, Zenon DEF WorkOK, Loading, Asking, Fetching
<1>8. UNCHANGED <<db, txn>>  BY Zenon DEF DeleteDeschedule
<1> QED  BY <1>1, <1>4, <1>6, <1>7, <1>8, FollowStep, Zenon DEF Filling, Loading

\* Purging tombstones leaves tables as good as before.
LEMMA PurgedFollows ==
    ASSUME NEW R \in Registry, NEW S \in SUBSET Uuid, NEW F, IndexAll(R, F),
           \A u \in S : R.polls[u] # 0
    PROVE  Follows(Purged(R, S), R, F)
<1>1. PICK f : f = [o \in DOMAIN R.obj |-> IF \E u \in S : R.polls[u] = o
                                           THEN [R.obj[o] EXCEPT !.seq = 0] ELSE R.obj[o]]
  BY Zenon
<1>2. ASSUME NEW o \in DOMAIN R.obj
      PROVE  /\ f[o] \in Object /\ SameCheck(f[o], R.obj[o])
             /\ f[o].ref = R.obj[o].ref /\ f[o].released = R.obj[o].released
  <2>1. R.obj[o] \in Object  BY Indexes, Zenon
  <2>2. PICK ob : ob = [R.obj[o] EXCEPT !.seq = 0]  BY Zenon
  <2>3. /\ ob \in Object /\ SameCheck(ob, R.obj[o])
        /\ ob.ref = R.obj[o].ref /\ ob.released = R.obj[o].released
    BY <2>1, <2>2, Zenon DEF Object, SameCheck
  <2>4. f[o] = ob \/ f[o] = R.obj[o]  BY <1>1, <2>2, Zenon
  <2> QED  BY <2>1, <2>3, <2>4, Zenon DEF SameCheck
<1>3. f \in [DOMAIN R.obj -> Object]  BY <1>1, <1>2, Zenon
<1>4. f \in Seq(Object) /\ DOMAIN f = DOMAIN R.obj  BY <1>3, SeqOf, Indexes, Zenon
<1>5. PICK Q : Q = [R EXCEPT !.obj = f]  BY Zenon
<1>6. /\ Q \in Registry /\ SameTables(Q, R) /\ Q.obj = f
  BY <1>4, <1>5, ZenonT(30) DEF Registry, SameTables
<1>7. \A o \in DOMAIN R.obj :
        /\ SameCheck(Q.obj[o], R.obj[o])
        /\ Q.obj[o].ref \in {R.obj[o].ref, R.obj[o].ref + 1} /\ Q.obj[o].released = R.obj[o].released
  BY <1>2, <1>6, Zenon
<1>8. Follows(Q, R, F)  BY <1>6, <1>7, FollowsLooser, Zenon
<1>9. Purged(R, S) = Unlist(Q, S)  BY <1>1, <1>5, Zenon DEF Purged
<1>10. Follows(Unlist(Q, S), Q, F)
  <2>1. IndexAll(Q, F) /\ \A u \in S : Q.polls[u] # 0  BY <1>6, <1>8, Zenon DEF Follows, SameTables
  <2> QED  BY <1>6, <2>1, UnlistFollows, Zenon
<1> QED  BY <1>8, <1>9, <1>10, FollowsOn, Zenon

\* The scan of the recycler keeps the invariant.
LEMMA RecycleScanKeeps ==
    ASSUME RegistryInv, RecycleScan
    PROVE  RegistryInv'
<1>1. reg \in Registry /\ IndexAll(reg, Filled) /\ RowsNamed(db)  BY InvIs, Zenon
<1>2. PICK S \in SUBSET Tombstones : reg' = Purged(reg, S)  BY Zenon DEF RecycleScan
<1>3. S \in SUBSET Uuid /\ \A u \in S : reg.polls[u] # 0  BY Zenon DEF Tombstones
<1>4. Follows(reg', reg, Filled)  BY <1>1, <1>2, <1>3, PurgedFollows, Zenon
<1> QED  BY <1>1, <1>4, FollowAlone, Zenon DEF RecycleScan

\* Removing a purged row keeps the invariant.
LEMMA RecycleRemoveKeeps ==
    ASSUME RegistryInv, RecycleRemove
    PROVE  RegistryInv'
<1>1. reg \in Registry /\ IndexAll(reg, Filled) /\ RowsNamed(db)  BY InvIs, Zenon
<1>2. Follows(reg', reg, Filled)  BY <1>1, Zenon DEF RecycleRemove, Follows
<1>3. RowsNamed(db')
  <2>1. PICK u \in rec.todo : db' = [db EXCEPT ![u] = None] \/ db' = db  BY Zenon DEF RecycleRemove
  <2> QED  BY <1>1, <2>1, RowGone, Zenon
<1> QED  BY <1>2, <1>3, FollowAlone, Zenon DEF RecycleRemove

\* Checks that do not run leave the bin.
LEMMA ReclaimedFollows ==
    ASSUME NEW R \in Registry, NEW S \in SUBSET R.bin, NEW F, IndexAll(R, F)
    PROVE  Follows(Reclaimed(R, S), R, F)
<1>0. \A o \in S : o \in DOMAIN R.obj /\ R.byname[R.obj[o].name] # o  BY Zenon DEF IndexAll
<1>1. PICK f : f = [o \in DOMAIN R.obj |-> IF o \in S THEN Dropped(R.obj[o]) ELSE R.obj[o]]  BY Zenon
<1>2. ASSUME NEW o \in DOMAIN R.obj
      PROVE  f[o] \in Object /\ SameCheck(f[o], R.obj[o]) /\ R.obj[o] \in Object
  <2>1. R.obj[o] \in Object  BY Indexes, Zenon
  <2> QED  BY <1>1, <2>1, DroppedIs, Zenon DEF SameCheck
<1>3. f \in [DOMAIN R.obj -> Object]  BY <1>1, <1>2, Zenon
<1>4. f \in Seq(Object) /\ DOMAIN f = DOMAIN R.obj  BY <1>3, SeqOf, Indexes, Zenon
<1>5. PICK Q : Q = Reclaimed(R, S)  BY Zenon
<1>6. Q = [R EXCEPT !.bin = R.bin \ S, !.obj = f, !.failed = R.failed]
  BY <1>0, <1>1, <1>5, Zenon DEF Reclaimed
<1>7. /\ Q \in Registry /\ Q.obj = f /\ Q.bin = R.bin \ S /\ Q.failed = R.failed
      /\ Q.polls = R.polls /\ Q.byname = R.byname
  BY <1>4, <1>6, ZenonT(30) DEF Registry
<1>8. IndexAll(Q, F)
  BY <1>2, <1>4, <1>7, SMTT(30) DEF IndexAll, SameCheck
<1>9. ASSUME NEW o \in DOMAIN R.obj, NEW h \in Nat, Counted(R, o, h)
      PROVE  Counted(Q, o, h)
  <2>1. CASE o \notin S
    BY <1>1, <1>7, <1>9, <2>1, Zenon DEF Counted, TableRefs
  <2>2. CASE o \in S
    <3>1. /\ Q.obj[o] = Dropped(R.obj[o]) /\ SameCheck(Q.obj[o], R.obj[o])
          /\ Q.obj[o].ref = R.obj[o].ref - 1
          /\ Q.obj[o].released <=> R.obj[o].released \/ R.obj[o].ref = 1
      <4>1. Q.obj[o] = Dropped(R.obj[o])  BY <1>1, <1>7, <2>2, Zenon
      <4> QED  BY <1>2, <4>1, DroppedIs, Zenon
    <3>2. TableRefs(R, o) = TableRefs(Q, o) + 1 /\ TableRefs(Q, o) \in Nat
      BY <1>7, <2>2, <3>1, SMTT(30) DEF TableRefs, SameCheck
    <3>3. R.obj[o].ref \in Int  BY <1>2, Zenon DEF Object
    <3>4. ~R.obj[o].released /\ R.obj[o].ref >= TableRefs(R, o) + h
      BY <1>9, <3>2, SMTT(30) DEF Counted
    <3> QED  BY <3>1, <3>2, <3>3, <3>4, SMTT(30) DEF Counted
  <2> QED  BY <2>1, <2>2, Zenon
<1>10. \A th \in Work : WorkOK(th) /\ Knows(th, R) => Knows(th, Q)
  BY <1>2, <1>4, <1>7, Zenon DEF Knows, SameCheck
<1> QED  BY <1>4, <1>5, <1>7, <1>8, <1>9, <1>10, Zenon DEF Follows

\* Emptying the bin keeps the invariant.
LEMMA RecycleBinKeeps ==
    ASSUME RegistryInv, RecycleBin
    PROVE  RegistryInv'
<1>1. reg \in Registry /\ IndexAll(reg, Filled) /\ RowsNamed(db)  BY InvIs, Zenon
<1>2. Follows(reg', reg, Filled)  BY <1>1, ReclaimedFollows, Zenon DEF RecycleBin
<1> QED  BY <1>1, <1>2, FollowAlone, Zenon DEF RecycleBin

\* The second of two objects in one place stays.
LEMMA SetTwice ==
    ASSUME NEW R \in Registry, NEW o \in DOMAIN R.obj, NEW a \in Object, NEW b \in Object
    PROVE  [[R EXCEPT !.obj[o] = a] EXCEPT !.obj[o] = b] = [R EXCEPT !.obj[o] = b]
<1>1. R.obj \in Seq(Object)  BY Indexes, Zenon
<1>2. [[R.obj EXCEPT ![o] = a] EXCEPT ![o] = b] = [R.obj EXCEPT ![o] = b]  BY <1>1, Zenon
<1> QED  BY <1>1, <1>2, Zenon DEF Registry

\* Dropping an object that was just put in its place.
LEMMA DerefOf ==
    ASSUME NEW R \in Registry, NEW o \in DOMAIN R.obj, NEW a \in Object
    PROVE  Deref([R EXCEPT !.obj[o] = a], o) = [R EXCEPT !.obj[o] = Dropped(a)]
<1>1. PICK S : S = [R EXCEPT !.obj[o] = a]  BY Zenon
<1>2. S \in Registry /\ S.obj[o] = a /\ o \in DOMAIN S.obj  BY <1>1, ObjectSet
<1>3. Deref(S, o) = [S EXCEPT !.obj[o] = Dropped(a)]  BY <1>2, Indexes, Zenon DEF Deref
<1>4. Dropped(a) \in Object  BY DroppedIs, Zenon
<1> QED  BY <1>1, <1>3, <1>4, SetTwice, Zenon

\* One check is touched: its firing or its run begins or ends, with its reference.
LEMMA TouchFollows ==
    ASSUME NEW R \in Registry, NEW F, IndexAll(R, F), NEW o \in DOMAIN R.obj, NEW ob \in Object,
           ob.u = R.obj[o].u, ob.name = R.obj[o].name, ~R.obj[o].released,
           ob.ref >= R.obj[o].ref + B2N(ob.event) + B2N(ob.running)
                       - B2N(R.obj[o].event) - B2N(R.obj[o].running),
           ob.released <=> ob.ref = 0
    PROVE  Follows([R EXCEPT !.obj[o] = ob], R, F)
<1>1. PICK Q : Q = [R EXCEPT !.obj[o] = ob]  BY Zenon
<1>2. /\ Q \in Registry /\ SameTables(Q, R)
      /\ \A p \in DOMAIN R.obj : Q.obj[p] = IF p = o THEN ob ELSE R.obj[p]
  BY <1>1, ObjectSet DEF SameTables
<1>3. \A p \in DOMAIN R.obj : Q.obj[p].u = R.obj[p].u /\ Q.obj[p].name = R.obj[p].name
  BY <1>2, Zenon
<1>4. ASSUME NEW p \in DOMAIN R.obj, NEW h \in Nat, Counted(R, p, h)
      PROVE  Counted(Q, p, h)
  <2>1. CASE p # o
    <3>1. Q.obj[p] = R.obj[p]  BY <1>2, <2>1, Zenon
    <3>2. TableRefs(Q, p) = TableRefs(R, p)  BY <1>2, <3>1, Zenon DEF TableRefs, SameTables
    <3> QED  BY <1>4, <3>1, <3>2, Zenon DEF Counted
  <2>2. CASE p = o
    <3>1. Q.obj[o] = ob  BY <1>2, Zenon
    <3>2. PICK k \in Nat : k = B2N(R.polls[R.obj[o].u] = o) + B2N(R.byname[R.obj[o].name] = o)
                                 + B2N(o \in R.bin)
      BY SMTT(30)
    <3>3. TableRefs(R, o) = k + B2N(R.obj[o].event) + B2N(R.obj[o].running)
      BY <3>2, Zenon DEF TableRefs
    <3>4. TableRefs(Q, o) = k + B2N(ob.event) + B2N(ob.running)
      BY <1>2, <3>1, <3>2, Zenon DEF TableRefs, SameTables
    <3>5. R.obj[o].ref \in Int /\ ob.ref \in Int  BY Indexes, Zenon DEF Object
    <3>6. R.obj[o].ref >= TableRefs(R, o) + h  BY <1>4, <2>2, Zenon DEF Counted
    <3>7. ob.ref >= TableRefs(Q, o) + h /\ TableRefs(Q, o) \in Nat
      BY <3>3, <3>4, <3>5, <3>6
    <3> QED  BY <2>2, <3>1, <3>5, <3>7, SMTT(30) DEF Counted
  <2> QED  BY <2>1, <2>2, Zenon
<1> QED  BY <1>1, <1>2, <1>3, <1>4, FollowsSame, Zenon

\* A check that its run or its firing leaves as it was.
Touched(o, ob) ==
    /\ ob \in Object /\ reg' = [reg EXCEPT !.obj[o] = ob]
    /\ ob.u = reg.obj[o].u /\ SameFace(ob, reg.obj[o]) /\ ~reg.obj[o].released
    /\ ob.ref = reg.obj[o].ref + B2N(ob.event) + B2N(ob.running)
                  - B2N(reg.obj[o].event) - B2N(reg.obj[o].running)
    /\ ob.released <=> ob.ref = 0

\* A step that only touches one check keeps the invariant.
LEMMA TouchKeeps ==
    ASSUME RegistryInv, NEW o \in DOMAIN reg.obj, NEW ob, Touched(o, ob), UNCHANGED <<db, thr, txn>>
    PROVE  RegistryInv'
<1>1. reg \in Registry /\ IndexAll(reg, Filled) /\ RowsNamed(db) /\ reg.obj[o] \in Object
  BY InvIs, Indexes, Zenon
<1>2. ob.ref >= reg.obj[o].ref + B2N(ob.event) + B2N(ob.running)
                  - B2N(reg.obj[o].event) - B2N(reg.obj[o].running)
  BY <1>1 DEF Touched, Object
<1>3. Follows([reg EXCEPT !.obj[o] = ob], reg, Filled)
  <2> HIDE DEF B2N
  <2> QED  BY <1>1, <1>2, TouchFollows, Zenon DEF Touched, SameFace
<1>4. Follows(reg', reg, Filled)  BY <1>3, Zenon DEF Touched
<1> QED  BY <1>1, <1>4, FollowAlone, Zenon

\* The end of a run gives back the reference of the run.
LEMMA FinishIs ==
    ASSUME RegistryInv, ModuleRefs, NEW o \in DOMAIN reg.obj, Finish(o)
    PROVE  \E ob : Touched(o, ob)
<1>1. reg \in Registry /\ IndexAll(reg, Filled) /\ RowsNamed(db) /\ Counted(reg, o, ThreadRefs(o))
  BY InvIs, Zenon
<1>2. reg.obj[o] \in Object /\ reg.obj[o].running /\ reg.obj[o].ref \in Int
  BY <1>1, Indexes, Zenon DEF Finish, Object
<1>3. ~reg.obj[o].released
  <2>1. TableRefs(reg, o) > 0  BY <1>2 DEF TableRefs
  <2> QED  BY <1>1, <2>1, ThreadRefsNat, TableRefsNat DEF Counted
<1>4. PICK a : a = [reg.obj[o] EXCEPT !.running = FALSE]  BY Zenon
<1>5. /\ a \in Object /\ a.u = reg.obj[o].u /\ a.name = reg.obj[o].name /\ ~a.running
      /\ a.event = reg.obj[o].event /\ a.ref = reg.obj[o].ref /\ ~a.released
      /\ SameFace(a, reg.obj[o])
  BY <1>2, <1>3, <1>4, Zenon DEF Object, SameFace
<1>6. [reg EXCEPT !.obj[o].running = FALSE] = [reg EXCEPT !.obj[o] = a]
  BY <1>1, <1>4, Indexes, Zenon
<1>7. reg' = Deref([reg EXCEPT !.obj[o] = a], o)  BY <1>6, Zenon DEF Finish
<1>8. reg' = [reg EXCEPT !.obj[o] = Dropped(a)]  BY <1>1, <1>5, <1>7, DerefOf, Zenon
<1>9. PICK d : d = Dropped(a)  BY Zenon
<1>10. /\ d \in Object /\ d.u = reg.obj[o].u /\ SameFace(d, reg.obj[o]) /\ d.ref = a.ref - 1
       /\ d.released <=> a.ref = 1
       /\ d.event = reg.obj[o].event /\ ~d.running
  BY <1>5, <1>9, DroppedIs, Zenon DEF SameCheck, SameFace
<1>11. d.ref = reg.obj[o].ref + B2N(d.event) + B2N(d.running)
                 - B2N(reg.obj[o].event) - B2N(reg.obj[o].running)
  BY <1>2, <1>5, <1>10, SMTT(30)
<1>12. d.released <=> d.ref = 0  BY <1>2, <1>5, <1>10
<1>13. Touched(o, d)  BY <1>3, <1>8, <1>9, <1>10, <1>11, <1>12, Zenon DEF Touched
<1> QED  BY <1>13, Zenon

\* The end of a run keeps the invariant.
LEMMA FinishKeeps ==
    ASSUME RegistryInv, ModuleRefs, NEW o \in DOMAIN reg.obj, Finish(o)
    PROVE  RegistryInv'
<1>1. PICK ob : Touched(o, ob)  BY FinishIs, Zenon
<1> QED  BY <1>1, TouchKeeps, Zenon DEF Finish

\* A firing takes a reference for the run that it starts, and gives its own back
\* when it is the last.
LEMMA FireIs ==
    ASSUME RegistryInv, ModuleRefs, ~HostNames, NEW o \in DOMAIN reg.obj, Fire(o)
    PROVE  \E ob : Touched(o, ob)
<1>1. reg \in Registry /\ IndexAll(reg, Filled) /\ RowsNamed(db) /\ Counted(reg, o, ThreadRefs(o))
  BY InvIs, Zenon
<1>2. /\ reg.obj[o] \in Object /\ reg.obj[o].event /\ reg.obj[o].ref \in Int
      /\ ~reg.obj[o].released /\ reg.obj[o].ref > 0
  BY <1>1, Indexes, Zenon DEF Fire, Object, Counted
<1>3. PICK run \in BOOLEAN :
        LET B == IF ~run \/ reg.obj[o].running THEN reg
                 ELSE [Ref(reg, o) EXCEPT !.obj[o].running = TRUE]
        IN reg' = IF reg.obj[o].disabled \/ reg.obj[o].killed
                  THEN Deref([B EXCEPT !.obj[o].event = FALSE], o) ELSE B
  BY Zenon DEF Fire
<1>4. PICK a : a = IF ~run \/ reg.obj[o].running THEN reg.obj[o]
                   ELSE [Held(reg.obj[o]) EXCEPT !.running = TRUE]
  BY Zenon
<1>5. /\ a \in Object /\ a.u = reg.obj[o].u /\ a.name = reg.obj[o].name /\ ~a.released /\ a.event
      /\ a.ref = reg.obj[o].ref + B2N(a.running) - B2N(reg.obj[o].running)
      /\ a.ref > 0 /\ a.ref \in Int /\ SameFace(a, reg.obj[o])
  <2>1. CASE ~run \/ reg.obj[o].running  BY <1>2, <1>4, <2>1, SMTT(30) DEF SameFace
  <2>2. CASE ~(~run \/ reg.obj[o].running)
    <3>1. PICK c : c = Held(reg.obj[o])  BY Zenon
    <3>2. /\ c \in Object /\ SameCheck(c, reg.obj[o]) /\ c.ref = reg.obj[o].ref + 1 /\ ~c.released
          /\ SameFace(c, reg.obj[o])
      BY <1>2, <3>1, HeldIs, Zenon
    <3>3. a = [c EXCEPT !.running = TRUE]  BY <1>4, <2>2, <3>1, Zenon
    <3>4. /\ a \in Object /\ a.u = c.u /\ a.name = c.name /\ a.released = c.released
          /\ a.event = c.event /\ a.ref = c.ref /\ a.running /\ SameFace(a, c)
      BY <3>2, <3>3, Zenon DEF Object, SameFace
    <3>5. c.u = reg.obj[o].u /\ c.name = reg.obj[o].name /\ c.event = reg.obj[o].event
      BY <3>2, Zenon DEF SameCheck
    <3>6. a.ref = reg.obj[o].ref + 1 /\ B2N(a.running) = 1 /\ B2N(reg.obj[o].running) = 0
      BY <2>2, <3>2, <3>4, Zenon
    <3>7. SameFace(a, reg.obj[o])  BY <3>2, <3>4, Zenon DEF SameFace
    <3> QED  BY <1>2, <3>2, <3>4, <3>5, <3>6, <3>7
  <2> QED  BY <2>1, <2>2, Zenon
<1>6. PICK B : B = IF ~run \/ reg.obj[o].running THEN reg
                   ELSE [Ref(reg, o) EXCEPT !.obj[o].running = TRUE]
  BY Zenon
<1>7. B = [reg EXCEPT !.obj[o] = a]
  <2>1. CASE ~run \/ reg.obj[o].running
    <3>1. B = reg /\ a = reg.obj[o]  BY <1>4, <1>6, <2>1, Zenon
    <3>2. [reg.obj EXCEPT ![o] = reg.obj[o]] = reg.obj  BY <1>1, Indexes
    <3> QED  BY <1>1, <3>1, <3>2, Zenon DEF Registry
  <2>2. CASE ~(~run \/ reg.obj[o].running)
    <3>1. PICK S : S = [reg EXCEPT !.obj[o] = Held(reg.obj[o])]  BY Zenon
    <3>2. Held(reg.obj[o]) \in Object  BY <1>2, HeldIs, Zenon
    <3>3. S \in Registry /\ S.obj[o] = Held(reg.obj[o]) /\ o \in DOMAIN S.obj
      BY <1>1, <3>1, <3>2, ObjectSet
    <3>4. Ref(reg, o) = S  BY <1>1, <3>1, Indexes, Zenon DEF Ref
    <3>5. B = [S EXCEPT !.obj[o].running = TRUE]  BY <1>6, <2>2, <3>4, Zenon
    <3>6. a = [S.obj[o] EXCEPT !.running = TRUE]  BY <1>4, <2>2, <3>3, Zenon
    <3>7. B = [S EXCEPT !.obj[o] = a]  BY <3>3, <3>5, <3>6, Indexes, Zenon
    <3> QED  BY <1>1, <1>5, <3>1, <3>2, <3>7, SetTwice, Zenon
  <2> QED  BY <2>1, <2>2, Zenon
<1>8. reg' = IF reg.obj[o].disabled \/ reg.obj[o].killed
             THEN Deref([B EXCEPT !.obj[o].event = FALSE], o) ELSE B
  BY <1>3, <1>6
<1>9. CASE ~(reg.obj[o].disabled \/ reg.obj[o].killed)
  <2>1. reg' = [reg EXCEPT !.obj[o] = a]  BY <1>7, <1>8, <1>9, Zenon
  <2>2. Touched(o, a)  BY <1>2, <1>5, <2>1 DEF Touched
  <2> QED  BY <2>2, Zenon
<1>10. CASE reg.obj[o].disabled \/ reg.obj[o].killed
  <2>1. B \in Registry /\ B.obj[o] = a /\ o \in DOMAIN B.obj  BY <1>1, <1>5, <1>7, ObjectSet
  <2>2. PICK c : c = [a EXCEPT !.event = FALSE]  BY Zenon
  <2>3. /\ c \in Object /\ c.u = a.u /\ ~c.released /\ ~c.event
        /\ c.running = a.running /\ c.ref = a.ref /\ SameFace(c, a)
    BY <1>5, <2>2, Zenon DEF Object, SameFace
  <2>4. [B EXCEPT !.obj[o].event = FALSE] = [B EXCEPT !.obj[o] = c]
    BY <2>1, <2>2, Indexes, Zenon
  <2>5. [B EXCEPT !.obj[o] = c] = [reg EXCEPT !.obj[o] = c]
    BY <1>1, <1>5, <1>7, <2>3, SetTwice, Zenon
  <2>6. reg' = [reg EXCEPT !.obj[o] = Dropped(c)]
    BY <1>1, <1>8, <1>10, <2>3, <2>4, <2>5, DerefOf
  <2>7. PICK d : d = Dropped(c)  BY Zenon
  <2>8. /\ d \in Object /\ SameCheck(d, c) /\ SameFace(d, c) /\ d.ref = c.ref - 1
        /\ d.released <=> c.ref = 1
    BY <2>3, <2>7, DroppedIs, Zenon
  <2>9. /\ d.u = reg.obj[o].u /\ SameFace(d, reg.obj[o])
        /\ ~d.event /\ d.running = a.running /\ d.ref = a.ref - 1
        /\ d.released <=> d.ref = 0
    BY <1>5, <2>3, <2>8, SMTT(30) DEF SameCheck, SameFace
  <2>10. d.ref = reg.obj[o].ref + B2N(d.event) + B2N(d.running)
                  - B2N(reg.obj[o].event) - B2N(reg.obj[o].running)
    BY <1>2, <1>5, <2>9
  <2>11. Touched(o, d)  BY <1>2, <2>6, <2>7, <2>8, <2>9, <2>10, Zenon DEF Touched
  <2> QED  BY <2>11, Zenon
<1> QED  BY <1>9, <1>10, Zenon

\* A firing keeps the invariant.
LEMMA FireKeeps ==
    ASSUME RegistryInv, ModuleRefs, ~HostNames, NEW o \in DOMAIN reg.obj, Fire(o)
    PROVE  RegistryInv'
<1>1. PICK ob : Touched(o, ob)  BY FireIs, Zenon
<1> QED  BY <1>1, TouchKeeps, Zenon DEF Fire

\* Only one thread at a time loads a check.
LEMMA OneLoader ==
    ASSUME RegistryInv, NEW t \in Thread, NEW s \in Thread \ {t}, thr[t].pc \in Loading
    PROVE  thr[s].pc \notin Loading /\ thr[s].pc \notin Filling /\ thr[s].pc # "sched"
BY InvIs, Zenon DEF Loading, Filling

\* New objects take nothing from what a thread knows.
LEMMA KnowsPlain ==
    ASSUME NEW th, NEW Q, NEW R, Knows(th, R), th.pc \notin Filling, th.pc # "sched",
           DOMAIN R.obj \subseteq DOMAIN Q.obj
    PROVE  Knows(th, Q)
BY Zenon DEF Knows

\* One thread goes on filling in the object that it loads.
LEMMA FillStep ==
    ASSUME RegistryInv, Follows(reg', reg, Filled), NEW t \in Thread, NEW x \in Work,
           thr' = [thr EXCEPT ![t] = x], UNCHANGED <<db, txn>>, WorkOK(x),
           x.pc \in Filling, thr[t].pc \in Filling, x.u = thr[t].u, x.n = thr[t].n,
           x.outer = thr[t].outer, x.found = thr[t].found
    PROVE  RegistryInv'
<1>1. /\ thr \in [Thread -> Work] /\ thr' \in [Thread -> Work]
      /\ thr'[t] = x /\ \A s \in Thread \ {t} : thr'[s] = thr[s]
  BY InvIs, Zenon
<1>2. Filled' = Filled
  BY <1>1, Zenon DEF Filled
<1>3. ASSUME NEW o PROVE ThreadRefs(o)' = ThreadRefs(o) /\ ThreadRefs(o) \in Nat
  <2>1. Own(x, o) = Own(thr[t], o)  BY Zenon DEF Own, Fills
  <2>2. /\ ThreadRefs(o) \in Nat /\ ThreadRefs(o)' \in Nat
        /\ Own(x, o) \in Nat /\ Own(thr[t], o) \in Nat
        /\ ThreadRefs(o)' = ThreadRefs(o) + Own(x, o) - Own(thr[t], o)
    BY <1>1, ThreadMoves, Zenon
  <2> QED  BY <2>1, <2>2, SMTT(30)
<1>4. ASSUME NEW s \in Thread
      PROVE  /\ thr'[s].pc \in Loading <=> txn' = s
             /\ WorkOK(thr'[s]) /\ Knows(thr'[s], reg')
  <2>1. Knows(thr[s], reg') /\ (thr[s].pc \in Loading <=> txn = s) /\ WorkOK(thr[s])
    BY <1>1, InvIs, Zenon DEF Follows
  <2>2. CASE s = t
    <3>1. x.pc \in Loading /\ thr[t].pc \in Loading  BY Zenon DEF Filling, Loading
    <3>2. Knows(x, reg')  BY <2>1, <2>2, Zenon DEF Knows
    <3> QED  BY <1>1, <2>1, <2>2, <3>1, <3>2, Zenon
  <2>3. CASE s # t  BY <1>1, <2>1, <2>3, Zenon
  <2> QED  BY <2>2, <2>3, Zenon
<1>5. \A o \in DOMAIN reg'.obj : Counted(reg', o, ThreadRefs(o)')
  BY <1>3, InvIs, Zenon DEF Follows
<1>6. Assembled
  BY <1>1, <1>2, <1>4, <1>5, InvIs, ZenonT(30) DEF Assembled, Follows
<1> QED  BY <1>6, Assemble, Zenon

\* The object that a thread fills in is found by its name, and held twice by the thread.
LEMMA FilledIs ==
    ASSUME RegistryInv, NEW t \in Thread, thr[t].pc \in Filling
    PROVE  /\ thr[t].u \in Uuid /\ reg.polls[thr[t].u] = 0
           /\ thr[t].n \in DOMAIN reg.obj /\ reg.obj[thr[t].n] \in Object
           /\ reg.obj[thr[t].n].u = thr[t].u
           /\ reg.obj[thr[t].n].name \in AnyName
           /\ reg.byname[reg.obj[thr[t].n].name] = thr[t].n
           /\ thr[t].n \notin reg.bin
           /\ ~reg.obj[thr[t].n].released
           /\ reg.obj[thr[t].n].ref \in Int /\ reg.obj[thr[t].n].ref >= 3
           /\ thr[t].n # 0
<1>1. /\ thr[t].u \in Uuid /\ reg.polls[thr[t].u] = 0
      /\ thr[t].n \in DOMAIN reg.obj
      /\ reg.obj[thr[t].n].u = thr[t].u
      /\ reg.byname[reg.obj[thr[t].n].name] = thr[t].n
  BY InvIs, Zenon DEF WorkOK, Knows, Filling
<1>2. PICK o : o = thr[t].n  BY Zenon
<1>3. reg.obj[o] \in Object /\ o # 0 /\ o \notin reg.bin
  BY <1>1, <1>2, InvIs, Indexes, Zenon DEF IndexAll
<1>4. reg.obj[o].ref \in Int /\ reg.obj[o].name \in AnyName  BY <1>3, ZenonT(30) DEF Object
<1>5. TableRefs(reg, o) >= 1 /\ TableRefs(reg, o) \in Nat
  BY <1>1, <1>2 DEF TableRefs
<1>6. ThreadRefs(o) >= 2 /\ ThreadRefs(o) \in Nat
  <2>1. Own(thr[t], o) >= 2 /\ Own(thr[t], o) \in Nat  BY <1>2, SMTT(30) DEF Own, Fills
  <2>2. thr \in [Thread -> Work] /\ thr[t] \in Work  BY InvIs, Zenon
  <2>3. \A s \in Thread : thr[s] \in Work  BY <2>2, Zenon
  <2> DEFINE A1 == {s \in Thread : thr[s].outer = o}
             A2 == {s \in Thread : thr[s].found = o}
             A3 == {s \in Thread : Fills(thr[s], o)}
  <2>4. t \in A3  BY <1>2, Zenon DEF Fills
  <2>5. A1 \in SUBSET Thread /\ A2 \in SUBSET Thread /\ A3 \in SUBSET Thread  BY Zenon
  <2>6. ThreadRefs(o) = Cardinality(A1) + Cardinality(A2) + 2 * Cardinality(A3)  BY Zenon DEF ThreadRefs
  <2> HIDE DEF A1, A2, A3
  <2>7. Cardinality(A1) \in Nat /\ Cardinality(A2) \in Nat
    BY <2>5, CountMoves, Zenon
  <2>8. Cardinality(A3) \in Nat /\ Cardinality(A3) >= B2N(t \in A3)
    BY <2>5, CountMoves, Zenon
  <2> QED  BY <2>4, <2>6, <2>7, <2>8
<1>7. Counted(reg, o, ThreadRefs(o))  BY <1>1, <1>2, InvIs, Zenon
<1>8. ~reg.obj[o].released /\ reg.obj[o].ref >= 3
  BY <1>4, <1>5, <1>6, <1>7 DEF Counted
<1> QED  BY <1>1, <1>2, <1>3, <1>4, <1>8, Zenon

\* An object that its name finds leaves the list by name and returns.
LEMMA ListedAgain ==
    ASSUME NEW R \in Registry, NEW o \in DOMAIN R.obj, NEW a \in Object, a.name \in AnyName,
           R.byname[a.name] = o, o # 0
    PROVE  AddToList([R EXCEPT !.obj[o] = a], o, FALSE) = [R EXCEPT !.obj[o] = Held(Dropped(a))]
<1>0. R.byname \in [AnyName -> Nat] /\ R.obj \in Seq(Object)  BY Indexes, Zenon
<1>1. PICK A : A = [R EXCEPT !.obj[o] = a]  BY Zenon
<1>2. A \in Registry /\ A.obj[o] = a /\ o \in DOMAIN A.obj /\ A.byname = R.byname
  BY <1>1, ObjectSet
<1>3. PICK k : k = a.name  BY Zenon
<1>4. Dropped(a) \in Object /\ Held(Dropped(a)) \in Object  BY DroppedIs, HeldIs, Zenon
<1>5. PICK D : D = [R EXCEPT !.obj[o] = Dropped(a)]  BY Zenon
<1>6. D \in Registry /\ D.obj[o] = Dropped(a) /\ o \in DOMAIN D.obj /\ D.byname = R.byname
  BY <1>4, <1>5, ObjectSet
<1>7. Deref(A, o) = D  BY <1>1, <1>5, DerefOf, Zenon
<1>8. PICK E : E = [D EXCEPT !.byname[k] = 0]  BY Zenon
<1>9. /\ E.obj = D.obj /\ E.byname[k] = 0 /\ o \in DOMAIN E.obj
      /\ E.byname = [R.byname EXCEPT ![k] = 0]
  BY <1>0, <1>3, <1>6, <1>8, Zenon DEF Registry
<1>10. AddToList(A, o, FALSE) = [Ref(E, o) EXCEPT !.byname[k] = o]
  <2>1. A.obj[o].name = k /\ A.byname[k] = o /\ o # 0  BY <1>2, <1>3, Zenon
  <2> QED  BY <1>7, <1>8, <1>9, <2>1, Zenon DEF AddToList
<1>11. Ref(E, o) = [E EXCEPT !.obj[o] = Held(Dropped(a))]
  BY <1>6, <1>9, Zenon DEF Ref
<1>12. [E EXCEPT !.obj[o] = Held(Dropped(a))].byname = E.byname
  BY <1>8, <1>6, Zenon DEF Registry
<1>13. [[E EXCEPT !.obj[o] = Held(Dropped(a))] EXCEPT !.byname[k] = o]
         = [D EXCEPT !.obj[o] = Held(Dropped(a))]
  <2>1. [[R.byname EXCEPT ![k] = 0] EXCEPT ![k] = o] = R.byname
    BY <1>0, <1>3, Zenon
  <2>2. PICK z : z = [R.byname EXCEPT ![k] = 0]  BY Zenon
  <2>3. PICK f : f = [D.obj EXCEPT ![o] = Held(Dropped(a))]  BY Zenon
  <2>4. E = [D EXCEPT !.byname = z]  BY <1>6, <1>8, <2>2, Zenon
  <2>5. PICK X : X = [E EXCEPT !.obj = f]  BY Zenon
  <2>6. [E EXCEPT !.obj[o] = Held(Dropped(a))] = X  BY <1>9, <2>3, <2>5, Zenon
  <2>7. X.byname = z  BY <1>6, <2>4, <2>5, Zenon DEF Registry
  <2>8. [X EXCEPT !.byname[k] = o] = [X EXCEPT !.byname = R.byname]  BY <2>1, <2>2, <2>7, Zenon
  <2>9. [X EXCEPT !.byname = R.byname] = [D EXCEPT !.obj = f]  BY <1>6, <2>4, <2>5, Zenon DEF Registry
  <2> QED  BY <2>3, <2>6, <2>8, <2>9, Zenon
<1>14. [D EXCEPT !.obj[o] = Held(Dropped(a))] = [R EXCEPT !.obj[o] = Held(Dropped(a))]
  BY <1>4, <1>5, SetTwice, Zenon
<1> QED  BY <1>1, <1>10, <1>11, <1>13, <1>14, Zenon

\* The object that a thread fills in has its flags reset and is activated.
Updated(o, ob) ==
    /\ ob \in Object /\ reg' = [reg EXCEPT !.obj[o] = ob] /\ o \in DOMAIN reg.obj
    /\ ob.u = reg.obj[o].u /\ ob.name = reg.obj[o].name /\ ~reg.obj[o].released
    /\ ob.ref >= reg.obj[o].ref + B2N(ob.event) + B2N(ob.running)
                   - B2N(reg.obj[o].event) - B2N(reg.obj[o].running)
    /\ ob.released <=> ob.ref = 0
    /\ ob.seq = reg.obj[o].seq /\ ob.deleted = reg.obj[o].deleted /\ ~ob.disabled

\* What noit_check_update does to the object being filled in.
LEMMA UpdateIs ==
    ASSUME RegistryInv, NEW t \in Thread, UpdateCheck(t)
    PROVE  \E ob : Updated(thr[t].n, ob)
<1>1. /\ thr[t] \in Work /\ WorkOK(thr[t]) /\ thr[t].pc = "update"
      /\ reg \in Registry /\ IndexAll(reg, Filled)
  BY Known, InvIs, Zenon DEF UpdateCheck, At
<1>2. thr[t].pc \in Filling  BY <1>1, Zenon DEF Filling
<1>3. PICK o : o = thr[t].n  BY Zenon
<1>4. /\ o \in DOMAIN reg.obj /\ reg.obj[o] \in Object /\ reg.obj[o].name \in AnyName
      /\ reg.byname[reg.obj[o].name] = o /\ ~reg.obj[o].released
      /\ reg.obj[o].ref \in Int /\ reg.obj[o].ref >= 3 /\ o # 0
  BY <1>2, <1>3, FilledIs, Zenon
<1>5. PICK b : b = [reg.obj[o] EXCEPT !.disabled = FALSE]  BY Zenon
<1>6. /\ b \in Object /\ b.u = reg.obj[o].u /\ b.name = reg.obj[o].name /\ ~b.released
      /\ b.event = reg.obj[o].event /\ b.running = reg.obj[o].running /\ b.ref = reg.obj[o].ref
      /\ b.seq = reg.obj[o].seq /\ b.deleted = reg.obj[o].deleted /\ ~b.disabled
  BY <1>4, <1>5, Zenon DEF Object
<1>7. PICK R : R = [reg EXCEPT !.obj[o] = b]  BY Zenon
<1>8. R \in Registry /\ R.obj[o] = b /\ o \in DOMAIN R.obj  BY <1>1, <1>4, <1>6, <1>7, ObjectSet
<1>9. [reg EXCEPT !.obj[o].disabled = FALSE] = R  BY <1>1, <1>4, <1>5, <1>7, Indexes, Zenon
<1>10. PICK a : a = IF Fires THEN [Held(b) EXCEPT !.event = TRUE] ELSE b  BY ZenonT(30)
<1>11. /\ a \in Object /\ a.u = b.u /\ a.name = b.name /\ ~a.released /\ a.running = b.running
       /\ a.ref >= b.ref + B2N(a.event) - B2N(b.event) /\ a.ref >= b.ref /\ a.ref \in Int
       /\ SameFace(a, b)
  <2>1. CASE ~Fires  BY <1>4, <1>6, <1>10, <2>1, SMTT(30) DEF SameFace
  <2>2. CASE Fires
    <3>1. PICK c : c = Held(b)  BY Zenon
    <3>2. c \in Object /\ SameCheck(c, b) /\ SameFace(c, b) /\ c.ref = b.ref + 1 /\ ~c.released
      BY <1>6, <3>1, HeldIs, Zenon
    <3>3. a = [c EXCEPT !.event = TRUE]  BY <1>10, <2>2, <3>1, Zenon
    <3>4. /\ a \in Object /\ a.u = c.u /\ a.name = c.name /\ a.released = c.released
          /\ a.running = c.running /\ a.ref = c.ref /\ SameFace(a, c)
      BY <3>2, <3>3, Zenon DEF Object, SameFace
    <3>5. SameFace(a, b)  BY <3>2, <3>4, Zenon DEF SameFace
    <3> QED  BY <1>4, <1>6, <3>2, <3>4, <3>5 DEF SameCheck
  <2> QED  BY <2>1, <2>2, Zenon
<1>12. PICK A : A = IF Fires THEN [Ref(R, o) EXCEPT !.obj[o].event = TRUE] ELSE R  BY Zenon
<1>13. A = [reg EXCEPT !.obj[o] = a]
  <2>1. CASE ~Fires  BY <1>7, <1>10, <1>12, <2>1, Zenon
  <2>2. CASE Fires
    <3>1. PICK S : S = [R EXCEPT !.obj[o] = Held(b)]  BY Zenon
    <3>2. Held(b) \in Object  BY <1>6, HeldIs, Zenon
    <3>3. S \in Registry /\ S.obj[o] = Held(b) /\ o \in DOMAIN S.obj  BY <1>8, <3>1, <3>2, ObjectSet
    <3>4. Ref(R, o) = S  BY <1>4, <1>8, <3>1, Zenon DEF Ref
    <3>5. A = [S EXCEPT !.obj[o].event = TRUE]  BY <1>12, <2>2, <3>4, Zenon
    <3>6. a = [S.obj[o] EXCEPT !.event = TRUE]  BY <1>10, <2>2, <3>3, Zenon
    <3>7. A = [S EXCEPT !.obj[o] = a]  BY <3>3, <3>5, <3>6, Indexes, Zenon
    <3>8. A = [R EXCEPT !.obj[o] = a]  BY <1>8, <1>11, <3>1, <3>2, <3>7, SetTwice, Zenon
    <3> QED  BY <1>1, <1>4, <1>6, <1>7, <1>11, <3>8, SetTwice, Zenon
  <2> QED  BY <2>1, <2>2, Zenon
<1>14. reg' = AddToList(A, o, FALSE)
  BY <1>3, <1>9, <1>12, Zenon DEF UpdateCheck
<1>15. PICK d : d = Held(Dropped(a))  BY Zenon
<1>16. reg' = [reg EXCEPT !.obj[o] = d]
  <2>1. a.name \in AnyName /\ reg.byname[a.name] = o  BY <1>4, <1>6, <1>11, Zenon
  <2>2. AddToList([reg EXCEPT !.obj[o] = a], o, FALSE) = [reg EXCEPT !.obj[o] = Held(Dropped(a))]
    BY <1>1, <1>4, <1>11, <2>1, ListedAgain, ZenonT(30)
  <2> QED  BY <1>13, <1>14, <1>15, <2>2, Zenon
<1>17. /\ d \in Object /\ SameCheck(d, a) /\ SameFace(d, a) /\ d.ref = a.ref /\ ~d.released
  <2>1. PICK c : c = Dropped(a)  BY Zenon
  <2>2. /\ c \in Object /\ SameCheck(c, a) /\ SameFace(c, a) /\ c.ref = a.ref - 1 /\ ~c.released
    BY <1>4, <1>6, <1>11, <2>1, DroppedIs, SMTT(30)
  <2> QED  BY <1>11, <1>15, <2>1, <2>2, HeldIs, SMTT(30) DEF SameCheck, SameFace
<1>18. /\ d.u = reg.obj[o].u /\ d.name = reg.obj[o].name
       /\ d.ref >= reg.obj[o].ref + B2N(d.event) + B2N(d.running)
                     - B2N(reg.obj[o].event) - B2N(reg.obj[o].running)
       /\ d.released <=> d.ref = 0
  BY <1>4, <1>6, <1>11, <1>17, SMTT(30) DEF SameCheck
<1>19. d.seq = reg.obj[o].seq /\ d.deleted = reg.obj[o].deleted /\ ~d.disabled
  BY <1>6, <1>11, <1>17, Zenon DEF SameFace
<1>20. Updated(o, d)  BY <1>4, <1>16, <1>17, <1>18, <1>19, Zenon DEF Updated
<1> QED  BY <1>3, <1>20, Zenon

\* Updating the object being filled in keeps the invariant.
LEMMA UpdateCheckKeeps ==
    ASSUME RegistryInv, NEW t \in Thread, UpdateCheck(t)
    PROVE  RegistryInv'
<1>1. /\ thr[t] \in Work /\ WorkOK(thr[t]) /\ thr[t].pc = "update"
      /\ reg \in Registry /\ IndexAll(reg, Filled)
  BY Known, InvIs, Zenon DEF UpdateCheck, At
<1>2. thr[t].pc \in Filling  BY <1>1, Zenon DEF Filling
<1>3. PICK o, d : o = thr[t].n /\ Updated(o, d)  BY UpdateIs, Zenon
<1>19. Follows(reg', reg, Filled)
  <2> HIDE DEF B2N
  <2> QED  BY <1>1, <1>3, TouchFollows, Zenon DEF Updated
<1>20. PICK x \in Work : /\ thr' = [thr EXCEPT ![t] = x]
                         /\ x.pc = "replace" /\ x.u = thr[t].u /\ x.ask = thr[t].ask
                         /\ x.outer = thr[t].outer /\ x.found = thr[t].found
                         /\ x.row = thr[t].row /\ x.n = thr[t].n
  <2>1. Goto(t, "replace")  BY Zenon DEF UpdateCheck
  <2>2. "replace" \in Places  BY Zenon DEF Places, Loading
  <2> QED  BY <2>1, <2>2, GotoIs
<1>21. WorkOK(x)  BY <1>1, <1>20, Zenon DEF WorkOK, Loading, Asking, Fetching
<1>22. UNCHANGED <<db, txn>>  BY Zenon DEF UpdateCheck
<1>23. x.pc \in Filling  BY <1>20, Zenon DEF Filling
<1> QED  BY <1>2, <1>19, <1>20, <1>21, <1>22, <1>23, FillStep, Zenon

\* A name belongs to one check.
LEMMA NameOfOne ==
    ASSUME NamesApart, NEW u \in Uuid, NEW v \in Uuid, NEW k, k \in OwnName(u), k \in OwnName(v)
    PROVE  u = v
<1>1. \A a \in Asks \cup Peer : a.name \notin Uuid
  BY RegistryConstants, Zenon
<1> QED  BY <1>1 DEF OwnName, NamesApart

\* The object that a thread filled in enters the index by uuid.
Replaced(n, u) ==
    /\ u \in Uuid /\ reg.polls[u] = 0 /\ n \in DOMAIN reg.obj /\ reg.obj[n] \in Object
    /\ reg.obj[n].u = u /\ reg.obj[n].name \in AnyName /\ reg.byname[reg.obj[n].name] = n
    /\ n \notin reg.bin /\ ~reg.obj[n].released /\ reg.obj[n].ref \in Int /\ reg.obj[n].ref >= 3
    /\ n # 0 /\ n \in Nat
    /\ reg' \in Registry /\ DOMAIN reg'.obj = DOMAIN reg.obj
    /\ \A o \in DOMAIN reg.obj : reg'.obj[o] = IF o = n THEN Dropped(reg.obj[o]) ELSE reg.obj[o]
    /\ reg'.byname = reg.byname /\ reg'.bin = reg.bin /\ reg'.failed = reg.failed
    /\ \A v \in Uuid : reg'.polls[v] = IF v = u THEN n ELSE reg.polls[v]

\* What the end of noit_poller_schedule does to the tables.
LEMMA ReplaceIs ==
    ASSUME RegistryInv, NEW t \in Thread, Replace(t)
    PROVE  Replaced(thr[t].n, thr[t].u)
<1>1. /\ thr[t] \in Work /\ WorkOK(thr[t]) /\ thr[t].pc = "replace" /\ Knows(thr[t], reg)
      /\ reg \in Registry /\ IndexAll(reg, Filled) /\ thr \in [Thread -> Work] /\ RowsNamed(db)
      /\ txn = t
  BY Known, InvIs, Zenon DEF Replace, At, Loading
<1>2. thr[t].pc \in Filling /\ thr[t].pc \in Loading  BY <1>1, Zenon DEF Filling, Loading
<1>3. PICK n, u : n = thr[t].n /\ u = thr[t].u  BY Zenon
<1>4. /\ u \in Uuid /\ reg.polls[u] = 0 /\ n \in DOMAIN reg.obj /\ reg.obj[n] \in Object
      /\ reg.obj[n].u = u /\ reg.obj[n].name \in AnyName /\ reg.byname[reg.obj[n].name] = n
      /\ n \notin reg.bin /\ ~reg.obj[n].released /\ reg.obj[n].ref \in Int /\ reg.obj[n].ref >= 3
      /\ n # 0 /\ n \in Nat
  BY <1>1, <1>2, <1>3, FilledIs, Indexes, Zenon
<1>5. PICK R : R = [reg EXCEPT !.polls = [reg.polls EXCEPT ![u] = n]]  BY Zenon
<1>6. /\ R \in Registry /\ R.polls = [reg.polls EXCEPT ![u] = n] /\ R.byname = reg.byname
      /\ R.obj = reg.obj /\ R.bin = reg.bin /\ R.failed = reg.failed
  BY <1>1, <1>4, <1>5, Zenon DEF Registry
<1>7. reg' = Deref(R, n)
  <2>1. [reg EXCEPT !.polls[u] = n] = R  BY <1>5, Zenon
  <2> QED  BY <1>3, <1>4, <2>1, Zenon DEF Replace
<1>8. /\ reg' \in Registry /\ DOMAIN reg'.obj = DOMAIN reg.obj
      /\ \A o \in DOMAIN reg.obj : reg'.obj[o] = IF o = n THEN Dropped(reg.obj[o]) ELSE reg.obj[o]
      /\ reg'.polls = R.polls /\ reg'.byname = reg.byname /\ reg'.bin = reg.bin
      /\ reg'.failed = reg.failed
  BY <1>4, <1>6, <1>7, DerefIs
<1>9. \A v \in Uuid : reg'.polls[v] = IF v = u THEN n ELSE reg.polls[v]
  BY <1>1, <1>6, <1>8, Indexes, Zenon
<1> QED  BY <1>3, <1>4, <1>8, <1>9, Zenon DEF Replaced

\* Entering the index by uuid keeps the invariant.
LEMMA ReplaceKeeps ==
    ASSUME RegistryInv, NEW t \in Thread, Replace(t)
    PROVE  RegistryInv'
<1>1. /\ thr[t] \in Work /\ WorkOK(thr[t]) /\ thr[t].pc = "replace" /\ Knows(thr[t], reg)
      /\ reg \in Registry /\ IndexAll(reg, Filled) /\ thr \in [Thread -> Work] /\ RowsNamed(db)
      /\ txn = t
  BY Known, InvIs, Zenon DEF Replace, At, Loading
<1>2. thr[t].pc \in Filling /\ thr[t].pc \in Loading  BY <1>1, Zenon DEF Filling, Loading
<1>3. PICK n, u : n = thr[t].n /\ u = thr[t].u  BY Zenon
<1>a. Replaced(n, u)  BY <1>3, ReplaceIs, Zenon
<1>4. /\ u \in Uuid /\ reg.polls[u] = 0 /\ n \in DOMAIN reg.obj /\ reg.obj[n] \in Object
      /\ reg.obj[n].u = u /\ reg.obj[n].name \in AnyName /\ reg.byname[reg.obj[n].name] = n
      /\ n \notin reg.bin /\ ~reg.obj[n].released /\ reg.obj[n].ref \in Int /\ reg.obj[n].ref >= 3
      /\ n # 0 /\ n \in Nat
  BY <1>a, Zenon DEF Replaced
<1>8. /\ reg' \in Registry /\ DOMAIN reg'.obj = DOMAIN reg.obj
      /\ \A o \in DOMAIN reg.obj : reg'.obj[o] = IF o = n THEN Dropped(reg.obj[o]) ELSE reg.obj[o]
      /\ reg'.byname = reg.byname /\ reg'.bin = reg.bin /\ reg'.failed = reg.failed
  BY <1>a, Zenon DEF Replaced
<1>9. \A v \in Uuid : reg'.polls[v] = IF v = u THEN n ELSE reg.polls[v]
  BY <1>a, Zenon DEF Replaced
<1>10. PICK ob : ob = Dropped(reg.obj[n])  BY Zenon
<1>11. /\ ob \in Object /\ SameCheck(ob, reg.obj[n]) /\ ob.ref = reg.obj[n].ref - 1 /\ ~ob.released
  BY <1>4, <1>10, DroppedIs, SMTT(30)
<1>12. \A o \in DOMAIN reg.obj : SameCheck(reg'.obj[o], reg.obj[o])
  BY <1>8, <1>10, <1>11, Zenon DEF SameCheck
<1>13. PICK p \in {"bury", "load_end"} : Goto(t, p)  BY Zenon DEF Replace
<1>14. PICK x \in Work : /\ thr' = [thr EXCEPT ![t] = x]
                         /\ x.pc = p /\ x.u = thr[t].u /\ x.ask = thr[t].ask
                         /\ x.outer = thr[t].outer /\ x.found = thr[t].found /\ x.row = thr[t].row
  <2>1. p \in Places  BY Zenon DEF Places, Loading
  <2> QED  BY <1>13, <2>1, GotoIs
<1>15. WorkOK(x)  BY <1>1, <1>14, Zenon DEF WorkOK, Loading, Asking, Fetching
<1>16. /\ thr' \in [Thread -> Work] /\ thr'[t] = x /\ \A s \in Thread \ {t} : thr'[s] = thr[s]
       /\ x.pc \in Loading /\ x.pc \notin Filling /\ x.pc # "sched"
  BY <1>1, <1>14, Zenon DEF Loading, Filling
<1>17. \A s \in Thread \ {t} : thr[s].pc \notin Filling /\ thr[s].pc # "sched"
  BY <1>2, OneLoader, Zenon
<1>18. Filled = {n} /\ Filled' = {}
  BY <1>2, <1>3, <1>16, <1>17, Zenon DEF Filled
<1>19. ASSUME NEW s \in Thread
       PROVE  /\ thr'[s].pc \in Loading <=> txn' = s
              /\ WorkOK(thr'[s]) /\ Knows(thr'[s], reg')
  <2>1. txn' = txn  BY Zenon DEF Replace
  <2>2. Knows(thr[s], reg) /\ (thr[s].pc \in Loading <=> txn = s) /\ WorkOK(thr[s])
    BY InvIs, Zenon
  <2>3. CASE s = t
    <3>1. Knows(x, reg')  BY <1>1, <1>8, <1>14, <1>16, ZenonT(30) DEF Knows
    <3> QED  BY <1>1, <1>15, <1>16, <2>1, <2>3, <3>1, Zenon
  <2>4. CASE s # t
    <3>1. Knows(thr[s], reg')  BY <1>8, <1>17, <2>2, <2>4, KnowsPlain, Zenon
    <3> QED  BY <1>16, <2>1, <2>2, <2>4, <3>1, Zenon
  <2> QED  BY <2>3, <2>4, Zenon
<1>20. IndexAll(reg', Filled')
  <2>1. ASSUME NEW v \in Uuid, reg'.polls[v] # 0
        PROVE  /\ reg'.polls[v] \in DOMAIN reg'.obj /\ reg'.obj[reg'.polls[v]].u = v
               /\ reg'.byname[reg'.obj[reg'.polls[v]].name] = reg'.polls[v]
    <3>1. CASE v = u
      BY <1>4, <1>8, <1>9, <1>12, <3>1, Zenon DEF SameCheck
    <3>2. CASE v # u
      <4>1. /\ reg.polls[v] \in DOMAIN reg.obj /\ reg.obj[reg.polls[v]].u = v
            /\ reg.byname[reg.obj[reg.polls[v]].name] = reg.polls[v] /\ reg'.polls[v] = reg.polls[v]
        BY <1>1, <1>9, <2>1, <3>2, ZenonT(30) DEF IndexAll
      <4> QED  BY <1>8, <1>12, <4>1, Zenon DEF SameCheck
    <3> QED  BY <3>1, <3>2, Zenon
  <2>2. ASSUME NEW k \in AnyName, reg'.byname[k] # 0
        PROVE  /\ reg'.byname[k] \in DOMAIN reg'.obj /\ reg'.obj[reg'.byname[k]].name = k
               /\ reg'.polls[reg'.obj[reg'.byname[k]].u] = reg'.byname[k] \/ reg'.byname[k] \in Filled'
    <3>1. /\ reg.byname[k] \in DOMAIN reg.obj /\ reg.obj[reg.byname[k]].name = k
          /\ reg.polls[reg.obj[reg.byname[k]].u] = reg.byname[k] \/ reg.byname[k] = n
      BY <1>1, <1>8, <1>18, <2>2, Zenon DEF IndexAll
    <3>2. PICK o : o = reg.byname[k]  BY Zenon
    <3>3. reg'.obj[o].name = k /\ reg'.obj[o].u = reg.obj[o].u /\ reg.obj[o].u \in Uuid /\ o # 0
      BY <1>1, <1>12, <3>1, <3>2, Indexes, ZenonT(30) DEF SameCheck, Object
    <3>4. reg'.polls[reg.obj[o].u] = o
      BY <1>4, <1>9, <3>1, <3>2, <3>3, Zenon
    <3> QED  BY <1>8, <3>1, <3>2, <3>3, <3>4, Zenon
  <2>3. \A o \in DOMAIN reg'.obj : reg'.obj[o].name \in OwnName(reg'.obj[o].u)
    BY <1>1, <1>8, <1>12, Zenon DEF IndexAll, SameCheck
  <2>4. \A o \in reg'.bin : o \in DOMAIN reg'.obj /\ reg'.byname[reg'.obj[o].name] # o
    BY <1>1, <1>8, <1>12, Zenon DEF IndexAll, SameCheck
  <2> QED  BY <2>1, <2>2, <2>3, <2>4, Zenon DEF IndexAll
<1>21. ASSUME NEW o \in DOMAIN reg.obj PROVE Counted(reg', o, ThreadRefs(o)')
  <2>1. /\ ThreadRefs(o) \in Nat /\ ThreadRefs(o)' \in Nat
        /\ Own(x, o) \in Nat /\ Own(thr[t], o) \in Nat
        /\ ThreadRefs(o)' = ThreadRefs(o) + Own(x, o) - Own(thr[t], o)
    BY <1>1, <1>14, ThreadMoves, Zenon
  <2>2. Counted(reg, o, ThreadRefs(o)) /\ reg.obj[o] \in Object  BY <1>1, InvIs, Indexes, Zenon
  <2>3. reg.obj[o].u \in Uuid /\ reg.obj[o].ref \in Int  BY <2>2, Zenon DEF Object
  <2>4. CASE o # n
    <3>1. Own(x, o) = Own(thr[t], o)  BY <1>3, <1>14, <1>16, <2>4, Zenon DEF Own, Fills
    <3>2. reg'.obj[o] = reg.obj[o]  BY <1>8, <2>4, Zenon
    <3>3. (reg'.polls[reg.obj[o].u] = o) <=> (reg.polls[reg.obj[o].u] = o)
      <4>1. o # 0  BY <1>1, Indexes, ZenonT(30)
      <4> QED  BY <1>4, <1>9, <2>3, <2>4, <4>1, Zenon
    <3>4. TableRefs(reg', o) = TableRefs(reg, o)  BY <1>8, <3>2, <3>3, Zenon DEF TableRefs
    <3>5. ThreadRefs(o)' = ThreadRefs(o)  BY <2>1, <3>1, SMTT(30)
    <3> QED  BY <2>2, <3>2, <3>4, <3>5, Zenon DEF Counted
  <2>5. CASE o = n
    <3>1. Own(thr[t], o) = Own(x, o) + 2
      BY <1>2, <1>3, <1>14, <1>16, <2>5, SMTT(30) DEF Own, Fills
    <3>2. reg'.obj[o] = ob /\ ob.u = u /\ ob.name = reg.obj[n].name
            /\ ob.event = reg.obj[n].event /\ ob.running = reg.obj[n].running
      BY <1>4, <1>8, <1>10, <1>11, <2>5, Zenon DEF SameCheck
    <3>3. TableRefs(reg', o) = TableRefs(reg, o) + 1
      BY <1>4, <1>8, <1>9, <2>5, <3>2 DEF TableRefs
    <3>4. ThreadRefs(o)' = ThreadRefs(o) - 2  BY <2>1, <3>1, SMTT(30)
    <3>5. reg.obj[n].ref >= TableRefs(reg, o) + ThreadRefs(o) /\ TableRefs(reg, o) \in Nat
      BY <1>4, <2>2, <2>5, TableRefsNat, Zenon DEF Counted
    <3>6. ob.ref >= TableRefs(reg', o) + ThreadRefs(o)' /\ ob.ref > 0
      BY <1>4, <1>11, <2>1, <3>3, <3>4, <3>5
    <3> QED  BY <1>11, <3>2, <3>6, Zenon DEF Counted
  <2> QED  BY <2>4, <2>5, Zenon
<1>22. Assembled
  BY <1>1, <1>8, <1>16, <1>19, <1>20, <1>21, InvIs, Zenon DEF Assembled, Replace
<1> QED  BY <1>22, Assemble, Zenon

\* The new object n of the check u, e, is put in the list by name and held.
Scheduled(n, e, u, row) ==
    /\ u \in Uuid /\ row \in Row /\ reg.polls[u] = 0
    /\ e = NewObject(u, row)
    /\ e \in Object /\ e.u = u /\ e.name \in AnyName /\ e.name \in OwnName(u)
    /\ ~e.event /\ ~e.running
    /\ n = Len(reg.obj) + 1 /\ n \notin DOMAIN reg.obj /\ n \in Nat \ {0}
    /\ reg.byname[e.name] = 0
    /\ reg' \in Registry /\ reg'.polls = reg.polls /\ reg'.bin = reg.bin /\ reg'.failed = reg.failed
    /\ \A j \in AnyName : reg'.byname[j] = IF j = e.name THEN n ELSE reg.byname[j]
    /\ DOMAIN reg'.obj = DOMAIN reg.obj \cup {n}
    /\ \A o \in DOMAIN reg.obj : reg'.obj[o] = reg.obj[o]
    /\ reg'.obj[n] = Held(e)
    /\ Held(e) \in Object /\ SameCheck(Held(e), e) /\ Held(e).ref = 3 /\ ~Held(e).released

\* What the beginning of noit_poller_schedule does to the tables: the name of the
\* new object is free.
LEMMA ScheduleIs ==
    ASSUME RegistryInv, NamesApart, ~HostNames, NEW t \in Thread, Schedule(t)
    PROVE  \E n, e : Scheduled(n, e, thr[t].u, thr[t].row)
<1>1. /\ thr[t] \in Work /\ WorkOK(thr[t]) /\ thr[t].pc = "sched" /\ Knows(thr[t], reg)
      /\ reg \in Registry /\ IndexAll(reg, Filled) /\ thr \in [Thread -> Work] /\ RowsNamed(db)
      /\ txn = t
  BY Known, InvIs, Zenon DEF Schedule, At, Loading
<1>2. thr[t].pc \in Loading /\ thr[t].pc \notin Filling  BY <1>1, Zenon DEF Loading, Filling
<1>3. PICK u, row, n : u = thr[t].u /\ row = thr[t].row /\ n = Len(reg.obj) + 1  BY Zenon
<1>4. u \in Uuid /\ row \in Row /\ row.name \in OwnName(u) /\ reg.polls[u] = 0
  BY <1>1, <1>2, <1>3, Zenon DEF WorkOK, Knows
<1>5. PICK e : e = NewObject(u, row)  BY ZenonT(30)
<1>6. /\ e \in Object /\ e.u = u /\ e.name \in AnyName /\ e.name \in OwnName(u)
      /\ e.ref = 2 /\ ~e.event /\ ~e.running /\ ~e.released
  <2>1. PICK k : k = IF row.deleted THEN u ELSE row.name  BY Zenon
  <2>2. k \in AnyName /\ k \in OwnName(u)  BY <1>4, <2>1, Zenon DEF AnyName, OwnName, Row
  <2>3. row.seq \in Nat  BY <1>4, Zenon DEF Row
  <2>4. e = [u |-> u, name |-> k, seq |-> row.seq, ref |-> 2, disabled |-> FALSE, killed |-> FALSE,
             deleted |-> FALSE, running |-> FALSE, event |-> FALSE, released |-> FALSE]
    BY <1>5, <2>1, Zenon DEF NewObject
  <2> QED  BY <1>4, <2>2, <2>3, <2>4 DEF Object
<1>7. PICK k : k = e.name  BY Zenon
<1>8. \A s \in Thread \ {t} : thr[s].pc \notin Filling /\ thr[s].pc # "sched"
  BY <1>2, OneLoader, Zenon
<1>9. Filled = {}  BY <1>2, <1>8, Zenon DEF Filled
<1>10. /\ reg.obj \in Seq(Object) /\ 0 \notin DOMAIN reg.obj
       /\ reg.polls \in [Uuid -> Nat] /\ reg.byname \in [AnyName -> Nat]
       /\ \A o \in DOMAIN reg.obj : reg.obj[o] \in Object
  BY <1>1, Indexes, Zenon
<1>11. reg.byname[k] = 0
  <2>1. SUFFICES ASSUME reg.byname[k] # 0 PROVE FALSE  BY Zenon
  <2>2. PICK o : o = reg.byname[k]  BY Zenon
  <2>3. /\ o \in DOMAIN reg.obj /\ reg.obj[o].name = k /\ reg.polls[reg.obj[o].u] = o
    BY <1>1, <1>6, <1>7, <1>9, <2>1, <2>2, Zenon DEF IndexAll
  <2>4. reg.obj[o].u \in Uuid /\ k \in OwnName(reg.obj[o].u)
    BY <1>1, <1>10, <2>3, ZenonT(30) DEF IndexAll, Object
  <2>5. reg.obj[o].u = u  BY <1>4, <1>6, <1>7, <2>4, NameOfOne, Zenon
  <2> QED  BY <1>4, <2>1, <2>2, <2>3, <2>5, Zenon
<1>12. PICK f : f = Append(reg.obj, e)  BY Zenon
<1>13. /\ f \in Seq(Object) /\ n \notin DOMAIN reg.obj /\ DOMAIN f = DOMAIN reg.obj \cup {n}
       /\ \A o \in DOMAIN reg.obj : f[o] = reg.obj[o]
       /\ f[n] = e /\ n \in Nat \ {0}
  BY <1>3, <1>6, <1>10, <1>12, SeqMore
<1>14. PICK R : R = [reg EXCEPT !.obj = f]  BY Zenon
<1>15. /\ R \in Registry /\ R.obj = f /\ R.polls = reg.polls /\ R.byname = reg.byname
       /\ R.bin = reg.bin /\ R.failed = reg.failed
  BY <1>1, <1>13, <1>14, Zenon DEF Registry
<1>16. PICK H : H = Ref(R, n)  BY Zenon
<1>17. /\ H \in Registry /\ DOMAIN H.obj = DOMAIN reg.obj \cup {n}
       /\ \A o \in DOMAIN reg.obj : H.obj[o] = reg.obj[o]
       /\ H.obj[n] = Held(e)
       /\ H.polls = reg.polls /\ H.byname = reg.byname /\ H.bin = reg.bin /\ H.failed = reg.failed
  <2>1. n \in {0} \cup DOMAIN R.obj  BY <1>13, <1>15, Zenon
  <2>2. /\ H \in Registry /\ DOMAIN H.obj = DOMAIN R.obj
        /\ \A p \in DOMAIN R.obj : H.obj[p] = IF p = n THEN Held(R.obj[p]) ELSE R.obj[p]
        /\ H.polls = R.polls /\ H.byname = R.byname /\ H.bin = R.bin /\ H.failed = R.failed
    BY <1>15, <1>16, <2>1, RefIs, Zenon
  <2> QED  BY <1>13, <1>15, <2>2, Zenon
<1>18. reg' = [H EXCEPT !.byname = [reg.byname EXCEPT ![k] = n]]
  <2>1. reg' = AddToList(R, n, TRUE)
    BY <1>3, <1>5, <1>12, <1>14, Zenon DEF Schedule
  <2>2. R.obj[n].name = k /\ R.byname[k] = 0  BY <1>7, <1>11, <1>13, <1>15, Zenon
  <2>3. AddToList(R, n, TRUE) = [Ref(R, n) EXCEPT !.byname[k] = n]
    BY <2>2, Zenon DEF AddToList
  <2> QED  BY <1>16, <1>17, <2>1, <2>3, Zenon
<1>19. /\ reg' \in Registry /\ reg'.obj = H.obj /\ reg'.polls = reg.polls /\ reg'.bin = reg.bin
       /\ reg'.failed = reg.failed
       /\ \A j \in AnyName : reg'.byname[j] = IF j = k THEN n ELSE reg.byname[j]
  <2>1. PICK g : g = [reg.byname EXCEPT ![k] = n]  BY Zenon
  <2>2. g \in [AnyName -> Nat] /\ \A j \in AnyName : g[j] = IF j = k THEN n ELSE reg.byname[j]
    BY <1>10, <1>13, <2>1, Zenon
  <2>3. reg' = [H EXCEPT !.byname = g]  BY <1>18, <2>1, Zenon
  <2>4. /\ reg' \in Registry /\ reg'.obj = H.obj /\ reg'.polls = H.polls /\ reg'.bin = H.bin
        /\ reg'.failed = H.failed /\ reg'.byname = g
    BY <1>17, <2>2, <2>3, Zenon DEF Registry
  <2> QED  BY <1>17, <2>2, <2>4, Zenon
<1>20. Held(e) \in Object /\ SameCheck(Held(e), e) /\ Held(e).ref = 3 /\ ~Held(e).released
  BY <1>6, HeldIs
<1>21. Scheduled(n, e, u, row)
  BY <1>3, <1>4, <1>5, <1>6, <1>7, <1>11, <1>13, <1>17, <1>19, <1>20, Zenon DEF Scheduled
<1> QED  BY <1>3, <1>21, Zenon

\* Making the object of a check keeps the invariant.
LEMMA ScheduleKeeps ==
    ASSUME RegistryInv, NamesApart, ~HostNames, NEW t \in Thread, Schedule(t)
    PROVE  RegistryInv'
<1>1. /\ thr[t] \in Work /\ WorkOK(thr[t]) /\ thr[t].pc = "sched" /\ Knows(thr[t], reg)
      /\ reg \in Registry /\ IndexAll(reg, Filled) /\ thr \in [Thread -> Work] /\ RowsNamed(db)
      /\ txn = t
  BY Known, InvIs, Zenon DEF Schedule, At, Loading
<1>2. thr[t].pc \in Loading /\ thr[t].pc \notin Filling  BY <1>1, Zenon DEF Loading, Filling
<1>3. PICK u, row, n, e : u = thr[t].u /\ row = thr[t].row /\ Scheduled(n, e, u, row)
  BY ScheduleIs, Zenon
<1>4. u \in Uuid /\ row \in Row /\ reg.polls[u] = 0 /\ n = Len(reg.obj) + 1  BY <1>3, Zenon DEF Scheduled
<1>6. /\ e \in Object /\ e.u = u /\ e.name \in AnyName /\ e.name \in OwnName(u)
      /\ ~e.event /\ ~e.running
  BY <1>3, Zenon DEF Scheduled
<1>7. PICK k : k = e.name  BY Zenon
<1>8. \A s \in Thread \ {t} : thr[s].pc \notin Filling /\ thr[s].pc # "sched"
  BY <1>2, OneLoader, Zenon
<1>9. Filled = {}  BY <1>2, <1>8, Zenon DEF Filled
<1>10. /\ reg.obj \in Seq(Object) /\ 0 \notin DOMAIN reg.obj
       /\ reg.polls \in [Uuid -> Nat] /\ reg.byname \in [AnyName -> Nat]
       /\ \A o \in DOMAIN reg.obj : reg.obj[o] \in Object
  BY <1>1, Indexes, Zenon
<1>11. reg.byname[k] = 0  BY <1>3, <1>7, Zenon DEF Scheduled
<1>13. n \notin DOMAIN reg.obj /\ n \in Nat \ {0}  BY <1>3, ZenonT(30) DEF Scheduled
<1>19. /\ reg' \in Registry /\ reg'.polls = reg.polls /\ reg'.bin = reg.bin
       /\ reg'.failed = reg.failed
       /\ \A j \in AnyName : reg'.byname[j] = IF j = k THEN n ELSE reg.byname[j]
  BY <1>3, <1>7, Zenon DEF Scheduled
<1>20. Held(e) \in Object /\ SameCheck(Held(e), e) /\ Held(e).ref = 3 /\ ~Held(e).released
  BY <1>3, Zenon DEF Scheduled
<1>21. PICK x : x = [thr[t] EXCEPT !.n = n, !.pc = "update"]  BY Zenon
<1>22. /\ x \in Work /\ x.pc = "update" /\ x.n = n /\ x.u = u /\ x.ask = thr[t].ask
       /\ x.outer = thr[t].outer /\ x.found = thr[t].found /\ x.row = row
  BY <1>1, <1>3, <1>13, <1>21, Zenon DEF Work, Places, Loading
<1>23. thr' = [thr EXCEPT ![t] = x]
  BY <1>4, <1>21, Zenon DEF Schedule, Become
<1>24. WorkOK(x)  BY <1>1, <1>3, <1>22, Zenon DEF WorkOK, Loading, Asking, Fetching
<1>25. /\ thr' \in [Thread -> Work] /\ thr'[t] = x /\ \A s \in Thread \ {t} : thr'[s] = thr[s]
       /\ x.pc \in Loading /\ x.pc \in Filling
  BY <1>1, <1>22, <1>23, Zenon DEF Loading, Filling
<1>26. Filled' = {n}
  BY <1>8, <1>22, <1>25, ZenonT(30) DEF Filled
<1>27. \A o \in DOMAIN reg.obj : reg'.obj[o] = reg.obj[o] /\ o # n /\ o # 0
  BY <1>3, <1>10, <1>13, Zenon DEF Scheduled
<1>28. /\ reg'.obj[n] = Held(e) /\ reg'.obj[n].u = u /\ reg'.obj[n].name = k
       /\ ~reg'.obj[n].event /\ ~reg'.obj[n].running
       /\ DOMAIN reg'.obj = DOMAIN reg.obj \cup {n}
  BY <1>3, <1>6, <1>7, <1>20, Zenon DEF SameCheck, Scheduled
<1>29. ASSUME NEW s \in Thread
       PROVE  /\ thr'[s].pc \in Loading <=> txn' = s
              /\ WorkOK(thr'[s]) /\ Knows(thr'[s], reg')
  <2>1. txn' = txn  BY Zenon DEF Schedule
  <2>2. Knows(thr[s], reg) /\ (thr[s].pc \in Loading <=> txn = s) /\ WorkOK(thr[s])
    BY InvIs, Zenon
  <2>3. CASE s = t
    <3>1. x.outer \in {0} \cup DOMAIN reg'.obj /\ x.found \in {0} \cup DOMAIN reg'.obj
      BY <1>1, <1>22, <1>28, ZenonT(30) DEF Knows
    <3>2. Knows(x, reg')
      BY <1>4, <1>6, <1>7, <1>19, <1>22, <1>28, <3>1, Zenon DEF Knows
    <3> QED  BY <1>1, <1>24, <1>25, <2>1, <2>3, <3>2, Zenon
  <2>4. CASE s # t
    <3>1. Knows(thr[s], reg')  BY <1>8, <1>28, <2>2, <2>4, KnowsPlain, Zenon
    <3> QED  BY <1>25, <2>1, <2>2, <2>4, <3>1, Zenon
  <2> QED  BY <2>3, <2>4, Zenon
<1>30. IndexAll(reg', Filled')
  <2>1. ASSUME NEW v \in Uuid, reg'.polls[v] # 0
        PROVE  /\ reg'.polls[v] \in DOMAIN reg'.obj /\ reg'.obj[reg'.polls[v]].u = v
               /\ reg'.byname[reg'.obj[reg'.polls[v]].name] = reg'.polls[v]
    <3>1. PICK o : o = reg.polls[v]  BY Zenon
    <3>2. o \in DOMAIN reg.obj /\ reg.obj[o].u = v /\ reg.byname[reg.obj[o].name] = o /\ reg'.polls[v] = o
      BY <1>1, <1>19, <2>1, <3>1, Zenon DEF IndexAll
    <3>3. reg.obj[o].name # k /\ reg.obj[o].name \in AnyName
      BY <1>10, <1>11, <1>27, <3>2, ZenonT(30) DEF Object
    <3> QED  BY <1>19, <1>27, <1>28, <3>2, <3>3, Zenon
  <2>2. ASSUME NEW j \in AnyName, reg'.byname[j] # 0
        PROVE  /\ reg'.byname[j] \in DOMAIN reg'.obj /\ reg'.obj[reg'.byname[j]].name = j
               /\ reg'.polls[reg'.obj[reg'.byname[j]].u] = reg'.byname[j] \/ reg'.byname[j] \in Filled'
    <3>1. CASE j = k  BY <1>19, <1>26, <1>28, <3>1, Zenon
    <3>2. CASE j # k
      <4>1. PICK o : o = reg.byname[j]  BY Zenon
      <4>2. /\ o \in DOMAIN reg.obj /\ reg.obj[o].name = j /\ reg.polls[reg.obj[o].u] = o
            /\ reg'.byname[j] = o
        BY <1>1, <1>9, <1>19, <2>2, <3>2, <4>1, Zenon DEF IndexAll
      <4> QED  BY <1>19, <1>27, <1>28, <4>2, Zenon
    <3> QED  BY <3>1, <3>2, Zenon
  <2>3. \A o \in DOMAIN reg'.obj : reg'.obj[o].name \in OwnName(reg'.obj[o].u)
    BY <1>1, <1>6, <1>7, <1>27, <1>28, Zenon DEF IndexAll
  <2>4. ASSUME NEW o \in reg'.bin PROVE o \in DOMAIN reg'.obj /\ reg'.byname[reg'.obj[o].name] # o
    <3>1. o \in DOMAIN reg.obj /\ reg.byname[reg.obj[o].name] # o  BY <1>1, <1>19, Zenon DEF IndexAll
    <3>2. reg.obj[o].name \in AnyName  BY <1>10, <3>1, ZenonT(30) DEF Object
    <3> QED  BY <1>19, <1>27, <1>28, <3>1, <3>2, Zenon
  <2> QED  BY <2>1, <2>2, <2>3, <2>4, Zenon DEF IndexAll
<1>31. ASSUME NEW o \in DOMAIN reg'.obj PROVE Counted(reg', o, ThreadRefs(o)')
  <2>1. /\ ThreadRefs(o) \in Nat /\ ThreadRefs(o)' \in Nat
        /\ Own(x, o) \in Nat /\ Own(thr[t], o) \in Nat
        /\ ThreadRefs(o)' = ThreadRefs(o) + Own(x, o) - Own(thr[t], o)
    BY <1>1, <1>22, <1>23, ThreadMoves, Zenon
  <2>2. CASE o \in DOMAIN reg.obj
    <3>1. Own(x, o) = Own(thr[t], o)
      BY <1>2, <1>22, <1>27, <2>2, Zenon DEF Own, Fills
    <3>2. ThreadRefs(o)' = ThreadRefs(o)  BY <2>1, <3>1, BackAgain, Zenon
    <3>3. reg.obj[o].name \in AnyName /\ reg'.obj[o] = reg.obj[o] /\ o # n /\ o # 0
      BY <1>10, <1>27, <2>2, Zenon DEF Object
    <3>4. (reg'.byname[reg.obj[o].name] = o) <=> (reg.byname[reg.obj[o].name] = o)
      BY <1>11, <1>19, <3>3, Zenon
    <3>5. TableRefs(reg', o) = TableRefs(reg, o)
      BY <1>19, <3>3, <3>4, Zenon DEF TableRefs
    <3>6. Counted(reg, o, ThreadRefs(o))  BY <2>2, InvIs, Zenon
    <3> QED  BY <3>2, <3>3, <3>5, <3>6, Zenon DEF Counted
  <2>3. CASE o = n
    <3>1. Own(x, o) = Own(thr[t], o) + 2
      BY <1>2, <1>22, <1>25, <2>3 DEF Own, Fills
    <3>2. ThreadRefs(o) = 0
      <4>1. \A s \in Thread : thr[s].outer # o /\ thr[s].found # o /\ ~Fills(thr[s], o)
        BY <1>2, <1>8, <1>13, <2>3, InvIs, Zenon DEF Knows, Fills
      <4>2. /\ {s \in Thread : thr[s].outer = o} = {} /\ {s \in Thread : thr[s].found = o} = {}
            /\ {s \in Thread : Fills(thr[s], o)} = {}
        BY <4>1, Zenon
      <4>3. Cardinality({}) = 0  BY SmallCounts, Zenon
      <4>4. ThreadRefs(o) = Cardinality({}) + Cardinality({}) + 2 * Cardinality({})
        BY <4>2, Zenon DEF ThreadRefs
      <4> QED  BY <4>3, <4>4
    <3>3. ThreadRefs(o)' = 2  BY <2>1, <3>1, <3>2
    <3>4. n \notin reg.bin  BY <1>1, <1>13, Zenon DEF IndexAll
    <3>5. TableRefs(reg', o) = 1
      BY <1>4, <1>6, <1>7, <1>13, <1>19, <1>28, <2>3, <3>4, SMTT(30) DEF TableRefs
    <3> QED  BY <1>20, <1>28, <2>3, <3>3, <3>5, SMTT(30) DEF Counted
  <2> QED  BY <1>28, <2>2, <2>3, Zenon
<1>32. Assembled
  BY <1>1, <1>19, <1>25, <1>29, <1>30, <1>31, InvIs, ZenonT(30) DEF Assembled, Schedule
<1> QED  BY <1>32, Assemble, Zenon

\* The invariant holds at the start.
LEMMA RegistryInitOK ==
    ASSUME RegistryInit, ThreadsCount
    PROVE  RegistryInv
<1>1. IdleThread \in Work /\ WorkOK(IdleThread)
  BY Zenon DEF IdleThread, Work, Places, WorkOK, Loading, Asking, Fetching
<1>2. << >> \in Seq(Object) /\ DOMAIN << >> = {}  OBVIOUS
<1>3. reg \in Registry /\ reg.failed = {} /\ reg.obj = << >>
  BY <1>2, Zenon DEF RegistryInit, Registry
<1>4. RegistryTypes  BY <1>1, <1>3, Zenon DEF RegistryInit, RegistryTypes
<1>5. \A t \in Thread : ThreadOK(t)
  <2>1. None \notin Thread  BY RegistryConstants, Zenon DEF Thread
  <2> QED  BY <1>1, <2>1, Zenon DEF RegistryInit, ThreadOK, IdleThread, Knows, Loading, Filling
<1>6. IndexOK
  BY <1>2, Zenon DEF RegistryInit, IndexOK
<1>7. \A o \in DOMAIN reg.obj : Counted(reg, o, ThreadRefs(o))
  BY <1>2, <1>3, Zenon
<1> QED  BY <1>3, <1>4, <1>5, <1>6, <1>7, Zenon DEF RegistryInv

\* Every step of a reload keeps the invariant.
LEMMA LoadKeeps ==
    ASSUME RegistryInv, NamesApart, ~HostNames, NEW t \in Thread, Load(t)
    PROVE  RegistryInv'
<1>1. ~Resolve(t)
  BY InvIs, Zenon DEF Resolve, At, Work, Places, Loading, Asking, Fetching
<1> QED
  BY <1>1, LoadBeginKeeps, LoadInheritKeeps, LoadFindKeeps, LoadDescheduleKeeps, ScheduleKeeps,
     UpdateCheckKeeps, ReplaceKeeps, BuryKeeps, LoadEndKeeps, Zenon DEF Load

\* A step that changes nothing keeps the invariant.
LEMMA RegistryStutters ==
    ASSUME RegistryInv, UNCHANGED registryVars
    PROVE  RegistryInv'
<1>1. reg' = reg /\ thr' = thr /\ db' = db /\ txn' = txn  BY Zenon DEF registryVars
<1>2. Follows(reg', reg, Filled) /\ RowsNamed(db')
  BY <1>1, InvIs, Zenon DEF Follows
<1> QED  BY <1>1, <1>2, FollowAlone, Zenon

\* Every step keeps the invariant.
LEMMA RegistryNextKeeps ==
    ASSUME RegistryInv, NamesApart, ~HostNames, ModuleRefs, [RegistryNext]_registryVars
    PROVE  RegistryInv'
<1>1. ASSUME NEW t \in Setter, SetRequest(t) PROVE RegistryInv'
  <2>1. t \in Thread  BY Zenon DEF Thread
  <2> QED  BY <1>1, <2>1, SetLookupKeeps, SetInDbKeeps, SetDupKeeps, SetReadKeeps, SetWriteKeeps,
              LoadKeeps, EndKeeps, Zenon DEF SetRequest
<1>2. ASSUME NEW t \in Deleter, DeleteRequest(t) PROVE RegistryInv'
  <2>1. t \in Thread  BY Zenon DEF Thread
  <2> QED  BY <1>2, <2>1, DeleteLookupKeeps, DeleteDescheduleKeeps, DeleteMarkKeeps,
              DeleteRemoveKeeps, EndKeeps, Zenon DEF DeleteRequest
<1>3. ASSUME NEW t \in Repl, Replicate(t) PROVE RegistryInv'
  <2>1. t \in Thread  BY Zenon DEF Thread
  <2> QED  BY <1>3, <2>1, ReplBeginKeeps, ReplTestKeeps, ReplWriteKeeps, LoadKeeps, EndKeeps, Zenon
              DEF Replicate
<1>4. ASSUME Recycle PROVE RegistryInv'
  BY <1>4, RecycleScanKeeps, RecycleRemoveKeeps, RecycleBinKeeps, Zenon DEF Recycle
<1>5. ASSUME NEW o \in DOMAIN reg.obj, Fire(o) \/ Finish(o) PROVE RegistryInv'
  BY <1>5, FireKeeps, FinishKeeps, Zenon
<1>6. ASSUME UNCHANGED registryVars PROVE RegistryInv'
  BY <1>6, RegistryStutters, ZenonT(30)
<1> QED  BY <1>1, <1>2, <1>3, <1>4, <1>5, <1>6, Zenon DEF RegistryNext

\* The places that can reach an object are the tables and the threads.
LEMMA HoldersSplit ==
    ASSUME RegistryInv, ModuleRefs, NEW o \in DOMAIN reg.obj
    PROVE  Holders(o) = TableRefs(reg, o) + ThreadRefs(o)
<1>1. /\ reg \in Registry /\ IndexAll(reg, Filled) /\ thr \in [Thread -> Work]  BY InvIs, ZenonT(30)
<1>2. reg.obj[o] \in Object /\ o # 0  BY <1>1, Indexes, Zenon
<1>3. reg.obj[o].u \in Uuid /\ reg.obj[o].name \in AnyName  BY <1>2, Zenon DEF Object
<1> DEFINE P == {u \in Uuid : reg.polls[u] = o}
           N == {k \in AnyName : reg.byname[k] = o}
           T1 == {t \in Thread : thr[t].outer = o}
           T2 == {t \in Thread : thr[t].found = o}
           T3 == {t \in Thread : Fills(thr[t], o)}
<1>4. Cardinality({}) = 0 /\ \A z : Cardinality({z}) = 1  BY SmallCounts, Zenon
<1>5. Cardinality(P) = B2N(reg.polls[reg.obj[o].u] = o)
  <2>1. CASE reg.polls[reg.obj[o].u] = o
    <3>1. P = {reg.obj[o].u}  BY <1>1, <1>2, <1>3, <2>1 DEF IndexAll
    <3> QED  BY <1>4, <2>1, <3>1, ZenonT(30)
  <2>2. CASE reg.polls[reg.obj[o].u] # o
    <3>1. P = {}  BY <1>1, <1>2, <2>2, SMTT(30) DEF IndexAll
    <3> QED  BY <1>4, <2>2, <3>1, ZenonT(30)
  <2> QED  BY <2>1, <2>2, Zenon
<1>6. Cardinality(N) = B2N(reg.byname[reg.obj[o].name] = o)
  <2>1. CASE reg.byname[reg.obj[o].name] = o
    <3>1. N = {reg.obj[o].name}  BY <1>1, <1>2, <1>3, <2>1 DEF IndexAll
    <3> QED  BY <1>4, <2>1, <3>1, ZenonT(30)
  <2>2. CASE reg.byname[reg.obj[o].name] # o
    <3>1. N = {}  BY <1>1, <1>2, <2>2 DEF IndexAll
    <3> QED  BY <1>4, <2>2, <3>1, ZenonT(30)
  <2> QED  BY <2>1, <2>2, Zenon
<1>7. {t \in Thread : thr[t].n = o /\ thr[t].pc \in {"resolve", "update", "replace"}} = T3
  <2>1. \A t \in Thread : thr[t].pc # "resolve"
    BY <1>1, Zenon DEF Work, Places, Loading, Asking, Fetching
  <2> QED  BY <2>1, Zenon DEF Fills, Filling
<1>8. B2N(reg.obj[o].running /\ ModuleRefs) = B2N(reg.obj[o].running)  BY Zenon
<1>9. Holders(o) = Cardinality(P) + Cardinality(N) + B2N(o \in reg.bin) + B2N(reg.obj[o].event)
                     + B2N(reg.obj[o].running) + Cardinality(T1) + Cardinality(T2)
                     + 2 * Cardinality(T3)
  <2> HIDE DEF B2N
  <2> QED  BY <1>7, <1>8, Zenon DEF Holders
<1>10. ThreadRefs(o) = Cardinality(T1) + Cardinality(T2) + 2 * Cardinality(T3)  BY Zenon DEF ThreadRefs
<1>11. Cardinality(T1) \in Nat /\ Cardinality(T2) \in Nat /\ Cardinality(T3) \in Nat
  <2>1. \A A \in SUBSET Thread : Cardinality(A) \in Nat  BY CountMoves, Zenon
  <2> QED  BY <2>1, Zenon
<1>12. TableRefs(reg, o) = B2N(reg.polls[reg.obj[o].u] = o) + B2N(reg.byname[reg.obj[o].name] = o)
                             + B2N(o \in reg.bin) + B2N(reg.obj[o].event) + B2N(reg.obj[o].running)
  BY Zenon DEF TableRefs
<1> HIDE DEF P, N, T1, T2, T3
<1> QED  BY <1>5, <1>6, <1>9, <1>10, <1>11, <1>12, SMTT(30)

\* The invariant covers RefsCover.
LEMMA CoversAll ==
    ASSUME RegistryInv, ModuleRefs
    PROVE  RefsCover
<1>1. ASSUME NEW o \in DOMAIN reg.obj
      PROVE  IF reg.obj[o].released THEN Holders(o) = 0
             ELSE reg.obj[o].ref >= Holders(o) /\ reg.obj[o].ref > 0
  <2>1. Counted(reg, o, ThreadRefs(o))  BY InvIs, Zenon
  <2>2. Holders(o) = TableRefs(reg, o) + ThreadRefs(o)  BY HoldersSplit, Zenon
  <2> QED  BY <2>1, <2>2, Zenon DEF Counted
<1> QED  BY <1>1, Zenon DEF RefsCover, Objects

\* It covers AssertsHold and IndexesAgree.
LEMMA AssertsAndIndexes ==
    ASSUME RegistryInv
    PROVE  AssertsHold /\ IndexesAgree
<1>1. AssertsHold  BY Zenon DEF RegistryInv, AssertsHold
<1>2. IndexesAgree  BY Zenon DEF RegistryInv, IndexOK, IndexesAgree
<1> QED  BY <1>1, <1>2, Zenon

\* It covers NotReleasedWhileRunning.
LEMMA RunningHeld ==
    ASSUME RegistryInv
    PROVE  NotReleasedWhileRunning
<1>1. ASSUME NEW o \in DOMAIN reg.obj, reg.obj[o].running PROVE ~reg.obj[o].released
  <2>1. Counted(reg, o, ThreadRefs(o))  BY <1>1, InvIs, Zenon
  <2>2. TableRefs(reg, o) > 0 /\ TableRefs(reg, o) \in Nat  BY <1>1 DEF TableRefs
  <2> QED  BY <2>1, <2>2, ThreadRefsNat, SMTT(30) DEF Counted
<1> QED  BY <1>1, Zenon DEF NotReleasedWhileRunning, Objects
============================================================================
