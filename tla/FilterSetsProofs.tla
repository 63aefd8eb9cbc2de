------------------------- MODULE FilterSetsProofs --------------------------
(***************************************************************************)
(* The inductive invariant of FilterSets, and what its parts need: how the *)
(* reference counts follow the holders of an object, and how a step of one *)
(* job leaves the rows and the table of the names it is not about.         *)
(*                                                                         *)
(* RefsExact and ChangesMarked are inductive with the types, the places of *)
(* the threads and that no object is in the table twice. RowsExplained is  *)
(* not: RowOK says for every name without a recorded cause how far the one *)
(* change to it has got. UsedKept needs that the names a cull has still to *)
(* go through are not in use, or were first used after it looked           *)
(* (UsedInv).                                                              *)
(***************************************************************************)
EXTENDS FilterSets, FiniteSetTheorems, TLAPS

Doc == [seq : Int, doc : Int]
Object == [seq : Int, doc : Int, ref_cnt : Int, idle : BOOLEAN]
Work == [at : {"idle", "row", "resize", "compile", "mark", "show", "seq", "end", "uses", "next",
               "remove", "load", "walk"},
         n : FilterName, d : Doc, o : Nat, left : SUBSET FilterName]
Cause == {"overlap", "zero", "full", "deleted"}

FilterTypes ==
    /\ filterRows \in [FilterName -> Doc]
    /\ filtersets \in [FilterName -> Nat]
    /\ obj \in Seq(Object)
    /\ worker \in [FilterThread -> Work]
    /\ causes \in [FilterName -> SUBSET Cause]
    /\ uses \subseteq FilterName /\ unmarked \subseteq FilterName
    /\ started \in Int

\* Where a thread can be.
PlaceOf(t) ==
    IF t = "set" THEN {"idle", "row", "resize", "compile", "mark", "show"}
    ELSE IF t = "repl" THEN {"idle", "seq", "compile", "mark", "row", "resize", "end"}
    ELSE IF t = "cull" THEN {"idle", "uses", "next", "remove", "row"}
    ELSE IF t = "console" THEN {"idle", "load", "compile", "mark", "walk"}
    ELSE {"idle", "walk"}
Places == \A t \in FilterThread : worker[t].at \in PlaceOf(t)

\* A pointer of the table or of a walker is to an object, and the table has an
\* object under one name only.
Pointers ==
    /\ \A n \in FilterName : filtersets[n] <= Len(obj)
    /\ \A n, m \in FilterName : filtersets[n] = filtersets[m] /\ filtersets[n] # 0 => n = m
    /\ \A t \in FilterThread : worker[t].at = "walk" => worker[t].o \in 1 .. Len(obj)

Agrees(n) == filterRows[n] = IF filtersets[n] = 0 THEN Absent ELSE DocOf(filtersets[n])
Older(n, d) == filtersets[n] # 0 => obj[filtersets[n]].seq < d.seq
Holding(n, d) == filtersets[n] # 0 /\ DocOf(filtersets[n]) = d

\* How far the one change to n has got, when nothing else happened to it.
SetSoFar(n) == worker["set"].n = n =>
    /\ worker["set"].at # "resize"
    /\ worker["set"].at = "row" => Agrees(n) /\ Older(n, worker["set"].d)
    /\ worker["set"].at = "compile" => filterRows[n] = worker["set"].d /\ Older(n, worker["set"].d)
    /\ worker["set"].at = "mark" => Agrees(n)
ReplSoFar(n) == worker["repl"].n = n =>
    /\ worker["repl"].at # "resize"
    /\ worker["repl"].at \in {"seq", "compile", "end"} => Agrees(n)
    /\ worker["repl"].at \in {"mark", "row"} => Holding(n, worker["repl"].d)
CullSoFar(n) == worker["cull"].n = n =>
    /\ worker["cull"].at = "remove" => Agrees(n)
    /\ worker["cull"].at = "row" => filtersets[n] = 0
RefreshSoFar(n) == worker["console"].at \in {"load", "compile", "mark"} => Agrees(n)

RowOK(n) ==
    /\ \A t, u \in Job : Changing(t, n) /\ Changing(u, n) => t = u
    /\ (\A t \in Job : ~Changing(t, n)) => Agrees(n)
    /\ SetSoFar(n) /\ ReplSoFar(n) /\ CullSoFar(n) /\ RefreshSoFar(n)

RowsInv ==
    /\ \A n \in FilterName : causes[n] = {} => RowOK(n)
    /\ worker["console"].at = "compile" => worker["console"].d = filterRows[worker["console"].n]

UsedInv ==
    /\ worker["cull"].at \in {"next", "remove", "row"} => worker["cull"].left \cap uses \subseteq late
    /\ worker["cull"].at = "remove" /\ worker["cull"].n \in uses => worker["cull"].n \in late

FiltersInv == FilterTypes /\ Places /\ Pointers /\ RefsExact /\ ChangesMarked /\ RowsInv /\ UsedInv

-----------------------------------------------------------------------------
(* Objects and their references *)

\* A function from 1 .. k to objects is a list of k objects.
LEMMA ObjectSeq ==
    ASSUME NEW k \in Nat, NEW f \in [1 .. k -> Object]
    PROVE  f \in Seq(Object) /\ Len(f) = k /\ DOMAIN f = 1 .. k
<1>1. f \in Seq(Object)  OBVIOUS
<1> QED  BY <1>1

\* The list of objects as a function on 1 .. Len.
LEMMA ObjectsOf ==
    ASSUME NEW os \in Seq(Object)
    PROVE  Len(os) \in Nat /\ os \in [1 .. Len(os) -> Object] /\ DOMAIN os = 1 .. Len(os)
  OBVIOUS

\* What is left of a freed object is an object without references.
LEMMA DeadObject == Dead \in Object /\ Dead.ref_cnt = 0
BY DEF Dead, Object

\* Setting the reference count of an object leaves its document.
LEMMA CountChanged ==
    ASSUME NEW x \in Object, NEW k \in Int
    PROVE  /\ [x EXCEPT !.ref_cnt = k] \in Object
           /\ [x EXCEPT !.ref_cnt = k].ref_cnt = k
           /\ [x EXCEPT !.ref_cnt = k].seq = x.seq
           /\ [x EXCEPT !.ref_cnt = k].doc = x.doc
           /\ x.ref_cnt \in Int
<1>1. [x EXCEPT !.ref_cnt = k] = [seq |-> x.seq, doc |-> x.doc, ref_cnt |-> k, idle |-> x.idle]
  BY DEF Object
<1>2. x.seq \in Int /\ x.doc \in Int /\ x.idle \in BOOLEAN /\ x.ref_cnt \in Int  BY Zenon DEF Object
<1> QED  BY <1>1, <1>2, Zenon DEF Object

\* noit_filter_filterset_free takes one reference of one object, and leaves
\* its document unless that was the last one.
LEMMA FreeOne ==
    ASSUME NEW os \in Seq(Object), NEW p
    PROVE  /\ Free(os, p) \in Seq(Object) /\ Len(Free(os, p)) = Len(os)
           /\ \A o \in 1 .. Len(os) : o # p => Free(os, p)[o] = os[o]
           /\ p \in 1 .. Len(os) =>
                 /\ Free(os, p)[p].ref_cnt = os[p].ref_cnt - 1
                 /\ os[p].ref_cnt # 1 => /\ Free(os, p)[p].seq = os[p].seq
                                         /\ Free(os, p)[p].doc = os[p].doc
<1>1. Len(os) \in Nat /\ os \in [1 .. Len(os) -> Object] /\ DOMAIN os = 1 .. Len(os)  BY ObjectsOf, Zenon
<1>2. ASSUME NEW o \in 1 .. Len(os)
      PROVE  /\ [os[o] EXCEPT !.ref_cnt = os[o].ref_cnt - 1] \in Object
             /\ [os[o] EXCEPT !.ref_cnt = os[o].ref_cnt - 1].ref_cnt = os[o].ref_cnt - 1
             /\ [os[o] EXCEPT !.ref_cnt = os[o].ref_cnt - 1].seq = os[o].seq
             /\ [os[o] EXCEPT !.ref_cnt = os[o].ref_cnt - 1].doc = os[o].doc
  <2>1. os[o] \in Object  BY <1>1, Zenon
  <2>2. os[o].ref_cnt \in Int  BY <2>1, Zenon DEF Object
  <2>3. os[o].ref_cnt - 1 \in Int  BY <2>2
  <2> QED  BY <2>1, <2>3, CountChanged, Zenon
<1>3. \A o \in 1 .. Len(os) :
        Free(os, p)[o] = IF o # p THEN os[o]
                         ELSE IF os[o].ref_cnt = 1 THEN Dead ELSE [os[o] EXCEPT !.ref_cnt = os[o].ref_cnt - 1]
  BY <1>1, Zenon DEF Free
<1>4. Free(os, p) \in [1 .. Len(os) -> Object]
  <2>1. \A o \in 1 .. Len(os) : (IF o # p THEN os[o]
                         ELSE IF os[o].ref_cnt = 1 THEN Dead ELSE [os[o] EXCEPT !.ref_cnt = os[o].ref_cnt - 1]) \in Object
    BY <1>1, <1>2, DeadObject, Zenon
  <2> QED  BY <1>1, <2>1, Zenon DEF Free
<1>5. Free(os, p) \in Seq(Object) /\ Len(Free(os, p)) = Len(os)  BY <1>1, <1>4, ObjectSeq, Zenon
<1>6. ASSUME p \in 1 .. Len(os)
      PROVE  /\ Free(os, p)[p].ref_cnt = os[p].ref_cnt - 1
             /\ os[p].ref_cnt # 1 => /\ Free(os, p)[p].seq = os[p].seq
                                     /\ Free(os, p)[p].doc = os[p].doc
  <2>1. CASE os[p].ref_cnt = 1
    <3>1. Free(os, p)[p] = Dead  BY <2>1, <1>3, <1>6, Zenon
    <3> QED  BY <2>1, <3>1, DeadObject
  <2>2. CASE os[p].ref_cnt # 1
    <3>1. Free(os, p)[p] = [os[p] EXCEPT !.ref_cnt = os[p].ref_cnt - 1]  BY <2>2, <1>3, <1>6, Zenon
    <3> QED  BY <3>1, <1>2, <1>6, Zenon
  <2> QED  BY <2>1, <2>2, Zenon
<1> QED  BY <1>3, <1>5, <1>6, Zenon

\* Touching a set (idle) changes neither its document nor its count, and no
\* other set.
LEMMA TouchOne ==
    ASSUME NEW os \in Seq(Object), NEW p \in 1 .. Len(os), NEW b \in BOOLEAN
    PROVE  LET ps == [os EXCEPT ![p].idle = b] IN
           /\ ps \in Seq(Object) /\ Len(ps) = Len(os)
           /\ \A o \in 1 .. Len(os) : ps[o].seq = os[o].seq /\ ps[o].doc = os[o].doc /\ ps[o].ref_cnt = os[o].ref_cnt
           /\ \A o \in 1 .. Len(os) \ {p} : ps[o] = os[o]
<1>1. Len(os) \in Nat /\ os \in [1 .. Len(os) -> Object] /\ DOMAIN os = 1 .. Len(os)  BY ObjectsOf, Zenon
<1>2. PICK r : r = [os[p] EXCEPT !.idle = b]  BY Zenon
<1>3. r \in Object /\ r.seq = os[p].seq /\ r.doc = os[p].doc /\ r.ref_cnt = os[p].ref_cnt
  BY <1>1, <1>2, Zenon DEF Object
<1>4. [os EXCEPT ![p].idle = b] = [os EXCEPT ![p] = r]  BY <1>1, <1>2, Zenon
<1>5. PICK ps : ps = [os EXCEPT ![p] = r]  BY Zenon
<1>6. ps \in [1 .. Len(os) -> Object] /\ ps[p] = r /\ \A o \in 1 .. Len(os) \ {p} : ps[o] = os[o]
  BY <1>1, <1>3, <1>5, Zenon
<1>7. ps \in Seq(Object) /\ Len(ps) = Len(os)  BY <1>1, <1>6, ObjectSeq, Zenon
<1> QED  BY <1>3, <1>4, <1>5, <1>6, <1>7, Zenon

\* Taking a reference for show_running changes one count.
LEMMA CountOne ==
    ASSUME NEW os \in Seq(Object), NEW p \in 1 .. Len(os)
    PROVE  LET ps == [os EXCEPT ![p].ref_cnt = @ + 1] IN
           /\ ps \in Seq(Object) /\ Len(ps) = Len(os)
           /\ ps[p].ref_cnt = os[p].ref_cnt + 1 /\ ps[p].seq = os[p].seq /\ ps[p].doc = os[p].doc
           /\ \A o \in 1 .. Len(os) \ {p} : ps[o] = os[o]
<1>1. Len(os) \in Nat /\ os \in [1 .. Len(os) -> Object] /\ DOMAIN os = 1 .. Len(os)  BY ObjectsOf, Zenon
<1>2. os[p] \in Object /\ os[p].ref_cnt \in Int  BY <1>1, Zenon DEF Object
<1>3. PICK r : r = [os[p] EXCEPT !.ref_cnt = os[p].ref_cnt + 1]  BY Zenon
<1>4. r \in Object /\ r.ref_cnt = os[p].ref_cnt + 1 /\ r.seq = os[p].seq /\ r.doc = os[p].doc
  <2>1. os[p].ref_cnt + 1 \in Int  BY <1>2
  <2> QED  BY <1>2, <1>3, <2>1, CountChanged, Zenon
<1>5. [os EXCEPT ![p].ref_cnt = @ + 1] = [os EXCEPT ![p] = r]  BY <1>1, <1>3, Zenon
<1>6. PICK ps : ps = [os EXCEPT ![p] = r]  BY Zenon
<1>7. ps \in [1 .. Len(os) -> Object] /\ ps[p] = r /\ \A o \in 1 .. Len(os) \ {p} : ps[o] = os[o]
  BY <1>1, <1>4, <1>6, Zenon
<1>8. ps \in Seq(Object) /\ Len(ps) = Len(os)  BY <1>1, <1>7, ObjectSeq, Zenon
<1> QED  BY <1>4, <1>5, <1>6, <1>7, <1>8, Zenon

Taken(os, p) == [os EXCEPT ![p].ref_cnt = @ + 1, ![p].idle = FALSE]

\* Taking a reference in noit_apply_filterset changes one count and idle.
LEMMA TakeOne ==
    ASSUME NEW os \in Seq(Object), NEW p \in 1 .. Len(os)
    PROVE  /\ Taken(os, p) \in Seq(Object) /\ Len(Taken(os, p)) = Len(os)
           /\ Taken(os, p)[p].ref_cnt = os[p].ref_cnt + 1
           /\ Taken(os, p)[p].seq = os[p].seq /\ Taken(os, p)[p].doc = os[p].doc
           /\ \A o \in 1 .. Len(os) \ {p} : Taken(os, p)[o] = os[o]
<1>1. PICK qs : qs = [os EXCEPT ![p].ref_cnt = @ + 1]  BY Zenon
<1>2. Taken(os, p) = [qs EXCEPT ![p].idle = FALSE]
  BY <1>1, Zenon DEF Taken
<1>3. /\ qs \in Seq(Object) /\ Len(qs) = Len(os)
      /\ qs[p].ref_cnt = os[p].ref_cnt + 1 /\ qs[p].seq = os[p].seq /\ qs[p].doc = os[p].doc
      /\ \A o \in 1 .. Len(os) \ {p} : qs[o] = os[o]
  <2>1. LET ps == [os EXCEPT ![p].ref_cnt = @ + 1] IN
        /\ ps \in Seq(Object) /\ Len(ps) = Len(os)
        /\ ps[p].ref_cnt = os[p].ref_cnt + 1 /\ ps[p].seq = os[p].seq /\ ps[p].doc = os[p].doc
        /\ \A o \in 1 .. Len(os) \ {p} : ps[o] = os[o]
    BY CountOne, Zenon
  <2> QED  BY <1>1, <2>1, Zenon
<1>4. PICK ps : ps = [qs EXCEPT ![p].idle = FALSE]  BY Zenon
<1>5. /\ ps \in Seq(Object) /\ Len(ps) = Len(qs)
      /\ \A o \in 1 .. Len(qs) : ps[o].seq = qs[o].seq /\ ps[o].doc = qs[o].doc /\ ps[o].ref_cnt = qs[o].ref_cnt
      /\ \A o \in 1 .. Len(qs) \ {p} : ps[o] = qs[o]
  <2>1. p \in 1 .. Len(qs) /\ FALSE \in BOOLEAN  BY <1>3, Zenon
  <2>2. LET rs == [qs EXCEPT ![p].idle = FALSE] IN
        /\ rs \in Seq(Object) /\ Len(rs) = Len(qs)
        /\ \A o \in 1 .. Len(qs) : rs[o].seq = qs[o].seq /\ rs[o].doc = qs[o].doc /\ rs[o].ref_cnt = qs[o].ref_cnt
        /\ \A o \in 1 .. Len(qs) \ {p} : rs[o] = qs[o]
    BY <1>3, <2>1, TouchOne, Zenon
  <2> QED  BY <1>4, <2>2, Zenon
<1>6. /\ ps \in Seq(Object) /\ Len(ps) = Len(os)
      /\ ps[p].ref_cnt = os[p].ref_cnt + 1 /\ ps[p].seq = os[p].seq /\ ps[p].doc = os[p].doc
      /\ \A o \in 1 .. Len(os) \ {p} : ps[o] = os[o]
  <2>1. p \in 1 .. Len(qs)  BY <1>3, Zenon
  <2> QED  BY <1>3, <1>5, <2>1, Zenon
<1> QED  BY <1>2, <1>4, <1>6, Zenon

Held(o) == {n \in FilterName : filtersets[n] = o}
Walkers(o) == {t \in FilterThread : worker[t].at = "walk" /\ worker[t].o = o}

\* RefsExact in terms of the holders of each object.
LEMMA RefsByObject ==
    ASSUME FilterTypes
    PROVE  RefsExact <=> \A o \in 1 .. Len(obj) : obj[o].ref_cnt = Cardinality(Held(o)) + Cardinality(Walkers(o))
<1>1. DOMAIN obj = 1 .. Len(obj)  BY ObjectsOf, Zenon DEF FilterTypes
<1> QED  BY <1>1, Zenon DEF RefsExact, Held, Walkers

\* The same of the next state.
LEMMA RefsByObjectNext ==
    ASSUME FilterTypes'
    PROVE  RefsExact' <=> \A o \in 1 .. Len(obj') : obj'[o].ref_cnt = Cardinality(Held(o)') + Cardinality(Walkers(o)')
<1>1. DOMAIN obj' = 1 .. Len(obj')  BY ObjectsOf, Zenon DEF FilterTypes
<1> QED  BY <1>1, Zenon DEF RefsExact, Held, Walkers

\* A finite set with one element more, or one less.
LEMMA CountByOne ==
    ASSUME NEW T, IsFiniteSet(T), NEW S \in SUBSET T
    PROVE  /\ Cardinality(S) \in Nat
           /\ S = {} <=> Cardinality(S) = 0
           /\ \A x \in T \ S : Cardinality(S \cup {x}) = Cardinality(S) + 1
           /\ \A x \in S : Cardinality(S \ {x}) = Cardinality(S) - 1
<1>1. IsFiniteSet(S)  BY FS_Subset, Zenon
<1> QED  BY <1>1, FS_CardinalityType, FS_EmptySet, FS_AddElement, FS_RemoveElement, Zenon

\* The threads are finitely many, and the jobs are four different ones.
LEMMA FiniteThreads ==
    /\ IsFiniteSet(FilterName) /\ IsFiniteSet(FilterThread)
    /\ Job \subseteq FilterThread /\ Applier \subseteq FilterThread
    /\ "set" \in Job /\ "repl" \in Job /\ "cull" \in Job /\ "console" \in Job
<1>1. IsFiniteSet({"set", "repl", "cull", "console"})
  <2>1. IsFiniteSet({"set"}) /\ IsFiniteSet({"repl"}) /\ IsFiniteSet({"cull"}) /\ IsFiniteSet({"console"})
    BY FS_Singleton, Zenon
  <2>2. {"set", "repl", "cull", "console"} = (({"set"} \cup {"repl"}) \cup {"cull"}) \cup {"console"}
    BY Zenon
  <2>3. IsFiniteSet({"set"} \cup {"repl"})  BY <2>1, FS_Union, Zenon
  <2>4. IsFiniteSet(({"set"} \cup {"repl"}) \cup {"cull"})  BY <2>1, <2>3, FS_Union, Zenon
  <2>5. IsFiniteSet((({"set"} \cup {"repl"}) \cup {"cull"}) \cup {"console"})  BY <2>1, <2>4, FS_Union, Zenon
  <2> QED  BY <2>2, <2>5, Zenon
<1> QED  BY <1>1, FS_Union, FilterConstants, Zenon DEF FilterThread, Job

\* The sets of holders and walkers are finite.
LEMMA HoldersCount ==
    ASSUME NEW o
    PROVE  /\ Held(o) \in SUBSET FilterName /\ Cardinality(Held(o)) \in Nat
           /\ Walkers(o) \in SUBSET FilterThread /\ Cardinality(Walkers(o)) \in Nat
           /\ Held(o) # {} => Cardinality(Held(o)) # 0
           /\ Walkers(o) # {} => Cardinality(Walkers(o)) # 0
<1>1. Held(o) \in SUBSET FilterName /\ Walkers(o) \in SUBSET FilterThread  BY Zenon DEF Held, Walkers
<1> QED  BY <1>1, FiniteThreads, CountByOne, Zenon

\* A step that keeps the table, the counts and who walks.
LEMMA RefsKept ==
    ASSUME FilterTypes, FilterTypes', Pointers, RefsExact, filtersets' = filtersets,
           Len(obj') = Len(obj), \A o \in 1 .. Len(obj) : obj'[o].ref_cnt = obj[o].ref_cnt,
           \A t \in FilterThread : worker'[t].at = "walk" <=> worker[t].at = "walk",
           \A t \in FilterThread : worker[t].at = "walk" => worker'[t].o = worker[t].o
    PROVE  Pointers' /\ RefsExact'
<1>1. Pointers'  BY Zenon DEF Pointers
<1>2. \A o : Held(o)' = Held(o) /\ Walkers(o)' = Walkers(o)  BY Zenon DEF Held, Walkers
<1>3. RefsExact'  BY <1>2, RefsByObject, RefsByObjectNext, Zenon
<1> QED  BY <1>1, <1>3, Zenon

\* A thread starts to walk the object under a name.
LEMMA RefTaken ==
    ASSUME FilterTypes, FilterTypes', Pointers, RefsExact, filtersets' = filtersets,
           NEW n \in FilterName, filtersets[n] # 0, NEW a \in FilterThread,
           worker[a].at # "walk", worker'[a].at = "walk", worker'[a].o = filtersets[n],
           \A t \in FilterThread \ {a} : worker'[t] = worker[t],
           Len(obj') = Len(obj), obj'[filtersets[n]].ref_cnt = obj[filtersets[n]].ref_cnt + 1,
           \A o \in 1 .. Len(obj) \ {filtersets[n]} : obj'[o] = obj[o]
    PROVE  Pointers' /\ RefsExact'
<1>1. PICK p \in 1 .. Len(obj) : p = filtersets[n]
  <2>1. filtersets[n] \in Nat /\ filtersets[n] # 0 /\ filtersets[n] <= Len(obj) /\ Len(obj) \in Nat
    BY DEF FilterTypes, Pointers
  <2> QED  BY <2>1
<1>2. Pointers'  BY <1>1, Zenon DEF Pointers
<1>3. ASSUME NEW o \in 1 .. Len(obj)
      PROVE  obj'[o].ref_cnt = Cardinality(Held(o)') + Cardinality(Walkers(o)')
  <2>1. Held(o)' = Held(o)  BY Zenon DEF Held
  <2>2. obj[o].ref_cnt = Cardinality(Held(o)) + Cardinality(Walkers(o))  BY RefsByObject, Zenon
  <2>3. CASE o = p
    <3>1. Walkers(o)' = Walkers(o) \cup {a} /\ a \in FilterThread \ Walkers(o)
      BY <2>3, <1>1, Zenon DEF Walkers
    <3>2. Cardinality(Walkers(o)') = Cardinality(Walkers(o)) + 1
      BY <3>1, HoldersCount, CountByOne, FiniteThreads
    <3> QED  BY <2>1, <2>2, <2>3, <3>2, <1>1, HoldersCount
  <2>4. CASE o # p
    <3>1. Walkers(o)' = Walkers(o)  BY <2>4, <1>1, Zenon DEF Walkers
    <3> QED  BY <2>1, <2>2, <2>4, <3>1, <1>1, Zenon
  <2> QED  BY <2>3, <2>4, Zenon
<1> QED  BY <1>2, <1>3, RefsByObjectNext, Zenon

\* A thread stops walking; the table's objects keep what they say.
LEMMA RefDropped ==
    ASSUME FilterTypes, FilterTypes', Pointers, RefsExact, filtersets' = filtersets,
           NEW a \in FilterThread, worker[a].at = "walk", worker'[a].at # "walk",
           \A t \in FilterThread \ {a} : worker'[t] = worker[t],
           obj' = Free(obj, worker[a].o)
    PROVE  /\ Pointers' /\ RefsExact'
           /\ Len(obj') = Len(obj)
           /\ \A n \in FilterName : filtersets[n] # 0 => /\ obj'[filtersets[n]].seq = obj[filtersets[n]].seq
                                                         /\ obj'[filtersets[n]].doc = obj[filtersets[n]].doc
<1>1. obj \in Seq(Object) /\ Len(obj) \in Nat  BY DEF FilterTypes
<1>2. PICK p \in 1 .. Len(obj) : p = worker[a].o  BY Zenon DEF Pointers
<1>3. /\ Len(obj') = Len(obj)
      /\ \A o \in 1 .. Len(obj) : o # p => obj'[o] = obj[o]
      /\ obj'[p].ref_cnt = obj[p].ref_cnt - 1
      /\ obj[p].ref_cnt # 1 => obj'[p].seq = obj[p].seq /\ obj'[p].doc = obj[p].doc
  BY <1>1, <1>2, FreeOne, Zenon
<1>4. Pointers'  BY <1>3, Zenon DEF Pointers
<1>5. Walkers(p)' = Walkers(p) \ {a} /\ a \in Walkers(p)  BY <1>2, Zenon DEF Walkers
<1>6. Cardinality(Walkers(p)') = Cardinality(Walkers(p)) - 1 /\ Cardinality(Walkers(p)) # 0
  BY <1>5, HoldersCount, CountByOne, FiniteThreads
<1>7. ASSUME NEW o \in 1 .. Len(obj)
      PROVE  obj'[o].ref_cnt = Cardinality(Held(o)') + Cardinality(Walkers(o)')
  <2>1. Held(o)' = Held(o)  BY Zenon DEF Held
  <2>2. obj[o].ref_cnt = Cardinality(Held(o)) + Cardinality(Walkers(o))  BY RefsByObject, Zenon
  <2>3. CASE o = p  BY <2>1, <2>2, <2>3, <1>3, <1>6, HoldersCount
  <2>4. CASE o # p
    <3>1. Walkers(o)' = Walkers(o)  BY <2>4, <1>2, Zenon DEF Walkers
    <3> QED  BY <2>1, <2>2, <2>4, <3>1, <1>3, Zenon
  <2> QED  BY <2>3, <2>4, Zenon
<1>8. ASSUME NEW n \in FilterName, filtersets[n] # 0
      PROVE  obj'[filtersets[n]].seq = obj[filtersets[n]].seq /\ obj'[filtersets[n]].doc = obj[filtersets[n]].doc
  <2>1. PICK q \in 1 .. Len(obj) : q = filtersets[n]
    <3>1. filtersets[n] \in Nat /\ filtersets[n] <= Len(obj)  BY Zenon DEF FilterTypes, Pointers
    <3> QED  BY <3>1, <1>1, <1>8
  <2>2. CASE q # p  BY <2>1, <2>2, <1>3, Zenon
  <2>3. CASE q = p
    <3>1. Held(p) # {}  BY <2>1, <2>3, Zenon DEF Held
    <3>2. obj[p].ref_cnt = Cardinality(Held(p)) + Cardinality(Walkers(p))  BY RefsByObject, Zenon
    <3>3. obj[p].ref_cnt # 1  BY <3>1, <3>2, <1>6, HoldersCount
    <3> QED  BY <2>1, <2>3, <3>3, <1>3, Zenon
  <2> QED  BY <2>2, <2>3, Zenon
<1> QED  BY <1>3, <1>4, <1>7, <1>8, RefsByObjectNext, Zenon

\* The list of objects with a new one at its end.
LEMMA Appended ==
    ASSUME NEW os \in Seq(Object), NEW x \in Object
    PROVE  /\ Append(os, x) \in Seq(Object) /\ Len(Append(os, x)) = Len(os) + 1 /\ Len(os) \in Nat
           /\ Append(os, x)[Len(os) + 1] = x
           /\ \A o \in 1 .. Len(os) : Append(os, x)[o] = os[o]
  OBVIOUS

\* Objects that differ from the ones there are in idle alone.
Touched(os) ==
    /\ Len(os) = Len(obj)
    /\ \A o \in 1 .. Len(obj) : /\ os[o].ref_cnt = obj[o].ref_cnt
                                /\ os[o].seq = obj[o].seq /\ os[o].doc = obj[o].doc

\* The table has the new object x under n.
Replaced(os, n, x) ==
    /\ obj' = Append(Free(os, filtersets[n]), x)
    /\ filtersets' = [filtersets EXCEPT ![n] = Len(obj) + 1]

\* The other names have the objects they had.
OthersKept(n) ==
    \A m \in FilterName \ {n} :
        /\ filtersets'[m] = filtersets[m]
        /\ filtersets[m] # 0 => /\ obj'[filtersets[m]].seq = obj[filtersets[m]].seq
                                /\ obj'[filtersets[m]].doc = obj[filtersets[m]].doc

\* A name gets a new object: the table's reference to the old one is dropped.
LEMMA RefReplaced ==
    ASSUME FilterTypes, FilterTypes', Pointers, RefsExact, NEW n \in FilterName, NEW os \in Seq(Object),
           NEW x \in Object, x.ref_cnt = 1, Touched(os), Replaced(os, n, x),
           \A t \in FilterThread : worker'[t].at = "walk" <=> worker[t].at = "walk",
           \A t \in FilterThread : worker[t].at = "walk" => worker'[t].o = worker[t].o
    PROVE  /\ Pointers' /\ RefsExact'
           /\ filtersets'[n] = Len(obj) + 1 /\ obj'[Len(obj) + 1] = x
           /\ OthersKept(n)
<1>0. /\ filtersets \in [FilterName -> Nat] /\ obj \in Seq(Object) /\ Len(obj) \in Nat
      /\ filtersets[n] \in Nat /\ filtersets[n] <= Len(obj)
      /\ obj' = Append(Free(os, filtersets[n]), x)
      /\ filtersets' = [filtersets EXCEPT ![n] = Len(obj) + 1]
      /\ Len(os) = Len(obj)
      /\ \A o \in 1 .. Len(obj) : os[o].ref_cnt = obj[o].ref_cnt /\ os[o].seq = obj[o].seq /\ os[o].doc = obj[o].doc
  <2>1. /\ filtersets \in [FilterName -> Nat] /\ obj \in Seq(Object) /\ filtersets[n] \in Nat
    BY Zenon DEF FilterTypes
  <2>2. Len(obj) \in Nat  BY <2>1
  <2>3. filtersets[n] <= Len(obj)  BY Zenon DEF Pointers
  <2> QED  BY <2>1, <2>2, <2>3, Zenon DEF Touched, Replaced
<1>1. PICK p \in Nat : p = filtersets[n] /\ p <= Len(obj)  BY <1>0, Zenon
<1>2. PICK fs : fs = Free(os, p)  BY Zenon
<1>3. /\ fs \in Seq(Object) /\ Len(fs) = Len(obj)
      /\ \A o \in 1 .. Len(obj) : o # p => fs[o] = os[o]
      /\ p \in 1 .. Len(obj) => fs[p].ref_cnt = os[p].ref_cnt - 1
  <2>1. /\ Free(os, p) \in Seq(Object) /\ Len(Free(os, p)) = Len(os)
        /\ \A o \in 1 .. Len(os) : o # p => Free(os, p)[o] = os[o]
        /\ p \in 1 .. Len(os) => Free(os, p)[p].ref_cnt = os[p].ref_cnt - 1
    BY FreeOne, Zenon
  <2> QED  BY <1>0, <1>2, <2>1, Zenon
<1>4. obj' = Append(fs, x)  BY <1>0, <1>1, <1>2, Zenon
<1>5. /\ Len(obj') = Len(obj) + 1
      /\ obj'[Len(obj) + 1] = x
      /\ \A o \in 1 .. Len(obj) : obj'[o] = fs[o]
  BY <1>3, <1>4, Appended
<1>6. filtersets'[n] = Len(obj) + 1 /\ \A m \in FilterName \ {n} : filtersets'[m] = filtersets[m]
  BY <1>0, Zenon
<1>7. \A m \in FilterName : filtersets[m] \in Nat /\ filtersets[m] <= Len(obj)  BY <1>0, Zenon DEF Pointers
<1>8. Pointers'
  <2>1. \A m \in FilterName : filtersets'[m] <= Len(obj')  BY <1>0, <1>5, <1>6, <1>7
  <2>2. \A k, m \in FilterName : filtersets'[k] = filtersets'[m] /\ filtersets'[k] # 0 => k = m
    <3>1. SUFFICES ASSUME NEW k \in FilterName, NEW m \in FilterName,
                          filtersets'[k] = filtersets'[m], filtersets'[k] # 0, k # m
                   PROVE  FALSE
      BY Zenon
    <3>2. CASE k = n  BY <3>1, <3>2, <1>0, <1>6, <1>7
    <3>3. CASE m = n  BY <3>1, <3>3, <1>0, <1>6, <1>7
    <3>4. CASE k # n /\ m # n  BY <3>1, <3>4, <1>6, Zenon DEF Pointers
    <3> QED  BY <3>2, <3>3, <3>4, Zenon
  <2>3. \A t \in FilterThread : worker'[t].at = "walk" => worker'[t].o \in 1 .. Len(obj')
    <3>1. \A t \in FilterThread : worker[t].at = "walk" => worker[t].o \in 1 .. Len(obj)  BY Zenon DEF Pointers
    <3> QED  BY <3>1, <1>5, <1>0
  <2> QED  BY <2>1, <2>2, <2>3, Zenon DEF Pointers
<1>9. \A o : Walkers(o)' = Walkers(o)  BY Zenon DEF Walkers
<1>10. ASSUME NEW o \in 1 .. Len(obj')
       PROVE  obj'[o].ref_cnt = Cardinality(Held(o)') + Cardinality(Walkers(o)')
  <2>1. CASE o = Len(obj) + 1
    <3>1. Held(o)' = {n}  BY <2>1, <1>0, <1>6, <1>7 DEF Held
    <3>2. Walkers(o) = {}
      <4>1. \A t \in FilterThread : worker[t].at = "walk" => worker[t].o # o  BY <2>1, <1>0 DEF Pointers
      <4> QED  BY <4>1, Zenon DEF Walkers
    <3>3. Cardinality(Held(o)') = 1 /\ Cardinality(Walkers(o)') = 0
      BY <3>1, <3>2, <1>9, FS_Singleton, FS_EmptySet, Zenon
    <3> QED  BY <2>1, <3>3, <1>5
  <2>2. CASE o \in 1 .. Len(obj) /\ o # p
    <3>1. Held(o)' = Held(o)  BY <2>2, <1>0, <1>1, <1>6 DEF Held
    <3>2. obj'[o].ref_cnt = obj[o].ref_cnt  BY <2>2, <1>0, <1>3, <1>5
    <3>3. obj[o].ref_cnt = Cardinality(Held(o)) + Cardinality(Walkers(o))  BY <2>2, RefsByObject, Zenon
    <3> QED  BY <3>1, <3>2, <3>3, <1>9, Zenon
  <2>3. CASE o \in 1 .. Len(obj) /\ o = p
    <3>1. Held(o) = {n}  BY <2>3, <1>1 DEF Held, Pointers
    <3>2. Held(o)' = {}  BY <2>3, <1>0, <1>1, <1>6, <3>1 DEF Held
    <3>3. obj'[o].ref_cnt = obj[o].ref_cnt - 1  BY <2>3, <1>0, <1>3, <1>5, Zenon
    <3>4. obj[o].ref_cnt = Cardinality(Held(o)) + Cardinality(Walkers(o))  BY <2>3, RefsByObject, Zenon
    <3>5. Cardinality(Held(o)) = 1 /\ Cardinality(Held(o)') = 0 /\ Cardinality(Walkers(o)) \in Nat
      BY <3>1, <3>2, FS_Singleton, FS_EmptySet, HoldersCount, Zenon
    <3> QED  BY <3>3, <3>4, <3>5, <1>9
  <2> QED  BY <2>1, <2>2, <2>3, <1>0, <1>5
<1>11. ASSUME NEW m \in FilterName \ {n}, filtersets[m] # 0
       PROVE  obj'[filtersets[m]].seq = obj[filtersets[m]].seq /\ obj'[filtersets[m]].doc = obj[filtersets[m]].doc
  <2>1. PICK q \in 1 .. Len(obj) : q = filtersets[m]  BY <1>0, <1>7, <1>11
  <2>2. q # p  BY <2>1, <1>1, <1>11, Zenon DEF Pointers
  <2> QED  BY <2>1, <2>2, <1>0, <1>3, <1>5
<1> QED  BY <1>0, <1>5, <1>6, <1>8, <1>10, <1>11, RefsByObjectNext, Zenon DEF OthersKept

\* A new object is made and not used: another thread's set is as new.
LEMMA RefUnused ==
    ASSUME FilterTypes, FilterTypes', Pointers, RefsExact, NEW os \in Seq(Object),
           Touched(os),
           obj' = Append(os, Dead), filtersets' = filtersets,
           \A t \in FilterThread : worker'[t].at = "walk" <=> worker[t].at = "walk",
           \A t \in FilterThread : worker[t].at = "walk" => worker'[t].o = worker[t].o
    PROVE  /\ Pointers' /\ RefsExact'
           /\ \A m \in FilterName :
                filtersets[m] # 0 => /\ obj'[filtersets[m]].seq = obj[filtersets[m]].seq
                                     /\ obj'[filtersets[m]].doc = obj[filtersets[m]].doc
<1>0. /\ filtersets \in [FilterName -> Nat] /\ obj \in Seq(Object) /\ Len(obj) \in Nat
      /\ Len(os) = Len(obj)
      /\ \A o \in 1 .. Len(obj) : os[o].ref_cnt = obj[o].ref_cnt /\ os[o].seq = obj[o].seq /\ os[o].doc = obj[o].doc
  <2>1. filtersets \in [FilterName -> Nat] /\ obj \in Seq(Object) /\ Len(obj) \in Nat  BY DEF FilterTypes
  <2>2. /\ Len(os) = Len(obj)
        /\ \A o \in 1 .. Len(obj) : os[o].ref_cnt = obj[o].ref_cnt /\ os[o].seq = obj[o].seq /\ os[o].doc = obj[o].doc
    BY Zenon DEF Touched
  <2> QED  BY <2>1, <2>2, Zenon
<1>1. /\ Len(obj') = Len(obj) + 1
      /\ obj'[Len(obj) + 1] = Dead
      /\ \A o \in 1 .. Len(obj) : obj'[o] = os[o]
  BY <1>0, Appended, DeadObject
<1>2. \A m \in FilterName : filtersets[m] \in Nat /\ filtersets[m] <= Len(obj)  BY <1>0, Zenon DEF Pointers
<1>3. Pointers'
  <2>1. \A t \in FilterThread : worker[t].at = "walk" => worker[t].o \in 1 .. Len(obj)  BY Zenon DEF Pointers
  <2>2. \A t \in FilterThread : worker'[t].at = "walk" => worker'[t].o \in 1 .. Len(obj')  BY <2>1, <1>0, <1>1
  <2>3. \A m \in FilterName : filtersets'[m] <= Len(obj')  BY <1>0, <1>1, <1>2
  <2> QED  BY <2>2, <2>3, Zenon DEF Pointers
<1>4. \A o : Walkers(o)' = Walkers(o) /\ Held(o)' = Held(o)  BY Zenon DEF Walkers, Held
<1>5. ASSUME NEW o \in 1 .. Len(obj')
      PROVE  obj'[o].ref_cnt = Cardinality(Held(o)') + Cardinality(Walkers(o)')
  <2>1. CASE o = Len(obj) + 1
    <3>1. Held(o) = {}  BY <2>1, <1>0, <1>2 DEF Held
    <3>2. Walkers(o) = {}
      <4>1. \A t \in FilterThread : worker[t].at = "walk" => worker[t].o # o  BY <2>1, <1>0 DEF Pointers
      <4> QED  BY <4>1, Zenon DEF Walkers
    <3>3. Cardinality(Held(o)') = 0 /\ Cardinality(Walkers(o)') = 0
      BY <3>1, <3>2, <1>4, FS_EmptySet, Zenon
    <3> QED  BY <2>1, <3>3, <1>1, DeadObject
  <2>2. CASE o \in 1 .. Len(obj)
    <3>1. obj[o].ref_cnt = Cardinality(Held(o)) + Cardinality(Walkers(o))  BY <2>2, RefsByObject, Zenon
    <3> QED  BY <2>2, <3>1, <1>0, <1>1, <1>4, Zenon
  <2> QED  BY <2>1, <2>2, <1>0, <1>1
<1>6. ASSUME NEW m \in FilterName, filtersets[m] # 0
      PROVE  obj'[filtersets[m]].seq = obj[filtersets[m]].seq /\ obj'[filtersets[m]].doc = obj[filtersets[m]].doc
  <2>1. filtersets[m] \in 1 .. Len(obj)  BY <1>0, <1>2, <1>6
  <2> QED  BY <2>1, <1>0, <1>1, Zenon
<1> QED  BY <1>3, <1>5, <1>6, RefsByObjectNext, Zenon

\* The cull takes an object out of the table.
LEMMA RefRemoved ==
    ASSUME FilterTypes, FilterTypes', Pointers, RefsExact, NEW n \in FilterName, filtersets[n] # 0,
           RemoveFromName(n),
           \A t \in FilterThread : worker'[t].at = "walk" <=> worker[t].at = "walk",
           \A t \in FilterThread : worker[t].at = "walk" => worker'[t].o = worker[t].o
    PROVE  /\ Pointers' /\ RefsExact'
           /\ filtersets'[n] = 0
           /\ \A m \in FilterName \ {n} :
                /\ filtersets'[m] = filtersets[m]
                /\ filtersets[m] # 0 => /\ obj'[filtersets[m]].seq = obj[filtersets[m]].seq
                                        /\ obj'[filtersets[m]].doc = obj[filtersets[m]].doc
<1>0. filtersets \in [FilterName -> Nat] /\ obj \in Seq(Object) /\ Len(obj) \in Nat  BY DEF FilterTypes
<1>1. \A m \in FilterName : filtersets[m] \in Nat /\ filtersets[m] <= Len(obj)  BY <1>0, Zenon DEF Pointers
<1>2. PICK p \in 1 .. Len(obj) : p = filtersets[n]  BY <1>0, <1>1
<1>3. /\ Len(obj') = Len(obj)
      /\ \A o \in 1 .. Len(obj) : o # p => obj'[o] = obj[o]
      /\ obj'[p].ref_cnt = obj[p].ref_cnt - 1
  BY <1>0, <1>2, FreeOne, Zenon DEF RemoveFromName
<1>4. filtersets'[n] = 0 /\ \A m \in FilterName \ {n} : filtersets'[m] = filtersets[m]
  BY <1>0, Zenon DEF RemoveFromName
<1>5. Pointers'
  <2>1. \A k, m \in FilterName : filtersets'[k] = filtersets'[m] /\ filtersets'[k] # 0 => k = m
    BY <1>4, Zenon DEF Pointers
  <2>2. \A m \in FilterName : filtersets'[m] <= Len(obj')  BY <1>0, <1>1, <1>3, <1>4
  <2>3. \A t \in FilterThread : worker'[t].at = "walk" => worker'[t].o \in 1 .. Len(obj')
    BY <1>3, Zenon DEF Pointers
  <2> QED  BY <2>1, <2>2, <2>3, Zenon DEF Pointers
<1>6. \A o : Walkers(o)' = Walkers(o)  BY Zenon DEF Walkers
<1>7. ASSUME NEW o \in 1 .. Len(obj)
      PROVE  obj'[o].ref_cnt = Cardinality(Held(o)') + Cardinality(Walkers(o)')
  <2>1. obj[o].ref_cnt = Cardinality(Held(o)) + Cardinality(Walkers(o))  BY RefsByObject, Zenon
  <2>2. CASE o # p
    <3>1. Held(o)' = Held(o)  BY <2>2, <1>0, <1>2, <1>4 DEF Held
    <3> QED  BY <2>1, <2>2, <3>1, <1>3, <1>6, Zenon
  <2>3. CASE o = p
    <3>1. Held(o) = {n}  BY <2>3, <1>2, Zenon DEF Held, Pointers
    <3>2. Held(o)' = {}  BY <2>3, <1>0, <1>2, <1>4, <3>1, Zenon DEF Held
    <3>3. Cardinality(Held(o)) = 1 /\ Cardinality(Held(o)') = 0 /\ Cardinality(Walkers(o)) \in Nat
      BY <3>1, <3>2, FS_Singleton, FS_EmptySet, HoldersCount, Zenon
    <3> QED  BY <2>1, <2>3, <3>3, <1>3, <1>6
  <2> QED  BY <2>2, <2>3, Zenon
<1>8. ASSUME NEW m \in FilterName \ {n}, filtersets[m] # 0
      PROVE  obj'[filtersets[m]].seq = obj[filtersets[m]].seq /\ obj'[filtersets[m]].doc = obj[filtersets[m]].doc
  <2>1. PICK q \in 1 .. Len(obj) : q = filtersets[m]  BY <1>0, <1>1, <1>8
  <2>2. q # p  BY <2>1, <1>2, <1>8, Zenon DEF Pointers
  <2> QED  BY <2>1, <2>2, <1>3, Zenon
<1> QED  BY <1>3, <1>4, <1>5, <1>7, <1>8, RefsByObjectNext, Zenon

-----------------------------------------------------------------------------
(* Threads and rows *)

\* Where each thread can be.
LEMMA Threads ==
    /\ PlaceOf("set") = {"idle", "row", "resize", "compile", "mark", "show"}
    /\ PlaceOf("repl") = {"idle", "seq", "compile", "mark", "row", "resize", "end"}
    /\ PlaceOf("cull") = {"idle", "uses", "next", "remove", "row"}
    /\ PlaceOf("console") = {"idle", "load", "compile", "mark", "walk"}
    /\ \A a \in Applier : a \notin Job /\ PlaceOf(a) = {"idle", "walk"}
BY FilterConstants, Zenon DEF PlaceOf, Job

\* What a thread does next, in full.
Stay(t, at) == Doing(at, worker[t].n, worker[t].d, worker[t].o, worker[t].left)

\* What a thread does has the right type.
LEMMA DoingWork ==
    ASSUME NEW at \in {"idle", "row", "resize", "compile", "mark", "show", "seq", "end", "uses", "next",
                       "remove", "load", "walk"},
           NEW n \in FilterName, NEW d \in Doc, NEW o \in Nat, NEW left \in SUBSET FilterName
    PROVE  Doing(at, n, d, o, left) \in Work
BY Zenon DEF Doing, Work

\* A thread with nothing to do has the right type, and so has a missing row.
LEMMA IdleWork == Idle \in Work /\ Idle.at = "idle" /\ Absent \in Doc
<1>1. (CHOOSE n \in FilterName : TRUE) \in FilterName  BY FilterConstants, Zenon
<1>2. Absent \in Doc  BY DEF Absent, Doc
<1> QED  BY <1>1, <1>2, DoingWork, Zenon DEF Idle, Doing

\* The parts of what a thread does.
LEMMA WorkFields ==
    ASSUME FilterTypes, NEW t \in FilterThread
    PROVE  /\ worker[t] \in Work /\ worker[t].n \in FilterName /\ worker[t].d \in Doc /\ worker[t].o \in Nat
           /\ worker[t].left \in SUBSET FilterName
<1>1. worker[t] \in Work  BY Zenon DEF FilterTypes
<1> QED  BY <1>1, Zenon DEF Work

\* A thread that goes on keeps all but its place.
LEMMA GoTo ==
    ASSUME FilterTypes, NEW t \in FilterThread,
           NEW at \in {"idle", "row", "resize", "compile", "mark", "show", "seq", "end", "uses", "next",
                       "remove", "load", "walk"}
    PROVE  /\ Go(t, at) => Does(t, Stay(t, at))
           /\ Stay(t, at) \in Work /\ Stay(t, at).at = at /\ Stay(t, at).n = worker[t].n
           /\ Stay(t, at).d = worker[t].d /\ Stay(t, at).o = worker[t].o /\ Stay(t, at).left = worker[t].left
<1>1. worker[t] \in Work  BY WorkFields, Zenon
<1>2. [worker[t] EXCEPT !.at = at] = Stay(t, at)  BY <1>1 DEF Work, Stay, Doing
<1>3. Stay(t, at) \in Work  BY WorkFields, DoingWork, Zenon DEF Stay
<1> QED  BY <1>2, <1>3, Zenon DEF Go, Does, Stay, Doing

\* A step of a thread, with what the others see of it.
LEMMA Moves ==
    ASSUME FilterTypes, NEW t \in FilterThread, NEW w \in Work, Does(t, w)
    PROVE  /\ worker' \in [FilterThread -> Work] /\ worker'[t] = w
           /\ \A u \in FilterThread \ {t} : worker'[u] = worker[u]
BY Zenon DEF FilterTypes, Does

\* A step of a job that does not touch the table.
LEMMA JobMoves ==
    ASSUME FilterTypes, Places, Pointers, RefsExact, ChangesMarked, UsedInv, NEW t \in Job, NEW w \in Work,
           Does(t, w), w.at \in PlaceOf(t), worker[t].at # "walk", w.at # "walk",
           filtersets' = filtersets, obj' = obj, uses' = uses,
           filterRows' \in [FilterName -> Doc], causes' \in [FilterName -> SUBSET Cause],
           unmarked' \subseteq FilterName, started' \in Int
    PROVE  /\ FilterTypes' /\ Places' /\ Pointers' /\ RefsExact'
           /\ worker'[t] = w /\ \A u \in FilterThread \ {t} : worker'[u] = worker[u]
           /\ worker[t].at # "mark" /\ unmarked' = unmarked => ChangesMarked'
           /\ t # "cull" /\ late' = late => UsedInv'
<1>1. t \in FilterThread /\ "cull" \in FilterThread  BY FiniteThreads, Zenon
<1>2. /\ worker' \in [FilterThread -> Work] /\ worker'[t] = w
      /\ \A u \in FilterThread \ {t} : worker'[u] = worker[u]
  BY <1>1, Moves, Zenon
<1>3. FilterTypes'  BY <1>2, Zenon DEF FilterTypes
<1>4. Places'  BY <1>2, Zenon DEF Places
<1>5. \A u \in FilterThread : worker'[u].at = "walk" <=> worker[u].at = "walk"  BY <1>2, Zenon
<1>6. \A u \in FilterThread : worker[u].at = "walk" => worker'[u].o = worker[u].o  BY <1>2, Zenon
<1>7. Pointers' /\ RefsExact'  BY <1>3, <1>5, <1>6, RefsKept, Zenon
<1>8. ASSUME worker[t].at # "mark", unmarked' = unmarked PROVE ChangesMarked'
  BY <1>8, <1>2, FiniteThreads DEF ChangesMarked
<1>9. ASSUME t # "cull", late' = late PROVE UsedInv'
  BY <1>9, <1>1, <1>2, Zenon DEF UsedInv
<1> QED  BY <1>2, <1>3, <1>4, <1>7, <1>8, <1>9, Zenon

\* The table entry of a name, its document and its row are left alone.
SameSet(m) ==
    /\ filtersets'[m] = filtersets[m] /\ filterRows'[m] = filterRows[m]
    /\ filtersets[m] # 0 => /\ obj'[filtersets[m]].seq = obj[filtersets[m]].seq
                            /\ obj'[filtersets[m]].doc = obj[filtersets[m]].doc

SoFar(t, n) ==
    /\ t = "set" => SetSoFar(n)
    /\ t = "repl" => ReplSoFar(n)
    /\ t = "cull" => CullSoFar(n)
    /\ t = "console" => RefreshSoFar(n)

\* No step of another thread is on its way for a name: the row and the table
\* entry are as this thread left them.
LEMMA RowAlone ==
    ASSUME Places', NEW n \in FilterName, NEW t \in Job, \A u \in Job \ {t} : ~Changing(u, n)',
           SoFar(t, n)', ~Changing(t, n)' => Agrees(n)'
    PROVE  RowOK(n)'
<1>1. SetSoFar(n)'
  <2>1. CASE t = "set"  BY <2>1, Zenon DEF SoFar
  <2>2. CASE t # "set"
    <3>1. ~Changing("set", n)'  BY <2>2, FiniteThreads, Zenon
    <3> QED  BY <3>1, Zenon DEF Changing, SetSoFar
  <2> QED  BY <2>1, <2>2, Zenon
<1>2. ReplSoFar(n)'
  <2>1. CASE t = "repl"  BY <2>1, Zenon DEF SoFar
  <2>2. CASE t # "repl"
    <3>1. ~Changing("repl", n)'  BY <2>2, FiniteThreads, Zenon
    <3> QED  BY <3>1, Zenon DEF Changing, ReplSoFar
  <2> QED  BY <2>1, <2>2, Zenon
<1>3. CullSoFar(n)'
  <2>1. CASE t = "cull"  BY <2>1, Zenon DEF SoFar
  <2>2. CASE t # "cull"
    <3>1. ~Changing("cull", n)'  BY <2>2, FiniteThreads, Zenon
    <3> QED  BY <3>1, Zenon DEF Changing, CullSoFar
  <2> QED  BY <2>1, <2>2, Zenon
<1>4. RefreshSoFar(n)'
  <2>1. CASE t = "console"  BY <2>1, Zenon DEF SoFar
  <2>2. CASE t # "console"
    <3>1. ~Changing("console", n)'  BY <2>2, FiniteThreads, Zenon
    <3> QED  BY <3>1, Zenon DEF Changing, RefreshSoFar
  <2> QED  BY <2>1, <2>2, Zenon
<1> QED  BY <1>1, <1>2, <1>3, <1>4, Zenon DEF RowOK

\* A set that is left alone agrees with its row, or is older than a document,
\* or holds it, exactly as before.
LEMMA SameAgrees ==
    ASSUME NEW n \in FilterName, SameSet(n)
    PROVE  /\ Agrees(n)' <=> Agrees(n)
           /\ \A d : Older(n, d)' <=> Older(n, d)
           /\ \A d : Holding(n, d)' <=> Holding(n, d)
BY Zenon DEF SameSet, Agrees, Older, Holding, DocOf

\* A name that the step is not about.
LEMMA RowFrame ==
    ASSUME NEW n \in FilterName, RowOK(n), SameSet(n),
           \A u \in Job : worker'[u] = worker[u] \/ (~Changing(u, n) /\ ~Changing(u, n)')
    PROVE  RowOK(n)'
<1>1. \A u \in Job : Changing(u, n)' <=> Changing(u, n)
  <2>1. ASSUME NEW u \in Job PROVE Changing(u, n)' <=> Changing(u, n)
    <3>1. CASE ~Changing(u, n) /\ ~Changing(u, n)'  BY <3>1, Zenon
    <3>2. CASE worker'[u] = worker[u]  BY <3>2, Zenon DEF Changing
    <3> QED  BY <3>1, <3>2, Zenon
  <2> QED  BY <2>1, Zenon
<1>2. /\ Agrees(n)' <=> Agrees(n)
      /\ \A d : Older(n, d)' <=> Older(n, d)
      /\ \A d : Holding(n, d)' <=> Holding(n, d)
  BY SameAgrees, Zenon
<1>3. SetSoFar(n)'
  <2>1. CASE ~Changing("set", n)'  BY <2>1, Zenon DEF Changing, SetSoFar
  <2>2. CASE worker'["set"] = worker["set"]
    <3>2. PICK d : d = worker["set"].d  BY Zenon
    <3>3. SetSoFar(n)' = (worker["set"].n = n =>
            /\ worker["set"].at # "resize"
            /\ worker["set"].at = "row" => Agrees(n)' /\ Older(n, d)'
            /\ worker["set"].at = "compile" => filterRows'[n] = d /\ Older(n, d)'
            /\ worker["set"].at = "mark" => Agrees(n)')
      BY <2>2, <3>2, Zenon DEF SetSoFar, Older
    <3>4. filterRows'[n] = filterRows[n]  BY Zenon DEF SameSet
    <3> QED  BY <3>2, <3>3, <3>4, <1>2, Zenon DEF RowOK, SetSoFar
  <2> QED  BY <2>1, <2>2, FiniteThreads, Zenon
<1>4. ReplSoFar(n)'
  <2>1. CASE ~Changing("repl", n)'  BY <2>1, Zenon DEF Changing, ReplSoFar
  <2>2. CASE worker'["repl"] = worker["repl"]
    <3>2. PICK d : d = worker["repl"].d  BY Zenon
    <3>3. ReplSoFar(n)' = (worker["repl"].n = n =>
            /\ worker["repl"].at # "resize"
            /\ worker["repl"].at \in {"seq", "compile", "end"} => Agrees(n)'
            /\ worker["repl"].at \in {"mark", "row"} => Holding(n, d)')
      BY <2>2, <3>2, Zenon DEF ReplSoFar, Holding
    <3> QED  BY <3>2, <3>3, <1>2, Zenon DEF RowOK, ReplSoFar
  <2> QED  BY <2>1, <2>2, FiniteThreads, Zenon
<1>5. CullSoFar(n)'
  <2>1. CASE ~Changing("cull", n)'  BY <2>1, Zenon DEF Changing, CullSoFar
  <2>2. CASE worker'["cull"] = worker["cull"]
    <3>2. Agrees(n)' <=> Agrees(n)  BY <1>2, Zenon
    <3>3. filtersets'[n] = filtersets[n]  BY Zenon DEF SameSet
    <3> QED  BY <2>2, <3>2, <3>3, Zenon DEF RowOK, CullSoFar
  <2> QED  BY <2>1, <2>2, FiniteThreads, Zenon
<1>6. RefreshSoFar(n)'
  <2>1. CASE ~Changing("console", n)'  BY <2>1, Zenon DEF Changing, RefreshSoFar
  <2>2. CASE worker'["console"] = worker["console"]  BY <2>2, <1>2, Zenon DEF RowOK, RefreshSoFar
  <2> QED  BY <2>1, <2>2, FiniteThreads, Zenon
<1> QED  BY <1>1, <1>2, <1>3, <1>4, <1>5, <1>6, Zenon DEF RowOK

\* What a step of the job t may do to the name m: nothing at all; something
\* that the history explains; or, when no other job is changing m, a part of
\* its own change that leaves things as SoFar says.
RowStep(t, m) ==
    \/ SameSet(m) /\ ~Changing(t, m) /\ ~Changing(t, m)'
    \/ causes'[m] # {}
    \/ /\ Changing(t, m) \/ \A u \in Job \ {t} : ~Changing(u, m)
       /\ RowOK(m) /\ (\A u \in Job \ {t} : ~Changing(u, m)) =>
            SoFar(t, m)' /\ (~Changing(t, m)' => Agrees(m)')

\* A step of the job t that does to every name what RowStep allows keeps the
\* rows explained.
LEMMA RowsStep ==
    ASSUME RowsInv, Places', NEW t \in Job,
           \A u \in FilterThread \ {t} : worker'[u] = worker[u],
           \A m \in FilterName : causes'[m] = {} => causes[m] = {},
           \A m \in FilterName : RowStep(t, m),
           worker'["console"].at = "compile" => worker'["console"].d = filterRows'[worker'["console"].n]
    PROVE  RowsInv'
<1>0. \A u \in Job \ {t} : worker'[u] = worker[u]  BY FiniteThreads, Zenon
<1>1. ASSUME NEW m \in FilterName, causes'[m] = {} PROVE RowOK(m)'
  <2>0. RowOK(m)  BY <1>1, Zenon DEF RowsInv
  <2>1. CASE SameSet(m) /\ ~Changing(t, m) /\ ~Changing(t, m)'
    <3>1. SameSet(m) /\ \A u \in Job : worker'[u] = worker[u] \/ (~Changing(u, m) /\ ~Changing(u, m)')
      BY <2>1, <1>0, Zenon
    <3> QED  BY <2>0, <3>1, RowFrame, Zenon
  <2>2. CASE /\ Changing(t, m) \/ \A u \in Job \ {t} : ~Changing(u, m)
             /\ RowOK(m) /\ (\A u \in Job \ {t} : ~Changing(u, m)) =>
                  SoFar(t, m)' /\ (~Changing(t, m)' => Agrees(m)')
    <3>2. \A u \in Job \ {t} : ~Changing(u, m)  BY <2>0, <2>2, Zenon DEF RowOK
    <3>3. SoFar(t, m)' /\ (~Changing(t, m)' => Agrees(m)')  BY <2>0, <2>2, <3>2, Zenon
    <3>4. \A u \in Job \ {t} : ~Changing(u, m)'
      <4>1. ASSUME NEW u \in Job \ {t} PROVE ~Changing(u, m)'
        <5>1. worker'[u] = worker[u] /\ ~Changing(u, m)  BY <3>2, <1>0, Zenon
        <5> QED  BY <5>1, Zenon DEF Changing
      <4> QED  BY <4>1, Zenon
    <3> QED  BY <3>3, <3>4, RowAlone, Zenon
  <2> QED  BY <2>1, <2>2, <1>1, Zenon DEF RowStep
<1> QED  BY <1>1, Zenon DEF RowsInv

\* While a refresh has its transaction open the rows stay.
LEMMA ConsoleKept ==
    ASSUME RowsInv, worker'["console"] = worker["console"], filterRows' = filterRows \/ ~filterTxn
    PROVE  worker'["console"].at = "compile" => worker'["console"].d = filterRows'[worker'["console"].n]
BY Zenon DEF RowsInv, filterTxn

\* A step that changes no row and no table entry but of names whose
\* differences it explains, and no job but the console's walk.
LEMMA RowsStill ==
    ASSUME RowsInv, \A m \in FilterName : causes'[m] = {} => causes[m] = {} /\ SameSet(m),
           \A u \in Job \ {"console"} : worker'[u] = worker[u],
           \/ worker'["console"] = worker["console"]
           \/ worker["console"].at \in {"idle", "walk"} /\ worker'["console"].at \in {"idle", "walk"},
           worker'["console"].at = "compile" => filterRows' = filterRows
    PROVE  RowsInv'
<1>1. \A m \in FilterName, u \in Job : worker'[u] = worker[u] \/ (~Changing(u, m) /\ ~Changing(u, m)')
  <2>1. ASSUME NEW m \in FilterName, worker'["console"] # worker["console"]
        PROVE  ~Changing("console", m) /\ ~Changing("console", m)'
    BY <2>1, Zenon DEF Changing
  <2> QED  BY <2>1, Zenon
<1>2. \A m \in FilterName : causes'[m] = {} => RowOK(m)'  BY <1>1, RowFrame, Zenon DEF RowsInv
<1>3. worker'["console"].at = "compile" => worker'["console"].d = filterRows'[worker'["console"].n]
  BY Zenon DEF RowsInv
<1> QED  BY <1>2, <1>3, Zenon DEF RowsInv

-----------------------------------------------------------------------------
(* Steps that leave rows and table alone *)

\* What the history says when the job t starts on the names N.
LEMMA Overlaps ==
    ASSUME FilterTypes, NEW t, NEW N \in SUBSET FilterName
    PROVE  /\ Overlapping(t, N) \in [FilterName -> SUBSET Cause]
           /\ \A m \in FilterName : Overlapping(t, N)[m] = {} => causes[m] = {}
           /\ \A m \in N : Overlapping(t, N)[m] = {} => \A u \in Job \ {t} : ~Changing(u, m)
<1>1. \A m \in FilterName : causes[m] \in SUBSET Cause  BY Zenon DEF FilterTypes
<1>2. \A m \in FilterName : Overlapping(t, N)[m] = causes[m] \cup
          IF m \in N /\ \E u \in Job \ {t} : Changing(u, m) THEN {"overlap"} ELSE {}
  BY Zenon DEF Overlapping
<1>3. "overlap" \in Cause  BY Zenon DEF Cause
<1>4. Overlapping(t, N) \in [FilterName -> SUBSET Cause]
  <2>1. \A m \in FilterName : (causes[m] \cup
          IF m \in N /\ \E u \in Job \ {t} : Changing(u, m) THEN {"overlap"} ELSE {}) \in SUBSET Cause
    BY <1>1, <1>3, Zenon
  <2> QED  BY <2>1, Zenon DEF Overlapping
<1>5. ASSUME NEW m \in FilterName, Overlapping(t, N)[m] = {}
      PROVE  causes[m] = {} /\ (m \in N => \A u \in Job \ {t} : ~Changing(u, m))
  BY <1>2, <1>5, Zenon
<1> QED  BY <1>4, <1>5, Zenon

\* A cause is added to one name.
LEMMA CauseAdded ==
    ASSUME NEW cs \in [FilterName -> SUBSET Cause], NEW n \in FilterName, NEW C \in SUBSET Cause
    PROVE  /\ [cs EXCEPT ![n] = @ \cup C] \in [FilterName -> SUBSET Cause]
           /\ \A m \in FilterName : [cs EXCEPT ![n] = @ \cup C][m] = {} => cs[m] = {}
           /\ [cs EXCEPT ![n] = @ \cup C][n] = {} => C = {}
  BY Zenon

\* A step that only starts a job that ends at once, or changes the lock.
LEMMA StillOK ==
    ASSUME FiltersInv, started' \in Int,
           UNCHANGED <<filterRows, filtersets, obj, worker, uses, unmarked, causes, late>>
    PROVE  FiltersInv'
<1>1. FilterTypes' /\ Places' /\ Pointers' /\ RefsExact' /\ ChangesMarked' /\ UsedInv'
  BY DEF FiltersInv, FilterTypes, Places, Pointers, RefsExact, ChangesMarked, UsedInv
<1>2. RowsInv'
  <2>1. \A m \in FilterName : causes'[m] = {} => causes[m] = {} /\ SameSet(m)  BY Zenon DEF SameSet
  <2> QED  BY <2>1, RowsStill, Zenon DEF FiltersInv
<1> QED  BY <1>1, <1>2, Zenon DEF FiltersInv

\* A step that touches neither rows nor table leaves every set alone.
LEMMA SameAll ==
    ASSUME UNCHANGED <<filterRows, filtersets, obj>>
    PROVE  \A m \in FilterName : SameSet(m)
BY Zenon DEF SameSet


\* Sending a set.
LEMMA SetBeginOK ==
    ASSUME FiltersInv, NEW n \in Asked, NEW s \in FilterSeqs, SetBegin(n, s)
    PROVE  FiltersInv'
<1>0. FilterTypes /\ Places /\ Pointers /\ RefsExact /\ ChangesMarked /\ RowsInv /\ UsedInv  BY Zenon DEF FiltersInv
<1>1. n \in FilterName /\ s \in Nat  BY FilterConstants, Zenon
<1>2. started' \in Int  BY <1>0 DEF SetBegin, Begin, FilterTypes
<1>3. CASE UNCHANGED <<worker, causes>>
  BY <1>2, <1>3, StillOK, Zenon DEF SetBegin
<1>4. CASE ~UNCHANGED <<worker, causes>>
  <2>1. PICK d : d = [seq |-> s, doc |-> started + 1]  BY Zenon
  <2>2. d \in Doc /\ d.seq = s  BY <2>1, <1>0, <1>1 DEF Doc, FilterTypes
  <2>3. /\ worker["set"].at = "idle"
        /\ filterRows[n] = Absent \/ filterRows[n].seq < s \/ s = 0
        /\ Does("set", Doing("row", n, d, 0, {}))
        /\ causes' = [Overlapping("set", {n}) EXCEPT ![n] = @ \cup
                          IF s = 0 /\ filtersets[n] # 0 THEN {"zero"} ELSE {}]
        /\ UNCHANGED <<filterRows, filtersets, obj, leaked, uses, unmarked, late>>
    BY <1>4, <2>1, Zenon DEF SetBegin
  <2>4. PICK w : w = Doing("row", n, d, 0, {})  BY Zenon
  <2>5. w \in Work  BY <2>4, <2>2, <1>1, DoingWork, Zenon
  <2>7. w.at = "row" /\ w.n = n /\ w.d = d  BY <2>4, Zenon DEF Doing
  <2>8. PICK C \in SUBSET Cause : C = (IF s = 0 /\ filtersets[n] # 0 THEN {"zero"} ELSE {})  BY Zenon DEF Cause
  <2>9. PICK cs \in [FilterName -> SUBSET Cause] : cs = Overlapping("set", {n})  BY <1>0, <1>1, Overlaps
  <2>10. causes' = [cs EXCEPT ![n] = @ \cup C]  BY <2>3, <2>8, <2>9, Zenon
  <2>11. /\ causes' \in [FilterName -> SUBSET Cause]
         /\ \A m \in FilterName : causes'[m] = {} => cs[m] = {}
         /\ causes'[n] = {} => C = {}
    BY <2>10, <1>1, CauseAdded
  <2>12. /\ \A m \in FilterName : causes'[m] = {} => causes[m] = {}
         /\ causes'[n] = {} => \A u \in Job \ {"set"} : ~Changing(u, n)
    BY <2>9, <2>11, <1>0, <1>1, Overlaps
  <2>13. /\ FilterTypes' /\ Places' /\ Pointers' /\ RefsExact' /\ ChangesMarked' /\ UsedInv'
         /\ worker'["set"] = w /\ \A u \in FilterThread \ {"set"} : worker'[u] = worker[u]
    <3>1. w.at \in PlaceOf("set") /\ worker["set"].at # "walk" /\ worker["set"].at # "mark" /\ w.at # "walk"
      BY <2>3, <2>7, Threads, Zenon
    <3>2. filterRows' \in [FilterName -> Doc] /\ unmarked' \subseteq FilterName  BY <1>0, <2>3, Zenon DEF FilterTypes
    <3> QED  BY <3>1, <3>2, <1>0, <1>2, <2>3, <2>4, <2>5, <2>11, FiniteThreads, JobMoves, Zenon
  <2>14. \A m \in FilterName : SameSet(m)  BY <2>3, SameAll, Zenon
  <2>15. ASSUME causes'[n] = {}, RowOK(n), \A u \in Job \ {"set"} : ~Changing(u, n)
         PROVE  SoFar("set", n)' /\ (~Changing("set", n)' => Agrees(n)')
    <3>2. \A u \in Job : ~Changing(u, n)  BY <2>3, <2>15, Zenon DEF Changing
    <3>3. Agrees(n)  BY <2>15, <3>2, Zenon DEF RowOK
    <3>4. Agrees(n)'  BY <3>3, <1>1, <2>14, SameAgrees, Zenon
    <3>5. ~(s = 0 /\ filtersets[n] # 0)  BY <2>8, <2>11, <2>15, Zenon
    <3>6. filtersets[n] # 0 => obj[filtersets[n]].seq < s
      <4>1. ASSUME filtersets[n] # 0 PROVE obj[filtersets[n]].seq < s
        <5>1. filterRows[n] = DocOf(filtersets[n])  BY <3>3, <4>1, Zenon DEF Agrees
        <5>2. filterRows[n] = Absent \/ filterRows[n].seq < s  BY <2>3, <3>5, <4>1, Zenon
        <5>3. CASE filterRows[n] = Absent
          <6>1. obj[filtersets[n]].seq = -1  BY <5>1, <5>3 DEF DocOf, Absent
          <6> QED  BY <6>1, <1>1
        <5>4. CASE filterRows[n].seq < s  BY <5>1, <5>4 DEF DocOf
        <5> QED  BY <5>2, <5>3, <5>4, Zenon
      <4> QED  BY <4>1, Zenon
    <3>7. filtersets'[n] # 0 => obj'[filtersets'[n]].seq < d.seq  BY <2>2, <2>3, <3>6, Zenon
    <3>8. SetSoFar(n)'  BY <2>7, <2>13, <3>4, <3>7, Zenon DEF SetSoFar, Older
    <3>9. Changing("set", n)'  BY <2>7, <2>13, Zenon DEF Changing
    <3> QED  BY <3>8, <3>9, Zenon DEF SoFar
  <2>16. RowsInv'
    <3>1. \A m \in FilterName \ {n} : SameSet(m) /\ ~Changing("set", m) /\ ~Changing("set", m)'
      BY <2>3, <2>7, <2>13, <2>14, Zenon DEF Changing
    <3>2. \A m \in FilterName : RowStep("set", m)  BY <3>1, <2>12, <2>15, Zenon DEF RowStep
    <3>3. worker'["console"] = worker["console"] /\ "set" \in Job  BY <2>13, FiniteThreads, Zenon
    <3>4. worker'["console"].at = "compile" => worker'["console"].d = filterRows'[worker'["console"].n]
      BY <3>3, <2>3, <1>0, ConsoleKept, Zenon
    <3> QED  BY <3>2, <3>3, <3>4, <1>0, <2>12, <2>13, RowsStep, Zenon
  <2> QED  BY <2>13, <2>16, Zenon DEF FiltersInv
<1> QED  BY <1>3, <1>4, Zenon
=============================================================================
