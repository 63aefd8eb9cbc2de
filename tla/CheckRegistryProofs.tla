------------------------ MODULE CheckRegistryProofs ------------------------
(***************************************************************************)
(* The references, the assertions and the two indexes of the registry of   *)
(* checks, for every number of checks, names, requests and threads, and    *)
(* the agreement of memory and database when requests and recycler passes  *)
(* come one after the other.                                               *)
(***************************************************************************)
EXTENDS CheckRegistrySteps

USE DEF B2N

\* What the uuid v finds in Q looks like what it finds in R.
SameView(Q, R, v) ==
    /\ Q.polls[v] = R.polls[v]
    /\ R.polls[v] # 0 => SameFace(Q.obj[R.polls[v]], R.obj[R.polls[v]])

\* The row of a check and what memory has of it agree.
Matched(D, R, v) ==
    /\ D[v] = None => R.polls[v] = 0
    /\ D[v] # None /\ D[v].deleted /\ R.polls[v] # 0 =>
         R.obj[R.polls[v]].deleted /\ R.obj[R.polls[v]].seq = D[v].seq
    /\ D[v] # None /\ ~D[v].deleted =>
         /\ R.polls[v] # 0 /\ ~R.obj[R.polls[v]].deleted /\ ~R.obj[R.polls[v]].disabled
         /\ R.obj[R.polls[v]].name = D[v].name /\ R.obj[R.polls[v]].seq = D[v].seq

\* What memory has of a check is not newer than its row.
NotAhead(D, R, v) ==
    /\ D[v] = None => R.polls[v] = 0
    /\ D[v] # None /\ R.polls[v] # 0 => R.obj[R.polls[v]].seq <= D[v].seq

\* The object made of a row.
MadeOf(ob, row) ==
    /\ ob.seq = row.seq /\ ~ob.deleted
    /\ ~row.deleted => ob.name = row.name

\* Where the row of the check at work and memory agree.
Settled == Asking \cup Fetching \cup {"end", "load_end", "del_desched"}

\* What the one request at work relies on.
AtWork(th, D, R) ==
    /\ th.pc \in Settled => Matched(D, R, th.u)
    /\ th.pc \in {"set_in_db", "set_dup", "set_read", "del_desched", "del_mark"} =>
         th.outer = R.polls[th.u]
    /\ th.pc \in {"set_dup", "set_read"} => (th.indb <=> D[th.u] # None)
    /\ th.pc = "set_write" => th.old = IF D[th.u] # None THEN D[th.u].seq ELSE 0
    /\ th.pc \in {"load", "load_inherit", "load_find"} => NotAhead(D, R, th.u)
    /\ th.pc \in Loading \ {"load_end"} => D[th.u] = th.row
    /\ th.pc # "load_drop"
    /\ th.pc \in Filling => MadeOf(R.obj[th.n], th.row)
    /\ th.pc = "replace" => ~R.obj[th.n].disabled
    /\ th.pc = "bury" =>
         th.row.deleted /\ R.polls[th.u] # 0 /\ R.obj[R.polls[th.u]].seq = th.row.seq
    /\ th.pc = "del_mark" =>
         R.polls[th.u] # 0 /\ R.obj[R.polls[th.u]].deleted /\ D[th.u] # None
    /\ th.pc = "del_remove" => R.polls[th.u] = 0
    /\ th.pc \in Fetching => (R.polls[th.u] # 0 => R.obj[R.polls[th.u]].seq < th.ask.seq)

\* Nobody else is at work.
Alone(t) == rec.pc = "idle" /\ \A s \in Thread \ {t} : thr[s].pc = "idle"

\* The inductive invariant of memory and rows: a request works alone, every check but
\* its own agrees with its row, and of its own what AtWork says; the recycler removes
\* rows of checks that memory has no more.
MemoryInv ==
    /\ \A t \in Thread : thr[t].pc # "idle" =>
         /\ Alone(t)
         /\ \A v \in Uuid \ {thr[t].u} : Matched(db, reg, v)
         /\ AtWork(thr[t], db, reg)
    /\ Quiet => \A v \in Uuid : Matched(db, reg, v)
    /\ rec \in [pc : {"idle", "purge"}, todo : SUBSET Uuid]
    /\ rec.pc = "purge" => \A v \in rec.todo : reg.polls[v] = 0

\* What looks the same agrees with the same row.
LEMMA MatchedStill ==
    ASSUME NEW Q, NEW R, NEW D, NEW E, NEW v, SameView(Q, R, v), E[v] = D[v], Matched(D, R, v)
    PROVE  Matched(E, Q, v)
BY Zenon DEF SameView, SameFace, Matched

\* What looks the same is no newer than the same row.
LEMMA AheadStill ==
    ASSUME NEW Q, NEW R, NEW D, NEW E, NEW v, SameView(Q, R, v), E[v] = D[v], NotAhead(D, R, v)
    PROVE  NotAhead(E, Q, v)
BY ZenonT(30) DEF SameView, SameFace, NotAhead

\* Objects that look the same make every uuid find the same.
LEMMA SameViews ==
    ASSUME NEW Q, NEW R, NEW F, IndexAll(R, F), NEW v \in Uuid, Q.polls[v] = R.polls[v],
           \A o \in DOMAIN R.obj : R.obj[o].u = v => SameFace(Q.obj[o], R.obj[o])
    PROVE  SameView(Q, R, v)
BY Zenon DEF SameView, IndexAll

\* Taking a reference changes nothing that a uuid finds.
LEMMA RefViews ==
    ASSUME NEW R \in Registry, NEW F, IndexAll(R, F), NEW o \in {0} \cup DOMAIN R.obj, NEW v \in Uuid
    PROVE  SameView(Ref(R, o), R, v)
<1>1. \A p \in DOMAIN R.obj : SameFace(Held(R.obj[p]), R.obj[p])  BY Indexes, HeldIs, Zenon
<1>2. \A p \in DOMAIN R.obj : SameFace(Ref(R, o).obj[p], R.obj[p])
  BY <1>1, RefIs DEF SameFace
<1> QED  BY <1>2, RefIs, SameViews, ZenonT(30)

\* Dropping a reference changes nothing that a uuid finds.
LEMMA DerefViews ==
    ASSUME NEW R \in Registry, NEW F, IndexAll(R, F), NEW o \in {0} \cup DOMAIN R.obj, NEW v \in Uuid
    PROVE  SameView(Deref(R, o), R, v)
<1>1. \A p \in DOMAIN R.obj : SameFace(Dropped(R.obj[p]), R.obj[p])  BY Indexes, DroppedIs, ZenonT(30)
<1>2. \A p \in DOMAIN R.obj : SameFace(Deref(R, o).obj[p], R.obj[p])
  BY <1>1, DerefIs, Zenon DEF SameFace
<1> QED  BY <1>2, DerefIs, SameViews, Zenon

\* The checks that stay listed look as before.
LEMMA UnlistViews ==
    ASSUME NEW R \in Registry, NEW S \in SUBSET Uuid, NEW F, IndexAll(R, F),
           \A u \in S : R.polls[u] # 0
    PROVE  /\ \A v \in S : Unlist(R, S).polls[v] = 0
           /\ \A v \in Uuid \ S : SameView(Unlist(R, S), R, v)
<1>1. PICK Q : Q = Unlist(R, S)  BY Zenon
<1>2. /\ DOMAIN Q.obj = DOMAIN R.obj
      /\ \A u \in Uuid : Q.polls[u] = IF u \in S THEN 0 ELSE R.polls[u]
      /\ \A o \in DOMAIN R.obj : Q.obj[o] = IF Gone(R, S, o) THEN Unlisted(R.obj[o]) ELSE R.obj[o]
  <2>1. \A o \in DOMAIN R.obj : Unlisted(R.obj[o]) \in Object  BY UnlistedType, Indexes, Zenon
  <2> QED  BY <1>1, <2>1, UnlistIs, SMTT(30)
<1>3. ASSUME NEW v \in Uuid \ S PROVE SameView(Q, R, v)
  <2>1. \A o \in DOMAIN R.obj : R.obj[o].u = v => SameFace(Q.obj[o], R.obj[o])
    BY <1>2, Zenon DEF Gone, SameFace
  <2> QED  BY <1>2, <2>1, SameViews, Zenon
<1> QED  BY <1>1, <1>2, <1>3, Zenon

\* Descheduling a check leaves the others, and leaves of it nothing or a tombstone.
LEMMA DescheduleViews ==
    ASSUME NEW R \in Registry, NEW u \in Uuid, NEW b \in BOOLEAN, NEW F, IndexAll(R, F)
    PROVE  LET Q == Deschedule(R, u, b)
           IN /\ \A v \in Uuid \ {u} : SameView(Q, R, v)
              /\ IF R.polls[u] # 0 /\ R.obj[R.polls[u]].seq # 0 /\ ~b
                 THEN /\ Q.polls[u] = R.polls[u]
                      /\ Q.obj[R.polls[u]].deleted
                      /\ Q.obj[R.polls[u]].seq = R.obj[R.polls[u]].seq
                 ELSE Q.polls[u] = 0
<1>1. CASE R.polls[u] = 0
  <2>1. Deschedule(R, u, b) = R  BY <1>1, Zenon DEF Deschedule
  <2> QED  BY <1>1, <2>1, Zenon DEF SameView, SameFace
<1>2. CASE R.polls[u] # 0 /\ R.obj[R.polls[u]].seq # 0 /\ ~b
  <2>1. PICK o : o = R.polls[u]  BY Zenon
  <2>2. o \in DOMAIN R.obj /\ R.obj[o] \in Object /\ R.obj[o].u = u
    BY <1>2, <2>1, Indexes, Zenon DEF IndexAll
  <2>3. PICK ob : ob = Held(Flagged(R.obj[o]))  BY Zenon
  <2>4. ob \in Object /\ ob.deleted /\ ob.seq = R.obj[o].seq
    BY <2>2, <2>3, HeldIs, FlaggedIs, Zenon DEF SameFace
  <2>5. Deschedule(R, u, b) = [R EXCEPT !.obj[o] = ob]
    BY <1>2, <2>1, <2>3, Zenon DEF Deschedule
  <2>6. PICK Q : Q = Deschedule(R, u, b)  BY Zenon
  <2>7. /\ Q.polls = R.polls
        /\ \A p \in DOMAIN R.obj : Q.obj[p] = IF p = o THEN ob ELSE R.obj[p]
    BY <2>2, <2>4, <2>5, <2>6, ObjectSet
  <2>8. ASSUME NEW v \in Uuid \ {u} PROVE SameView(Q, R, v)
    <3>1. \A p \in DOMAIN R.obj : R.obj[p].u = v => SameFace(Q.obj[p], R.obj[p])
      BY <2>2, <2>7, Zenon DEF SameFace
    <3> QED  BY <2>7, <3>1, SameViews, ZenonT(30)
  <2> QED  BY <1>2, <2>1, <2>2, <2>4, <2>6, <2>7, <2>8, Zenon
<1>3. CASE R.polls[u] # 0 /\ ~(R.obj[R.polls[u]].seq # 0 /\ ~b)
  <2>1. Deschedule(R, u, b) = Unlist(R, {u})  BY <1>3, Zenon DEF Deschedule
  <2>2. \A v \in {u} : R.polls[v] # 0  BY <1>3, Zenon
  <2>3. /\ Unlist(R, {u}).polls[u] = 0
        /\ \A v \in Uuid \ {u} : SameView(Unlist(R, {u}), R, v)
    BY <2>2, UnlistViews, Zenon
  <2> QED  BY <1>3, <2>1, <2>3, ZenonT(30)
<1> QED  BY <1>1, <1>2, <1>3, ZenonT(30)

\* A request goes on, alone, and the other checks stay as they are.
LEMMA MemoryStep ==
    ASSUME RegistryInv, MemoryInv, NEW t \in Thread, NEW x \in Work, NEW u \in Uuid,
           thr' = [thr EXCEPT ![t] = x], rec' = rec, Alone(t),
           \A v \in Uuid \ {u} : Matched(db, reg, v),
           \A v \in Uuid \ {u} : SameView(reg', reg, v) /\ db'[v] = db[v],
           x.pc # "idle" => x.u = u /\ AtWork(x, db', reg'),
           x.pc = "idle" => Matched(db', reg', u)
    PROVE  MemoryInv'
<1>1. thr \in [Thread -> Work]  BY Known, Zenon
<1>2. thr'[t] = x /\ \A s \in Thread \ {t} : thr'[s] = thr[s] /\ thr'[s].pc = "idle"
  BY <1>1, ZenonT(30) DEF Alone
<1>3. \A v \in Uuid \ {u} : Matched(db', reg', v)  BY MatchedStill, Zenon
<1>4. rec'.pc = "idle"  BY Zenon DEF Alone
<1>5. ASSUME NEW s \in Thread, thr'[s].pc # "idle"
      PROVE  /\ Alone(s)'
             /\ \A v \in Uuid \ {thr'[s].u} : Matched(db', reg', v)
             /\ AtWork(thr'[s], db', reg')
  <2>1. s = t  BY <1>2, <1>5, ZenonT(30)
  <2> QED  BY <1>2, <1>3, <1>4, <1>5, <2>1, Zenon DEF Alone
<1>6. ASSUME Quiet' PROVE \A v \in Uuid : Matched(db', reg', v)
  <2>1. x.pc = "idle"  BY <1>2, <1>6, Zenon DEF Quiet
  <2> QED  BY <1>3, <2>1, Zenon
<1>7. rec' \in [pc : {"idle", "purge"}, todo : SUBSET Uuid]  BY Zenon DEF MemoryInv
<1> QED  BY <1>4, <1>5, <1>6, <1>7, Zenon DEF MemoryInv

\* What is known of a request at work.
LEMMA Working ==
    ASSUME RegistryInv, MemoryInv, NEW t \in Thread, thr[t].pc # "idle"
    PROVE  /\ Alone(t) /\ thr[t].u \in Uuid /\ AtWork(thr[t], db, reg)
           /\ \A v \in Uuid \ {thr[t].u} : Matched(db, reg, v)
           /\ thr[t] \in Work /\ WorkOK(thr[t]) /\ Knows(thr[t], reg)
           /\ thr \in [Thread -> Work]
           /\ reg \in Registry /\ IndexAll(reg, Filled) /\ RowsNamed(db)
BY InvIs, Zenon DEF MemoryInv, WorkOK

\* The request goes on with its own check.
LEMMA WorkStep ==
    ASSUME RegistryInv, MemoryInv, NEW t \in Thread, thr[t].pc # "idle", NEW x \in Work,
           thr' = [thr EXCEPT ![t] = x], rec' = rec, x.u = thr[t].u, x.pc # "idle",
           \A v \in Uuid \ {thr[t].u} : SameView(reg', reg, v) /\ db'[v] = db[v],
           AtWork(x, db', reg')
    PROVE  MemoryInv'
<1>1. /\ Alone(t) /\ thr[t].u \in Uuid /\ \A v \in Uuid \ {thr[t].u} : Matched(db, reg, v)
  BY Working, ZenonT(30)
<1> QED  BY <1>1, MemoryStep, Zenon

\* Nothing changed but the place and the notes of the request.
LEMMA WorkNote ==
    ASSUME RegistryInv, MemoryInv, NEW t \in Thread, thr[t].pc # "idle", NEW x \in Work,
           thr' = [thr EXCEPT ![t] = x], UNCHANGED <<rec, reg, db>>, x.u = thr[t].u, x.pc # "idle",
           AtWork(x, db, reg)
    PROVE  MemoryInv'
<1>1. \A v \in Uuid : SameView(reg', reg, v) /\ db'[v] = db[v]  BY Zenon DEF SameView, SameFace
<1> QED  BY <1>1, WorkStep, ZenonT(30)

\* A request that begins finds everything settled.
LEMMA Beginning ==
    ASSUME RegistryInv, MemoryInv, Overlap = "none", NEW t \in Thread, MayAsk(t)
    PROVE  /\ Alone(t) /\ \A v \in Uuid : Matched(db, reg, v)
           /\ thr[t] \in Work /\ thr[t].pc = "idle" /\ thr \in [Thread -> Work]
           /\ reg \in Registry /\ IndexAll(reg, Filled) /\ RowsNamed(db)
<1>1. Quiet /\ rec.pc = "idle" /\ thr[t].pc = "idle"  BY Zenon DEF MayAsk, At
<1> QED  BY <1>1, InvIs, Zenon DEF MemoryInv, Quiet, Alone

\* A set begins, when everything is settled.
LEMMA SetLookupMemory ==
    ASSUME RegistryInv, MemoryInv, Overlap = "none", NEW t \in Thread, SetLookup(t)
    PROVE  MemoryInv'
<1>1. /\ Alone(t) /\ \A v \in Uuid : Matched(db, reg, v)
      /\ thr[t] \in Work /\ reg \in Registry /\ IndexAll(reg, Filled)
  BY Beginning, Zenon DEF SetLookup
<1>2. PICK a \in Asks :
        /\ reg' = Ref(reg, reg.polls[a.u])
        /\ thr' = [thr EXCEPT ![t] = [thr[t] EXCEPT !.pc = "set_in_db", !.u = a.u, !.ask = a,
                                                    !.outer = reg.polls[a.u]]]
  BY Zenon DEF SetLookup, Become
<1>3. PICK o : o = reg.polls[a.u]  BY Zenon
<1>4. a.u \in Uuid /\ o \in Nat /\ o \in {0} \cup DOMAIN reg.obj
  BY <1>1, <1>3, AskedName, Indexes, Zenon DEF IndexAll
<1>5. PICK x : x = [thr[t] EXCEPT !.pc = "set_in_db", !.u = a.u, !.ask = a, !.outer = o]  BY Zenon
<1>6. x \in Work /\ x.pc = "set_in_db" /\ x.u = a.u /\ x.outer = o
  BY <1>1, <1>4, <1>5, Zenon DEF Work, Places, Asking
<1>7. thr' = [thr EXCEPT ![t] = x]  BY <1>2, <1>3, <1>5, Zenon
<1>8. \A v \in Uuid : SameView(reg', reg, v)  BY <1>1, <1>2, <1>3, <1>4, RefViews, Zenon
<1>9. db' = db /\ rec' = rec  BY Zenon DEF SetLookup
<1>10. Matched(db', reg', a.u) /\ reg'.polls[a.u] = o
  BY <1>1, <1>3, <1>4, <1>8, <1>9, MatchedStill, Zenon DEF SameView
<1>11. AtWork(x, db', reg')
  BY <1>6, <1>10, Zenon DEF AtWork, Settled, Loading, Filling, Fetching
<1> QED  BY <1>1, <1>4, <1>6, <1>7, <1>8, <1>9, <1>11, MemoryStep, Zenon

\* A set that goes to a reload at once finds a row and no check.
LEMMA SetInDbMemory ==
    ASSUME RegistryInv, MemoryInv, NEW t \in Thread, SetInDb(t)
    PROVE  MemoryInv'
<1>1. thr[t].pc = "set_in_db"  BY Zenon DEF SetInDb, At
<1>2. /\ thr[t] \in Work /\ AtWork(thr[t], db, reg) /\ thr[t].u \in Uuid
      /\ reg \in Registry /\ IndexAll(reg, Filled) /\ RowsNamed(db)
  BY <1>1, Working, Zenon
<1>3. Matched(db, reg, thr[t].u) /\ thr[t].outer = reg.polls[thr[t].u]
  BY <1>1, <1>2, Zenon DEF AtWork, Settled, Asking
<1>4. PICK b \in BOOLEAN : b = (db[thr[t].u] # None)  BY Zenon
<1>5. PICK p : p = CASE ~b /\ thr[t].outer # 0 -> "end"
                     [] b /\ ~(thr[t].outer # 0) -> "load"
                     [] OTHER -> "set_dup"
  BY Zenon
<1>6. p \in {"end", "load", "set_dup"} /\ (p = "load" => thr[t].outer = 0)  BY <1>5, Zenon
<1>7. PICK x : x = [thr[t] EXCEPT !.indb = b, !.pc = p]  BY Zenon
<1>8. thr' = [thr EXCEPT ![t] = x]
  BY <1>4, <1>5, <1>7, Zenon DEF SetInDb, Become
<1>9. x \in Work /\ x.pc = p /\ x.outer = thr[t].outer /\ x.u = thr[t].u /\ x.indb = b
  BY <1>2, <1>6, <1>7, Zenon DEF Work, Places, Asking
<1>10. p = "load" => NotAhead(db, reg, thr[t].u)
  BY <1>3, <1>6, Zenon DEF NotAhead
<1>11. AtWork(x, db, reg)
  BY <1>3, <1>4, <1>6, <1>9, <1>10, Zenon DEF AtWork, Settled, Asking, Loading, Filling, Fetching
<1> QED  BY <1>1, <1>6, <1>8, <1>9, <1>11, WorkNote, Zenon DEF SetInDb

\* A refused set leaves everything settled.
LEMMA SetDupMemory ==
    ASSUME RegistryInv, MemoryInv, NEW t \in Thread, SetDup(t)
    PROVE  MemoryInv'
<1>1. thr[t].pc = "set_dup"  BY Zenon DEF SetDup, At
<1>2. AtWork(thr[t], db, reg)  BY <1>1, Working, Zenon
<1>3. PICK p \in {"set_read", "end"} : Goto(t, p)  BY Zenon DEF SetDup
<1>4. PICK x \in Work : /\ thr' = [thr EXCEPT ![t] = x] /\ x.pc = p /\ x.u = thr[t].u
                        /\ x.outer = thr[t].outer /\ x.indb = thr[t].indb
  BY <1>3, GotoIs DEF Places, Asking
<1>5. AtWork(x, db, reg)
  BY <1>1, <1>2, <1>4, Zenon DEF AtWork, Settled, Asking, Loading, Filling, Fetching
<1> QED  BY <1>1, <1>4, <1>5, WorkNote, Zenon DEF SetDup

\* The number that a set reads is that of the row.
LEMMA SetReadMemory ==
    ASSUME RegistryInv, MemoryInv, NEW t \in Thread, SetRead(t)
    PROVE  MemoryInv'
<1>1. thr[t].pc = "set_read"  BY Zenon DEF SetRead, At
<1>2. AtWork(thr[t], db, reg) /\ thr[t] \in Work /\ thr[t].u \in Uuid /\ RowsNamed(db)
  BY <1>1, Working, Zenon
<1>3. Matched(db, reg, thr[t].u) /\ (thr[t].indb <=> db[thr[t].u] # None)
  BY <1>1, <1>2, Zenon DEF AtWork, Settled, Asking
<1>4. PICK o \in Nat : o = IF thr[t].indb /\ db[thr[t].u] # None THEN db[thr[t].u].seq ELSE 0
  BY <1>2, Zenon DEF RowsNamed, Row
<1>5. PICK b \in BOOLEAN : b = (db[thr[t].u] # None /\ db[thr[t].u].deleted)  BY Zenon
<1>6. PICK x : x = [thr[t] EXCEPT !.pc = "set_write", !.old = o, !.snap = b]  BY Zenon
<1>7. x \in Work /\ x.pc = "set_write" /\ x.u = thr[t].u /\ x.old = o
  BY <1>2, <1>6, Zenon DEF Work, Places, Asking
<1>8. thr' = [thr EXCEPT ![t] = x]  BY <1>4, <1>5, <1>6, Zenon DEF SetRead, Become
<1>9. AtWork(x, db, reg)
  BY <1>3, <1>4, <1>7, Zenon DEF AtWork, Loading, Filling, Fetching
<1> QED  BY <1>1, <1>7, <1>8, <1>9, WorkNote, Zenon DEF SetRead

\* A row is not None.
LEMMA RowIs ==
    ASSUME NEW r \in Row
    PROVE  r # None
BY RegistryConstants, Zenon DEF Row, AnyName

\* A request writes a row that is not older than what memory has.
LEMMA RowWritten ==
    ASSUME RegistryInv, MemoryInv, NEW t \in Thread, thr[t].pc # "idle", NEW r \in Row,
           Goto(t, "load"), UNCHANGED <<rec, reg>>, db' = [db EXCEPT ![thr[t].u] = r],
           reg.polls[thr[t].u] # 0 => reg.obj[reg.polls[thr[t].u]].seq <= r.seq
    PROVE  MemoryInv'
<1>1. thr[t].u \in Uuid /\ RowsNamed(db)  BY Working, Zenon
<1>2. db'[thr[t].u] = r /\ \A v \in Uuid \ {thr[t].u} : db'[v] = db[v]
  BY <1>1, Zenon DEF RowsNamed
<1>3. \A v \in Uuid : SameView(reg', reg, v)  BY ZenonT(30) DEF SameView, SameFace
<1>4. PICK x \in Work : thr' = [thr EXCEPT ![t] = x] /\ x.pc = "load" /\ x.u = thr[t].u
  BY GotoIs, SMTT(30) DEF Places
<1>5. NotAhead(db', reg', thr[t].u)  BY <1>2, RowIs, Zenon DEF NotAhead
<1>6. AtWork(x, db', reg')
  BY <1>4, <1>5, Zenon DEF AtWork, Settled, Asking, Loading, Filling, Fetching
<1> QED  BY <1>2, <1>3, <1>4, <1>6, WorkStep, Zenon

\* The row a set writes is newer than what memory has.
LEMMA SetWriteMemory ==
    ASSUME RegistryInv, MemoryInv, NEW t \in Thread, SetWrite(t)
    PROVE  MemoryInv'
<1>1. thr[t].pc = "set_write"  BY Zenon DEF SetWrite, At
<1>2. /\ AtWork(thr[t], db, reg) /\ thr[t] \in Work /\ thr[t].u \in Uuid /\ RowsNamed(db)
      /\ WorkOK(thr[t]) /\ reg \in Registry /\ IndexAll(reg, Filled)
  BY <1>1, Working, Zenon
<1>3. /\ Matched(db, reg, thr[t].u)
      /\ thr[t].old = IF db[thr[t].u] # None THEN db[thr[t].u].seq ELSE 0
      /\ thr[t].ask \in Asks
  BY <1>1, <1>2, Zenon DEF AtWork, Settled, Asking, WorkOK
<1>4. CASE thr[t].old # 0 /\ thr[t].old >= thr[t].ask.seq
  <2>1. Goto(t, "end") /\ UNCHANGED <<rec, reg, db>>  BY <1>4, Zenon DEF SetWrite
  <2>2. PICK x \in Work : thr' = [thr EXCEPT ![t] = x] /\ x.pc = "end" /\ x.u = thr[t].u
    BY <2>1, GotoIs DEF Places
  <2>3. AtWork(x, db, reg)
    BY <1>3, <2>2, Zenon DEF AtWork, Loading, Filling, Fetching
  <2> QED  BY <1>1, <2>1, <2>2, <2>3, WorkNote, Zenon
<1>5. CASE ~(thr[t].old # 0 /\ thr[t].old >= thr[t].ask.seq)
  <2>1. PICK b \in BOOLEAN : b = (db[thr[t].u] # None /\ db[thr[t].u].deleted /\ ~thr[t].snap)
    BY Zenon
  <2>2. PICK r : r = [name |-> thr[t].ask.name, seq |-> thr[t].ask.seq, deleted |-> b]  BY Zenon
  <2>3. r \in Row /\ r.seq = thr[t].ask.seq /\ r.seq \in Nat  BY <1>3, <2>2, AskedName, Zenon DEF Row
  <2>4. db' = [db EXCEPT ![thr[t].u] = r] /\ Goto(t, "load") /\ UNCHANGED <<rec, reg>>
    BY <1>5, <2>1, <2>2, Zenon DEF SetWrite
  <2>5. ASSUME reg.polls[thr[t].u] # 0 PROVE reg.obj[reg.polls[thr[t].u]].seq <= r.seq
    <3>1. db[thr[t].u] # None /\ db[thr[t].u] \in Row  BY <1>2, <1>3, <2>5, Zenon DEF Matched, RowsNamed
    <3>2. reg.obj[reg.polls[thr[t].u]].seq = db[thr[t].u].seq
      BY <1>3, <2>5, <3>1, ZenonT(30) DEF Matched
    <3>3. db[thr[t].u].seq \in Nat /\ thr[t].old = db[thr[t].u].seq  BY <1>3, <3>1, Zenon DEF Row
    <3> QED  BY <1>5, <2>3, <3>2, <3>3
  <2> QED  BY <1>1, <2>3, <2>4, <2>5, RowWritten, Zenon
<1> QED  BY <1>4, <1>5, Zenon

\* The row a peer sent is newer than what memory has.
LEMMA ReplWriteMemory ==
    ASSUME RegistryInv, MemoryInv, NEW t \in Thread, ReplWrite(t)
    PROVE  MemoryInv'
<1>1. thr[t].pc = "repl_write"  BY Zenon DEF ReplWrite, At
<1>2. /\ AtWork(thr[t], db, reg) /\ thr[t].u \in Uuid /\ WorkOK(thr[t])
      /\ reg \in Registry /\ IndexAll(reg, Filled)
  BY <1>1, Working, Zenon
<1>3. thr[t].ask \in Peer /\ thr[t].ask.u = thr[t].u  BY <1>1, <1>2, Zenon DEF WorkOK, Fetching
<1>4. PICK r : r = [name |-> thr[t].ask.name, seq |-> thr[t].ask.seq, deleted |-> thr[t].ask.deleted]
  BY Zenon
<1>5. r \in Row /\ r.seq = thr[t].ask.seq /\ r.seq \in Nat
  <2>1. thr[t].ask.deleted \in BOOLEAN  BY <1>3, RegistryConstants, Zenon
  <2> QED  BY <1>3, <1>4, <2>1, AskedName, Zenon DEF Row
<1>6. db' = [db EXCEPT ![thr[t].u] = r] /\ Goto(t, "load") /\ UNCHANGED <<rec, reg>>
  BY <1>3, <1>4, ZenonT(30) DEF ReplWrite
<1>7. ASSUME reg.polls[thr[t].u] # 0 PROVE reg.obj[reg.polls[thr[t].u]].seq <= r.seq
  <2>1. reg.obj[reg.polls[thr[t].u]].seq < r.seq  BY <1>1, <1>2, <1>5, <1>7, Zenon DEF AtWork, Fetching
  <2>2. reg.obj[reg.polls[thr[t].u]] \in Object  BY <1>2, <1>7, Indexes, Zenon DEF IndexAll
  <2> QED  BY <1>5, <2>1, <2>2, SMTT(30) DEF Object
<1> QED  BY <1>1, <1>5, <1>6, <1>7, RowWritten, Zenon

\* A reload takes the row as it is.
LEMMA LoadBeginMemory ==
    ASSUME RegistryInv, MemoryInv, NEW t \in Thread, LoadBegin(t)
    PROVE  MemoryInv'
<1>1. thr[t].pc = "load" /\ UNCHANGED <<rec, reg, db>>  BY Zenon DEF LoadBegin, At
<1>2. AtWork(thr[t], db, reg) /\ thr[t] \in Work /\ thr[t].u \in Uuid /\ RowsNamed(db)
  BY <1>1, Working, Zenon
<1>3. NotAhead(db, reg, thr[t].u)  BY <1>1, <1>2, Zenon DEF AtWork
<1>4. CASE db[thr[t].u] = None
  <2>1. PICK x \in Work : thr' = [thr EXCEPT ![t] = x] /\ x.pc = "end" /\ x.u = thr[t].u
    BY <1>4, GotoIs DEF LoadBegin, Places
  <2>2. Matched(db, reg, thr[t].u)  BY <1>3, <1>4, Zenon DEF NotAhead, Matched
  <2>3. AtWork(x, db, reg)  BY <2>1, <2>2, Zenon DEF AtWork, Loading, Filling, Fetching
  <2> QED  BY <1>1, <2>1, <2>3, WorkNote, Zenon
<1>5. CASE db[thr[t].u] # None
  <2>1. db[thr[t].u] \in Row  BY <1>2, <1>5, Zenon DEF RowsNamed
  <2>2. PICK x : x = [thr[t] EXCEPT !.pc = "load_inherit", !.row = db[thr[t].u]]  BY Zenon
  <2>3. x \in Work /\ x.pc = "load_inherit" /\ x.u = thr[t].u /\ x.row = db[thr[t].u]
    BY <1>2, <2>1, <2>2, Zenon DEF Work, Places, Loading
  <2>4. thr' = [thr EXCEPT ![t] = x]  BY <1>5, <2>2, Zenon DEF LoadBegin, Become
  <2>5. AtWork(x, db, reg)
    BY <1>3, <2>3, Zenon DEF AtWork, Settled, Asking, Loading, Filling, Fetching
  <2> QED  BY <1>1, <2>3, <2>4, <2>5, WorkNote, Zenon
<1> QED  BY <1>4, <1>5, Zenon

\* Reading the inherited configuration changes neither memory nor rows.
LEMMA LoadInheritMemory ==
    ASSUME RegistryInv, MemoryInv, NEW t \in Thread, LoadInherit(t)
    PROVE  MemoryInv'
<1>1. thr[t].pc = "load_inherit" /\ UNCHANGED <<rec, reg, db>>  BY Zenon DEF LoadInherit, At
<1>2. AtWork(thr[t], db, reg)  BY <1>1, Working, Zenon
<1>3. PICK x \in Work : /\ thr' = [thr EXCEPT ![t] = x] /\ x.pc = "load_find" /\ x.u = thr[t].u
                        /\ x.row = thr[t].row
  BY GotoIs DEF LoadInherit, Places, Loading
<1>4. AtWork(x, db, reg)
  BY <1>1, <1>2, <1>3, Zenon DEF AtWork, Settled, Asking, Loading, Filling, Fetching
<1> QED  BY <1>1, <1>3, <1>4, WorkNote, Zenon

\* A reload never finds a check that is newer than its row.
LEMMA LoadFindMemory ==
    ASSUME RegistryInv, MemoryInv, NEW t \in Thread, LoadFind(t)
    PROVE  MemoryInv'
<1>1. thr[t].pc = "load_find" /\ UNCHANGED <<rec, db>>  BY Zenon DEF LoadFind, At
<1>2. /\ AtWork(thr[t], db, reg) /\ thr[t] \in Work /\ thr[t].u \in Uuid /\ WorkOK(thr[t])
      /\ reg \in Registry /\ IndexAll(reg, Filled)
  BY <1>1, Working, Zenon
<1>3. NotAhead(db, reg, thr[t].u) /\ db[thr[t].u] = thr[t].row /\ thr[t].row \in Row
  BY <1>1, <1>2, Zenon DEF AtWork, Loading, WorkOK
<1>4. PICK o : o = reg.polls[thr[t].u]  BY Zenon
<1>5. o \in Nat /\ o \in {0} \cup DOMAIN reg.obj /\ (o # 0 => reg.obj[o] \in Object)
  BY <1>2, <1>4, Indexes, Zenon DEF IndexAll
<1>6. PICK p : p = CASE o = 0 -> "sched"
                     [] o # 0 /\ reg.obj[o].seq > thr[t].row.seq -> "load_drop"
                     [] OTHER -> "load_replace"
  BY Zenon
<1>7. p \in {"sched", "load_replace"}
  <2>1. o # 0 => ~(reg.obj[o].seq > thr[t].row.seq)
    <3>1. ASSUME o # 0 PROVE ~(reg.obj[o].seq > thr[t].row.seq)
      <4>1. db[thr[t].u] # None  BY <1>3, RowIs, Zenon
      <4>2. reg.obj[o].seq <= thr[t].row.seq  BY <1>3, <1>4, <3>1, <4>1, Zenon DEF NotAhead
      <4>3. reg.obj[o].seq \in Nat /\ thr[t].row.seq \in Nat  BY <1>3, <1>5, <3>1, Zenon DEF Object, Row
      <4> QED  BY <4>2, <4>3, NotGreater, Zenon
    <3> QED  BY <3>1, Zenon
  <2> QED  BY <1>6, <2>1, Zenon
<1>8. PICK x : x = [thr[t] EXCEPT !.found = o, !.pc = p]  BY Zenon
<1>9. x \in Work /\ x.pc = p /\ x.u = thr[t].u /\ x.row = thr[t].row
  BY <1>2, <1>5, <1>7, <1>8, Zenon DEF Work, Places, Loading
<1>10. thr' = [thr EXCEPT ![t] = x]
  BY <1>4, <1>6, <1>8, Zenon DEF LoadFind, Become
<1>11. reg' = Ref(reg, o)  BY <1>4, Zenon DEF LoadFind
<1>12. \A v \in Uuid : SameView(reg', reg, v)  BY <1>2, <1>5, <1>11, RefViews, Zenon
<1>13. AtWork(x, db', reg')
  BY <1>1, <1>3, <1>7, <1>9, Zenon DEF AtWork, Settled, Asking, Loading, Filling, Fetching
<1> QED  BY <1>1, <1>7, <1>9, <1>10, <1>12, <1>13, WorkStep, Zenon

\* A reload takes the old check, and no other, out of memory.
LEMMA LoadDescheduleMemory ==
    ASSUME RegistryInv, MemoryInv, NEW t \in Thread, LoadDeschedule(t)
    PROVE  MemoryInv'
<1>1. thr[t].pc \in {"load_drop", "load_replace"} /\ UNCHANGED <<rec, db>>  BY Zenon DEF LoadDeschedule, At
<1>2. /\ AtWork(thr[t], db, reg) /\ thr[t].u \in Uuid
      /\ reg \in Registry /\ IndexAll(reg, Filled)
  BY <1>1, Working, Zenon
<1>3. thr[t].pc = "load_replace" /\ db[thr[t].u] = thr[t].row
  BY <1>1, <1>2, Zenon DEF AtWork, Loading
<1>4. PICK x \in Work : thr' = [thr EXCEPT ![t] = x] /\ x.pc = "sched" /\ x.u = thr[t].u
                          /\ x.row = thr[t].row
  <2>1. Goto(t, "sched")  BY <1>3, Zenon DEF LoadDeschedule
  <2>2. "sched" \in Places  BY Zenon DEF Places, Loading
  <2> QED  BY <2>1, <2>2, GotoIs, SMTT(30)
<1>5. \A v \in Uuid \ {thr[t].u} : SameView(reg', reg, v)
  BY <1>2, DescheduleViews, Zenon DEF LoadDeschedule
<1>6. AtWork(x, db', reg')
  BY <1>1, <1>3, <1>4, Zenon DEF AtWork, Settled, Asking, Loading, Filling, Fetching
<1> QED  BY <1>1, <1>4, <1>5, <1>6, WorkStep, Zenon

\* The new object is made of the row.
LEMMA ScheduleMemory ==
    ASSUME RegistryInv, MemoryInv, NamesApart, ~HostNames, NEW t \in Thread, Schedule(t)
    PROVE  MemoryInv'
<1>1. thr[t].pc = "sched" /\ UNCHANGED <<rec, db>>  BY Zenon DEF Schedule, At
<1>2. /\ AtWork(thr[t], db, reg) /\ thr[t] \in Work /\ thr[t].u \in Uuid
      /\ reg \in Registry /\ IndexAll(reg, Filled)
  BY <1>1, Working, Zenon
<1>3. db[thr[t].u] = thr[t].row  BY <1>1, <1>2, Zenon DEF AtWork, Loading
<1>4. PICK n, e : Scheduled(n, e, thr[t].u, thr[t].row)  BY ScheduleIs, Zenon
<1>5. /\ n = Len(reg.obj) + 1 /\ n \in Nat /\ reg'.polls = reg.polls
      /\ \A o \in DOMAIN reg.obj : reg'.obj[o] = reg.obj[o]
      /\ reg'.obj[n] = Held(e) /\ e \in Object /\ e = NewObject(thr[t].u, thr[t].row)
  BY <1>4, Zenon DEF Scheduled
<1>6. \A v \in Uuid : SameView(reg', reg, v)
  BY <1>2, <1>5, Zenon DEF SameView, SameFace, IndexAll
<1>7. PICK x : x = [thr[t] EXCEPT !.n = n, !.pc = "update"]  BY Zenon
<1>8. x \in Work /\ x.pc = "update" /\ x.n = n /\ x.u = thr[t].u /\ x.row = thr[t].row
  BY <1>2, <1>5, <1>7, Zenon DEF Work, Places, Loading
<1>9. thr' = [thr EXCEPT ![t] = x]  BY <1>5, <1>7, Zenon DEF Schedule, Become
<1>10. MadeOf(reg'.obj[n], thr[t].row)
  <2>1. MadeOf(e, thr[t].row)  BY <1>5, ZenonT(30) DEF MadeOf, NewObject
  <2>2. SameFace(Held(e), e)  BY <1>5, HeldIs, Zenon
  <2> QED  BY <1>5, <2>1, <2>2, Zenon DEF MadeOf, SameFace
<1>11. AtWork(x, db', reg')
  BY <1>1, <1>3, <1>8, <1>10, Zenon DEF AtWork, Settled, Asking, Loading, Filling, Fetching
<1> QED  BY <1>1, <1>6, <1>8, <1>9, <1>11, WorkStep, Zenon

\* The new object is enabled.
LEMMA UpdateCheckMemory ==
    ASSUME RegistryInv, MemoryInv, NEW t \in Thread, UpdateCheck(t)
    PROVE  MemoryInv'
<1>1. thr[t].pc = "update" /\ UNCHANGED <<rec, db>>  BY Zenon DEF UpdateCheck, At
<1>2. /\ AtWork(thr[t], db, reg) /\ thr[t] \in Work /\ thr[t].u \in Uuid
      /\ reg \in Registry /\ IndexAll(reg, Filled)
  BY <1>1, Working, Zenon
<1>3. db[thr[t].u] = thr[t].row /\ MadeOf(reg.obj[thr[t].n], thr[t].row)
  BY <1>1, <1>2, Zenon DEF AtWork, Loading, Filling
<1>4. PICK o, d : o = thr[t].n /\ Updated(o, d)  BY UpdateIs, Zenon
<1>5. /\ o \in DOMAIN reg.obj /\ d \in Object /\ reg' = [reg EXCEPT !.obj[o] = d]
      /\ d.name = reg.obj[o].name /\ d.seq = reg.obj[o].seq /\ d.deleted = reg.obj[o].deleted
      /\ ~d.disabled
  BY <1>4, Zenon DEF Updated
<1>6. /\ reg'.polls = reg.polls
      /\ \A p \in DOMAIN reg.obj : reg'.obj[p] = IF p = o THEN d ELSE reg.obj[p]
  BY <1>2, <1>5, ObjectSet, SMTT(30)
<1>7. reg.obj[o].u = thr[t].u
  <2>1. thr[t].pc \in Filling  BY <1>1, Zenon DEF Filling
  <2> QED  BY <1>4, <2>1, FilledIs, Zenon
<1>8. ASSUME NEW v \in Uuid \ {thr[t].u} PROVE SameView(reg', reg, v)
  <2>1. \A p \in DOMAIN reg.obj : reg.obj[p].u = v => SameFace(reg'.obj[p], reg.obj[p])
    BY <1>6, <1>7, Zenon DEF SameFace
  <2> QED  BY <1>2, <1>6, <2>1, SameViews, ZenonT(30)
<1>9. PICK x \in Work : /\ thr' = [thr EXCEPT ![t] = x] /\ x.pc = "replace" /\ x.u = thr[t].u
                        /\ x.row = thr[t].row /\ x.n = thr[t].n
  <2>1. Goto(t, "replace")  BY Zenon DEF UpdateCheck
  <2>2. "replace" \in Places  BY Zenon DEF Places, Loading
  <2> QED  BY <2>1, <2>2, GotoIs, SMTT(30)
<1>10. reg'.obj[o] = d  BY <1>5, <1>6, Zenon
<1>11. MadeOf(reg'.obj[x.n], x.row) /\ ~reg'.obj[x.n].disabled
  BY <1>3, <1>4, <1>5, <1>9, <1>10, Zenon DEF MadeOf
<1>12. AtWork(x, db', reg')
  BY <1>1, <1>3, <1>9, <1>11, Zenon DEF AtWork, Settled, Asking, Loading, Filling, Fetching
<1> QED  BY <1>1, <1>8, <1>9, <1>12, WorkStep, Zenon

\* When the new object enters the index by uuid, it is what a live row asks for.
LEMMA ReplaceMemory ==
    ASSUME RegistryInv, MemoryInv, NEW t \in Thread, Replace(t)
    PROVE  MemoryInv'
<1>1. thr[t].pc = "replace" /\ UNCHANGED <<rec, db>>  BY Zenon DEF Replace, At
<1>2. /\ AtWork(thr[t], db, reg) /\ thr[t].u \in Uuid /\ WorkOK(thr[t])
      /\ reg \in Registry /\ IndexAll(reg, Filled)
  BY <1>1, Working, Zenon
<1>3. /\ db[thr[t].u] = thr[t].row /\ MadeOf(reg.obj[thr[t].n], thr[t].row)
      /\ ~reg.obj[thr[t].n].disabled /\ thr[t].row \in Row
  BY <1>1, <1>2, Zenon DEF AtWork, Loading, Filling, WorkOK
<1>4. PICK n, u, row : n = thr[t].n /\ u = thr[t].u /\ row = thr[t].row  BY Zenon
<1>5. Replaced(n, u)  BY <1>4, ReplaceIs, Zenon
<1>6. /\ n \in DOMAIN reg.obj /\ n # 0 /\ reg.obj[n] \in Object /\ reg.obj[n].u = u
      /\ \A o \in DOMAIN reg.obj : reg'.obj[o] = IF o = n THEN Dropped(reg.obj[o]) ELSE reg.obj[o]
      /\ \A v \in Uuid : reg'.polls[v] = IF v = u THEN n ELSE reg.polls[v]
  BY <1>5, Zenon DEF Replaced
<1>7. SameFace(reg'.obj[n], reg.obj[n]) /\ reg'.polls[u] = n
  BY <1>2, <1>4, <1>6, DroppedIs, Zenon
<1>8. ASSUME NEW v \in Uuid \ {u} PROVE SameView(reg', reg, v)
  <2>1. \A p \in DOMAIN reg.obj : reg.obj[p].u = v => SameFace(reg'.obj[p], reg.obj[p])
    BY <1>6, Zenon DEF SameFace
  <2>2. reg'.polls[v] = reg.polls[v]  BY <1>6, Zenon
  <2> QED  BY <1>2, <2>1, <2>2, SameViews, ZenonT(30)
<1>9. PICK p : p = IF row.deleted THEN "bury" ELSE "load_end"  BY Zenon
<1>10. PICK x \in Work : thr' = [thr EXCEPT ![t] = x] /\ x.pc = p /\ x.u = u /\ x.row = row
  <2>1. Goto(t, p)  BY <1>4, <1>9, Zenon DEF Replace
  <2>2. p \in Places  BY <1>9, Zenon DEF Places, Loading
  <2> QED  BY <1>4, <2>1, <2>2, GotoIs
<1>11. /\ reg'.obj[n].seq = row.seq /\ ~reg'.obj[n].deleted /\ ~reg'.obj[n].disabled
       /\ ~row.deleted => reg'.obj[n].name = row.name
  BY <1>3, <1>4, <1>7, Zenon DEF MadeOf, SameFace
<1>12. CASE row.deleted
  <2>1. x.pc = "bury"  BY <1>9, <1>10, <1>12, Zenon
  <2>2. AtWork(x, db', reg')
    BY <1>1, <1>3, <1>4, <1>6, <1>7, <1>10, <1>11, <1>12, <2>1, Zenon
       DEF AtWork, Settled, Asking, Loading, Filling, Fetching
  <2> QED  BY <1>1, <1>4, <1>8, <1>10, <2>1, <2>2, WorkStep, Zenon
<1>13. CASE ~row.deleted
  <2>1. x.pc = "load_end"  BY <1>9, <1>10, <1>13, Zenon
  <2>2. Matched(db', reg', u)
    BY <1>1, <1>3, <1>4, <1>6, <1>7, <1>11, <1>13, RowIs, Zenon DEF Matched
  <2>3. AtWork(x, db', reg')
    BY <1>10, <2>1, <2>2, Zenon DEF AtWork, Loading, Filling, Fetching
  <2> QED  BY <1>1, <1>4, <1>8, <1>10, <2>1, <2>3, WorkStep, Zenon
<1> QED  BY <1>12, <1>13, Zenon

\* The check made of a deleted row becomes a tombstone with the number of the row,
\* or leaves memory.
LEMMA BuryMemory ==
    ASSUME RegistryInv, MemoryInv, NEW t \in Thread, Bury(t)
    PROVE  MemoryInv'
<1>1. thr[t].pc = "bury" /\ UNCHANGED <<rec, db>> /\ reg' = Deschedule(reg, thr[t].u, FALSE)
  BY Zenon DEF Bury, At
<1>2. /\ AtWork(thr[t], db, reg) /\ thr[t].u \in Uuid /\ WorkOK(thr[t])
      /\ reg \in Registry /\ IndexAll(reg, Filled)
  BY <1>1, Working, ZenonT(30)
<1>3. PICK u, row, o : u = thr[t].u /\ row = thr[t].row /\ o = reg.polls[u]  BY Zenon
<1>4. db[u] = row /\ row \in Row /\ row.deleted /\ o # 0 /\ reg.obj[o].seq = row.seq
  BY <1>1, <1>2, <1>3, Zenon DEF AtWork, Loading, WorkOK
<1>5. /\ \A v \in Uuid \ {u} : SameView(reg', reg, v)
      /\ \/ reg'.polls[u] = o /\ reg'.obj[o].deleted /\ reg'.obj[o].seq = reg.obj[o].seq
         \/ reg'.polls[u] = 0
  BY <1>1, <1>2, <1>3, DescheduleViews, Zenon
<1>6. Matched(db', reg', u)
  BY <1>1, <1>4, <1>5, RowIs, Zenon DEF Matched
<1>7. PICK x \in Work : thr' = [thr EXCEPT ![t] = x] /\ x.pc = "load_end" /\ x.u = u
  BY <1>3, GotoIs, SMTT(30) DEF Bury, Places, Loading
<1>8. AtWork(x, db', reg')  BY <1>6, <1>7, Zenon DEF AtWork, Loading, Filling, Fetching
<1> QED  BY <1>1, <1>3, <1>5, <1>7, <1>8, WorkStep, Zenon

\* The end of a reload leaves everything settled.
LEMMA LoadEndMemory ==
    ASSUME RegistryInv, MemoryInv, NEW t \in Thread, LoadEnd(t)
    PROVE  MemoryInv'
<1>1. thr[t].pc = "load_end" /\ UNCHANGED <<rec, db>> /\ reg' = Deref(reg, thr[t].found)
  BY Zenon DEF LoadEnd, At
<1>2. /\ AtWork(thr[t], db, reg) /\ thr[t].u \in Uuid /\ thr[t] \in Work /\ Knows(thr[t], reg)
      /\ reg \in Registry /\ IndexAll(reg, Filled)
  BY <1>1, Working, Zenon
<1>3. \A v \in Uuid : SameView(reg', reg, v)
  <2>1. thr[t].found \in {0} \cup DOMAIN reg.obj  BY <1>2, Zenon DEF Knows
  <2> QED  BY <1>1, <1>2, <2>1, DerefViews, Zenon
<1>4. PICK x : x = [thr[t] EXCEPT !.pc = "end", !.found = 0, !.n = 0, !.row = None]  BY Zenon
<1>5. x \in Work /\ x.pc = "end" /\ x.u = thr[t].u  BY <1>2, <1>4, Zenon DEF Work, Places
<1>6. thr' = [thr EXCEPT ![t] = x]  BY <1>4, Zenon DEF LoadEnd, Become
<1>7. Matched(db', reg', thr[t].u)
  <2>1. Matched(db, reg, thr[t].u)  BY <1>1, <1>2, Zenon DEF AtWork, Settled
  <2> QED  BY <1>1, <1>2, <1>3, <2>1, MatchedStill, Zenon
<1>8. AtWork(x, db', reg')  BY <1>5, <1>7, Zenon DEF AtWork, Loading, Filling, Fetching
<1> QED  BY <1>1, <1>3, <1>5, <1>6, <1>8, WorkStep, Zenon

\* An answered request leaves everything settled.
LEMMA EndMemory ==
    ASSUME RegistryInv, MemoryInv, NEW t \in Thread, End(t)
    PROVE  MemoryInv'
<1>1. /\ thr[t].pc = "end" /\ UNCHANGED <<rec, db>> /\ reg' = Deref(reg, thr[t].outer)
      /\ thr' = [thr EXCEPT ![t] = IdleThread]
  BY Zenon DEF End, At
<1>2. /\ AtWork(thr[t], db, reg) /\ thr[t].u \in Uuid /\ Knows(thr[t], reg) /\ Alone(t)
      /\ reg \in Registry /\ IndexAll(reg, Filled)
      /\ \A v \in Uuid \ {thr[t].u} : Matched(db, reg, v)
  BY <1>1, Working, Zenon
<1>3. \A v \in Uuid : SameView(reg', reg, v)
  <2>1. thr[t].outer \in {0} \cup DOMAIN reg.obj  BY <1>2, Zenon DEF Knows
  <2> QED  BY <1>1, <1>2, <2>1, DerefViews, Zenon
<1>4. Matched(db', reg', thr[t].u)
  <2>1. Matched(db, reg, thr[t].u)  BY <1>1, <1>2, ZenonT(30) DEF AtWork, Settled
  <2> QED  BY <1>1, <1>2, <1>3, <2>1, MatchedStill, Zenon
<1>5. IdleThread \in Work /\ IdleThread.pc = "idle"  BY Zenon DEF IdleThread, Work, Places
<1> QED  BY <1>1, <1>2, <1>3, <1>4, <1>5, MemoryStep, Zenon

\* A delete begins, when everything is settled.
LEMMA DeleteLookupMemory ==
    ASSUME RegistryInv, MemoryInv, Overlap = "none", NEW t \in Thread, DeleteLookup(t)
    PROVE  MemoryInv'
<1>1. /\ Alone(t) /\ \A v \in Uuid : Matched(db, reg, v)
      /\ thr[t] \in Work /\ reg \in Registry /\ IndexAll(reg, Filled)
  BY Beginning, Zenon DEF DeleteLookup
<1>a. PICK u \in Uuid : \E o, p :
        /\ o = reg.polls[u] /\ p = (IF o = 0 THEN "del_remove" ELSE "del_desched")
        /\ reg' = Ref(reg, o)
        /\ thr' = [thr EXCEPT ![t] = [thr[t] EXCEPT !.u = u, !.outer = o, !.pc = p]]
  BY Zenon DEF DeleteLookup, Become
<1>2. PICK o, p :
        /\ o = reg.polls[u] /\ p = (IF o = 0 THEN "del_remove" ELSE "del_desched")
        /\ reg' = Ref(reg, o)
        /\ thr' = [thr EXCEPT ![t] = [thr[t] EXCEPT !.u = u, !.outer = o, !.pc = p]]
  BY <1>a, Zenon
<1>3. o \in Nat /\ o \in {0} \cup DOMAIN reg.obj
  BY <1>1, <1>2, Indexes, Zenon DEF IndexAll
<1>4. p \in {"del_remove", "del_desched"} /\ (p = "del_remove" => o = 0)  BY <1>2, Zenon
<1>5. PICK x : x = [thr[t] EXCEPT !.u = u, !.outer = o, !.pc = p]  BY Zenon
<1>6. x \in Work /\ x.pc = p /\ x.u = u /\ x.outer = o
  BY <1>1, <1>3, <1>4, <1>5, Zenon DEF Work, Places
<1>7. \A v \in Uuid : SameView(reg', reg, v)  BY <1>1, <1>2, <1>3, RefViews, Zenon
<1>8. db' = db /\ rec' = rec  BY Zenon DEF DeleteLookup
<1>9. Matched(db', reg', u) /\ reg'.polls[u] = o
  BY <1>1, <1>2, <1>7, <1>8, MatchedStill, Zenon DEF SameView
<1>10. AtWork(x, db', reg')
  BY <1>4, <1>6, <1>9, Zenon DEF AtWork, Settled, Asking, Loading, Filling, Fetching
<1> QED  BY <1>1, <1>2, <1>4, <1>5, <1>6, <1>7, <1>8, <1>10, MemoryStep, Zenon

\* A delete leaves a tombstone, or nothing, in memory.
LEMMA DeleteDescheduleMemory ==
    ASSUME RegistryInv, MemoryInv, NEW t \in Thread, DeleteDeschedule(t)
    PROVE  MemoryInv'
<1>1. thr[t].pc = "del_desched" /\ UNCHANGED <<rec, db>>
        /\ reg' = Deschedule(reg, thr[t].u, FALSE)
  BY Zenon DEF DeleteDeschedule, At
<1>2. /\ AtWork(thr[t], db, reg) /\ thr[t].u \in Uuid /\ WorkOK(thr[t])
      /\ reg \in Registry /\ IndexAll(reg, Filled)
  BY <1>1, Working, Zenon
<1>3. PICK u, o : u = thr[t].u /\ o = reg.polls[u]  BY Zenon
<1>4. Matched(db, reg, u) /\ thr[t].outer = o /\ o # 0
  BY <1>1, <1>2, <1>3, Zenon DEF AtWork, Settled, WorkOK
<1>5. /\ \A v \in Uuid \ {u} : SameView(reg', reg, v)
      /\ reg.obj[o].seq # 0 => reg'.polls[u] = o /\ reg'.obj[o].deleted
      /\ reg.obj[o].seq = 0 => reg'.polls[u] = 0
  <2>1. /\ \A v \in Uuid \ {u} : SameView(reg', reg, v)
        /\ IF reg.polls[u] # 0 /\ reg.obj[reg.polls[u]].seq # 0 /\ ~FALSE
           THEN reg'.polls[u] = reg.polls[u] /\ reg'.obj[reg.polls[u]].deleted
           ELSE reg'.polls[u] = 0
    BY <1>1, <1>2, <1>3, DescheduleViews, Zenon
  <2> QED  BY <1>3, <1>4, <2>1, Zenon
<1>6. PICK p : p = IF reg.obj[o].seq # 0 THEN "del_mark" ELSE "del_remove"  BY Zenon
<1>7. PICK x \in Work : thr' = [thr EXCEPT ![t] = x] /\ x.pc = p /\ x.u = u /\ x.outer = o
  <2>1. Goto(t, p)  BY <1>3, <1>4, <1>6, Zenon DEF DeleteDeschedule
  <2>2. p \in Places  BY <1>6, Zenon DEF Places
  <2> QED  BY <1>3, <1>4, <2>1, <2>2, GotoIs, SMTT(30)
<1>8. CASE reg.obj[o].seq # 0
  <2>1. x.pc = "del_mark"  BY <1>6, <1>7, <1>8, Zenon
  <2>2. db'[u] # None  BY <1>1, <1>3, <1>4, Zenon DEF Matched
  <2>3. AtWork(x, db', reg')
    BY <1>4, <1>5, <1>7, <1>8, <2>1, <2>2, Zenon DEF AtWork, Settled, Asking, Loading, Filling, Fetching
  <2> QED  BY <1>1, <1>3, <1>5, <1>7, <2>1, <2>3, WorkStep, Zenon
<1>9. CASE reg.obj[o].seq = 0
  <2>1. x.pc = "del_remove"  BY <1>6, <1>7, <1>9, Zenon
  <2>2. AtWork(x, db', reg')
    BY <1>5, <1>7, <1>9, <2>1, Zenon DEF AtWork, Settled, Asking, Loading, Filling, Fetching
  <2> QED  BY <1>1, <1>3, <1>5, <1>7, <2>1, <2>2, WorkStep, Zenon
<1> QED  BY <1>8, <1>9, Zenon

\* The deleted row and the tombstone get the same number.
LEMMA DeleteMarkMemory ==
    ASSUME RegistryInv, MemoryInv, NEW t \in Thread, DeleteMark(t)
    PROVE  MemoryInv'
<1>1. thr[t].pc = "del_mark" /\ rec' = rec  BY Zenon DEF DeleteMark, At
<1>2. /\ AtWork(thr[t], db, reg) /\ thr[t].u \in Uuid /\ RowsNamed(db)
      /\ reg \in Registry /\ IndexAll(reg, Filled)
  BY <1>1, Working, Zenon
<1>3. PICK u, o, row : u = thr[t].u /\ o = reg.polls[u] /\ row = db[u]  BY Zenon
<1>4. row \in Row /\ row # None /\ thr[t].outer = o /\ o # 0 /\ reg.obj[o].deleted
  BY <1>1, <1>2, <1>3, ZenonT(30) DEF AtWork, RowsNamed
<1>5. o \in DOMAIN reg.obj /\ reg.obj[o] \in Object /\ reg.obj[o].u = u
  BY <1>2, <1>3, <1>4, Indexes, SMTT(30) DEF IndexAll
<1>6. PICK q : q = row.seq + 1  BY Zenon
<1>7. q \in Nat /\ q # 0  BY <1>4, <1>6, SMTT(30) DEF Row
<1>8. PICK r : r = [name |-> row.name, seq |-> q, deleted |-> TRUE]  BY Zenon
<1>9. r \in Row /\ r.seq = q /\ r.deleted  BY <1>4, <1>7, <1>8, Zenon DEF Row
<1>10. PICK ob : ob = [reg.obj[o] EXCEPT !.seq = q]  BY Zenon
<1>11. ob \in Object /\ ob.seq = q /\ ob.deleted  BY <1>4, <1>5, <1>7, <1>10, Zenon DEF Object
<1>12. db' = [db EXCEPT ![u] = r]  BY <1>3, <1>4, <1>6, <1>8, Zenon DEF DeleteMark
<1>13. reg' = [reg EXCEPT !.obj[o] = ob]
  <2>1. reg' = [reg EXCEPT !.obj[o].seq = q]  BY <1>3, <1>4, <1>6, <1>7, ZenonT(30) DEF DeleteMark
  <2> QED  BY <1>2, <1>5, <1>10, <2>1, Indexes, Zenon
<1>14. db'[u] = r /\ \A v \in Uuid \ {u} : db'[v] = db[v]
  BY <1>2, <1>3, <1>12, Zenon DEF RowsNamed
<1>15. /\ reg'.polls = reg.polls
       /\ \A p \in DOMAIN reg.obj : reg'.obj[p] = IF p = o THEN ob ELSE reg.obj[p]
  BY <1>2, <1>5, <1>11, <1>13, ObjectSet
<1>16. ASSUME NEW v \in Uuid \ {u} PROVE SameView(reg', reg, v)
  <2>1. \A p \in DOMAIN reg.obj : reg.obj[p].u = v => SameFace(reg'.obj[p], reg.obj[p])
    BY <1>5, <1>15, Zenon DEF SameFace
  <2> QED  BY <1>2, <1>15, <2>1, SameViews, ZenonT(30)
<1>17. Matched(db', reg', u)
  BY <1>3, <1>5, <1>9, <1>11, <1>14, <1>15, RowIs, Zenon DEF Matched
<1>18. PICK x \in Work : thr' = [thr EXCEPT ![t] = x] /\ x.pc = "end" /\ x.u = u
  BY <1>3, GotoIs DEF DeleteMark, Places
<1>19. AtWork(x, db', reg')  BY <1>17, <1>18, Zenon DEF AtWork, Loading, Filling, Fetching
<1> QED  BY <1>1, <1>3, <1>14, <1>16, <1>18, <1>19, WorkStep, Zenon

\* The row is removed when memory has nothing of the check.
LEMMA DeleteRemoveMemory ==
    ASSUME RegistryInv, MemoryInv, NEW t \in Thread, DeleteRemove(t)
    PROVE  MemoryInv'
<1>1. thr[t].pc = "del_remove" /\ UNCHANGED <<rec, reg>> /\ db' = [db EXCEPT ![thr[t].u] = None]
  BY Zenon DEF DeleteRemove, At
<1>2. AtWork(thr[t], db, reg) /\ thr[t].u \in Uuid /\ RowsNamed(db)
  BY <1>1, Working, ZenonT(30)
<1>3. db'[thr[t].u] = None /\ \A v \in Uuid \ {thr[t].u} : db'[v] = db[v]
  BY <1>1, <1>2, Zenon DEF RowsNamed
<1>4. Matched(db', reg', thr[t].u)  BY <1>1, <1>2, <1>3, Zenon DEF AtWork, Matched
<1>5. \A v \in Uuid : SameView(reg', reg, v)  BY <1>1, Zenon DEF SameView, SameFace
<1>6. PICK x \in Work : thr' = [thr EXCEPT ![t] = x] /\ x.pc = "end" /\ x.u = thr[t].u
  BY GotoIs DEF DeleteRemove, Places
<1>7. AtWork(x, db', reg')  BY <1>4, <1>6, Zenon DEF AtWork, Loading, Filling, Fetching
<1> QED  BY <1>1, <1>3, <1>5, <1>6, <1>7, WorkStep, Zenon

\* A replication job goes on only with a row that is newer than what memory has.
LEMMA ReplBeginMemory ==
    ASSUME RegistryInv, MemoryInv, Overlap = "none", NEW t \in Thread, ReplBegin(t)
    PROVE  MemoryInv'
<1>1. /\ Alone(t) /\ \A v \in Uuid : Matched(db, reg, v)
      /\ thr[t] \in Work /\ reg \in Registry /\ IndexAll(reg, Filled)
  BY Beginning, Zenon DEF ReplBegin
<1>a. PICK a \in Peer : \E o, p :
        /\ o = reg.polls[a.u]
        /\ p = IF o # 0 /\ reg.obj[o].seq >= a.seq THEN "end" ELSE "repl_test"
        /\ thr' = [thr EXCEPT ![t] = [thr[t] EXCEPT !.u = a.u, !.ask = a, !.pc = p]]
  BY Zenon DEF ReplBegin, Become
<1>2. PICK o, p :
        /\ o = reg.polls[a.u]
        /\ p = IF o # 0 /\ reg.obj[o].seq >= a.seq THEN "end" ELSE "repl_test"
        /\ thr' = [thr EXCEPT ![t] = [thr[t] EXCEPT !.u = a.u, !.ask = a, !.pc = p]]
  BY <1>a, ZenonT(30)
<1>3. a.u \in Uuid /\ a.seq \in Nat /\ (o # 0 => reg.obj[o].seq \in Nat)
  BY <1>1, <1>2, AskedName, Indexes, Zenon DEF IndexAll, Object
<1>4. p \in {"end", "repl_test"} /\ (p = "repl_test" => (o # 0 => reg.obj[o].seq < a.seq))
  BY <1>2, <1>3
<1>5. PICK x : x = [thr[t] EXCEPT !.u = a.u, !.ask = a, !.pc = p]  BY Zenon
<1>6. x \in Work /\ x.pc = p /\ x.u = a.u /\ x.ask = a
  BY <1>1, <1>3, <1>4, <1>5, ZenonT(30) DEF Work, Places, Fetching
<1>7. UNCHANGED <<db, rec, reg>>  BY Zenon DEF ReplBegin
<1>8. \A v \in Uuid : SameView(reg', reg, v)  BY <1>7, Zenon DEF SameView, SameFace
<1>9. AtWork(x, db', reg')
  BY <1>1, <1>2, <1>3, <1>4, <1>6, <1>7, Zenon DEF AtWork, Loading, Filling, Fetching
<1> QED  BY <1>1, <1>2, <1>3, <1>4, <1>5, <1>6, <1>7, <1>8, <1>9, MemoryStep, Zenon

\* Whatever row the test of the number looks up, what memory has is not newer than
\* the row of the check.
LEMMA ReplTestMemory ==
    ASSUME RegistryInv, MemoryInv, NEW t \in Thread, ReplTest(t)
    PROVE  MemoryInv'
<1>1. thr[t].pc = "repl_test" /\ UNCHANGED <<rec, reg, db>>  BY Zenon DEF ReplTest, At
<1>2. /\ AtWork(thr[t], db, reg) /\ thr[t].u \in Uuid /\ RowsNamed(db)
      /\ reg \in Registry /\ IndexAll(reg, Filled)
  BY <1>1, Working, Zenon
<1>3. /\ Matched(db, reg, thr[t].u)
      /\ reg.polls[thr[t].u] # 0 => reg.obj[reg.polls[thr[t].u]].seq < thr[t].ask.seq
  BY <1>1, <1>2, Zenon DEF AtWork, Settled, Fetching
<1>4. PICK p \in {"repl_write", "load"} : Goto(t, p)  BY Zenon DEF ReplTest
<1>5. PICK x \in Work : thr' = [thr EXCEPT ![t] = x] /\ x.pc = p /\ x.u = thr[t].u /\ x.ask = thr[t].ask
  BY <1>4, GotoIs, SMTT(30) DEF Places, Fetching
<1>6. NotAhead(db, reg, thr[t].u)
  <2>1. db[thr[t].u] # None => db[thr[t].u].seq \in Nat  BY <1>2, Zenon DEF RowsNamed, Row
  <2>2. reg.polls[thr[t].u] # 0 /\ db[thr[t].u] # None =>
          reg.obj[reg.polls[thr[t].u]].seq = db[thr[t].u].seq
    BY <1>3, ZenonT(30) DEF Matched
  <2>3. db[thr[t].u] = None => reg.polls[thr[t].u] = 0  BY <1>3, Zenon DEF Matched
  <2>4. PICK i, j : i = db[thr[t].u].seq /\ j = reg.obj[reg.polls[thr[t].u]].seq  BY Zenon
  <2>5. db[thr[t].u] # None /\ reg.polls[thr[t].u] # 0 => j <= i
    <3>1. ASSUME db[thr[t].u] # None, reg.polls[thr[t].u] # 0 PROVE j <= i
      <4>1. i \in Nat /\ j = i  BY <2>1, <2>2, <2>4, <3>1, Zenon
      <4> QED  BY <4>1, SMTT(30)
    <3> QED  BY <3>1, Zenon
  <2> QED  BY <2>3, <2>4, <2>5, Zenon DEF NotAhead
<1>7. AtWork(x, db, reg)
  BY <1>3, <1>4, <1>5, <1>6, Zenon DEF AtWork, Settled, Asking, Loading, Filling, Fetching
<1> QED  BY <1>1, <1>5, <1>7, WorkNote, Zenon

\* The recycler takes tombstones out of memory, whose rows are deleted.
LEMMA RecycleScanMemory ==
    ASSUME RegistryInv, MemoryInv, Overlap = "none", RecycleScan
    PROVE  MemoryInv'
<1>1. Quiet /\ UNCHANGED <<db, thr>>  BY Zenon DEF RecycleScan
<1>2. (\A v \in Uuid : Matched(db, reg, v)) /\ reg \in Registry /\ IndexAll(reg, Filled)
  BY <1>1, InvIs, Zenon DEF MemoryInv
<1>3. PICK S \in SUBSET Tombstones : reg' = Purged(reg, S) /\ rec' = [pc |-> "purge", todo |-> S]
  BY Zenon DEF RecycleScan
<1>4. S \in SUBSET Uuid /\ \A v \in S : reg.polls[v] # 0 /\ reg.obj[reg.polls[v]].deleted
  BY Zenon DEF Tombstones
<1>5. (\A v \in S : reg'.polls[v] = 0) /\ \A v \in Uuid \ S : SameView(reg', reg, v)
  <2>1. PICK f : f = [o \in DOMAIN reg.obj |-> IF \E u \in S : reg.polls[u] = o
                                               THEN [reg.obj[o] EXCEPT !.seq = 0] ELSE reg.obj[o]]
    BY Zenon
  <2>2. ASSUME NEW o \in DOMAIN reg.obj
        PROVE  /\ f[o] \in Object /\ f[o].u = reg.obj[o].u /\ f[o].name = reg.obj[o].name
               /\ (\A u \in S : reg.polls[u] # o) => f[o] = reg.obj[o]
    <3>1. reg.obj[o] \in Object  BY <1>2, Indexes, Zenon
    <3>2. PICK ob : ob = [reg.obj[o] EXCEPT !.seq = 0]  BY Zenon
    <3>3. ob \in Object /\ ob.u = reg.obj[o].u /\ ob.name = reg.obj[o].name
      BY <3>1, <3>2, Zenon DEF Object
    <3>4. f[o] = ob \/ f[o] = reg.obj[o]  BY <2>1, <3>2, Zenon
    <3>5. (\A u \in S : reg.polls[u] # o) => f[o] = reg.obj[o]  BY <2>1, Zenon
    <3> QED  BY <3>1, <3>3, <3>4, <3>5, Zenon
  <2>3. f \in [DOMAIN reg.obj -> Object]  BY <2>1, <2>2, Zenon
  <2>4. f \in Seq(Object) /\ DOMAIN f = DOMAIN reg.obj  BY <1>2, <2>3, SeqOf, Indexes, Zenon
  <2>5. PICK Q : Q = [reg EXCEPT !.obj = f]  BY Zenon
  <2>6. /\ Q \in Registry /\ Q.obj = f /\ Q.polls = reg.polls /\ Q.byname = reg.byname
        /\ Q.bin = reg.bin
    BY <1>2, <2>4, <2>5, Zenon DEF Registry
  <2>7. reg' = Unlist(Q, S)  BY <1>3, <2>1, <2>5, Zenon DEF Purged
  <2>8. IndexAll(Q, Filled)
    <3>1. \A o \in DOMAIN Q.obj : /\ o \in DOMAIN reg.obj /\ Q.obj[o].u = reg.obj[o].u
                                  /\ Q.obj[o].name = reg.obj[o].name
      BY <2>2, <2>4, <2>6, Zenon
    <3>2. ASSUME NEW u \in Uuid, Q.polls[u] # 0
          PROVE  Q.polls[u] \in DOMAIN Q.obj /\ Q.obj[Q.polls[u]].u = u
                 /\ Q.byname[Q.obj[Q.polls[u]].name] = Q.polls[u]
      <4>1. PICK p : p = Q.polls[u] /\ p = reg.polls[u]  BY <2>6, Zenon
      <4>2. p \in DOMAIN reg.obj /\ reg.obj[p].u = u /\ reg.byname[reg.obj[p].name] = p
        BY <1>2, <3>2, <4>1, Zenon DEF IndexAll
      <4>3. p \in DOMAIN Q.obj  BY <2>4, <2>6, <4>2, Zenon
      <4> QED  BY <2>6, <3>1, <4>1, <4>2, <4>3, Zenon
    <3>3. ASSUME NEW k \in AnyName, Q.byname[k] # 0
          PROVE  Q.byname[k] \in DOMAIN Q.obj /\ Q.obj[Q.byname[k]].name = k
                 /\ (Q.polls[Q.obj[Q.byname[k]].u] = Q.byname[k] \/ Q.byname[k] \in Filled)
      <4>1. PICK p : p = Q.byname[k] /\ p = reg.byname[k]  BY <2>6, Zenon
      <4>2. /\ p \in DOMAIN reg.obj /\ reg.obj[p].name = k
            /\ reg.polls[reg.obj[p].u] = p \/ p \in Filled
        BY <1>2, <3>3, <4>1, Zenon DEF IndexAll
      <4>3. p \in DOMAIN Q.obj  BY <2>4, <2>6, <4>2, Zenon
      <4> QED  BY <2>6, <3>1, <4>1, <4>2, <4>3, Zenon
    <3>4. \A o \in DOMAIN Q.obj : Q.obj[o].name \in OwnName(Q.obj[o].u)
      BY <1>2, <3>1, Zenon DEF IndexAll
    <3>5. ASSUME NEW o \in Q.bin PROVE o \in DOMAIN Q.obj /\ Q.byname[Q.obj[o].name] # o
      <4>1. o \in DOMAIN reg.obj /\ reg.byname[reg.obj[o].name] # o  BY <1>2, <2>6, Zenon DEF IndexAll
      <4>2. o \in DOMAIN Q.obj  BY <2>4, <2>6, <4>1, Zenon
      <4> QED  BY <2>6, <3>1, <4>1, <4>2, Zenon
    <3> QED  BY <3>2, <3>3, <3>4, <3>5, Zenon DEF IndexAll
  <2>9. (\A v \in S : reg'.polls[v] = 0) /\ \A v \in Uuid \ S : SameView(reg', Q, v)
    <3>1. \A v \in S : Q.polls[v] # 0  BY <1>4, <2>6, Zenon
    <3> QED  BY <1>4, <2>6, <2>7, <2>8, <3>1, UnlistViews, Zenon
  <2>10. ASSUME NEW v \in Uuid \ S PROVE SameView(Q, reg, v)
    <3>1. \A o \in DOMAIN reg.obj : reg.obj[o].u = v => f[o] = reg.obj[o]
      BY <1>2, <1>4, <2>2, SMTT(30) DEF IndexAll
    <3>2. \A o \in DOMAIN reg.obj : reg.obj[o].u = v => SameFace(Q.obj[o], reg.obj[o])
      BY <2>6, <3>1, ZenonT(30) DEF SameFace
    <3> QED  BY <1>2, <2>6, <3>2, SameViews, ZenonT(30)
  <2>11. ASSUME NEW v \in Uuid \ S PROVE SameView(reg', reg, v)
    BY <2>9, <2>10, SMTT(30) DEF SameView, SameFace
  <2> QED  BY <2>9, <2>11, Zenon
<1>6. ASSUME NEW v \in Uuid PROVE Matched(db', reg', v)
  <2>1. CASE v \in S
    BY <1>1, <1>2, <1>4, <1>5, <2>1, ZenonT(30) DEF Matched
  <2>2. CASE v \notin S
    BY <1>1, <1>2, <1>5, <2>2, MatchedStill, Zenon
  <2> QED  BY <2>1, <2>2, Zenon
<1>7. rec' \in [pc : {"idle", "purge"}, todo : SUBSET Uuid] /\ rec'.todo = S  BY <1>3, <1>4, ZenonT(30)
<1>8. \A t \in Thread : thr'[t].pc = "idle"  BY <1>1, Zenon DEF Quiet
<1> QED  BY <1>4, <1>5, <1>6, <1>7, <1>8, Zenon DEF MemoryInv

\* Nobody works while the recycler does.
LEMMA Recycling ==
    ASSUME RegistryInv, MemoryInv, rec.pc = "purge"
    PROVE  /\ \A t \in Thread : thr[t].pc = "idle"
           /\ \A v \in Uuid : Matched(db, reg, v)
           /\ rec.todo \subseteq Uuid /\ \A v \in rec.todo : reg.polls[v] = 0
BY Zenon DEF MemoryInv, Quiet, Alone

\* The rows that the recycler removes are those of checks that memory has no more.
LEMMA RecycleRemoveMemory ==
    ASSUME RegistryInv, MemoryInv, RecycleRemove
    PROVE  MemoryInv'
<1>1. rec.pc = "purge" /\ UNCHANGED <<reg, thr>>  BY Zenon DEF RecycleRemove
<1>2. /\ \A t \in Thread : thr[t].pc = "idle"
      /\ \A v \in Uuid : Matched(db, reg, v)
      /\ rec.todo \subseteq Uuid /\ \A v \in rec.todo : reg.polls[v] = 0
  BY <1>1, Recycling, Zenon
<1>3. PICK u \in rec.todo : /\ rec' = [rec EXCEPT !.todo = @ \ {u}]
                            /\ db' = IF db[u] # None /\ db[u].deleted
                                     THEN [db EXCEPT ![u] = None] ELSE db
  BY ZenonT(30) DEF RecycleRemove
<1>4. RowsNamed(db)  BY InvIs, Zenon
<1>5. ASSUME NEW v \in Uuid PROVE Matched(db', reg', v)
  <2>1. CASE db' = db  BY <1>1, <1>2, <2>1, Zenon
  <2>2. CASE db' = [db EXCEPT ![u] = None]
    <3>1. CASE v = u
      <4>1. db'[v] = None  BY <1>4, <2>2, <3>1, Zenon DEF RowsNamed
      <4> QED  BY <1>1, <1>2, <3>1, <4>1, ZenonT(30) DEF Matched
    <3>2. CASE v # u
      <4>1. db'[v] = db[v]  BY <1>4, <2>2, <3>2, Zenon DEF RowsNamed
      <4> QED  BY <1>1, <1>2, <4>1, Zenon DEF Matched
    <3> QED  BY <3>1, <3>2, Zenon
  <2> QED  BY <1>3, <2>1, <2>2, Zenon
<1>6. rec' \in [pc : {"idle", "purge"}, todo : SUBSET Uuid] /\ rec'.todo \subseteq rec.todo
  <2>1. rec \in [pc : {"idle", "purge"}, todo : SUBSET Uuid]  BY Zenon DEF MemoryInv
  <2> QED  BY <1>3, <2>1, Zenon
<1> QED  BY <1>1, <1>2, <1>5, <1>6, Zenon DEF MemoryInv

\* Nothing that is found by its uuid changes its look when the bin is emptied.
LEMMA RecycleBinMemory ==
    ASSUME RegistryInv, MemoryInv, RecycleBin
    PROVE  MemoryInv'
<1>1. rec.pc = "purge" /\ UNCHANGED <<db, thr>>  BY Zenon DEF RecycleBin
<1>2. /\ \A t \in Thread : thr[t].pc = "idle"
      /\ \A v \in Uuid : Matched(db, reg, v)
      /\ reg \in Registry /\ IndexAll(reg, Filled)
  BY <1>1, Recycling, InvIs, ZenonT(30)
<1>3. PICK S : S = {o \in reg.bin : ~reg.obj[o].running}  BY Zenon
<1>4. PICK f : f = [o \in DOMAIN reg.obj |-> IF o \in S THEN Dropped(reg.obj[o]) ELSE reg.obj[o]]
  BY Zenon
<1>5. PICK b, z : reg' = [reg EXCEPT !.bin = b, !.obj = f, !.failed = z]
  BY <1>3, <1>4, Zenon DEF RecycleBin, Reclaimed
<1>6. reg'.polls = reg.polls /\ reg'.obj = f  BY <1>2, <1>5, Zenon DEF Registry
<1>7. \A o \in DOMAIN reg.obj : SameFace(reg'.obj[o], reg.obj[o])
  <2>1. \A o \in DOMAIN reg.obj : SameFace(Dropped(reg.obj[o]), reg.obj[o])
    BY <1>2, Indexes, DroppedIs, Zenon
  <2> QED  BY <1>4, <1>6, <2>1 DEF SameFace
<1>8. \A v \in Uuid : SameView(reg', reg, v)  BY <1>2, <1>6, <1>7, SameViews, Zenon
<1>9. \A v \in Uuid : Matched(db', reg', v)  BY <1>1, <1>2, <1>8, MatchedStill, Zenon
<1>10. rec' \in [pc : {"idle", "purge"}, todo : SUBSET Uuid] /\ rec'.pc = "idle"
  <2>1. rec \in [pc : {"idle", "purge"}, todo : SUBSET Uuid]  BY Zenon DEF MemoryInv
  <2> QED  BY <2>1, Zenon DEF RecycleBin
<1> QED  BY <1>1, <1>2, <1>9, <1>10, Zenon DEF MemoryInv

\* A run or a firing changes nothing that the requests rely on.
LEMMA TouchMemory ==
    ASSUME RegistryInv, MemoryInv, NEW o \in DOMAIN reg.obj, NEW ob, Touched(o, ob),
           UNCHANGED <<db, thr, rec>>
    PROVE  MemoryInv'
<1>1. reg \in Registry /\ IndexAll(reg, Filled)  BY InvIs, Zenon
<1>2. reg'.polls = reg.polls /\ \A p \in DOMAIN reg.obj : SameFace(reg'.obj[p], reg.obj[p])
  <2>1. ob \in Object /\ reg' = [reg EXCEPT !.obj[o] = ob] /\ SameFace(ob, reg.obj[o])
    BY Zenon DEF Touched
  <2>2. /\ reg'.polls = reg.polls
        /\ \A p \in DOMAIN reg.obj : reg'.obj[p] = IF p = o THEN ob ELSE reg.obj[p]
    BY <1>1, <2>1, ObjectSet, SMTT(30)
  <2> QED  BY <2>1, <2>2, Zenon DEF SameFace
<1>3. \A v \in Uuid : SameView(reg', reg, v)  BY <1>1, <1>2, SameViews, Zenon
<1>4. \A v \in Uuid : Matched(db, reg, v) => Matched(db', reg', v)  BY <1>3, MatchedStill, Zenon
<1>5. ASSUME NEW t \in Thread, thr'[t].pc # "idle"
      PROVE  /\ Alone(t)'
             /\ \A v \in Uuid \ {thr'[t].u} : Matched(db', reg', v)
             /\ AtWork(thr'[t], db', reg')
  <2>1. /\ Alone(t) /\ thr[t].u \in Uuid /\ AtWork(thr[t], db, reg)
        /\ \A v \in Uuid \ {thr[t].u} : Matched(db, reg, v)
    BY <1>5, Working, Zenon
  <2>2. PICK th : th = thr[t]  BY Zenon
  <2>3. th.pc \in Filling => SameFace(reg'.obj[th.n], reg.obj[th.n])
    BY <1>2, <2>2, FilledIs, Zenon
  <2>4. reg.polls[th.u] # 0 => SameFace(reg'.obj[reg.polls[th.u]], reg.obj[reg.polls[th.u]])
    BY <1>3, <2>1, <2>2, Zenon DEF SameView
  <2>5. Matched(db, reg, th.u) => Matched(db, reg', th.u)  BY <1>4, <2>1, <2>2, Zenon
  <2>6. NotAhead(db, reg, th.u) => NotAhead(db, reg', th.u)
    BY <1>3, <2>1, <2>2, AheadStill, ZenonT(30)
  <2>7. th.pc \in Filling =>
          /\ MadeOf(reg.obj[th.n], th.row) => MadeOf(reg'.obj[th.n], th.row)
          /\ ~reg.obj[th.n].disabled => ~reg'.obj[th.n].disabled
    BY <2>3, Zenon DEF MadeOf, SameFace
  <2>8. PICK o1, ob1, ob2, n1, n2 :
          /\ o1 = reg.polls[th.u] /\ ob1 = reg.obj[o1] /\ ob2 = reg'.obj[o1]
          /\ n1 = reg.obj[th.n] /\ n2 = reg'.obj[th.n]
    BY Zenon
  <2>9. o1 # 0 => ob2.seq = ob1.seq /\ (ob1.deleted => ob2.deleted)
    BY <2>4, <2>8, Zenon DEF SameFace
  <2>10. AtWork(th, db, reg) /\ reg'.polls[th.u] = o1  BY <1>2, <2>1, <2>2, <2>8, Zenon
  <2>11. AtWork(th, db, reg')
    <3>1. th.pc \in Filling => MadeOf(n2, th.row)  BY <2>7, <2>8, <2>10, Zenon DEF AtWork
    <3>2. th.pc = "replace" => ~n2.disabled  BY <2>7, <2>8, <2>10, Zenon DEF AtWork, Filling
    <3>3. /\ th.pc = "bury" => th.row.deleted /\ o1 # 0 /\ ob2.seq = th.row.seq
          /\ th.pc = "del_mark" => o1 # 0 /\ ob2.deleted /\ db[th.u] # None
          /\ th.pc \in Fetching => (o1 # 0 => ob2.seq < th.ask.seq)
      BY <2>8, <2>9, <2>10, Zenon DEF AtWork
    <3> QED  BY <2>5, <2>6, <2>8, <2>10, <3>1, <3>2, <3>3, Zenon DEF AtWork
  <2> QED  BY <1>4, <2>1, <2>2, <2>11, Zenon DEF Alone
<1>6. ASSUME Quiet' PROVE \A v \in Uuid : Matched(db', reg', v)
  BY <1>4, <1>6, Zenon DEF MemoryInv, Quiet
<1>7. /\ rec' \in [pc : {"idle", "purge"}, todo : SUBSET Uuid]
      /\ rec'.pc = "purge" => \A v \in rec'.todo : reg'.polls[v] = 0
  BY <1>2, Zenon DEF MemoryInv
<1> QED  BY <1>5, <1>6, <1>7, Zenon DEF MemoryInv

\* A firing leaves memory and rows as they are.
LEMMA FireMemory ==
    ASSUME RegistryInv, MemoryInv, ModuleRefs, ~HostNames, NEW o \in DOMAIN reg.obj, Fire(o)
    PROVE  MemoryInv'
<1>1. PICK ob : Touched(o, ob)  BY FireIs, Zenon
<1> QED  BY <1>1, TouchMemory, Zenon DEF Fire

\* The end of a run leaves memory and rows as they are.
LEMMA FinishMemory ==
    ASSUME RegistryInv, MemoryInv, ModuleRefs, NEW o \in DOMAIN reg.obj, Finish(o)
    PROVE  MemoryInv'
<1>1. PICK ob : Touched(o, ob)  BY FinishIs, Zenon
<1> QED  BY <1>1, TouchMemory, Zenon DEF Finish

\* At the start there are no rows and no checks.
LEMMA MemoryInitOK ==
    ASSUME RegistryInit
    PROVE  MemoryInv
<1>1. \A t \in Thread : thr[t].pc = "idle"  BY Zenon DEF RegistryInit, IdleThread
<1>2. \A v \in Uuid : db[v] = None /\ reg.polls[v] = 0  BY Zenon DEF RegistryInit
<1>3. \A v \in Uuid : Matched(db, reg, v)  BY <1>2, Zenon DEF Matched
<1>4. rec \in [pc : {"idle", "purge"}, todo : SUBSET Uuid] /\ rec.pc = "idle"  BY Zenon DEF RegistryInit
<1> QED  BY <1>1, <1>3, <1>4, Zenon DEF MemoryInv

\* Every step of a reload keeps what is said of memory and rows.
LEMMA LoadMemory ==
    ASSUME RegistryInv, MemoryInv, NamesApart, ~HostNames, NEW t \in Thread, Load(t)
    PROVE  MemoryInv'
<1>1. ~Resolve(t)
  BY InvIs, Zenon DEF Resolve, At, Work, Places, Loading, Asking, Fetching
<1> QED
  BY <1>1, LoadBeginMemory, LoadInheritMemory, LoadFindMemory, LoadDescheduleMemory, ScheduleMemory,
     UpdateCheckMemory, ReplaceMemory, BuryMemory, LoadEndMemory, Zenon DEF Load

\* Every step keeps what is said of memory and rows.
LEMMA MemoryNextKeeps ==
    ASSUME RegistryInv, MemoryInv, Overlap = "none", NamesApart, ~HostNames, ModuleRefs,
           [RegistryNext]_registryVars
    PROVE  MemoryInv'
<1>1. ASSUME NEW t \in Setter, SetRequest(t) PROVE MemoryInv'
  <2>1. t \in Thread  BY Zenon DEF Thread
  <2> QED  BY <1>1, <2>1, SetLookupMemory, SetInDbMemory, SetDupMemory, SetReadMemory,
              SetWriteMemory, LoadMemory, EndMemory, Zenon DEF SetRequest
<1>2. ASSUME NEW t \in Deleter, DeleteRequest(t) PROVE MemoryInv'
  <2>1. t \in Thread  BY Zenon DEF Thread
  <2> QED  BY <1>2, <2>1, DeleteLookupMemory, DeleteDescheduleMemory, DeleteMarkMemory,
              DeleteRemoveMemory, EndMemory, Zenon DEF DeleteRequest
<1>3. ASSUME NEW t \in Repl, Replicate(t) PROVE MemoryInv'
  <2>1. t \in Thread  BY Zenon DEF Thread
  <2> QED  BY <1>3, <2>1, ReplBeginMemory, ReplTestMemory, ReplWriteMemory, LoadMemory, EndMemory,
              Zenon DEF Replicate
<1>4. ASSUME Recycle PROVE MemoryInv'
  BY <1>4, RecycleScanMemory, RecycleRemoveMemory, RecycleBinMemory, Zenon DEF Recycle
<1>5. ASSUME NEW o \in DOMAIN reg.obj, Fire(o) \/ Finish(o) PROVE MemoryInv'
  BY <1>5, FireMemory, FinishMemory, Zenon
<1>6. ASSUME UNCHANGED registryVars PROVE MemoryInv'
  BY <1>6, Zenon DEF registryVars, MemoryInv, Alone, Quiet
<1> QED  BY <1>1, <1>2, <1>3, <1>4, <1>5, <1>6, Zenon DEF RegistryNext

\* With no request at work the invariant is the agreement of memory and database.
LEMMA MemoryAgrees ==
    ASSUME MemoryInv
    PROVE  MemoryMatchesDb
<1>1. ASSUME NEW u \in Uuid, Matched(db, reg, u)
      PROVE  IF (IF db[u] = None THEN TRUE ELSE db[u].deleted)
             THEN reg.polls[u] = 0 \/ reg.obj[reg.polls[u]].deleted
             ELSE /\ reg.polls[u] # 0
                  /\ ~reg.obj[reg.polls[u]].deleted /\ ~reg.obj[reg.polls[u]].disabled
                  /\ reg.obj[reg.polls[u]].name = db[u].name /\ reg.obj[reg.polls[u]].seq = db[u].seq
  <2>1. CASE db[u] = None  BY <1>1, <2>1, Zenon DEF Matched
  <2>2. CASE db[u] # None /\ db[u].deleted  BY <1>1, <2>2, Zenon DEF Matched
  <2>3. CASE db[u] # None /\ ~db[u].deleted  BY <1>1, <2>3, Zenon DEF Matched
  <2> QED  BY <2>1, <2>2, <2>3, ZenonT(30)
<1> QED  BY <1>1, Zenon DEF MemoryInv, MemoryMatchesDb

-----------------------------------------------------------------------------
(* The results.                                                            *)

INSTANCE FiniteSetTheorems

\* Sets of threads are finite, so they are counted one by one (the threads are the
\* requests at work and the replication jobs).
LEMMA ThreadsCounted == ThreadsCount
<1>1. Cardinality({}) = 0 /\ \A z : Cardinality({z}) = 1
  <2>1. IsFiniteSet({}) /\ Cardinality({}) = 0  BY FS_EmptySet
  <2>2. ASSUME NEW z PROVE Cardinality({z}) = 1  BY FS_Singleton, Zenon
  <2> QED  BY <2>1, <2>2, Zenon
<1>2. ASSUME NEW A \in SUBSET Thread, NEW t
      PROVE  /\ Cardinality(A) \in Nat /\ Cardinality(A \ {t}) \in Nat
             /\ Cardinality(A \ {t}) = IF t \in A THEN Cardinality(A) - 1 ELSE Cardinality(A)
  <2>1. IsFiniteSet(Thread)  BY RegistryConstants, Zenon DEF Thread
  <2>2. IsFiniteSet(A)  BY <2>1, FS_Subset, Zenon
  <2>3. IsFiniteSet(A \ {t})  BY <2>2, FS_RemoveElement, Zenon
  <2>4. Cardinality(A) \in Nat /\ Cardinality(A \ {t}) \in Nat  BY <2>2, <2>3, FS_CardinalityType, Zenon
  <2>5. Cardinality(A \ {t}) = IF t \in A THEN Cardinality(A) - 1 ELSE Cardinality(A)
    BY <2>2, FS_RemoveElement, Zenon
  <2> QED  BY <2>4, <2>5, Zenon
<1> QED  BY <1>1, <1>2, Zenon DEF ThreadsCount

\* The invariant of the registry holds in every behaviour in which targets are
\* addresses, modules hold the checks they run, and no two checks are asked to have
\* the same name (noit_check.c, noit_check_lmdb.c).
THEOREM RegistryInductive ==
    ~HostNames /\ ModuleRefs /\ NamesApart => (RegistrySpec => []RegistryInv)
<1>1. SUFFICES ASSUME ~HostNames, ModuleRefs, NamesApart PROVE RegistrySpec => []RegistryInv
  OBVIOUS
<1>2. RegistryInit => RegistryInv  BY RegistryInitOK, ThreadsCounted, Zenon
<1>3. RegistryInv /\ [RegistryNext]_registryVars => RegistryInv'  BY <1>1, RegistryNextKeeps, Zenon
<1> QED  BY <1>2, <1>3, PTL DEF RegistrySpec

\* The count of a check covers everyone who can reach it, and a released check is
\* reached by nobody (noit_check_ref, noit_check_deref): RefsCover, for any number
\* of checks, requests and threads.
THEOREM ReferencesCover ==
    ~HostNames /\ ModuleRefs /\ NamesApart => (RegistrySpec => []RefsCover)
<1>1. SUFFICES ASSUME ~HostNames, ModuleRefs, NamesApart PROVE RegistrySpec => []RefsCover
  OBVIOUS
<1>2. RegistrySpec => []RegistryInv  BY <1>1, RegistryInductive
<1>3. RegistryInv => RefsCover  BY <1>1, CoversAll, Zenon
<1> QED  BY <1>2, <1>3, PTL

\* The assertions of noit_poller_deschedule_no_lock and
\* noit_poller_free_check_internal never fail: AssertsHold, for any number of
\* checks, requests and threads.
THEOREM AssertionsHold ==
    ~HostNames /\ ModuleRefs /\ NamesApart => (RegistrySpec => []AssertsHold)
<1>1. SUFFICES ASSUME ~HostNames, ModuleRefs, NamesApart PROVE RegistrySpec => []AssertsHold
  OBVIOUS
<1>2. RegistrySpec => []RegistryInv  BY <1>1, RegistryInductive
<1>3. RegistryInv => AssertsHold  BY AssertsAndIndexes, Zenon
<1> QED  BY <1>2, <1>3, PTL

\* The check that a uuid finds is the one its name finds (polls and
\* polls_by_name): IndexesAgree, for any number of checks, requests and threads.
THEOREM IndexesStayTogether ==
    ~HostNames /\ ModuleRefs /\ NamesApart => (RegistrySpec => []IndexesAgree)
<1>1. SUFFICES ASSUME ~HostNames, ModuleRefs, NamesApart PROVE RegistrySpec => []IndexesAgree
  OBVIOUS
<1>2. RegistrySpec => []RegistryInv  BY <1>1, RegistryInductive
<1>3. RegistryInv => IndexesAgree  BY AssertsAndIndexes, Zenon
<1> QED  BY <1>2, <1>3, PTL

\* A check is not released while it runs (noit_poller_free_check_internal,
\* noit_check_recur_handler): NotReleasedWhileRunning, for any number of checks,
\* requests and threads.
THEOREM RunningKept ==
    ~HostNames /\ ModuleRefs /\ NamesApart => (RegistrySpec => []NotReleasedWhileRunning)
<1>1. SUFFICES ASSUME ~HostNames, ModuleRefs, NamesApart
               PROVE  RegistrySpec => []NotReleasedWhileRunning
  OBVIOUS
<1>2. RegistrySpec => []RegistryInv  BY <1>1, RegistryInductive
<1>3. RegistryInv => NotReleasedWhileRunning  BY RunningHeld, Zenon
<1> QED  BY <1>2, <1>3, PTL

\* When requests and recycler passes come one after the other, memory and database
\* agree whenever no request is at work (noit_check_lmdb_set_check,
\* noit_check_lmdb_delete_check, noit_check_lmdb_process_repl, the recycler):
\* MemoryMatchesDb, for any number of checks, requests and threads.
THEOREM MemoryFollowsDatabase ==
    Overlap = "none" /\ ~HostNames /\ ModuleRefs /\ NamesApart
      => (RegistrySpec => []MemoryMatchesDb)
<1>1. SUFFICES ASSUME Overlap = "none", ~HostNames, ModuleRefs, NamesApart
               PROVE  RegistrySpec => []MemoryMatchesDb
  OBVIOUS
<1>2. RegistrySpec => []RegistryInv  BY <1>1, RegistryInductive
<1>3. RegistryInit => MemoryInv  BY MemoryInitOK, Zenon
<1>4. RegistryInv /\ MemoryInv /\ [RegistryNext]_registryVars => MemoryInv'
  BY <1>1, MemoryNextKeeps, Zenon
<1>5. MemoryInv => MemoryMatchesDb  BY MemoryAgrees, Zenon
<1> QED  BY <1>2, <1>3, <1>4, <1>5, PTL DEF RegistrySpec
====
