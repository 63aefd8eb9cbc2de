---------------------------- MODULE CheckRegistry ----------------------------
(***************************************************************************)
(* The registry of checks of noitd when checks are kept in LMDB: the rows  *)
(* of the database, the two in-memory indexes (polls, by uuid, and         *)
(* polls_by_name, by target`name), the check objects with their reference  *)
(* counts and flags, the recycle bin, and the threads that work on them:   *)
(* the REST set jobs (several at a time), the one REST delete job, the     *)
(* recycler, the replication jobs of the cluster and the event loop that   *)
(* fires checks.                                                           *)
(*                                                                         *)
(* A region under polls_lock is one step, and so is an LMDB write          *)
(* transaction that takes no other lock.  A reload keeps its write         *)
(* transaction open from the first read to the end (txn) and needs the     *)
(* configuration read lock inside it; a replication job holds the          *)
(* configuration write lock (conf) for its whole run.                      *)
(*                                                                         *)
(* A name stands for a target`name pair.  A deleted row is loaded under    *)
(* the target "none" and its own uuid as the name, so the names are        *)
(* Name \cup Uuid.  Object 0 is the null pointer.                          *)
(***************************************************************************)
EXTENDS Integers, FiniteSets, Sequences

CONSTANTS
    Uuid,       \* the check ids
    Name,       \* the target`name pairs a client may ask for
    Seqs,       \* the config sequence numbers a client or peer may send
    Setter,     \* the threads of the lmdb_set_check job queue
    Deleter,    \* the threads of the lmdb_check_delete job queue
    Repl,       \* the replication jobs
    Asks,       \* the requests a set may carry: records [u, name, seq]
    Peer,       \* the rows a peer may send: [u, name, seq, deleted]
    MaxOps,     \* how many requests are made in all
    Overlap,    \* what runs at the same time: "any" requests, a request and
                \* the "recycler", or "none"
    HostNames,  \* TRUE: targets are host names, whose address may change
    Fires,      \* TRUE: checks fire and run
    ModuleRefs, \* TRUE: the module holds a reference while a check runs
    None

ASSUME RegistryConstants ==
    /\ Asks \subseteq [u : Uuid, name : Name, seq : Seqs]
    /\ Peer \subseteq [u : Uuid, name : Name, seq : Seqs, deleted : BOOLEAN]
    /\ Seqs \subseteq Nat /\ MaxOps \in Nat
    /\ Overlap \in {"any", "recycler", "none"}
    /\ HostNames \in BOOLEAN /\ Fires \in BOOLEAN
    /\ ModuleRefs \in BOOLEAN
    /\ Uuid \cap Name = {} /\ None \notin Uuid \cup Name
    /\ IsFiniteSet(Setter \cup Deleter \cup Repl)
    /\ None \notin Setter \cup Deleter \cup Repl
    /\ None \notin [name : Name \cup Uuid, seq : Nat, deleted : BOOLEAN]

Thread == Setter \cup Deleter \cup Repl
AnyName == Name \cup Uuid

VARIABLES
    db,       \* [Uuid -> a row or None]: the LMDB rows of each check
    txn,      \* the thread that holds the LMDB write transaction, or None
    conf,     \* the thread that holds the configuration write lock, or None
    reg,      \* polls, polls_by_name, the objects, the bin, failed asserts
    thr,      \* what each thread is doing
    rec,      \* the recycler: its step and the uuids it still has to purge
    ops       \* how many requests were made

registryVars == <<db, txn, conf, reg, thr, rec, ops>>

IdleThread == [pc |-> "idle", u |-> None, ask |-> None, outer |-> 0,
               indb |-> FALSE, old |-> 0, snap |-> FALSE,
               row |-> None, found |-> 0, n |-> 0]

(***************************************************************************)
(* Reference counts.  noit_check_deref releases the object when the count  *)
(* reaches zero, at once.                                                  *)
(***************************************************************************)
Held(ob) == [ob EXCEPT !.ref = ob.ref + 1]
Dropped(ob) == [ob EXCEPT !.ref = ob.ref - 1, !.released = ob.released \/ ob.ref = 1]

Ref(R, o) == IF o = 0 THEN R ELSE [R EXCEPT !.obj[o] = Held(R.obj[o])]
Deref(R, o) == IF o = 0 THEN R ELSE [R EXCEPT !.obj[o] = Dropped(R.obj[o])]

\* Mutant: a check that left the list by name is not put back.
AddToListOnce(R, o, first) ==
    LET k == R.obj[o].name
        there == R.byname[k]
    IN IF first /\ there = 0 THEN [Ref(R, o) EXCEPT !.byname[k] = o]
       ELSE IF there = 0 THEN R ELSE [Deref(R, there) EXCEPT !.byname[k] = 0]

(***************************************************************************)
(* noit_check_add_to_list: whatever check is found under the name leaves   *)
(* the list (unless this is the first time, when the object has no name    *)
(* yet), then the object is inserted, or disabled when the name is taken.  *)
(***************************************************************************)
AddToList(R, o, first) ==
    LET k == R.obj[o].name
        there == R.byname[k]
        R1 == IF first \/ there = 0 THEN R
              ELSE [Deref(R, there) EXCEPT !.byname[k] = 0]
    IN IF R1.byname[k] = 0
       THEN [Ref(R1, o) EXCEPT !.byname[k] = o]
       ELSE [R1 EXCEPT !.obj[o].disabled = TRUE]

(***************************************************************************)
(* noit_poller_free_check: the object is killed.  One that is running goes *)
(* to the recycle bin; otherwise its last table reference is dropped, and  *)
(* it must not be what its name finds.                                     *)
(***************************************************************************)
FreeInternal(R, o) ==
    IF R.obj[o].running THEN [R EXCEPT !.bin = @ \cup {o}]
    ELSE IF R.byname[R.obj[o].name] = o
         THEN [R EXCEPT !.failed = @ \cup {"existing"}]
         ELSE Deref(R, o)

FreeCheck(R, o) == FreeInternal([R EXCEPT !.obj[o].killed = TRUE], o)

(***************************************************************************)
(* noit_poller_deschedule_no_lock flags the check and takes a reference of *)
(* its own.  A check with a sequence number that is not being replaced     *)
(* stays in both indexes as a tombstone.  Any other leaves both, each with *)
(* its reference, and is freed: it goes to the bin while it runs, and the  *)
(* name it was found by is no longer its own.  Unlist does this for the    *)
(* checks of the uuids S, whose names must all be there.                   *)
(***************************************************************************)
Flagged(ob) == [ob EXCEPT !.disabled = TRUE, !.killed = TRUE, !.deleted = TRUE]

Unlisted(ob) ==
    LET out == Dropped(Dropped(Held(Flagged(ob))))
    IN IF ob.running THEN out ELSE Dropped(out)

Unlist(R, S) ==
    LET os == {R.polls[u] : u \in S}
        NameOf(u) == R.obj[R.polls[u]].name
    IN [R EXCEPT
          !.polls = [u \in Uuid |-> IF u \in S THEN 0 ELSE R.polls[u]],
          !.byname = [k \in AnyName |-> IF \E u \in S : NameOf(u) = k THEN 0 ELSE R.byname[k]],
          !.obj = [o \in DOMAIN R.obj |-> IF o \in os THEN Unlisted(R.obj[o]) ELSE R.obj[o]],
          !.bin = R.bin \cup {o \in os : R.obj[o].running},
          !.failed = IF \E u \in S : \/ R.byname[NameOf(u)] = 0
                                     \/ \E v \in S \ {u} : NameOf(v) = NameOf(u)
                     THEN R.failed \cup {"remove"} ELSE R.failed]

\* Mutant: a tombstone gives up its name.
DescheduleName(R, u, readding) ==
    LET o == R.polls[u]
    IN IF o = 0 THEN R
       ELSE IF R.obj[o].seq # 0 /\ ~readding
            THEN [R EXCEPT !.obj[o] = Flagged(R.obj[o]), !.byname[R.obj[o].name] = 0]
       ELSE Unlist(R, {u})

Deschedule(R, u, readding) ==
    LET o == R.polls[u]
    IN IF o = 0 THEN R
       ELSE IF R.obj[o].seq # 0 /\ ~readding
            THEN [R EXCEPT !.obj[o] = Held(Flagged(R.obj[o]))]
       ELSE Unlist(R, {u})

Become(t, th) == thr' = [thr EXCEPT ![t] = th]
Goto(t, pc) == thr' = [thr EXCEPT ![t].pc = pc]

\* a failed mtevAssert aborts the process
Alive == reg.failed = {}
At(t, pc) == Alive /\ thr[t].pc = pc

Quiet == \A t \in Thread : thr[t].pc = "idle"

MayAsk(t) ==
    /\ At(t, "idle")
    /\ ops < MaxOps
    /\ Overlap # "any" => Quiet
    /\ Overlap = "none" => rec.pc = "idle"
    /\ ops' = ops + 1

\* Mutant: the check found first is not referenced.
SetLookupNoRef(t) ==
    /\ MayAsk(t)
    /\ \E a \in Asks :
         Become(t, [thr[t] EXCEPT !.pc = "set_in_db", !.u = a.u, !.ask = a,
                    !.outer = reg.polls[a.u]])
    /\ UNCHANGED <<db, txn, conf, reg, rec>>

(***************************************************************************)
(* PUT /checks/set in a set job.  Each lookup is a step of its own; the    *)
(* old sequence number and the keys the row has now are read before the    *)
(* write transaction of noit_check_lmdb_configure_check begins.            *)
(***************************************************************************)
SetLookup(t) ==
    /\ MayAsk(t)
    /\ \E a \in Asks :
         /\ reg' = Ref(reg, reg.polls[a.u])
         /\ Become(t, [thr[t] EXCEPT !.pc = "set_in_db", !.u = a.u, !.ask = a,
                       !.outer = reg.polls[a.u]])
    /\ UNCHANGED <<db, txn, conf, rec>>

SetInDb(t) ==
    /\ At(t, "set_in_db")
    /\ LET indb == db[thr[t].u] # None
           exists == thr[t].outer # 0
       IN Become(t, [thr[t] EXCEPT !.indb = indb,
                     !.pc = CASE ~indb /\ exists  -> "end"       \* 403
                              [] indb /\ ~exists  -> "load"
                              [] OTHER            -> "set_dup"])
    /\ UNCHANGED <<db, txn, conf, reg, rec, ops>>

SetDup(t) ==
    /\ At(t, "set_dup")
    /\ LET named == reg.byname[thr[t].ask.name]
       IN Goto(t, IF named \in {0, thr[t].outer} THEN "set_read" ELSE "end") \* 409
    /\ UNCHANGED <<db, txn, conf, reg, rec, ops>>

SetRead(t) ==
    /\ At(t, "set_read")
    /\ LET row == db[thr[t].u]
       IN Become(t, [thr[t] EXCEPT !.pc = "set_write",
                     !.old = IF thr[t].indb /\ row # None THEN row.seq ELSE 0,
                     !.snap = row # None /\ row.deleted])
    /\ UNCHANGED <<db, txn, conf, reg, rec, ops>>

SetWrite(t) ==
    /\ At(t, "set_write")
    /\ txn = None
    /\ LET u == thr[t].u
           a == thr[t].ask
           row == db[u]
       IN IF thr[t].old # 0 /\ thr[t].old >= a.seq
          THEN Goto(t, "end") /\ UNCHANGED db                          \* 409
          ELSE /\ db' = [db EXCEPT ![u] =
                          [name |-> a.name, seq |-> a.seq,
                           deleted |-> row # None /\ row.deleted /\ ~thr[t].snap]]
               /\ Goto(t, "load")
    /\ UNCHANGED <<txn, conf, reg, rec, ops>>

End(t) ==
    /\ At(t, "end")
    /\ reg' = Deref(reg, thr[t].outer)
    /\ conf' = IF conf = t THEN None ELSE conf
    /\ thr' = [thr EXCEPT ![t] = IdleThread]
    /\ UNCHANGED <<db, txn, rec, ops>>

(***************************************************************************)
(* noit_check_lmdb_poller_process_check and                                *)
(* noit_poller_lmdb_create_check_from_database_locked: the reload of one   *)
(* check from its row, inside one LMDB write transaction.                  *)
(***************************************************************************)
LoadBegin(t) ==
    /\ At(t, "load")
    /\ txn = None
    /\ IF db[thr[t].u] = None
       THEN Goto(t, "end") /\ UNCHANGED txn
       ELSE /\ txn' = t
            /\ Become(t, [thr[t] EXCEPT !.pc = "load_inherit", !.row = db[thr[t].u]])
    /\ UNCHANGED <<db, conf, reg, rec, ops>>

LoadInherit(t) ==
    /\ At(t, "load_inherit")
    /\ conf \in {None, t}
    /\ Goto(t, "load_find")
    /\ UNCHANGED <<db, txn, conf, reg, rec, ops>>

\* noit_poller_check_found_and_backdated
LoadFind(t) ==
    /\ At(t, "load_find")
    /\ LET o == reg.polls[thr[t].u]
       IN /\ reg' = Ref(reg, o)
          /\ Become(t, [thr[t] EXCEPT !.found = o,
               !.pc = CASE o = 0 -> "sched"
                        [] o # 0 /\ reg.obj[o].seq > thr[t].row.seq -> "load_drop"
                        [] OTHER -> "load_replace"])
    /\ UNCHANGED <<db, txn, conf, rec, ops>>

LoadDeschedule(t) ==
    /\ At(t, "load_drop") \/ At(t, "load_replace")
    /\ reg' = Deschedule(reg, thr[t].u, TRUE)
    /\ Goto(t, IF thr[t].pc = "load_drop" THEN "load_end" ELSE "sched")
    /\ UNCHANGED <<db, txn, conf, rec, ops>>

(***************************************************************************)
(* noit_poller_schedule with noit_check_update: the object starts with two *)
(* references, is put in the list by name, and may be put there again once *)
(* its host name is resolved; then its flags are set, it is activated and  *)
(* put in the list once more; last it enters polls.                        *)
(***************************************************************************)
NewObject(u, row) ==
    [u |-> u, name |-> IF row.deleted THEN u ELSE row.name, seq |-> row.seq,
     ref |-> 2, disabled |-> FALSE, killed |-> FALSE, deleted |-> FALSE,
     running |-> FALSE, event |-> FALSE, released |-> FALSE]

Schedule(t) ==
    /\ At(t, "sched")
    /\ LET n == Len(reg.obj) + 1
           R == [reg EXCEPT !.obj = Append(@, NewObject(thr[t].u, thr[t].row))]
       IN /\ reg' = AddToList(R, n, TRUE)
          /\ Become(t, [thr[t] EXCEPT !.n = n, !.pc = IF HostNames THEN "resolve" ELSE "update"])
    /\ UNCHANGED <<db, txn, conf, rec, ops>>

Resolve(t) ==
    /\ At(t, "resolve")
    /\ reg' \in {reg, AddToList(reg, thr[t].n, FALSE)}
    /\ Goto(t, "update")
    /\ UNCHANGED <<db, txn, conf, rec, ops>>

\* flags are reset, the module schedules the first firing, then the list again
UpdateCheck(t) ==
    /\ At(t, "update")
    /\ LET n == thr[t].n
           R == [reg EXCEPT !.obj[n].disabled = FALSE]
           A == IF Fires THEN [Ref(R, n) EXCEPT !.obj[n].event = TRUE] ELSE R
       IN reg' = AddToList(A, n, FALSE)
    /\ Goto(t, "replace")
    /\ UNCHANGED <<db, txn, conf, rec, ops>>

Replace(t) ==
    /\ At(t, "replace")
    /\ LET n == thr[t].n
           was == reg.polls[thr[t].u]
           R == [reg EXCEPT !.polls[thr[t].u] = n]
       IN reg' = Deref(IF was = 0 THEN R ELSE FreeCheck(R, was), n)
    /\ Goto(t, IF thr[t].row.deleted THEN "bury" ELSE "load_end")
    /\ UNCHANGED <<db, txn, conf, rec, ops>>

Bury(t) ==
    /\ At(t, "bury")
    /\ reg' = Deschedule(reg, thr[t].u, FALSE)
    /\ Goto(t, "load_end")
    /\ UNCHANGED <<db, txn, conf, rec, ops>>

LoadEnd(t) ==
    /\ At(t, "load_end")
    /\ reg' = Deref(reg, thr[t].found)
    /\ txn' = None
    /\ Become(t, [thr[t] EXCEPT !.pc = "end", !.found = 0, !.n = 0, !.row = None])
    /\ UNCHANGED <<db, conf, rec, ops>>

Load(t) == LoadBegin(t) \/ LoadInherit(t) \/ LoadFind(t) \/ LoadDeschedule(t)
             \/ Schedule(t) \/ Resolve(t) \/ UpdateCheck(t) \/ Replace(t)
             \/ Bury(t) \/ LoadEnd(t)

(***************************************************************************)
(* DELETE /checks/delete in the delete job.  The check descheduled is the  *)
(* one polls holds now, the one whose sequence number is set afterwards is *)
(* the one that was looked up first.                                       *)
(***************************************************************************)
DeleteLookup(t) ==
    /\ MayAsk(t)
    /\ \E u \in Uuid :
         /\ reg' = Ref(reg, reg.polls[u])
         /\ Become(t, [thr[t] EXCEPT !.u = u, !.outer = reg.polls[u],
              !.pc = IF reg.polls[u] = 0 THEN "del_remove" ELSE "del_desched"])
    /\ UNCHANGED <<db, txn, conf, rec>>

DeleteDeschedule(t) ==
    /\ At(t, "del_desched")
    /\ LET o == reg.polls[thr[t].u]
       IN Goto(t, IF o # 0 /\ reg.obj[o].seq # 0 THEN "del_mark" ELSE "del_remove")
    /\ reg' = Deschedule(reg, thr[t].u, FALSE)
    /\ UNCHANGED <<db, txn, conf, rec, ops>>

\* Mutant: only the sequence number of the row changes.
DeleteMarkSeq(t) ==
    /\ At(t, "del_mark")
    /\ txn = None
    /\ LET u == thr[t].u
       IN IF db[u] = None THEN UNCHANGED <<db, reg>>
          ELSE /\ db' = [db EXCEPT ![u].seq = db[u].seq + 1]
               /\ reg' = [reg EXCEPT !.obj[thr[t].outer].seq = db[u].seq + 1]
    /\ Goto(t, "end")
    /\ UNCHANGED <<txn, conf, rec, ops>>

\* noit_check_lmdb_bump_seq_and_mark_deleted, then the object gets the number
DeleteMark(t) ==
    /\ At(t, "del_mark")
    /\ txn = None
    /\ LET u == thr[t].u
           row == db[u]
           seq == IF row = None THEN 0 ELSE row.seq + 1
       IN /\ db' = [db EXCEPT ![u] =
                      [name |-> IF row = None THEN u ELSE row.name,
                       seq |-> seq, deleted |-> TRUE]]
          /\ reg' = [reg EXCEPT !.obj[thr[t].outer].seq = IF seq = 0 THEN 1 ELSE seq]
    /\ Goto(t, "end")
    /\ UNCHANGED <<txn, conf, rec, ops>>

\* noit_check_lmdb_remove_check_from_db, forced
DeleteRemove(t) ==
    /\ At(t, "del_remove")
    /\ txn = None
    /\ db' = [db EXCEPT ![thr[t].u] = None]
    /\ Goto(t, "end")
    /\ UNCHANGED <<txn, conf, reg, rec, ops>>

(***************************************************************************)
(* A replication job: noit_check_lmdb_process_repl for one check sent by a *)
(* peer, under the configuration write lock.  The sequence test of the     *)
(* conversion looks up an uninitialised uuid: it finds nothing, or the row *)
(* of whatever check the stack happens to name.                            *)
(***************************************************************************)
ReplBegin(t) ==
    /\ MayAsk(t)
    /\ conf = None
    /\ conf' = t
    /\ \E p \in Peer :
         Become(t, [thr[t] EXCEPT !.u = p.u, !.ask = p,
           !.pc = LET o == reg.polls[p.u]
                  IN IF o # 0 /\ reg.obj[o].seq >= p.seq THEN "end" ELSE "repl_test"])
    /\ UNCHANGED <<db, txn, reg, rec>>

ReplTest(t) ==
    /\ At(t, "repl_test")
    /\ txn = None
    /\ \/ Goto(t, "repl_write")
       \/ /\ \E w \in Uuid : db[w] # None /\ db[w].seq > thr[t].ask.seq
          /\ Goto(t, "load")
    /\ UNCHANGED <<db, txn, conf, reg, rec, ops>>

ReplWrite(t) ==
    /\ At(t, "repl_write")
    /\ txn = None
    /\ LET a == thr[t].ask
       IN db' = [db EXCEPT ![a.u] = [name |-> a.name, seq |-> a.seq,
                                     deleted |-> a.deleted]]
    /\ Goto(t, "load")
    /\ UNCHANGED <<txn, conf, reg, rec, ops>>

(***************************************************************************)
(* The recycler.  A scan purges, under polls_lock, every tombstone that no *)
(* peer still has to fetch; then the rows still marked deleted are removed *)
(* one by one; then the checks of the bin that stopped running are freed.  *)
(***************************************************************************)
Tombstones == {u \in Uuid : reg.polls[u] # 0 /\ reg.obj[reg.polls[u]].deleted}

Purged(R, S) ==
    Unlist([R EXCEPT !.obj = [o \in DOMAIN R.obj |->
                                IF \E u \in S : R.polls[u] = o
                                THEN [R.obj[o] EXCEPT !.seq = 0] ELSE R.obj[o]]], S)

RecycleScan ==
    /\ Alive /\ rec.pc = "idle"
    /\ Overlap = "none" => Quiet
    /\ \E S \in SUBSET Tombstones :
         /\ S # {} \/ reg.bin # {}     \* a scan with nothing to do changes nothing
         /\ reg' = Purged(reg, S)
         /\ rec' = [pc |-> "purge", todo |-> S]
    /\ UNCHANGED <<db, txn, conf, thr, ops>>

RecycleRemove ==
    /\ Alive /\ rec.pc = "purge"
    /\ txn = None
    /\ \E u \in rec.todo :
         /\ db' = IF db[u] # None /\ db[u].deleted
                  THEN [db EXCEPT ![u] = None] ELSE db
         /\ rec' = [rec EXCEPT !.todo = @ \ {u}]
    /\ UNCHANGED <<txn, conf, reg, thr, ops>>

Reclaimed(R, S) ==
    [R EXCEPT !.bin = R.bin \ S,
              !.obj = [o \in DOMAIN R.obj |-> IF o \in S THEN Dropped(R.obj[o]) ELSE R.obj[o]],
              !.failed = IF \E o \in S : R.byname[R.obj[o].name] = o
                         THEN R.failed \cup {"existing"} ELSE R.failed]

RecycleBin ==
    /\ Alive /\ rec.pc = "purge"
    /\ rec.todo = {}
    /\ reg' = Reclaimed(reg, {o \in reg.bin : ~reg.obj[o].running})
    /\ rec' = [rec EXCEPT !.pc = "idle"]
    /\ UNCHANGED <<db, txn, conf, thr, ops>>

\* Mutant: the module takes no reference for the run.
FireBare(o) ==
    /\ Alive /\ reg.obj[o].event
    /\ ~reg.obj[o].released
    /\ LET B == [reg EXCEPT !.obj[o].running = TRUE]
       IN reg' = IF reg.obj[o].disabled \/ reg.obj[o].killed
                 THEN Deref([B EXCEPT !.obj[o].event = FALSE], o) ELSE B
    /\ UNCHANGED <<db, txn, conf, thr, rec, ops>>

(***************************************************************************)
(* The event loop.  noit_check_recur_handler resolves the target again (a  *)
(* changed address puts the check in the list by name once more), sets up  *)
(* the next firing unless the check is disabled or killed, dispatches the  *)
(* check in either case, and drops the reference of this firing.           *)
(***************************************************************************)
Fire(o) ==
    /\ Alive /\ reg.obj[o].event
    /\ ~reg.obj[o].released
    /\ \E moved \in IF HostNames THEN BOOLEAN ELSE {FALSE}, run \in BOOLEAN :
         LET R == IF moved THEN AddToList(reg, o, FALSE) ELSE reg
             B == IF ~run \/ R.obj[o].running THEN R
                  ELSE [IF ModuleRefs THEN Ref(R, o) ELSE R
                          EXCEPT !.obj[o].running = TRUE]
         IN reg' = IF R.obj[o].disabled \/ R.obj[o].killed
                   THEN Deref([B EXCEPT !.obj[o].event = FALSE], o)
                   ELSE B
    /\ UNCHANGED <<db, txn, conf, thr, rec, ops>>

\* noit_check_end
Finish(o) ==
    /\ Alive /\ reg.obj[o].running
    /\ LET R == [reg EXCEPT !.obj[o].running = FALSE]
       IN reg' = IF ModuleRefs THEN Deref(R, o) ELSE R
    /\ UNCHANGED <<db, txn, conf, thr, rec, ops>>

RegistryInit ==
    /\ db = [u \in Uuid |-> None]
    /\ txn = None /\ conf = None
    /\ reg = [polls |-> [u \in Uuid |-> 0], byname |-> [k \in AnyName |-> 0],
              obj |-> << >>, bin |-> {}, failed |-> {}]
    /\ thr = [t \in Thread |-> IdleThread]
    /\ rec = [pc |-> "idle", todo |-> {}]
    /\ ops = 0

SetRequest(t) == SetLookup(t) \/ SetInDb(t) \/ SetDup(t) \/ SetRead(t) \/ SetWrite(t)
            \/ Load(t) \/ End(t)
DeleteRequest(t) == DeleteLookup(t) \/ DeleteDeschedule(t) \/ DeleteMark(t)
               \/ DeleteRemove(t) \/ End(t)
Replicate(t) == ReplBegin(t) \/ ReplTest(t) \/ ReplWrite(t) \/ Load(t) \/ End(t)
Recycle == RecycleScan \/ RecycleRemove \/ RecycleBin

RegistryNext ==
    \/ \E t \in Setter : SetRequest(t)
    \/ \E t \in Deleter : DeleteRequest(t)
    \/ \E t \in Repl : Replicate(t)
    \/ Recycle
    \/ \E o \in DOMAIN reg.obj : Fire(o) \/ Finish(o)

RegistrySpec == RegistryInit /\ [][RegistryNext]_registryVars

Objects == DOMAIN reg.obj
B2N(b) == IF b THEN 1 ELSE 0

\* How many references to object o the tables, the bin, the pending firing, the
\* running module and the threads hold.
Holders(o) ==
    LET ob == reg.obj[o]
    IN Cardinality({u \in Uuid : reg.polls[u] = o})
       + Cardinality({k \in AnyName : reg.byname[k] = o})
       + B2N(o \in reg.bin) + B2N(ob.event) + B2N(ob.running /\ ModuleRefs)
       + Cardinality({t \in Thread : thr[t].outer = o})
       + Cardinality({t \in Thread : thr[t].found = o})
       + 2 * Cardinality({t \in Thread : thr[t].n = o
                            /\ thr[t].pc \in {"resolve", "update", "replace"}})

(***************************************************************************)
(* No reference outlives its object: the count of a check that is not      *)
(* released covers everyone who can still reach it, and a released check   *)
(* is out of both indexes, out of the bin, has no firing pending and is    *)
(* held by no set, delete or reload in progress (noit_check_ref and        *)
(* noit_check_deref across noit_check.c and noit_check_lmdb.c).            *)
(***************************************************************************)
RefsCover ==
    \A o \in Objects :
        IF reg.obj[o].released THEN Holders(o) = 0
        ELSE reg.obj[o].ref >= Holders(o) /\ reg.obj[o].ref > 0

(***************************************************************************)
(* The assertions of the registry hold: the check being descheduled is in  *)
(* polls_by_name (mtevAssert in noit_poller_deschedule_no_lock) and the    *)
(* check being freed is not (mtevAssert in noit_poller_free_check_internal).*)
(***************************************************************************)
AssertsHold == reg.failed = {}

(***************************************************************************)
(* The two indexes agree: a check that its uuid finds is the check that    *)
(* its name finds, whatever set, delete, replication and recycling         *)
(* interleave, as long as no two checks want the same name.                *)
(***************************************************************************)
IndexesAgree ==
    \A u \in Uuid : reg.polls[u] # 0 =>
        /\ reg.obj[reg.polls[u]].u = u
        /\ reg.byname[reg.obj[reg.polls[u]].name] = reg.polls[u]

(***************************************************************************)
(* When requests and recycler passes come one after the other, memory and  *)
(* database agree after each: a live row runs as a live check with its     *)
(* name and sequence number, a deleted row is a tombstone or purged from   *)
(* memory, and no check without a row is alive.                            *)
(***************************************************************************)
MemoryMatchesDb ==
    Quiet =>
      \A u \in Uuid :
        LET row == db[u]
            o == reg.polls[u]
        IN IF (IF row = None THEN TRUE ELSE row.deleted) THEN o = 0 \/ reg.obj[o].deleted
           ELSE /\ o # 0
                /\ ~reg.obj[o].deleted /\ ~reg.obj[o].disabled
                /\ reg.obj[o].name = row.name /\ reg.obj[o].seq = row.seq

(***************************************************************************)
(* A set that was answered took effect: when the reload of an accepted PUT *)
(* /checks/set ends, the row of the check is the one the client sent       *)
(* (noit_check_lmdb_set_check_asynch).                                     *)
(***************************************************************************)
SetTakesEffect ==
    \A t \in Setter : thr[t].pc = "load_end" =>
        /\ db[thr[t].u] # None
        /\ db[thr[t].u] = [name |-> thr[t].ask.name, seq |-> thr[t].ask.seq,
                           deleted |-> FALSE]

(***************************************************************************)
(* A check is not released while it runs                                   *)
(* (noit_poller_free_check_internal, noit_check_recur_handler).            *)
(***************************************************************************)
NotReleasedWhileRunning ==
    \A o \in Objects : reg.obj[o].running => ~reg.obj[o].released

(***************************************************************************)
(* Fairness: a job that can take its next step takes it, and the recycler  *)
(* and the event loop keep running.  Nobody has to make a request.         *)
(***************************************************************************)
SetStep(t) == SetInDb(t) \/ SetDup(t) \/ SetRead(t) \/ SetWrite(t) \/ Load(t) \/ End(t)
DeleteStep(t) == DeleteDeschedule(t) \/ DeleteMark(t) \/ DeleteRemove(t) \/ End(t)
ReplStep(t) == ReplTest(t) \/ ReplWrite(t) \/ Load(t) \/ End(t)

RegistryFairness ==
    /\ \A t \in Setter : WF_registryVars(SetStep(t))
    /\ \A t \in Deleter : WF_registryVars(DeleteStep(t))
    /\ \A t \in Repl : WF_registryVars(ReplStep(t))
    /\ WF_registryVars(RecycleRemove) /\ WF_registryVars(RecycleBin)

RegistryFairSpec == RegistrySpec /\ RegistryFairness

(***************************************************************************)
(* Every set request is answered.                                          *)
(***************************************************************************)
SetAnswered == \A t \in Setter : thr[t].pc # "idle" ~> thr[t].pc = "idle"
==============================================================================
