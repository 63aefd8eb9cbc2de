----------------------------- MODULE FilterSets -----------------------------
(***************************************************************************)
(* The life of filtersets in noitd when they are kept in LMDB: the rows of *)
(* the database, the in-memory table filtersets with its reference-counted *)
(* objects, and the threads that work on them.  The job queues of REST     *)
(* set, delete and cull have one thread each (noitd.c, noitd_jobqs_init);  *)
(* besides them there is the replication job, the console, and the threads *)
(* that apply filtersets to metrics.                                       *)
(*                                                                         *)
(* A region under filterset_lock is one step, and so is an LMDB            *)
(* transaction, except the one of a refresh, which stays open (txn) while  *)
(* every row is loaded.  A cull keeps the read side of the instance lock   *)
(* for its whole run; enlarging a full map needs the write side.           *)
(*                                                                         *)
(* A document is [seq, doc]: doc tells documents with the same sequence    *)
(* number apart.  Object 0 is the null pointer.                            *)
(***************************************************************************)
EXTENDS Integers, FiniteSets, Sequences, Functions

CONSTANTS
    FilterName,        \* the filterset names
    Asked,       \* those that clients, peers and operators ask for; the
                 \* others are there, and in use, from the start
    KeptNames,        \* the names whose documents say cull="false"
    FilterSeqs,        \* the sequence numbers a client or a peer may send
    Applier,     \* the threads that apply filtersets
    MaxJobs       \* how many jobs are started in all

ASSUME FilterConstants ==
    /\ FilterName # {} /\ IsFiniteSet(FilterName) /\ IsFiniteSet(Applier)
    /\ KeptNames \subseteq FilterName /\ Asked \subseteq FilterName
    /\ FilterSeqs \subseteq Nat /\ MaxJobs \in Nat
    /\ Applier \cap {"set", "repl", "cull", "console"} = {}

Job == {"set", "repl", "cull", "console"}
FilterThread == Job \cup Applier

VARIABLES
    filterRows,        \* [FilterName -> a document, or Absent]: the rows of the database
    filtersets,\* [FilterName -> object]: the table in memory
    obj,       \* the objects ever made: [seq, doc, ref_cnt, idle]
    worker,       \* [FilterThread -> what it is doing]
    leaked,    \* filterset_lock was left locked
    uses,      \* the names that some check refers to
    unmarked,  \* the names whose table entry changed since their last mark
    causes,    \* [FilterName -> why row and table entry may differ], a history
    late,      \* names first used since a cull went through the checks, a history
    started        \* how many jobs were started

filterSetsVars == <<filterRows, filtersets, obj, worker, leaked, uses, unmarked, causes, late, started>>

-----------------------------------------------------------------------------
(* Objects and threads *)

Absent == [seq |-> -1, doc |-> 0]
DocOf(o) == [seq |-> obj[o].seq, doc |-> obj[o].doc]
Dead == [seq |-> -1, doc |-> 0, ref_cnt |-> 0, idle |-> FALSE]
Freed(o) == obj[o] = Dead

\* What a thread does: its place, the name, document and object at hand, and
\* the names it still has to go through.
Doing(at, n, d, o, left) == [at |-> at, n |-> n, d |-> d, o |-> o, left |-> left]
Idle == Doing("idle", CHOOSE n \in FilterName : TRUE, Absent, 0, {})
Does(t, w) == worker' = [worker EXCEPT ![t] = w]
Go(t, at) == worker' = [worker EXCEPT ![t].at = at]
Done(t) == Does(t, Idle)

\* Where a thread is between the first and the last step of a change to a row
\* and its table entry.
Changing(t, n) ==
    \/ /\ t \in {"set", "repl"} /\ worker[t].n = n
       /\ worker[t].at \notin {"idle", "show"}
    \/ t = "cull" /\ worker[t].n = n /\ worker[t].at \in {"remove", "row"}
    \/ t = "console" /\ worker[t].at \in {"load", "compile", "mark"}

\* History: the changes to n overlap when one starts during another.
Overlapping(t, N) ==
    [n \in FilterName |-> causes[n] \cup
        IF n \in N /\ \E u \in Job \ {t} : Changing(u, n) THEN {"overlap"} ELSE {}]

\* LMDB has one writer: a refresh keeps its write transaction open.
filterTxn == worker["console"].at \in {"load", "compile", "mark"}
\* A cull holds instance->lock for reading.
instanceRead == worker["cull"].at # "idle"

Begin == started < MaxJobs /\ started' = started + 1

-----------------------------------------------------------------------------
(* noit_filters.c *)

\* noit_filter_filterset_free: the last reference frees the object.
Free(os, p) == [o \in DOMAIN os |->
    IF o # p THEN os[o]
    ELSE IF os[o].ref_cnt = 1 THEN Dead ELSE [os[o] EXCEPT !.ref_cnt = @ - 1]]

\* noit_filter_compile_add up to its last call, or the same in
\* noit_filters_lmdb_load_one_from_db_locked: a new object for the document,
\* then noit_filter_compile_add_load_set under the lock.  The thread goes to
\* "mark" when the new object is used and to next when it is not.
CompileAdd(t, n, d, next) ==
    LET o == Len(obj) + 1
        fresh == [seq |-> d.seq, doc |-> d.doc, ref_cnt |-> 1, idle |-> FALSE]
        old == filtersets[n]
        touched == IF old = 0 THEN obj ELSE [obj EXCEPT ![old].idle = FALSE]
    IN  /\ ~leaked
        /\ IF old # 0 /\ obj[old].seq >= d.seq
           THEN /\ obj' = Append(touched, Dead)
                /\ Does(t, Doing(next, n, d, o, worker[t].left))
                /\ UNCHANGED <<filtersets, unmarked>>
           ELSE /\ obj' = Append(Free(touched, old), fresh)
                /\ filtersets' = [filtersets EXCEPT ![n] = o]
                /\ unmarked' = unmarked \cup {n}
                /\ Does(t, Doing("mark", n, d, o, worker[t].left))

\* The end of noit_filter_compile_add_load_set, after the unlock: the set's
\* sequence number and name are read without a reference, so a freed object
\* may read as one with a negative number, which is not marked.
MarkChanged(t, next) ==
    /\ worker[t].at = "mark"
    /\ \/ unmarked' = unmarked \ {worker[t].n}
       \/ Freed(worker[t].o) /\ UNCHANGED unmarked
    /\ Go(t, next)

\* noit_filter_remove_from_name: out of the table, and the table's reference.
RemoveFromName(n) ==
    /\ obj' = Free(obj, filtersets[n])
    /\ filtersets' = [filtersets EXCEPT ![n] = 0]

\* Mutant of ApplyBegin: the rules are walked without a reference.
ApplyBeginBare(a, n) ==
    /\ worker[a].at = "idle" /\ ~leaked /\ filtersets[n] # 0
    /\ obj' = [obj EXCEPT ![filtersets[n]].idle = FALSE]
    /\ Does(a, Doing("walk", n, Absent, filtersets[n], {}))
    /\ UNCHANGED <<filterRows, filtersets, leaked, uses, unmarked, causes, late, started>>

\* noit_apply_filterset: look the set up, touch it and take a reference ...
ApplyBegin(a, n) ==
    /\ worker[a].at = "idle" /\ ~leaked /\ filtersets[n] # 0
    /\ obj' = [obj EXCEPT ![filtersets[n]].ref_cnt = @ + 1,
                          ![filtersets[n]].idle = FALSE]
    /\ Does(a, Doing("walk", n, Absent, filtersets[n], {}))
    /\ UNCHANGED <<filterRows, filtersets, leaked, uses, unmarked, causes, late, started>>

\* ... walk the rules without the lock, and drop the reference.
ApplyEnd(a) ==
    /\ worker[a].at = "walk"
    /\ obj' = Free(obj, worker[a].o)
    /\ Done(a)
    /\ UNCHANGED <<filterRows, filtersets, leaked, uses, unmarked, causes, late, started>>

\* noit_console_filter_show_running: a reference for the time it prints; a
\* name that is not there returns without unlocking filterset_lock.
ShowRunning(n) ==
    /\ worker["console"].at = "idle" /\ ~leaked
    /\ \/ /\ filtersets[n] # 0
          /\ obj' = [obj EXCEPT ![filtersets[n]].ref_cnt = @ + 1]
          /\ Does("console", Doing("walk", n, Absent, filtersets[n], {}))
          /\ UNCHANGED leaked
       \/ /\ filtersets[n] = 0
          /\ leaked' = TRUE
          /\ UNCHANGED <<obj, worker>>
    /\ UNCHANGED <<filterRows, filtersets, uses, unmarked, causes, late, started>>

ShowRunningEnd ==
    /\ worker["console"].at = "walk"
    /\ obj' = Free(obj, worker["console"].o)
    /\ Done("console")
    /\ UNCHANGED <<filterRows, filtersets, leaked, uses, unmarked, causes, late, started>>

-----------------------------------------------------------------------------
(* Setting a filterset: noit_filters_lmdb_rest_set_filter_asynch *)

\* The row is looked up and the sequence number tested; 409 ends the job.
\* History: sequence number 0 passes every test and replaces the row, but not
\* a table entry.
SetBegin(n, s) ==
    LET d == [seq |-> s, doc |-> started + 1] IN
    /\ worker["set"].at = "idle" /\ Begin
    /\ \/ /\ filterRows[n] # Absent /\ filterRows[n].seq >= s /\ s # 0
          /\ UNCHANGED <<worker, causes>>
       \/ /\ filterRows[n] = Absent \/ filterRows[n].seq < s \/ s = 0
          /\ Does("set", Doing("row", n, d, 0, {}))
          /\ causes' = [Overlapping("set", {n}) EXCEPT ![n] = @ \cup
                            IF s = 0 /\ filtersets[n] # 0 THEN {"zero"} ELSE {}]
    /\ UNCHANGED <<filterRows, filtersets, obj, leaked, uses, unmarked, late>>

\* noit_filters_lmdb_write_finalized_fb_to_lmdb.  On a full map the loop's
\* continue leaves its do-while(0): after the resize nothing is written, and
\* the caller is told that it was.
WriteRow(t, next) ==
    /\ worker[t].at = "row" /\ ~filterTxn
    /\ \/ /\ filterRows' = [filterRows EXCEPT ![worker[t].n] = worker[t].d]
          /\ Go(t, next)
          /\ UNCHANGED causes
       \/ /\ Go(t, "resize")
          /\ causes' = [causes EXCEPT ![worker[t].n] = @ \cup {"full"}]
          /\ UNCHANGED filterRows

\* noit_lmdb_resize_instance: waits for the readers of the instance lock.
Resize(t, next) ==
    /\ worker[t].at = "resize" /\ ~instanceRead
    /\ Go(t, next)
    /\ UNCHANGED <<filterRows, filtersets, obj, leaked, uses, unmarked, causes, late, started>>

SetRow ==
    /\ WriteRow("set", "compile")
    /\ UNCHANGED <<filtersets, obj, leaked, uses, unmarked, late, started>>

SetCompile ==
    /\ worker["set"].at = "compile"
    /\ CompileAdd("set", worker["set"].n, worker["set"].d, "show")
    /\ UNCHANGED <<filterRows, leaked, uses, causes, late, started>>

SetMark ==
    /\ MarkChanged("set", "show")
    /\ UNCHANGED <<filterRows, filtersets, obj, leaked, uses, causes, late, started>>

\* noit_filters_lmdb_rest_set_filter_complete: the answer is the row.
SetShow ==
    /\ worker["set"].at = "show"
    /\ Done("set")
    /\ UNCHANGED <<filterRows, filtersets, obj, leaked, uses, unmarked, causes, late, started>>

FilterSetStep == SetRow \/ Resize("set", "compile") \/ SetCompile \/ SetMark \/ SetShow

-----------------------------------------------------------------------------
(* Replication: noit_filters_lmdb_process_repl, one filterset of the document *)

\* Mutant of ReplRow: a replicated set is not written to the database.
ReplRowSkipped ==
    /\ worker["repl"].at = "row"
    /\ Go("repl", "end")
    /\ UNCHANGED <<filterRows, filtersets, obj, leaked, uses, unmarked, causes, late, started>>

\* noit_filter_get_seq takes the pointer under the lock ...
FilterReplBegin(n, s) ==
    /\ worker["repl"].at = "idle" /\ Begin /\ ~leaked
    /\ Does("repl", Doing("seq", n, [seq |-> s, doc |-> started + 1], filtersets[n], {}))
    /\ causes' = Overlapping("repl", {n})
    /\ UNCHANGED <<filterRows, filtersets, obj, leaked, uses, unmarked, late>>

\* ... and reads the number after it: any number, when the object was freed.
ReplSeq ==
    LET r == worker["repl"]
        newEnough == IF r.o = 0 THEN {FALSE}
                     ELSE IF Freed(r.o) THEN BOOLEAN ELSE {obj[r.o].seq >= r.d.seq}
    IN
    /\ r.at = "seq"
    /\ \E skip \in newEnough : IF skip THEN Done("repl") ELSE Go("repl", "compile")
    /\ UNCHANGED <<filterRows, filtersets, obj, leaked, uses, unmarked, causes, late, started>>

ReplCompile ==
    /\ worker["repl"].at = "compile"
    /\ CompileAdd("repl", worker["repl"].n, worker["repl"].d, "end")
    /\ UNCHANGED <<filterRows, leaked, uses, causes, late, started>>

ReplMark ==
    /\ MarkChanged("repl", "row")
    /\ UNCHANGED <<filterRows, filtersets, obj, leaked, uses, causes, late, started>>

ReplRow ==
    /\ WriteRow("repl", "end")
    /\ UNCHANGED <<filtersets, obj, leaked, uses, unmarked, late, started>>

ReplEnd ==
    /\ worker["repl"].at = "end"
    /\ Done("repl")
    /\ UNCHANGED <<filterRows, filtersets, obj, leaked, uses, unmarked, causes, late, started>>

FilterReplStep == ReplSeq \/ ReplCompile \/ ReplMark \/ ReplRow \/ Resize("repl", "end") \/ ReplEnd

-----------------------------------------------------------------------------
(* Delete and cull *)

\* noit_filters_lmdb_rest_delete_filter_asynch: the row goes, the table entry
\* stays (noit_filter_remove_from_name is not called).
FilterDelete(n) ==
    /\ Begin /\ ~filterTxn
    /\ filterRows[n] # Absent
    /\ filterRows' = [filterRows EXCEPT ![n] = Absent]
    /\ causes' = [causes EXCEPT ![n] = @ \cup {"deleted"}]
    /\ UNCHANGED <<filtersets, obj, worker, leaked, uses, unmarked, late>>

\* noit_filters_lmdb_cull_unused: the rows that may be culled ...
CullScan ==
    /\ worker["cull"].at = "idle" /\ Begin /\ ~filterTxn
    /\ Does("cull", Doing("uses", worker["cull"].n, Absent, 0,
                          {n \in FilterName \ KeptNames : filterRows[n] # Absent}))
    /\ UNCHANGED <<filterRows, filtersets, obj, leaked, uses, unmarked, causes, late>>

\* Mutant of CullUses: what the checks refer to is counted, not removed.
CullUsesCounted ==
    LET left == worker["cull"].left IN
    /\ worker["cull"].at = "uses"
    /\ Does("cull", Doing("next", worker["cull"].n, Absent, 0, IF left \cap uses = {} THEN {} ELSE left))
    /\ UNCHANGED <<filterRows, filtersets, obj, leaked, uses, unmarked, causes, late, started>>

\* ... without those that a check refers to, if there are such ...
CullUses ==
    LET left == worker["cull"].left IN
    /\ worker["cull"].at = "uses"
    /\ Does("cull", Doing("next", worker["cull"].n, Absent, 0,
                          IF left \cap uses = {} THEN {} ELSE left \ uses))
    /\ UNCHANGED <<filterRows, filtersets, obj, leaked, uses, unmarked, causes, late, started>>

\* ... one after the other: noit_filter_check_is_cull_timedout ...
CullNext ==
    /\ worker["cull"].at = "next" /\ ~leaked
    /\ \E n \in worker["cull"].left :
         LET timedout == filtersets[n] # 0 /\ obj[filtersets[n]].idle IN
         /\ Does("cull", Doing(IF timedout THEN "remove" ELSE "next", n, Absent, 0,
                               worker["cull"].left \ {n}))
         /\ causes' = IF timedout THEN Overlapping("cull", {n}) ELSE causes
    /\ UNCHANGED <<filterRows, filtersets, obj, leaked, uses, unmarked, late, started>>

\* ... noit_filter_remove_from_name ...
CullRemove ==
    LET n == worker["cull"].n IN
    /\ worker["cull"].at = "remove" /\ ~leaked
    /\ IF filtersets[n] # 0 THEN RemoveFromName(n) /\ Go("cull", "row")
       ELSE Go("cull", "next") /\ UNCHANGED <<filtersets, obj>>
    /\ UNCHANGED <<filterRows, leaked, uses, unmarked, causes, late, started>>

\* Mutant of CullRow: removing the row waits for the write side of the
\* instance lock, which the cull itself holds for reading.
CullRowLocked ==
    /\ worker["cull"].at = "row" /\ ~filterTxn /\ ~instanceRead
    /\ filterRows' = [filterRows EXCEPT ![worker["cull"].n] = Absent]
    /\ Go("cull", "next")
    /\ UNCHANGED <<filtersets, obj, leaked, uses, unmarked, causes, late, started>>

\* ... and noit_filters_lmdb_remove_from_db.
CullRow ==
    /\ worker["cull"].at = "row" /\ ~filterTxn
    /\ filterRows' = [filterRows EXCEPT ![worker["cull"].n] = Absent]
    /\ Go("cull", "next")
    /\ UNCHANGED <<filtersets, obj, leaked, uses, unmarked, causes, late, started>>

CullEnd ==
    /\ worker["cull"].at = "next" /\ worker["cull"].left = {}
    /\ Done("cull")
    /\ late' = {}
    /\ UNCHANGED <<filterRows, filtersets, obj, leaked, uses, unmarked, causes, started>>

CullStep == CullUses \/ CullNext \/ CullRemove \/ CullRow \/ CullEnd

-----------------------------------------------------------------------------
(* Loading the database: noit_filters_lmdb_filters_from_lmdb *)

\* From the console (noit_refresh_filtersets), row by row.
RefreshBegin ==
    /\ worker["console"].at = "idle" /\ Begin
    /\ Does("console", Doing("load", worker["console"].n, Absent, 0,
                             {n \in FilterName : filterRows[n] # Absent}))
    /\ causes' = Overlapping("console", FilterName)
    /\ UNCHANGED <<filterRows, filtersets, obj, leaked, uses, unmarked, late>>

RefreshRow ==
    /\ worker["console"].at = "load"
    /\ \E n \in worker["console"].left :
         Does("console", Doing("compile", n, filterRows[n], 0, worker["console"].left \ {n}))
    /\ UNCHANGED <<filterRows, filtersets, obj, leaked, uses, unmarked, causes, late, started>>

RefreshCompile ==
    /\ worker["console"].at = "compile"
    /\ CompileAdd("console", worker["console"].n, worker["console"].d, "load")
    /\ UNCHANGED <<filterRows, leaked, uses, causes, late, started>>

RefreshMark ==
    /\ MarkChanged("console", "load")
    /\ UNCHANGED <<filterRows, filtersets, obj, leaked, uses, causes, late, started>>

RefreshEnd ==
    /\ worker["console"].at = "load" /\ worker["console"].left = {}
    /\ Done("console")
    /\ UNCHANGED <<filterRows, filtersets, obj, leaked, uses, unmarked, causes, late, started>>

RefreshStep == RefreshRow \/ RefreshCompile \/ RefreshMark \/ RefreshEnd

\* noit_filters_init loads the same rows before any other thread runs.
LoadOrder(rows) ==
    LET present == {n \in FilterName : rows[n] # Absent}
    IN  CHOOSE f \in Injection(1 .. Cardinality(present), present) : TRUE
LoadedObjects(rows) ==
    [i \in 1 .. Len(LoadOrder(rows)) |->
        [seq |-> rows[LoadOrder(rows)[i]].seq, doc |-> rows[LoadOrder(rows)[i]].doc,
         ref_cnt |-> 1, idle |-> FALSE]]
LoadedTable(rows) ==
    [n \in FilterName |-> IF rows[n] = Absent THEN 0
                          ELSE CHOOSE i \in 1 .. Len(LoadOrder(rows)) : LoadOrder(rows)[i] = n]

-----------------------------------------------------------------------------
(* The rest of noitd, as filtersets see it *)

\* A check is accepted only when its filterset exists (noit_filter_exists).
Use(n) ==
    /\ ~leaked /\ filtersets[n] # 0 /\ n \notin uses
    /\ uses' = uses \cup {n}
    /\ late' = IF worker["cull"].at \in {"idle", "uses"} THEN late ELSE late \cup {n}
    /\ UNCHANGED <<filterRows, filtersets, obj, worker, leaked, unmarked, causes, started>>

\* The last check with this filterset is deleted.
Unuse(n) ==
    /\ uses' = uses \ {n} /\ n \in uses
    /\ UNCHANGED <<filterRows, filtersets, obj, worker, leaked, unmarked, causes, late, started>>

\* cull_idle_threshold passes without the set being touched.
TimePasses(n) ==
    /\ filtersets[n] # 0 /\ ~obj[filtersets[n]].idle
    /\ obj' = [obj EXCEPT ![filtersets[n]].idle = TRUE]
    /\ UNCHANGED <<filterRows, filtersets, worker, leaked, uses, unmarked, causes, late, started>>

-----------------------------------------------------------------------------
FilterSetsInit ==
    /\ \E N \in {FilterName, FilterName \ Asked} :
         filterRows = [n \in FilterName |-> IF n \in N THEN [seq |-> 0, doc |-> 0] ELSE Absent]
    /\ filtersets = LoadedTable(filterRows)
    /\ obj = LoadedObjects(filterRows)
    /\ worker = [t \in FilterThread |-> Idle]
    /\ leaked = FALSE
    /\ uses = {n \in FilterName : filterRows[n] # Absent}
    /\ unmarked = {} /\ late = {}
    /\ causes = [n \in FilterName |-> {}]
    /\ started = 0

FilterSetsNext ==
    \/ \E n \in Asked, s \in FilterSeqs : SetBegin(n, s) \/ FilterReplBegin(n, s)
    \/ FilterSetStep \/ FilterReplStep
    \/ \E n \in Asked : FilterDelete(n)
    \/ CullScan \/ CullStep
    \/ RefreshBegin \/ RefreshStep
    \/ \E a \in Applier : (\E n \in Asked : ApplyBegin(a, n)) \/ ApplyEnd(a)
    \/ (\E n \in Asked : ShowRunning(n)) \/ ShowRunningEnd
    \/ \E n \in Asked : Use(n) \/ Unuse(n) \/ TimePasses(n)

FilterSetsSpec == FilterSetsInit /\ [][FilterSetsNext]_filterSetsVars

\* The threads of the job queues and the console are scheduled.
FilterSetsFairSpec ==
    /\ FilterSetsSpec
    /\ WF_filterSetsVars(FilterSetStep) /\ WF_filterSetsVars(FilterReplStep) /\ WF_filterSetsVars(CullStep)
    /\ WF_filterSetsVars(RefreshStep) /\ WF_filterSetsVars(ShowRunningEnd)

-----------------------------------------------------------------------------
(* Properties *)

\* ref_cnt counts exactly the table's entry and the threads that walk the
\* rules (noit_apply_filterset, show filterset): a set replaced or culled
\* under a walker stays, and goes with the last walker.
RefsExact ==
    \A o \in DOMAIN obj : obj[o].ref_cnt =
        Cardinality({n \in FilterName : filtersets[n] = o})
          + Cardinality({t \in FilterThread : worker[t].at = "walk" /\ worker[t].o = o})

\* Whenever the table holds a set the cluster was not told of, the thread that
\* put it there is about to call noit_cluster_mark_filter_changed, although
\* that thread reads the set without the lock and without a reference.
ChangesMarked ==
    \A n \in unmarked : filtersets[n] # 0 =>
        \E t \in Job : worker[t].at = "mark" /\ worker[t].n = n /\ worker[t].o = filtersets[n]

\* Between two changes to a filterset the table holds what the row holds, so
\* that a restart brings back the same set.  The exceptions are complete: two
\* changes to it overlapped, it was set with sequence number 0 over an older
\* one, it was written to a full map, or it was deleted over REST.
RowsExplained ==
    \A n \in FilterName :
        causes[n] = {} /\ (\A t \in Job : ~Changing(t, n)) =>
            filterRows[n] = IF filtersets[n] = 0 THEN Absent ELSE DocOf(filtersets[n])

\* The filtersets in memory, their reference counts, what the cluster is told
\* and the rows of the database stay in step, whatever the job queues, the
\* console, a cull and the threads that apply filtersets do at the same time.
FilterTableAgrees == RefsExact /\ ChangesMarked /\ RowsExplained

\* A filterset that some check refers to is taken out of the table only by a
\* cull that had gone through the checks before this one was there
\* (noit_filters_filterset_accum).
UsedKept ==
    [][\A n \in uses : filtersets[n] # 0 /\ filtersets'[n] = 0 =>
            n \in late]_filterSetsVars

\* Every set, replication and cull job comes to its end, unless an operator
\* asked for a filterset that is not there: then filterset_lock stays locked.
JobsFinish ==
    \A t \in {"set", "repl", "cull"} :
        worker[t].at # "idle" ~> (worker[t].at = "idle" \/ leaked)
=============================================================================
