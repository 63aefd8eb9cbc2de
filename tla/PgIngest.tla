----------------------------- MODULE PgIngest ------------------------------
(***************************************************************************)
(* Where stratcond puts what it receives: the PostgreSQL ingestor (first   *)
(* part), and the event processor (second part).                           *)
(***************************************************************************)
EXTENDS Integers, Sequences, FiniteSets, SequencesExt

(***************************************************************************)
(* The PostgreSQL ingestor of stratcond.  Each interim journal is loaded   *)
(* by a job of its remote's queue in one transaction, row by row, behind a *)
(* savepoint.  A row that fails is marked problematic, the transaction is  *)
(* taken back to the savepoint and the rows behind it are executed again,  *)
(* the problematic one excepted.  A statement of the transaction itself    *)
(* that fails drops the connection and starts the whole batch again on a   *)
(* new one.  The journal is removed once the transaction is committed.     *)
(*                                                                         *)
(* The storage node of a journal and the sid of a check are looked up on   *)
(* the metanode, whose only connection all jobs and the main thread share  *)
(* through a pool.  Jobs are threads; a statement is one step, and the     *)
(* connection may be lost before it, or after a COMMIT was carried out.    *)
(* The process may stop between any two steps, and sweeps its journals     *)
(* when it is started again.                                               *)
(***************************************************************************)

CONSTANTS Journal,      \* the interim journals; each its own remote, queue and storage pool
          Content,      \* Content[j]: its lines, each the sequence of rows it expands to
          max_allocated, max_in_pool,
          MaxFaults     \* bound: connections lost, lookups refused and restarts, together
ASSUME PgAssumption == max_allocated \in Nat \ {0} /\ max_in_pool \in Nat

VARIABLES
    pgjob,      \* pgjob[j]: [pc, current, last_sp, problematic, fqdn], what the job holds in memory
    session,    \* session[j]: [up, rows, savepoints], the server's side of its connection
    pool,       \* pool[p]: [in_pool, outstanding], for a journal's pool and the metanode's
    holds,      \* the connections borrowed: <<thread, pool>>
    sids,       \* uuid_to_info_cache: the checks whose sid is known
    nodes,      \* storagenode_to_info_cache: the journals whose storage node is known
    stored,     \* rows of the storage nodes, in the order they were committed: <<journal, row index>>
    faults, excused, repeats      \* what went wrong: a count, rows it explains, batches it repeats

pgVars == <<pgjob, session, pool, holds, sids, nodes, stored, faults, excused, repeats>>

Meta == "metanode"
Main == "main"
Pools == Journal \union {Meta}

(* build_insert_batch, with the bundles of the journal taken apart by      *)
(* expand_b_record.  A row is [check, fate], its fate one of stored, which *)
(* the database accepts, rejected, or malformed, which is never sent.      *)
Batch(j) == FlattenSeq(Content[j])

NoBatch == [pc |-> "queued", current |-> 0, last_sp |-> 0, problematic |-> {}, fqdn |-> FALSE]
NoSession == [up |-> FALSE, rows |-> <<>>, savepoints |-> <<>>]

\* get_conn_q_for_remote
GetConn(t, p) ==
    /\ pool[p].in_pool > 0 \/ pool[p].in_pool + pool[p].outstanding < max_allocated
    /\ pool' = [pool EXCEPT ![p] = [in_pool |-> IF @.in_pool > 0 THEN @.in_pool - 1 ELSE 0,
                                    outstanding |-> @.outstanding + 1]]
    /\ holds' = holds \union {<<t, p>>}

\* release_conn_q: what it would purge is not there, for the pool is empty while its
\* only connection is out.
ReleaseConn(t, p) ==
    /\ pool' = [pool EXCEPT ![p] = [in_pool |-> IF @.in_pool < max_in_pool THEN @.in_pool + 1 ELSE @.in_pool,
                                    outstanding |-> @.outstanding - 1]]
    /\ holds' = holds \ {<<t, p>>}

Fault == faults < MaxFaults /\ faults' = faults + 1

Goto(j, pc) == pgjob' = [pgjob EXCEPT ![j].pc = pc]

(* stratcon_ingest_asynch_execute: the storage node is in the cache, or a  *)
(* connection to the metanode is taken to find it.                         *)
AsynchExecute(j) ==
    /\ pgjob[j].pc = "queued"
    /\ \/ /\ j \in nodes
          /\ pgjob' = [pgjob EXCEPT ![j].pc = "conn", ![j].fqdn = TRUE]
          /\ UNCHANGED <<pool, holds>>
       \/ j \notin nodes /\ GetConn(j, Meta) /\ Goto(j, "dsn")
    /\ UNCHANGED <<session, sids, nodes, stored, faults, excused, repeats>>

\* get_dsn_from_storagenode_id: without an answer the default database is used.
GetDsn(j) ==
    /\ pgjob[j].pc = "dsn"
    /\ ReleaseConn(j, Meta)
    /\ \/ /\ nodes' = nodes \union {j}
          /\ pgjob' = [pgjob EXCEPT ![j].pc = "conn", ![j].fqdn = TRUE]
          /\ UNCHANGED faults
       \/ Fault /\ Goto(j, "conn") /\ UNCHANGED nodes
    /\ UNCHANGED <<session, sids, stored, excused, repeats>>

TakeConn(j) ==
    /\ pgjob[j].pc = "conn" /\ GetConn(j, j) /\ Goto(j, "connect")
    /\ UNCHANGED <<session, sids, nodes, stored, faults, excused, repeats>>

(* stratcon_database_connect, tried until it succeeds, and BEGIN: the      *)
(* batch starts with its first row and no savepoint.                       *)
Connect(j) ==
    /\ pgjob[j].pc = "connect"
    /\ session' = [session EXCEPT ![j] = [NoSession EXCEPT !.up = TRUE]]
    /\ pgjob' = [pgjob EXCEPT ![j].pc = "row", ![j].current = 1, ![j].last_sp = 0]
    /\ UNCHANGED <<pool, holds, sids, nodes, stored, faults, excused, repeats>>

\* BUSTED
Busted(j) ==
    /\ Goto(j, "connect")
    /\ session' = [session EXCEPT ![j] = NoSession]

\* stratcon_ingest_savepoint_op "SAVEPOINT"
Savepoint(j) ==
    /\ pgjob[j].pc = "row" /\ pgjob[j].current <= Len(Batch(j)) /\ pgjob[j].last_sp = 0
    /\ IF session[j].up
       THEN /\ session' = [session EXCEPT ![j].savepoints = Append(@, Len(session[j].rows))]
            /\ pgjob' = [pgjob EXCEPT ![j].last_sp = pgjob[j].current]
       ELSE Busted(j)
    /\ UNCHANGED <<pool, holds, sids, nodes, stored, faults, excused, repeats>>

\* "RELEASE SAVEPOINT" and a problematic row is passed by.
PassProblematic(j) ==
    /\ pgjob[j].pc = "row" /\ pgjob[j].current \in pgjob[j].problematic /\ pgjob[j].last_sp # 0
    /\ IF session[j].up
       THEN /\ session' = [session EXCEPT ![j].savepoints = Front(@)]
            /\ pgjob' = [pgjob EXCEPT ![j].last_sp = 0, ![j].current = @ + 1]
       ELSE Busted(j)
    /\ UNCHANGED <<pool, holds, sids, nodes, stored, faults, excused, repeats>>

\* Mutant of RowFailed: the transaction is not taken back.
RowFailedKept(j) ==
    IF session[j].up
    THEN /\ UNCHANGED session
         /\ pgjob' = [pgjob EXCEPT ![j].pc = "row", ![j].last_sp = 0, ![j].current = pgjob[j].last_sp,
                                   ![j].problematic = @ \union {pgjob[j].current}]
    ELSE Busted(j)

(* DS_EXEC_ROW_FAILED: the row is marked and the transaction taken back to *)
(* the savepoint, from where the batch goes on.                            *)
RowFailed(j) ==
    LET marked == [pgjob[j] EXCEPT !.pc = "row", !.last_sp = 0, !.current = pgjob[j].last_sp,
                                   !.problematic = @ \union {pgjob[j].current}] IN
    IF session[j].up
    THEN /\ session' = [session EXCEPT ![j].rows = SubSeq(@, 1, Last(session[j].savepoints))]
         /\ pgjob' = [pgjob EXCEPT ![j] = marked]
    ELSE /\ session' = [session EXCEPT ![j] = NoSession]
         /\ pgjob' = [pgjob EXCEPT ![j] = [marked EXCEPT !.pc = "connect"]]

AtRow(j) ==
    /\ pgjob[j].pc = "row" /\ pgjob[j].last_sp # 0
    /\ pgjob[j].current \in DOMAIN Batch(j) /\ pgjob[j].current \notin pgjob[j].problematic

Row(j) == Batch(j)[pgjob[j].current]

\* uuid_to_sid: a sid that is not cached is asked of the metanode ...
AskSid(j) ==
    /\ AtRow(j) /\ Row(j).fate # "malformed" /\ Row(j).check \notin sids
    /\ GetConn(j, Meta) /\ Goto(j, "sid")
    /\ UNCHANGED <<session, sids, nodes, stored, faults, excused, repeats>>

\* ... and a row whose sid is not found, for whatever reason, has failed.
QuickLookup(j) ==
    /\ pgjob[j].pc = "sid"
    /\ ReleaseConn(j, Meta)
    /\ \/ /\ sids' = sids \union {Row(j).check} /\ Goto(j, "row")
          /\ UNCHANGED <<session, faults, excused>>
       \/ /\ Fault /\ RowFailed(j) /\ UNCHANGED sids
          /\ excused' = excused \union {<<j, pgjob[j].current>>}
    /\ UNCHANGED <<nodes, stored, repeats>>

\* stratcon_ingest_execute
Execute(j) ==
    /\ AtRow(j)
    /\ Row(j).fate = "malformed" \/ Row(j).check \in sids
    /\ IF Row(j).fate = "stored" /\ session[j].up
       THEN /\ session' = [session EXCEPT ![j].rows = Append(@, pgjob[j].current)]
            /\ pgjob' = [pgjob EXCEPT ![j].current = @ + 1]
            /\ UNCHANGED excused
       ELSE /\ RowFailed(j)
            /\ excused' = IF session[j].up THEN excused ELSE excused \union {<<j, pgjob[j].current>>}
    /\ UNCHANGED <<pool, holds, sids, nodes, stored, faults, repeats>>

\* COMMIT, after the last savepoint is released; its answer may be lost.
Commit(j) ==
    /\ pgjob[j].pc = "row" /\ pgjob[j].current > Len(Batch(j))
    /\ \/ /\ session[j].up
          /\ stored' = IF pgjob[j].fqdn
                       THEN stored \o [i \in DOMAIN session[j].rows |-> <<j, session[j].rows[i]>>] ELSE stored
          /\ \/ /\ Goto(j, "finish") /\ session' = [session EXCEPT ![j].rows = <<>>, ![j].savepoints = <<>>]
                /\ UNCHANGED <<faults, repeats>>
             \/ Fault /\ Busted(j) /\ repeats' = [repeats EXCEPT ![j] = @ + 1]
       \/ ~session[j].up /\ Busted(j) /\ UNCHANGED <<stored, faults, repeats>>
    /\ UNCHANGED <<pool, holds, sids, nodes, excused>>

\* pg_interim_journal_remove
JournalRemove(j) ==
    /\ pgjob[j].pc = "finish"
    /\ ReleaseConn(j, j) /\ Goto(j, "removed")
    /\ excused' = IF pgjob[j].fqdn THEN excused ELSE excused \union {<<j, i>> : i \in DOMAIN Batch(j)}
    /\ UNCHANGED <<session, sids, nodes, stored, faults, repeats>>

(* stratcon_ingest_saveconfig and stratcon_get_noit_config borrow the      *)
(* metanode's connection in the main thread.                               *)
ConfigBegin ==
    /\ <<Main, Meta>> \notin holds /\ GetConn(Main, Meta)
    /\ UNCHANGED <<pgjob, session, sids, nodes, stored, faults, excused, repeats>>
ConfigEnd ==
    /\ <<Main, Meta>> \in holds /\ ReleaseConn(Main, Meta)
    /\ UNCHANGED <<pgjob, session, sids, nodes, stored, faults, excused, repeats>>

\* The connection is lost, and its transaction with it.
ConnectionLost(j) ==
    /\ session[j].up /\ Fault
    /\ session' = [session EXCEPT ![j] = NoSession]
    /\ UNCHANGED <<pgjob, pool, holds, sids, nodes, stored, excused, repeats>>

(* The process is started again: postgres_ingestor_init loads the checks   *)
(* and the storage nodes and launches every journal that is still there.   *)
Restart ==
    /\ Fault
    /\ pgjob' = [j \in Journal |-> IF pgjob[j].pc = "removed" THEN pgjob[j] ELSE NoBatch]
    /\ session' = [j \in Journal |-> NoSession]
    /\ pool' = [p \in Pools |-> [in_pool |-> 0, outstanding |-> 0]]
    /\ holds' = {}
    /\ repeats' = [j \in Journal |-> IF pgjob[j].pc = "finish" THEN repeats[j] + 1 ELSE repeats[j]]
    /\ UNCHANGED <<sids, nodes, stored, excused>>

PgInit ==
    /\ pgjob = [j \in Journal |-> NoBatch] /\ session = [j \in Journal |-> NoSession]
    /\ pool = [p \in Pools |-> [in_pool |-> 0, outstanding |-> 0]]
    /\ holds = {} /\ sids = {} /\ nodes = {} /\ stored = <<>>
    /\ faults = 0 /\ excused = {} /\ repeats = [j \in Journal |-> 0]

PgNext ==
    \/ \E j \in Journal :
        \/ AsynchExecute(j) \/ GetDsn(j) \/ TakeConn(j) \/ Connect(j) \/ Savepoint(j)
        \/ PassProblematic(j) \/ AskSid(j) \/ QuickLookup(j) \/ Execute(j)
        \/ Commit(j) \/ JournalRemove(j) \/ ConnectionLost(j)
    \/ ConfigBegin \/ ConfigEnd \/ Restart

-----------------------------------------------------------------------------
(* What a failed row costs is that row: when a journal is removed, every   *)
(* row of it that the database accepts was stored, unless its own lookup   *)
(* or statement met a lost connection, or the storage node was not found   *)
(* (the savepoint logic of stratcon_ingest_asynch_execute).                *)
RowsKept ==
    \A j \in Journal : pgjob[j].pc = "removed" =>
        \A i \in DOMAIN Batch(j) :
            Batch(j)[i].fate = "stored" => \/ <<j, i>> \in ToSet(stored)
                                           \/ <<j, i>> \in excused

(* A row is stored once for its journal, and once more only for a COMMIT   *)
(* whose answer was lost or a stop between the COMMIT and the removal of   *)
(* the journal; no row that has to be refused is stored; and what one      *)
(* transaction holds is in the order of the journal.                       *)
RowsStoredOnce ==
    /\ \A j \in Journal : \A i \in DOMAIN Batch(j) :
        LET n == Cardinality({k \in DOMAIN stored : stored[k] = <<j, i>>}) IN
        n <= (IF Batch(j)[i].fate = "stored" THEN 1 + repeats[j] ELSE 0)
    /\ \A j \in Journal : \A a, b \in DOMAIN session[j].rows :
        a < b => session[j].rows[a] < session[j].rows[b]

(* The counts of a pool are those of its connections, so that at most      *)
(* max_allocated are ever open, and a thread that waits for the metanode   *)
(* waits for one that does not wait (get_conn_q_for_remote,                *)
(* release_conn_q_forceable).                                              *)
PoolsCounted ==
    /\ \A p \in Pools :
        /\ pool[p].outstanding = Cardinality({h \in holds : h[2] = p})
        /\ pool[p].in_pool + pool[p].outstanding \in 0..max_allocated
    /\ \A h \in holds : h[2] = Meta /\ h[1] # Main => pgjob[h[1]].pc \in {"dsn", "sid"}

-----------------------------------------------------------------------------
(***************************************************************************)
(* The feed of the event processor (IEP) in stratcond: a single worker     *)
(* takes lines from a queue and hands them to a message queue driver,      *)
(* which it connects when it has to.  A new connection puts the configured *)
(* statements, the providers before those that require them, and then the  *)
(* queries on the queue.  The configuration is refused, and the program    *)
(* stops, when the requirements are found to be cyclic.  The processor     *)
(* itself is a child process that is started again when it goes away.      *)
(*                                                                         *)
(* The order in which the statements' hash is walked is arbitrary.  A line *)
(* handed to the driver is taken to be delivered on that connection.       *)
(***************************************************************************)

CONSTANTS Graphs,       \* configurations: [requires, off], requires[s] the sequence s requires
          MaxLines, MaxBreaks       \* bounds: measurements fed; connections and processors lost, lines too old
ASSUME IepAssumption == MaxLines \in Nat /\ MaxBreaks \in Nat

VARIABLES
    graph, order,       \* the configuration, and the order in which stmt_by_id is walked
    iepq,               \* the jobs of iep_jobq
    connected, handed,  \* the driver's connection, and the control lines handed to it since it was made
    skipped,            \* whether a line was dropped for its age since then
    preload,            \* check preloads asked for and not yet staged
    daemons, restarts, setups,  \* processors running, timers that start one, timers of the setup
    conn_cnt,           \* the lock that keeps a second setup timer away
    stopped, fed, breaks

iepVars == <<graph, order, iepq, connected, handed, skipped, preload, daemons, restarts, setups,
             conn_cnt, stopped, fed, breaks>>

Statements == DOMAIN graph.requires
Query == <<"Q">>
Control(line) == line[1] \in {"D", "Q"}

\* stmt_mark_dag: a statement marked in this sweep already stands for a cycle.
RECURSIVE stmt_mark_dag(_, _, _)
stmt_mark_dag(s, m, mgen) ==
    IF ~m.ok \/ m.marked[s] = mgen THEN [m EXCEPT !.ok = FALSE]
    ELSE IF m.marked[s] > 0 THEN m
    ELSE FoldLeft(LAMBDA a, r : IF a.ok THEN stmt_mark_dag(r, a, mgen) ELSE a,
                  [m EXCEPT !.marked[s] = mgen], graph.requires[s])

(* Phases 1 to 3 of stratcon_iep_submit_statements: statements that are    *)
(* switched off are missing when the requirements are loaded, and then     *)
(* each statement is swept from, in the order of the hash.                 *)
Accepted ==
    /\ graph.off = {}
    /\ FoldLeft(LAMBDA a, i : IF a.ok THEN stmt_mark_dag(order[i], a, i) ELSE a,
                [ok |-> TRUE, marked |-> [s \in Statements |-> 0]],
                [i \in DOMAIN order |-> i]).ok

\* submit_statement_node, on a stack of limited depth.
RECURSIVE submit_statement_node(_, _, _)
submit_statement_node(s, out, depth) ==
    IF s \in ToSet(out) \/ depth = 0 THEN out
    ELSE Append(FoldLeft(LAMBDA a, r : submit_statement_node(r, a, depth - 1), out, graph.requires[s]), s)

\* Phase 5, and stratcon_iep_submit_queries after it.
Submitted ==
    LET out == FoldLeft(LAMBDA a, s : submit_statement_node(s, a, Cardinality(Statements)), <<>>, order)
    IN Append([i \in DOMAIN out |-> <<"D", out[i]>>], Query)

\* The driver's connect (rabbitmq and stomp alike): already connected, connected now, or failed.
DriverConnect(up) == IF up THEN {1} ELSE {0, -1}

\* The driver's submit: published, or failed, and then the connection is closed.
DriverSubmit == IF breaks < MaxBreaks THEN {0, -1} ELSE {0}

(* connect_iep_driver: a connection that is there is used, and a new one   *)
(* has everything submitted again.                                         *)
Connected(c) ==
    {IF rc = 0 THEN [up |-> TRUE, fresh |-> TRUE, queue |-> c.queue \o Submitted] ELSE c :
        rc \in DriverConnect(c.up)}

\* stratcon_iep_submitter
Submitter ==
    /\ iepq # <<>>
    /\ \/ /\ breaks < MaxBreaks /\ breaks' = breaks + 1
          /\ iepq' = Tail(iepq) /\ skipped' = (skipped \/ Control(Head(iepq)))
          /\ UNCHANGED <<connected, handed, preload, stopped>>
       \/ \E c \in Connected([up |-> connected, fresh |-> FALSE, queue |-> Tail(iepq)]) :
          \E d \in IF Head(iepq)[1] = "nop" THEN {c} ELSE Connected(c) :
           /\ stopped' = (d.fresh /\ ~Accepted)
           /\ iepq' = IF stopped' THEN <<>> ELSE d.queue
           /\ preload' = IF d.fresh THEN preload + 1 ELSE preload
           /\ \E rv \in IF d.up /\ Head(iepq)[1] # "nop" THEN DriverSubmit ELSE {0} :
              /\ breaks' = breaks - rv
              /\ connected' = (d.up /\ ~stopped' /\ rv = 0)
              /\ handed' = IF ~connected' THEN <<>>
                           ELSE (IF d.fresh THEN <<>> ELSE handed) \o SelectSeq(<<Head(iepq)>>, Control)
              /\ skipped' = (skipped /\ ~d.fresh /\ connected')
    /\ UNCHANGED <<graph, order, daemons, restarts, setups, conn_cnt, fed>>

\* stratcon_iep_line_processor, for what the streamer receives.
LineProcessor ==
    /\ fed < MaxLines /\ fed' = fed + 1
    /\ iepq' = Append(iepq, <<"M">>)
    /\ UNCHANGED <<graph, order, connected, handed, skipped, preload, daemons, restarts, setups, conn_cnt,
                   stopped, breaks>>

\* stratcon_datastore_iep_check_preload, carried out by the ingestor in its own time.
PreloadStaged ==
    /\ preload > 0 /\ preload' = preload - 1
    /\ iepq' = Append(iepq, <<"C">>)
    /\ UNCHANGED <<graph, order, connected, handed, skipped, daemons, restarts, setups, conn_cnt,
                   stopped, fed, breaks>>

\* Mutant of SetupLater: the lock is not looked at.
SetupLaterAlways == setups' = setups + 1 /\ conn_cnt' = TRUE

\* setup_iep_connection_later
SetupLater ==
    IF conn_cnt THEN UNCHANGED <<setups, conn_cnt>>
    ELSE setups' = setups + 1 /\ conn_cnt' = TRUE

\* setup_iep_connection_callback
SetupCallback ==
    /\ setups > 0 /\ setups' = setups - 1
    /\ conn_cnt' = FALSE
    /\ iepq' = Append(iepq, <<"nop">>)
    /\ UNCHANGED <<graph, order, connected, handed, skipped, preload, daemons, restarts, stopped, fed, breaks>>

\* stratcon_iep_err_handler: the processor has closed its stderr.
ErrHandler ==
    /\ daemons > 0 /\ breaks < MaxBreaks /\ breaks' = breaks + 1
    /\ daemons' = daemons - 1 /\ restarts' = restarts + 1
    /\ UNCHANGED <<graph, order, iepq, connected, handed, skipped, preload, setups, conn_cnt, stopped, fed>>

\* start_iep_daemon
StartDaemon ==
    /\ restarts > 0 /\ restarts' = restarts - 1
    /\ daemons' = daemons + 1 /\ SetupLater
    /\ UNCHANGED <<graph, order, iepq, connected, handed, skipped, preload, stopped, fed, breaks>>

IepInit ==
    /\ graph \in Graphs
    /\ order \in {o \in [1..Cardinality(Statements) -> Statements] : IsInjective(o)}
    /\ iepq = <<>> /\ connected = FALSE /\ handed = <<>> /\ skipped = FALSE /\ preload = 0
    /\ daemons = 0 /\ restarts = 1 /\ setups = 0 /\ conn_cnt = FALSE
    /\ stopped = FALSE /\ fed = 0 /\ breaks = 0

IepNext ==
    /\ ~stopped
    /\ \/ Submitter \/ LineProcessor \/ PreloadStaged
       \/ SetupCallback \/ ErrHandler \/ StartDaemon

-----------------------------------------------------------------------------
RequiredBy(s) == ToSet(graph.requires[s])
Cyclic == \E S \in SUBSET Statements : S # {} /\ \A s \in S : RequiredBy(s) \intersect S # {}

(* Cyclic requirements are never submitted, whatever order the hash has    *)
(* (stmt_mark_dag).                                                        *)
CyclesRefused == Cyclic => \A i \in DOMAIN iepq : iepq[i] # Query

(* Every connection is given the whole configuration: unless something was *)
(* dropped for its age, the last control lines handed to the connection or *)
(* still queued for it are each statement once, after everything that it   *)
(* requires, and then the query (connect_iep_driver,                       *)
(* submit_statement_node, stratcon_iep_submit_queries).                    *)
ConfigurationFollows ==
    LET lines == SelectSeq(handed \o iepq, Control)
        n == Cardinality(Statements)
        block == SubSeq(lines, Len(lines) - n, Len(lines))
    IN connected /\ ~skipped =>
        /\ Len(lines) > n /\ Last(block) = Query
        /\ \A s \in Statements : \E i \in 1..n :
            /\ block[i] = <<"D", s>>
            /\ \A r \in RequiredBy(s) : \E k \in 1..(i - 1) : block[k] = <<"D", r>>

(* There is one processor or a timer that will start it, and never two     *)
(* timers that set up a connection (stratcon_iep_err_handler, iep_conn_cnt)*)
OneProcessor == daemons + restarts = 1 /\ setups = (IF conn_cnt THEN 1 ELSE 0)
=============================================================================
