--------------------------- MODULE FeedTransport ---------------------------
(***************************************************************************)
(* The durable feed from a noitd to a stratcond, end to end:               *)
(*                                                                         *)
(*   noitd      one thread per accepted feed connection reads the jlog     *)
(*              journal from the subscriber's stored checkpoint, pushes a  *)
(*              batch, waits for the checkpoint the client sends back and  *)
(*              stores it (noit_jlog_listener.c);                          *)
(*   stratcond  the event-driven streamer reads count, headers and bodies, *)
(*              hands every line to the datastore, asks for a sync at the  *)
(*              end of the batch and answers with the checkpoint when the  *)
(*              sync completes (stratcon_jlog_streamer.c);                 *)
(*   datastore  lines go to per-storage-node ".tmp" journals of the        *)
(*              working set; the asynchronous sync renames each journal,   *)
(*              runs the chain of ingestors on it and unlinks it when all  *)
(*              of them took it; a restart sweeps the directory before any *)
(*              streaming starts (stratcon_datastore.c, stratcon_ingest.c).*)
(*                                                                         *)
(* A journal position (jlog_id) is a number: message m is the m-th message *)
(* of the journal.  At most one batch is in flight on a connection (the    *)
(* noitd thread blocks until it reads the checkpoint), so the bytes on the *)
(* wire of connection c are the count cnt[c] and the messages rd[c]+1 ..   *)
(* sent[c], in order.                                                      *)
(***************************************************************************)
EXTENDS Integers, FiniteSets

CONSTANTS
    MaxMsg,        \* bound: messages the noitd ever writes to the journal
    MaxRows,       \* MAX_ROWS_AT_ONCE, the largest batch
    Conn,          \* feed connections that may exist at the same time
    File,          \* journal files that may exist at the same time
    Node,          \* storage nodes: one interim journal each
    NodeOf,        \* NodeOf[m]: the storage node message m is looked up to
    Empty,         \* messages with a zero-length body
    ChainLen,      \* number of ingestors in the chain
    MaxUnwritten,  \* bound: messages whose write() to the journal may fail
    MaxRaw,        \* bound: raw journals on disk when an ingestor refuses one
    None           \* no connection, no file

Msg == 1 .. MaxMsg
Ingestor == 1 .. ChainLen

ASSUME ConstantsAssumption ==
    /\ MaxMsg \in Nat /\ MaxRows \in Nat \ {0}
    /\ ChainLen \in Nat \ {0} /\ MaxUnwritten \in Nat /\ MaxRaw \in Nat
    /\ NodeOf \in [Msg -> Node]
    /\ Empty \subseteq Msg
    /\ None \notin Conn /\ None \notin File

VARIABLES
    \* noitd: the journal (libjlog) and the subscriber's stored checkpoint
    produced,      \* messages 1..produced have been written
    low,           \* messages below low may have been pruned
    chkpt,         \* the stored checkpoint
    \* the connections, with the noitd thread at one end of each
    link,
    \* stratcond: the streamer context of this noit
    cconn,         \* the connection in use
    cstate,        \* ctx->state
    count,         \* ctx->count
    header,        \* ctx->header.chkpt
    needs_chkpt,   \* ctx->needs_chkpt
    \* stratcond: the datastore
    up,            \* "down", "sweep" (inside stratcon_datastore_init) or "up"
    ws,            \* working_sets[remote_cn]: storage node -> journal file
    jobs,          \* sync jobs, or the sweep while up = "sweep"
    kind,          \* what a file is: no file, ".tmp", or a raw journal
    body,          \* the messages whose lines are in a file
    taken,         \* taken[i]: messages of files ingestor i has taken over
    unwritten      \* messages whose write() failed and was only logged

clientVars == <<cconn, cstate, count, header, needs_chkpt>>
storeVars == <<up, ws, jobs, kind, body, taken, unwritten>>
vars == <<produced, low, chkpt, link, clientVars, storeVars>>

\* A connection: where the noitd thread is ("none": closed), the last message
\* of its batch and the last one it wrote (jcl->chkpt), the last one the client
\* read, the count on the wire (0 none, -1 an error) and the checkpoint on the
\* wire (0 none).
Link == [thr : {"none", "init", "loop", "push", "wait"},
         last : 0 .. MaxMsg, sent : 0 .. MaxMsg, rd : 0 .. MaxMsg,
         cnt : -1 .. MaxMsg, ack : 0 .. MaxMsg]

Closed == [thr |-> "none", last |-> 0, sent |-> 0, rd |-> 0, cnt |-> 0, ack |-> 0]

ClientStates == {"WANT_INITIATE", "WANT_COUNT", "WANT_ERROR", "WANT_HEADER",
                 "WANT_BODY", "IS_ASYNC", "WANT_CHKPT"}

\* A sync job: todo are the journals still to be renamed, cur the one being
\* ingested (next is the ingestor to call, bad whether one refused it), conn
\* the connection whose completion event it carries.
Job == [conn : Conn \cup {None}, todo : SUBSET File, cur : File \cup {None},
        next : 1 .. ChainLen + 1, bad : BOOLEAN]

TypeOK ==
    /\ produced \in 0 .. MaxMsg /\ chkpt \in 0 .. MaxMsg
    /\ low \in 1 .. MaxMsg + 1
    /\ link \in [Conn -> Link]
    /\ cconn \in Conn \cup {None}
    /\ cstate \in ClientStates
    /\ count \in -1 .. MaxMsg
    /\ header \in 0 .. MaxMsg
    /\ needs_chkpt \in BOOLEAN
    /\ up \in {"down", "sweep", "up"}
    /\ ws \in [Node -> File \cup {None}]
    /\ jobs \subseteq Job
    /\ kind \in [File -> {"none", "tmp", "raw"}]
    /\ body \in [File -> SUBSET Msg]
    /\ taken \in [Ingestor -> SUBSET Msg]
    /\ unwritten \subseteq Msg

Init ==
    /\ produced = 0 /\ low = 1 /\ chkpt = 0
    /\ link = [c \in Conn |-> Closed]
    /\ cconn = None
    /\ cstate = "WANT_INITIATE"
    /\ count = 0 /\ header = 0 /\ needs_chkpt = FALSE
    /\ up = "down"
    /\ ws = [n \in Node |-> None]
    /\ jobs = {}
    /\ kind = [f \in File |-> "none"]
    /\ body = [f \in File |-> {}]
    /\ taken = [i \in Ingestor |-> {}]
    /\ unwritten = {}

----------------------------------------------------------------------------
(* noitd.                                                                  *)

\* A check result or status line is written to the "feed" jlog.
Produce ==
    /\ produced < MaxMsg
    /\ produced' = produced + 1
    /\ UNCHANGED <<low, chkpt, link, clientVars, storeVars>>

\* noit_jlog_handler opens the reader and starts the thread.
Handler(c) ==
    /\ link[c].thr = "init"
    /\ link' = [link EXCEPT ![c].thr = "loop"]
    /\ UNCHANGED <<produced, low, chkpt, clientVars, storeVars>>

\* noit_jlog_handler finds no feed or no subscriber: it answers with a negative
\* count and an error text and closes.
HandlerError(c) ==
    /\ link[c].thr = "init" /\ cconn = c
    /\ link' = [link EXCEPT ![c] = [link[c] EXCEPT !.thr = "none", !.cnt = -1]]
    /\ UNCHANGED <<produced, low, chkpt, clientVars, storeVars>>

\* The first message a reader of this subscriber gets: the one after the
\* stored checkpoint, or the oldest one left when that has been pruned.
ReadFrom == IF chkpt + 1 < low THEN low ELSE chkpt + 1

\* Mutant of ReadInterval: an interval of one message counts as nothing to send.
ReadIntervalTwo(c) ==
    LET first == ReadFrom
        avail == produced - first + 1
        n == IF avail > MaxRows THEN MaxRows ELSE avail
    IN  /\ link[c].thr = "loop"
        /\ avail > 1
        /\ link' = [link EXCEPT ![c] =
                        [thr |-> "push", last |-> first + n - 1, sent |-> first - 1,
                         rd |-> IF cconn = c THEN first - 1 ELSE 0,
                         cnt |-> IF cconn = c THEN n ELSE 0, ack |-> 0]]
        /\ UNCHANGED <<produced, low, chkpt, clientVars, storeVars>>

\* Top of the loop of noit_jlog_thread_main with something to send: read the
\* interval, cap it at MAX_ROWS_AT_ONCE, write the count.  With nothing to
\* send the thread polls the socket and sleeps, which changes nothing.
ReadInterval(c) ==
    LET first == ReadFrom
        avail == produced - first + 1
        n == IF avail > MaxRows THEN MaxRows ELSE avail
    IN  /\ link[c].thr = "loop"
        /\ avail > 0
        /\ link' = [link EXCEPT ![c] =
                        [thr |-> "push", last |-> first + n - 1, sent |-> first - 1,
                         rd |-> IF cconn = c THEN first - 1 ELSE 0,
                         cnt |-> IF cconn = c THEN n ELSE 0, ack |-> 0]]
        /\ UNCHANGED <<produced, low, chkpt, clientVars, storeVars>>

\* Mutant of Push: the end of the batch is not noticed.
PushPastLast(c) ==
    /\ link[c].thr = "push"
    /\ link' = [link EXCEPT ![c].sent = @ + 1]
    /\ UNCHANGED <<produced, low, chkpt, clientVars, storeVars>>

\* One turn of the loop of noit_jlog_push; a message that is no longer in the
\* journal cannot be read.
Push(c) ==
    /\ link[c].thr = "push"
    /\ link[c].sent + 1 >= low
    /\ link' = [link EXCEPT ![c] = [link[c] EXCEPT
                    !.sent = link[c].sent + 1,
                    !.thr = IF link[c].sent + 1 = link[c].last THEN "wait" ELSE "push"]]
    /\ UNCHANGED <<produced, low, chkpt, clientVars, storeVars>>

\* The connection after the noitd end is closed: the client can still read
\* what is on the wire, if it has not closed its end.
NoitdEndClosed(c) == IF cconn = c THEN [link[c] EXCEPT !.thr = "none", !.ack = 0]
                                  ELSE Closed

\* Mutant of ReadCheckpoint: the checkpoint is verified but not stored.
ReadCheckpointUnstored(c) ==
    /\ link[c].thr = "wait" /\ link[c].ack # 0
    /\ link' = [link EXCEPT ![c] = [Closed EXCEPT !.thr = "loop"]]
    /\ UNCHANGED <<produced, low, chkpt, clientVars, storeVars>>

\* The thread reads the client's jlog_id.  When it is the last position it
\* pushed, the checkpoint is stored as it is, even if another connection of
\* the subscriber has stored a later one; libjlog prunes the files all of
\* whose messages the subscriber has passed.  Otherwise the connection is
\* closed.
ReadCheckpoint(c) ==
    /\ link[c].thr = "wait"
    /\ link[c].ack # 0
    /\ IF link[c].ack = link[c].sent
       THEN /\ chkpt' = link[c].ack
            /\ \E l \in low .. MaxMsg + 1 :
                  /\ l = low \/ l <= link[c].ack + 1
                  /\ low' = l
            /\ link' = [link EXCEPT ![c] = [Closed EXCEPT !.thr = "loop"]]
       ELSE /\ link' = [link EXCEPT ![c] = NoitdEndClosed(c)]
            /\ UNCHANGED <<chkpt, low>>
    /\ UNCHANGED <<produced, clientVars, storeVars>>

\* "alldone": a read, a write, a poll or the journal failed.  The thread also
\* gets here when the other side has closed or the message it must push is
\* gone; a checkpoint that is still on the wire is then lost.
ThreadDone(c) ==
    /\ link[c].thr # "none"
    /\ link' = [link EXCEPT ![c] = NoitdEndClosed(c)]
    /\ UNCHANGED <<produced, low, chkpt, clientVars, storeVars>>

----------------------------------------------------------------------------
(* stratcond: the streamer.                                                *)

\* Connect and, in state WANT_INITIATE, write the feed command.
Initiate(c) ==
    /\ up = "up"
    /\ cconn = None
    /\ cstate = "WANT_INITIATE"
    /\ link[c].thr = "none"
    /\ cconn' = c
    /\ cstate' = "WANT_COUNT"
    /\ link' = [link EXCEPT ![c].thr = "init"]
    /\ UNCHANGED <<produced, low, chkpt, count, header, needs_chkpt, storeVars>>

\* The connection after the client end is closed: what is on the wire for the
\* client goes; a checkpoint it has written may still arrive.
ClientEndClosed(c) == IF link[c].thr = "none" THEN Closed
                      ELSE [link[c] EXCEPT !.rd = 0, !.cnt = 0]

\* "socket_error": forget the batch, close, schedule a reattempt.  The working
\* set keeps the lines that were already pushed to the datastore; the
\* completion event of a sync in progress loses its descriptor.
CloseClient ==
    /\ cstate' = "WANT_INITIATE"
    /\ count' = 0
    /\ needs_chkpt' = FALSE
    /\ cconn' = None
    /\ link' = [link EXCEPT ![cconn] = ClientEndClosed(cconn)]
    /\ jobs' = {[j EXCEPT !.conn = None] : j \in jobs}
    /\ UNCHANGED <<produced, low, chkpt, header, up, ws, kind, body, taken, unwritten>>

\* Nothing is left to read and the noitd thread is gone.
PeerClosed ==
    /\ cconn # None
    /\ link[cconn].thr = "none"
    /\ \/ cstate = "WANT_COUNT" /\ link[cconn].cnt = 0
       \/ cstate = "WANT_HEADER" /\ link[cconn].rd = link[cconn].sent

\* An exception, a timeout or a failed read or write.  While the batch is
\* being synced the descriptor is not in the event loop and no timeout runs.
SocketError ==
    /\ cconn # None
    /\ cstate # "IS_ASYNC"
    /\ CloseClient

\* stratcon_remove_noit tears the connection down in any state; the noit is
\* streamed from again when it is added back.
RemoveNoit ==
    /\ cconn # None
    /\ CloseClient

\* Mutant of ReadCount: needs_chkpt survives from the previous batch.
ReadCountStale ==
    /\ cstate = "WANT_COUNT"
    /\ link[cconn].cnt # 0
    /\ count' = link[cconn].cnt
    /\ cstate' = IF link[cconn].cnt < 0 THEN "WANT_ERROR" ELSE "WANT_HEADER"
    /\ link' = [link EXCEPT ![cconn].cnt = 0]
    /\ UNCHANGED <<produced, low, chkpt, cconn, header, needs_chkpt, storeVars>>

\* WANT_COUNT: the count of the batch; a negative one announces an error.
ReadCount ==
    /\ cstate = "WANT_COUNT"
    /\ link[cconn].cnt # 0
    /\ count' = link[cconn].cnt
    /\ needs_chkpt' = FALSE
    /\ cstate' = IF link[cconn].cnt < 0 THEN "WANT_ERROR" ELSE "WANT_HEADER"
    /\ link' = [link EXCEPT ![cconn].cnt = 0]
    /\ UNCHANGED <<produced, low, chkpt, cconn, header, storeVars>>

\* The error text is read and logged, then the connection is closed.
ReadError ==
    /\ cstate = "WANT_ERROR"
    /\ CloseClient

ReadHeader ==
    /\ cstate = "WANT_HEADER"
    /\ link[cconn].rd < link[cconn].sent
    /\ header' = link[cconn].rd + 1
    /\ cstate' = "WANT_BODY"
    /\ UNCHANGED <<produced, low, chkpt, link, cconn, count, needs_chkpt, storeVars>>

----------------------------------------------------------------------------
(* stratcond: the datastore.                                               *)

\* interim_journal_get: the storage node's journal of the working set, or a
\* new ".tmp" file.
InterimJournal(m, f) ==
    \/ ws[NodeOf[m]] = f
    \/ ws[NodeOf[m]] = None /\ kind[f] = "none"

\* stratcon_datastore_journal: write the line.  A write that fails is logged
\* and otherwise ignored.
WriteLine(m, f) ==
    \/ /\ body' = [body EXCEPT ![f] = @ \cup {m}]
       /\ UNCHANGED unwritten
    \/ /\ m \notin unwritten
       /\ Cardinality(unwritten) < MaxUnwritten
       /\ unwritten' = unwritten \cup {m}
       /\ UNCHANGED body

\* The journals of working set w.
FilesOf(w) == {w[n] : n \in Node} \ {None}

\* Mutant of PluckWorkingSet: the working set stays in the table.
PluckWorkingSetCopy(w) ==
    /\ ws' = w
    /\ jobs' = jobs \cup {[conn |-> cconn, todo |-> FilesOf(w), cur |-> None,
                           next |-> 1, bad |-> FALSE]}

\* DS_OP_CHKPT: pluck the working set and queue a sync job that carries the
\* completion event of the connection.
PluckWorkingSet(w) ==
    /\ ws' = [n \in Node |-> None]
    /\ jobs' = jobs \cup {[conn |-> cconn, todo |-> FilesOf(w), cur |-> None,
                           next |-> 1, bad |-> FALSE]}

\* Mutant of EndOfMessage: the batch ends one message early.
EndOfMessageEarly(w) ==
    /\ link' = [link EXCEPT ![cconn].rd = header]
    /\ count' = count - 1
    /\ \/ /\ count > 2
          /\ cstate' = "WANT_HEADER"
          /\ ws' = w /\ UNCHANGED jobs
       \/ /\ count <= 2 /\ needs_chkpt'
          /\ cstate' = "IS_ASYNC"
          /\ PluckWorkingSet(w)
       \/ /\ count <= 2 /\ ~needs_chkpt'
          /\ cstate' = "WANT_CHKPT"
          /\ ws' = w /\ UNCHANGED jobs
    /\ UNCHANGED <<produced, low, chkpt, cconn, header, up, taken>>

\* The end of WANT_BODY, with working set w: the next header, or the end of
\* the batch.  A batch in which nothing was inserted needs no sync.
EndOfMessage(w) ==
    /\ link' = [link EXCEPT ![cconn].rd = header]
    /\ count' = count - 1
    /\ \/ /\ count > 1
          /\ cstate' = "WANT_HEADER"
          /\ ws' = w /\ UNCHANGED jobs
       \/ /\ count <= 1 /\ needs_chkpt'
          /\ cstate' = "IS_ASYNC"
          /\ PluckWorkingSet(w)
       \/ /\ count <= 1 /\ ~needs_chkpt'
          /\ cstate' = "WANT_CHKPT"
          /\ ws' = w /\ UNCHANGED jobs
    /\ UNCHANGED <<produced, low, chkpt, cconn, header, up, taken>>

\* WANT_BODY with a line: insert it.
ReadLine ==
    /\ cstate = "WANT_BODY"
    /\ header \notin Empty
    /\ needs_chkpt' = TRUE
    /\ \E f \in File :
          /\ InterimJournal(header, f)
          /\ kind' = [kind EXCEPT ![f] = "tmp"]
          /\ WriteLine(header, f)
          /\ EndOfMessage([ws EXCEPT ![NodeOf[header]] = f])

\* Mutant of ReadEmpty: an empty body makes the batch need no sync.
ReadEmptyClears ==
    /\ cstate = "WANT_BODY"
    /\ header \in Empty
    /\ needs_chkpt' = FALSE
    /\ UNCHANGED <<kind, body, unwritten>>
    /\ EndOfMessage(ws)

\* WANT_BODY with a zero-length body: nothing is inserted.
ReadEmpty ==
    /\ cstate = "WANT_BODY"
    /\ header \in Empty
    /\ UNCHANGED <<needs_chkpt, kind, body, unwritten>>
    /\ EndOfMessage(ws)

\* WANT_CHKPT: answer with the position of the last header.
WriteCheckpoint ==
    /\ cstate = "WANT_CHKPT"
    /\ link' = [link EXCEPT ![cconn].ack = IF link[cconn].thr = "none" THEN 0
                                           ELSE header]
    /\ cstate' = "WANT_COUNT"
    /\ UNCHANGED <<produced, low, chkpt, cconn, count, header, needs_chkpt, storeVars>>

\* stratcon_ingest is called for journal f of job j: no ingestor has seen it.
StartIngest(j, f) == [conn |-> j.conn, todo |-> j.todo \ {f}, cur |-> f,
                      next |-> 1, bad |-> FALSE]

\* stratcon_datastore_journal_sync, one journal: rename it, fsync and close it.
SyncRename(j) ==
    /\ up = "up"
    /\ j.cur = None
    /\ \E f \in j.todo :
          /\ kind' = [kind EXCEPT ![f] = "raw"]
          /\ jobs' = (jobs \ {j}) \cup {StartIngest(j, f)}
    /\ UNCHANGED <<produced, low, chkpt, link, clientVars, up, ws, body, taken, unwritten>>

\* Mutant of Accept: the verdict of the last ingestor is the verdict.
AcceptLastVerdict(j) ==
    /\ j.cur # None /\ j.next <= ChainLen
    /\ taken' = [taken EXCEPT ![j.next] = @ \cup body[j.cur]]
    /\ jobs' = (jobs \ {j}) \cup {[j EXCEPT !.next = @ + 1, !.bad = FALSE]}
    /\ UNCHANGED <<produced, low, chkpt, link, clientVars, up, ws, kind, body, unwritten>>

\* stratcon_ingest, one ingestor: it takes the file over, or refuses it.
Accept(j) ==
    /\ j.cur # None /\ j.next <= ChainLen
    /\ taken' = [taken EXCEPT ![j.next] = @ \cup body[j.cur]]
    /\ jobs' = (jobs \ {j}) \cup {[j EXCEPT !.next = @ + 1]}
    /\ UNCHANGED <<produced, low, chkpt, link, clientVars, up, ws, kind, body, unwritten>>

Refuse(j) ==
    /\ j.cur # None /\ j.next <= ChainLen
    /\ Cardinality({f \in File : kind[f] = "raw"}) <= MaxRaw
    /\ jobs' = (jobs \ {j}) \cup {[j EXCEPT !.next = @ + 1, !.bad = TRUE]}
    /\ UNCHANGED <<produced, low, chkpt, link, clientVars, up, ws, kind, body, taken,
                   unwritten>>

\* Mutant of IngestEnd: the file is unlinked whatever the ingestors said.
IngestEndUnlinks(j) ==
    /\ j.cur # None /\ j.next = ChainLen + 1
    /\ jobs' = (jobs \ {j}) \cup {[j EXCEPT !.cur = None]}
    /\ kind' = [kind EXCEPT ![j.cur] = "none"]
    /\ body' = [body EXCEPT ![j.cur] = {}]
    /\ UNCHANGED <<produced, low, chkpt, link, clientVars, up, ws, taken, unwritten>>

\* The end of stratcon_ingest: unlink the file unless an ingestor refused it.
IngestEnd(j) ==
    /\ j.cur # None /\ j.next = ChainLen + 1
    /\ jobs' = (jobs \ {j}) \cup {[j EXCEPT !.cur = None]}
    /\ IF j.bad
       THEN UNCHANGED <<kind, body>>
       ELSE /\ kind' = [kind EXCEPT ![j.cur] = "none"]
            /\ body' = [body EXCEPT ![j.cur] = {}]
    /\ UNCHANGED <<produced, low, chkpt, link, clientVars, up, ws, taken, unwritten>>

\* The EVENTER_ASYNCH call of the sync job: whatever the ingestors said, the
\* completion event is put back into the event loop if it is still open.
SyncComplete(j) ==
    /\ up = "up"
    /\ j.cur = None /\ j.todo = {}
    /\ jobs' = jobs \ {j}
    /\ cstate' = IF j.conn # None THEN "WANT_CHKPT" ELSE cstate
    /\ UNCHANGED <<produced, low, chkpt, link, cconn, count, header,
                   needs_chkpt, up, ws, kind, body, taken, unwritten>>

----------------------------------------------------------------------------
(* stratcond: crash and restart.                                           *)

\* The process dies at any point: memory goes, files stay.
Crash ==
    /\ up # "down"
    /\ up' = "down"
    /\ cstate' = "WANT_INITIATE" /\ cconn' = None
    /\ count' = 0 /\ header' = 0 /\ needs_chkpt' = FALSE
    /\ link' = [c \in Conn |-> ClientEndClosed(c)]
    /\ ws' = [n \in Node |-> None]
    /\ jobs' = {}
    /\ UNCHANGED <<produced, low, chkpt, kind, body, taken, unwritten>>

\* stratcon_datastore_init starts the sweep of the journal directory.
SweepBegin ==
    /\ up = "down"
    /\ up' = "sweep"
    /\ jobs' = {[conn |-> None, todo |-> {f \in File : kind[f] # "none"},
                 cur |-> None, next |-> 1, bad |-> FALSE]}
    /\ UNCHANGED <<produced, low, chkpt, link, clientVars, ws, kind, body, taken, unwritten>>

\* One directory entry: ".tmp" files are unlinked, raw journals ingested.
SweepEntry(j) ==
    /\ up = "sweep"
    /\ j.cur = None
    /\ \E f \in j.todo :
          \/ /\ kind[f] = "tmp"
             /\ kind' = [kind EXCEPT ![f] = "none"]
             /\ body' = [body EXCEPT ![f] = {}]
             /\ jobs' = {[j EXCEPT !.todo = @ \ {f}]}
          \/ /\ kind[f] = "raw"
             /\ UNCHANGED <<kind, body>>
             /\ jobs' = {StartIngest(j, f)}
    /\ UNCHANGED <<produced, low, chkpt, link, clientVars, up, ws, taken, unwritten>>

\* The sweep is over: stratcond goes on and starts its streamers.
SweepEnd(j) ==
    /\ up = "sweep"
    /\ j.cur = None /\ j.todo = {}
    /\ up' = "up"
    /\ jobs' = {}
    /\ UNCHANGED <<produced, low, chkpt, link, clientVars, ws, kind, body, taken, unwritten>>

----------------------------------------------------------------------------
ConnStep(c) ==
    \/ Handler(c) \/ HandlerError(c) \/ ReadInterval(c) \/ Push(c)
    \/ ReadCheckpoint(c) \/ ThreadDone(c) \/ Initiate(c)

ClientStep ==
    \/ SocketError \/ RemoveNoit \/ ReadCount \/ ReadError
    \/ ReadHeader \/ ReadLine \/ ReadEmpty \/ WriteCheckpoint

JobStep(j) ==
    \/ SyncRename(j) \/ Accept(j) \/ Refuse(j) \/ IngestEnd(j) \/ SyncComplete(j)
    \/ SweepEntry(j) \/ SweepEnd(j)

Next ==
    \/ Produce \/ Crash \/ SweepBegin
    \/ \E c \in Conn : ConnStep(c)
    \/ ClientStep
    \/ \E j \in jobs : JobStep(j)

Spec == Init /\ [][Next]_vars

\* A noitd thread that finds its client gone, or its message pruned.
ThreadNotices(c) ==
    /\ cconn # c \/ (link[c].thr = "push" /\ link[c].sent + 1 < low)
    /\ ThreadDone(c)

\* The event loop and the threads keep running: every step of the protocol that
\* stays possible is taken.  Failures have no fairness.
Fairness ==
    /\ WF_vars(SweepBegin)
    /\ WF_vars(\E j \in jobs : JobStep(j))
    /\ WF_vars(\E c \in Conn : Initiate(c))
    /\ WF_vars(PeerClosed /\ SocketError)
    /\ WF_vars(ReadCount) /\ WF_vars(ReadError) /\ WF_vars(ReadHeader)
    /\ WF_vars(ReadLine \/ ReadEmpty) /\ WF_vars(WriteCheckpoint)
    /\ \A c \in Conn : /\ WF_vars(Handler(c)) /\ WF_vars(ReadInterval(c))
                       /\ WF_vars(Push(c)) /\ WF_vars(ReadCheckpoint(c))
                       /\ WF_vars(ThreadNotices(c))

FairSpec == Spec /\ Fairness

----------------------------------------------------------------------------
(* Properties.                                                             *)

\* The messages an ingestor chain has taken over or that need no ingestion.
Ingested(m) == m \in Empty \cup unwritten \/ \A i \in Ingestor : m \in taken[i]

\* Message m needs no resending: its line was taken over by every ingestor, or
\* is in a raw journal, which a restart ingests; or it has no line at all, or
\* its write was logged as failed.
Secured(m) == Ingested(m) \/ \E f \in File : kind[f] = "raw" /\ m \in body[f]

\* The noitd never moves past a message that the stratcond could still lose:
\* every message below the position from which the subscriber is read is
\* secured, whatever the order of stratcond crashes, refused files, broken
\* connections, reconnects that overlap the old thread, checkpoints that arrive
\* late on an old connection, and pruning of the journal.
NoAckedLoss == \A m \in 1 .. ReadFrom - 1 : Secured(m)

\* A message that is secured stays secured: no unlink in the sync or in the
\* sweep, and no reuse of a file, takes away the last copy.
SecuredForever == [][\A m \in Msg : Secured(m) => Secured(m)']_vars

\* The two ends agree on what a checkpoint must be: noit_jlog_thread_main never
\* rejects ("submitted invalid checkpoint") one this client sent.
NoInvalidCheckpoint ==
    \A c \in Conn :
        (link[c].thr = "wait" /\ link[c].ack # 0) => link[c].ack = link[c].sent

\* A batch that needs a sync finds its working set: the datastore never logs
\* "attempted checkpoint on non-existing workingset" for a noit's feed.
SyncFindsWorkingSet ==
    (needs_chkpt /\ cstate \in {"WANT_HEADER", "WANT_BODY"}) => FilesOf(ws) # {}

\* Every ".tmp" or raw journal that somebody works on has exactly one owner:
\* no line is appended to a journal that is being ingested or swept, no two
\* sync jobs rename or unlink the same file.
Holds(j) == j.todo \cup ({j.cur} \ {None})
OneOwner ==
    /\ \A j \in jobs : Holds(j) \cap FilesOf(ws) = {}
    /\ \A j, k \in jobs : j # k => Holds(j) \cap Holds(k) = {}
    /\ \A m, n \in Node : (m # n /\ ws[m] = ws[n]) => ws[m] = None
    /\ \A f \in FilesOf(ws) : kind[f] = "tmp"

\* What may go wrong outside the protocol.
Fault ==
    \/ Crash \/ RemoveNoit
    \/ ~PeerClosed /\ SocketError
    \/ \E c \in Conn : HandlerError(c) \/ (~ThreadNotices(c) /\ ThreadDone(c))

\* Once failures stop, every message written to the journal gets secured.
Delivery ==
    <>[][~Fault]_vars => \A m \in Msg : (produced >= m) ~> Secured(m)

\* Once failures stop, the noitd's checkpoint catches up with the journal and
\* stays there: no connection waits forever and late checkpoints run out.
Drained == <>[][~Fault]_vars => <>[](ReadFrom > produced)

\* The feed implements what FeedDelivery promises: a message the subscriber has
\* passed is safe, and safety is never taken back.
Delivers == INSTANCE FeedDelivery WITH
                passed <- ReadFrom - 1,
                safe <- {m \in 1 .. produced : Secured(m)}
ImplementsDelivery == Delivers!Spec
============================================================================
