--------------------------- MODULE PushListeners ----------------------------
(***************************************************************************)
(* Listeners for metrics that are pushed: lines over TCP (first part), and *)
(* ganglia's multicast packets (second part).                              *)
(***************************************************************************)
EXTENDS Integers, Sequences, FiniteSets, SequencesExt

(***************************************************************************)
(* The listener the graphite, opentsdb and statsd_tcp modules share        *)
(* (noit_socket_listener).  Each connection of a check is served in a      *)
(* thread of its own: what it reads is kept in a buffer, every whole       *)
(* record in it (a line, or a pickle behind its length) is handled and     *)
(* the rest kept.  A graphite metric is put into a table the connections   *)
(* share, which is logged when a name comes again, when it is full, after  *)
(* rows_per_cycle records and when a connection ends; the other modules    *)
(* log at once.                                                            *)
(*                                                                         *)
(* A record is the interval of its bytes in the stream of its connection;  *)
(* byte 0 is the newline, and the length in front of a pickle is one byte. *)
(***************************************************************************)

CONSTANTS
    Connection,
    Streams,        \* what a peer may send: sequences of bytes
    Framings,       \* subset of {"line", "pickle"}
    Trackings,      \* subset of BOOLEAN: is the table used
    rows_per_cycle
ASSUME ListenerAssumption == rows_per_cycle \in Nat \ {0} /\ Framings \subseteq {"line", "pickle"}

VARIABLES
    framing, tracking,
    conn,               \* conn[c]: [sent, state, start, rx_len, work, step, rows]
    immediate_metrics,  \* the table: a set of records with different names
    bundled             \* history: the records logged, in order

listenerVars == <<framing, tracking, conn, immediate_metrics, bundled>>

ListenerRow(c, i, j) == [c |-> c, first |-> i, last |-> j]

\* The name in a record, after the length if there is one.
NameOf(r) == conn[r.c].sent[IF framing = "pickle" THEN r.first + 1 ELSE r.first]

\* Mutant of Usable: everything that was read is handed over.
UsableAll(c, rows) == conn[c].rx_len

\* What count_records and graphite_count_pickle say can be used: up to the end
\* of the last whole record.
Usable(c, rows) == IF rows = {} THEN conn[c].start ELSE CHOOSE j \in {r.last : r \in rows} : \A r \in rows : r.last <= j

\* The whole records in the buffer, bytes start + 1 to rx_len.
Lines(c) ==
    LET s == conn[c].sent  from == conn[c].start + 1 IN
    {ListenerRow(c, i, j) : <<i, j>> \in {x \in (from..conn[c].rx_len) \X (from..conn[c].rx_len) :
        /\ x[1] <= x[2] /\ s[x[2]] = 0
        /\ x[1] = from \/ s[x[1] - 1] = 0
        /\ \A k \in x[1]..(x[2] - 1) : s[k] # 0}}
Pickles(c) ==
    LET s == conn[c].sent
        end[i \in 0..Len(s)] ==     \* the end of the i-th pickle, or -1
            IF i = 0 THEN conn[c].start
            ELSE IF end[i - 1] = -1 \/ end[i - 1] + 1 > conn[c].rx_len THEN -1
            ELSE LET j == end[i - 1] + 1 + s[end[i - 1] + 1] IN IF j > conn[c].rx_len THEN -1 ELSE j
    IN {ListenerRow(c, end[i - 1] + 1, end[i]) : i \in {k \in 1..Len(s) : end[k] # -1}}
Rows(c) == IF framing = "line" THEN Lines(c) ELSE Pickles(c)

\* The records in the order the payload handler comes to them.
InOrder(rows) == SetToSortSeq(rows, LAMBDA a, b : a.first < b.first)

\* listener_listen_handler: a new connection, on a thread of its own.
Accept(c) ==
    /\ conn[c].state = "none"
    /\ \E s \in Streams :
        conn' = [conn EXCEPT ![c] = [@ EXCEPT !.state = "idle", !.sent = s]]
    /\ UNCHANGED <<framing, tracking, immediate_metrics, bundled>>

\* listener_handler: some more of the stream is read and its whole records are
\* given to the payload handler.  The count of records starts anew when there
\* was nothing to read for a while.
ReadSome(c) ==
    /\ conn[c].state = "idle"
    /\ \E n \in (conn[c].rx_len + 1)..Len(conn[c].sent), rows \in {conn[c].rows, 0} :
        conn' = [conn EXCEPT ![c].rx_len = n, ![c].state = "split", ![c].rows = rows]
    /\ UNCHANGED <<framing, tracking, immediate_metrics, bundled>>

Split(c) ==
    /\ conn[c].state = "split"
    /\ conn' = [conn EXCEPT ![c].start = Usable(c, Rows(c)), ![c].work = InOrder(Rows(c)),
                            ![c].rows = @ + Cardinality(Rows(c)),
                            ![c].state = IF Rows(c) = {} THEN "idle" ELSE "handle",
                            ![c].step = "look"]
    /\ UNCHANGED <<framing, tracking, immediate_metrics, bundled>>

\* listener_flush_immediate, under flushlock.
Flushed == bundled \o SetToSeq(immediate_metrics)

Named(n) == {r \in immediate_metrics : NameOf(r) = n}

\* listener_metric_track_or_log, first under the lock: a name that is there, or
\* too many of them, make the table be logged.
TrackLook(c) ==
    /\ conn[c].state = "handle" /\ conn[c].work # <<>> /\ conn[c].step = "look" /\ tracking
    /\ IF Named(NameOf(Head(conn[c].work))) # {} \/ Cardinality(immediate_metrics) > rows_per_cycle
       THEN bundled' = Flushed /\ immediate_metrics' = {}
       ELSE UNCHANGED <<bundled, immediate_metrics>>
    /\ conn' = [conn EXCEPT ![c].step = "store"]
    /\ UNCHANGED <<framing, tracking>>

\* mtev_hash_store keeps what is there.
Stored(r) == IF Named(NameOf(r)) = {} THEN immediate_metrics \union {r} ELSE immediate_metrics

\* ... and then, under the lock again: it is stored, or tried again from the
\* start when another connection stored the name in between.
TrackStore(c) ==
    LET r == Head(conn[c].work) IN
    /\ conn[c].state = "handle" /\ conn[c].work # <<>> /\ conn[c].step = "store"
    /\ immediate_metrics' = Stored(r)
    /\ conn' = IF r \in immediate_metrics' THEN [conn EXCEPT ![c].work = Tail(@), ![c].step = "look"]
               ELSE [conn EXCEPT ![c].step = "look"]
    /\ UNCHANGED <<framing, tracking, bundled>>

\* opentsdb and statsd_tcp log each record at once.
LogDirectly(c) ==
    /\ conn[c].state = "handle" /\ conn[c].work # <<>> /\ ~tracking
    /\ bundled' = Append(bundled, Head(conn[c].work))
    /\ conn' = [conn EXCEPT ![c].work = Tail(@)]
    /\ UNCHANGED <<framing, tracking, immediate_metrics>>

\* The payload is handled: after rows_per_cycle records the table is logged.
Handled(c) ==
    /\ conn[c].state = "handle" /\ conn[c].work = <<>>
    /\ conn' = [conn EXCEPT ![c].state = "idle",
                            ![c].rows = IF @ >= rows_per_cycle THEN 0 ELSE @]
    /\ IF conn[c].rows >= rows_per_cycle
       THEN bundled' = Flushed /\ immediate_metrics' = {}
       ELSE UNCHANGED <<bundled, immediate_metrics>>
    /\ UNCHANGED <<framing, tracking>>

\* What a connection does with the table when it ends.
CloseFlush == bundled' = Flushed /\ immediate_metrics' = {}

\* socket_close: the peer is gone, or an error; an unfinished record is dropped.
SocketClose(c) ==
    /\ conn[c].state = "idle"
    /\ conn' = [conn EXCEPT ![c].state = "closed"]
    /\ CloseFlush
    /\ UNCHANGED <<framing, tracking>>

ListenerInit ==
    /\ framing \in Framings /\ tracking \in Trackings
    /\ conn = [c \in Connection |-> [sent |-> <<>>, state |-> "none", start |-> 0, rx_len |-> 0, work |-> <<>>,
                                     step |-> "look", rows |-> 0]]
    /\ immediate_metrics = {} /\ bundled = <<>>

ListenerNext ==
    \E c \in Connection :
        Accept(c) \/ ReadSome(c) \/ Split(c) \/ TrackLook(c) \/ TrackStore(c) \/ LogDirectly(c)
        \/ Handled(c) \/ SocketClose(c)

-----------------------------------------------------------------------------
\* The records of a stream: what lies between two of its record ends.
RecordEnds(c) ==
    LET s == conn[c].sent IN
    IF framing = "line" THEN {j \in DOMAIN s : s[j] = 0}
    ELSE {j \in DOMAIN s : \E q \in SUBSET DOMAIN s :
            /\ 1 \in q /\ \A i \in q : i # 1 => \E k \in q : k < i /\ i = k + s[k] + 1
            /\ \E i \in q : j = i + s[i]}

(* However the network cuts a stream into reads, what the handlers get of  *)
(* it are its records, whole, in order and each once; and when a           *)
(* connection has been read to its end, all of them (count_records,        *)
(* graphite_count_pickle, the buffer of listener_handler).                 *)
RecordsWhole ==
    \A c \in Connection : conn[c].state \in {"idle", "handle"} =>
        LET ends == {j \in RecordEnds(c) : j <= conn[c].start} IN
        /\ conn[c].start \in ends \union {0}
        /\ \A i \in DOMAIN bundled : bundled[i].c = c => bundled[i].last \in ends
        /\ \A j \in RecordEnds(c) : j <= conn[c].rx_len => j <= conn[c].start

(* Every record handled so far is logged once, or waits in the table or    *)
(* with its connection: two connections that store the same name lose      *)
(* neither.  When the last connection has ended nothing waits              *)
(* (listener_metric_track_or_log, listener_flush_immediate).               *)
RowsLoggedOnce ==
    LET waiting == immediate_metrics \union UNION {ToSet(conn[c].work) : c \in Connection}
        handled == UNION {{<<c, j>> : j \in {x \in RecordEnds(c) : x <= conn[c].start}} : c \in Connection}
    IN
    /\ \A i, j \in DOMAIN bundled : bundled[i] = bundled[j] => i = j
    /\ \A i \in DOMAIN bundled : bundled[i] \notin waiting
    /\ {<<r.c, r.last>> : r \in ToSet(bundled) \union waiting} = handled
    /\ (\A c \in Connection : conn[c].state \in {"none", "closed"}) => waiting = {}

-----------------------------------------------------------------------------
(***************************************************************************)
(* The ganglia module (ganglia.c): datagrams of a multicast group, each a  *)
(* metric of one host, given in turn to every check of that host, and the  *)
(* periodic report of each check.  A datagram's payload is read in place:  *)
(* every check it is given to turns its bytes around once more (`turns'),  *)
(* and a string's reader moves on by a word (`moved').                     *)
(***************************************************************************)

CONSTANTS
  HostChecks,        \* the host's checks, in the order of the index
  ImmediateOf,       \* which of them log what they hear at once
  PacketKind,        \* kinds of datagrams
  GangliaPeriod,     \* period of the checks
  LastBeat,          \* last instant
  MaxPackets         \* datagrams

GangliaAssumption ==
  /\ ImmediateOf \subseteq {HostChecks[i] : i \in DOMAIN HostChecks}
  /\ PacketKind \subseteq {"metadata", "number", "string", "unknown"}
  /\ GangliaPeriod \in Nat \ {0} /\ LastBeat \in Nat /\ MaxPackets \in Nat
ASSUME GangliaAssumption

GangliaChecks == {HostChecks[i] : i \in DOMAIN HostChecks}

VARIABLES
  gnow,        \* the clock
  gcl,         \* per check: closure, or <<>> before the first
  gfired,      \* per check: last_fire_time is set
  gwhence,     \* per check: when its current statistics were set
  greports,    \* per check: its last report, or "none"
  heard,       \* per check: it was given something since its last report
  gangliaRecorded,   \* per check: the readings of the last metric it was given
  gpackets     \* datagrams so far

gangliaVars == <<gnow, gcl, gfired, gwhence, greports, heard, gangliaRecorded, gpackets>>

-----------------------------------------------------------------------------
GangliaInit ==
  /\ gnow = 0 /\ gpackets = 0
  /\ gcl = [c \in GangliaChecks |-> <<>>]
  /\ gfired = [c \in GangliaChecks |-> FALSE]
  /\ gwhence = [c \in GangliaChecks |-> -GangliaPeriod]
  /\ greports = [c \in GangliaChecks |-> "none"]
  /\ heard = [c \in GangliaChecks |-> FALSE]
  /\ gangliaRecorded = [c \in GangliaChecks |-> <<>>]

\* ganglia_process_dgram for the host's checks in turn: the i-th finds the
\* payload turned i - 1 times.  A metric of the check or metadata is counted.
Reading(kind, i) ==
  IF kind = "number" THEN [turns |-> i % 2, moved |-> 0]
                     ELSE [turns |-> i % 2, moved |-> i]

ganglia_process_dgram(kind) ==
  LET counted == kind # "unknown"
  IN  /\ gcl' = [c \in GangliaChecks |->
                   <<(IF gcl[c] = <<>> THEN 0 ELSE gcl[c][1])
                       + (IF counted THEN 1 ELSE 0)>>]
      /\ heard' = [c \in GangliaChecks |-> heard[c] \/ counted]
      /\ gangliaRecorded' = IF kind \in {"number", "string"}
           THEN [c \in GangliaChecks |->
                  <<[kind |-> kind,
                     read |-> Reading(kind, CHOOSE i \in DOMAIN HostChecks :
                                              HostChecks[i] = c)]>>]
           ELSE gangliaRecorded

noit_ganglia_handler(kind) ==
  /\ gpackets < MaxPackets
  /\ gpackets' = gpackets + 1
  /\ ganglia_process_dgram(kind)
  /\ UNCHANGED <<gnow, gfired, gwhence, greports>>

\* ganglia_submit: a check that logs at once keeps quiet within its period;
\* the first run only makes the closure, and the first that finds one sets the
\* time of the last report without reporting.
clear_closure(c) == gcl' = [gcl EXCEPT ![c] = <<0>>]

ganglia_submit(c) ==
  /\ ~(c \in ImmediateOf /\ gnow - gwhence[c] < GangliaPeriod)
  /\ clear_closure(c)
  /\ gfired' = [gfired EXCEPT ![c] = @ \/ gcl[c] # <<>>]
  /\ IF gcl[c] # <<>> /\ gfired[c]
     THEN /\ gwhence' = [gwhence EXCEPT ![c] = gnow]
          /\ greports' = [greports EXCEPT ![c] =
               IF gcl[c][1] > 0 THEN "available" ELSE "unavailable"]
     ELSE UNCHANGED <<gwhence, greports>>
  /\ heard' = [heard EXCEPT ![c] = FALSE]
  /\ UNCHANGED <<gnow, gangliaRecorded, gpackets>>

GangliaTick ==
  /\ gnow < LastBeat /\ gnow' = gnow + 1
  /\ UNCHANGED <<gcl, gfired, gwhence, greports, heard, gangliaRecorded, gpackets>>

GangliaNext ==
  \/ \E kind \in PacketKind : noit_ganglia_handler(kind)
  \/ \E c \in GangliaChecks : ganglia_submit(c)
  \/ GangliaTick

-----------------------------------------------------------------------------
(* ganglia_submit calls a check available exactly if the host was heard of *)
(* since its run before: what came in an earlier period does not keep a    *)
(* silent host available.                                                  *)
SilenceReported ==
  [][ \A c \in GangliaChecks : gwhence'[c] # gwhence[c] =>
        greports'[c] = IF heard[c] THEN "available" ELSE "unavailable" ]_gangliaVars
=============================================================================
