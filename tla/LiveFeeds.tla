----------------------------- MODULE LiveFeeds ------------------------------
(***************************************************************************)
(* Measurements as they are made: the feeds of a noitd (first part), and   *)
(* stratcond's realtime pages, which read them (second part).              *)
(***************************************************************************)
EXTENDS Integers, Sequences, FiniteSets, SequencesExt

(***************************************************************************)
(* The two ways a client is shown a check as it runs: a livestream         *)
(* connection (noit_livestream_listener.c), whose lines pass through a     *)
(* queue to a thread of its own, and a websocket                           *)
(* (noit_websocket_handler.c), which sends at once and may be given a new  *)
(* request at any time.  One connection of each kind.                      *)
(*                                                                         *)
(* Either makes a log stream of its own and gives its name, the feed, to   *)
(* the check it watches; how the watched copy comes and goes is the matter *)
(* of Watches.  A line is the sequence of the metrics it carries.  What    *)
(* the messages look like, and sockets that fail while the request is      *)
(* read, are left out.                                                     *)
(***************************************************************************)

CONSTANTS LiveCheck,    \* the checks that run
          LiveLogger,   \* the threads that log
          LiveRequests, \* what a websocket is asked: [check, metrics]
          LiveLines,    \* the lines logged
          MaxFeedLines     \* bound: the lines logged to either

ASSUME LiveAssumption ==
  /\ MaxFeedLines \in Nat
  /\ \A r \in LiveRequests : Len(r.metrics) \in 0..1

VARIABLES live, lqueue, lqueue_sem, posting, lentry, enqueued, received,
          ws, wsFeeds, ls_counter, frames, due

liveVars == <<live, lqueue, lqueue_sem, posting, lentry, enqueued, received>>
wsVars == <<ws, wsFeeds, ls_counter, frames, due>>
liveFeedVars == <<liveVars, wsVars>>
-----------------------------------------------------------------------------
(* noit_livestream_listener.c *)

\* noit_livestream_handler: a check that is not there closes the connection.
noit_livestream_handler ==
  /\ live = "none"
  /\ live' \in {"open", "closed"}
  /\ UNCHANGED <<lqueue, lqueue_sem, posting, lentry, enqueued, received, wsVars>>

\* noit_livestream_logio_write: the entry is queued under the lock, the
\* semaphore is posted after it.
noit_livestream_logio_write(t, line) ==
  /\ live = "open" /\ ~posting[t] /\ Len(enqueued) < MaxFeedLines
  /\ lqueue' = Append(lqueue, line)
  /\ enqueued' = Append(enqueued, line)
  /\ posting' = [posting EXCEPT ![t] = TRUE]
  /\ UNCHANGED <<live, lqueue_sem, lentry, received, wsVars>>

sem_post(t) ==
  /\ posting[t]
  /\ posting' = [posting EXCEPT ![t] = FALSE]
  /\ lqueue_sem' = lqueue_sem + 1
  /\ UNCHANGED <<live, lqueue, lentry, enqueued, received, wsVars>>

\* noit_livestream_thread_main: one turn of its loop waits, takes the first
\* entry if there is one, and writes its length and its text.
sem_wait ==
  /\ live = "open" /\ lentry = <<>> /\ lqueue_sem > 0
  /\ lqueue_sem' = lqueue_sem - 1
  /\ lentry' = IF lqueue = <<>> THEN <<>> ELSE <<Head(lqueue)>>
  /\ lqueue' = IF lqueue = <<>> THEN lqueue ELSE Tail(lqueue)
  /\ UNCHANGED <<live, posting, enqueued, received, wsVars>>

Ewrite ==
  /\ live = "open" /\ lentry # <<>>
  /\ received' = received \o lentry
  /\ lentry' = <<>>
  /\ UNCHANGED <<live, lqueue, lqueue_sem, posting, enqueued, wsVars>>

\* A write that fails closes the connection; from then on nothing is queued.
alldone ==
  /\ live = "open" /\ lentry # <<>>
  /\ live' = "closed" /\ lentry' = <<>>
  /\ UNCHANGED <<lqueue, lqueue_sem, posting, enqueued, received, wsVars>>
-----------------------------------------------------------------------------
(* noit_websocket_handler.c *)

\* noit_websocket_closure_free: the subscription's feed leaves its check.
noit_websocket_closure_free(w, feeds) ==
  IF w = <<>> THEN feeds ELSE {f \in feeds : f.feed # w[1].feed \/ f.check # w[1].check}

\* noit_websocket_msg_handler: a request that can be read ends the subscription
\* before it, even if the check it names is not found; one that fails closes the
\* connection, and closing frees the subscription there is.
noit_websocket_msg_handler(r) ==
  /\ ls_counter < MaxFeedLines
  /\ ls_counter' = ls_counter + 1
  /\ LET old == noit_websocket_closure_free(ws, wsFeeds)
         new == [check |-> r.check, metrics |-> r.metrics, feed |-> ls_counter + 1]
     IN IF r.check \in LiveCheck
        THEN ws' = <<new>> /\ wsFeeds' = old \cup {[check |-> r.check, feed |-> new.feed]}
        ELSE ws' = <<>> /\ wsFeeds' = old
  /\ UNCHANGED <<liveVars, frames, due>>

WebsocketCloses ==
  /\ ws # <<>>
  /\ ws' = <<>> /\ wsFeeds' = noit_websocket_closure_free(ws, wsFeeds)
  /\ UNCHANGED <<liveVars, ls_counter, frames, due>>

\* send_individual_metric: a metric goes out if no metrics were named or its
\* name is among them.
send_individual_metric(w, m) == IF w.metrics = <<>> \/ m \in w.metrics[1] THEN <<m>> ELSE <<>>

\* filter_and_send: each metric of a bundle on its own.
filter_and_send(w, line) ==
  FlattenSeq([i \in DOMAIN line |-> send_individual_metric(w, line[i])])

\* noit_websocket_logio_write: a line of which nothing was sent sends a heartbeat.
noit_websocket_logio_write(w, line) ==
  LET sent == filter_and_send(w, line) IN IF sent = <<>> THEN <<"heartbeat">> ELSE sent

\* What the client is due of a line.
DueLines(c, line) ==
  IF ws = <<>> \/ ws[1].check # c THEN <<>>
  ELSE LET mine == SelectSeq(line, LAMBDA m : ws[1].metrics = <<>> \/ m \in ws[1].metrics[1])
       IN IF mine = <<>> THEN <<"heartbeat">> ELSE mine

\* Check c logs a line: to each feed of its own that names a stream.
CheckLogs(c, line) ==
  /\ Len(due) < MaxFeedLines
  /\ due' = Append(due, DueLines(c, line))
  /\ frames' = Append(frames,
       IF \E f \in wsFeeds : f.check = c /\ ws # <<>> /\ f.feed = ws[1].feed
       THEN noit_websocket_logio_write(ws[1], line) ELSE <<>>)
  /\ UNCHANGED <<liveVars, ws, wsFeeds, ls_counter>>
-----------------------------------------------------------------------------
LiveInit ==
  /\ live = "none" /\ lqueue = <<>> /\ lqueue_sem = 0 /\ posting = [t \in LiveLogger |-> FALSE]
  /\ lentry = <<>> /\ enqueued = <<>> /\ received = <<>>
  /\ ws = <<>> /\ wsFeeds = {} /\ ls_counter = 0 /\ frames = <<>> /\ due = <<>>

LiveNext ==
  \/ noit_livestream_handler
  \/ \E t \in LiveLogger : (\E l \in LiveLines : noit_livestream_logio_write(t, l)) \/ sem_post(t)
  \/ sem_wait \/ Ewrite \/ alldone
  \/ \E r \in LiveRequests : noit_websocket_msg_handler(r)
  \/ WebsocketCloses
  \/ \E c \in LiveCheck, l \in LiveLines : CheckLogs(c, l)
-----------------------------------------------------------------------------
(* A livestream's client is sent the lines logged to its feed in their order
   and without a gap, whichever threads logged them, and once the thread waits
   and no logger is between its entry and its post, all of them: no entry stays
   in the queue that no semaphore count stands for. *)
NoLineStranded ==
  /\ IsPrefix(received, enqueued)
  /\ (live = "open" /\ lentry = <<>> /\ lqueue_sem = 0 /\ \A t \in LiveLogger : ~posting[t])
       => received = enqueued

(* A websocket feeds from the check of its last request and from no other: a
   new request, one that fails, and the end of the connection take the feed of
   the subscription before it away from the check that had it. *)
OneSubscription ==
  wsFeeds = IF ws = <<>> THEN {} ELSE {[check |-> ws[1].check, feed |-> ws[1].feed]}

(* Each line of the check asked for reaches the websocket as its metrics, or as
   those of them that the request named, and as one heartbeat when there are
   none; lines of other checks do not. *)
FramesAsAsked == frames = due

-----------------------------------------------------------------------------
(***************************************************************************)
(* stratcond's realtime pages (stratcon_realtime_http.c): a browser asks   *)
(* for the metrics of some checks, the data store finds the noit of each,  *)
(* a connection to every noit found asks it for its live stream, and the   *)
(* lines it sends are appended to the page until the last connection is    *)
(* gone.  The http session, its reference count and the connections are    *)
(* libmtev's; the callbacks of one session run in one thread.              *)
(*                                                                         *)
(* What crosses a socket is a sequence of units, read and written one at a *)
(* time so that every way of splitting it happens: the request is the      *)
(* command, the interval and the two units of the check's id; a line is a  *)
(* header with the number of its units, and those units.                   *)
(***************************************************************************)

CONSTANTS
  Interest,      \* checks a page may ask for
  LineUnits,     \* how long a noit's lines are
  MaxPages,      \* requests of one session
  MaxLive        \* lines a noit sends on one connection

PageAssumption ==
  /\ LineUnits \subseteq Nat \ {0}
  /\ MaxPages \in Nat /\ MaxLive \in Nat
ASSUME PageAssumption

VARIABLES
  pageSetup,         \* rc->setup
  checklist,     \* rc->checklist: the interests not yet looked up or open
  ref_cnt,       \* references to the http session, its own included
  pageReceivers,    \* per interest: its connection, or <<>>
  told,          \* per interest: what its noit was sent
  line_units,    \* per interest: units its noit sent that are not yet read
  sent_lines,    \* per interest: lengths of the lines its noit sent
  page,          \* per interest: lengths of the lines appended to the page
  ends,          \* how often the response of this request was ended
  pages          \* requests so far

pageVars == <<pageSetup, checklist, ref_cnt, pageReceivers, told, line_units,
              sent_lines, page, ends, pages>>

-----------------------------------------------------------------------------
\* What full_nb_write sends in each state.
Field == [INITIATE |-> <<"cmd">>, SEND_INTERVAL |-> <<"interval">>,
          SEND_UUID |-> <<"uuid1", "uuid2">>]

AfterChannel == [INITIATE |-> "SEND_INTERVAL", SEND_INTERVAL |-> "SEND_UUID",
          SEND_UUID |-> "HEADER", HEADER |-> "BODY", BODY |-> "HEADER"]

\* calloc of a realtime_recv_ctx_t.
Receiver == [state |-> "INITIATE", bytes_expected |-> 0, bytes_read |-> 0,
             bytes_written |-> 0, body_len |-> 0]

Live == {i \in Interest : pageReceivers[i] # <<>>}

Nowhere == [i \in Interest |-> <<>>]

PageInit ==
  /\ pageSetup = "INITIAL" /\ checklist = {} /\ ref_cnt = 1
  /\ pageReceivers = Nowhere /\ told = Nowhere /\ line_units = Nowhere
  /\ sent_lines = Nowhere /\ page = Nowhere
  /\ ends = 0 /\ pages = 0

-----------------------------------------------------------------------------
\* stratcon_request_dispatcher: a request without a readable interest is 404;
\* for the others every interest holds the session while it is looked up.
stratcon_request_dispatcher(asked2) ==
  /\ pageSetup = "INITIAL" /\ pages < MaxPages
  /\ pages' = pages + 1
  /\ told' = Nowhere /\ line_units' = Nowhere
  /\ sent_lines' = Nowhere /\ page' = Nowhere
  /\ IF asked2 = {}
     THEN ends' = 1 /\ UNCHANGED <<pageSetup, checklist, ref_cnt>>
     ELSE /\ ends' = 0
          /\ pageSetup' = "REQ_RECV"
          /\ checklist' = asked2
          /\ ref_cnt' = ref_cnt + Cardinality(asked2)
  /\ UNCHANGED pageReceivers

\* stratcon_realtime_http_postresolve, after the data store found the noits
\* of some interests: the others give their reference back, and when none is
\* left the page is over.
stratcon_realtime_http_postresolve(found) ==
  /\ pageSetup = "REQ_RECV" /\ Live = {} /\ checklist # {}
  /\ pageReceivers' = [i \in Interest |-> IF i \in found THEN <<Receiver>> ELSE <<>>]
  /\ ref_cnt' = ref_cnt - Cardinality(checklist \ found)
  /\ IF ref_cnt' = 1
     THEN /\ ends' = ends + 1
          /\ pageSetup' = "INITIAL" /\ checklist' = {}
     ELSE checklist' = found /\ UNCHANGED <<pageSetup, ends>>
  /\ UNCHANGED <<told, line_units, sent_lines, page, pages>>

\* free_realtime_recv_ctx, when a connection is gone: the last one ends the
\* response and clears the context for the session's next request.
free_realtime_recv_ctx(i) ==
  /\ pageReceivers' = [pageReceivers EXCEPT ![i] = <<>>]
  /\ ref_cnt' = ref_cnt - 1
  /\ IF ref_cnt' = 1
     THEN ends' = ends + 1 /\ pageSetup' = "INITIAL" /\ checklist' = {}
     ELSE UNCHANGED <<ends, pageSetup, checklist>>

\* The noit accepts a live stream once it was told what is wanted, and sends
\* a line whenever the check has something to say.
NoitSends(i, n) ==
  /\ Live # {} /\ i \in Live
  /\ told[i] = Field.INITIATE \o Field.SEND_INTERVAL \o Field.SEND_UUID
  /\ Len(sent_lines[i]) < MaxLive
  /\ sent_lines' = [sent_lines EXCEPT ![i] = Append(@, n)]
  /\ line_units' = [line_units EXCEPT
                      ![i] = @ \o <<n>> \o [k \in 1..n |-> "unit"]]
  /\ UNCHANGED <<pageSetup, checklist, ref_cnt, pageReceivers, told, page, ends, pages>>

\* full_nb_write: one unit goes out; the rest is left for the next call.
full_nb_write(i) ==
  /\ i \in Live
  /\ LET c    == pageReceivers[i][1]
         data == Field[c.state]
         n    == IF c.bytes_expected = 0 THEN 0 ELSE c.bytes_written
     IN  /\ c.state \in DOMAIN Field
         /\ told' = [told EXCEPT ![i] = Append(@, data[n + 1])]
         /\ pageReceivers' = [pageReceivers EXCEPT ![i][1] =
              IF n + 1 = Len(data)
              THEN [c EXCEPT !.bytes_expected = 0, !.bytes_written = n + 1,
                             !.state = AfterChannel[c.state]]
              ELSE [c EXCEPT !.bytes_expected = Len(data),
                             !.bytes_written = n + 1]]
  /\ UNCHANGED <<pageSetup, checklist, ref_cnt, line_units, sent_lines, page, ends, pages>>

\* FULLREAD of a line's header and of its body; a whole body is turned into
\* JavaScript and appended to the page.
WantedChecks(c) == IF c.state = "HEADER" THEN 1 ELSE c.body_len

FULLREAD(i) ==
  /\ i \in Live /\ line_units[i] # <<>>
  /\ LET c == pageReceivers[i][1]
         u == Head(line_units[i])
         n == IF c.bytes_expected = 0 THEN 0 ELSE c.bytes_read
         whole == n + 1 = WantedChecks(c)
     IN  /\ c.state \in {"HEADER", "BODY"}
         /\ pageReceivers' = [pageReceivers EXCEPT ![i][1] =
              IF whole
              THEN [c EXCEPT !.bytes_expected = 0, !.bytes_read = 0,
                             !.body_len = IF c.state = "HEADER" THEN u ELSE @,
                             !.state = AfterChannel[c.state]]
              ELSE [c EXCEPT !.bytes_expected = WantedChecks(c), !.bytes_read = n + 1]]
         /\ page' = [page EXCEPT ![i] =
                       IF c.state = "BODY" /\ whole THEN Append(@, c.body_len) ELSE @]
  /\ line_units' = [line_units EXCEPT ![i] = Tail(@)]
  /\ UNCHANGED <<pageSetup, checklist, ref_cnt, told, sent_lines, ends, pages>>

\* stratcon_realtime_recv_handler's socket_error: the noit went away, a line
\* could not be read, or the browser is gone.
PageSocketError(i) ==
  /\ i \in Live
  /\ free_realtime_recv_ctx(i)
  /\ UNCHANGED <<told, line_units, sent_lines, page, pages>>

PageNext ==
  \/ \E s \in SUBSET Interest : stratcon_request_dispatcher(s)
  \/ \E s \in SUBSET checklist : stratcon_realtime_http_postresolve(s)
  \/ \E i \in Interest : \/ \E n \in LineUnits : NoitSends(i, n)
                         \/ full_nb_write(i) \/ FULLREAD(i) \/ PageSocketError(i)

-----------------------------------------------------------------------------
(* A page is open exactly as long as something may still be appended to it:*)
(* its response is ended once, when the last of its interests is gone - at *)
(* once if no noit was found - and the session is then held by nobody but  *)
(* itself, ready for the next request.                                     *)
PageEndsWithLast ==
  /\ ends <= 1
  /\ ends = 1 => Live = {} /\ ref_cnt = 1 /\ pageSetup = "INITIAL"
  /\ pages > 0 /\ pageSetup = "INITIAL" => ends = 1
  /\ Live # {} => ends = 0 /\ ref_cnt = 1 + Cardinality(Live)

(* Whatever way the socket splits what crosses it, a noit is told exactly  *)
(* the command, the interval and the check, and each of its lines reaches  *)
(* the page whole, once and in order.                                      *)
LinesReachPage ==
  \A i \in Interest :
    /\ \E k \in 0..4 : told[i] = SubSeq(<<"cmd", "interval", "uuid1", "uuid2">>, 1, k)
    /\ Len(page[i]) <= Len(sent_lines[i])
    /\ page[i] = SubSeq(sent_lines[i], 1, Len(page[i]))
    /\ i \in Live /\ line_units[i] = <<>> /\ told[i] # <<>> =>
         page[i] = sent_lines[i]
=============================================================================
