--------------------------- MODULE QueueDrivers ----------------------------
(***************************************************************************)
(* stratcond's drivers of message queues: Fq (first part), RabbitMQ        *)
(* (second part), STOMP (third part), and the AMQP connection that the     *)
(* RabbitMQ driver uses (fourth part).                                     *)
(***************************************************************************)
EXTENDS Integers, Sequences, FiniteSets, SequencesExt, AmqpFraming

(***************************************************************************)
(* The fq driver of stratcond's event processor: a message is published to *)
(* every host or, in round robin, to the next host that is believed to be  *)
(* up and to all those believed to be down.  A host is believed down for   *)
(* ten seconds after a connection to it was refused.  A second exchange    *)
(* carries the metrics that were asked for by REST (mq_filters): those of  *)
(* a check that is set, by name or, when no name is left, all of them.     *)
(***************************************************************************)

CONSTANTS nhosts, FqCheck, FqMetric, RetryAfter,    \* RetryAfter: ten seconds in the code
          LastFqSecond, MaxMessages                 \* bounds
ASSUME FqAssumption == nhosts \in Nat \ {0} /\ RetryAfter \in Nat

VARIABLES
    round_robin,
    down_host, last_error, target,      \* down_host[i], last_error[i], round_robin_target
    filtered,       \* filtered_checks_hash: <<>>, or <<the metrics named>> of a check that is set
    fqnow,
    published,      \* the hosts each message was published to
    settled,        \* how many messages were published when down_host last changed
    asked           \* asked[c]: the metrics set and not forgotten since

fqVars == <<round_robin, down_host, last_error, target, filtered, fqnow, published, settled, asked>>

Hosts == 0..(nhosts - 1)

\* fq_logger: "socket: Connection refused"
Refused(i) ==
    /\ round_robin
    /\ down_host' = [down_host EXCEPT ![i] = TRUE] /\ last_error' = [last_error EXCEPT ![i] = fqnow]
    /\ settled' = Len(published)
    /\ UNCHANGED <<round_robin, target, filtered, fqnow, published, asked>>

FqTick ==
    /\ fqnow < LastFqSecond /\ fqnow' = fqnow + 1
    /\ UNCHANGED <<round_robin, down_host, last_error, target, filtered, published, settled, asked>>

MayTry(i) == ~down_host[i] \/ fqnow - last_error[i] >= RetryAfter
Nth(k) == (target + k) % nhosts
Nearest(found) == Nth(CHOOSE n \in found : \A m \in found : n <= m)

(* The round robin of noit_fq_submit: the first host from the target on    *)
(* that is up or may be tried again, and every host believed down.         *)
Publish(found) ==
    LET down == IF found = {} THEN down_host ELSE [down_host EXCEPT ![Nearest(found)] = FALSE]
        chosen == IF found = {} THEN {} ELSE {Nearest(found)} IN
    /\ down_host' = down
    /\ published' = Append(published, chosen \union {i \in Hosts : down[i]})
    /\ target' = ((IF found = {} THEN target ELSE Nearest(found)) + 1) % nhosts

\* noit_fq_submit, to the exchange that takes everything.
FqSubmit ==
    /\ Len(published) < MaxMessages
    /\ IF round_robin THEN Publish({k \in Hosts : MayTry(Nth(k))})
       ELSE published' = Append(published, Hosts) /\ UNCHANGED <<target, down_host>>
    /\ settled' = IF down_host' = down_host THEN settled ELSE Len(published')
    /\ UNCHANGED <<round_robin, last_error, filtered, fqnow, asked>>

\* What noit_fq_submit sends to the filtered exchange too.
Forwarded(c, m) == filtered[c] # <<>> /\ (filtered[c][1] = {} \/ m \in filtered[c][1])

\* noit_fq_set_filters: MQ_ACTION_SET
SetFilter(c, ms) ==
    /\ filtered' = [filtered EXCEPT ![c] = <<ms>>]
    /\ asked' = [asked EXCEPT ![c] = IF ms = {} THEN FqMetric ELSE ms]
    /\ UNCHANGED <<round_robin, down_host, last_error, target, fqnow, published, settled>>

Forgotten(c, ms) == IF ms = {} \/ filtered[c] = <<>> THEN <<>> ELSE <<filtered[c][1] \ ms>>

\* MQ_ACTION_FORGET: of the check, or of metrics of it.
ForgetFilter(c, ms) ==
    /\ filtered' = [filtered EXCEPT ![c] = Forgotten(c, ms)]
    /\ asked' = [asked EXCEPT ![c] = IF ms = {} THEN {} ELSE @ \ ms]
    /\ UNCHANGED <<round_robin, down_host, last_error, target, fqnow, published, settled>>

FqInit ==
    /\ round_robin \in BOOLEAN
    /\ down_host = [i \in Hosts |-> FALSE] /\ last_error = [i \in Hosts |-> 0] /\ target = 0
    /\ filtered = [c \in FqCheck |-> <<>>] /\ asked = [c \in FqCheck |-> {}]
    /\ fqnow = 0 /\ published = <<>> /\ settled = 0

FqNext ==
    \/ FqTick \/ FqSubmit
    \/ \E i \in Hosts : Refused(i)
    \/ \E c \in FqCheck, ms \in SUBSET FqMetric : SetFilter(c, ms) \/ ForgetFilter(c, ms)

-----------------------------------------------------------------------------
(* Every message is published to some host; and from when all hosts are    *)
(* believed up again the hosts take turns: of any nhosts messages in a     *)
(* row, each goes to a host of its own                                     *)
(* (round_robin_target, down_host and last_error of noit_fq_submit).       *)
HostsTakeTurns ==
    /\ \A i \in DOMAIN published : published[i] # {}
    /\ round_robin /\ (\A h \in Hosts : ~down_host[h]) =>
        \A i, k \in (settled + 1)..Len(published) :
            i < k /\ k < i + nhosts => published[i] \intersect published[k] = {}

(* The filtered exchange misses nothing that was asked for and not         *)
(* forgotten since, and carries nothing of a check of which all was        *)
(* forgotten (noit_fq_set_filters, noit_fq_submit).                        *)
AskedForForwarded ==
    \A c \in FqCheck, m \in FqMetric :
        /\ m \in asked[c] => Forwarded(c, m)
        /\ filtered[c] = <<>> => asked[c] = {}

-----------------------------------------------------------------------------
(***************************************************************************)
(* modules/rabbitmq_driver.c: the AMQP connections of stratcond's          *)
(* submitter threads.  A thread takes one of a fixed number of slots,      *)
(* connects to its hosts in turn, publishes, and after each message sends  *)
(* the heartbeat that is due and reads what the broker sent.               *)
(***************************************************************************)

CONSTANTS
  SubmitThread,    \* threads
  MAX_SLOTS,       \* slots a thread may find (MAX_HOSTS in the code's loop)
  amqp_nhosts,     \* configured hosts
  heartbeat,       \* seconds between heartbeats
  LastAmqpSecond, MaxPublished, MaxArrived

RabbitAssumption ==
  /\ MAX_SLOTS \in Nat /\ amqp_nhosts \in Nat \ {0}
  /\ heartbeat \in Nat \ {0} /\ LastAmqpSecond \in Nat /\ MaxPublished \in Nat /\ MaxArrived \in Nat
ASSUME RabbitAssumption

VARIABLES
  slots,           \* the threads that hold a slot
  amqp,            \* a thread's connection: <<>> or
                   \* [last_hb, arrived: frames in the socket, buffered: in the library]
  nconnects,       \* a thread's next attempt
  sockfds,         \* sockets open in the process
  amqpNow, amqpPublished,
  outcome          \* of the last message: <<>> or [ok, wasClosed, waits, due, beat]

rabbitVars == <<slots, amqp, nconnects, sockfds, amqpNow, amqpPublished, outcome>>

RabbitInit ==
  /\ slots = {} /\ amqp = [th \in SubmitThread |-> <<>>]
  /\ nconnects = [th \in SubmitThread |-> 0]
  /\ sockfds = 0 /\ amqpNow = 0 /\ amqpPublished = 0 /\ outcome = <<>>

-----------------------------------------------------------------------------
\* noit_rabbimq_allocate: nconnects starts anywhere.
noit_rabbimq_allocate(th) ==
  /\ th \notin slots /\ Cardinality(slots) < MAX_SLOTS
  /\ slots' = slots \cup {th}
  /\ \E n \in 0..amqp_nhosts - 1 : nconnects' = [nconnects EXCEPT ![th] = n]
  /\ UNCHANGED <<amqp, sockfds, amqpNow, amqpPublished, outcome>>

\* amqp_open_socket: the sockets left open when a step of it fails, or none.
amqp_open_socket(fails) ==
  (IF fails \in {"name", "socket"} THEN 0 ELSE 1)
    - (IF fails \in {"nonblocking", "connect", "poll", "answer", "blocking"} THEN 1 ELSE 0)

\* noit_rabbimq_connect: no socket; a socket but no login or no channel, and
\* it is closed again; or connected.
noit_rabbimq_connect(th) ==
  /\ th \in slots /\ amqp[th] = <<>>
  /\ nconnects' = [nconnects EXCEPT ![th] = (@ + 1) % amqp_nhosts]
  /\ \/ /\ \E fails \in {"name", "socket", "nonblocking", "connect", "poll", "answer", "blocking"} :
             sockfds' = sockfds + amqp_open_socket(fails)
        /\ amqp' = amqp
     \/ sockfds' = sockfds + amqp_open_socket("nothing") - 1 /\ amqp' = amqp
     \/ /\ amqp' = [amqp EXCEPT ![th] = <<[last_hb |-> amqpNow, arrived |-> <<>>, buffered |-> <<>>]>>]
        /\ sockfds' = sockfds + amqp_open_socket("nothing")
  /\ UNCHANGED <<slots, amqpNow, amqpPublished, outcome>>

Disconnected(th) ==
  /\ amqp' = [amqp EXCEPT ![th] = <<>>] /\ sockfds' = sockfds - 1

\* noit_rabbitmq_heartbeat.
noit_rabbitmq_heartbeat(c) ==
  IF amqpNow - c.last_hb >= heartbeat THEN [c EXCEPT !.last_hb = amqpNow] ELSE c

Holds(frames) == \E i \in DOMAIN frames : frames[i] = "method"

\* noit_rabbitmq_read_frame: it polls the socket and takes one frame at a time,
\* from the library's buffer if there is one.  Of what the last read brought,
\* all but the first stays in the buffer: left frames.
noit_rabbitmq_read_frame(c, left) ==
  IF c.arrived = <<>> THEN [c |-> c, has_error |-> FALSE]
  ELSE LET all == c.buffered \o c.arrived
           taken == Len(all) - left
       IN  [c |-> [c EXCEPT !.arrived = <<>>, !.buffered = SubSeq(all, taken + 1, Len(all))],
            has_error |-> Holds(SubSeq(all, 1, taken))]

\* noit_rabbimq_submit: the publication fails, or it is sent, and the broker's
\* frames say whether the channel was there.
noit_rabbimq_submit(th) ==
  /\ amqp[th] # <<>> /\ amqpPublished < MaxPublished
  /\ amqpPublished' = amqpPublished + 1
  /\ LET c == noit_rabbitmq_heartbeat(amqp[th][1])
         said(ok, after) ==
           <<[ok |-> ok, wasClosed |-> Holds(c.buffered \o c.arrived), waits |-> Holds(after.buffered),
              due |-> c.arrived # <<>> /\ (Holds(c.buffered) \/ Head(c.arrived) = "method"), beat |-> c.last_hb]>>
     IN  \/ Disconnected(th) /\ outcome' = said(FALSE, c)
         \/ \E left \in 0..(IF c.arrived = <<>> THEN 0 ELSE Len(c.arrived) - 1) :
              LET r == noit_rabbitmq_read_frame(c, left) IN
              /\ IF r.has_error THEN Disconnected(th)
                 ELSE amqp' = [amqp EXCEPT ![th] = <<r.c>>] /\ UNCHANGED sockfds
              /\ outcome' = said(~r.has_error, r.c)
  /\ UNCHANGED <<slots, nconnects, amqpNow>>

\* The broker sends a heartbeat, or closes the channel or the connection with a
\* method.
BrokerSpeaks(th, k) ==
  /\ amqp[th] # <<>> /\ Len(amqp[th][1].arrived) + Len(amqp[th][1].buffered) < MaxArrived
  /\ ~Holds(amqp[th][1].arrived \o amqp[th][1].buffered) \/ k = "heartbeat"
  /\ amqp' = [amqp EXCEPT ![th][1].arrived = Append(@, k)]
  /\ UNCHANGED <<slots, nconnects, sockfds, amqpNow, amqpPublished, outcome>>

AmqpTick ==
  /\ amqpNow < LastAmqpSecond /\ amqpNow' = amqpNow + 1 /\ outcome' = <<>>
  /\ UNCHANGED <<slots, amqp, nconnects, sockfds, amqpPublished>>

RabbitNext ==
  \/ \E th \in SubmitThread :
       \/ noit_rabbimq_allocate(th) \/ noit_rabbimq_connect(th)
       \/ noit_rabbimq_submit(th)
       \/ \E k \in {"heartbeat", "method"} : BrokerSpeaks(th, k)
  \/ AmqpTick

-----------------------------------------------------------------------------
(* Through failed sockets, logins, channels and publications, the process   *)
(* holds exactly one socket for each connected thread.                      *)
SocketsClosed == sockfds = Cardinality({th \in SubmitThread : amqp[th] # <<>>})

(* A message is reported as published with a heartbeat younger than the      *)
(* interval agreed at the login, and over a channel that the broker had not  *)
(* closed before, except when the news of it came in one read with an        *)
(* earlier frame and waits behind it until anything else comes               *)
(* (noit_rabbitmq_heartbeat, noit_rabbitmq_read_frame).                      *)
PublishedAlive ==
  outcome # <<>> /\ outcome[1].ok =>
    /\ amqpNow - outcome[1].beat < heartbeat
    /\ outcome[1].wasClosed => outcome[1].waits /\ ~outcome[1].due

-----------------------------------------------------------------------------
(***************************************************************************)
(* modules/libstomp.c and modules/stomp_driver.c: frames written to a      *)
(* STOMP broker and what a reader of the stream finds.  The stream is a    *)
(* sequence of tokens: words, ":", "\n" and "NUL".                         *)
(***************************************************************************)

CONSTANTS
  Payloads,        \* message bodies, sequences of tokens without "NUL"
  Configs,         \* configured headers of a message: sequences of [key, value]
  MaxFrames        \* frames written to a connection

StompAssumption == MaxFrames \in Nat
ASSUME StompAssumption

VARIABLES
  stomp_config,    \* the headers in use
  connection,      \* connected
  stream,          \* what the broker has received of the connection
  confirmed        \* the frames whose writes succeeded

stompVars == <<stomp_config, connection, stream, confirmed>>

StompInit ==
  /\ stomp_config \in Configs
  /\ connection = FALSE /\ stream = <<>> /\ confirmed = <<>>

-----------------------------------------------------------------------------
\* stomp_write.
HeaderText(hs) == FlattenSeq([i \in 1..Len(hs) |-> <<hs[i].key, ":">> \o hs[i].value \o <<"\n">>])

stomp_write(fr) ==
  <<fr.command, "\n">> \o HeaderText(fr.headers) \o <<"\n">> \o fr.body \o <<"NUL", "\n">>

\* stomp_write_buffer: all of it, or what went before the connection failed.
Written(fr) ==
  \/ /\ connection' = TRUE /\ stream' = stream \o stomp_write(fr)
     /\ confirmed' = Append(confirmed, fr)
  \/ \E n \in 0..Len(stomp_write(fr)) - 1 :
       /\ connection' = FALSE /\ stream' = stream \o SubSeq(stomp_write(fr), 1, n)
       /\ UNCHANGED confirmed

\* noit_stomp_connect, on a new connection.
noit_stomp_connect ==
  /\ ~connection /\ stream = <<>>
  /\ Written([command |-> "CONNECT", headers |-> <<>>, body |-> <<>>])
  /\ UNCHANGED stomp_config

\* noit_stomp_submit.
noit_stomp_submit(b) ==
  /\ connection /\ Len(confirmed) < MaxFrames
  /\ Written([command |-> "SEND", headers |-> stomp_config, body |-> b])
  /\ UNCHANGED stomp_config

\* Another connection, after stomp_disconnect.
stomp_disconnect ==
  /\ ~connection /\ stream # <<>>
  /\ stream' = <<>> /\ confirmed' = <<>>
  /\ UNCHANGED <<stomp_config, connection>>

StompNext ==
  noit_stomp_connect \/ stomp_disconnect \/ \E b \in Payloads : noit_stomp_submit(b)

-----------------------------------------------------------------------------
\* The place of the first token of a set from i on; 0 if there is none.
FirstIn(s, i, set) ==
  LET js == {j \in i..Len(s) : s[j] \in set}
  IN  IF js = {} THEN 0 ELSE CHOOSE j \in js : \A k \in js : j <= k

\* stomp_read_line: [text, next]; next is 0 when the line does not end or a
\* "NUL" comes first.
stomp_read_line(s, i) ==
  LET j == FirstIn(s, i, {"\n", "NUL"})
  IN  IF j = 0 \/ s[j] = "NUL" THEN [text |-> <<>>, next |-> 0]
      ELSE [text |-> SubSeq(s, i, j - 1), next |-> j + 1]

\* stomp_read_buffer.
stomp_read_buffer(s, i) ==
  LET j == FirstIn(s, i, {"NUL"})
  IN  IF j = 0 \/ j = Len(s) \/ s[j + 1] # "\n" THEN [text |-> <<>>, next |-> 0]
      ELSE [text |-> SubSeq(s, i, j - 1), next |-> j + 2]

\* stomp_read: the command, header lines up to an empty one, the body.
RECURSIVE HeadersFrom(_, _, _)
HeadersFrom(s, i, hs) ==
  LET l == stomp_read_line(s, i)
      c == FirstIn(l.text, 1, {":"})
  IN  IF l.next = 0 THEN [headers |-> hs, next |-> 0]
      ELSE IF l.text = <<>> THEN [headers |-> hs, next |-> l.next]
      ELSE IF c = 0 THEN [headers |-> hs, next |-> 0]
      ELSE HeadersFrom(s, l.next,
             Append(hs, [key |-> l.text[1], value |-> SubSeq(l.text, c + 1, Len(l.text))]))

RECURSIVE stomp_read(_, _, _)
stomp_read(s, i, frames) ==
  LET cmd == stomp_read_line(s, i)
      hs == HeadersFrom(s, cmd.next, <<>>)
      body == stomp_read_buffer(s, hs.next)
  IN  IF cmd.next = 0 THEN frames
      ELSE IF hs.next = 0 THEN frames
      ELSE IF body.next = 0 THEN frames
      ELSE stomp_read(s, body.next,
             Append(frames, [command |-> cmd.text[1], headers |-> hs.headers,
                             body |-> body.text]))

(* Whatever the payloads hold (lines, colons, nothing at all) and wherever  *)
(* a write stops, the broker's side reads from a connection exactly the     *)
(* frames whose submission was reported as a success, whole and in order.   *)
FramesReadBack == stomp_read(stream, 1, <<>>) = confirmed

-----------------------------------------------------------------------------

(***************************************************************************)
(* librabbitmq's connection, as rabbitmq_driver.c uses it: the login, the  *)
(* channel, publications and what the broker sends meanwhile.  Frames are  *)
(* read from a socket that delivers their bytes in pieces of any size.     *)
(***************************************************************************)

CONSTANTS
  InitialFrameMax, AskedFrameMax,     \* INITIAL_FRAME_POOL_PAGE_SIZE, and 131072 of the driver
  OfferedFrameMax,                    \* of brokers; 0 is no limit
  BodySizes,
  ReadSizes,                          \* how much a read may find
  MaxPublications, MaxExtras          \* bounds: publications, and frames nobody asked for

HEADER_SIZE == 7
FOOTER_SIZE == 1
AMQP_FRAME_END == 206
FrameType == [method |-> 1, header |-> 2, body |-> 3, heartbeat |-> 8]

VARIABLES
  client,          \* the driver and its connection
  socket,          \* bytes on their way to the client
  broker,          \* [open, inbox, tuned, returns: it may return a message, extras]
  sent,            \* frames the broker sent
  handled,         \* frames amqp_handle_input found: [frame, reply: it answered a request]
  seen,            \* places in handled of those noit_rabbitmq_read_frame was given
  publication      \* of the message being submitted: [body, frames, frame_max], or <<>>

amqpVars == <<client, socket, broker, sent, handled, seen, publication>>

MethodFrame(ch, name, m) == [type |-> "method", channel |-> ch, name |-> name, m |-> m]
HeaderFrame(ch, size) == [type |-> "header", channel |-> ch, size |-> size]
BodyFrame(ch, b) == [type |-> "body", channel |-> ch, fragment |-> b]
Heartbeat == [type |-> "heartbeat", channel |-> 0]
NoFrame == [type |-> "none"]
BadFrame == [type |-> "bad"]
ProtocolHeader == [type |-> "protocol", channel |-> 19793]

\* inner_send_frame and amqp_send_frame.  The class of a header is basic, its
\* properties are the default ones.
Payload(fr) ==
  CASE fr.type = "method" ->
         E16(Methods[fr.name].id[1]) \o E16(Methods[fr.name].id[2]) \o amqp_encode_method(fr.name, fr.m)
    [] fr.type = "header" ->
         E16(60) \o E16(0) \o E64(<<0, 0>> \o Words(fr.size))
           \o amqp_encode_properties("basic", {}, <<>>)
    [] fr.type = "body" -> fr.fragment
    [] fr.type = "heartbeat" -> <<>>
Framed(fr, payload) ==
  E8(FrameType[fr.type]) \o E16(fr.channel) \o E32(Words(Len(payload))) \o payload
    \o E8(AMQP_FRAME_END)
amqp_send_frame(fr) == Framed(fr, Payload(fr))

-----------------------------------------------------------------------------
\* A whole frame in the inbound buffer.
DecodedFrame(ch, name, r) == IF r.at < 0 THEN BadFrame ELSE MethodFrame(ch, name, r.m)
MethodIn(ch, id, arguments) ==
  IF id \notin DOMAIN MethodNamed THEN BadFrame
  ELSE DecodedFrame(ch, MethodNamed[id], amqp_decode_method(MethodNamed[id], arguments))
FrameOf(r, ch, inside) ==
  CASE r.b[1] = FrameType.method ->
         MethodIn(ch, <<D16(r, HEADER_SIZE), D16(r, HEADER_SIZE + 2)>>, SubSeq(inside, 5, Len(inside)))
    [] r.b[1] = FrameType.header -> HeaderFrame(ch, Number(D32(r, HEADER_SIZE + 8)))
    [] r.b[1] = FrameType.body -> BodyFrame(ch, inside)
    [] r.b[1] = FrameType.heartbeat -> Heartbeat
    [] OTHER -> NoFrame
FrameIn(b) ==
  IF b[Len(b)] # AMQP_FRAME_END THEN BadFrame
  ELSE FrameOf(Reader(b), D16(Reader(b), 1), SubSeq(b, HEADER_SIZE + 1, Len(b) - FOOTER_SIZE))

return_to_idle(c) == [c EXCEPT !.state = "idle", !.inbound = <<>>, !.target = HEADER_SIZE]

\* amqp_handle_input: bytes are added until the header says how many there will
\* be, then until they are there.
InputResult(c, rest, fr) ==
  [c |-> IF fr = BadFrame THEN c ELSE return_to_idle(c), rest |-> rest, frame |-> fr]
HeaderRead(c) ==
  IF SubSeq(c.inbound, 1, 3) = <<65, 77, 81>> THEN [c EXCEPT !.state = "protocol", !.target = 8]
  ELSE [c EXCEPT !.state = "body",
          !.target = Number(D32(Reader(c.inbound), 3)) + HEADER_SIZE + FOOTER_SIZE]

RECURSIVE amqp_handle_input(_, _), Extended(_, _, _)
amqp_handle_input(c, data) ==
  LET bytes_consumed == Min({Len(data), c.target - Len(c.inbound)})
  IN  IF data = <<>> THEN [c |-> c, rest |-> data, frame |-> NoFrame]
      ELSE Extended([c EXCEPT !.inbound = @ \o SubSeq(data, 1, bytes_consumed),
                            !.state = IF @ = "idle" THEN "header" ELSE @],
                  c, SubSeq(data, bytes_consumed + 1, Len(data)))
Extended(c, before, rest) ==
  CASE Len(c.inbound) > c.frame_max ->
         [c |-> [before EXCEPT !.state = c.state], rest |-> rest, frame |-> BadFrame]
    [] Len(c.inbound) <= c.frame_max /\ Len(c.inbound) < c.target ->
         [c |-> c, rest |-> rest, frame |-> NoFrame]
    [] OTHER ->
         CASE c.state = "header" -> amqp_handle_input(HeaderRead(c), rest)
           [] c.state = "body" -> InputResult(c, rest, FrameIn(c.inbound))
           [] c.state = "protocol" -> InputResult(c, rest, ProtocolHeader)

-----------------------------------------------------------------------------
(* A step of the client is [c, out]: its new state and the names of what it *)
(* wrote.  n is the number of frames handled so far.                        *)
Goes(c, pc, out) == [c |-> [c EXCEPT !.pc = pc], out |-> out]

\* amqp_release_buffers and amqp_maybe_release_buffers: the memory of the frames
\* decoded so far is used again.
Recycled(c, n) == [c EXCEPT !.released = n, !.torn = c.inbound # <<>>]
amqp_release_buffers_ok(c) == c.state = "idle" /\ c.queue = <<>>
amqp_maybe_release_buffers(c, n) == IF amqp_release_buffers_ok(c) THEN Recycled(c, n) ELSE c
amqp_release_buffers(c, n, next) ==
  IF amqp_release_buffers_ok(c) THEN [next EXCEPT !.c = Recycled(@, n)] ELSE Goes(c, "aborted", <<>>)

Open(c) == Goes(c, "open", <<"connection_open">>)
Close(c) == Goes(c, "close", <<"connection_close">>)

IsMethod(fr, ch, names) == fr.type = "method" /\ fr.channel = ch /\ fr.name \in names

\* amqp_login_inner: what follows connection.start and connection.tune;
\* amqp_simple_wait_method aborts on anything else.
Started(c, fr, n) ==
  IF ~IsMethod(fr, 0, {"connection_start"}) THEN Goes(c, "aborted", <<>>)
  ELSE IF <<fr.m["version_major"], fr.m["version_minor"]>> # <<8, 0>> THEN Open(c)
  ELSE amqp_release_buffers(c, n, Goes(c, "tune", <<"connection_start_ok">>))

Tuned(c, fr, n) ==
  LET offer == Number(fr.m["frame_max"])
      tuned == [c EXCEPT !.frame_max = IF offer # 0 /\ offer < AskedFrameMax THEN offer ELSE AskedFrameMax,
                         !.pc = IF c.state = "idle" THEN @ ELSE "aborted"]
      next == Open(tuned)
  IN  IF ~IsMethod(fr, 0, {"connection_tune"}) \/ tuned.pc = "aborted" THEN Goes(c, "aborted", <<>>)
      ELSE amqp_release_buffers(tuned, n, [next EXCEPT !.out = <<"connection_tune_ok">> \o @])

\* amqp_simple_rpc: the request a client waits for an answer to.
Rpc ==
  [open |-> [channel |-> 0, replies |-> {"connection_open_ok"}],
   channel |-> [channel |-> 1, replies |-> {"channel_open_ok"}],
   close |-> [channel |-> 0, replies |-> {"connection_close_ok"}]]
Answers(pc, fr) ==
  \/ IsMethod(fr, Rpc[pc].channel, Rpc[pc].replies \cup {"channel_close"})
  \/ IsMethod(fr, 0, {"connection_close"})

\* amqp_login, amqp_channel_open and noit_rabbimq_connect: what follows.
Answered(c, fr, n) ==
  IF c.pc = "close" THEN Goes(c, "gone", <<>>)
  ELSE IF fr.name \notin Rpc[c.pc].replies THEN Close(c)
  ELSE IF c.pc = "open"
       THEN Goes(amqp_maybe_release_buffers(c, n), "channel", <<"channel_open">>)
       ELSE Goes(c, "ready", <<>>)

\* noit_rabbimq_submit, once no more is to be read.
Finished(c, n) ==
  LET d == amqp_maybe_release_buffers(c, n)
  IN  IF d.has_error THEN Close(d) ELSE Goes(d, "ready", <<>>)

Kept(c, fr) == c.pc \in DOMAIN Rpc /\ ~Answers(c.pc, fr)

\* A frame came out of wait_frame_inner.
Got(c, fr, n) ==
  CASE Kept(c, fr) -> [c |-> [c EXCEPT !.queue = Append(@, n)], out |-> <<>>]
    [] c.pc = "start" -> Started(c, fr, n)
    [] c.pc = "tune" -> Tuned(c, fr, n)
    [] c.pc = "wait" -> Goes([c EXCEPT !.has_error = @ \/ fr.type = "method"], "poll", <<>>)
    [] OTHER -> Answered(c, fr, n)

\* wait_frame_inner found the end of the stream, an error or a timeout.  The
\* result of amqp_login_inner is not looked at.
NotGot(c, n) ==
  CASE c.pc \in {"start", "tune"} -> Open(c)
    [] c.pc \in {"open", "channel"} -> Close(c)
    [] c.pc = "close" -> Goes(c, "gone", <<>>)
    [] c.pc = "wait" -> Finished(c, n)

Waiting == client.pc \in {"start", "tune", "open", "channel", "close", "wait"}

Does(step) ==
  /\ client' = step.c
  /\ broker' = [broker EXCEPT !.inbox = @ \o step.out]

-----------------------------------------------------------------------------
\* amqp_new_connection and the start of amqp_login.
amqp_login ==
  /\ client.pc = "new"
  /\ Does(Goes(client, "start", <<"header">>))
  /\ UNCHANGED <<socket, sent, handled, seen, publication>>

\* The calls of amqp_handle_input in wait_frame_inner.
GotOrNot(c, fr, n) ==
  CASE fr = NoFrame -> [c |-> c, out |-> <<>>]
    [] fr = BadFrame -> NotGot([c EXCEPT !.refused = TRUE], n)
    [] OTHER -> Got(c, fr, n + 1)
Input ==
  /\ Waiting /\ client.sock # <<>>
  /\ \E r \in {amqp_handle_input(client, client.sock)} :
       \E step \in {GotOrNot(r.c, r.frame, Len(handled))} :
         /\ Does([step EXCEPT !.c.sock = IF r.frame = BadFrame THEN @ ELSE r.rest])
         /\ IF r.frame \in {NoFrame, BadFrame} THEN UNCHANGED <<handled, seen>>
            ELSE /\ handled' = Append(handled, [frame |-> r.frame,
                                 reply |-> client.pc # "wait" /\ ~Kept(client, r.frame)])
                 /\ seen' = IF client.pc = "wait" THEN Append(seen, Len(handled) + 1) ELSE seen
  /\ UNCHANGED <<socket, sent, publication>>

\* Its read, of some of what has come.
ReadSome(most) ==
  /\ Waiting /\ client.sock = <<>> /\ socket # <<>>
  /\ client' = [client EXCEPT !.sock = SubSeq(socket, 1, most)]
  /\ socket' = SubSeq(socket, most + 1, Len(socket))
  /\ UNCHANGED <<broker, sent, handled, seen, publication>>

\* The end of the stream, or the timeout of the socket.
ReadNothing ==
  /\ Waiting /\ client.sock = <<>> /\ socket = <<>>
  /\ Does(NotGot(client, Len(handled)))
  /\ UNCHANGED <<socket, sent, handled, seen, publication>>

-----------------------------------------------------------------------------
\* amqp_basic_publish: the method, the header, and the body in pieces.
PublishMethod ==
  [ticket |-> 0, exchange |-> Text(1), routing_key |-> Text(2), mandatory |-> 1, immediate |-> 0]
amqp_basic_publish(body, frame_max) ==
  LET usable == frame_max - (HEADER_SIZE + FOOTER_SIZE)
      pieces == (Len(body) + usable - 1) \div usable
      end(i) == IF Len(body) - i * usable >= usable THEN (i + 1) * usable ELSE Len(body)
  IN  <<MethodFrame(1, "basic_publish", PublishMethod), HeaderFrame(1, Len(body))>>
        \o [i \in 1..pieces |-> BodyFrame(1, SubSeq(body, (i - 1) * usable + 1, end(i - 1)))]

\* noit_rabbimq_submit: all is written, or the broker was gone.
Submit(size) ==
  /\ client.pc = "ready" /\ client.publications < MaxPublications
  /\ LET body == [i \in 1..size |-> i % 256]
         c == [client EXCEPT !.publications = @ + 1]
     IN  \/ /\ publication' = <<[body |-> body, frame_max |-> client.frame_max,
                                 frames |-> amqp_basic_publish(body, client.frame_max)]>>
            /\ Does(Goes(c, "poll", <<"basic_publish">>))
         \/ ~broker.open /\ Does(Close(c)) /\ UNCHANGED publication
  /\ UNCHANGED <<socket, sent, handled, seen>>

\* noit_rabbitmq_read_frame polls the socket, and only the socket; what is
\* queued in the connection comes first.
Poll ==
  /\ client.pc = "poll"
  /\ IF socket = <<>> /\ broker.open
     THEN Does(Finished(client, Len(handled))) /\ UNCHANGED seen
     ELSE IF client.queue = <<>> THEN Does(Goes(client, "wait", <<>>)) /\ UNCHANGED seen
     ELSE /\ client' = [client EXCEPT !.queue = Tail(@),
                          !.has_error = @ \/ handled[Head(client.queue)].frame.type = "method"]
          /\ seen' = Append(seen, Head(client.queue))
          /\ UNCHANGED broker
  /\ publication' = <<>>
  /\ UNCHANGED <<socket, sent, handled>>

-----------------------------------------------------------------------------
(* The broker.  It sends whole frames, answers what it is asked or closes,  *)
(* and once the connection is tuned may send a heartbeat, return a message  *)
(* or close the channel.                                                    *)
StartMethod(v) ==
  [version_major |-> v[1], version_minor |-> v[2], server_properties |-> <<>>,
   mechanisms |-> Text(2), locales |-> Text(1)]
TuneMethod(o) == [channel_max |-> 0, frame_max |-> Words(o), heartbeat |-> 5]
CloseMethod == [reply_code |-> 320, reply_text |-> Text(2), class_id |-> 0, method_id |-> 0]
ReturnMethod ==
  [reply_code |-> 312, reply_text |-> Text(1), exchange |-> Text(1), routing_key |-> Text(2)]

ConnectionClosed == <<MethodFrame(0, "connection_close", CloseMethod)>>
ChannelClosed == <<MethodFrame(1, "channel_close", CloseMethod)>>

Replies(ask) ==
  CASE ask = "header" ->
         {<<MethodFrame(0, "connection_start", StartMethod(v))>> : v \in {<<8, 0>>, <<9, 1>>}}
           \cup {<<ProtocolHeader>>}
    [] ask = "connection_start_ok" ->
         {<<MethodFrame(0, "connection_tune", TuneMethod(o))>> : o \in OfferedFrameMax}
    [] ask = "connection_open" ->
         {<<MethodFrame(0, "connection_open_ok", [known_hosts |-> Text(1)])>>, ConnectionClosed}
    [] ask = "channel_open" ->
         {<<MethodFrame(1, "channel_open_ok", <<>>)>>, ChannelClosed, ConnectionClosed}
    [] ask = "connection_close" -> {<<MethodFrame(0, "connection_close_ok", <<>>)>>}
    [] OTHER -> {<<>>}

Returned == <<MethodFrame(1, "basic_return", ReturnMethod), HeaderFrame(1, 2), BodyFrame(1, Text(2))>>

ToBytes(fr) == IF fr = ProtocolHeader THEN <<65, 77, 81, 80, 1, 1, 9, 1>> ELSE amqp_send_frame(fr)
BrokerSends(frs) ==
  /\ socket' = socket \o FlattenSeq([i \in DOMAIN frs |-> ToBytes(frs[i])])
  /\ sent' = sent \o frs

BrokerReplies(frs) ==
  /\ broker.open /\ broker.inbox # <<>>
  /\ BrokerSends(frs)
  /\ broker' = [broker EXCEPT !.inbox = Tail(@), !.tuned = @ \/ Head(broker.inbox) = "connection_tune_ok",
                              !.returns = Head(broker.inbox) = "basic_publish"]
  /\ UNCHANGED <<client, handled, seen, publication>>

BrokerExtra(frs) ==
  /\ broker.open /\ broker.tuned /\ broker.extras < MaxExtras
  /\ BrokerSends(frs)
  /\ broker' = [broker EXCEPT !.extras = @ + 1, !.returns = FALSE]
  /\ UNCHANGED <<client, handled, seen, publication>>

\* The connection ends, perhaps in the middle of a frame.
BrokerDrops(lost) ==
  /\ broker.open /\ broker' = [broker EXCEPT !.open = FALSE]
  /\ socket' = SubSeq(socket, 1, Len(socket) - lost)
  /\ UNCHANGED <<client, sent, handled, seen, publication>>

-----------------------------------------------------------------------------
AmqpInit ==
  /\ client = [pc |-> "new", state |-> "idle", inbound |-> <<>>, target |-> HEADER_SIZE,
               frame_max |-> InitialFrameMax, sock |-> <<>>, queue |-> <<>>, has_error |-> FALSE,
               released |-> 0, torn |-> FALSE, refused |-> FALSE, publications |-> 0]
  /\ socket = <<>> /\ sent = <<>> /\ handled = <<>> /\ seen = <<>> /\ publication = <<>>
  /\ broker = [open |-> TRUE, inbox |-> <<>>, tuned |-> FALSE, returns |-> FALSE, extras |-> 0]

AmqpNext ==
  \/ amqp_login \/ Input \/ ReadNothing \/ Poll
  \/ \E lost \in {0, 1} : lost <= Len(socket) /\ BrokerDrops(lost)
  \/ \E most \in ReadSizes : ReadSome(IF most < Len(socket) THEN most ELSE Len(socket))
  \/ \E size \in BodySizes : Submit(size)
  \/ broker.inbox # <<>> /\ \E frs \in Replies(Head(broker.inbox)) : BrokerReplies(frs)
  \/ \E frs \in {<<Heartbeat>>, ChannelClosed} : BrokerExtra(frs)
  \/ broker.returns /\ BrokerExtra(Returned)

-----------------------------------------------------------------------------
Alive == client.pc \notin {"gone", "aborted"}

(* However the bytes of the broker's frames are cut into reads, the         *)
(* connection finds each frame once, whole and in order, and refuses one    *)
(* only if it is longer than was agreed; those that answer no request wait  *)
(* in the order they came until noit_rabbitmq_read_frame takes them, and    *)
(* none is lost on the way                                                  *)
(* (amqp_handle_input, wait_frame_inner, amqp_simple_rpc).                  *)
FramesAccounted ==
  LET found == [i \in DOMAIN handled |-> handled[i].frame]
      kept == SelectSeq([i \in DOMAIN handled |-> i], LAMBDA i : ~handled[i].reply)
  IN  /\ IsPrefix(found, sent)
      /\ Alive /\ socket = <<>> /\ client.sock = <<>> /\ client.inbound = <<>> => found = sent
      /\ client.refused => Len(ToBytes(sent[Len(found) + 1])) > client.frame_max
      /\ Alive => kept = seen \o client.queue

(* The memory of a frame is not used again while the frame is queued or     *)
(* half read; and the library aborts only on a broker that did not answer   *)
(* the login in its language (amqp_release_buffers, amqp_tune_connection,   *)
(* amqp_simple_wait_method).                                                *)
FramesHeld ==
  /\ \A i \in ToSet(client.queue) : i > client.released
  /\ ~client.torn
  /\ client.pc = "aborted" => ProtocolHeader \in ToSet(sent)

\* What a reader of a stream of frames finds in it.
RECURSIVE FramesOf(_, _), FramesAfter(_)
FramesOf(c, data) == FramesAfter(amqp_handle_input(c, data))
FramesAfter(r) ==
  IF r.frame \in {NoFrame, BadFrame} THEN <<>> ELSE <<r.frame>> \o FramesOf(r.c, r.rest)

(* A publication reaches the broker as the frames it was made of, each no   *)
(* longer than was agreed, with the body whole and in order and its length  *)
(* before it (amqp_basic_publish, amqp_send_frame).                         *)
PublicationsWhole ==
  publication # <<>> =>
    LET p == publication[1]
        wire == [i \in DOMAIN p.frames |-> amqp_send_frame(p.frames[i])]
        reader == return_to_idle([client EXCEPT !.frame_max = p.frame_max])
    IN  /\ FramesOf(reader, FlattenSeq(wire)) = p.frames
        /\ \A i \in DOMAIN wire : Len(wire[i]) <= p.frame_max
        /\ p.frames[2].size = Len(p.body)
        /\ FlattenSeq([i \in 1..(Len(p.frames) - 2) |-> p.frames[i + 2].fragment]) = p.body
=============================================================================
