-------------------------- MODULE DatagramChecks ---------------------------
(***************************************************************************)
(* Checks that send datagrams and wait for answers: ping_icmp, ntp, dhcp   *)
(* and dns, one part each.                                                 *)
(***************************************************************************)
EXTENDS Integers, Sequences, FiniteSets, SequencesExt, FiniteSetsExt

(***************************************************************************)
(* The ping_icmp module.  A run sends `count` numbered packets over an     *)
(* interval and ends when all replies are in or at its timeout.  A reply   *)
(* names the check (its id and its address), the generation of its         *)
(* configuration, the run and the packet; it may come late, twice or never.*)
(* The table in_flight says which runs are going on, and its deletion      *)
(* decides who finishes one.                                               *)
(*                                                                         *)
(* One check id is modelled, held by one object after another: the check   *)
(* may be reconfigured (a new generation), removed, and created again.     *)
(* The callbacks run one after another in the module's thread              *)
(* (thread_unsafe).  A run's sends and its timeout hold references.        *)
(***************************************************************************)

CONSTANTS MaxObjects, PacketCount,           \* objects of the check, packets of a run
          MaxPings, MaxGeneration            \* bounds: runs altogether, generations
ASSUME PingAssumption == /\ MaxObjects \in Nat /\ PacketCount \in 1..127
                         /\ MaxPings \in Nat /\ MaxGeneration \in Nat

VARIABLES
    pinged,     \* pinged[o]: [made, killed, refs, running, timeout, check_no, generation, turnaround]
    polled,     \* the object the poller finds for the id, 0 if none
    in_flight,  \* the objects in the table
    sends,      \* sends scheduled: [o, check_no, generation, pack]
    wire,       \* packets sent, each of which may be answered any number of times
    results,    \* results logged: [o, check_no, got]
    unreleased  \* unreleased[o]: references taken for replies and not given back

pingVars == <<pinged, polled, in_flight, sends, wire, results, unreleased>>

PingObject == 1..MaxObjects
Pack == 0..(PacketCount - 1)
Unmade == [made |-> FALSE, killed |-> FALSE, refs |-> 0, running |-> FALSE, timeout |-> FALSE,
           check_no |-> 0, generation |-> 0, turnaround |-> [p \in Pack |-> <<>>]]
Pings == MapThenSumSet(LAMBDA o : pinged[o].check_no, PingObject)
PingDeref(x, o) == [x EXCEPT ![o].refs = @ - 1]

\* The poller's side: the check is created, reconfigured or removed.
Create(o) ==
    /\ polled = 0 /\ ~pinged[o].made /\ \A q \in PingObject : q < o => pinged[q].made
    /\ polled' = o
    /\ pinged' = [pinged EXCEPT ![o] = [Unmade EXCEPT !.made = TRUE, !.refs = 1]]
    /\ UNCHANGED <<in_flight, sends, wire, results, unreleased>>

Reconfigure(o) ==
    /\ polled = o /\ pinged[o].generation < MaxGeneration
    /\ pinged' = [pinged EXCEPT ![o].generation = @ + 1]
    /\ UNCHANGED <<polled, in_flight, sends, wire, results, unreleased>>

RemoveFromIndex(o) ==
    /\ polled = o /\ polled' = 0
    /\ pinged' = [PingDeref(pinged, o) EXCEPT ![o].killed = TRUE]
    /\ UNCHANGED <<in_flight, sends, wire, results, unreleased>>

\* ping_icmp_send: the run is entered, its packets are scheduled one interval
\* apart and its timeout is set; each of these holds the check.
PingSend(o) ==
    LET n == pinged[o].check_no + 1 IN
    /\ polled = o /\ ~pinged[o].running /\ Pings < MaxPings
    /\ in_flight' = in_flight \union {o}
    /\ sends' = sends \union {[o |-> o, check_no |-> n, generation |-> pinged[o].generation,
                               pack |-> p] : p \in Pack}
    /\ pinged' = [pinged EXCEPT ![o] =
                    [@ EXCEPT !.running = TRUE, !.timeout = TRUE, !.check_no = n,
                              !.turnaround = [p \in Pack |-> <<>>], !.refs = @ + PacketCount + 1]]
    /\ UNCHANGED <<polled, wire, results, unreleased>>

\* ping_icmp_real_send: sent if the check has a run going on (the error cases
\* are packets lost).
RealSend(s) ==
    /\ s \in sends /\ sends' = sends \ {s}
    /\ wire' = IF s.o \in in_flight THEN wire \union {s} ELSE wire
    /\ pinged' = PingDeref(pinged, s.o)
    /\ UNCHANGED <<polled, in_flight, results, unreleased>>

\* ping_icmp_log_results
Logged(o, turnaround) ==
    results \union {[n |-> Cardinality(results) + 1, o |-> o, check_no |-> pinged[o].check_no,
                     got |-> {p \in Pack : turnaround[p] # <<>>},
                     from |-> UNION {{turnaround[p][1]} : p \in {q \in Pack : turnaround[q] # <<>>}}]}

\* The checks of ping_icmp_handler on a reply for the check it found.
Belongs(s) ==
    /\ pinged[s.o].generation = s.generation
    /\ pinged[s.o].timeout
    /\ pinged[s.o].check_no = s.check_no

\* The first finisher ends the run and removes its timeout.
Finished(o, got) == [PingDeref(pinged, o) EXCEPT ![o].turnaround = got, ![o].running = FALSE,
                                             ![o].timeout = FALSE]

\* ping_icmp_handler on one reply: it finds the check by id and holds it; an
\* entry of another object, or none, leaves that reference.  The last reply
\* missing completes the run.
Handler(s) ==
    LET o == polled
        got == [pinged[o].turnaround EXCEPT ![s.pack] = <<s.check_no>>]
        complete == \A p \in Pack : got[p] # <<>>
        first == complete /\ o \in in_flight
    IN
    /\ s \in wire /\ polled # 0
    /\ IF s.o \notin in_flight \/ s.o # o
       THEN /\ unreleased[o] = 0   \* the count is not followed further
            /\ unreleased' = [unreleased EXCEPT ![o] = @ + 1]
            /\ pinged' = [pinged EXCEPT ![o].refs = @ + 1]
            /\ UNCHANGED <<in_flight, results>>
       ELSE /\ Belongs(s)
            /\ IF first
               THEN /\ in_flight' = in_flight \ {o}
                    /\ results' = Logged(o, got)
                    /\ pinged' = Finished(o, got)
               ELSE /\ pinged' = [pinged EXCEPT ![o].turnaround = got]
                    /\ UNCHANGED <<in_flight, results>>
            /\ UNCHANGED unreleased
    /\ UNCHANGED <<polled, sends, wire>>

\* ping_icmp_timeout: what there is is logged, unless the check was removed.
PingTimeout(o) ==
    /\ pinged[o].timeout
    /\ results' = IF pinged[o].killed THEN results ELSE Logged(o, pinged[o].turnaround)
    /\ in_flight' = in_flight \ {o}
    /\ pinged' = [(IF o \in in_flight THEN PingDeref(pinged, o) ELSE pinged)
                    EXCEPT ![o].timeout = FALSE, ![o].running = FALSE]
    /\ UNCHANGED <<polled, sends, wire, unreleased>>

PingInit ==
    /\ pinged = [o \in PingObject |-> Unmade] /\ polled = 0 /\ in_flight = {}
    /\ sends = {} /\ wire = {} /\ results = {} /\ unreleased = [o \in PingObject |-> 0]

PingNext ==
    \/ \E o \in PingObject : \/ Create(o) \/ Reconfigure(o) \/ RemoveFromIndex(o) \/ PingSend(o) \/ PingTimeout(o)
    \/ \E s \in sends : RealSend(s)
    \/ \E s \in wire : Handler(s)

-----------------------------------------------------------------------------
(* A result counts only replies to the packets of its own run: a reply     *)
(* that was delayed past its run's end, or doubled, or meant for an        *)
(* earlier object of the same id, is never taken for one of a later run    *)
(* (ping_icmp_handler's tests of generation, check_no and address).        *)
RepliesOwn == \A r \in results : r.from \subseteq {r.check_no}

(* A check object stays as long as a scheduled send or a timeout of it     *)
(* will still use it: its references cover them, the poller's and the ones *)
(* a mismatched reply leaves behind (noit_check_ref in ping_icmp_send,     *)
(* noit_check_deref in the callbacks).                                     *)
PingedHeld ==
    \A o \in PingObject :
        pinged[o].refs = Cardinality({s \in sends : s.o = o}) + (IF pinged[o].timeout THEN 1 ELSE 0)
                         + (IF polled = o THEN 1 ELSE 0) + unreleased[o]

(* A run that ended for a check that is still configured was logged,       *)
(* exactly once, and a check is in the table exactly while its run goes on *)
(* (mtev_hash_delete on in_flight decides between the last reply and the   *)
(* timeout).                                                               *)
PingsLogged ==
    \A o \in PingObject :
        /\ o \in in_flight <=> pinged[o].running
        /\ ~pinged[o].running /\ ~pinged[o].killed =>
              \A n \in 1..pinged[o].check_no :
                  Cardinality({r \in results : r.o = o /\ r.check_no = n}) = 1

-----------------------------------------------------------------------------
(***************************************************************************)
(* The ntp check (modules-lua/noit/module/ntp.lua) over UDP: `count`       *)
(* exchanges of time stamps, or two control requests, the associations of  *)
(* the server and the variables of the one it prefers.  Datagrams may be   *)
(* lost, repeated and overtaken by others.                                 *)
(*                                                                         *)
(* The clock of the machine counts seconds; the server's is ahead of it by *)
(* Theta.  A time stamp on the wire is taken modulo NtpWidth after the     *)
(* shift to the epoch of 1900.  Offsets are kept doubled.  The average,    *)
(* the other fields of the packets, and what the variables say are left    *)
(* out.                                                                    *)
(***************************************************************************)

CONSTANTS Theta,        \* how far the server's clock is ahead
          EpochShift,   \* 2208988800
          NtpWidth,     \* 2^32
          NtpCount,     \* `count`
          FirstNtpSecond, LastNtpSecond, \* bound: the seconds that pass
          Fragments,    \* the number of fragments of an answer
          MaxDuplicates    \* bound: how often one datagram arrives

ASSUME NtpAssumption ==
  /\ Theta \in Int /\ EpochShift \in Nat /\ NtpWidth \in Nat \ {0}
  /\ NtpCount \in Nat \ {0} /\ Fragments \in Nat \ {0} /\ MaxDuplicates \in Nat

VARIABLES nnow, nstep, ntpRound, flying, offsets, control, ntpDatagrams, ntpAnswers

ntpVars == <<nnow, nstep, ntpRound, flying, offsets, control, ntpDatagrams, ntpAnswers>>
-----------------------------------------------------------------------------
\* timeval2ntp64: the seconds since 1900, in 32 bits.
timeval2ntp64(sec) == (sec + EpochShift) % NtpWidth

\* parts2timeval, ntp642timeval
ntp642timeval(l32) == l32 - EpochShift

\* calculate_offset, doubled
calculate_offset(r, now) ==
  (ntp642timeval(r.rxts) - ntp642timeval(r.origts)) + (ntp642timeval(r.txts) - now)

-----------------------------------------------------------------------------
(* The exchange of time stamps. *)

\* One turn of the loop up to recv: make_ntp_request stamps the request.
make_ntp_request ==
  /\ nstep = "send" /\ ntpRound < NtpCount
  /\ nstep' = "recv" /\ ntpRound' = ntpRound + 1
  /\ flying' = flying \cup {[to |-> "server", origts |-> timeval2ntp64(nnow), rxts |-> 0, txts |-> 0, sent |-> nnow, n |-> 0]}
  /\ UNCHANGED <<nnow, offsets, control, ntpDatagrams, ntpAnswers>>

\* The server notes when it came, and answers when it likes.
ServerReceives(p) ==
  /\ p \in flying /\ p.to = "server"
  /\ flying' = (flying \ {p}) \cup {[p EXCEPT !.to = "busy", !.rxts = timeval2ntp64(nnow + Theta)]}
  /\ UNCHANGED <<nnow, nstep, ntpRound, offsets, control, ntpDatagrams, ntpAnswers>>

ServerAnswers(p) ==
  /\ p \in flying /\ p.to = "busy"
  /\ flying' = (flying \ {p}) \cup {[p EXCEPT !.to = "client", !.txts = timeval2ntp64(nnow + Theta)]}
  /\ UNCHANGED <<nnow, nstep, ntpRound, offsets, control, ntpDatagrams, ntpAnswers>>

\* recv gives whatever answer comes, of this request or of one before it, and
\* perhaps comes again; what it says is not compared with what was asked.
decode_ntp_message(p) ==
  /\ nstep = "recv" /\ p \in flying /\ p.to = "client" /\ p.n < MaxDuplicates
  /\ flying' = (flying \ {p}) \cup {[p EXCEPT !.n = @ + 1]}
  /\ offsets' = Append(offsets, [doubled |-> calculate_offset(p, nnow), reply |-> p, at |-> nnow])
  /\ nstep' = IF ntpRound = NtpCount THEN "over" ELSE "send"
  /\ UNCHANGED <<nnow, ntpRound, control, ntpDatagrams, ntpAnswers>>

NtpSecondPasses ==
  /\ nnow < LastNtpSecond /\ nnow' = nnow + 1
  /\ UNCHANGED <<nstep, ntpRound, flying, offsets, control, ntpDatagrams, ntpAnswers>>
-----------------------------------------------------------------------------
(* Control requests.  The first asks for the associations, the second for the
   variables of one of them; each has the next sequence number. *)

next_sequence(n) == (n + 1) % 65536

\* make_ntp_control; the server's answer is in Fragments pieces.
make_ntp_control ==
  /\ control.step = "ask" /\ ntpRound = 0
  /\ LET seq == next_sequence(control.sequence)
     IN /\ control' = [control EXCEPT !.step = "recv", !.sequence = seq, !.offsets = {}]
        /\ ntpDatagrams' = ntpDatagrams \cup
             {[sequence |-> seq, offset |-> i, more |-> i < Fragments - 1, n |-> 0] : i \in 0..(Fragments - 1)}
  /\ nstep' = "over"
  /\ UNCHANGED <<nnow, ntpRound, flying, offsets, ntpAnswers>>

\* A packet that does not fit the request is logged and passed over.
FitsControl(d) == d.sequence = control.sequence

\* ntp_control: the fragments are kept by their offsets, until one says that no
\* more follows.
ntp_control(d) ==
  /\ control.step = "recv" /\ d \in ntpDatagrams /\ d.n < MaxDuplicates
  /\ ntpDatagrams' = (ntpDatagrams \ {d}) \cup {[d EXCEPT !.n = @ + 1]}
  /\ IF ~FitsControl(d) THEN UNCHANGED <<control, ntpAnswers>>
     ELSE LET got == {o \in control.offsets : o.offset # d.offset} \cup {[sequence |-> d.sequence, offset |-> d.offset]}
          IN IF d.more THEN control' = [control EXCEPT !.offsets = got] /\ UNCHANGED ntpAnswers
             ELSE /\ ntpAnswers' = Append(ntpAnswers, [sequence |-> control.sequence, pieces |-> got])
                  /\ control' = [control EXCEPT !.offsets = got,
                                                !.step = IF Len(ntpAnswers') < 2 THEN "ask" ELSE "over"]
  /\ UNCHANGED <<nnow, nstep, ntpRound, flying, offsets>>

\* An error, or authentication nobody expects, ends the check.
ControlFails ==
  /\ control.step = "recv"
  /\ control' = [control EXCEPT !.step = "over"]
  /\ UNCHANGED <<nnow, nstep, ntpRound, flying, offsets, ntpDatagrams, ntpAnswers>>
-----------------------------------------------------------------------------
NtpInit ==
  /\ nnow = FirstNtpSecond /\ nstep = "send" /\ ntpRound = 0 /\ flying = {} /\ offsets = <<>>
  /\ control = [step |-> "ask", sequence |-> 0, offsets |-> {}] /\ ntpDatagrams = {} /\ ntpAnswers = <<>>

NtpNext ==
  \/ make_ntp_request
  \/ \E p \in flying : ServerReceives(p) \/ ServerAnswers(p) \/ decode_ntp_message(p)
  \/ NtpSecondPasses
  \/ make_ntp_control
  \/ \E d \in ntpDatagrams : ntp_control(d)
  \/ ControlFails
-----------------------------------------------------------------------------
Abs(n) == IF n < 0 THEN -n ELSE n

(* Within the era of 32 bits every offset that is recorded differs from the
   true one by no more than half the time the packets travelled, also when the
   reply is a late or repeated one of an earlier request (calculate_offset and
   the conversions it rests on). *)
OffsetBounded ==
  \A i \in DOMAIN offsets :
    LET o == offsets[i]
    IN (o.at + EpochShift < NtpWidth /\ o.at + Theta + EpochShift < NtpWidth) =>
         Abs(o.doubled - 2 * Theta) <= (o.at - o.reply.sent) - (o.reply.txts - o.reply.rxts)

(* What a control request takes for its answer is made of pieces of its own
   answer only: a piece of the answer to the request before it, late or
   repeated, is passed over (the sequence test of ntp_control). *)
AnswersOwn ==
  \A i \in DOMAIN ntpAnswers : \A p \in ntpAnswers[i].pieces : p.sequence = ntpAnswers[i].sequence

-----------------------------------------------------------------------------
(***************************************************************************)
(* The dhcp check (modules-lua/noit/module/dhcp.lua).  All checks share    *)
(* the socket on port 68: a check draws an identifier, has the request     *)
(* sent through an internal port, and waits to be notified under the       *)
(* identifier; one reader hands each reply to who waits for it.  The reply *)
(* ends with options, read one after the other.                            *)
(*                                                                         *)
(* Options are bytes, as on the wire: a type, a length, that many bytes of *)
(* data; 255 ends them.  Of the types the table names, one of each kind of *)
(* data is kept.  Identifiers are never drawn twice.  The other fields of  *)
(* a reply are left out, and so are types the table does not name, whose   *)
(* name nil ends the run with an error.                                    *)
(***************************************************************************)

CONSTANTS DhcpCheckId,   \* the checks
          DhcpData,      \* [type -> the data an option of it may have]
          AddressBytes,  \* the length of an address: 4
          MaxOptions,    \* bound: options in a reply
          MaxDhcpRuns    \* bound: requests

ASSUME DhcpAssumption ==
  /\ AddressBytes \in Nat \ {0} /\ MaxOptions \in Nat /\ MaxDhcpRuns \in Nat
  /\ DOMAIN DhcpData \subseteq {1, 15, 51}

VARIABLES reply, dhcpRun, waitsFor, sentIds, readings

dhcpVars == <<reply, dhcpRun, waitsFor, sentIds, readings>>
-----------------------------------------------------------------------------
Below(n, m) == IF n < m THEN n ELSE m

\* The addresses of a list.
Addresses[data \in Seq(Nat)] ==
  IF Len(data) < AddressBytes THEN <<>>
  ELSE <<SubSeq(data, 1, AddressBytes)>>
       \o (IF Len(data) > AddressBytes + 1 THEN Addresses[SubSeq(data, AddressBytes + 1, Len(data))] ELSE <<>>)

\* parse_option: how far to move, and the option.  The data is taken with the
\* byte behind it, if there is one.
parse_option(b) ==
  IF Len(b) <= 1 THEN [move |-> 0]
  ELSE LET data == IF b[2] > 0 THEN SubSeq(b, 3, Below(3 + b[2], Len(b))) ELSE <<>>
       IN [move |-> 3 + b[2], type |-> b[1],
           result |-> CASE b[1] = 1 -> Addresses[data]
                        [] b[1] = 51 -> SubSeq(data, 1, Below(AddressBytes, Len(data)))
                        [] OTHER -> SubSeq(data, 1, Below(b[2], Len(data)))]

\* parse_buffer: an option replaces one of its type before it.
parse_buffer[b \in Seq(Nat)] ==
  LET o == parse_option(b)
  IN IF o.move = 0 THEN <<>>
     ELSE <<[type |-> o.type, result |-> o.result]>> \o parse_buffer[SubSeq(b, o.move, Len(b))]

Metrics(b) ==
  LET os == parse_buffer[b]
  IN {os[i] : i \in {i \in DOMAIN os : \A j \in DOMAIN os : j > i => os[j].type # os[i].type}}
-----------------------------------------------------------------------------
Bytes(o) == <<o.type, Len(o.data)>> \o o.data
OptionBytes == FlattenSeq([i \in DOMAIN reply |-> Bytes(reply[i])]) \o <<255>>

DhcpInit ==
  /\ reply = <<>> /\ dhcpRun = [c \in DhcpCheckId |-> 0] /\ waitsFor = [c \in DhcpCheckId |-> 0]
  /\ sentIds = {} /\ readings = {}

\* The server writes its next option.
ServerOption(ty, d) ==
  /\ Len(reply) < MaxOptions
  /\ reply' = Append(reply, [type |-> ty, data |-> d])
  /\ UNCHANGED <<dhcpRun, waitsFor, sentIds, readings>>

\* pack_dhcp_info draws the identifier.
DrawnIds == {s.id : s \in sentIds}
pack_dhcp_info(c) == CHOOSE n \in 1..MaxDhcpRuns : n \notin DrawnIds

\* initiate up to waitfor.  The run before it may have ended by its timeout.
DhcpAsks(c) ==
  /\ reply = <<>> /\ Len(SetToSeq(sentIds)) < MaxDhcpRuns
  /\ dhcpRun' = [dhcpRun EXCEPT ![c] = @ + 1]
  /\ waitsFor' = [waitsFor EXCEPT ![c] = pack_dhcp_info(c)]
  /\ sentIds' = sentIds \cup {[id |-> pack_dhcp_info(c), check |-> c, run |-> dhcpRun[c] + 1]}
  /\ UNCHANGED <<reply, readings>>

\* dhcp_reader: a reply to any request that was sent, at any time and perhaps
\* again, goes to the checks that wait for its identifier.
dhcp_reader(s) ==
  /\ s \in sentIds
  /\ \E c \in DhcpCheckId : waitsFor[c] = s.id
  /\ readings' = readings \cup {[check |-> c, run |-> dhcpRun[c], of |-> s] : c \in {c \in DhcpCheckId : waitsFor[c] = s.id}}
  /\ waitsFor' = [c \in DhcpCheckId |-> IF waitsFor[c] = s.id THEN 0 ELSE waitsFor[c]]
  /\ UNCHANGED <<reply, dhcpRun, sentIds>>

DhcpNext ==
  \/ \E ty \in DOMAIN DhcpData : \E d \in DhcpData[ty] : ServerOption(ty, d)
  \/ \E c \in DhcpCheckId : DhcpAsks(c)
  \/ \E s \in sentIds : dhcp_reader(s)
-----------------------------------------------------------------------------
\* The addresses, the number or the text an option stands for.
Stands(o) ==
  [type |-> o.type,
   result |-> IF o.type # 1 THEN o.data
              ELSE [i \in 1..(Len(o.data) \div AddressBytes) |->
                      SubSeq(o.data, (i - 1) * AddressBytes + 1, i * AddressBytes)]]

(* However many options a reply has and however long they are, each type is
   reported as the last option of it stands, no byte of one being taken for
   another's (parse_option, parse_buffer). *)
OptionsRead ==
  Metrics(OptionBytes) =
    {Stands(reply[i]) : i \in {i \in DOMAIN reply : \A j \in DOMAIN reply : j > i => reply[j].type # reply[i].type}}

(* A run of a check reads the reply to its own request, not one meant for
   another check nor a late one to an earlier run (pack_dhcp_info's identifier,
   dhcp_reader's notification). *)
LeaseRepliesOwn ==
  \A r \in readings : r.of.check = r.check /\ r.of.run = r.run

-----------------------------------------------------------------------------
(***************************************************************************)
(* The dns module: a run of a check submits a query to a resolver context  *)
(* shared by the checks of a name server, and is completed by the answer   *)
(* (dns_cb), by its own timeout or by an error, whichever the table of     *)
(* active runs lets through.  The context is reference counted: by the     *)
(* checks that hold it, by the timer libudns asked for and by a callback   *)
(* in progress.                                                            *)
(*                                                                         *)
(* A check's run and its timeout happen in the check's thread; answers and *)
(* libudns' timeouts in the thread of the context, concurrently.  libudns  *)
(* is external: a query outstanding is answered at most once.  A failed    *)
(* mtevAssert, and a use of a null context, stop the program.              *)
(***************************************************************************)

CONSTANTS Queried,              \* the checks
          MaxDnsRuns, MaxContexts   \* bounds: runs of each check, contexts ever made
ASSUME DnsAssumption == MaxDnsRuns \in Nat /\ MaxContexts \in Nat

VARIABLES
    ci,        \* ci[c]: [pc, running, active, h, armed, run, logged]; armed: timeouts pending
    context,   \* context[i]: [refcnt, timeout, timers, freed]
    store,     \* dns_ctx_store: the context of the name server, 0 if none
    asked,     \* queries outstanding: [c, run, h]
    loop,      \* the context's thread: [at, h, c]
    up         \* the program runs

dnsVars == <<ci, context, store, asked, loop, up>>

Contexts == 1..MaxContexts
Made == {i \in Contexts : context[i].made}
NoContext == [made |-> FALSE, freed |-> FALSE, refcnt |-> 0, timeout |-> FALSE, timers |-> 0]
LoopIdle == [at |-> "idle", h |-> 0, c |-> 0]

\* dns_module_dns_ctx_release: the last user frees the context.
Release(x, i) == [x EXCEPT ![i].refcnt = @ - 1, ![i].freed = (x[i].refcnt = 1)]
Acquire(x, i) == [x EXCEPT ![i].refcnt = @ + 1]
Gone(x) == {i \in Contexts : x[i].freed}

\* The contexts x, with the store and the queries of freed ones dropped.
Contexted(x) ==
    /\ context' = x
    /\ store' = IF store \in Gone(x) THEN 0 ELSE store
    /\ asked' = {q \in asked : q.h \notin Gone(x)}

\* dns_module_eventer_dns_utm_fn: an older timer goes with its reference,
\* unless it is firing, and a new one is set.
Timer(x, i, removed) ==
    LET y == IF removed THEN Release([x EXCEPT ![i].timers = @ - 1], i) ELSE x
    IN Acquire([y EXCEPT ![i].timers = @ + 1, ![i].timeout = TRUE], i)

\* dns_module_dns_ctx_alloc: the context c holds, the one of its name server,
\* or a new one.
ContextFor(c) == IF ci[c].h # 0 THEN {ci[c].h} ELSE IF store # 0 THEN {store}
                 ELSE {i \in Contexts : i = Cardinality(Made) + 1}
Allocated(c, i) == IF ci[c].h # 0 THEN context
                   ELSE IF store # 0 THEN Acquire(context, i)
                   ELSE [context EXCEPT ![i] = [NoContext EXCEPT !.made = TRUE, !.refcnt = 1]]

\* dns_check_send up to the submission: the run begins and is active; the
\* context is found, made, or cannot be made; the query is submitted or not.
Send(c) ==
    /\ up /\ ci[c].pc = "idle" /\ ~ci[c].running /\ ci[c].run < MaxDnsRuns
    /\ \/ \* no context for the name server
          /\ ci[c].h = 0
          /\ ci' = [ci EXCEPT ![c] = [@ EXCEPT !.pc = "failed", !.running = TRUE, !.active = TRUE,
                                               !.run = @ + 1]]
          /\ UNCHANGED <<context, store, asked>>
       \/ \E i \in ContextFor(c) :
            /\ \E pc \in {"submit", "failed"} :   \* a bad class or type, a failed submission
               ci' = [ci EXCEPT ![c] = [@ EXCEPT !.pc = pc, !.running = TRUE, !.active = TRUE,
                                                  !.run = @ + 1, !.h = i]]
            /\ context' = Allocated(c, i) /\ store' = i /\ UNCHANGED asked
    /\ UNCHANGED <<loop, up>>

\* dns_submit_dn and the timer it needs: the check's handle is read again.
Submit(c) ==
    LET i == ci[c].h IN
    /\ up /\ ci[c].pc = "submit"
    /\ IF i = 0 THEN up' = FALSE /\ UNCHANGED <<ci, context, store, asked>>
       ELSE /\ up' = up
            /\ asked' = asked \union {[c |-> c, run |-> ci[c].run, h |-> i]}
            /\ context' = Timer(context, i, context[i].timeout /\ context[i].timers > 0)
            /\ ci' = [ci EXCEPT ![c].pc = "sent"]
            /\ UNCHANGED store
    /\ UNCHANGED loop

\* The rest of dns_check_send: is the run still active, then its timeout is armed.
StillActive(c) ==
    /\ up /\ ci[c].pc = "sent"
    /\ ci' = [ci EXCEPT ![c].pc = IF ci[c].active THEN "arm" ELSE "idle"]
    /\ UNCHANGED <<context, store, asked, loop, up>>

Arm(c) ==
    /\ up /\ ci[c].pc = "arm"
    /\ ci' = [ci EXCEPT ![c] = [@ EXCEPT !.pc = "idle", !.armed = @ + 1, !.event = TRUE]]
    /\ UNCHANGED <<context, store, asked, loop, up>>

\* An error in dns_check_send: logged and deactivated at once.
SendFailed(c) ==
    /\ up /\ ci[c].pc = "failed"
    /\ ci' = [ci EXCEPT ![c] = [@ EXCEPT !.pc = "deactivate", !.logged = @ + 1]]
    /\ UNCHANGED <<context, store, asked, loop, up>>

\* dns_module_check_timeout
CheckTimeout(c) ==
    /\ up /\ ci[c].pc = "idle" /\ ci[c].armed > 0
    /\ IF ~ci[c].event THEN up' = FALSE /\ UNCHANGED ci
       ELSE /\ up' = up
            /\ ci' = [ci EXCEPT ![c] = [@ EXCEPT !.pc = "deactivate", !.armed = @ - 1,
                                                 !.event = FALSE, !.logged = @ + 1]]
    /\ UNCHANGED <<context, store, asked, loop>>

\* Mutant of Deletable: a run that is not in the table any more is let through.
DeletableAny(c) == TRUE

\* mtev_hash_delete on active_events, which is asserted to succeed.
Deletable(c) == ci[c].active

\* __deactivate_ci, first half: the run leaves the table and the check ends.
Deactivated(c) == [ci EXCEPT ![c].active = FALSE, ![c].running = FALSE]

Deactivate(c) ==
    /\ up /\ ci[c].pc = "deactivate"
    /\ up' = Deletable(c)
    /\ ci' = [Deactivated(c) EXCEPT ![c].pc = "release"]
    /\ UNCHANGED <<context, store, asked, loop>>

\* Its second half: the check's context is released.
Released(c) == IF ci[c].h = 0 THEN context ELSE Release(context, ci[c].h)

ReleaseContext(c) ==
    /\ up /\ ci[c].pc = "release"
    /\ Contexted(Released(c))
    /\ ci' = [ci EXCEPT ![c] = [@ EXCEPT !.h = 0, !.pc = "idle"]]
    /\ UNCHANGED <<loop, up>>

\* dns_module_eventer_callback holds the context while libudns reads.
Entered(i) == Acquire(context, i)

\* The context's thread: dns_module_eventer_callback on a packet ...
IoEvent(i) ==
    /\ up /\ loop.at = "idle" /\ context[i].made /\ ~context[i].freed
    /\ \E q \in asked : q.h = i
    /\ context' = Entered(i)
    /\ loop' = [at |-> "io", h |-> i, c |-> 0]
    /\ UNCHANGED <<ci, store, asked, up>>

\* ... and dns_module_invoke_timeouts, which holds the timer's reference.
InvokeTimeouts(i) ==
    /\ up /\ loop.at = "idle" /\ context[i].timers > 0
    /\ context' = [context EXCEPT ![i].timers = @ - 1, ![i].timeout = FALSE]
    /\ loop' = [at |-> "io", h |-> i, c |-> 0]
    /\ UNCHANGED <<ci, store, asked, up>>

\* libudns calls back for a query: dns_cb goes on only if the run is active.
DnsCb(q) ==
    /\ up /\ loop.at = "io" /\ q.h = loop.h
    /\ asked' = asked \ {q}
    /\ loop' = IF ci[q.c].active THEN [loop EXCEPT !.at = "answer", !.c = q.c] ELSE loop
    /\ UNCHANGED <<ci, context, store, up>>

\* The timeout is removed if it has not begun to fire, and the result logged.
Answer(c) ==
    /\ up /\ loop.at = "answer" /\ loop.c = c
    /\ ci' = [ci EXCEPT ![c] = [@ EXCEPT !.armed = IF ci[c].event /\ ci[c].armed > 0 THEN @ - 1 ELSE @,
                                         !.event = FALSE, !.logged = @ + 1]]
    /\ loop' = [loop EXCEPT !.at = "deactivate"]
    /\ UNCHANGED <<context, store, asked, up>>

AnswerDeactivate(c) ==
    /\ up /\ loop.at = "deactivate" /\ loop.c = c
    /\ up' = Deletable(c)
    /\ ci' = Deactivated(c)
    /\ loop' = [loop EXCEPT !.at = "release"]
    /\ UNCHANGED <<context, store, asked>>

AnswerRelease(c) ==
    /\ up /\ loop.at = "release" /\ loop.c = c
    /\ Contexted(Released(c))
    /\ ci' = [ci EXCEPT ![c].h = 0]
    /\ loop' = [loop EXCEPT !.at = "io", !.c = 0]
    /\ UNCHANGED up

\* The callback ends: libudns asks for its next timer, or for none, and the
\* reference is released.
LoopDone ==
    /\ up /\ loop.at = "io"
    /\ LET i == loop.h
           x == IF \E q \in asked : q.h = i
                THEN Timer(context, i, context[i].timeout /\ context[i].timers > 0)
                ELSE context
       IN Contexted(Release(x, i))
    /\ loop' = LoopIdle
    /\ UNCHANGED <<ci, up>>

DnsInit ==
    /\ ci = [c \in Queried |-> [pc |-> "idle", running |-> FALSE, active |-> FALSE, h |-> 0,
                                armed |-> 0, event |-> FALSE, run |-> 0, logged |-> 0]]
    /\ context = [i \in Contexts |-> NoContext]
    /\ store = 0 /\ asked = {} /\ loop = LoopIdle /\ up = TRUE

DnsNext ==
    \/ \E c \in Queried : \/ Send(c) \/ Submit(c) \/ StillActive(c) \/ Arm(c) \/ SendFailed(c)
                          \/ CheckTimeout(c) \/ Deactivate(c) \/ ReleaseContext(c)
                          \/ Answer(c) \/ AnswerDeactivate(c) \/ AnswerRelease(c)
    \/ \E i \in Contexts : IoEvent(i) \/ InvokeTimeouts(i)
    \/ \E q \in asked : DnsCb(q)
    \/ LoopDone

-----------------------------------------------------------------------------
(* A resolver context's reference count is exactly the number of its       *)
(* users: checks that hold it, timers pending and the callback in          *)
(* progress; a freed one has none left, however answers, timeouts and the  *)
(* next runs overlap (dns_module_dns_ctx_acquire and _release).            *)
ContextsCounted ==
    \A i \in Contexts :
        /\ context[i].made => (context[i].freed <=> context[i].refcnt = 0)
        /\ context[i].refcnt = Cardinality({c \in Queried : ci[c].h = i}) + context[i].timers
                               + (IF loop.h = i THEN 1 ELSE 0)

(* Once nobody is completing it, a run that has ended was logged exactly   *)
(* once, by its answer, by its timeout or by the error: the table of       *)
(* active runs stops the second one (__isactive_ci, __deactivate_ci).      *)
RunsLoggedOnce ==
    \A c \in Queried :
        up /\ ~ci[c].running /\ ci[c].pc = "idle" /\ loop.c # c => ci[c].logged = ci[c].run
=============================================================================
