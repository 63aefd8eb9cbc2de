------------------------------- MODULE Statsd -------------------------------
(***************************************************************************)
(* The statsd module: sockets and datagrams (first part), and the text of  *)
(* a datagram (second part).                                               *)
(***************************************************************************)
EXTENDS Naturals, Sequences, FiniteSets, SequencesExt

(***************************************************************************)
(* The statsd module of noitd (src/modules/statsd.c): its sockets, the     *)
(* receive buffers they share, the checks a datagram is given to and the   *)
(* runs of those checks.  What a datagram's text means is the second part  *)
(* of this module; here a datagram is a sender and a length.               *)
(*                                                                         *)
(* statsd_handler is one step: both sockets' events are run by one thread, *)
(* as they are when no pool of threads is configured for the module.       *)
(***************************************************************************)

CONSTANTS StatsdCheck,       \* the statsd checks
          TargetOf,          \* the address each of them is configured for
          primary,           \* the module's "check" parameter, as a set
          Sender,            \* addresses datagrams come from
          Lengths,           \* lengths of datagrams
          RecvMode,          \* values of use_recvmmsg
          RECV_BUFFER_CAPACITY, recv_buffer_len, packets_per_cycle,
          MaxArrivals, MaxReports

ASSUME StatsdSocketAssumption ==
  /\ primary \subseteq StatsdCheck /\ Cardinality(primary) <= 1
  /\ \A n \in Lengths : n < RECV_BUFFER_CAPACITY
  /\ recv_buffer_len \in Nat \ {0} /\ packets_per_cycle \in Nat \ {0}

VARIABLES use_recvmmsg,  \* conf->use_recvmmsg
          sockets,       \* the sockets that are bound; <<>> before the module is initialised
          inbox,         \* what the kernel holds for each of them
          iov_len,       \* conf->payload[0].iov_len
          closures,      \* checks with a closure
          refs,          \* references on each check, the registry's one included
          taken,         \* history: the pieces recorded for each check
          owed,          \* history: the datagrams it should have got
          statsdRuns,    \* runs of each check
          arrivals       \* datagrams that came in

statsdVars == <<use_recvmmsg, sockets, inbox, iov_len, closures, refs, taken, owed, statsdRuns, arrivals>>

StatsdInit ==
  /\ use_recvmmsg \in RecvMode
  /\ sockets = <<>>
  /\ inbox = [s \in {"v4", "v6"} |-> <<>>]
  /\ iov_len = RECV_BUFFER_CAPACITY
  /\ closures = {}
  /\ refs = [c \in StatsdCheck |-> 1]
  /\ taken = [c \in StatsdCheck |-> <<>>]
  /\ owed = [c \in StatsdCheck |-> <<>>]
  /\ statsdRuns = [c \in StatsdCheck |-> 0]
  /\ arrivals = 0

\* noit_statsd_init: without the IPv4 socket the module is not started;
\* without the IPv6 socket it is
noit_statsd_init ==
  /\ sockets = <<>>
  /\ \E got \in {{"v4"}, {"v4", "v6"}} : sockets' = <<got>>
  /\ UNCHANGED <<use_recvmmsg, inbox, iov_len, closures, refs, taken, owed, statsdRuns, arrivals>>

Bound == IF sockets = <<>> THEN {} ELSE sockets[1]

\* noit_statsd_initiate_check and statsd_submit: the first run makes the
\* closure, so that the run which follows in the same call already reports.
StatsdInitiate(c) ==
  /\ statsdRuns[c] < MaxReports
  /\ closures' = closures \cup {c}
  /\ statsdRuns' = [statsdRuns EXCEPT ![c] = @ + 1]
  /\ UNCHANGED <<use_recvmmsg, sockets, inbox, iov_len, refs, taken, owed, arrivals>>

Arrive(s, from, n) ==
  /\ s \in Bound
  /\ arrivals < MaxArrivals /\ arrivals' = arrivals + 1
  /\ inbox' = [inbox EXCEPT ![s] = Append(@, [from |-> from, len |-> n])]
  /\ UNCHANGED <<use_recvmmsg, sockets, iov_len, closures, refs, taken, owed, statsdRuns>>

\* the checks of a sender: at most two of its address and of "0.0.0.0"
MAX_CHECKS == 3
LookedUp(d) ==
  LET order == SetToSeq(StatsdCheck)
      own == SelectSeq(order, LAMBDA c : TargetOf[c] = d.from)
      any == SelectSeq(order, LAMBDA c : TargetOf[c] = "0.0.0.0")
      all == own \o any
  IN SubSeq(all, 1, IF Len(all) < MAX_CHECKS - 1 THEN Len(all) ELSE MAX_CHECKS - 1)

\* statsd_handle_single_message on conf = [taken, refs]: the payload goes to
\* every check found and then to the parent, and each of them is dereferenced
statsd_handle_single_message(conf, parent, d, len) ==
  LET checks == LookedUp(d) \o parent
      hits(c) == Cardinality({i \in DOMAIN checks : checks[i] = c})
      found(c) == Cardinality({i \in DOMAIN LookedUp(d) : LookedUp(d)[i] = c})
  IN [taken |-> [c \in StatsdCheck |->
                   IF c \in closures THEN conf.taken[c] \o [i \in 1 .. hits(c) |-> len] ELSE conf.taken[c]],
      refs |-> [c \in StatsdCheck |-> conf.refs[c] + found(c) - hits(c)]]

\* how many datagrams one call reads: recvmmsg takes recv_buffer_len of them
\* at a time, and each read is one packet of the cycle
Budget == packets_per_cycle * (IF use_recvmmsg THEN recv_buffer_len ELSE 1)

Least(a, b) == IF a < b THEN a ELSE b

\* the room left for the i-th datagram of a call: recvmmsg sets the length of
\* its buffers before each read, recvfrom goes on with that of the last datagram
RECURSIVE Room(_, _)
Room(ds, i) ==
  IF use_recvmmsg THEN RECV_BUFFER_CAPACITY - 1
  ELSE IF i = 1 THEN iov_len - 1
  ELSE Least(ds[i - 1].len, Room(ds, i - 1)) - 1

RECURSIVE Messages(_, _, _, _)
Messages(conf, parent, ds, i) ==
  IF i > Len(ds) THEN conf
  ELSE Messages(statsd_handle_single_message(conf, parent, ds[i], Least(ds[i].len, Room(ds, i))),
                parent, ds, i + 1)

\* statsd_handler: the parent is looked up once for all datagrams of the call.
\* A buffer of no room at all would be read past its end: the recvfrom mode
\* stops there.
statsd_handler(s) ==
  /\ s \in Bound /\ inbox[s] # <<>>
  /\ LET n == Least(Budget, Len(inbox[s]))
         ds == SubSeq(inbox[s], 1, n)
         parent == SetToSeq(primary)
         conf == [taken |-> taken,
                  refs |-> [c \in StatsdCheck |-> IF c \in primary THEN refs[c] + 1 ELSE refs[c]]]
         after == Messages(conf, parent, ds, 1)
     IN /\ \A i \in 1 .. n : Room(ds, i) > 0
        /\ inbox' = [inbox EXCEPT ![s] = SubSeq(@, n + 1, Len(@))]
        /\ iov_len' = (IF use_recvmmsg THEN ds[n].len ELSE Least(ds[n].len, Room(ds, n)))
        /\ taken' = after.taken
        /\ refs' = after.refs
        /\ owed' = [c \in StatsdCheck |->
             IF c \notin closures THEN owed[c]
             ELSE owed[c] \o SelectSeq(ds, LAMBDA d : TargetOf[c] \in {d.from, "0.0.0.0"} \/ c \in primary)]
  /\ UNCHANGED <<use_recvmmsg, sockets, closures, statsdRuns, arrivals>>

StatsdNext ==
  \/ noit_statsd_init
  \/ \E c \in StatsdCheck : StatsdInitiate(c)
  \/ \E s \in {"v4", "v6"}, from \in Sender, n \in Lengths : Arrive(s, from, n)
  \/ \E s \in {"v4", "v6"} : statsd_handler(s)

-----------------------------------------------------------------------------
\* Reading with recvmmsg, every datagram reaches every check of its sender
\* whole, once and in the order the socket gave them: neither the buffers'
\* lengths, which statsd_handler overwrites with those of the datagrams, nor
\* the cut of a burst into several reads loses any of it.  (A primary check
\* that is also a check of the sender is given the datagram twice.)
DatagramsWhole ==
  use_recvmmsg => \A c \in StatsdCheck :
    (c \notin primary) => taken[c] = [i \in 1 .. Len(owed[c]) |-> owed[c][i].len]

\* The references statsd_handle_single_message takes on the checks it looks up
\* are given back with the datagram, whatever it finds in it.  (The primary
\* check is referenced once for a call and dereferenced for every datagram.)
LookupsReleased == \A c \in StatsdCheck \ primary : refs[c] = 1

-----------------------------------------------------------------------------
(***************************************************************************)
(* The text of a statsd datagram: statsd_handle_payload in                 *)
(* src/modules/statsd.c.  The code walks one buffer with pointers and      *)
(* turns separators into NULs as it meets them; here a buffer is a         *)
(* sequence of tokens, a pointer is an index, and the line being read ends *)
(* at the first newline from its start.                                    *)
(***************************************************************************)

CONSTANTS PayloadTokens,   \* the tokens a datagram is made of
          PayloadOpenings, \* the beginnings of the datagrams looked at
          MaxPayload       \* how many tokens a datagram has at most

ASSUME StatsdTextAssumption == MaxPayload \in Nat

VARIABLE payload

DigitTokens == {"0", "1", "2"}
Kinds == {"c", "g", "ms"}

\* strchr and memchr: the first place of a token in from..to, or 0
ChrIn(p, x, from, to) == LET hits == {i \in from .. to : i <= Len(p) /\ p[i] = x}
                         IN IF hits = {} THEN 0 ELSE CHOOSE i \in hits : \A j \in hits : i <= j

\* the last token of the line that starts at cp
StopOf(p, cp) == LET n == ChrIn(p, "\n", cp, Len(p)) IN IF n = 0 THEN Len(p) ELSE n - 1

\* the graphite-style part of a name: the first ';' opens the tags, '=' in the
\* tags becomes ':', and what has no meaning in a name is left out
RECURSIVE KeyFrom(_, _, _, _)
KeyFrom(p, cp, stop, tags) ==
  IF cp > stop \/ p[cp] = ":" THEN [key |-> <<>>, tags |-> tags, cp |-> cp]
  ELSE LET c == p[cp]
           out == CASE c = ";" -> IF tags THEN <<",">> ELSE <<"|ST[">>
                    [] c = "=" -> IF tags THEN <<":">> ELSE <<"=">>
                    [] c \in {"|", "@", "#"} -> <<>>
                    [] OTHER -> <<c>>
           rest == KeyFrom(p, cp + 1, stop, tags \/ c = ";")
       IN [rest EXCEPT !.key = out \o @]

\* the trailing tags: what follows '#', without the character that ends the
\* line, which the code counts on even where no newline ended it
DDTags(p, dd, stop) == IF stop < Len(p) THEN SubSeq(p, dd + 1, stop)
                       ELSE SubSeq(p, dd + 1, stop - 1)

FullKey(k, dd) ==
  LET opened == k.tags \/ dd # <<>> IN
  k.key \o (IF dd = <<>> THEN <<>> ELSE IF k.tags THEN <<",">> \o dd ELSE <<"|ST[">> \o dd)
        \o (IF opened THEN <<"]">> ELSE <<>>)

\* strtod: the number a text begins with, nothing standing for 0
RECURSIVE Strtod(_)
Strtod(s) == IF s = <<>> \/ Head(s) \notin DigitTokens THEN <<>> ELSE <<Head(s)>> \o Strtod(Tail(s))
NumberOf(s) == LET n == Strtod(s) IN IF n = <<"0">> THEN <<>> ELSE n

\* the type after the '|': a gauge by its first letter, a timing by the whole
\* word, a counter otherwise
TypeOf(s) == IF s # <<>> /\ Head(s) = "g" THEN "g" ELSE IF s = <<"ms">> THEN "m" ELSE "c"

\* the values of a line, from its ':' at cp on; text ends at stop and a type
\* once read stays for the values after it
RECURSIVE ValuesFrom(_, _, _, _)
ValuesFrom(p, cp, stop, type) ==
  LET colon == ChrIn(p, ":", cp, stop) IN
  IF colon = 0 THEN <<>>
  ELSE LET bar == ChrIn(p, "|", colon + 1, stop)
           second == IF bar = 0 THEN 0 ELSE ChrIn(p, "|", bar + 1, stop)
           kind == IF bar = 0 THEN type
                   ELSE TypeOf(SubSeq(p, bar + 1, IF second = 0 THEN stop ELSE second - 1))
           rate == IF second # 0 /\ second < stop /\ p[second + 1] = "@"
                   THEN NumberOf(SubSeq(p, second + 2, stop)) ELSE <<"1">>
           valueStop == IF bar = 0 THEN stop ELSE bar - 1
           \* update_check refuses a rate of zero
           sample == [type |-> kind, value |-> NumberOf(SubSeq(p, colon + 1, valueStop)), rate |-> rate]
       IN (IF rate = <<>> THEN <<>> ELSE <<sample>>) \o ValuesFrom(p, colon + 1, valueStop, kind)

\* one line: its name, its trailing tags, its values
LineFrom(p, cp, stop) ==
  LET k == KeyFrom(p, cp, stop, FALSE)
      dd == ChrIn(p, "#", k.cp, stop)
      key == FullKey(k, IF dd = 0 THEN <<>> ELSE DDTags(p, dd, stop))
      got == ValuesFrom(p, k.cp, IF dd = 0 THEN stop ELSE dd - 1, "c")
  IN [i \in 1 .. Len(got) |-> [key |-> key, sample |-> got[i]]]

RECURSIVE PayloadFrom(_, _)
PayloadFrom(p, cp) ==
  IF cp > Len(p) THEN <<>>
  ELSE LET stop == StopOf(p, cp) IN LineFrom(p, cp, stop) \o PayloadFrom(p, stop + 2)

\* what a datagram gives each of its checks
statsd_handle_payload(p) == PayloadFrom(p, 1)

-----------------------------------------------------------------------------
StatsdTextInit == payload \in PayloadOpenings

StatsdTextNext == \E x \in PayloadTokens :
  /\ Len(payload) < MaxPayload
  /\ payload' = Append(payload, x)

-----------------------------------------------------------------------------
\* The lines of a datagram do not touch one another: a datagram gives what its
\* lines give when each comes in a datagram of its own.  The walk of
\* statsd_handle_payload cuts names, tags, types and values out of one buffer,
\* and none of them may reach over the end of its line.
LinesApart ==
  \A i \in 1 .. Len(payload) :
    payload[i] = "\n" =>
      statsd_handle_payload(payload) =
        statsd_handle_payload(SubSeq(payload, 1, i)) \o
        statsd_handle_payload(SubSeq(payload, i + 1, Len(payload)))

\* the lines statsd clients write: a name with its tags, values, a type, a
\* rate for a single value, and trailing tags
Optional(S) == {<<>>} \cup {<<x>> : x \in S}
WrittenLines == [tag : BOOLEAN, values : {<<"1">>, <<"2">>, <<"1", "2">>}, type : Kinds,
                 rate : Optional({"1", "2"}), dd : BOOLEAN]
TextOf(w) ==
  <<"k">> \o (IF w.tag THEN <<";", "t", "=", "k">> ELSE <<>>)
  \o FlattenSeq([i \in 1 .. Len(w.values) |-> <<":", w.values[i]>>]) \o <<"|", w.type>>
  \o (IF w.rate = <<>> THEN <<>> ELSE <<"|", "@", Head(w.rate)>>)
  \o (IF w.dd THEN <<"|", "#", "t", ":", "1">> ELSE <<>>) \o <<"\n">>
WrittenTexts == {TextOf(w) : w \in WrittenLines}
MeantBy(w) ==
  LET tags == (IF w.tag THEN <<"t", ":", "k">> ELSE <<>>)
              \o (IF w.tag /\ w.dd THEN <<",">> ELSE <<>>)
              \o (IF w.dd THEN <<"t", ":", "1">> ELSE <<>>)
      key == <<"k">> \o (IF tags = <<>> THEN <<>> ELSE <<"|ST[">> \o tags \o <<"]">>)
  IN [i \in 1 .. Len(w.values) |->
        [key |-> key,
         sample |-> [type |-> (CASE w.type = "ms" -> "m" [] OTHER -> w.type),
                     value |-> <<w.values[i]>>,
                     rate |-> (IF w.rate = <<>> THEN <<"1">> ELSE w.rate)]]]

\* A line a client writes is recorded as the client means it: each value once,
\* under the name with all its tags, with the line's type and its rate.  (A
\* rate is written with one value only: the code reads it with the first.)
LinesMeant ==
  payload \in WrittenTexts => \A w \in WrittenLines :
    (Len(w.values) = 1 \/ w.rate = <<>>) /\ payload = TextOf(w)
      => statsd_handle_payload(payload) = MeantBy(w)
=============================================================================
