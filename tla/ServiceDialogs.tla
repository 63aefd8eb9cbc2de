--------------------------- MODULE ServiceDialogs ---------------------------
(***************************************************************************)
(* Lua checks that speak a protocol line by line (first part), and the     *)
(* redis check (second part).                                              *)
(***************************************************************************)
EXTENDS Naturals, Sequences, FiniteSets, SequencesExt

(***************************************************************************)
(* The checks that hold a conversation with a service: tcp.lua, smtp.lua,  *)
(* imap.lua and pop3.lua under modules-lua/noit/module.  Each sends a      *)
(* command, reads the reply to it, and decides from the reply what to say  *)
(* next and what the check's state is.                                     *)
(*                                                                         *)
(* A reply is a sequence of lines: "more" says that another follows, "ok"  *)
(* and "no" end a reply with the answer the check hopes for and with any   *)
(* other, "junk" is a line the check cannot read.  The service chooses its *)
(* replies and may hang up whenever it likes.  Commands are numbered in    *)
(* the order of their sending; the number of the command a line answers is *)
(* kept with the line for the properties only.  Metrics, times and status  *)
(* texts are left out, but for smtp's word on whether the mail was sent.   *)
(***************************************************************************)

CONSTANTS DialogConfs,  \* the configurations of the checks
          DialogReplies \* the replies a service may give

ASSUME DialogAssumption ==
  /\ \A c \in DialogConfs : c.kind \in {"tcp", "smtp", "imap", "pop3"} /\ (c.fetch => c.search)
  /\ \A r \in DialogReplies : \A i \in DOMAIN r : r[i] \in {"more", "ok", "no", "junk"}

VARIABLES dconf, dstep, wires, owing, closed, verdict, judged

dialogVars == <<dconf, dstep, wires, owing, closed, verdict, judged>>

\* The number of the command whose reply is read now.
Current == Len(judged) + 1
-----------------------------------------------------------------------------
(* What each check does next, once a step went well or not. *)

Sasl(c) == IF c.sasl # "off" THEN "auth" ELSE IF c.from THEN "mailfrom" ELSE "quit"

\* ex_actions: the mail goes no further than the first command refused.
ex_actions(c, s, ok) ==
  CASE s = "mailfrom" -> IF ok /\ c.to THEN "rcptto" ELSE "quit"
    [] s = "rcptto"   -> IF ok THEN "data" ELSE "quit"
    [] s = "data"     -> IF ok THEN "body" ELSE "quit"
    [] s = "body"     -> "quit"

\* mk_sasllogin and mk_saslplain: whatever comes of it, the mail follows.
mk_sasl(c, s, ok) ==
  CASE s = "auth" /\ ok /\ c.sasl = "login" -> "user"
    [] s = "auth" /\ ok /\ c.sasl = "plain" -> "plain"
    [] s = "user" /\ ok -> "pass"
    [] OTHER -> IF c.from THEN "mailfrom" ELSE "quit"

smtp_initiate(c, s, ok) ==
  CASE s \in {"banner", "ehlo2", "ehlo"} /\ ~ok -> "over"
    [] s = "banner"   -> "ehlo"
    [] s = "ehlo"     -> IF c.tls THEN "starttls" ELSE Sasl(c)
    [] s = "starttls" -> IF ok THEN "tls" ELSE "over"
    [] s = "tls"      -> "ehlo2"
    [] s = "ehlo2"    -> Sasl(c)
    [] s \in {"auth", "user", "pass", "plain"} -> mk_sasl(c, s, ok)
    [] s = "quit"     -> "over"
    [] OTHER          -> ex_actions(c, s, ok)

Search(c) == IF c.search THEN "search" ELSE "logout"

\* The mailbox is examined only after a login; the search, which finds a
\* message to fetch if it went well, and the logout are not held back by
\* anything.  (A fetch without a search compares a text with a number, an error
\* that ends the run; no configuration here asks for it.)
imap_initiate(c, s, ok) ==
  CASE s = "tls"     -> IF ok THEN "banner" ELSE "over"
    [] s = "banner"  -> "login"
    [] s = "login"   -> IF ok THEN "examine" ELSE Search(c)
    [] s = "examine" -> Search(c)
    [] s = "search"  -> IF c.fetch /\ ok THEN "fetch" ELSE "logout"
    [] s = "fetch"   -> "logout"
    [] s = "logout"  -> "over"

pop3_initiate(c, s, ok) ==
  CASE s = "tls"     -> IF ok THEN "banner" ELSE "over"
    [] s = "banner"  -> "user"
    [] s = "user"    -> IF ok THEN "pass" ELSE "over"
    [] s = "pass"    -> IF ok THEN "stat" ELSE "over"
    [] s = "stat"    -> IF ok THEN "quit" ELSE "over"
    [] s = "quit"    -> "over"

Body(c) == IF c.body THEN "body" ELSE "over"
Banner(c) == IF c.banner THEN "banner" ELSE Body(c)

tcp_initiate(c, s, ok) ==
  CASE s = "tls"     -> IF ~ok THEN "over" ELSE IF c.send THEN "send" ELSE Banner(c)
    [] s = "send"    -> IF ok THEN Banner(c) ELSE "over"
    [] s = "banner"  -> Body(c)
    [] s = "body"    -> "over"

initiate(c, s, ok) ==
  CASE c.kind = "smtp" -> smtp_initiate(c, s, ok)
    [] c.kind = "imap" -> imap_initiate(c, s, ok)
    [] c.kind = "pop3" -> pop3_initiate(c, s, ok)
    [] c.kind = "tcp"  -> tcp_initiate(c, s, ok)
-----------------------------------------------------------------------------
(* What a step makes of the check. *)

\* mkaction of smtp: a wrong code makes the check bad, the right one available;
\* sasl's replies are only reported.
mkaction(v, s, ok) ==
  IF s \in {"auth", "user", "pass", "plain"} THEN v
  ELSE IF ~ok
  THEN [v EXCEPT !.state = "bad", !.available = @ /\ s # "starttls"]
  ELSE [v EXCEPT !.available = TRUE, !.sent = @ \/ s = "body"]

\* The other checks: the replies that take `good` away.
Heeded(c, s) ==
  CASE c.kind = "imap" -> s \in {"banner", "login"}
    [] c.kind = "pop3" -> s \in {"banner", "user", "pass", "stat"}
    [] c.kind = "tcp"  -> s \in {"banner", "body"}


Verdict(c, v, s, ok) ==
  IF c.kind = "smtp" THEN mkaction(v, s, ok)
  ELSE [v EXCEPT !.good = @ /\ (Heeded(c, s) => ok)]

\* The end of initiate: smtp makes the check good or leaves it, the others make
\* it good or bad.
Closing(c, v) ==
  [v EXCEPT !.state = IF v.good THEN "good" ELSE IF c.kind = "smtp" THEN @ ELSE "bad",
            !.ended = TRUE]

\* Leaving initiate before its end: smtp's refusals before the mail and a
\* broken read.
Leaves(c, s, ok) ==
  \/ c.kind = "smtp" /\ ~ok /\ s \in {"banner", "ehlo", "starttls", "ehlo2"}
  \/ c.kind = "tcp" /\ ~ok /\ s = "send"

Moved(s, ok) ==
  LET v == Verdict(dconf, verdict, s, ok)
      next == initiate(dconf, s, ok)
  IN /\ dstep' = next
     /\ verdict' = IF next = "over" /\ ~Leaves(dconf, s, ok) THEN Closing(dconf, v) ELSE v
     /\ owing' = (next \notin {"over", "tls", "send"})
     /\ UNCHANGED dconf
-----------------------------------------------------------------------------
DialogInit ==
  /\ dconf \in DialogConfs
  /\ dstep = "connect" /\ wires = <<>> /\ owing = FALSE /\ closed = FALSE /\ judged = <<>>
  /\ verdict = [state |-> "unknown", available |-> FALSE, good |-> FALSE, sent |-> FALSE, ended |-> FALSE]

\* The connection and, but for smtp, its upgrade to TLS, which a check without
\* it passes; an expired certificate takes `good` away.
ConnectRefused ==
  /\ dstep = "connect"
  /\ dstep' = "over" /\ verdict' = [verdict EXCEPT !.state = "bad"]
  /\ UNCHANGED <<dconf, wires, owing, closed, judged>>

DialogConnect ==
  /\ dstep = "connect"
  /\ dstep' = IF dconf.kind = "smtp" THEN "banner" ELSE "tls"
  /\ owing' = (dconf.kind = "smtp")
  /\ verdict' = [verdict EXCEPT !.good = (dconf.kind = "smtp"),
                                !.state = IF dconf.kind = "smtp" THEN @ ELSE "bad"]
  /\ UNCHANGED <<dconf, wires, closed, judged>>

Upgraded(expired) ==
  /\ dstep = "tls" /\ (expired => dconf.tls)
  /\ dstep' = initiate(dconf, "tls", TRUE)
  /\ verdict' = LET v == [verdict EXCEPT !.good = ~expired, !.available = TRUE]
                IN IF dstep' = "over" THEN Closing(dconf, v) ELSE v
  /\ owing' = (dstep' \notin {"over", "send"})
  /\ UNCHANGED <<dconf, wires, closed, judged>>

\* smtp.lua does not look at what ssl_upgrade_socket returns.
UpgradeFails ==
  /\ dstep = "tls" /\ dconf.tls
  /\ dstep' = initiate(dconf, "tls", FALSE)
  /\ closed' = TRUE
  /\ owing' = (dstep' # "over")
  /\ UNCHANGED <<dconf, wires, verdict, judged>>

\* tcp.lua writes send_body.
SendBody(ok) ==
  /\ dstep = "send" /\ (ok => ~closed)
  /\ Moved("send", ok)
  /\ UNCHANGED <<wires, closed, judged>>

\* The service.
Answers(reply) ==
  /\ owing /\ ~closed
  /\ owing' = FALSE
  /\ wires' = wires \o [i \in DOMAIN reply |-> [line |-> reply[i], to |-> Current]]
  /\ UNCHANGED <<dconf, dstep, closed, verdict, judged>>

HangsUp ==
  /\ ~closed /\ dstep \notin {"connect", "over"}
  /\ closed' = TRUE
  /\ UNCHANGED <<dconf, dstep, wires, owing, verdict, judged>>

\* How many lines the reply that is read takes, and whether it says what the
\* check hopes for: read_cmd of smtp gives up at a line it cannot read and
\* goes on while more is said, issue_cmd of imap and pop3 read on to a line that
\* ends a reply, get_banner and tcp.lua take one line.
DialogEnds(s) ==
  {i \in DOMAIN wires :
     \/ wires[i].line \in {"ok", "no"}
     \/ dconf.kind = "smtp" /\ wires[i].line = "junk"
     \/ dconf.kind # "smtp" /\ s = "banner"
     \/ dconf.kind = "tcp"}

ReplyEnds(s) == {i \in DialogEnds(s) : \A j \in DialogEnds(s) : i <= j}


ReadReply ==
  /\ dstep \notin {"connect", "tls", "send", "over"}
  /\ \E i \in ReplyEnds(dstep) :
       LET ok == wires[i].line = "ok"
       IN /\ judged' = Append(judged, [step |-> dstep, to |-> wires[i].to, line |-> wires[i].line])
          /\ wires' = SubSeq(wires, i + 1, Len(wires))
          /\ Moved(dstep, ok)
  /\ UNCHANGED closed

\* The connection ends in the middle of a reply: a 421 to smtp, nil to tcp.lua,
\* which returns, and an error to imap.lua and pop3.lua.
ReadFails ==
  /\ dstep \notin {"connect", "tls", "send", "over"}
  /\ closed /\ ReplyEnds(dstep) = {}
  /\ wires' = <<>>
  /\ IF dconf.kind = "smtp"
     THEN judged' = Append(judged, [step |-> dstep, to |-> Current, line |-> "none"]) /\ Moved(dstep, FALSE)
     ELSE /\ dstep' = "over" /\ owing' = FALSE
          /\ UNCHANGED <<dconf, verdict, judged>>
  /\ UNCHANGED closed

DialogNext ==
  \/ ConnectRefused \/ DialogConnect
  \/ \E e \in BOOLEAN : Upgraded(e)
  \/ UpgradeFails
  \/ \E ok \in BOOLEAN : SendBody(ok)
  \/ \E r \in DialogReplies : Answers(r)
  \/ HangsUp \/ ReadReply \/ ReadFails
-----------------------------------------------------------------------------
Said(s) == \E i \in DOMAIN judged : judged[i].step = s /\ judged[i].line = "ok"

\* A reply the protocol admits: a greeting of imap, pop3 and tcp is one line.
Proper(j) == j.line \in {"ok", "no"} \/ (j.line = "more" /\ (dconf.kind = "smtp" \/ j.step # "banner"))

(* As long as the service keeps to its protocol, the reply a check judges a
   command by is the reply to that command, however many lines the replies
   before it had (read_cmd, issue_cmd, get_banner). *)
RepliesMatched ==
  \A n \in DOMAIN judged :
    (\A i \in 1..n : Proper(judged[i])) => judged[n].to = n

(* A check is reported good only if the service did what it was asked: tcp's
   configured matches, pop3's login and STAT, imap's greeting and login, smtp's
   greeting and every EHLO (the tests of `good` in the four initiates).  smtp
   says the mail was sent only if the service took sender, recipient, DATA and
   the message. *)
GoodMeansServed ==
  /\ verdict.state = "good" =>
       CASE dconf.kind = "tcp"  -> (dconf.banner => Said("banner")) /\ (dconf.body => Said("body"))
         [] dconf.kind = "pop3" -> \A s \in {"banner", "user", "pass", "stat"} : Said(s)
         [] dconf.kind = "imap" -> \A s \in {"banner", "login"} : Said(s)
         [] dconf.kind = "smtp" -> \A s \in {"banner", "ehlo"} \cup (IF dconf.tls THEN {"starttls", "ehlo2"} ELSE {}) : Said(s)
  /\ verdict.sent => \A s \in {"mailfrom", "rcptto", "data", "body"} : Said(s)

-----------------------------------------------------------------------------
(***************************************************************************)
(* The redis check (modules-lua/noit/module/redis.lua): an optional AUTH   *)
(* and an optional SELECT, each with its answer, then one command and its  *)
(* reply, an element of the reply at a time.                               *)
(*                                                                         *)
(* The names of metrics are <<key>> or <<key, field>>.  The framing of     *)
(* elements (type byte, length, end of line), the types of values and JSON *)
(* values are left out.  A Lua error ends the run ("error"), and so does   *)
(* the end of the connection; a read that nothing satisfies waits for the  *)
(* check's timeout ("stuck").                                              *)
(***************************************************************************)

CONSTANTS RedisConfs,    \* [password, dbindex : BOOLEAN, command : <<name, key>>]
          RedisFields, RedisValues,
          InfoLines,     \* lines of an INFO: [key, subs : the parts a=b of it]
          MaxReply       \* bound: elements of a reply

ASSUME RedisAssumption ==
  /\ MaxReply \in Nat
  /\ \A c \in RedisConfs : c.command[1] \in {"GET", "HGET", "HGETALL", "LRANGE", "MGET", "INFO"}

\* rconf: the configuration; rstep: where the run is; md: metric_data; commandsLeft: the
\* size of the multibulk and its elements still to come; rmetrics: the metrics set; rstate: what is reported;
\* served: what the server answered, in order.
VARIABLES rconf, rstep, md, commandsLeft, rmetrics, rstate, served

redisVars == <<rconf, rstep, md, commandsLeft, rmetrics, rstate, served>>
-----------------------------------------------------------------------------
RedisInit ==
  /\ rconf \in RedisConfs /\ rstep = "connect"
  /\ md = [hash_key |-> <<>>, metric_name |-> <<>>, need_key |-> 0]
  /\ commandsLeft = [size |-> 0, left |-> 0] /\ rmetrics = {} /\ rstate = [available |-> FALSE, good |-> FALSE, stats |-> 0] /\ served = <<>>

Hash(c) == c.command[1] \in {"HGET", "HGETALL"}

\* initiate's dialogue, as far as the command.
AfterAuth(c) == IF c.dbindex THEN "select" ELSE "command"
AfterConnect(c) == IF c.password THEN "auth" ELSE AfterAuth(c)

RedisConnect(ok) ==
  /\ rstep = "connect"
  /\ rstep' = IF ok THEN AfterConnect(rconf) ELSE "done"
  /\ UNCHANGED <<rconf, md, commandsLeft, rmetrics, rstate, served>>

RedisAuth(ok) ==
  /\ rstep = "auth"
  /\ rstep' = IF ok THEN AfterAuth(rconf) ELSE "done"
  /\ served' = Append(served, [of |-> "AUTH", ok |-> ok])
  /\ UNCHANGED <<rconf, md, commandsLeft, rmetrics, rstate>>

RedisSelect(ok) ==
  /\ rstep = "select"
  /\ rstep' = IF ok THEN "command" ELSE "done"
  /\ served' = Append(served, [of |-> "SELECT", ok |-> ok])
  /\ UNCHANGED <<rconf, md, commandsLeft, rmetrics, rstate>>

\* get_command_metrics up to its read: MGET indexes a table that was never made.
get_command_metrics ==
  /\ rstep = "command"
  /\ rstep' = CASE rconf.command[1] = "INFO" -> "info" [] rconf.command[1] = "MGET" -> "error" [] OTHER -> "reply"
  /\ md' = [hash_key |-> IF Hash(rconf) THEN <<rconf.command[2]>> ELSE <<>>,
            metric_name |-> <<rconf.command[2]>>, need_key |-> 0]
  /\ UNCHANGED <<rconf, commandsLeft, rmetrics, rstate, served>>

add_check_metric(v, d) == {m \in rmetrics : m.name # d.metric_name} \cup {[name |-> d.metric_name, value |-> v]}

\* initiate's end, with the count its reader returned.
Concludes(n) ==
  /\ rstep' = "done"
  /\ rstate' = IF n > 0 THEN [available |-> TRUE, good |-> TRUE, stats |-> n] ELSE rstate

\* A bulk, an integer or a status inside md's present name; need_key says that
\* a bulk is the field the next value belongs to.
redis_bulk_response(k, v, d) ==
  IF k = "bulk" /\ d.need_key = 1
  THEN rmetrics' = rmetrics /\ md' = [d EXCEPT !.metric_name = d.hash_key \o <<v>>]
  ELSE rmetrics' = add_check_metric(v, d) /\ md' = d

\* The toggle before each element of a multibulk.
Toggled(d) == [d EXCEPT !.need_key = (@ + 1) % 2]

\* A whole reply of one element.
OneElement(k, v) ==
  /\ rstep = "reply" /\ rconf.command[1] \in {"GET", "HGET"} /\ k \in {"bulk", "integer", "string"}
  /\ redis_bulk_response(k, v, md)
  /\ served' = Append(served, [of |-> k, value |-> v])
  /\ Concludes(1)
  /\ UNCHANGED <<rconf, commandsLeft>>

\* redis_response_error, redis_response_null: nothing counted.
redis_response_error(k) ==
  /\ rstep = "reply" /\ k \in {"error", "null"}
  /\ served' = Append(served, [of |-> k])
  /\ Concludes(0)
  /\ UNCHANGED <<rconf, md, commandsLeft, rmetrics>>

\* The count of a multibulk.  Without a hash the first element ends the run: the
\* list of names was never made.
redis_multibulk_response(n) ==
  /\ rstep = "reply" /\ n \in 0..MaxReply
  /\ rconf.command[1] \in IF n % 2 = 0 THEN {"LRANGE", "HGETALL"} ELSE {"LRANGE"}
  /\ served' = Append(served, [of |-> "multi", size |-> n])
  /\ commandsLeft' = [size |-> n, left |-> n]
  /\ UNCHANGED <<rconf, md, rmetrics>>
  /\ IF n = 0 THEN Concludes(0)
     ELSE rstep' = (IF md.hash_key = <<>> THEN "error" ELSE "elements") /\ UNCHANGED rstate

\* An element of the multibulk; a server answers HGETALL with bulks, a field and its
\* value in turn.
Given(k) == LET b == SelectSeq(served, LAMBDA a : a.of = "bulk") IN {b[i].value : i \in {i \in DOMAIN b : i % 2 = k}}
Element(v) ==
  /\ rstep = "elements"
  /\ v \in IF commandsLeft.left % 2 = 0 THEN RedisFields \ Given(1) ELSE RedisValues
  /\ redis_bulk_response("bulk", v, Toggled(md))
  /\ served' = Append(served, [of |-> "bulk", value |-> v])
  /\ commandsLeft' = [commandsLeft EXCEPT !.left = @ - 1]
  /\ UNCHANGED rconf
  /\ IF commandsLeft.left = 1 THEN Concludes(commandsLeft.size) ELSE UNCHANGED <<rstep, rstate>>

\* get_info_metrics: one metric for a line, or one for each of its parts.  The
\* length is taken from whatever line comes first: an error in its place waits
\* for text that never comes.
get_info_metrics(ls, ok) ==
  /\ rstep = "info"
  /\ served' = Append(served, [of |-> "INFO", lines |-> ls, ok |-> ok])
  /\ UNCHANGED <<rconf, md, commandsLeft>>
  /\ IF ~ok THEN rstep' = "stuck" /\ UNCHANGED <<rmetrics, rstate>>
     ELSE LET names == UNION {IF i.subs = {} THEN {<<i.key>>} ELSE {<<i.key, s>> : s \in i.subs} : i \in ls}
          IN rmetrics' = {[name |-> n, value |-> "i"] : n \in names} /\ Concludes(Cardinality(names))

\* The connection ends while something is to be read.
ReplyBroken ==
  /\ rstep \in {"auth", "select", "reply", "elements", "info"}
  /\ rstep' = "error"
  /\ UNCHANGED <<rconf, md, commandsLeft, rmetrics, rstate, served>>

RedisNext ==
  \/ \E ok \in BOOLEAN : RedisConnect(ok) \/ RedisAuth(ok) \/ RedisSelect(ok)
  \/ get_command_metrics
  \/ \E k \in {"bulk", "integer", "string"}, v \in RedisValues : OneElement(k, v)
  \/ \E k \in {"error", "null"} : redis_response_error(k)
  \/ \E n \in 0..MaxReply : redis_multibulk_response(n)
  \/ \E v \in RedisFields \cup RedisValues : Element(v)
  \/ \E ls \in SUBSET InfoLines, ok \in BOOLEAN : get_info_metrics(ls, ok)
  \/ ReplyBroken
-----------------------------------------------------------------------------
Bulks == SelectSeq(served, LAMBDA a : a.of = "bulk")

(* The fields of a hash are reported under the hash's name and their own, each
   with the value the server sent after it, at every point of the reply
   (redis_multibulk_response's need_key, redis_bulk_response). *)
HashRead ==
  rconf.command[1] = "HGETALL" =>
    rmetrics = {[name |-> <<rconf.command[2], Bulks[2 * i - 1].value>>, value |-> Bulks[2 * i].value]
                  : i \in 1..(Len(Bulks) \div 2)}

(* A check reports metrics, and is good, only after the server took its password
   and its database, when it has them; and a good check has a metric, as many as
   its status counts or half as many for a hash (initiate). *)
MetricsAuthorised ==
  /\ (rmetrics # {} \/ rstate.good) =>
       /\ rconf.password => \E i \in DOMAIN served : served[i].of = "AUTH" /\ served[i].ok
       /\ rconf.dbindex => \E i \in DOMAIN served : served[i].of = "SELECT" /\ served[i].ok
  /\ rstate.good =>
       rstate.stats = Cardinality(rmetrics) * (IF rconf.command[1] = "HGETALL" THEN 2 ELSE 1)
=============================================================================
