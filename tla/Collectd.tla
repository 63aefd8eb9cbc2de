------------------------------ MODULE Collectd ------------------------------
(***************************************************************************)
(* The collectd module: uploads over HTTP (first part), and packets of its *)
(* network protocol (second part).                                         *)
(***************************************************************************)
EXTENDS Integers, Sequences, FiniteSets, SequencesExt, FiniteSetsExt

(***************************************************************************)
(* collectd.c, uploads: a JSON list of objects is parsed as it arrives; at *)
(* the end of an object its values are set on the check of its host, under *)
(* its names, and counted; the periodic run of the check reports whether   *)
(* anything was counted since the report before.                           *)
(*                                                                         *)
(* A step is one callback of the JSON parser, or two for an attribute and  *)
(* its string.  The parser (yajl) is external: it calls back in the order  *)
(* of a JSON text.  An object names each of its attributes once.           *)
(***************************************************************************)

CONSTANTS Dsnames, DsValues,   \* elements of the two lists
          MaxCdObjects, MaxElements, MaxSubmits   \* bounds

VARIABLES cd,          \* struct rest_json_payload
          nest,        \* yajl's open brackets, innermost last
          used,        \* the attributes the open object has named
          toldObj,     \* history: the open object as it is sent
          asynch,      \* asynch_metrics of the check
          ccl,         \* the check's closure: <<>> or <<stats_count>>
          recent,      \* the current stats are younger than the period
          cdReports,   \* the reports: what each said and what is true
          cdRecorded,  \* what was set on the check
          cdExpected,  \* history: what the objects sent ask for
          since,       \* history: values set since the last report
          submits
cdVars == <<cd, nest, used, toldObj, asynch, ccl, recent, cdReports,
            cdRecorded, cdExpected, since, submits>>

ASSUME CollectdAssumption ==
  MaxCdObjects \in Nat \ {0} /\ MaxElements \in Nat \ {0} /\ MaxSubmits \in Nat

Attributes == {"host", "plugin", "type"}
EmptyObject == [attrs |-> {}, metrics |-> <<>>, nnames |-> 0, nvalues |-> 0]
NothingTold == [attrs |-> {}, names |-> <<>>, values |-> <<>>]
BlankMetric == [name |-> "", value |-> "null"]
FreshPayload(ok) == [state |-> "none", depth |-> 0, idx |-> 0, o |-> <<>>, access |-> ok,
                 immediate_checks |-> FALSE, objects |-> 0]

CollectdInit ==
  /\ \E ok \in BOOLEAN : cd = FreshPayload(ok)
  /\ nest = <<>> /\ used = {} /\ toldObj = NothingTold
  /\ asynch \in BOOLEAN /\ ccl = <<>> /\ recent = FALSE /\ cdReports = <<>>
  /\ cdRecorded = <<>> /\ cdExpected = <<>> /\ since = 0 /\ submits = 0

Parsed == UNCHANGED <<asynch, ccl, recent, cdReports, cdRecorded, cdExpected, since, submits>>
InMap == nest # <<>> /\ Last(nest) = "map"
InArray == nest # <<>> /\ Last(nest) = "array"
\* yajl expects a value: in a list, or after a key.
Expects == cd.state # "failed" /\ nest # <<>> /\ Last(nest) \in {"array", "key"}
\* The value is there.
Filled == IF Last(nest) = "key" THEN Append(Front(nest), "map") ELSE nest

\* A callback that returns 0: the upload is over.
UploadRefused == [cd EXCEPT !.state = "failed"]

\* collectd_yajl_cb_start_array.
CdStartArray ==
  /\ (cd.state = "none" /\ nest = <<>>) \/ Expects
  /\ Len(nest) < 4 /\ nest' = Append(IF nest = <<>> THEN nest ELSE Filled, "array")
  /\ cd' = CASE cd.state = "none" -> [cd EXCEPT !.state = "list"]
             [] cd.state \in {"values", "names"} -> [cd EXCEPT !.idx = 0]
             [] cd.state \in {"object", "dontcare"} -> [cd EXCEPT !.state = "dontcare", !.depth = @ + 1]
             [] OTHER -> UploadRefused
  /\ UNCHANGED <<used, toldObj>> /\ Parsed

\* collectd_yajl_cb_end_array.
CdEndArray ==
  /\ InArray /\ cd.state # "failed" /\ nest' = Front(nest)
  /\ cd' = CASE cd.state = "list" -> [cd EXCEPT !.state = "none"]
             [] cd.state = "dontcare" ->
                  [cd EXCEPT !.depth = @ - 1, !.state = IF cd.depth = 1 THEN "object" ELSE @]
             [] cd.state \in {"values", "names"} -> [cd EXCEPT !.state = "object"]
             [] OTHER -> UploadRefused
  /\ UNCHANGED <<used, toldObj>> /\ Parsed

\* collectd_yajl_cb_start_map.
CdStartMap ==
  /\ Expects /\ Len(nest) < 4 /\ nest' = Append(Filled, "map")
  /\ nest = <<"array">> => cd.objects < MaxCdObjects
  /\ cd' = CASE cd.state = "list" -> [cd EXCEPT !.state = "object", !.o = <<EmptyObject>>, !.objects = @ + 1]
             [] cd.state \in {"object", "dontcare"} -> [cd EXCEPT !.state = "dontcare", !.depth = @ + 1]
             [] OTHER -> UploadRefused
  /\ IF nest = <<"array">> THEN used' = {} /\ toldObj' = NothingTold ELSE UNCHANGED <<used, toldObj>>
  /\ Parsed

\* collectd_yajl_cb_map_key, for a key whose value is not a string.
CdMapKey(k) ==
  /\ InMap /\ cd.state # "failed" /\ nest' = Append(Front(nest), "key")
  /\ CASE cd.state = "dontcare" -> k = "meta" /\ UNCHANGED <<cd, used>>
       [] cd.state = "object" ->
            /\ k \notin used /\ used' = used \cup {k}
            /\ cd' = [cd EXCEPT !.state = CASE k = "dsnames" -> "names" [] k = "values" -> "values"
                                            [] OTHER -> "object"]
       [] OTHER -> cd' = UploadRefused /\ UNCHANGED used
  /\ UNCHANGED toldObj /\ Parsed

\* map_key and then string, for a name of the object.
Attribute(k) ==
  /\ InMap /\ cd.state = "object" /\ k \notin used
  /\ used' = used \cup {k} /\ cd' = [cd EXCEPT !.o[1].attrs = @ \cup {k}]
  /\ toldObj' = [toldObj EXCEPT !.attrs = @ \cup {k}]
  /\ UNCHANGED nest /\ Parsed

\* EXTEND_METRICS_FOR(o, metric_idx + 1).
Extended(m) == m \o [i \in 1 .. Max({0, cd.idx + 1 - Len(m)}) |-> BlankMetric]

\* An element of "dsnames": collectd_yajl_cb_string in CD_NAMES.
NameGiven(s) ==
  [cd EXCEPT !.o[1].metrics = [Extended(@) EXCEPT ![cd.idx + 1].name = s],
             !.o[1].nnames = Max({@, cd.idx + 1}), !.idx = @ + 1]
\* An element of "values": collectd_yajl_cb_number, or null and string.
ValueGiven(v) ==
  [cd EXCEPT !.o[1].metrics = [Extended(@) EXCEPT ![cd.idx + 1].value = IF v = "null" THEN @ ELSE v],
             !.o[1].nvalues = Max({@, cd.idx + 1}), !.idx = @ + 1]

\* A number, a string or null where yajl expects a value.
Scalar(v) ==
  /\ Expects /\ Len(nest) > 1 /\ (cd.state \in {"names", "values"} => cd.idx < MaxElements)
  /\ cd' = CASE cd.state = "values" -> ValueGiven(IF v \in Dsnames THEN "null" ELSE v)
             [] cd.state = "names" -> IF v \in Dsnames THEN NameGiven(v) ELSE UploadRefused
             [] OTHER -> cd
  /\ toldObj' = CASE cd.state = "values" ->
                       [toldObj EXCEPT !.values = Append(@, IF v \in Dsnames THEN "null" ELSE v)]
                  [] cd.state = "names" -> [toldObj EXCEPT !.names = Append(@, v)]
                  [] OTHER -> toldObj
  /\ nest' = Filled /\ UNCHANGED used /\ Parsed

\* The validation of cd_object_process.
cd_object_valid(o) == o.attrs = Attributes /\ o.nnames = o.nvalues /\ o.nnames # 0

\* cd_object_on_check: the metrics are set, logged if asynch, and counted.
cd_object_on_check(o) ==
  IF cd.access
  THEN /\ cdRecorded' = cdRecorded \o SubSeq(o.metrics, 1, o.nnames)
       /\ since' = since + o.nnames
       /\ ccl' = IF ccl = <<>> THEN <<o.nnames>> ELSE <<ccl[1] + o.nnames>>
  ELSE UNCHANGED <<cdRecorded, since, ccl>>

\* What an object asks for.
AskedOf(o) ==
  IF cd.access /\ o.attrs = Attributes /\ Len(o.names) = Len(o.values)
  THEN [i \in DOMAIN o.names |-> [name |-> o.names[i], value |-> o.values[i]]]
  ELSE <<>>

\* collectd_yajl_cb_end_map: the end of an object is cd_object_process.
CdEndMap ==
  /\ InMap /\ cd.state # "failed" /\ nest' = Front(nest)
  /\ UNCHANGED <<used, toldObj, asynch, recent, cdReports, submits>>
  /\ \/ /\ cd.state = "object"
        /\ LET o == cd.o[1] IN
           /\ IF cd_object_valid(o) THEN cd_object_on_check(o) ELSE UNCHANGED <<cdRecorded, since, ccl>>
           /\ cd' = [cd EXCEPT !.state = "list", !.o = <<>>,
                               !.immediate_checks = @ \/ (asynch /\ cd_object_valid(o) /\ cd.access)]
           /\ cdExpected' = cdExpected \o AskedOf(toldObj)
     \/ /\ cd.state = "dontcare"
        /\ cd' = [cd EXCEPT !.depth = @ - 1, !.state = IF cd.depth = 1 THEN "object" ELSE @]
        /\ UNCHANGED <<cdRecorded, since, ccl, cdExpected>>
     \/ /\ cd.state \in {"names", "values"} /\ cd' = UploadRefused
        /\ UNCHANGED <<cdRecorded, since, ccl, cdExpected>>

\* collectd_submit_internal: nothing if the check logs by itself and did so
\* within its period; the first run is not counted.
collectd_submit_internal(direct) ==
  IF ~direct /\ asynch /\ recent THEN UNCHANGED <<ccl, recent, cdReports, since>>
  ELSE /\ ccl' = <<0>>
       /\ recent' = (recent \/ ccl # <<>>)
       /\ cdReports' = IF ccl = <<>> THEN cdReports ELSE Append(cdReports, <<ccl[1] > 0, since > 0>>)
       /\ since' = 0

\* rest_collectd_handler once the text ended or failed: the checks that log
\* at once are submitted, then the answer; another upload may follow.
UploadEnds ==
  /\ cd.state = "failed" \/ (cd.state = "none" /\ nest = <<>>)
  /\ IF cd.immediate_checks THEN collectd_submit_internal(TRUE) ELSE UNCHANGED <<ccl, recent, cdReports, since>>
  /\ \E ok \in BOOLEAN : cd' = [FreshPayload(ok) EXCEPT !.objects = cd.objects]
  /\ nest' = <<>> /\ used' = {} /\ toldObj' = NothingTold
  /\ UNCHANGED <<asynch, cdRecorded, cdExpected, submits>>

\* collectd_submit: the check runs.
CdSubmit ==
  /\ submits < MaxSubmits /\ submits' = submits + 1
  /\ collectd_submit_internal(FALSE)
  /\ UNCHANGED <<cd, nest, used, toldObj, asynch, cdRecorded, cdExpected>>

\* The period of the check passes.
PeriodPasses ==
  /\ recent /\ recent' = FALSE
  /\ UNCHANGED <<cd, nest, used, toldObj, asynch, ccl, cdReports, cdRecorded, cdExpected, since, submits>>

CollectdNext ==
  \/ CdStartArray \/ CdEndArray \/ CdStartMap \/ CdEndMap \/ UploadEnds \/ CdSubmit \/ PeriodPasses
  \/ \E k \in {"dsnames", "values", "meta"} : CdMapKey(k)
  \/ \E k \in Attributes : Attribute(k)
  \/ \E v \in Dsnames \cup DsValues : Scalar(v)

(* The check gets, of the objects that arrived whole, exactly those with a  *)
(* host, a plugin, a type and as many values as names, each value under the *)
(* name at its place, in whatever order the attributes came and whatever    *)
(* unknown attributes with nested values stood between                      *)
(* (cd_object_process, EXTEND_METRICS_FOR and the DONTCARE depth).          *)
ObjectsWhole == cdRecorded = cdExpected

(* A report says available exactly if values were set since the report      *)
(* before, by however many uploads, failed ones included ("Then we can warn  *)
(* people if no stats where written in a period of time").                  *)
QuietReported == \A i \in DOMAIN cdReports : cdReports[i][1] = cdReports[i][2]

-----------------------------------------------------------------------------
(***************************************************************************)
(* collectd.c, datagrams: noit_collectd_handler reads them into one buffer *)
(* and gives each to every collectd check of the sender's address, whose   *)
(* parse_packet walks its parts.                                           *)
(*                                                                         *)
(* A part is one unit of the buffer.  The walk keeps a position and a size *)
(* left, as the code does: a part that is passed over moves the position   *)
(* and not the size, so the walk goes on into what an earlier datagram     *)
(* left there.  Decryption rewrites the part where it stands.  The parts   *)
(* host, plugin and type, all needed to record values, are one part type.  *)
(* A severity part holds one of the severities a notification may have.    *)
(***************************************************************************)

CONSTANTS PacketParts,      \* the parts a datagram may hold
          Receivers,        \* what the checks of the address may be set to
          MaxParts, MaxDatagrams    \* bounds

VARIABLES receivers,   \* the checks of the address, in the order visited
          packet,      \* the buffer
          inlen,       \* the length of the last datagram
          queued,      \* values and notifications of each check for the last datagram
          passed,      \* a part of it was passed over
          hung,        \* the handler never returns, or ended the process
          datagrams
packetVars == <<receivers, packet, inlen, queued, passed, hung, datagrams>>

ASSUME PacketsAssumption ==
  /\ MaxParts \in Nat \ {0} /\ MaxDatagrams \in Nat
  /\ \A r \in Receivers : \A i \in DOMAIN r :
       r[i] \in [security_level : {"none", "sign", "encrypt"}, user : BOOLEAN,
                support_notifications : BOOLEAN]

\* Memory no datagram has reached holds no part.
NoPart == [kind |-> "zero", inner |-> <<>>, id |-> <<0, 0>>]

PacketsInit ==
  /\ receivers \in Receivers /\ packet = [i \in 1 .. MaxParts |-> NoPart]
  /\ inlen = 0 /\ queued = [i \in DOMAIN receivers |-> {}]
  /\ passed = FALSE /\ hung = FALSE /\ datagrams = 0

Read(buf, pos) == IF pos <= Len(buf) THEN buf[pos] ELSE NoPart

\* The walk: what is queued, the buffer after it, and how it went.
Walked(buf) == [queued |-> {}, buf |-> buf, passed |-> FALSE, hung |-> FALSE]
\* One walk inside or after another.
Joined(w, v) == [queued |-> w.queued \cup v.queued, buf |-> v.buf,
                 passed |-> w.passed \/ v.passed, hung |-> v.hung]

\* parse_part_values, parse_part_number, parse_part_string: a part of a known
\* type whose length does not fit its contents ends the packet.
parse_part(part) == part.kind # "broken"

\* VALUE_LIST_INIT, and a notification without severity: what the walk has
\* read so far.
NothingRead == [vl |-> <<>>, severity |-> FALSE]

\* queue_values: every value of the part, under the names concat_metrics and
\* infer_type make of vl; none without names.
queue_values(n, part) == IF n.vl = <<>> THEN {} ELSE {[vl |-> n.vl, values |-> part.id]}

\* queue_notifications: the message of the part, if a severity came before it
\* and the module is to record notifications.
queue_notifications(c, n, part) ==
  IF n.severity /\ c.support_notifications THEN {[vl |-> n.vl, values |-> part.id]} ELSE {}

RECURSIVE parse_packet(_, _, _, _, _, _)
RECURSIVE parse_part_encr_aes256(_, _, _, _, _, _)
RECURSIVE parse_part_sign_sha256(_, _, _, _, _)

\* A part is passed over: buffer moves on, buffer_size does not.
PassedOver(c, buf, pos, size, flags, n) ==
  Joined([Walked(buf) EXCEPT !.passed = TRUE], parse_packet(c, buf, pos + 1, size, flags, n))

\* The level the check asks for is not met.
Ignored(c, flags) ==
  \/ c.security_level = "encrypt" /\ "encrypted" \notin flags
  \/ c.security_level = "sign" /\ flags = {}

\* What parse_packet knows after a part, and what it queues for it.
Told(n, part) ==
  CASE part.kind = "name" -> [n EXCEPT !.vl = part.id]
    [] part.kind = "severity" -> [n EXCEPT !.severity = TRUE]
    [] OTHER -> n
QueuedFor(c, n, part) ==
  CASE part.kind = "values" -> queue_values(n, part)
    [] part.kind = "message" -> queue_notifications(c, n, part)
    [] OTHER -> {}

\* The loop of parse_packet.  n is what it read of this packet before.
parse_packet(c, buf, pos, size, flags, n) ==
  LET part == Read(buf, pos) IN
  IF size = 0 \/ part.kind = "zero" THEN Walked(buf)
  ELSE IF part.kind = "encr" THEN parse_part_encr_aes256(c, buf, pos, size, flags, n)
  ELSE IF c.security_level = "encrypt" /\ "encrypted" \notin flags
       THEN PassedOver(c, buf, pos, size, flags, n)
  ELSE IF part.kind = "sign" THEN parse_part_sign_sha256(c, buf, pos, size, flags)
  ELSE IF Ignored(c, flags) THEN PassedOver(c, buf, pos, size, flags, n)
  ELSE IF ~parse_part(part) THEN Walked(buf)
  ELSE IF part.kind = "other" THEN PassedOver(c, buf, pos, size, flags, n)
  ELSE Joined([Walked(buf) EXCEPT !.queued = QueuedFor(c, n, part)],
              parse_packet(c, buf, pos + 1, size - 1, flags, Told(n, part)))

\* parse_part_sign_sha256: without a username or a secret it returns where it
\* was; it takes the rest of the packet, parsed if the signature fits.
parse_part_sign_sha256(c, buf, pos, size, flags) ==
  IF ~c.user THEN [Walked(buf) EXCEPT !.hung = TRUE]
  ELSE IF size = 1 THEN Walked(buf)
  ELSE parse_packet(c, buf, pos + 1, size - 1, flags \cup {"signed"}, NothingRead)

parse_part_encr_aes256Left(c, buf, pos, size, flags, n) ==      \* mutant: names carried in
  LET part == buf[pos] IN
  IF ~c.user THEN [Walked(buf) EXCEPT !.hung = TRUE]
  ELSE IF part.inner = <<>> THEN Walked(buf)
  ELSE Joined(parse_packet(c, part.inner, 1, Len(part.inner), flags \cup {"encrypted"}, n),
              parse_packet(c, [buf EXCEPT ![pos].inner = <<>>], pos + 1, size - 1, flags, n))
\* parse_part_encr_aes256: fails the packet if the part does not decrypt, and
\* the process if the check has no user to compare with; what it decrypted
\* stands where the part was.
parse_part_encr_aes256(c, buf, pos, size, flags, n) ==
  LET part == buf[pos] IN
  IF ~c.user THEN [Walked(buf) EXCEPT !.hung = TRUE]
  ELSE IF part.inner = <<>> THEN Walked(buf)
  ELSE Joined(parse_packet(c, part.inner, 1, Len(part.inner), flags \cup {"encrypted"}, NothingRead),
              parse_packet(c, [buf EXCEPT ![pos].inner = <<>>], pos + 1, size - 1, flags, n))

\* push_packet_at_check: a check that wants encryption and has no user takes
\* nothing.
push_packet_at_check(c, buf, len) ==
  IF c.security_level = "encrypt" /\ ~c.user THEN Walked(buf) ELSE parse_packet(c, buf, 1, len, {}, NothingRead)

\* noit_poller_target_ip_do: the checks in order, all given the same buffer.
Pushed[i \in 0 .. 2] ==
  IF i = 0 THEN <<Walked(packet)>>
  ELSE IF i > Len(receivers) \/ Last(Pushed[i - 1]).hung THEN Pushed[i - 1]
  ELSE Append(Pushed[i - 1], push_packet_at_check(receivers[i], Last(Pushed[i - 1]).buf, inlen))

\* The parts of a datagram, each marked with where it came in.
Sent(parts, d) ==
  [i \in DOMAIN parts |->
     [kind |-> parts[i].kind, id |-> <<d, i>>,
      inner |-> [j \in DOMAIN parts[i].inner |->
                   [kind |-> parts[i].inner[j], inner |-> <<>>, id |-> <<d, i, j>>]]]]

\* recvfrom: the datagram overwrites the beginning of the buffer.
ReceivePacket(parts) ==
  /\ inlen = 0 /\ ~hung /\ datagrams < MaxDatagrams
  /\ datagrams' = datagrams + 1 /\ inlen' = Len(parts)
  /\ packet' = Sent(parts, datagrams + 1) \o SubSeq(packet, Len(parts) + 1, MaxParts)
  /\ queued' = [i \in DOMAIN receivers |-> {}] /\ passed' = FALSE
  /\ UNCHANGED <<receivers, hung>>

\* The rest of the turn of noit_collectd_handler.
PushCheck ==
  /\ inlen > 0 /\ inlen' = 0
  /\ LET ws == Pushed[2] IN
     /\ queued' = [i \in DOMAIN receivers |-> IF i < Len(ws) THEN ws[i + 1].queued ELSE {}]
     /\ passed' = \E i \in DOMAIN ws : ws[i].passed
     /\ hung' = Last(ws).hung
     /\ packet' = Last(ws).buf
  /\ UNCHANGED <<receivers, datagrams>>

PacketsNext ==
  \/ \E n \in 1 .. MaxParts : \E parts \in [1 .. n -> PacketParts] : ReceivePacket(parts)
  \/ PushCheck

\* What a check should get of the parts s of one packet, cover being what
\* protects it: each values part with the last name part before it that no
\* signature separates from it, and each message a severity precedes.
Before(s, i, kind) == {j \in 1 .. i - 1 : s[j].kind = kind /\ \A k \in j .. i - 1 : s[k].kind # "sign"}
NameAt(s, i) == LET names == Before(s, i, "name") IN IF names = {} THEN <<>> ELSE s[Max(names)].id
Recordable(c, s, i) ==
  \/ s[i].kind = "values" /\ Before(s, i, "name") # {}
  \/ s[i].kind = "message" /\ Before(s, i, "severity") # {} /\ c.support_notifications
CoverOf(s, i, cover) == cover \cup (IF \E j \in 1 .. i - 1 : s[j].kind = "sign" THEN {"signed"} ELSE {})
Met(c, cover) == CASE c.security_level = "none" -> TRUE
                   [] c.security_level = "sign" -> cover # {}
                   [] OTHER -> "encrypted" \in cover
\* The packet is read up to a part that does not parse.
Readable(s) == LET bad == {i \in DOMAIN s : s[i].kind = "broken"} IN
               IF bad = {} THEN s ELSE SubSeq(s, 1, Min(bad) - 1)
Due(c, whole, cover) ==
  LET s == Readable(whole) IN
  {[vl |-> NameAt(s, i), values |-> s[i].id] :
     i \in {k \in DOMAIN s : Recordable(c, s, k) /\ Met(c, CoverOf(s, k, cover))}}
ReceivedBytes == SubSeq(packet, 1, inlen)
InnerDue(c, whole) ==
  LET s == Readable(whole) IN
  UNION {Due(c, s[i].inner, {"encrypted"} \cup CoverOf(s, i, {})) : i \in {k \in DOMAIN s : s[k].kind = "encr"}}

(* A check with a user gets of a datagram exactly the values and, where it  *)
(* records them, the notifications its security level admits, each under    *)
(* the names that precede it in its own packet,                             *)
(* whatever earlier datagrams left in the buffer: parse_packet, for         *)
(* datagrams of which it passes nothing over, and, since decryption         *)
(* rewrites the part, for the first check of the address.                   *)
PacketsWhole ==
  [][inlen > 0 /\ ~passed' /\ receivers[1].user
       => queued'[1] = Due(receivers[1], ReceivedBytes, {}) \cup InnerDue(receivers[1], ReceivedBytes)]_packetVars
=============================================================================
