--------------------------- MODULE MCNoitdChecks ----------------------------
(***************************************************************************)
(* The modules and listeners of noitd's checks, side by side on small      *)
(* instances, and the registry with requests one after the other. A        *)
(* behaviour is a behaviour of one of them; the properties say of all of   *)
(* them what each says of itself.                                          *)
(***************************************************************************)
EXTENDS TLC, CheckRegistry, MetricUploads, DatagramChecks, Snmp,
        LuaCheck, PushListeners, ServiceDialogs, Collectd,
        Statsd

VARIABLE part    \* the component that moves in this behaviour

\* CheckRegistry: requests one after the other.  Each check has names of its own:
\* n1 and n2 belong to u1, n3 to u2.
OwnNames == [u : {"u1"}, name : {"n1", "n2"}, seq : {1, 2}]
              \cup [u : {"u2"}, name : {"n3"}, seq : {0, 2}]
OwnPeer == {[u |-> "u1", name |-> "n1", seq |-> 2, deleted |-> d] : d \in BOOLEAN}

\* NtpCheck: the server's clock is behind.
MCTheta == -2

\* DhcpCheck: options of each kind, with data that read like other options.
MCDhcpData ==
    (1 :> {<<1, 2>>, <<3, 1, 255, 0>>}) @@ (51 :> {<<0, 1>>, <<15, 1>>})
      @@ (15 :> {<<1>>, <<>>, <<51, 2, 255>>})

\* SnmpCheck: two checks share a session, a third has an SNMPv3 session.
MCSessionOf == [c \in Getter |-> IF c = "c3" THEN "t:v3" ELSE "t:v2"]

\* SnmpTraps: traps for two checks and for one that is not there, with either
\* community, and bodies with metrics, a status or neither.
MCId(x) == <<x, "0", "-", "1", "-", "2", "-", "3", "-", "4", "5", "6">>
MCTrapChecks == (MCId("a") :> "pub") @@ (MCId("b") :> "priv")
Variable(k, n) == [kind |-> k, name |-> n]
MCBodies ==
    {<<Variable("metric", "x"), Variable("odd metric", "y")>>,
     <<Variable("metric", "y"), Variable("other", "")>>,
     <<Variable("status", "")>>, <<Variable("other", "")>>}
MCTrap(v, m, x, vs) ==
    [version |-> v, community |-> m, oid |-> <<x, "0", "1", "2", "3", "4", "5", "6">>, vars |-> vs]
MCTraps ==
    {MCTrap(2, m, x, <<Variable("metric", "w"), Variable("trapoid", "")>> \o b) :
        m \in {"pub", "priv"}, x \in {"a", "b", "c"}, b \in MCBodies}
      \cup {MCTrap(v, "pub", "a", <<Variable("metric", "x")>>) : v \in {1, 2}}

\* LineListener: what a sender writes, in line ends and record lengths.
MCStreams == {<<1, 0, 2, 1, 0, 1>>, <<2, 1, 1, 1, 2, 3>>}

\* GangliaHost: two checks of one host.
MCHostChecks == <<"c", "d">>

\* HttpCheck: answers with each form of Location, cookies and challenges.
MCUrl(s, h, port, segs) == [kind |-> "url", schema |-> s, host |-> h, port |-> port, segs |-> segs]
MCHttpConfs ==
    {[url |-> MCUrl("https", "h", <<8443>>, <<"d">>), method |-> "POST", payload |-> TRUE,
      redirects |-> 2, auth |-> x] : x \in {"none", "Auto"}}
      \cup {[url |-> MCUrl("http", "h", <<>>, <<>>), method |-> "GET", payload |-> FALSE,
             redirects |-> n, auth |-> x] : n \in {0, 2}, x \in {"Basic", "Digest"}}
MCLocations ==
    {<<>>, <<MCUrl("http", "g", <<>>, <<"d", "e">>)>>,
     <<MCUrl("https", "h", <<>>, <<"d", "x", "..", "f.h">>)>>,
     <<[kind |-> "path", segs |-> <<"d">>]>>, <<[kind |-> "query"]>>,
     <<[kind |-> "parent", segs |-> <<"e">>]>>, <<[kind |-> "here"]>>,
     <<MCUrl("http", "lost", <<>>, <<>>)>>}
MCCookie(path, v) == <<[name |-> "n", path |-> path, value |-> v]>>
MCHttpAnswers ==
    [code : {200}, challenge : {"none"}, location : MCLocations,
     cookie : {<<>>, MCCookie(<<>>, 1), MCCookie(<<"d">>, 2), MCCookie(<<"d">>, 3)}]
      \cup {[code |-> 401, challenge |-> c, location |-> <<>>, cookie |-> <<>>] :
              c \in {"Basic", "Digest", "NTLM"}}

\* ServiceDialogs: each protocol, with and without its optional steps.
MCNoOption ==
    [tls |-> FALSE, sasl |-> "off", from |-> FALSE, to |-> FALSE, search |-> FALSE,
     fetch |-> FALSE, send |-> FALSE, banner |-> FALSE, body |-> FALSE]
MCDialog(k, opts) == [kind |-> k] @@ opts @@ MCNoOption
MCDialogs ==
    {MCDialog("tcp", [banner |-> b, body |-> TRUE, send |-> b, tls |-> b]) : b \in BOOLEAN}
      \cup {MCDialog("smtp", [sasl |-> s, from |-> TRUE, to |-> TRUE, tls |-> (s = "login")]) :
              s \in {"off", "login", "plain"}}
      \cup {MCDialog("imap", [search |-> b, fetch |-> b, tls |-> b]) : b \in BOOLEAN}
      \cup {MCDialog("pop3", [tls |-> b]) : b \in BOOLEAN}
MCReplies == {<<"ok">>, <<"no">>, <<"more", "ok">>, <<"junk", "no">>}

\* RedisCheck: each command, with and without password and database.
MCRedisConfs ==
    [password : BOOLEAN, dbindex : BOOLEAN,
     command : {<<n, "k">> : n \in {"GET", "HGET", "HGETALL", "LRANGE", "MGET", "INFO"}}]
MCInfoLines ==
    {[key |-> "a", subs |-> {}], [key |-> "db0", subs |-> {"keys", "expires"}],
     [key |-> "db1", subs |-> {"keys"}]}

\* CollectdPackets: every kind of part, plain and encrypted, and pairs of checks
\* that ask for different levels of security.
PlainPart(k) == [kind |-> k, inner |-> <<>>]
EncryptedPart(s) == [kind |-> "encr", inner |-> s]
MCParts ==
    {PlainPart(k) : k \in {"name", "values", "severity", "message", "sign", "other", "broken"}}
      \cup {EncryptedPart(<<"name", "values">>), EncryptedPart(<<"values", "broken">>)}
Receiver(l, u) ==
    [security_level |-> l, user |-> u, support_notifications |-> l # "sign"]
MCReceivers ==
    {<<Receiver("none", TRUE), Receiver("none", FALSE)>>,
     <<Receiver("sign", TRUE), Receiver("none", TRUE)>>,
     <<Receiver("encrypt", TRUE), Receiver("sign", TRUE)>>}

\* StatsdSocket: a check of one sender, one of any sender, and the primary one.
MCTarget ==
    [c \in StatsdCheck |-> CASE c = "any" -> "0.0.0.0" [] c = "own" -> "h" [] OTHER -> "j"]

\* StatsdText: payloads from nothing, and from one or two whole lines.
MCPayloadOpenings ==
    {<<>>} \cup {TextOf(w) : w \in WrittenLines}
           \cup {TextOf(w) \o TextOf(w) : w \in WrittenLines}

\* PrometheusUpload: a counter with a unit, and buckets with and without one.
MCSeriesNames == {<<"a", "bytes", "total">>, <<"a", "bytes", "bucket">>, <<"a", "x", "bucket">>}

\* OtlpUpload: explicit buckets, and exponential ones with and without a
\* positive range.
MCBuckets == {[bounds |-> <<3>>, counts |-> <<1, 2>>], [bounds |-> <<1, 2>>, counts |-> <<1, 2, 3>>]}
MCExponentials ==
    {[zero |-> 2, positive |-> e, negative |-> <<[offset |-> 0, counts |-> <<1, 2>>]>>] :
        e \in {<<>>, <<[offset |-> 1, counts |-> <<1, 2>>]>>}}

-----------------------------------------------------------------------------
Parts == {"registry", "httptrap", "dns", "ping", "ntp", "dhcp",
          "snmp", "trap", "external", "listener", "ganglia", "lua",
          "http", "dialog", "redis", "collectd", "packets", "statsd",
          "statsdtext", "upload", "otlp"}

\* A component that does not move stays in one of its initial states.
Init ==
    /\ part \in Parts
    /\ RegistryInit
    /\ \/ part = "httptrap"
       \/ immediate = FALSE
    /\ HttptrapInit
    /\ DnsInit
    /\ PingInit
    /\ NtpInit
    /\ DhcpInit
    /\ SnmpInit
    /\ TrapInit
    /\ ExternalInit
    /\ \/ part = "listener"
       \/ (framing = "line") /\ (tracking = FALSE)
    /\ ListenerInit
    /\ GangliaInit
    /\ LuaInit
    /\ \/ part = "http"
       \/ hconf = CHOOSE c \in HttpConfs : TRUE
    /\ HttpInit
    /\ \/ part = "dialog"
       \/ dconf = CHOOSE c \in DialogConfs : TRUE
    /\ DialogInit
    /\ \/ part = "redis"
       \/ rconf = CHOOSE c \in RedisConfs : TRUE
    /\ RedisInit
    /\ \/ part = "collectd"
       \/ (cd = FreshPayload(TRUE)) /\ (asynch = FALSE)
    /\ CollectdInit
    /\ \/ part = "packets"
       \/ receivers = CHOOSE r \in Receivers : TRUE
    /\ PacketsInit
    /\ \/ part = "statsd"
       \/ use_recvmmsg = FALSE
    /\ StatsdInit
    /\ \/ part = "statsdtext"
       \/ payload = <<>>
    /\ StatsdTextInit
    /\ \/ part = "upload"
       \/ options = [extract_units |-> FALSE, coerce_histograms |-> FALSE]
    /\ UploadInit
    /\ OtlpInit

Stays(name, state) == IF part = name THEN TRUE ELSE UNCHANGED state

Next ==
    /\ UNCHANGED part
    /\ \/ part = "registry" /\ RegistryNext
       \/ part = "httptrap" /\ HttptrapNext
       \/ part = "dns" /\ DnsNext
       \/ part = "ping" /\ PingNext
       \/ part = "ntp" /\ NtpNext
       \/ part = "dhcp" /\ DhcpNext
       \/ part = "snmp" /\ SnmpNext
       \/ part = "trap" /\ TrapNext
       \/ part = "external" /\ ExternalNext
       \/ part = "listener" /\ ListenerNext
       \/ part = "ganglia" /\ GangliaNext
       \/ part = "lua" /\ LuaNext
       \/ part = "http" /\ HttpNext
       \/ part = "dialog" /\ DialogNext
       \/ part = "redis" /\ RedisNext
       \/ part = "collectd" /\ CollectdNext
       \/ part = "packets" /\ PacketsNext
       \/ part = "statsd" /\ StatsdNext
       \/ part = "statsdtext" /\ StatsdTextNext
       \/ part = "upload" /\ UploadNext
       \/ part = "otlp" /\ OtlpNext
    /\ Stays("registry", registryVars)
    /\ Stays("httptrap", httptrapVars)
    /\ Stays("dns", dnsVars)
    /\ Stays("ping", pingVars)
    /\ Stays("ntp", ntpVars)
    /\ Stays("dhcp", dhcpVars)
    /\ Stays("snmp", snmpVars)
    /\ Stays("trap", trapVars)
    /\ Stays("external", externalVars)
    /\ Stays("listener", listenerVars)
    /\ Stays("ganglia", gangliaVars)
    /\ Stays("lua", luaVars)
    /\ Stays("http", httpVars)
    /\ Stays("dialog", dialogVars)
    /\ Stays("redis", redisVars)
    /\ Stays("collectd", cdVars)
    /\ Stays("packets", packetVars)
    /\ Stays("statsd", statsdVars)
    /\ Stays("statsdtext", payload)
    /\ Stays("upload", uploadVars)
    /\ Stays("otlp", otlpVars)

allVars == <<part, registryVars, httptrapVars, dnsVars, pingVars, ntpVars,
             dhcpVars, snmpVars, trapVars, externalVars, listenerVars,
             gangliaVars, luaVars, httpVars, dialogVars, redisVars,
             cdVars, packetVars, statsdVars, payload, uploadVars,
             otlpVars>>
Spec == Init /\ [][Next]_allVars

-----------------------------------------------------------------------------
(* A run is reported once and only with what belongs to it, whichever of   *)
(* its answer, its timeout, a refusal and the next run comes first:        *)
(* lookups (dns.c), commands (external.c), coroutines (lua_check.c), pings *)
(* (ping_icmp.c), requests (snmp.c), rows of a listener                    *)
(* (noit_socket_listener.c), accumulated values (httptrap.c) and pushed    *)
(* metrics (collectd.c).                                                   *)
RunsReportedOnce ==
    /\ RunsLoggedOnce
    /\ ReportedOnce
    /\ LuaLoggedOnce
    /\ PingsLogged
    /\ GetsEndedOnce
    /\ RowsLoggedOnce
    /\ AccruedLoggedOnce
    /\ QuietReported

(* An answer counts for the run that asked and for nothing else, however   *)
(* late, often or out of order it comes: echo replies, commands, NTP and   *)
(* DHCP packets, SNMP responses, and the replies, redirects and cookies of *)
(* protocol dialogs.                                                       *)
AnswersBelong ==
    /\ RepliesOwn
    /\ ReportsOwn
    /\ AnswersOwn
    /\ LeaseRepliesOwn
    /\ AnswersAskedFor
    /\ RepliesMatched
    /\ GoodMeansServed
    /\ MetricsAuthorised
    /\ LocationsFollowed
    /\ CookiesReturned

(* What a callback will use is still held when it comes, and given back    *)
(* once: the check of a ping, the sessions of SNMP, the contexts of DNS,   *)
(* the coroutine of an event and the checks a datagram was handed to.      *)
HeldWhileUsed ==
    /\ PingedHeld
    /\ SessionsCounted
    /\ ContextsCounted
    /\ EventsHaveInfo
    /\ LookupsReleased

(* What arrives is recorded as it was sent, whatever way it is split,      *)
(* nested or mixed with other input: JSON documents (httptrap.c,           *)
(* collectd.c), samples and histograms (prometheus.c, otlp.cpp), lines and *)
(* datagrams (noit_socket_listener.c, statsd.c), traps (snmp.c), time      *)
(* stamps, DHCP options and redis replies.                                 *)
RecordedAsReceived ==
    /\ RecordedAsSaid
    /\ ObjectsWhole
    /\ SamplesLogged
    /\ HistogramsMean
    /\ PointsLogged
    /\ BinsApart
    /\ RecordsWhole
    /\ DatagramsWhole
    /\ LinesApart
    /\ LinesMeant
    /\ TrapsRecorded
    /\ OffsetBounded
    /\ OptionsRead
    /\ HashRead

(* A step that takes in a packet gives each check what the packet holds    *)
(* for it and nothing of an earlier one (collectd.c, snmp.c), and a host   *)
(* that fell silent is reported (ganglia.c).                               *)
ArrivalsTakeEffect ==
    /\ PacketsWhole
    /\ TrapsReach
    /\ SilenceReported

=============================================================================
