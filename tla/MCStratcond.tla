---------------------------- MODULE MCStratcond -----------------------------
(***************************************************************************)
(* The parts of stratcond, and the text forms noitd and stratcond share,   *)
(* side by side on small instances. A behaviour is a behaviour of one of   *)
(* them; the properties say of all of them what each says of itself.       *)
(***************************************************************************)
EXTENDS TLC, PgIngest, QueueDrivers, AmqpFraming, StreamerNoits,
        MetricValues, TagSearch

VARIABLE part    \* the component that moves in this behaviour

\* PgIngest: two journals, with a line the database rejects and one that is
\* malformed.
Good(c) == [check |-> c, fate |-> "stored"]
MCContent ==
    [j \in Journal |->
       IF j = "f"
       THEN <<<<Good("x"), Good("y")>>, <<[check |-> "x", fate |-> "rejected"]>>, <<Good("x")>>>>
       ELSE <<<<Good("x")>>, <<[check |-> "x", fate |-> "malformed"]>>, <<Good("x")>>>>]

\* StratconIep: a chain, a cycle with a statement that needs it, a diamond, and
\* a chain whose end is switched off.
MCGraphs ==
    {[requires |-> [a |-> <<>>, b |-> <<"a">>], off |-> {}],
     [requires |-> [a |-> <<"b">>, b |-> <<"a">>, c |-> <<"a">>], off |-> {}],
     [requires |-> [a |-> <<"b", "c">>, b |-> <<"d">>, c |-> <<"d">>, d |-> <<>>], off |-> {}],
     [requires |-> [a |-> <<>>, b |-> <<"a">>], off |-> {"b"}]}

\* StompFrames: payloads that look like a frame's end or headers.
MCPayloads == {<<>>, <<"m">>, <<"\n">>, <<"m", "\n", "\n">>, <<"k", ":", "v", "\n", "\n", "m">>}
Header(k, v) == [key |-> k, value |-> v]
MCConfigs ==
    {<<Header("destination", <<"q">>), Header("ack", <<"auto">>)>>,
     <<Header("destination", <<"q", ":", "r">>), Header("exchange", <<"e">>), Header("ack", <<"auto">>)>>,
     <<Header("exchange", <<>>), Header("ack", <<"auto">>), Header("destination", <<"q">>)>>}

\* AmqpFraming: no property, all of them, one, and all but one.
MCFlagSets == {{}, 2..15} \cup {{i} : i \in 2..15} \cup {2..15 \ {i} : i \in 2..15}

\* StreamerNoits: stratcond starts with no noit, or with one.
MCNoitConfs == {{}, {[address |-> "1", cn |-> "a"]}}

\* MetricNames: names from nothing, and from the start of a tag block.
MCEncoded == {<<"a">>, <<" ">>, <<>>}
MCOpenings == {<<>>, <<Chr("a"), Chr(ST)>>}

\* TagSearch: queries from nothing, and from the start of a conjunction and of a
\* disjunction.
MCQueryOpenings == {<<>>, <<"and(">>, <<"or(", "a", ",">>}

\* LogLines: metrics of every type, with values that are special in some format.
LoggedMetric(n, t, v, w, s) == [name |-> n, type |-> t, value |-> v, whence |-> w, skip |-> s]
MCLogged ==
    {LoggedMetric("a", "i", "1", 0, FALSE), LoggedMetric("b", "n", "tiny", 3, FALSE),
     LoggedMetric("c", "s", "[[null]]", 7, FALSE), LoggedMetric("d", "i", "null", 2, FALSE),
     LoggedMetric("e", "h", "1", 0, FALSE), LoggedMetric("f", "s", "x", 1, TRUE),
     LoggedMetric("g", "s", "null", 0, FALSE)}

\* MetricRollup: times before and after the last value's.
MCRollupTimes == {-1, 0, 1, 2}

-----------------------------------------------------------------------------
Parts == {"pg", "iep", "fq", "rabbit", "stomp", "framing",
          "amqp", "noits", "names", "search", "pattern", "log",
          "guess", "rollup"}

\* A component that does not move stays in one of its initial states.
Init ==
    /\ part \in Parts
    /\ PgInit
    /\ \/ part = "iep"
       \/ (graph = CHOOSE x \in Graphs : TRUE) /\ (order = CHOOSE o \in [1..Cardinality(Statements) -> Statements] : IsInjective(o))
    /\ IepInit
    /\ \/ part = "fq"
       \/ round_robin = FALSE
    /\ FqInit
    /\ RabbitInit
    /\ \/ part = "stomp"
       \/ stomp_config = CHOOSE c \in Configs : TRUE
    /\ StompInit
    /\ \/ part = "framing"
       \/ writing = CHOOSE w \in Writings : TRUE
    /\ FramingInit
    /\ AmqpInit
    /\ \/ part = "noits"
       \/ noitconf = {}
    /\ NoitsInit
    /\ \/ part = "names"
       \/ written = <<>>
    /\ NamesInit
    /\ \/ part = "search"
       \/ query = <<>>
    /\ SearchInit
    /\ PatternInit
    /\ \/ part = "log"
       \/ whence = 0
    /\ LogInit
    /\ GuessInit
    /\ RollupInit

Stays(name, state) == IF part = name THEN TRUE ELSE UNCHANGED state

Next ==
    /\ UNCHANGED part
    /\ \/ part = "pg" /\ PgNext
       \/ part = "iep" /\ IepNext
       \/ part = "fq" /\ FqNext
       \/ part = "rabbit" /\ RabbitNext
       \/ part = "stomp" /\ StompNext
       \/ part = "framing" /\ FramingNext
       \/ part = "amqp" /\ AmqpNext
       \/ part = "noits" /\ NoitsNext
       \/ part = "names" /\ NamesNext
       \/ part = "search" /\ SearchNext
       \/ part = "pattern" /\ PatternNext
       \/ part = "log" /\ LogNext
       \/ part = "guess" /\ GuessNext
       \/ part = "rollup" /\ RollupNext
    /\ Stays("pg", pgVars)
    /\ Stays("iep", iepVars)
    /\ Stays("fq", fqVars)
    /\ Stays("rabbit", rabbitVars)
    /\ Stays("stomp", stompVars)
    /\ Stays("framing", framingVars)
    /\ Stays("amqp", amqpVars)
    /\ Stays("noits", noitsVars)
    /\ Stays("names", nameVars)
    /\ Stays("search", queryVars)
    /\ Stays("pattern", pattern)
    /\ Stays("log", logVars)
    /\ Stays("guess", text)
    /\ Stays("rollup", rollupVars)

allVars == <<part, pgVars, iepVars, fqVars, rabbitVars, stompVars,
             framingVars, amqpVars, noitsVars, nameVars, queryVars,
             pattern, logVars, text, rollupVars>>
Spec == Init /\ [][Next]_allVars

-----------------------------------------------------------------------------
(* Every row of a journal is stored once or set aside as bad, through      *)
(* failed statements and lost connections, and connections are counted     *)
(* where they are (postgres_ingestor.c).                                   *)
RowsReachDatabase ==
    /\ RowsKept
    /\ RowsStoredOnce
    /\ PoolsCounted

(* The event processor is given every statement after those it requires    *)
(* and none of a cycle, and there is one of it (stratcon_iep.c); what was  *)
(* asked for is published on connections that live, in frames the broker   *)
(* reads as they were meant (fq_driver.c, rabbitmq_driver.c,               *)
(* stomp_driver.c), and no frame of the broker is lost, torn or read from  *)
(* memory used again (amqp_connection.c, amqp_socket.c).                   *)
EventsReachListeners ==
    /\ CyclesRefused
    /\ ConfigurationFollows
    /\ OneProcessor
    /\ HostsTakeTurns
    /\ AskedForForwarded
    /\ SocketsClosed
    /\ PublishedAlive
    /\ FramesReadBack
    /\ FramesAccounted
    /\ FramesHeld
    /\ PublicationsWhole

(* stratcond's connections, services and listings are those of the noits   *)
(* it is configured for, while noits are added, removed and renamed        *)
(* (stratcon_jlog_streamer.c).                                             *)
NoitsFollowConfiguration ==
    /\ ConnectionsConfigured
    /\ ServicesMatch
    /\ NoitsRefreshed
    /\ ListingComplete

(* A text means the same to whoever writes, rewrites or reads it:          *)
(* canonical metric names (noit_metric.c), searches for tags and their     *)
(* patterns (noit_metric_tag_search.c), log lines in both forms            *)
(* (noit_check_log.c), guessed types and rolled up values                  *)
(* (noit_metric_rollup.c), and the structures of AMQP (amqp_framing.c).    *)
TextsMeanTheSame ==
    /\ CanonicalFixed
    /\ CanonicalDecodes
    /\ DecodersAgree
    /\ SearchSurvivesText
    /\ MoreTagsFindMore
    /\ GraphiteMeans
    /\ PrefixBounds
    /\ MetricsReadBack
    /\ LinesTimed
    /\ GuessFollowsForms
    /\ RollupExact
    /\ StructuresReadBack
    /\ ArgumentsArrive

=============================================================================
