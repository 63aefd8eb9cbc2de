---------------------------- MODULE MCNoitdCore -----------------------------
(***************************************************************************)
(* The parts of noitd behind its checks, side by side on small instances,  *)
(* and stratcond's realtime pages. A behaviour is a behaviour of one of    *)
(* them; the properties say of all of them what each says of itself.       *)
(***************************************************************************)
EXTENDS TLC, FilterForms, Resolver, CheckSchedule, CheckStats,
        CheckConf, CheckRuns, LmdbStore, LiveFeeds

VARIABLE part    \* the component that moves in this behaviour

\* FilterRules: lists with skips, added tags, tag searches and automatic sets.
EitherName == [f \in RuleField |-> {"x", "y", "z"}]
NoTable == [f \in RuleField |-> <<>>]
PlainAccept ==
    [type |-> "accept", skipto_rule |-> 0, tag |-> {}, mtsearch |-> {}, ht |-> NoTable,
     re |-> EitherName, auto_hash_max |-> [f \in RuleField |-> 0], flush_interval |-> 0]
OnlyX(r) == [r EXCEPT !.re["name"] = {"x"}]
Deny == [PlainAccept EXCEPT !.type = "deny"]
AddTags(t) == [PlainAccept EXCEPT !.type = "add", !.tag = t]
SkipTo(n) == [PlainAccept EXCEPT !.type = "skipto", !.skipto_rule = n]
AutoAdd(r, fs) ==
    [r EXCEPT !.ht = [f \in RuleField |-> IF f \in fs THEN <<{}>> ELSE <<>>],
              !.auto_hash_max = [f \in RuleField |-> IF f \in fs THEN 1 ELSE 0],
              !.flush_interval = 1]
MCRuleLists ==
    {<<OnlyX(SkipTo(3)), Deny, AddTags({"t"}), [PlainAccept EXCEPT !.mtsearch = {"t"}]>>,
     <<AddTags({"t"}), OnlyX(AddTags({"u"})), [Deny EXCEPT !.mtsearch = {"u"}],
       OnlyX(SkipTo(0)), [PlainAccept EXCEPT !.ht["metric"] = <<{"x"}>>]>>,
     <<AddTags({}), AddTags({"t"}), OnlyX(PlainAccept)>>,
     <<AutoAdd(PlainAccept, {"name", "metric"})>>,
     <<AutoAdd(SkipTo(3), {"name"}), AutoAdd(Deny, {"metric"}), PlainAccept>>}
MCMeasured ==
    [subjects |-> {[name |-> "x", metric |-> "x"], [name |-> "y", metric |-> "x"],
                   [name |-> "z", metric |-> "y"]},
     tags |-> {{}, {"u", "v"}}]

\* FilterCodec: rules of every type, every way to match a field, and pairs of
\* typed rules.
PlainRule ==
    [type |-> <<"accept">>, id |-> <<>>, period |-> <<>>, tags |-> <<>>,
     auto_add |-> [f \in MatchField |-> <<>>], values |-> [f \in MatchField |-> {}],
     re |-> [f \in MatchField |-> <<>>]]
TypedRules ==
    {[PlainRule EXCEPT !.type = t, !.id = i] :
        t \in {<<"accept">>, <<"allow">>, <<"deny">>, <<"skipto", "a">>, <<"skipto">>,
               <<"add", "">>, <<"add", "c">>, <<"add", "c", "">>, <<"add", "c", "v">>,
               <<"add", "", "v">>, <<"other">>},
        i \in {<<>>, <<"a">>}}
MatchRules ==
    {[PlainRule EXCEPT !.period = p, !.auto_add[f] = a, !.values[f] = v, !.re[f] = e] :
        p \in {<<>>, <<-1>>, <<1500>>}, f \in MatchField, a \in {<<>>, <<-1>>, <<0>>, <<2>>},
        v \in {{}, {"m|ST[b,a]"}}, e \in {<<>>, <<"ok">>, <<"bad">>}}
TaggedRules ==
    {[PlainRule EXCEPT !.tags = t, !.values["metric"] = v] :
        t \in {<<"ok">>, <<"bad">>}, v \in {{}, {"m"}}}
Document(rs, s, p, c) == [rules |-> rs, seq |-> s, period |-> p, cull |-> c]
MCDocuments ==
    {Document(<<r>>, s, p, c) : r \in TypedRules \cup MatchRules \cup TaggedRules,
        s \in {<<>>, <<1>>}, p \in {<<>>, <<-1>>, <<60000>>}, c \in {<<>>, <<FALSE>>}}
      \cup {Document(<<x, y>>, <<1>>, <<>>, <<>>) : x \in TypedRules, y \in TypedRules}
      \cup {Document(<<>>, <<>>, <<>>, <<>>)}

\* ResolverStore: nodes that fit the buffer and one that does not, and an
\* /etc/hosts that names a host in both families.
MCIp4s == {<<"1">>}
MCIp6s == {<<>>, <<"f">>, <<"f", "e", "d">>}
HostsLine(n, fam, addr) == [names |-> n, family |-> fam, address |-> addr]
MCHostsFiles ==
    {<<>>, <<HostsLine({"a"}, 4, "9")>>, <<HostsLine({"a", "b"}, 6, "8"), HostsLine({"a"}, 4, "7")>>}

\* CheckSchedule: two checks that change between two timings, one of them that
\* transient, and a priority check.
Timing(p, t) == [period |-> p, timeout |-> t]
MCSetups ==
    {[timing |-> {Timing(8, 2), Timing(16, 2)}, priority |-> FALSE, transient |-> {}],
     [timing |-> {Timing(5, 2), Timing(0, 0)}, priority |-> FALSE, transient |-> {"c2"}],
     [timing |-> {Timing(8, 3)}, priority |-> TRUE, transient |-> {}]}

\* CausalMap: two checks of one target and one of another, and every way to name
\* the check that causes one.
MCCausalName ==
    [c \in CausalId |-> [target |-> IF c = "c3" THEN "u" ELSE "t", name |-> IF c = "c2" THEN "n" ELSE "m"]]
MCOnChecks == {<<>>, <<"id", "c1">>, <<"full", "t", "n">>, <<"name", "m">>}

\* CheckConf: the sequence number a client gives, if any.
MCAskSeqs == {<<>>, <<0>>, <<2>>}

\* CheckForms: documents with every attribute present or absent, periods and
\* timeouts at and beyond the limits, and options in each namespace.
Optional(S) == {<<>>} \cup {<<s>> : s \in S}
ConfigEntry(k, n, a) == [ns |-> k, name |-> n, attr |-> a]
ConfigOf(fs) ==
    IF fs # <<>>
    THEN {ConfigEntry("", "code", <<>>), ConfigEntry("", "value", <<"a b">>),
          ConfigEntry("ip_acl", "value", <<"x">>)}
    ELSE {ConfigEntry("", "code", <<>>), ConfigEntry("lua", "value", <<"x">>)}
CheckDoc(t, n, fs, rt, p, to, on, di, de) ==
    [a \in Attr \cup {"config"} |->
       CASE a = "config" -> ConfigOf(fs) [] a = "target" -> t [] a = "module" -> <<"m">>
         [] a = "name" -> n [] a = "filterset" -> fs [] a = "resolve_rtype" -> rt
         [] a = "period" -> p [] a = "timeout" -> to [] a = "oncheck" -> on
         [] a = "disable" -> di [] OTHER -> de]
MCCheckDocs ==
    {CheckDoc(t, n, fs, <<>>, p, to, on, di, de) :
        t \in Optional({"t"}), n \in Optional({"n"}), fs \in Optional({"f"}),
        p \in Optional({0, 1, 4, 9}), to \in Optional({-1, 2, 5}), on \in Optional({"o"}),
        di \in Optional({TRUE}), de \in Optional({"deleted"})}
MCPutDocs ==
    {CheckDoc(t, <<"n">>, fs, rt, p, to, <<>>, di, <<>>) :
        t \in Optional({"u"}), fs \in Optional({"g"}), rt \in Optional({"force-ipv6"}),
        p \in {<<5>>, <<9>>}, to \in {<<2>>, <<5>>}, di \in Optional({TRUE, FALSE})}
ChecksStanza(fs, p, to, mn, mx) ==
    [filterset |-> fs, period |-> p, timeout |-> to, disable |-> <<>>,
     minimum_period |-> mn, maximum_period |-> mx]
MCStanzas ==
    {ChecksStanza(<<>>, <<>>, <<>>, 2, 6), ChecksStanza(<<"h">>, <<>>, <<3>>, 3, 5),
     ChecksStanza(<<"h">>, <<4>>, <<>>, 3, 6)}

\* LmdbStore: keys whose parts, put side by side, read the same.
LmdbRow(t, n, k) == [type |-> t, ns |-> n, name |-> k]
MCRowSets ==
    {{LmdbRow("C", <<"p">>, <<"q">>), LmdbRow("C", <<>>, <<"p", "q">>)},
     {LmdbRow("A", <<>>, <<"p">>), LmdbRow("C", <<>>, <<"q">>)}, {LmdbRow("A", <<>>, <<"p">>)}}
MCCheckOf == [w \in Writer |-> IF w = "w1" THEN "c1" ELSE IF w = "w2" THEN "c2" ELSE "c3"]
MCTexts == {<<"p">>, <<"q">>, <<"p", "q">>}

\* DirectorDedupe: the same line with and without a time of arrival, and a
\* bundle with an old line.
DirectorLine(t, n) == [at |-> t, name |-> n]
MCIncoming ==
    {[sec |-> 5, lines |-> <<DirectorLine(5, "x")>>], [sec |-> 5, lines |-> <<DirectorLine(5, "y")>>],
     [sec |-> 0, lines |-> <<DirectorLine(5, "x")>>],
     [sec |-> 6, lines |-> <<DirectorLine(6, "x"), DirectorLine(3, "y")>>]}

\* LiveFeeds: requests for a check, for one metric of it, and for one not there.
MCLiveLines == {<<"m", "n">>, <<"n">>}
MCLiveRequests == {[check |-> c, metrics |-> m] : c \in {"c", "d", "gone"}, m \in {<<>>, <<{"m"}>>}}

-----------------------------------------------------------------------------
Parts == {"rules", "codec", "conf", "resolver", "store", "schedule",
          "causal", "stats", "histo", "checkconf", "forms", "asynch",
          "test", "lmdb", "dedupe", "live", "page"}

\* A component that does not move stays in one of its initial states.
Init ==
    /\ part \in Parts
    /\ RulesInit
    /\ CodecInit
    /\ ConfInit
    /\ ResolverInit
    /\ \/ part = "store"
       \/ hosts = CHOOSE h \in [lines : HostsFiles, mtime : {0}] : TRUE
    /\ StoreInit
    /\ \/ part = "schedule"
       \/ setup = CHOOSE s \in Setups : TRUE
    /\ ScheduleInit
    /\ CausalInit
    /\ \/ part = "stats"
       \/ perpetual = FALSE
    /\ StatsInit
    /\ \/ part = "histo"
       \/ cumulativeMetric = FALSE
    /\ HistoInit
    /\ CheckConfInit
    /\ \/ part = "forms"
       \/ (stanza = CHOOSE x \in Stanzas : TRUE) /\ (doc = <<>>)
    /\ FormsInit
    /\ AsynchInit
    /\ TestInit
    /\ LmdbInit
    /\ DedupeInit
    /\ LiveInit
    /\ PageInit

Stays(name, state) == IF part = name THEN TRUE ELSE UNCHANGED state

Next ==
    /\ UNCHANGED part
    /\ \/ part = "rules" /\ RulesNext
       \/ part = "codec" /\ CodecNext
       \/ part = "conf" /\ ConfNext
       \/ part = "resolver" /\ ResolverNext
       \/ part = "store" /\ StoreNext
       \/ part = "schedule" /\ ScheduleNext
       \/ part = "causal" /\ CausalNext
       \/ part = "stats" /\ StatsNext
       \/ part = "histo" /\ HistoNext
       \/ part = "checkconf" /\ CheckConfNext
       \/ part = "forms" /\ FormsNext
       \/ part = "asynch" /\ AsynchNext
       \/ part = "test" /\ TestNext
       \/ part = "lmdb" /\ LmdbNext
       \/ part = "dedupe" /\ DedupeNext
       \/ part = "live" /\ LiveNext
       \/ part = "page" /\ PageNext
    /\ Stays("rules", rulesVars)
    /\ Stays("codec", codecVars)
    /\ Stays("conf", confVars)
    /\ Stays("resolver", resolverVars)
    /\ Stays("store", storeVars)
    /\ Stays("schedule", scheduleVars)
    /\ Stays("causal", causalVars)
    /\ Stays("stats", statsVars)
    /\ Stays("histo", histoVars)
    /\ Stays("checkconf", checkConfVars)
    /\ Stays("forms", formsVars)
    /\ Stays("asynch", asynchVars)
    /\ Stays("test", testVars)
    /\ Stays("lmdb", lmdbVars)
    /\ Stays("dedupe", dedupeVars)
    /\ Stays("live", liveFeedVars)
    /\ Stays("page", pageVars)

allVars == <<part, rulesVars, codecVars, confVars, resolverVars, storeVars,
             scheduleVars, causalVars, statsVars, histoVars, checkConfVars,
             formsVars, asynchVars, testVars, lmdbVars, dedupeVars,
             liveFeedVars, pageVars>>
Spec == Init /\ [][Next]_allVars

-----------------------------------------------------------------------------
(* What a restart, or a peer, reads back is what was stored: the rules of  *)
(* a filterset from its row and from the text sent to peers                *)
(* (noit_filters_lmdb.c), the attributes of a check from its rows and from *)
(* the node sent to peers (noit_check_lmdb.c), the rows of concurrent      *)
(* writers (noit_lmdb_tools.c) and the names of the resolver cache from a  *)
(* file that a crash may have cut (resolver_cache.c).                      *)
StoredReadBack ==
    /\ RestartKeepsRules
    /\ PeersRunTheSame
    /\ RunsAsWritten
    /\ PeersAgree
    /\ RowsReadBack
    /\ LoadedAsSaved
    /\ DumpsReplace

(* What runs follows what is configured, through REST requests, console    *)
(* commands, peers and recycling: filtersets (noit_filters.c) and the way  *)
(* their rules are walked, checks (noit_check_rest.c), the checks caused   *)
(* by others (noit_check.c) and the names of /etc/hosts                    *)
(* (noit_check_resolver.c).                                                *)
RunsAsConfigured ==
    /\ WalkFollowsList
    /\ RunningIsConfigured
    /\ NewestRuns
    /\ LiveIsConfigured
    /\ MapFollows
    /\ HostsHonoured

(* What is measured or received reaches its readers once: the metrics of a *)
(* run (noit_check.c), the samples of a histogram (histogram.c), messages  *)
(* that may come twice (noit_metric_director.c), the lines of live feeds   *)
(* (noit_livestream_listener.c, noit_websocket_handler.c) and of realtime  *)
(* pages (stratcon_realtime_http.c), and the results of runs in the job    *)
(* queue.                                                                  *)
MeasuredOnce ==
    /\ LoggedOnce
    /\ PerpetualKept
    /\ SamplesLoggedOnce
    /\ CumulativeNewest
    /\ OncePerWindow
    /\ NothingMistaken
    /\ NoLineStranded
    /\ OneSubscription
    /\ FramesAsAsked
    /\ PageEndsWithLast
    /\ LinesReachPage
    /\ RunsToldTrue

(* The counters, indexes and references behind the checks agree with what  *)
(* they stand for, whoever else is at work: slots of the schedule          *)
(* (noit_check.c), nodes and index of the resolver                         *)
(* (noit_check_resolver.c), automatic sets of a rule (noit_filters.c), the *)
(* map's size (noit_lmdb_tools.c), the sweeper of tested checks            *)
(* (check_test.c) and the closures of jobs.                                *)
BookkeepingExact ==
    /\ SlotsConserved
    /\ SlotsExact
    /\ PriorityChecksEndInMinute
    /\ AnswersHaveNode
    /\ IndexSorted
    /\ FailuresWait
    /\ AutoAddBounded
    /\ GrowsOnce
    /\ SweeperComes
    /\ TestAnswered
    /\ ClosuresLive

(* No step goes against the order of what came before it: a rule is not    *)
(* flushed sooner than its interval (noit_filters.c), a check fires on its *)
(* grid and a completed check fires those it causes, the newest value of a *)
(* metric is the one logged (noit_check.c), a reload takes what the file   *)
(* says (noit_conf_checks.c), and a check that is shown and sent back      *)
(* stays as it was (noit_check_lmdb.c).                                    *)
StepsKeepOrder ==
    /\ FlushesSpaced
    /\ FiringsOnGrid
    /\ CausesFire
    /\ NewestLogged
    /\ ReloadFollowsFile
    /\ ShownPutsBack

=============================================================================
