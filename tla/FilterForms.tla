---------------------------- MODULE FilterForms ----------------------------
(***************************************************************************)
(* Filtersets in their forms and at work: XML, wire and memory (first      *)
(* part), the configuration file (second part), and the walk through the   *)
(* rules (third part).                                                     *)
(***************************************************************************)
EXTENDS Integers, Sequences, SequencesExt, FiniteSets

(***************************************************************************)
(* The forms a filterset takes: the XML document a client or a peer sends, *)
(* the flatbuffer kept as a row of the LMDB database, and the rules that   *)
(* are run.  A document is compiled directly (noit_filter_compile_add) and *)
(* stored (noit_filters_lmdb_convert_one_xml_filterset_to_lmdb); a restart *)
(* runs what the row says; a peer runs the XML made from the row.          *)
(*                                                                         *)
(* An attribute that may be missing is a sequence of at most one value.  A *)
(* rule's type is the list of its parts between colons.  Of the four       *)
(* matched fields, target, module and name are treated alike and "name"    *)
(* stands for them; so does stream_tags for the two kinds of tag search.   *)
(* The period of a set that is stored negative reads as 0 everywhere.      *)
(***************************************************************************)

CONSTANTS
    GlobalPeriod,    \* filter_flush_period of /noit/filtersets, in ms
    Documents        \* the documents sent

VARIABLES
    sent,      \* the document last stored, and how: "set" or "migrated"
    row,       \* its flatbuffer, or NoRow
    running,   \* the compiled rules
    peer       \* the rules compiled by a peer from what the row is shown as

codecVars == <<sent, row, running, peer>>

NoRow == <<>>
DefaultPeriod == 300000        \* DEFAULT_FILTER_FLUSH_PERIOD_MS
MatchField == {"name", "metric"}

Or(optional, default) == IF optional = <<>> THEN default ELSE optional[1]
NonNeg(n) == IF n < 0 THEN 0 ELSE n

-----------------------------------------------------------------------------
(* From XML to rules: noit_filter_compile_add *)

\* The types every path tests for; add_measurement_tag is "add" here.
KnownType(t) ==
    \/ t \in {<<"accept">>, <<"allow">>, <<"deny">>}
    \/ Len(t) >= 2 /\ t[1] \in {"skipto", "add"}

\* A category is needed before the colon, none after it.
ParseType(t) ==
    [type |-> IF t[1] \in {"accept", "allow"} THEN "accept" ELSE t[1],
     skipto |-> IF t[1] = "skipto" THEN <<t[2]>> ELSE <<>>,
     cat |-> IF t[1] = "add" /\ (Len(t) = 2 \/ t[2] # "") THEN <<t[2]>> ELSE <<>>,
     val |-> IF t[1] = "add" /\ Len(t) = 3 /\ t[2] # "" THEN <<t[3]>> ELSE <<>>]

\* flush_interval: the remainder of a period in ms is taken for microseconds.
Interval(ms) == [tv_sec |-> ms \div 1000, tv_usec |-> ms % 1000]

\* noit_metric_canonicalize sorts the tags of a metric name.
Canonical(f, values) ==
    IF f = "metric" THEN {IF v = "m|ST[b,a]" THEN "m|ST[a,b]" ELSE v : v \in values}
    ELSE values

HT_COMPILE(rule, f) ==
    LET auto_max == Or(rule.auto_add[f], 0) IN
    IF rule.values[f] # {} \/ auto_max > 0
    THEN <<[max |-> auto_max, values |-> Canonical(f, rule.values[f])]>> ELSE <<>>

\* Expressions count only for fields without a table, tags only without a
\* table of metrics.
Compiled(parsed, id, ms, ht, re, tags) ==
    parsed @@ [ruleid |-> id, flush_interval |-> Interval(ms), ht |-> ht,
               re |-> [f \in MatchField |-> IF ht[f] = <<>> THEN re[f] ELSE <<>>],
               tags |-> IF ht["metric"] = <<>> THEN tags ELSE <<>>]

\* skipto_rule: the first later rule with that id.
Resolve(rules) == [i \in DOMAIN rules |-> rules[i] @@
    [skipto_rule |->
       LET later == {j \in i + 1 .. Len(rules) :
                       rules[i].skipto # <<>> /\ rules[j].ruleid = rules[i].skipto}
       IN  IF later = {} THEN 0 ELSE CHOOSE j \in later : \A k \in later : j <= k]]

\* A rule of unknown type is left out; the nearest period at or above it
\* counts, down from the whole configuration's if the document is part of it.
Compile(doc, default) ==
    LET known == SelectSeq(doc.rules, LAMBDA r : KnownType(r.type))
    IN  [seq |-> Or(doc.seq, 0), rules |-> Resolve([i \in DOMAIN known |->
            Compiled(ParseType(known[i].type), known[i].id,
                     NonNeg(Or(known[i].period \o doc.period, default)),
                     [f \in MatchField |-> HT_COMPILE(known[i], f)],
                     known[i].re, known[i].tags)])]

-----------------------------------------------------------------------------
(* From XML to the flatbuffer *)

\* noit_filters_lmdb_one_xml_rule_to_memory: negative numbers are not kept.
OneXmlRuleToMemory(r) ==
    LET kept(o) == IF o # <<>> /\ o[1] < 0 THEN <<>> ELSE o IN
    ParseType(r.type) @@
    [id |-> r.id, period |-> kept(r.period), tags |-> r.tags, values |-> r.values, re |-> r.re,
     auto_add |-> [f \in MatchField |-> kept(r.auto_add[f])]]

\* noit_filters_lmdb_add_filterset_rule_info: a table, or else an expression.
AddRuleInfo(r) == [f \in MatchField |->
    IF r.values[f] # {} \/ Or(r.auto_add[f], 0) > 0
    THEN [data |-> "hash", auto_add_max |-> Or(r.auto_add[f], 0), values |-> r.values[f],
          regex |-> <<>>]
    ELSE [data |-> IF r.re[f] = <<>> THEN "none" ELSE "attribute", auto_add_max |-> 0,
          values |-> {}, regex |-> r.re[f]]]

\* noit_filters_lmdb_write_flatbuffer_to_db; a rule that is not known is NULL.
WriteFlatbuffer(doc) ==
    LET known == SelectSeq(doc.rules, LAMBDA r : KnownType(r.type))
        mem == [i \in DOMAIN known |-> OneXmlRuleToMemory(known[i])]
    IN  [seq |-> Or(doc.seq, 0), cull |-> Or(doc.cull, TRUE), period |-> doc.period,
         rules |-> [i \in DOMAIN mem |->
            [id |-> mem[i].id, period |-> mem[i].period, type |-> mem[i].type,
             skipto |-> mem[i].skipto, cat |-> mem[i].cat, val |-> mem[i].val,
             info |-> AddRuleInfo(mem[i]), tags |-> mem[i].tags]]]

-----------------------------------------------------------------------------
(* From the flatbuffer to rules and to XML *)

LMDB_HT_COMPILE(info, f) ==
    IF info.data = "hash" /\ (info.auto_add_max > 0 \/ info.values # {})
    THEN <<[max |-> info.auto_add_max, values |-> Canonical(f, info.values)]>> ELSE <<>>

\* noit_filters_lmdb_load_one_from_db_locked.
LoadOneFromDb(fb) ==
    LET default == NonNeg(Or(fb.period, GlobalPeriod)) IN
    [seq |-> fb.seq, rules |-> Resolve([i \in DOMAIN fb.rules |->
        LET r == fb.rules[i] IN
        Compiled([type |-> r.type, skipto |-> r.skipto, cat |-> r.cat, val |-> r.val], r.id,
                 NonNeg(Or(r.period, default)),
                 [f \in MatchField |-> LMDB_HT_COMPILE(r.info[f], f)],
                 [f \in MatchField |-> r.info[f].regex], r.tags)])]

\* The rules of noit_filters_lmdb_populate_filterset_xml_from_lmdb; what has
\* no value is shown as a type without a colon.
ShownRule(r) ==
    [type |-> CASE r.type = "skipto" -> <<"skipto">> \o r.skipto
                [] r.type = "add" -> IF r.cat = <<>> THEN <<"add">>
                                     ELSE <<"add", r.cat[1], Or(r.val, "")>>
                [] OTHER -> <<r.type>>,
     id |-> r.id, period |-> r.period, tags |-> r.tags,
     auto_add |-> [f \in MatchField |->
                     IF r.info[f].auto_add_max > 0 THEN <<r.info[f].auto_add_max>> ELSE <<>>],
     values |-> [f \in MatchField |-> r.info[f].values],
     re |-> [f \in MatchField |-> r.info[f].regex]]

PopulateXml(fb) ==
    [seq |-> IF fb.seq > 0 THEN <<fb.seq>> ELSE <<>>, cull |-> <<fb.cull>>,
     period |-> fb.period, rules |-> [i \in DOMAIN fb.rules |-> ShownRule(fb.rules[i])]]

-----------------------------------------------------------------------------
\* noit_filter_validate_filter: some rule, and every type known.
ValidateFilter(doc) == doc.rules # <<>> /\ \A i \in DOMAIN doc.rules : KnownType(doc.rules[i].type)

\* A document is set over REST: stored, then compiled.
CodecSet(doc) ==
    /\ row = NoRow /\ ValidateFilter(doc)
    /\ sent' = [doc |-> doc, how |-> "set"]
    /\ row' = <<WriteFlatbuffer(doc)>>
    /\ running' = <<Compile(doc, DefaultPeriod)>>
    /\ UNCHANGED peer

\* noit_filters_lmdb_migrate_xml_filtersets_to_lmdb, and then the first load.
CodecMigrate(doc) ==
    /\ row = NoRow
    /\ sent' = [doc |-> doc, how |-> "migrated"]
    /\ row' = <<WriteFlatbuffer(doc)>>
    /\ running' = <<LoadOneFromDb(WriteFlatbuffer(doc))>>
    /\ UNCHANGED peer

CodecRestart ==
    /\ row # NoRow
    /\ running' = <<LoadOneFromDb(row[1])>>
    /\ UNCHANGED <<sent, row, peer>>

\* A peer fetches the filterset and compiles it.
CodecReplicate ==
    /\ row # NoRow
    /\ peer' = <<Compile(PopulateXml(row[1]), DefaultPeriod)>>
    /\ UNCHANGED <<sent, row, running>>

CodecInit == sent = NoRow /\ row = NoRow /\ running = NoRow /\ peer = NoRow

CodecNext ==
    \/ row = NoRow /\ \E doc \in Documents : CodecSet(doc) \/ CodecMigrate(doc)
    \/ CodecRestart \/ CodecReplicate

-----------------------------------------------------------------------------
(* Properties *)

\* The rules that do not survive the way through the database unchanged.
NegativeNumber(r) ==
    (r.period # <<>> /\ r.period[1] < 0)
      \/ \E f \in MatchField : r.values[f] # {} /\ Or(r.auto_add[f], 0) < 0
NoCategory(r) == r.type[1] = "add" /\ r.type[2] = ""

\* A missing value of a tag to add is used as the empty string.
SameRules(a, b) ==
    LET plain(s) == [s EXCEPT !.rules = [i \in DOMAIN s.rules |->
                        [s.rules[i] EXCEPT !.val = IF @ = <<"">> THEN <<>> ELSE @]]]
    IN  plain(a) = plain(b)

\* Restarting noitd, or moving its filtersets from the configuration to LMDB,
\* does not change what runs: loading the row gives the rules that compiling
\* the document gives.  The exceptions are complete: a negative period of a
\* rule, a negative auto_add beside values, and the configured default period,
\* which a document sent over REST does not see until noitd restarts.
RestartKeepsRules ==
    LET default == IF sent.how = "set" THEN DefaultPeriod ELSE GlobalPeriod IN
    running # NoRow /\ (\A i \in DOMAIN sent.doc.rules : LET r == sent.doc.rules[i] IN
                          /\ ~NegativeNumber(r)
                          /\ r.period \o sent.doc.period # <<>> \/ default = GlobalPeriod)
        => running[1] = Compile(sent.doc, default)

\* A peer that fetches the set from the row runs what this noitd runs after a
\* restart.  The exceptions are complete: a tag to add without a category,
\* which is shown in a form that no noitd reads back, and the default period.
PeersRunTheSame ==
    peer # NoRow /\ (\A i \in DOMAIN row[1].rules :
                        row[1].rules[i].period \o row[1].period # <<>>
                          \/ GlobalPeriod = DefaultPeriod)
                 /\ (\A i \in DOMAIN sent.doc.rules :
                        KnownType(sent.doc.rules[i].type) => ~NoCategory(sent.doc.rules[i]))
        => SameRules(peer[1], LoadOneFromDb(row[1]))

-----------------------------------------------------------------------------
(***************************************************************************)
(* Filtersets kept in noitd's XML configuration: the nodes under           *)
(* /noit/filtersets, the table of compiled sets, and the file on disk.     *)
(* REST requests, the console, replication and the cull change the nodes   *)
(* and the table in different orders.  (FilterSets models the LMDB mode.)  *)
(*                                                                         *)
(* A node is [name, path, seq, rules, cull]; seq 0 stands for a missing    *)
(* one, and rules is a model value, 0 for none.  Handlers hold the         *)
(* configuration's write lock throughout, so each is one step.             *)
(***************************************************************************)

CONSTANTS
    SetName,     \* the names of filtersets
    ConfPath,    \* the paths below /noit/filtersets
    RuleText,    \* what the rules of a set can be
    SetSeq,      \* the sequence numbers sent
    MaxNodes     \* bound on the nodes of the configuration

ASSUME ConfAssumption == MaxNodes \in Nat /\ SetSeq \subseteq Nat

VARIABLES
    conf,        \* the nodes, in document order
    loaded,      \* loaded[n]: <<>> or the compiled set <<[seq, rules]>>
    file         \* the configuration as last written

confVars == <<conf, loaded, file>>

Node(n, p, s, r, c) == [name |-> n, path |-> p, seq |-> s, rules |-> r, cull |-> c]

At(n, p) == {i \in DOMAIN conf : conf[i].name = n /\ conf[i].path = p}
First(S) == {i \in S : \A j \in S : i <= j}
WithoutNodes(S) ==
    LET kept == SelectSeq([i \in DOMAIN conf |-> i], LAMBDA i : i \notin S)
    IN  [k \in DOMAIN kept |-> conf[kept[k]]]

\* noit_filter_compile_add_load_set: only a higher number replaces a set.
LoadSet(old, node) ==
    IF old # <<>> /\ old[1].seq >= node.seq THEN old
    ELSE <<[seq |-> node.seq, rules |-> node.rules]>>

\* noit_filters_from_conf: every node, in document order.
FromConf(table, nodes) ==
    FoldLeft(LAMBDA t, node : [t EXCEPT ![node.name] = LoadSet(@, node)], table, nodes)

-----------------------------------------------------------------------------
\* rest_set_filter.  403: the set runs, but is not at this path; 409: the
\* number is not higher; a path that cannot be made is a 404.  A number of 0
\* is let through: the node is replaced, the running set is not.
RestSetFilter(n, p, s, r) ==
    LET at == At(n, p) IN
    /\ ~(at = {} /\ loaded[n] # <<>>)
    /\ loaded[n] # <<>> => s = 0 \/ loaded[n][1].seq < s
    /\ Len(conf) < MaxNodes \/ at # {}
    /\ \E c \in BOOLEAN :
         conf' = Append(WithoutNodes(First(at)), Node(n, p, s, r, c))
    /\ file' = conf'
    /\ loaded' = [loaded EXCEPT ![n] = LoadSet(@, Last(conf'))]

\* rest_delete_filter; a set that is not running is not found.
RestDeleteFilter(n, p) ==
    /\ At(n, p) # {} /\ loaded[n] # <<>>
    /\ loaded' = [loaded EXCEPT ![n] = <<>>]
    /\ conf' = WithoutNodes(First(At(n, p)))
    /\ file' = conf'

\* noit_filters_process_repl: one set of the reply.  A set that is loaded takes
\* the place of the first node of its name, at the end of the replication path.
ProcessRepl(n, s, r, replication) ==
    LET named == {i \in DOMAIN conf : conf[i].name = n}
        node == Node(n, replication, s, r, TRUE)
    IN  /\ \/ /\ LoadSet(loaded[n], node) # loaded[n]
              /\ Len(conf) < MaxNodes \/ named # {}
              /\ loaded' = [loaded EXCEPT ![n] = LoadSet(@, node)]
              /\ conf' = Append(WithoutNodes(First(named)), node)
           \/ /\ LoadSet(loaded[n], node) = loaded[n]
              /\ UNCHANGED <<conf, loaded>>
        /\ file' = conf'

\* noit_console_filter_configure: a new set is a node without rules; a set of
\* that name elsewhere prevents it only while it runs.
ConsoleCreate(n, p) ==
    /\ At(n, p) = {} /\ loaded[n] = <<>> /\ Len(conf) < MaxNodes
    /\ conf' = Append(conf, Node(n, p, 0, 0, TRUE))
    /\ UNCHANGED <<loaded, file>>

\* "no filterset": the node goes only if the set was running.
ConsoleRemoveFilter(n, p) ==
    /\ At(n, p) # {} /\ loaded[n] # <<>>
    /\ loaded' = [loaded EXCEPT ![n] = <<>>]
    /\ conf' = WithoutNodes(First(At(n, p)))
    /\ UNCHANGED file

\* noit_console_rule_configure edits a node; what runs is not touched.
ConsoleRule(i, r) ==
    /\ conf' = [conf EXCEPT ![i].rules = r]
    /\ UNCHANGED <<loaded, file>>

\* noit_refresh_filtersets.
RefreshFiltersets == loaded' = FromConf(loaded, conf) /\ UNCHANGED <<conf, file>>

\* noit_filtersets_cull_unused.  Of the nodes of a name the last stays, and is
\* compiled if it was not the first.  Then unused names go if some name that
\* may be culled is in use; a set that does not run keeps its node.
CullUnused(used, timedout) ==
    LET declares == {i \in DOMAIN conf : conf[i].cull}
        same(i) == {j \in declares : conf[j].name = conf[i].name}
        latest == {i \in declares : \A j \in same(i) : j <= i}
        active == {conf[i].name : i \in declares}
        again == {i \in declares : i \notin First(same(i))}
        deduped == FromConf(loaded, WithoutNodes(DOMAIN conf \ again))
        culled == {n \in active \ used : n \in timedout /\ deduped[n] # <<>>
                                            /\ active \cap used # {}}
    IN  /\ loaded' = [n \in SetName |-> IF n \in culled THEN <<>> ELSE deduped[n]]
        /\ conf' = WithoutNodes({i \in declares : i \notin latest \/ conf[i].name \in culled})
        /\ UNCHANGED file

\* mtev's own saving of a configuration marked as changed.
WriteFile == file' = conf /\ UNCHANGED <<conf, loaded>>

RestartConf ==
    /\ conf' = file
    /\ loaded' = FromConf([n \in SetName |-> <<>>], file)
    /\ UNCHANGED file

ConfInit == conf = <<>> /\ loaded = [n \in SetName |-> <<>>] /\ file = <<>>

ConfNext ==
    \/ \E n \in SetName, p \in ConfPath :
         \/ \E s \in SetSeq, r \in RuleText : RestSetFilter(n, p, s, r) \/ ProcessRepl(n, s, r, p)
         \/ RestDeleteFilter(n, p)
         \/ ConsoleCreate(n, p) \/ ConsoleRemoveFilter(n, p)
    \/ \E i \in DOMAIN conf, r \in RuleText : ConsoleRule(i, r)
    \/ RefreshFiltersets \/ WriteFile \/ RestartConf
    \/ \E used \in SUBSET SetName : \E timedout \in SUBSET (SetName \ used) : CullUnused(used, timedout)

-----------------------------------------------------------------------------
(* Properties *)

\* Nothing runs that the configuration does not have: a set in the table has a
\* node of its name, through deletions, replication, and culls of duplicates.
RunningIsConfigured ==
    \A n \in SetName : loaded[n] # <<>> => \E i \in DOMAIN conf : conf[i].name = n

\* The configuration is not ahead of what runs: where a running set has one
\* node, the node's sequence number is not the higher, so a refresh finds
\* nothing newer to load.  (The console can make a second node of a name.)
NewestRuns ==
    \A i \in DOMAIN conf : LET set == loaded[conf[i].name] IN
        set # <<>> /\ (\A j \in DOMAIN conf : conf[j].name = conf[i].name => j = i)
            => conf[i].seq <= set[1].seq

-----------------------------------------------------------------------------
(***************************************************************************)
(* Walking the rules of a filterset (noit_apply_filterset), by several     *)
(* threads at once.  A rule may keep tables of the values it has let pass, *)
(* which the threads read, fill up to a limit and flush from time to time. *)
(* Which filterset is walked, and that it stays in memory, is the subject  *)
(* of FilterSets; here the rules do not change.                            *)
(*                                                                         *)
(* A measurement carries a check name and a metric name (target and module *)
(* are treated as the name is).  The expressions of a rule are the set of  *)
(* values they match, its tag search is the tag it asks for.               *)
(***************************************************************************)

CONSTANTS
    Walker,        \* the threads that apply filtersets
    RuleLists,     \* the lists of rules that are loaded
    Measured,      \* the names measured under, and the tags they carry
    MAX_TAGS,      \* the number of tags a metric can carry
    LastInstant    \* bound on the time of day

ASSUME RulesAssumption ==
    /\ IsFiniteSet(Walker) /\ Walker # {}
    /\ MAX_TAGS \in Nat /\ LastInstant \in Nat

VARIABLES
    rules,        \* the list of rules, empty before it is loaded
    table,        \* table[r][f]: the values in the table of a field
    last_flush,   \* last_flush[r]: when the tables of a rule were flushed
    today,        \* the time of day
    walk          \* walk[w]: the progress of a thread

rulesVars == <<rules, table, last_flush, today, walk>>

RuleField == {"name", "metric"}
Idle == [pc |-> "idle", at |-> 0, now |-> 0, subj |-> <<>>, need |-> {}, mtset |-> {},
         mt_modified |-> FALSE, ret |-> FALSE, given |-> {}]

HasTable(r, f) == rules[r].ht[f] # <<>>

\* noit_apply_filterrule, noit_apply_filterrule_metric: a table decides alone.
Matches(r, f, subj, mtset) ==
    IF HasTable(r, f) THEN subj[f] \in table[r][f]
    ELSE /\ subj[f] \in rules[r].re[f]
         /\ f = "metric" => rules[r].mtsearch \subseteq mtset

-----------------------------------------------------------------------------
LoadRules(list) ==
    /\ rules = <<>> /\ list # <<>>
    /\ rules' = list
    /\ table' = [r \in DOMAIN list |-> [f \in RuleField |->
                    IF list[r].ht[f] = <<>> THEN {} ELSE list[r].ht[f][1]]]
    /\ last_flush' = [r \in DOMAIN list |-> 0]
    /\ UNCHANGED <<today, walk>>

Tomorrow == today < LastInstant /\ today' = today + 1 /\ UNCHANGED <<rules, table, last_flush, walk>>

\* The time is taken before the walk, for all of it.
ApplyFilterset(w, subj, given) ==
    /\ rules # <<>> /\ walk[w].pc = "idle"
    /\ walk' = [walk EXCEPT ![w] = [Idle EXCEPT
                  !.pc = "match", !.at = 1, !.now = today, !.subj = subj,
                  !.mtset = given, !.given = given]]
    /\ UNCHANGED <<rules, table, last_flush, today>>

\* noit_add_measurement_tag: a category is needed and there must be room.
AddMeasurementTag(wk, r) ==
    IF rules[r].tag = {} \/ Cardinality(wk.mtset) >= MAX_TAGS THEN wk
    ELSE [wk EXCEPT !.mtset = @ \cup rules[r].tag,
                    !.mt_modified = @ \/ ~(rules[r].tag \subseteq wk.mtset)]

\* The walk goes on at a rule, or off the end of the list: denied, and tags
\* that were added on the way are not applied.
WalkOn(wk, r) ==
    IF r > Len(rules) THEN [wk EXCEPT !.pc = "done", !.ret = FALSE, !.mtset = wk.given]
    ELSE [wk EXCEPT !.pc = "match", !.at = r, !.need = {}]

\* noit_update_metric_name, when tags were added.
Decided(wk, r) ==
    [wk EXCEPT !.pc = "done", !.ret = rules[r].type = "accept", !.need = {},
               !.mtset = IF wk.mt_modified THEN @ ELSE wk.given]

\* What a rule that applies does; without a rule to skip to, the next is run.
Applied(wk, r) ==
    CASE rules[r].type = "skipto" ->
           WalkOn(wk, IF rules[r].skipto_rule = 0 THEN r + 1 ELSE rules[r].skipto_rule)
      [] rules[r].type = "add" -> WalkOn(AddMeasurementTag(wk, r), r + 1)
      [] OTHER -> Decided(wk, r)

MatchRule(w) ==
    LET wk == walk[w]
        need == {f \in RuleField : ~Matches(wk.at, f, wk.subj, wk.mtset)}
    IN  /\ wk.pc = "match"
        /\ walk' = [walk EXCEPT ![w] =
                      IF need = {} THEN Applied(wk, wk.at)
                      ELSE [wk EXCEPT !.pc = "flush", !.need = need]]
        /\ UNCHANGED <<rules, table, last_flush, today>>

\* Under flush_lock: every table that is filled automatically is emptied.
FlushRule(w) ==
    LET wk == walk[w]
        r == wk.at
        due == rules[r].flush_interval > 0
                 /\ wk.now >= last_flush[r] + rules[r].flush_interval
    IN  /\ wk.pc = "flush"
        /\ walk' = [walk EXCEPT ![w].pc = "check"]
        /\ table' = IF ~due THEN table
                    ELSE [table EXCEPT ![r] = [f \in RuleField |->
                            IF rules[r].auto_hash_max[f] # 0 THEN {} ELSE @[f]]]
        /\ last_flush' = IF due THEN [last_flush EXCEPT ![r] = wk.now] ELSE last_flush
        /\ UNCHANGED <<rules, today>>

\* There is room in the table; no lock is held from here to the insertion.
CHECK_ADD(r, f) ==
    /\ rules[r].auto_hash_max[f] > 0 /\ HasTable(r, f)
    /\ Cardinality(table[r][f]) < rules[r].auto_hash_max[f]

CheckAdd(w) ==
    LET wk == walk[w]
        r == wk.at
    IN  /\ wk.pc = "check"
        /\ walk' = [walk EXCEPT ![w] =
              IF \E f \in wk.need : ~CHECK_ADD(r, f) THEN WalkOn(wk, r + 1)
              ELSE IF rules[r].type \in {"skipto", "add"} THEN Applied(wk, r)
              ELSE [wk EXCEPT !.pc = "add"]]
        /\ UNCHANGED <<rules, table, last_flush, today>>

\* UPDATE_FILTER_RULE, one table at a time, in the order of the source.
UpdateFilterRule(w) ==
    LET wk == walk[w]
        f == IF "name" \in wk.need THEN "name" ELSE "metric"
    IN  /\ wk.pc = "add"
        /\ table' = [table EXCEPT ![wk.at][f] = @ \cup {wk.subj[f]}]
        /\ walk' = [walk EXCEPT ![w] =
              IF wk.need = {f} THEN Decided(wk, wk.at) ELSE [wk EXCEPT !.need = @ \ {f}]]
        /\ UNCHANGED <<rules, last_flush, today>>

WalkReturned(w) ==
    /\ walk[w].pc = "done"
    /\ walk' = [walk EXCEPT ![w] = Idle]
    /\ UNCHANGED <<rules, table, last_flush, today>>

RulesInit ==
    /\ rules = <<>> /\ table = <<>> /\ last_flush = <<>> /\ today = 1
    /\ walk = [w \in Walker |-> Idle]

RulesNext ==
    \/ \E list \in RuleLists : LoadRules(list)
    \/ Tomorrow
    \/ \E w \in Walker :
         \/ \E subj \in Measured.subjects, given \in Measured.tags : ApplyFilterset(w, subj, given)
         \/ MatchRule(w) \/ FlushRule(w) \/ CheckAdd(w) \/ UpdateFilterRule(w) \/ WalkReturned(w)

-----------------------------------------------------------------------------
(* Properties *)

\* What the list decides from rule r on, for tags collected so far: the first
\* accept or deny rule that applies, with its tags; nothing for a list that
\* runs out.  It does not say how rules are run or where a walk stands.
Verdict(subj, given) ==
    LET applies(r, tags) == /\ \A f \in RuleField : subj[f] \in
                                   IF HasTable(r, f) THEN rules[r].ht[f][1] ELSE rules[r].re[f]
                            /\ HasTable(r, "metric") \/ rules[r].mtsearch \subseteq tags
        from[r \in 1 .. Len(rules) + 1, tags \in SUBSET UNION (Measured.tags \cup {rules[i].tag : i \in DOMAIN rules})] ==
          IF r > Len(rules) THEN [ret |-> FALSE, mtset |-> given]
          ELSE IF ~applies(r, tags) THEN from[r + 1, tags]
          ELSE CASE rules[r].type = "skipto" ->
                      from[IF rules[r].skipto_rule = 0 THEN r + 1 ELSE rules[r].skipto_rule, tags]
                 [] rules[r].type = "add" ->
                      from[r + 1, IF Cardinality(tags) < MAX_TAGS THEN tags \cup rules[r].tag
                                  ELSE tags]
                 [] OTHER -> [ret |-> rules[r].type = "accept", mtset |-> tags]
    IN  from[1, given]

\* A walk over rules that add nothing to their tables returns what the list
\* decides, whatever other threads and the clock do, and the metric gets the
\* tags collected on the way to the rule that decided.
WalkFollowsList ==
    (\A r \in DOMAIN rules, f \in RuleField : rules[r].auto_hash_max[f] = 0)
        => \A w \in Walker : walk[w].pc = "done"
             => [ret |-> walk[w].ret, mtset |-> walk[w].mtset]
                   = Verdict(walk[w].subj, walk[w].given)

\* auto_add limits a table to its maximum, up to one value more for each other
\* thread that was between its look at the size and its insertion.
AutoAddBounded ==
    \A r \in DOMAIN rules, f \in RuleField : rules[r].auto_hash_max[f] > 0
        => Cardinality(table[r][f]) <= rules[r].auto_hash_max[f] + Cardinality(Walker) - 1

\* Values that were let pass stay until their time is over: a value leaves a
\* table only in a flush a whole interval after the one before, although each
\* walk brings the time at which it began.
FlushesSpaced ==
    [][rules # <<>> => \A r \in DOMAIN rules, f \in RuleField :
          ~(table[r][f] \subseteq table'[r][f])
            => last_flush'[r] >= last_flush[r] + rules[r].flush_interval]_rulesVars
=============================================================================
