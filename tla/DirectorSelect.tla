--------------------------- MODULE DirectorSelect --------------------------
(***************************************************************************)
(* How the metric director (noit_metric_director.c) decides which lanes    *)
(* get a metric: exact interests, tag searches behind a cache of misses,   *)
(* and the "want" hook.  Distributor threads run distribute_metric while   *)
(* the threads of the lanes change their interests and searches; nothing   *)
(* but the single loads, stores and hash operations is atomic.             *)
(*                                                                         *)
(* One account and one check.  Keys(m) are the four exact interests that   *)
(* match metric m, in the order of the code's two loops; Bucket[s] is the  *)
(* position of the search's (check, name) table in the same kind of order. *)
(***************************************************************************)
EXTENDS Integers, FiniteSets, Sequences

CONSTANTS
    NLanes,        \* nthreads
    Metric,
    Key,           \* (uuid or NULL uuid, name with or without tags)
    Keys,          \* Keys[m]: <<id tagged, id bare, NULL tagged, NULL bare>>
    Search,        \* tag searches, each registered at most once (ast_id)
    LaneOf,        \* LaneOf[s]: the lane search s is registered on
    Bucket,        \* Bucket[s] \in 1..4
    Matches,       \* Matches[s]: the <<metric, check generation>> it matches
    WantAll,       \* lanes a "want" hook asks for (subscribe_all)
    Dist,          \* threads that receive metrics
    MaxInterest,   \* USHRT_MAX, where an interest counter gets stuck
    CacheSize,     \* miss_cache_size
    MaxAdjust,     \* bound: adjustments of one counter, up or down
    MaxCheckGen    \* bound: changes of the check's tags

Lane == 1 .. NLanes

ASSUME SelectAssumption ==
    /\ NLanes \in Nat \ {0} /\ MaxInterest \in Nat \ {0}
    /\ CacheSize \in Nat /\ MaxAdjust \in Nat /\ MaxCheckGen \in Nat
    /\ Keys \in [Metric -> [1 .. 4 -> Key]]
    /\ LaneOf \in [Search -> Lane] /\ Bucket \in [Search -> 1 .. 4]
    /\ WantAll \subseteq Lane

VARIABLES
    interest,      \* key -> no entry, or lane -> interest_cnt_t
    search,        \* search -> "new", "put" (in the table), "reg", "gone"
    gen,           \* account_search_t.gen
    check_gen,     \* check_generation_t.gen
    cache,         \* search_miss_cache: <<gen, check_gen, metric>>
    dist,          \* distributor threads inside distribute_metric
    ups, downs,    \* history: adjustments of a key's counter by a lane
    must,          \* history: what entitles a lane to the metric during the whole
                   \* of a thread's distribute_metric
    may            \* history: lanes entitled to it at some moment

tables == <<interest, search, gen, check_gen, ups, downs>>
selectVars == <<tables, cache, dist, must, may>>

NoEntry == [l \in Lane |-> -1]
\* A thread in distribute_metric: where it is, the metric, the lanes so far, the
\* bucket and the lane it looks at, the buckets that have tables, whether a
\* search matched, and whether the miss cache stopped the search.
Selecting(pc, m, got, n, l, ns, hit, cached) ==
    [pc |-> pc, m |-> m, got |-> got, n |-> n, l |-> l, ns |-> ns, hit |-> hit, cached |-> cached]
Idle == [pc |-> "idle"]
Steps(d, r) == dist' = [dist EXCEPT ![d] = r]

SelectInit ==
    /\ interest = [k \in Key |-> NoEntry]
    /\ search = [s \in Search |-> "new"]
    /\ gen = 0 /\ check_gen = 0
    /\ cache = {}
    /\ dist = [d \in Dist |-> Idle]
    /\ ups = [k \in Key |-> [l \in Lane |-> 0]]
    /\ downs = [k \in Key |-> [l \in Lane |-> 0]]
    /\ must = [d \in Dist |-> [exact |-> {}, search |-> {}]]
    /\ may = [d \in Dist |-> {}]

----------------------------------------------------------------------------
(* Who is entitled to a metric.                                            *)

\* The <<key, lane>> interests in metric m, given the interest table t.
Exact(t, m) == {kl \in {Keys[m][n] : n \in 1 .. 4} \X Lane : t[kl[1]][kl[2]] > 0}

\* The searches that match m and are in one of the given states.
Searched(st, cg, m, states) ==
    {s \in Search : st[s] \in states /\ <<m, cg>> \in Matches[s]}

\* The history variables after a step.
Track ==
    /\ must' = [d \in Dist |->
          IF dist'[d] = Idle THEN [exact |-> {}, search |-> {}]
          ELSE LET m == dist'[d].m
                   e == Exact(interest', m)
                   s == Searched(search', check_gen', m, {"reg"})
               IN  IF dist[d] = Idle THEN [exact |-> e, search |-> s]
                   ELSE [exact |-> must[d].exact \cap e, search |-> must[d].search \cap s]]
    /\ may' = [d \in Dist |->
          IF dist'[d] = Idle THEN {}
          ELSE LET m == dist'[d].m
               IN  may[d] \cup WantAll
                   \cup {kl[2] : kl \in Exact(interest', m)}
                   \cup {LaneOf[s] : s \in Searched(search', check_gen', m, {"put", "reg"})}]

----------------------------------------------------------------------------
(* The threads of the lanes.                                               *)

\* An interest_cnt_t is capped at both ends and stuck at the upper one.
adjust_interest(cnt, adj) ==
    IF cnt = MaxInterest THEN MaxInterest
    ELSE IF cnt + adj < 0 THEN 0
    ELSE IF cnt + adj > MaxInterest THEN MaxInterest ELSE cnt + adj

\* The entry e after an adjustment.  Lowering an interest nobody ever had makes no
\* entry.
Adjusted(e, l, adj) ==
    IF e # NoEntry THEN [e EXCEPT ![l] = adjust_interest(e[l], adj)]
    ELSE IF adj < 0 THEN NoEntry
    ELSE [n \in Lane |-> IF n = l THEN adj ELSE 0]

\* noit_metric_director_adjust_metric_interest: the copy, update and
\* compare-and-swap loop is one atomic update.
AdjustMetricInterest(l, k, adj) ==
    /\ IF adj > 0 THEN ups[k][l] < MaxAdjust ELSE downs[k][l] < MaxAdjust
    /\ interest' = [interest EXCEPT ![k] = Adjusted(interest[k], l, adj)]
    /\ IF adj > 0 THEN ups' = [ups EXCEPT ![k][l] = @ + 1] /\ UNCHANGED downs
                  ELSE downs' = [downs EXCEPT ![k][l] = @ + 1] /\ UNCHANGED ups
    /\ UNCHANGED <<search, gen, check_gen, cache, dist>>
    /\ Track

\* noit_metric_director_register_search: the search is visible as soon as it is
\* in the table; the generation is incremented afterwards.
RegisterSearch(s) ==
    /\ search[s] = "new"
    /\ search' = [search EXCEPT ![s] = "put"]
    /\ UNCHANGED <<interest, gen, check_gen, ups, downs, cache, dist>>
    /\ Track

RegisterSearchGen(s) ==
    /\ search[s] = "put"
    /\ search' = [search EXCEPT ![s] = "reg"]
    /\ gen' = gen + 1
    /\ UNCHANGED <<interest, check_gen, ups, downs, cache, dist>>
    /\ Track

DeregisterSearch(s) ==
    /\ search[s] = "reg"
    /\ search' = [search EXCEPT ![s] = "gone"]
    /\ UNCHANGED <<interest, gen, check_gen, ups, downs, cache, dist>>
    /\ Track

\* metric_director_set_check_generation_dyn: the check's tags have changed.
SetCheckGeneration ==
    /\ check_gen < MaxCheckGen
    /\ check_gen' = check_gen + 1
    /\ UNCHANGED <<interest, search, gen, ups, downs, cache, dist>>
    /\ Track

----------------------------------------------------------------------------
(* distribute_metric.                                                      *)

Enter(d) ==
    /\ dist[d] = Idle
    /\ \E m \in Metric : Steps(d, Selecting("exact", m, {}, 1, 1, {}, FALSE, FALSE))
    /\ UNCHANGED <<tables, cache>>
    /\ Track

\* One of the four lookups: an entry that is found is copied over what the
\* earlier ones have left.
ExactInterests(d) ==
    /\ dist[d].pc = "exact"
    /\ LET r == dist[d]
           e == interest[Keys[r.m][r.n]]
           got == IF e = NoEntry THEN r.got ELSE {l \in Lane : e[l] > 0}
       IN  Steps(d, IF r.n = 4 THEN Selecting("cache", r.m, got, 1, r.l, r.ns, r.hit, r.cached)
                    ELSE Selecting("exact", r.m, got, r.n + 1, r.l, r.ns, r.hit, r.cached))
    /\ UNCHANGED <<tables, cache>>
    /\ Track

\* make_search_miss_key reads both generations when the key is made.
MissKey(m) == <<gen, check_gen, m>>

\* The (check, name) tables made so far: register_search makes the ones it
\* needs, and they stay.
Tables == {Bucket[s] : s \in {q \in Search : search[q] # "new"}}
\* Buckets 1 and 2 belong to the check's own table, 3 and 4 to the other.
CheckTable(n) == IF n <= 2 THEN 1 ELSE 2

\* check_search_miss_cache, and the lookup of the two check tables.
CheckMissCache(d) ==
    /\ dist[d].pc = "cache"
    /\ LET r == dist[d]
           stop == Tables # {} /\ MissKey(r.m) \in cache
           ns == {n \in 1 .. 4 : \E t \in Tables : CheckTable(t) = CheckTable(n)}
       IN  Steps(d, Selecting(IF Tables = {} \/ stop THEN "want" ELSE "eval",
                              r.m, r.got, r.n, r.l, ns, r.hit, stop))
    /\ UNCHANGED <<tables, cache>>
    /\ Track

\* The name tables of the check table that bucket n belongs to are looked up
\* before the first of them is searched.
NameTables(d) ==
    LET n == dist[d].n
    IN  IF dist[d].l = 1 /\ n \in {1, 3}
        THEN dist[d].ns \ ({n, n + 1} \ Tables) ELSE dist[d].ns

\* The loop over buckets and lanes moves on; found: a search matched.
Advance(d, found, last) ==
    LET r == dist[d]
        got == IF found THEN r.got \cup {r.l} ELSE r.got
        hit == r.hit \/ found
    IN  Steps(d, IF r.l < NLanes
                 THEN Selecting("eval", r.m, got, r.n, r.l + 1, NameTables(d), hit, r.cached)
                 ELSE Selecting(IF r.n = last THEN "miss" ELSE "eval",
                                r.m, got, r.n + 1, 1, NameTables(d), hit, r.cached))

\* Mutant of EvaluateSearches: the last bucket is never looked at.
EvaluateSearchesShort(d) ==
    LET found == /\ dist[d].n \in NameTables(d)
                 /\ dist[d].l \notin dist[d].got
                 /\ \E s \in Searched(search, check_gen, dist[d].m, {"put", "reg"}) :
                       Bucket[s] = dist[d].n /\ LaneOf[s] = dist[d].l
    IN  /\ dist[d].pc = "eval"
        /\ Advance(d, found, 3)
        /\ UNCHANGED <<tables, cache>>
        /\ Track

\* The searches of one bucket on one lane, until one matches; a lane that has
\* the metric already is passed over.
EvaluateSearches(d) ==
    LET found == /\ dist[d].n \in NameTables(d)
                 /\ dist[d].l \notin dist[d].got
                 /\ \E s \in Searched(search, check_gen, dist[d].m, {"put", "reg"}) :
                       Bucket[s] = dist[d].n /\ LaneOf[s] = dist[d].l
    IN  /\ dist[d].pc = "eval"
        /\ Advance(d, found, 4)
        /\ UNCHANGED <<tables, cache>>
        /\ Track

\* generation_aware_displace: an entry of an older generation is always given
\* up, a current one sometimes.
Displace(key, c) ==
    IF key \in c \/ CacheSize = 0 THEN {c}
    ELSE IF Cardinality(c) < CacheSize THEN {c \cup {key}}
    ELSE {(c \ {v}) \cup {key} : v \in c}
         \cup (IF \E v \in c : v[1] = gen /\ v[2] = check_gen THEN {c} ELSE {})

\* set_search_miss_cache, when no search made a lane interested.
SetMissCache(d) ==
    /\ dist[d].pc = "miss"
    /\ IF dist[d].hit THEN UNCHANGED cache
       ELSE cache' \in Displace(MissKey(dist[d].m), cache)
    /\ LET r == dist[d]
       IN  Steps(d, Selecting("want", r.m, r.got, r.n, r.l, r.ns, r.hit, r.cached))
    /\ UNCHANGED tables
    /\ Track

\* The metric_director_want hook adds its lanes.
WantHook(d) ==
    /\ dist[d].pc = "want"
    /\ LET r == dist[d]
       IN  Steps(d, Selecting("out", r.m, r.got \cup WantAll, r.n, r.l, r.ns, r.hit, r.cached))
    /\ UNCHANGED <<tables, cache>>
    /\ Track

\* distribute_message_with_interests takes over (DirectorLanes).
Leave(d) ==
    /\ dist[d].pc = "out"
    /\ Steps(d, Idle)
    /\ UNCHANGED <<tables, cache>>
    /\ Track

----------------------------------------------------------------------------
DistStep(d) ==
    \/ Enter(d)
    \/ /\ dist[d] # Idle
       /\ \/ ExactInterests(d) \/ CheckMissCache(d) \/ EvaluateSearches(d)
          \/ SetMissCache(d) \/ WantHook(d) \/ Leave(d)

SelectNext ==
    \/ \E l \in Lane, k \in Key, adj \in {-1, 1} : AdjustMetricInterest(l, k, adj)
    \/ \E s \in Search : RegisterSearch(s) \/ RegisterSearchGen(s) \/ DeregisterSearch(s)
    \/ SetCheckGeneration
    \/ \E d \in Dist : DistStep(d)

SelectSpec == SelectInit /\ [][SelectNext]_selectVars

----------------------------------------------------------------------------
(* Properties.                                                             *)

\* A lane that raised an interest more often than it lowered it has not lost
\* it, although the counter is capped at both ends.
InterestKept ==
    \A k \in Key, l \in Lane : ups[k][l] > downs[k][l] => interest[k][l] > 0

\* A lane is sent a metric only if, at some moment of the selection, it had an
\* interest in it, a search that matches it, or a hook that wants it.
NoSpuriousLane == \A d \in Dist : dist[d] # Idle => dist[d].got \subseteq may[d]

\* When the miss cache does not stop the search, a lane whose matching search
\* was registered during the whole selection gets the metric, whatever other
\* interests, registrations and removals happen meanwhile.
SearchServed ==
    \A d \in Dist :
        (dist[d] # Idle /\ dist[d].pc = "out" /\ ~dist[d].cached)
        => {LaneOf[s] : s \in must[d].search} \subseteq dist[d].got

\* What the director decides of a metric is what was asked of it: a lane is sent
\* only what it had an interest in, a lane whose search matched during the whole
\* selection gets the metric unless the miss cache stops the search, and an
\* interest raised more often than lowered is not lost.
InterestsServed == NoSpuriousLane /\ SearchServed /\ InterestKept
============================================================================
