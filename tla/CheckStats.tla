---------------------------- MODULE CheckStats -----------------------------
(***************************************************************************)
(* What checks measured: the statistics of a run (first part), the         *)
(* histograms of the histogram module (second part), and the director's    *)
(* window against repeated messages (third part).                          *)
(***************************************************************************)
EXTENDS Integers, Sequences, FiniteSets, SequencesExt, FiniteSetsExt

(***************************************************************************)
(* What a check measures and how it is logged (noit_check.c,               *)
(* noit_check_log.c).  Metrics are put into the statistics in progress;    *)
(* when the check completes these become the current ones and are written  *)
(* as bundles.  A metric may also be logged at once, and is then marked so *)
(* that the bundle leaves it out.                                          *)
(*                                                                         *)
(* The lock on the statistics covers finding them and swapping them, not   *)
(* what is put into them afterwards: a recorder may still hold statistics  *)
(* that were completed meanwhile.  Every value recorded is a new number.   *)
(* The bundles are modelled as sequences of sets of values, in a hash      *)
(* order that is arbitrary.                                                *)
(***************************************************************************)

CONSTANTS
    MetricName,
    Filtered,            \* names that the check's filterset rejects
    Recorder,            \* threads that record metrics for the check
    METRICS_PER_BUNDLE,
    Perpetual,           \* perpetual_metrics, as a set of values to try
    MaxValues, MaxRounds \* bounds on values recorded and on completions

ASSUME StatsAssumption ==
    /\ Filtered \subseteq MetricName /\ Perpetual \subseteq BOOLEAN
    /\ METRICS_PER_BUNDLE \in Nat \ {0} /\ MaxValues \in Nat /\ MaxRounds \in Nat

VARIABLES
    perpetual,  \* the configuration
    stats,      \* stats[i]: name -> <<>> or <<[v, logged]>>, all ever allocated
    inprogress, current, previous,   \* which of them these are
    recorder,   \* recorder[r]: [at, name, v, held]
    values,     \* number of values made so far
    out,        \* out[v]: how often v was written to the log
    bundles,    \* the last completion's bundles
    newest,     \* newest[i][n]: the value last put into stats[i] before it completed
    rounds

statsVars == <<perpetual, stats, inprogress, current, previous, recorder, values, out,
               bundles, newest, rounds>>

NoStats == [n \in MetricName |-> <<>>]
IdleRecorder == [at |-> "idle", name |-> CHOOSE n \in MetricName : TRUE, v |-> 0, held |-> 0]

\* Notes a value put into stats[i] for n; one put there too late is not noted.
Noted(i, n, v) == IF i = inprogress THEN [newest EXCEPT ![i][n] = v] ELSE newest

\* noit_stats_set_metric: the metric is made, and the statistics are found.
SetMetric(r, n) ==
    /\ recorder[r].at = "idle" /\ values < MaxValues
    /\ values' = values + 1
    /\ recorder' = [recorder EXCEPT ![r] =
                      [at |-> "set", name |-> n, v |-> values + 1, held |-> inprogress]]
    /\ UNCHANGED <<perpetual, stats, inprogress, current, previous, out, bundles, newest, rounds>>

\* __stats_add_metric: it replaces a metric of that name, logged or not.
Added(m, v) == <<[v |-> v, logged |-> FALSE]>>

AddMetric(r) ==
    LET i == recorder[r].held
        n == recorder[r].name
    IN  /\ recorder[r].at = "set"
        /\ stats' = [stats EXCEPT ![i][n] = Added(@, recorder[r].v)]
        /\ newest' = Noted(i, n, recorder[r].v)
        /\ recorder' = [recorder EXCEPT ![r] = IdleRecorder]
        /\ UNCHANGED <<perpetual, inprogress, current, previous, values, out, bundles, rounds>>

\* noit_stats_log_immediate_metric_timed: logged first; the filterset applies.
LogImmediate(r, n) ==
    /\ recorder[r].at = "idle" /\ values < MaxValues
    /\ values' = values + 1
    /\ out' = IF n \in Filtered THEN out ELSE [out EXCEPT ![values + 1] = @ + 1]
    /\ recorder' = [recorder EXCEPT ![r] =
                      [at |-> "log", name |-> n, v |-> values + 1, held |-> 0]]
    /\ UNCHANGED <<perpetual, stats, inprogress, current, previous, bundles, newest, rounds>>

FindStats(r) ==
    /\ recorder[r].at = "log"
    /\ recorder' = [recorder EXCEPT ![r].at = "mark", ![r].held = inprogress]
    /\ UNCHANGED <<perpetual, stats, inprogress, current, previous, values, out, bundles,
                   newest, rounds>>

\* noit_stats_mark_metric_logged: a metric of that name is marked and keeps its
\* own value, otherwise this one is added.
Marked(m, v) ==
    IF m # <<>> THEN <<[m[1] EXCEPT !.logged = TRUE]>> ELSE <<[v |-> v, logged |-> TRUE]>>

MarkLogged(r) ==
    LET i == recorder[r].held
        n == recorder[r].name
    IN  /\ recorder[r].at = "mark"
        /\ stats' = [stats EXCEPT ![i][n] = Marked(@, recorder[r].v)]
        /\ newest' = Noted(i, n, recorder[r].v)
        /\ recorder' = [recorder EXCEPT ![r] = IdleRecorder]
        /\ UNCHANGED <<perpetual, inprogress, current, previous, values, out, bundles, rounds>>

-----------------------------------------------------------------------------
(* noit_check_set_stats *)

\* stats_merge: perpetual metrics gather in the previous statistics, which take
\* the metrics of those that go.
Merged(into, s) == [n \in MetricName |-> IF s[n] # <<>> THEN s[n] ELSE into[n]]

Loggable(s) == {n \in MetricName : s[n] # <<>> /\ n \notin Filtered /\ ~s[n][1].logged}

\* noit_check_log_bundle_serialize: as many bundles as all the metrics would
\* fill, the first with the status; ns is the order the metrics are found in.
InBundles(s, ns) ==
    LET all == Cardinality({n \in MetricName : s[n] # <<>>})
        count == ((Max({all, 1}) - 1) \div METRICS_PER_BUNDLE) + 1
    IN  [b \in 1..count |-> {s[ns[k]][1].v :
           k \in {k \in DOMAIN ns : (k - 1) \div METRICS_PER_BUNDLE = b - 1}}]

SetStats ==
    /\ rounds < MaxRounds
    /\ rounds' = rounds + 1
    /\ LET done == stats[inprogress] IN
       \E ns \in SetToSeqs(Loggable(done)) :
          /\ bundles' = InBundles(done, ns)
          /\ out' = [v \in DOMAIN out |->
                       out[v] + Cardinality({b \in DOMAIN bundles' : v \in bundles'[b]})]
    /\ current' = inprogress
    /\ inprogress' = Len(stats) + 1
    /\ IF perpetual
       THEN /\ stats' = Append([stats EXCEPT ![previous] = Merged(@, stats[current]),
                                             ![current] = NoStats], NoStats)
            /\ UNCHANGED previous
       ELSE /\ stats' = Append(stats, NoStats)
            /\ previous' = current
    /\ newest' = Append(newest, [n \in MetricName |-> 0])
    /\ UNCHANGED <<perpetual, recorder, values>>

StatsInit ==
    /\ perpetual \in Perpetual
    /\ stats = <<NoStats, NoStats, NoStats>>
    /\ inprogress = 1 /\ current = 2 /\ previous = 3
    /\ recorder = [r \in Recorder |-> IdleRecorder]
    /\ values = 0 /\ out = [v \in 1..MaxValues |-> 0]
    /\ bundles = <<>>
    /\ newest = [i \in 1..3 |-> [n \in MetricName |-> 0]]
    /\ rounds = 0

StatsNext ==
    \/ \E r \in Recorder, n \in MetricName : SetMetric(r, n) \/ LogImmediate(r, n)
    \/ \E r \in Recorder : AddMetric(r) \/ FindStats(r) \/ MarkLogged(r)
    \/ SetStats

-----------------------------------------------------------------------------
(* Properties *)

\* No value is written to the log twice, whether it is logged at once or in a
\* bundle, and none whose name the filterset rejects is written.
LoggedOnce == \A v \in DOMAIN out : out[v] <= 1

\* When a check completes, the value last put under each name that the
\* filterset accepts has been written: by then, or in one of the bundles.  (A
\* value marked by another thread's immediate one counts as replaced by it.)
NewestLogged ==
    [][rounds' # rounds =>
         \A n \in MetricName \ Filtered :
            newest[inprogress][n] # 0 => out'[newest[inprogress][n]] = 1]_statsVars

\* With perpetual metrics, a name once measured can be found in the statistics
\* in progress, the current or the previous ones: noit_stats_get_last_metric
\* never forgets it, even when the name is not measured any more.
PerpetualKept ==
    perpetual => \A i \in DOMAIN newest, n \in MetricName :
       newest[i][n] # 0 => \E k \in {inprogress, current, previous} : stats[k][n] # <<>>

-----------------------------------------------------------------------------
(***************************************************************************)
(* The histogram of one metric of one check (src/modules/histogram.c): the *)
(* threads that record samples, the heartbeat that rolls a period nobody   *)
(* records into, and the removal of a histogram that has run dry.          *)
(*                                                                         *)
(* A histogram is the set of samples in it.  The live feeds of a check and *)
(* the means and quantiles computed from last_aggr are left out.           *)
(***************************************************************************)

CONSTANTS SampleThread,  \* threads that record samples of the metric
          cadence,       \* seconds of a period
          CumulativeMetric, \* whether the metric is cumulative, of those looked at
          LastHistoSecond, MaxSamples, MaxBeats

ASSUME HistoAssumption == cadence \in Nat \ {0}

NoTier == [id |-> 0]
NoHist == <<>>

VARIABLES cumulativeMetric, \* what the metric is
          histoSecond,     \* time(NULL)
          tiers,      \* the histotier in the check's table, or NoTier
          made,       \* histotiers made so far
          sampler,   \* each thread: the histotier it has looked up, 0 for none
          beat,       \* the heartbeat
          given,      \* history: the second each sample was recorded in
          histograms, \* history: what was logged: period, samples, how many had been given
          lost,       \* history: samples that went to, or away with, a freed histotier
          beats

histoVars == <<cumulativeMetric, histoSecond, tiers, made, sampler, beat, given, histograms, lost, beats>>

Resting == [pc |-> "rest", s |-> 0, id |-> 0]

HistoInit ==
  /\ cumulativeMetric \in CumulativeMetric
  /\ histoSecond = cadence
  /\ tiers = NoTier /\ made = 0
  /\ sampler = [r \in SampleThread |-> 0]
  /\ beat = Resting
  /\ given = <<>> /\ histograms = <<>> /\ lost = {} /\ beats = 0

alloc_histotier(id) ==
  [id |-> id, secs |-> [o \in 0 .. cadence - 1 |-> NoHist], last_aggr |-> NoHist,
   cumulative |-> FALSE, last_period |-> 0]

Held(ht) == UNION {UNION {{i} : i \in ht.secs[o][1]} : o \in {x \in DOMAIN ht.secs : ht.secs[x] # NoHist}}

\* Mutant of sweep_roll_n_log: the other seconds keep their samples.
RolledKept(ht) ==
  LET used == {o \in DOMAIN ht.secs : ht.secs[o] # NoHist}
      last == CHOOSE o \in used : \A p \in used : p <= o
      tgt == IF used = {} THEN NoHist
             ELSE <<IF ht.cumulative THEN ht.secs[last][1] ELSE Held(ht)>>
  IN [ht EXCEPT !.secs = [o \in DOMAIN ht.secs |-> IF used # {} /\ o = last THEN NoHist ELSE ht.secs[o]],
                !.last_aggr = tgt]

\* The histogram of the last second in use takes in the others, unless the
\* metric is cumulative, and is logged for the period.
sweep_roll_n_log(ht) ==
  LET used == {o \in DOMAIN ht.secs : ht.secs[o] # NoHist}
      last == CHOOSE o \in used : \A p \in used : p <= o
      tgt == IF used = {} THEN NoHist
             ELSE <<IF ht.cumulative THEN ht.secs[last][1] ELSE Held(ht)>>
  IN [ht EXCEPT !.secs = [o \in DOMAIN ht.secs |-> NoHist], !.last_aggr = tgt]

Roll(ht, s) == s \div cadence > ht.last_period

\* what the histogram of a second holds after samples are put into it: a
\* cumulative one is cleared first
Put(ht, off, new) ==
  IF ht.secs[off] = NoHist \/ ht.cumulative THEN <<new>> ELSE <<ht.secs[off][1] \cup new>>

\* update_histotier, under the histotier's lock
update_histotier(ht, cumulative, s, new) ==
  LET marked == [ht EXCEPT !.cumulative = @ \/ cumulative]
      ready == IF Roll(ht, s) THEN [sweep_roll_n_log(marked) EXCEPT !.cumulative = FALSE] ELSE marked
      off == s % cadence
      put == IF new = {} THEN ready ELSE [ready EXCEPT !.secs[off] = Put(ready, off, new)]
  IN [put EXCEPT !.last_period = s \div cadence]

\* log_histo of the period a roll closes: an empty histogram and the time 0
\* are not logged
LoggedBy(ht, cumulative, s) ==
  LET tgt == sweep_roll_n_log([ht EXCEPT !.cumulative = @ \/ cumulative]).last_aggr IN
  IF Roll(ht, s) /\ tgt # NoHist /\ ht.last_period # 0
  THEN <<[period |-> ht.last_period, samples |-> tgt[1], upto |-> Len(given)]>> ELSE <<>>

\* histogram_metric and histogram_metric_hformat, first half: find the
\* metric's histotier in the check's table or put a new one there
LookUp(r) ==
  /\ sampler[r] = 0
  /\ Len(given) < MaxSamples
  /\ IF tiers = NoTier
     THEN /\ made' = made + 1 /\ tiers' = alloc_histotier(made + 1)
     ELSE UNCHANGED <<made, tiers>>
  /\ sampler' = [sampler EXCEPT ![r] = tiers'.id]
  /\ UNCHANGED <<cumulativeMetric, histoSecond, beat, given, histograms, lost, beats>>

\* second half: lock the histotier and update it with the time of that moment.
\* A histotier that has been freed meanwhile takes the sample nowhere.
histogram_metric(r) ==
  /\ sampler[r] # 0
  /\ Len(given) < MaxSamples
  /\ given' = Append(given, histoSecond)
  /\ sampler' = [sampler EXCEPT ![r] = 0]
  /\ LET new == {Len(given) + 1} IN
     IF tiers.id = sampler[r]
     THEN /\ tiers' = update_histotier(tiers, cumulativeMetric, histoSecond, new)
          /\ histograms' = histograms \o LoggedBy(tiers, cumulativeMetric, histoSecond)
          /\ UNCHANGED lost
     ELSE /\ lost' = lost \cup new
          /\ UNCHANGED <<tiers, histograms>>
  /\ UNCHANGED <<cumulativeMetric, histoSecond, made, beat, beats>>

\* heartbeat_all_metrics reads the clock once, before it comes to the metric
BeatBegin ==
  /\ beat.pc = "rest" /\ beats < MaxBeats
  /\ tiers # NoTier
  /\ beat' = [pc |-> "update", s |-> histoSecond, id |-> tiers.id]
  /\ beats' = beats + 1
  /\ UNCHANGED <<cumulativeMetric, histoSecond, tiers, made, sampler, given, histograms, lost>>

\* under the lock: roll, and see whether there is data left
Dry(ht) == (\A o \in DOMAIN ht.secs : ht.secs[o] = NoHist) /\ ht.last_aggr = NoHist

BeatUpdate ==
  /\ beat.pc = "update"
  /\ tiers' = update_histotier(tiers, FALSE, beat.s, {})
  /\ histograms' = histograms \o LoggedBy(tiers, FALSE, beat.s)
  /\ beat' = (IF Dry(tiers') THEN [beat EXCEPT !.pc = "drop"] ELSE Resting)
  /\ UNCHANGED <<cumulativeMetric, histoSecond, made, sampler, given, lost, beats>>

\* after the lock is released: the histotier is deleted from the table and freed
BeatDrop ==
  /\ beat.pc = "drop"
  /\ lost' = lost \cup Held(tiers)
  /\ tiers' = NoTier
  /\ beat' = Resting
  /\ UNCHANGED <<cumulativeMetric, histoSecond, made, sampler, given, histograms, beats>>

heartbeat_all_metrics == BeatUpdate \/ BeatDrop

HistoSecondPasses ==
  /\ histoSecond < LastHistoSecond
  /\ histoSecond' = histoSecond + 1
  /\ UNCHANGED <<cumulativeMetric, tiers, made, sampler, beat, given, histograms, lost, beats>>

HistoNext ==
  \/ \E r \in SampleThread : LookUp(r) \/ histogram_metric(r)
  \/ BeatBegin \/ heartbeat_all_metrics \/ HistoSecondPasses

-----------------------------------------------------------------------------
Times(i) == Cardinality({j \in DOMAIN histograms : i \in histograms[j].samples})
InTier(i) == tiers # NoTier /\ i \in Held(tiers)

\* The samples of an ordinary metric are counted once: each is still in the
\* histogram of its second, or in exactly one logged histogram, of its own
\* period or, when a heartbeat has set the period back to the one it began in,
\* of an earlier one; only what a removal freed is in neither.
SamplesLoggedOnce ==
  ~cumulativeMetric => \A i \in DOMAIN given :
    /\ Times(i) + (IF InTier(i) THEN 1 ELSE 0) + (IF i \in lost THEN 1 ELSE 0) = 1
    /\ \A j \in DOMAIN histograms :
         i \in histograms[j].samples => histograms[j].period <= given[i] \div cadence

\* A logged histogram of a cumulative metric is the newest one given in its
\* period: earlier ones, which it includes, are not added to it, whether a
\* sample or the heartbeat closes the period.
CumulativeNewest ==
  cumulativeMetric => \A j \in DOMAIN histograms :
    /\ Cardinality(histograms[j].samples) = 1
    /\ \A i \in histograms[j].samples : \A k \in i + 1 .. histograms[j].upto :
         given[k] \div cadence = given[i] \div cadence => k \in lost

-----------------------------------------------------------------------------
(***************************************************************************)
(* The director's window against repeated messages                         *)
(* (noit_metric_director.c): messages of fq and of Kafka are read by       *)
(* several threads; a digest of each is kept in a table for its second,    *)
(* and a table untouched for a while is pruned.  A message is [sec,        *)
(* lines]: the second in its text (0 if there is none) and its lines, each *)
(* with the time it is for.                                                *)
(***************************************************************************)

CONSTANTS
  DirectorReader,    \* threads that read messages
  Incoming,          \* the messages
  DedupeWindow,      \* seconds a table may stay untouched
  DropBefore,        \* lines for an earlier time are dropped
  RacingPrune,       \* a thread may use a table the pruning has listed
  LastDedupeSecond, MaxTables, MaxIncoming

DedupeAssumption ==
  /\ DedupeWindow \in Nat /\ DropBefore \in Nat /\ RacingPrune \in BOOLEAN
  /\ LastDedupeSecond \in Nat /\ MaxTables \in Nat /\ MaxIncoming \in Nat
  /\ \A m \in Incoming : m.sec \in Nat /\ \A i \in DOMAIN m.lines : m.lines[i].at \in Nat
ASSUME DedupeAssumption

VARIABLES
  dedupe_hashes,   \* second -> number of its table, for those that have one
  hashTables,      \* the tables: [touched, digests, freed]
  reading,         \* thread -> <<>> or <<[msg, hash]>>, hash 0 to be made
  removable,       \* seconds the pruning has listed, <<>> between its passes
  dnow,            \* the clock
  distributed,     \* messages distributed: [msg, at, lines]
  handled,         \* messages given to the director so far
  incomingCount

dedupeVars == <<dedupe_hashes, hashTables, reading, removable, dnow,
                distributed, handled, incomingCount>>

DedupeInit ==
  /\ dedupe_hashes = <<>> /\ hashTables = <<>> /\ removable = <<>>
  /\ reading = [r \in DirectorReader |-> <<>>]
  /\ dnow = 0 /\ distributed = {} /\ handled = {} /\ incomingCount = 0

-----------------------------------------------------------------------------
\* The digest stands for what it covers.
DigestOf(m) == <<m.sec, m.lines>>

\* handle_metric_buffer: every line of a bundle on its own, late ones dropped.
handle_metric_buffer(m) ==
  distributed' = distributed \cup
    {[msg |-> m, at |-> dnow, lines |-> {i \in DOMAIN m.lines : m.lines[i].at >= DropBefore},
      nth |-> incomingCount]}

Expiring(sec) == removable # <<>> /\ sec \in removable[1]

Begins ==
  /\ incomingCount < MaxIncoming /\ incomingCount' = incomingCount + 1

\* check_duplicate of a message without a second: it is never a repetition.
Timeless(r, m) ==
  /\ reading[r] = <<>> /\ m.sec = 0
  /\ Begins
  /\ handled' = handled \cup {m}
  /\ handle_metric_buffer(m)
  /\ UNCHANGED <<dedupe_hashes, hashTables, reading, removable, dnow>>

\* get_dedupe_hash, up to its first look.
Retrieve(r, m) ==
  /\ reading[r] = <<>> /\ m.sec > 0
  /\ ~RacingPrune => ~Expiring(m.sec)
  /\ Begins
  /\ reading' = [reading EXCEPT ![r] =
       <<[msg |-> m, hash |-> IF m.sec \in DOMAIN dedupe_hashes
                              THEN dedupe_hashes[m.sec] ELSE 0]>>]
  /\ UNCHANGED <<dedupe_hashes, hashTables, removable, dnow, distributed, handled>>

\* get_dedupe_hash stores a new table, or takes the one of a thread that was
\* faster.
StoreTable(r) ==
  LET m == reading[r][1].msg
      n == Len(hashTables) + 1
  IN  /\ reading[r] # <<>> /\ reading[r][1].hash = 0
      /\ IF m.sec \in DOMAIN dedupe_hashes
         THEN /\ ~RacingPrune => ~Expiring(m.sec)
              /\ reading' = [reading EXCEPT ![r][1].hash = dedupe_hashes[m.sec]]
              /\ UNCHANGED <<hashTables, dedupe_hashes>>
         ELSE /\ n <= MaxTables
              /\ hashTables' = Append(hashTables,
                   [touched |-> dnow, digests |-> {}, freed |-> FALSE])
              /\ dedupe_hashes' = [s \in DOMAIN dedupe_hashes \cup {m.sec} |->
                   IF s = m.sec THEN n ELSE dedupe_hashes[s]]
              /\ reading' = [reading EXCEPT ![r][1].hash = n]
      /\ UNCHANGED <<removable, dnow, distributed, handled, incomingCount>>

\* The table is touched and the digest stored; a message whose digest is there
\* is dropped.  A table that was freed may answer anything.
check_dedupe_hash(r) ==
  LET m == reading[r][1].msg
      n == reading[r][1].hash
      known == DigestOf(m) \in hashTables[n].digests
  IN  /\ reading[r] # <<>> /\ n # 0
      /\ \E dupe \in (IF hashTables[n].freed THEN BOOLEAN ELSE {known}) :
           IF dupe THEN UNCHANGED distributed ELSE handle_metric_buffer(m)
      /\ hashTables' = [hashTables EXCEPT ![n].touched = dnow,
                                          ![n].digests = @ \cup {DigestOf(m)}]
      /\ reading' = [reading EXCEPT ![r] = <<>>]
      /\ handled' = handled \cup {m}
      /\ UNCHANGED <<dedupe_hashes, removable, dnow, incomingCount>>

-----------------------------------------------------------------------------
\* noit_metric_director_prune_dedup: lists what may go, then removes it.
Expirable ==
  {s \in DOMAIN dedupe_hashes :
     dnow - hashTables[dedupe_hashes[s]].touched > DedupeWindow}

HeldByReader(s) == \E r \in DirectorReader :
              reading[r] # <<>> /\ reading[r][1].hash = dedupe_hashes[s]

PruneLists ==
  /\ removable = <<>> /\ Expirable # {}
  /\ ~RacingPrune => \A s \in Expirable : ~HeldByReader(s)
  /\ removable' = <<Expirable>>
  /\ UNCHANGED <<dedupe_hashes, hashTables, reading, dnow, distributed,
                 handled, incomingCount>>

PruneExpires ==
  /\ removable # <<>>
  /\ hashTables' = [n \in DOMAIN hashTables |->
       IF \E s \in removable[1] : dedupe_hashes[s] = n
       THEN [hashTables[n] EXCEPT !.freed = TRUE] ELSE hashTables[n]]
  /\ dedupe_hashes' = [s \in DOMAIN dedupe_hashes \ removable[1] |->
                         dedupe_hashes[s]]
  /\ removable' = <<>>
  /\ UNCHANGED <<reading, dnow, distributed, handled, incomingCount>>

DedupeTick ==
  /\ dnow < LastDedupeSecond /\ dnow' = dnow + 1
  /\ UNCHANGED <<dedupe_hashes, hashTables, reading, removable, distributed,
                 handled, incomingCount>>

DedupeNext ==
  \/ \E r \in DirectorReader :
       \/ \E m \in Incoming : Timeless(r, m) \/ Retrieve(r, m)
       \/ StoreTable(r)
       \/ check_dedupe_hash(r)
  \/ PruneLists
  \/ PruneExpires
  \/ DedupeTick

-----------------------------------------------------------------------------
(* A message that carries its time is distributed at most once in any       *)
(* window, whichever threads read its copies and however their first looks  *)
(* for the table of its second interleave.                                  *)
OncePerWindow ==
  \A d, e \in distributed :
    d # e /\ d.msg = e.msg /\ d.msg.sec > 0 =>
      d.at - e.at > DedupeWindow \/ e.at - d.at > DedupeWindow

(* No message is taken for a repetition of another one: of every message    *)
(* the director has handled, all lines that are not late were distributed.  *)
NothingMistaken ==
  \A m \in handled :
    \E d \in distributed :
      d.msg = m /\ d.lines = {i \in DOMAIN m.lines : m.lines[i].at >= DropBefore}
=============================================================================
