--------------------------- MODULE MetricUploads ---------------------------
(***************************************************************************)
(* Metrics uploaded over HTTP: Prometheus (first part), OpenTelemetry      *)
(* (second part), and httptrap (third part).                               *)
(***************************************************************************)
EXTENDS Integers, Sequences, FiniteSets, SequencesExt, FiniteSetsExt

(***************************************************************************)
(* A Prometheus remote write (prometheus.c, noit_prometheus_translation.c):*)
(* the time series of one request become metrics of the check.  A series'  *)
(* name may give up its unit to a tag, buckets of a histogram are gathered *)
(* over the series of the request and turned into one histogram per name   *)
(* and instant, every other sample joins a batch that is logged when it is *)
(* full, when a sample of the same name and instant is in it already, and  *)
(* at the end.                                                             *)
(*                                                                         *)
(* A name is the sequence of its words (what '_' separates); of the other  *)
(* labels only `le' is kept, as a number, Inf for +Inf.  Whole requests    *)
(* are handled in one thread.                                              *)
(***************************************************************************)

CONSTANTS
  SeriesNames,     \* names the series of a request may have
  Boundaries,      \* values of `le'
  Instants,        \* time stamps of samples
  Counts,          \* values of samples
  _allowed_units,  \* words that are units
  BatchSize,       \* metrics a batch holds before it is logged (1000)
  MaxSeries        \* samples in one request

PrometheusAssumption ==
  /\ \A n \in SeriesNames : n # <<>>
  /\ Boundaries \subseteq Nat /\ Counts \subseteq Nat
  /\ BatchSize \in Nat /\ MaxSeries \in Nat
ASSUME PrometheusAssumption

VARIABLES
  options,             \* the check's extract_units and coerce_histograms
  samples,             \* the samples of the request, in order
  batch,               \* rxc->immediate_metrics: metrics not yet logged
  hists,               \* rxc->hists: histograms in progress, by name and time
  promBundles,            \* bundles of metrics logged, in order
  histlogs,            \* histograms logged: name, time and bins
  answered             \* the request was answered

uploadVars == <<options, samples, batch, hists, promBundles, histlogs,
               answered>>

-----------------------------------------------------------------------------
is_standard_suffix(w) == w \in {"count", "sum", "bucket", "total"}

\* prom_name_munge_units: the word before a standard suffix, or the last one,
\* is the unit; with a suffix the word goes whether it is a unit or not.
prom_name_munge_units(in) ==
  LET suffixed == Len(in) > 1 /\ is_standard_suffix(Last(in))
      base     == IF suffixed THEN Front(in) ELSE in
      units    == IF Len(base) > 1 /\ Last(base) \in _allowed_units
                  THEN Last(base) ELSE ""
  IN  [units |-> units,
       name  |-> IF suffixed
                 THEN IF Len(base) > 1 THEN Append(Front(base), Last(in)) ELSE in
                 ELSE IF units # "" THEN Front(base) ELSE in]

\* noit_prometheus_metric_name_coerce.
noit_prometheus_metric_name_coerce(name, le) ==
  LET munged == IF options.extract_units THEN prom_name_munge_units(name)
                ELSE [units |-> "", name |-> name]
      is_histogram == /\ options.coerce_histograms /\ le # <<>>
                      /\ Len(munged.name) > 1 /\ Last(munged.name) = "bucket"
  IN  [units |-> munged.units, is_histogram |-> is_histogram,
       name |-> IF is_histogram THEN Front(munged.name) ELSE munged.name]

\* noit_prometheus_metric_name_from_labels: name and tags, without `le' for a
\* histogram.
noit_prometheus_metric_name_from_labels(name, le) ==
  LET c == noit_prometheus_metric_name_coerce(name, le)
  IN  [words |-> c.name, units |-> c.units,
       le |-> IF c.is_histogram THEN <<>> ELSE le]

-----------------------------------------------------------------------------
\* metric_local_batch_flush_immediate.
FlushBundle(b) == IF b = {} THEN promBundles ELSE Append(promBundles, b)

\* metric_local_batch.
metric_local_batch(m) ==
  /\ IF \/ Cardinality(batch) > BatchSize
        \/ \E o \in batch : o.name = m.name /\ o.whence = m.whence
     THEN promBundles' = FlushBundle(batch) /\ batch' = {m}
     ELSE batch' = batch \cup {m} /\ UNCHANGED promBundles
  /\ UNCHANGED hists

\* noit_prometheus_track_histogram: one more bin, as it came.
noit_prometheus_track_histogram(name, boundary, val, w) ==
  LET key == <<name, w>>
      bin == [lower |-> 0, upper |-> boundary, count |-> val]
  IN  /\ hists' = IF key \in DOMAIN hists
                  THEN [hists EXCEPT ![key] = Append(@, bin)]
                  ELSE [k \in DOMAIN hists \cup {key} |->
                          IF k = key THEN <<bin>> ELSE hists[k]]
      /\ UNCHANGED <<batch, promBundles>>

\* A sample of a series of the request.
PromSample(name, le, t, v) ==
  LET data == noit_prometheus_metric_name_from_labels(name, le)
  IN  IF noit_prometheus_metric_name_coerce(name, le).is_histogram
      THEN noit_prometheus_track_histogram(data, le[1], v, t)
      ELSE metric_local_batch([name |-> data, whence |-> t, value |-> v])

-----------------------------------------------------------------------------
\* noit_prometheus_sort_and_dedupe_histogram_in_progress: sorted by upper
\* bound (in any order among equals), the last of the equal ones kept, each
\* count less the one before it.
Sorted(bins) == {s \in SetToSeqs(DOMAIN bins) :
                   \A i \in 1..Len(s) - 1 : bins[s[i]].upper <= bins[s[i + 1]].upper}

Deduped(s, bins) ==
  SelectSeq(s, LAMBDA i : \A j \in DOMAIN s :
                 s[j] = i => j = Len(s) \/ bins[s[j + 1]].upper # bins[i].upper)

Adjacent(kept) ==
  [i \in DOMAIN kept |->
     [lower |-> IF i = 1 THEN 0 ELSE kept[i - 1].upper,
      upper |-> kept[i].upper,
      count |-> kept[i].count - (IF i = 1 THEN 0 ELSE kept[i - 1].count)]]

noit_prometheus_sort_and_dedupe_histogram_in_progress(bins) ==
  {Adjacent([i \in DOMAIN Deduped(s, bins) |-> bins[Deduped(s, bins)[i]]])
     : s \in Sorted(bins)}

-----------------------------------------------------------------------------
UploadInit ==
  /\ options \in [extract_units : BOOLEAN, coerce_histograms : BOOLEAN]
  /\ samples = <<>> /\ batch = {} /\ hists = <<>>
  /\ promBundles = <<>> /\ histlogs = {} /\ answered = FALSE

\* rest_prometheus_handler: the samples of the request in turn ...
UploadSample(name, le, t, v) ==
  /\ ~answered /\ Len(samples) < MaxSeries
  /\ samples' = Append(samples, [name |-> name, le |-> le, whence |-> t, value |-> v])
  /\ PromSample(name, le, t, v)
  /\ UNCHANGED <<options, histlogs, answered>>

\* ... and when all are seen, the rest of the batch and the histograms
\* (flush_histograms) are logged.
UploadEnd ==
  /\ ~answered /\ answered' = TRUE
  /\ promBundles' = FlushBundle(batch) /\ batch' = {}
  /\ \E made2 \in [DOMAIN hists ->
                    UNION {noit_prometheus_sort_and_dedupe_histogram_in_progress(
                             hists[k]) : k \in DOMAIN hists}] :
       /\ \A k \in DOMAIN hists :
            made2[k] \in noit_prometheus_sort_and_dedupe_histogram_in_progress(hists[k])
       /\ histlogs' = {[name |-> k[1], whence |-> k[2], bins |-> made2[k]]
                         : k \in DOMAIN hists}
  /\ hists' = <<>>
  /\ UNCHANGED <<options, samples>>

UploadNext ==
  \/ \E name \in SeriesNames, t \in Instants, v \in Counts,
        le \in {<<>>} \cup {<<b>> : b \in Boundaries} : UploadSample(name, le, t, v)
  \/ UploadEnd

-----------------------------------------------------------------------------
IsBucket(s) == noit_prometheus_metric_name_coerce(s.name, s.le).is_histogram
FullName(s) == noit_prometheus_metric_name_from_labels(s.name, s.le)

(* Every sample that is not a histogram's bucket is logged exactly as often*)
(* as it was sent - samples of one name and instant included - and no      *)
(* bundle has two values of one name and instant, which its reader could   *)
(* not tell apart.                                                         *)
SamplesLogged ==
  /\ \A i \in DOMAIN samples :
       LET m == [name |-> FullName(samples[i]), whence |-> samples[i].whence,
                 value |-> samples[i].value]
       IN  ~IsBucket(samples[i]) =>
             Cardinality({k \in DOMAIN promBundles : m \in promBundles[k]})
               + (IF m \in batch THEN 1 ELSE 0) =
             Cardinality({j \in DOMAIN samples :
               /\ ~IsBucket(samples[j]) /\ FullName(samples[j]) = m.name
               /\ samples[j].whence = m.whence /\ samples[j].value = m.value})
  /\ \A k \in DOMAIN promBundles : \A a, b \in promBundles[k] :
       a.name = b.name /\ a.whence = b.whence => a = b

(* The histogram logged for a name and an instant says what its buckets    *)
(* said, in whatever order they came: its bins adjoin, and the samples at  *)
(* or below each boundary are the count sent for that boundary.            *)
HistogramsMean ==
  \A h \in histlogs :
    LET Said(b) == {samples[i].value : i \in {j \in DOMAIN samples :
                      /\ IsBucket(samples[j]) /\ FullName(samples[j]) = h.name
                      /\ samples[j].whence = h.whence /\ samples[j].le = <<b>>}}
        UpTo(n) == FoldLeft(LAMBDA sum, bin : sum + bin.count, 0,
                            SubSeq(h.bins, 1, n))
    IN  /\ \A n \in DOMAIN h.bins :
             /\ UpTo(n) \in Said(h.bins[n].upper)
             /\ n > 1 => h.bins[n].lower = h.bins[n - 1].upper
        /\ \A b \in Boundaries :
             Said(b) # {} <=> \E n \in DOMAIN h.bins : h.bins[n].upper = b

-----------------------------------------------------------------------------
(***************************************************************************)
(* The OpenTelemetry modules (otlp.cpp, otlphttp.cpp, otlpgrpc.cpp): the   *)
(* data points of an upload become logged numbers, kept in a batch that is *)
(* logged as one bundle, and logged histograms.                            *)
(***************************************************************************)

CONSTANTS
  PointNames, PointTimes, PointValues, PointUnits,
  BucketLists,     \* explicit histograms: [bounds, counts]
  Exponentials,    \* exponential ones: [zero, positive, negative], the last
                   \* two optional [offset, counts]
  OtlpBatch,       \* numbers a batch holds before it is logged
  MaxPoints

OtlpAssumption ==
  /\ PointTimes \subseteq Nat /\ PointValues \subseteq Int
  /\ \A h \in BucketLists : Len(h.counts) = Len(h.bounds) + 1
  /\ OtlpBatch \in Nat /\ MaxPoints \in Nat
ASSUME OtlpAssumption

VARIABLES
  otlpImmediate,      \* the batch: name -> [at, value, unit], as a set of rows
  otlpRows,        \* numbers logged, a sequence of rows
  otlpHists,       \* histograms logged, with the bins they were made from
  points,          \* the upload's data points so far
  otlpDone         \* the upload was answered

otlpVars == <<otlpImmediate, otlpRows, otlpHists, points, otlpDone>>

-----------------------------------------------------------------------------
\* units_convert, for a few of its units: the factor and the name it is given.
\* "ms" is looked for only among the names that begin with an s, so it keeps
\* its name and factor; "1" gives no name at all.
units_convert(in) ==
  CASE in = "" \/ in = "1" -> [mult |-> 1, unit |-> <<>>]
    [] in = "By"  -> [mult |-> 1, unit |-> <<"bytes">>]
    [] in = "Ki"  -> [mult |-> 1024, unit |-> <<"bytes">>]
    [] in = "KB"  -> [mult |-> 1000, unit |-> <<"bytes">>]
    [] in = "min" -> [mult |-> 60, unit |-> <<"seconds">>]
    [] in = "d"   -> [mult |-> 86400, unit |-> <<"seconds">>]
    [] OTHER      -> [mult |-> 1, unit |-> <<in>>]

\* name_builder: the unit is one of the name's tags.
name_builder(p) == <<p.name, units_convert(p.unit).unit>>

OtlpInit ==
  /\ otlpImmediate = {} /\ otlpRows = <<>> /\ otlpHists = <<>>
  /\ points = <<>> /\ otlpDone = FALSE

-----------------------------------------------------------------------------
\* metric_local_batch: a name already in the batch is dropped if it is for the
\* same time, and else has the batch logged first; so has a full batch.
LoggedRows(rows) == IF rows = {} THEN <<>> ELSE <<rows>>

otlp_metric_local_batch(row) ==
  LET same == {r \in otlpImmediate : r.name = row.name}
      dup  == \E r \in same : r.at = row.at
      full == same # {} \/ Cardinality(otlpImmediate) > OtlpBatch
  IN  IF dup THEN UNCHANGED <<otlpImmediate, otlpRows>>
      ELSE /\ otlpImmediate' = (IF full THEN {} ELSE otlpImmediate) \cup {row}
           /\ otlpRows' = otlpRows \o
                (IF full THEN LoggedRows(otlpImmediate) ELSE <<>>)

\* handle_dp: a point without a time is passed over.
handle_dp(p) ==
  IF p.at = 0 THEN UNCHANGED <<otlpImmediate, otlpRows>>
  ELSE otlp_metric_local_batch(
         [name |-> name_builder(p), at |-> p.at,
          value |-> p.value * units_convert(p.unit).mult])

-----------------------------------------------------------------------------
\* Ends of bins: a factor and a value, or the ends of the line.
LeastBound == <<"least">>
Most == <<"most">>
Val(v) == <<"val", v>>

\* handle_hist of a HistogramDataPoint: the bound read is always the first.
ExplicitBins(p) ==
  LET h == p.hist
      scale == units_convert(p.unit).mult
      n == Len(h.counts)
      bound == Val((IF h.bounds = <<>> THEN 0 ELSE h.bounds[1]) * scale)
      first == IF h.bounds # <<>> /\ h.bounds[1] >= 0 THEN Val(0) ELSE LeastBound
  IN  [i \in 1..n |->
        [count |-> h.counts[i],
         lower |-> IF i = 1 THEN first ELSE bound,
         upper |-> IF i = n THEN Most ELSE bound]]

\* handle_hist of an ExponentialHistogramDataPoint, in base 2: zero, the
\* positive buckets, the negative ones mirrored.  The unit's factor is unused.
NegativeBins(neg) ==
  [i \in 1..Len(neg.counts) |->
     [count |-> neg.counts[i], lower |-> Val(-(2 ^ (neg.offset + i))),
      upper |-> Val(-(2 ^ (neg.offset + i - 1)))]]

ExponentialBins(p) ==
  LET h == p.hist
      pos == h.positive
      bins(x) == [i \in 1..Len(x.counts) |->
                    [count |-> x.counts[i], lower |-> Val(2 ^ (x.offset + i - 1)),
                     upper |-> Val(2 ^ (x.offset + i))]]
  IN  (IF h.zero = 0 THEN <<>>
       ELSE <<[count |-> h.zero, lower |-> Val(0), upper |-> Val(0)]>>)
      \o (IF pos = <<>> THEN <<>> ELSE bins(pos[1]))
      \o (IF h.negative = <<>> THEN <<>> ELSE NegativeBins(h.negative[1]))

handle_hist(p, bins) ==
  /\ otlpHists' = IF p.at = 0 THEN otlpHists
                  ELSE Append(otlpHists, [point |-> p, bins |-> bins])
  /\ UNCHANGED <<otlpImmediate, otlpRows>>

\* handle_message: what each kind of data point becomes.  A delta of a
\* monotonic sum and a summary become nothing.
handle_message(p) ==
  /\ ~otlpDone /\ Len(points) < MaxPoints
  /\ points' = Append(points, p)
  /\ UNCHANGED otlpDone
  /\ CASE p.kind \in {"gauge", "sum"}      -> handle_dp(p)
       [] p.kind \in {"delta", "summary"}  -> UNCHANGED <<otlpImmediate, otlpRows, otlpHists>>
       [] p.kind = "histogram"             -> handle_hist(p, ExplicitBins(p))
       [] p.kind = "exponential"           -> handle_hist(p, ExponentialBins(p))
  /\ p.kind \in {"gauge", "sum"} => UNCHANGED otlpHists

\* Export and rest_otlphttp_handler log the batch before they answer.
Export ==
  /\ ~otlpDone /\ otlpDone' = TRUE
  /\ otlpRows' = otlpRows \o LoggedRows(otlpImmediate)
  /\ otlpImmediate' = {}
  /\ UNCHANGED <<otlpHists, points>>

NumbersOf ==
  [kind : {"gauge", "sum", "delta", "summary"}, name : PointNames,
   at : PointTimes, unit : PointUnits, value : PointValues]

HistogramsOf ==
  [kind : {"histogram"}, name : PointNames, at : PointTimes,
   unit : PointUnits, hist : BucketLists]
  \cup [kind : {"exponential"}, name : PointNames, at : PointTimes,
        unit : PointUnits, hist : Exponentials]

OtlpNext ==
  \/ \E p \in NumbersOf : handle_message(p)
  \/ \E p \in HistogramsOf : handle_message(p)
  \/ Export

-----------------------------------------------------------------------------
(* Once the upload is answered, every number with a time was logged: once   *)
(* for each name and time, in the unit of its name, with the value of the   *)
(* first such point, whatever the batches were (metric_local_batch drops    *)
(* only a repetition still in its batch).                                   *)
NumberPoints == {i \in DOMAIN points :
                   points[i].kind \in {"gauge", "sum"} /\ points[i].at # 0}

PointsLogged ==
  otlpDone =>
    /\ \A i \in NumberPoints :
         \E b \in DOMAIN otlpRows : \E r \in otlpRows[b] :
           r.name = name_builder(points[i]) /\ r.at = points[i].at
    /\ \A b \in DOMAIN otlpRows : \A r \in otlpRows[b] :
         /\ \E i \in NumberPoints :
              /\ r.name = name_builder(points[i]) /\ r.at = points[i].at
              /\ r.value = points[i].value * units_convert(points[i].unit).mult
         /\ \A s \in otlpRows[b] : s.name = r.name => s = r

(* The bins of an exponential histogram, and of an explicit one of at most  *)
(* one bound, lie in order, share no more than their ends and hold all that *)
(* was counted.                                                             *)
Ordered(x, y) ==
  x = LeastBound \/ y = Most \/ (x[1] = "val" /\ y[1] = "val" /\ x[2] <= y[2])

Apart(b, c) == Ordered(b.upper, c.lower) \/ Ordered(c.upper, b.lower)

BinsApart ==
  \A i \in DOMAIN otlpHists :
    LET h == otlpHists[i]
    IN  h.point.kind = "exponential" \/ Len(h.point.hist.counts) <= 2 =>
          \A j, k \in DOMAIN h.bins :
            /\ Ordered(h.bins[j].lower, h.bins[j].upper)
            /\ j # k => Apart(h.bins[j], h.bins[k])

-----------------------------------------------------------------------------
(***************************************************************************)
(* The httptrap module: a JSON document is uploaded in pieces, the parser  *)
(* (yajl, external) calls back for every token, and the callbacks record   *)
(* metrics named by the path of keys and array indices.  An object with    *)
(* the keys _value and _type or _ts is one metric ("extended").  A metric  *)
(* goes into the check's statistics (CheckStats); in asynch mode, or when  *)
(* it has a timestamp of its own, it is also kept in immediate_metrics,    *)
(* which are logged as one bundle when a name comes a second time and when *)
(* the upload ends, however it ends.  How a value is combined with earlier *)
(* ones is left out, which operation is asked for is not.                  *)
(*                                                                         *)
(* The documents are the ones the sender's side writes token by token:     *)
(* objects that are either plain or extended, nested below MAX_DEPTH, with *)
(* numbers and nulls for values.  A bare value is not written after an     *)
(* extended object before another key: the last special key is still set   *)
(* there.  `open` is the sender's view of where it is; the parser's own    *)
(* state is `rx`.                                                          *)
(***************************************************************************)

CONSTANTS
    MapKey, Numbers, Stamps,  \* keys, numbers and timestamps of the documents
    Asynch,                   \* the values of asynch_metrics to try
    MaxOpen, MaxTokens,       \* bounds: nesting, and tokens of one upload
    MaxItems                  \* bound: elements of an array
ASSUME HttptrapAssumption == /\ Asynch \subseteq BOOLEAN
                             /\ MaxOpen \in Nat /\ MaxTokens \in Nat /\ MaxItems \in 0..3

VARIABLES
    immediate,   \* asynch_metrics
    open,        \* the sender's open containers: [kind, name, keys, vals, ts, fl]
    rx,          \* struct rest_json_payload
    keeping,     \* immediate_metrics: the set of [name, n], the n-th one accrued
    logs,        \* bundles logged for this upload
    said,        \* what the document says: a sequence of metrics
    noted,       \* what the callbacks recorded: the same
    accrued,     \* number of metrics handed to metric_local_accrue
    lastKey,     \* the last key the sender wrote
    tokens, upload   \* tokens so far; "new", "reading", or how it ended

httptrapVars == <<immediate, open, rx, keeping, logs, said, noted, accrued,
                  lastKey, tokens, upload>>

ArrayIndex == <<"0", "1", "2", "3">>
Level == 0..MaxOpen
Null == <<>>
SpecialKey == {"_type", "_value", "_ts", "_fl"}

Fresh == [depth |-> -1, keys |-> [d \in Level |-> <<>>], array_depth |-> [d \in Level |-> 0],
          special |-> "", saw |-> {}, ts |-> <<>>, vop |-> "replace", last_value |-> <<>>]

\* set_array_key: an element of an array is named by its index, then counted.
set_array_key(r) ==
    IF r.depth < 0 \/ r.array_depth[r.depth] = 0 THEN r
    ELSE LET up == IF r.depth = 0 THEN <<>> ELSE r.keys[r.depth - 1][1] IN
         [r EXCEPT !.keys[r.depth] = <<Append(up, ArrayIndex[r.array_depth[r.depth]])>>,
                   !.array_depth[r.depth] = @ + 1]

\* metric_local_track_or_log: a second metric of a name flushes the first ones.
Collide(m) ==
    IF \E k \in keeping : k.name = m.name
    THEN [kept |-> {m}, logged |-> Append(logs, keeping)]
    ELSE [kept |-> keeping \union {m}, logged |-> logs]

\* A metric is recorded and, if it is to be logged at once, kept.
Record(m, atOnce) ==
    /\ noted' = Append(noted, m)
    /\ IF atOnce
       THEN LET c == Collide([name |-> m.name, n |-> accrued + 1]) IN
            keeping' = c.kept /\ logs' = c.logged /\ accrued' = accrued + 1
       ELSE UNCHANGED <<keeping, logs, accrued>>

NothingRecorded == UNCHANGED <<noted, keeping, logs, accrued>>

\* A metric as recorded: its values in the order sent, whether it was given a
\* type, the operation asked for, and its own timestamp.
Metric(name, values, typed, vop, ts) ==
    [name |-> name, values |-> values, typed |-> typed, vop |-> vop, ts |-> ts]

\* The sender's side: what may be written next.
Top == Last(open)
InExt == open # <<>> /\ Top.kind = "ext"
ValueDue == open # <<>> /\ CASE Top.kind = "map" -> Top.key # ""
                             [] Top.kind = "arr" -> Top.n < MaxItems
                             [] OTHER -> FALSE
Child == IF open = <<>> THEN <<>>
         ELSE IF Top.kind = "map" THEN Append(Top.name, Top.key)
              ELSE Append(Top.name, ArrayIndex[Top.n + 1])
Served == IF open = <<>> THEN open
          ELSE [open EXCEPT ![Len(open)].n = @ + 1, ![Len(open)].key = ""]
Opened(kind) == Append(Served, [kind |-> kind, name |-> Child, key |-> "", n |-> 0,
                                seen |-> {}, vals |-> <<>>, ts |-> <<>>, fl |-> "replace"])
\* rest_get_json_upload: another token of the pieces read so far.
Token == upload = "reading" /\ tokens < MaxTokens /\ tokens' = tokens + 1

\* cb_null, cb_number on a plain value: the metric has the name of its place.
PlainValue(v) ==
    LET r == set_array_key(rx)
        name == r.keys[r.depth][1]
    IN
    /\ Token /\ ValueDue /\ lastKey \notin SpecialKey
    /\ open' = Served
    /\ said' = Append(said, Metric(Child, v, FALSE, "replace", <<>>))
    /\ rx' = r
    /\ IF r.special # "" \/ r.depth < 0 THEN NothingRecorded
       ELSE Record(Metric(name, v, FALSE, "replace", r.ts), immediate \/ r.ts # <<>>)
    /\ UNCHANGED <<immediate, lastKey, upload>>

\* cb_number for an element of a _value that is an array, or for _value itself.
ExtValue(v) ==
    /\ Token
    /\ \/ InExt /\ Top.key = "_value"
       \/ open # <<>> /\ Top.kind = "vals" /\ Top.n < MaxItems
    /\ open' = IF InExt THEN [open EXCEPT ![Len(open)].vals = <<v>>, ![Len(open)].key = ""]
               ELSE [open EXCEPT ![Len(open)].vals = Append(@, v), ![Len(open)].n = @ + 1]
    /\ LET r == set_array_key(rx) IN
       rx' = IF r.special = "_value" THEN [r EXCEPT !.last_value = <<v>> \o @] ELSE r
    /\ NothingRecorded /\ UNCHANGED <<immediate, said, lastKey, upload>>

\* cb_number for _ts, cb_string for _type (of a number) and _fl.
ExtAttribute(key, v) ==
    /\ Token /\ InExt /\ Top.key = key
    /\ open' = [open EXCEPT ![Len(open)] =
                  [@ EXCEPT !.key = "",
                            !.ts = IF key = "_ts" THEN <<v>> ELSE @,
                            !.fl = IF key = "_fl" THEN v ELSE @]]
    /\ LET r == set_array_key(rx) IN
       rx' = CASE r.special = "_ts" -> [r EXCEPT !.saw = @ \union {"_ts"}, !.ts = <<v>>]
               [] r.special = "_type" -> [r EXCEPT !.saw = @ \union {"_type"}]
               [] r.special = "_fl" -> [r EXCEPT !.vop = v]
    /\ NothingRecorded /\ UNCHANGED <<immediate, said, lastKey, upload>>

\* cb_start_map
StartMap(kind) ==
    /\ Token /\ Len(open) < MaxOpen
    /\ open = <<>> \/ ValueDue
    /\ kind = "ext" => open # <<>>
    /\ open' = Opened(kind)
    /\ rx' = LET r == set_array_key(rx) IN [r EXCEPT !.depth = @ + 1]
    /\ NothingRecorded /\ UNCHANGED <<immediate, said, lastKey, upload>>

\* cb_start_array, of elements or of the values of an extended metric
StartArray ==
    /\ Token /\ Len(open) < MaxOpen
    /\ open = <<>> \/ ValueDue \/ (InExt /\ Top.key = "_value")
    /\ open' = IF InExt THEN Append([open EXCEPT ![Len(open)].key = ""],
                                    [Top EXCEPT !.kind = "vals", !.n = 0])
               ELSE Opened("arr")
    /\ rx' = LET r == set_array_key(rx) IN
             [r EXCEPT !.depth = @ + 1, !.array_depth[r.depth + 1] = @ + 1]
    /\ NothingRecorded /\ UNCHANGED <<immediate, said, lastKey, upload>>

\* cb_end_array
EndArray ==
    /\ Token /\ open # <<>> /\ Top.kind \in {"arr", "vals"}
    /\ open' = IF Top.kind = "arr" THEN Front(open)
               ELSE [Front(open) EXCEPT ![Len(open) - 1].vals = Top.vals]
    /\ rx' = [rx EXCEPT !.array_depth[rx.depth] = 0, !.depth = @ - 1]
    /\ NothingRecorded /\ UNCHANGED <<immediate, said, lastKey, upload>>

\* cb_map_key: a special key keeps the name of the object, or of nothing.
MapKeyed(k) ==
    /\ Token /\ open # <<>> /\ Top.kind \in {"map", "ext"} /\ Top.key = ""
    /\ IF Top.kind = "map" THEN k \in MapKey
       ELSE k \in SpecialKey \ Top.seen
    /\ lastKey' = k
    /\ open' = [open EXCEPT ![Len(open)].key = k, ![Len(open)].seen = @ \union {k}]
    /\ LET up == IF rx.depth = 0 THEN <<>> ELSE rx.keys[rx.depth - 1] IN
       rx' = CASE k \in {"_type", "_value"} ->
                    [rx EXCEPT !.keys[rx.depth] = up, !.special = k,
                               !.saw = IF k = "_value" THEN @ \union {k} ELSE @]
               [] k \in {"_ts", "_fl"} -> [rx EXCEPT !.keys[rx.depth] = <<>>, !.special = k]
               [] OTHER -> [rx EXCEPT !.special = "",
                              !.keys[rx.depth] = <<Append(IF up = <<>> THEN <<>> ELSE up[1], k)>>]
    /\ NothingRecorded /\ UNCHANGED <<immediate, said, upload>>

\* The end of cb_end_map: nothing of the object is left.
ObjectDone(r) == [r EXCEPT !.depth = @ - 1, !.saw = {}, !.ts = <<>>, !.vop = "replace",
                           !.last_value = <<>>]

\* Averages over a period make no sense for metrics logged at once.
Vop(vop) == IF immediate /\ vop = "average" THEN "replace" ELSE vop

\* cb_end_map: the metric of an extended object is recorded, and the state of
\* the object is dropped.
EndMap ==
    LET name == rx.keys[IF rx.depth = 0 THEN 0 ELSE rx.depth - 1]
        complex == "_value" \in rx.saw /\ rx.saw \cap {"_type", "_ts"} # {} /\ rx.last_value # <<>>
    IN
    /\ Token /\ open # <<>> /\ Top.kind \in {"map", "ext"} /\ Top.key = ""
    /\ open' = Front(open)
    /\ said' = IF Top.kind = "ext" /\ Top.vals # <<>> /\ Top.seen \cap {"_type", "_ts"} # {}
               THEN Append(said, Metric(Top.name, Top.vals, "_type" \in Top.seen, Vop(Top.fl), Top.ts))
               ELSE said
    /\ IF complex
       THEN Record(Metric(name[1], Reverse(rx.last_value), "_type" \in rx.saw, Vop(rx.vop), rx.ts),
                   immediate \/ rx.ts # <<>>)
       ELSE NothingRecorded
    /\ rx' = ObjectDone(rx)
    /\ UNCHANGED <<immediate, lastKey, upload>>

\* rest_httptrap_handler, first call: no such check, a secret that does not
\* match, or the payload is set up and the connection moves to its thread.
Begin(how) ==
    /\ upload = "new" /\ upload' = how
    /\ UNCHANGED <<immediate, open, rx, keeping, logs, said, noted, accrued, lastKey, tokens>>

\* rest_json_payload_free flushes what is kept.
rest_json_payload_free == logs' = Append(logs, keeping) /\ keeping' = {}

\* The upload ends: read to its end and answered, refused by the parser or
\* cut off, or the connection goes away between two pieces.
EndUpload(how) ==
    /\ upload = "reading" /\ upload' = how
    /\ rest_json_payload_free
    /\ UNCHANGED <<immediate, open, rx, said, noted, accrued, lastKey, tokens>>

HttptrapInit ==
    /\ immediate \in Asynch
    /\ open = <<>> /\ rx = Fresh
    /\ keeping = {} /\ logs = <<>> /\ said = <<>> /\ noted = <<>> /\ accrued = 0
    /\ lastKey = "" /\ tokens = 0 /\ upload = "new"

HttptrapNext ==
    \/ \E v \in {<<n>> : n \in Numbers} \union {Null} : PlainValue(v)
    \/ \E v \in Numbers : ExtValue(v)
    \/ \E v \in Stamps : ExtAttribute("_ts", v)
    \/ ExtAttribute("_type", "n")
    \/ \E v \in {"average", "accumulate"} : ExtAttribute("_fl", v)
    \/ \E k \in {"map", "ext"} : StartMap(k)
    \/ \E k \in MapKey \union SpecialKey : MapKeyed(k)
    \/ EndMap \/ StartArray \/ EndArray
    \/ \E how \in {"reading", "403", "404"} : Begin(how)
    \/ \E how \in {"200", "406", "gone"} : EndUpload(how)

-----------------------------------------------------------------------------
(* Every value of the document is recorded once, in order, under the path  *)
(* of keys and indices that leads to it, with the value and timestamp its  *)
(* own object gives: nothing of an object or array read earlier (its type, *)
(* its timestamp, its operation, its values, the last special key) shows   *)
(* in a later one (the httptrap_yajl_cb_* callbacks).                      *)
RecordedAsSaid == noted = said

(* Every metric handed over to be logged at once is in exactly one bundle  *)
(* when the upload has ended, whatever names were repeated and however it  *)
(* ended; before that it is in one bundle or kept                          *)
(* (metric_local_track_or_log, rest_json_payload_free).                    *)
AccruedLoggedOnce ==
    \A i \in 1..accrued :
        Cardinality({b \in DOMAIN logs : \E m \in logs[b] : m.n = i})
          + (IF \E m \in keeping : m.n = i THEN 1 ELSE 0) = 1
=============================================================================
