--------------------------- MODULE MetricValues ----------------------------
(***************************************************************************)
(* Metrics as text: log lines, guessed types and rollups of values (first  *)
(* three parts), and metric names with their tags (fourth part).           *)
(***************************************************************************)
EXTENDS Integers, Sequences, SequencesExt, FiniteSetsExt

(***************************************************************************)
(* The lines checks are logged as and what becomes of them:                *)
(*   noit_check_log.c          the metrics of a check become bundles, one   *)
(*                             line each, in the protobuf form (B1, B2) or  *)
(*                             the flatbuffer form (BF, with noit_fb.c);    *)
(*   noit_check_log_helpers.c  a bundle becomes lines of one metric each;   *)
(*   noit_message_decoder.c    such a line becomes a message.               *)
(*                                                                         *)
(* A line is the sequence of its tab-separated fields; compression and     *)
(* base 64 of a payload are left out.  Times are milliseconds, 0 for none.  *)
(***************************************************************************)

CONSTANTS LoggedMetrics,     \* what a check may have set
          StatsTimes,        \* whence of its stats
          metrics_per_bundle, MaxLogged

VARIABLES metrics,      \* the check's metrics in the order of its hash table
          whence        \* of its current stats
logVars == <<metrics, whence>>

ASSUME LogAssumption ==
  /\ metrics_per_bundle \in Nat \ {0} /\ MaxLogged \in Nat
  /\ \A m \in LoggedMetrics :
       m \in [name : STRING, type : {"i", "n", "s", "h"}, value : STRING, whence : Nat, skip : BOOLEAN]

LogInit == metrics = <<>> /\ whence \in StatsTimes
LogNext == /\ Len(metrics) < MaxLogged
           /\ \E m \in LoggedMetrics : metrics' = Append(metrics, m)
           /\ UNCHANGED whence

NullText == "[[null]]"
\* The field of a time, and of the name of a broker.
Ts(t) == [digits |-> TRUE, v |-> t]
Word(w) == [digits |-> FALSE, v |-> w]
\* The metrics the filterset lets through and nobody logged before.
Loggable(s) == SelectSeq(s, LAMBDA m : ~m.skip)
Chunk(s, b) == SubSeq(s, (b - 1) * metrics_per_bundle + 1,
                      IF b * metrics_per_bundle < Len(s) THEN b * metrics_per_bundle ELSE Len(s))

\* The time of a bundle's line while its metrics are added, from t.
BundleTime(t, m) == IF m.whence = 0 THEN whence ELSE IF m.whence > t THEN m.whence ELSE t
Latest(s) == FoldLeft(BundleTime, 0, s)

\* noit_check_log_bundle_serialize: as many bundles as all metrics would
\* fill, the first with the status; the line has the latest time of its
\* metrics if that is before the stats'.
noit_check_log_bundle_serialize ==
  LET n_bundles == (Max({Len(metrics), 1}) - 1) \div metrics_per_bundle + 1 IN
  [b \in 1 .. n_bundles |->
     LET ms == Chunk(Loggable(metrics), b) IN
     [form |-> "B1", stamped |-> TRUE, time |-> IF Latest(ms) # 0 /\ Latest(ms) < whence THEN Latest(ms) ELSE whence,
      status |-> (b = 1), batch |-> 0, metrics |-> ms]]

\* flatbuffer_encode_metric: the value of a sample, nothing for a type it
\* does not know.
flatbuffer_encode_metric(m) ==
  [name |-> m.name, time |-> m.whence,
   union |-> CASE m.type = "h" -> "NONE"
               [] m.value = "null" -> IF m.type = "s" THEN "AbsentStringValue" ELSE "AbsentNumericValue"
               [] OTHER -> m.type,
   value |-> m.value]

\* noit_check_log_bundle_fb_serialize: a batch when one is full, and the
\* rest; no line without a metric.
noit_check_log_bundle_fb_serialize ==
  LET ms == Loggable(metrics)
      n == (Len(ms) + metrics_per_bundle - 1) \div metrics_per_bundle IN
  [b \in 1 .. n |->
     LET c == Chunk(ms, b) IN
     [form |-> "BF", stamped |-> TRUE, time |-> IF whence = 0 \/ (Latest(c) # 0 /\ Latest(c) < whence) THEN Latest(c) ELSE whence,
      status |-> FALSE, batch |-> whence, metrics |-> [i \in DOMAIN c |-> flatbuffer_encode_metric(c[i])]]]

\* noit_check_log_metric, one metric by itself: in either form, the second
\* one without the field of the time.
noit_check_log_bundle_metric_serialize(m) ==
  [form |-> "B1", stamped |-> TRUE, time |-> IF m.whence # 0 THEN m.whence ELSE whence,
   status |-> FALSE, batch |-> 0, metrics |-> <<m>>]
noit_check_log_bundle_metric_flatbuffer_serialize_log(m) ==
  [form |-> "BF", stamped |-> FALSE, time |-> 0, status |-> FALSE, batch |-> whence,
   metrics |-> <<flatbuffer_encode_metric(m)>>]
noit_check_log_metric(m, flatbuffer) ==
  IF m.skip THEN <<>>
  ELSE <<IF flatbuffer THEN noit_check_log_bundle_metric_flatbuffer_serialize_log(m)
         ELSE noit_check_log_bundle_metric_serialize(m)>>

\* noit_stats_snprint_metric_value: a null pointer is written as text, a
\* double with twelve digits.
noit_stats_snprint_metric_value(m) == IF m.value = "null" THEN NullText ELSE m.value

\* noit_check_log_b12_to_sm.  A metric of another type leaves a hole.
noit_check_log_b12_to_sm(line) ==
  (IF line.status THEN <<<<"S", Ts(line.time), "id">>>> ELSE <<>>) \o
  [i \in DOMAIN line.metrics |->
     LET m == line.metrics[i] IN
     IF m.type = "h" THEN <<>>
     ELSE <<"M", Ts(IF m.whence # 0 THEN m.whence ELSE line.time), "id", m.name, m.type,
            noit_stats_snprint_metric_value(m)>>]

\* The text of a sample: six digits after the point for a double.
SampleText(s) ==
  CASE s.union \in {"AbsentNumericValue", "AbsentStringValue"} -> NullText
    [] s.union = "n" /\ s.value = "tiny" -> "0"
    [] OTHER -> s.value
SampleType(s) == CASE s.union = "AbsentNumericValue" -> "n" [] s.union = "AbsentStringValue" -> "s"
                   [] OTHER -> s.union

\* noit_check_log_bf_to_sm: a sample without a time has the batch's; a line
\* that lacks a field is bad.
noit_check_log_bf_to_sm(line) ==
  IF ~line.stamped THEN <<>> ELSE
  [i \in DOMAIN line.metrics |->
     LET s == line.metrics[i] IN
     IF s.union = "NONE" THEN <<>>
     ELSE <<"M", Ts(IF s.time # 0 THEN s.time ELSE line.batch), "id", s.name, SampleType(s), SampleText(s)>>]

\* noit_check_log_b_to_sm.
noit_check_log_b_to_sm(line) ==
  IF line.form = "BF" THEN noit_check_log_bf_to_sm(line) ELSE noit_check_log_b12_to_sm(line)

\* noit_is_timestamp: digits, a point and three digits.
noit_is_timestamp(field) == field.digits

\* noit_message_decoder_parse_line, with the broker's name in the second
\* field or not (has_noit -1: find out).
noit_message_decoder_parse_line(fields, has_noit) ==
  LET noit == IF has_noit = -1 THEN ~noit_is_timestamp(fields[2]) ELSE has_noit = 1
      at(i) == fields[IF noit THEN i + 1 ELSE i] IN
  [kind |-> fields[1], noit |-> IF noit THEN fields[2].v ELSE "", whence_ms |-> at(2).v,
   name |-> IF fields[1] = "M" THEN at(4) ELSE "",
   type |-> IF fields[1] = "M" THEN at(5) ELSE "",
   is_null |-> fields[1] = "M" /\ at(6) = NullText,
   value |-> IF fields[1] = "M" THEN at(6) ELSE ""]

\* What a reader makes of the lines: with a broker's name put in, as the
\* journal stores single lines, or as they are.
RowsOf(lines) == FlattenSeq([i \in DOMAIN lines |->
                  SelectSeq(noit_check_log_b_to_sm(lines[i]), LAMBDA r : r # <<>>)])
WithNoit(row, noit) == <<row[1], Word(noit)>> \o Tail(row)
ReadBack(lines, noit, has_noit) ==
  LET rows == RowsOf(lines) IN
  [i \in DOMAIN rows |->
     noit_message_decoder_parse_line(IF noit = "" THEN rows[i] ELSE WithNoit(rows[i], noit), has_noit)]

\* What should be read of one metric, and of all.
Meant(m, noit) ==
  [kind |-> "M", noit |-> noit, whence_ms |-> IF m.whence = 0 THEN whence ELSE m.whence,
   name |-> m.name, type |-> m.type, is_null |-> m.value \in {"null", NullText},
   value |-> IF m.value = "null" THEN NullText ELSE m.value]
Ms(msgs) == SelectSeq(msgs, LAMBDA x : x.kind = "M")
PlainMetrics == SelectSeq(Loggable(metrics), LAMBDA m : m.type # "h")

(* Every metric a check logs is read back once, in order, under its name,   *)
(* with its own time or the time of the stats, its type and its value, from *)
(* either form, with or without the broker's name in the line: serializing, *)
(* splitting into single lines and parsing together.                        *)
MetricsReadBack ==
  \A noit \in {"", "broker"} : \A has \in {-1, IF noit = "" THEN 0 ELSE 1} :
    /\ Ms(ReadBack(noit_check_log_bundle_serialize, noit, has)) =
         [i \in DOMAIN PlainMetrics |-> Meant(PlainMetrics[i], noit)]
    /\ \A i \in DOMAIN PlainMetrics :
         ReadBack(noit_check_log_metric(PlainMetrics[i], FALSE), noit, has) = <<Meant(PlainMetrics[i], noit)>>
    /\ LET fb == Ms(ReadBack(noit_check_log_bundle_fb_serialize, noit, has)) IN
       /\ Len(fb) = Len(PlainMetrics)
       /\ \A i \in DOMAIN fb :
            LET w == Meant(PlainMetrics[i], noit) IN
            /\ fb[i].name = w.name /\ fb[i].whence_ms = w.whence_ms /\ fb[i].is_null = w.is_null
            /\ ~w.is_null => fb[i].type = w.type
            /\ PlainMetrics[i].value # "tiny" => fb[i].value = w.value

(* A bundle's line carries the time of the stats, or the latest time of its *)
(* metrics if all are older ("use the latest whence of metrics seen"), in   *)
(* both forms and however the metrics are ordered.                          *)
LinesTimed ==
  whence # 0 =>
    \A line \in Range(noit_check_log_bundle_serialize) \cup Range(noit_check_log_bundle_fb_serialize) :
      LET times == {IF line.form = "BF"
                    THEN (IF line.metrics[i].time = 0 THEN whence ELSE line.metrics[i].time)
                    ELSE (IF line.metrics[i].whence = 0 THEN whence ELSE line.metrics[i].whence) :
                    i \in DOMAIN line.metrics} IN
      line.time = IF times = {} THEN whence ELSE Min({whence, Max(times)})

-----------------------------------------------------------------------------
(***************************************************************************)
(* noit_metric_guess_type (noit_check.c): which type the text of a value   *)
(* is given.  The text is trimmed, a per cent sign after its first word is *)
(* cut off, and the word is read as a number unless what follows it has a  *)
(* digit.  Characters are representatives of their classes: "0" and "1"    *)
(* stand for the digits, "-" for the signs and "x" for all others.         *)
(***************************************************************************)

CONSTANT MaxText   \* texts of up to this length are tried

Char == {"-", "0", "1", ".", "e", "%", " ", "x"}
Digit == {"0", "1"}

ASSUME GuessAssumption == MaxText \in Nat

VARIABLE text

\* Both ends of s without spaces; the first character is kept from the right.
Trimmed(s) ==
    LET solid == {i \in DOMAIN s : s[i] # " "}
    IN  IF solid = {} THEN <<>> ELSE SubSeq(s, Min(solid), Max(solid))

FirstWord(s) ==
    LET spaces == {i \in DOMAIN s : s[i] = " "}
    IN  IF spaces = {} THEN s ELSE SubSeq(s, 1, Min(spaces) - 1)

Unsuffixed(w) == IF Len(w) > 1 /\ Last(w) = "%" THEN Front(w) ELSE w

\* The labels and tests of the scanner, one character at a time.
Scan(at, c) ==
    CASE at = "start" /\ c = "-" -> "sign"
      [] at \in {"start", "sign", "zero", "int"} /\ c = "." -> "point"
      [] at \in {"start", "sign"} /\ c = "0" -> "zero"
      [] at \in {"start", "sign"} /\ c = "1" -> "int"
      [] at = "int" /\ c \in Digit -> "int"
      [] at \in {"point", "frac"} /\ c \in Digit -> "frac"
      [] at = "frac" /\ c = "e" -> "e"
      [] at = "e" /\ c = "-" -> "esign"
      [] at \in {"esign", "exp"} /\ c \in Digit -> "exp"
      [] OTHER -> "bad"

\* scanint, scandouble and notanumber
TypeAt(at) ==
    CASE at \in {"zero", "int"} -> "integer"
      [] at \in {"frac", "exp"} -> "double"
      [] OTHER -> "string"

GuessedType(s) ==
    LET t == Trimmed(s)
        w == FirstWord(t)
        trailer == SubSeq(t, Len(w) + 1, Len(t))
    IN  IF \E i \in DOMAIN trailer : trailer[i] \in Digit THEN "string"
        ELSE TypeAt(FoldLeft(Scan, "start", Unsuffixed(w)))

\* All texts, one character after the other.
GuessInit == text = <<>>
GuessNext == Len(text) < MaxText /\ \E c \in Char : text' = Append(text, c)

-----------------------------------------------------------------------------
(* The forms that the comment in noit_metric_guess_type gives *)

Digits(s) == s # <<>> /\ \A i \in DOMAIN s : s[i] \in Digit
Whole(s) == s = <<"0">> \/ (Digits(s) /\ s[1] # "0")
Fraction(s) == \E i \in DOMAIN s :
    /\ s[i] = "." /\ Digits(SubSeq(s, i + 1, Len(s)))
    /\ i = 1 \/ Whole(SubSeq(s, 1, i - 1))
Scientific(s) == \E i \in 1..(Len(s) - 1) :
    /\ s[i] = "e" /\ s[i + 1] = "-" /\ Digits(SubSeq(s, i + 2, Len(s)))
    /\ Fraction(SubSeq(s, 1, i - 1))
Unsigned(s) == IF s # <<>> /\ s[1] = "-" THEN Tail(s) ELSE s

\* What comes around a number: spaces, a per cent sign, words without digits.
Around(s, Form(_)) ==
    \E i \in DOMAIN s, j \in DOMAIN s :
       /\ i <= j /\ Form(Unsigned(SubSeq(s, i, j)))
       /\ \A k \in 1..(i - 1) : s[k] = " "
       /\ \A k \in (j + 1)..Len(s) : s[k] \notin Digit
       /\ j < Len(s) => (s[j + 1] = " " \/ (s[j + 1] = "%" /\ (j + 1 < Len(s) => s[j + 2] = " ")))

\* A text is given a number's type exactly when it has one of the forms of the
\* comment: an integer when it is a whole number, a double when it has a
\* fraction, with or without an exponent.  (An exponent without a fraction,
\* which the comment allows as well, makes a string.)
GuessFollowsForms ==
    /\ (GuessedType(text) = "integer") <=> Around(text, Whole)
    /\ (GuessedType(text) = "double") <=> (Around(text, Fraction) \/ Around(text, Scientific))

-----------------------------------------------------------------------------
(***************************************************************************)
(* noit_metric_rollup.c: numbers of several integer types accumulated one  *)
(* at a time into their count, average, variance, derivative and counter.  *)
(* Integers are of Width bits; the code's doubles are exact here, as       *)
(* fractions <<numerator, denominator>>, and a NaN is <<>>.                *)
(***************************************************************************)

CONSTANTS
  Width,           \* bits of the widest integers (64)
  RollupTimes,     \* times from one value to the next; negative: it is late
  MaxRolled        \* values

RollupAssumption ==
  /\ Width \in Nat \ {0} /\ RollupTimes \subseteq Int /\ MaxRolled \in Nat
ASSUME RollupAssumption

Signed == -(2 ^ (Width - 1)) .. 2 ^ (Width - 1) - 1
UnsignedValues == 0 .. 2 ^ Width - 1
ToSigned(n) == LET m == n % (2 ^ Width)
               IN  IF m >= 2 ^ (Width - 1) THEN m - 2 ^ Width ELSE m

RollupNumbers == [type : {"int64"}, n : Signed] \cup [type : {"uint64"}, n : UnsignedValues]

VARIABLES
  accu,            \* the accumulator
  last_value,      \* <<>> or the last value, with its time
  rolled           \* the values so far: [v, at]

rollupVars == <<accu, last_value, rolled>>

\* Fractions.
Fr(n) == <<n, 1>>
TimesFr(k, f) == <<k * f[1], f[2]>>
Plus(f, g) == IF f[2] = g[2] THEN <<f[1] + g[1], f[2]>>
              ELSE <<f[1] * g[2] + g[1] * f[2], f[2] * g[2]>>
OverFr(f, k) == <<f[1], f[2] * k>>
Square(f) == <<f[1] * f[1], f[2] * f[2]>>
SameFr(f, g) == f[1] * g[2] = g[1] * f[2]

RollupInit ==
  /\ accu = [count |-> 0, avg |-> Fr(0), var |-> Fr(0), drun |-> 0,
             derivative |-> <<>>, crun |-> 0, counter |-> <<>>]
  /\ last_value = <<>> /\ rolled = <<>>

-----------------------------------------------------------------------------
\* calculate_change: integers of one kind are subtracted in their width, and
\* only a difference that does not fit is left to the doubles.
calculate_change(v1, v2) ==
  LET diff == ToSigned(v2.n - v1.n)
      exact == v2.n - v1.n
  IN  IF v1.type = "int64" /\ v2.type = "int64"
      THEN IF (v1.n > v2.n /\ diff > 0) \/ (v2.n > v1.n /\ diff < 0)
           THEN exact ELSE diff
      ELSE IF v1.n >= 0 /\ v2.n >= 0
      THEN IF v2.n >= v1.n THEN exact
           ELSE IF diff > 0 THEN exact ELSE diff
      ELSE exact

\* nnt_multitype_accum_counts, of one value with the change that led to it.
AverageOf(a, n) == OverFr(Plus(TimesFr(a.count, a.avg), Fr(n)), a.count + 1)

VarianceOf(a, n) ==
  Plus(OverFr(Plus(TimesFr(a.count, Plus(a.var, Square(a.avg))), Square(Fr(n))),
             a.count + 1),
       TimesFr(-1, Square(AverageOf(a, n))))

Weighted(run, f, vrun, g) ==
  IF f = <<>> \/ run = 0 THEN g
  ELSE IF g = <<>> THEN f
  ELSE OverFr(Plus(TimesFr(run, f), TimesFr(vrun, g)), run + vrun)

nnt_multitype_accum_counts(a, n, dy, dt) ==
  LET d == IF dt > 0 THEN <<dy, dt>> ELSE <<>>
      up == d # <<>> /\ dy >= 0
  IN  [count |-> a.count + 1, avg |-> AverageOf(a, n), var |-> VarianceOf(a, n),
       drun |-> a.drun + dt,
       derivative |-> IF a.drun + dt = 0 THEN a.derivative
                      ELSE Weighted(a.drun, a.derivative, dt, d),
       crun |-> IF up THEN a.crun + dt ELSE a.crun,
       counter |-> IF a.crun + (IF up THEN dt ELSE 0) = 0 THEN a.counter
                   ELSE Weighted(a.crun, a.counter, IF up THEN dt ELSE 0,
                                 IF up THEN d ELSE <<>>)]

\* noit_metric_rollup_accumulate_numeric: a value no newer than the first is
\* not counted, and yet becomes the last value.
noit_metric_rollup_accumulate_numeric(v, dt) ==
  /\ Len(rolled) < MaxRolled
  /\ LET at == IF rolled = <<>> THEN 0 ELSE rolled[Len(rolled)].at + dt
     IN  /\ rolled' = Append(rolled, [v |-> v, at |-> at])
         /\ last_value' = <<v>>
         /\ accu' = IF rolled # <<>> /\ rolled[1].at >= at THEN accu
              ELSE IF last_value # <<>>
              THEN nnt_multitype_accum_counts(
                     accu, v.n, calculate_change(last_value[1], v), dt)
              ELSE [accu EXCEPT !.count = 1, !.avg = Fr(v.n)]

RollupNext ==
  \E v \in RollupNumbers, dt \in RollupTimes : noit_metric_rollup_accumulate_numeric(v, dt)

-----------------------------------------------------------------------------
RECURSIVE SumTo(_, _)
SumTo(f, n) == IF n = 0 THEN 0 ELSE f[n] + SumTo(f, n - 1)

(* Accumulating values of increasing times gives what the values say       *)
(* together: their mean and population variance; the change from the first  *)
(* to the last over the time between them; and the rise of the intervals    *)
(* that rose over their time.  No difference of two integers of the full    *)
(* width wraps.                                                             *)
RollupExact ==
  (rolled # <<>> /\ \A i \in 2..Len(rolled) : rolled[i].at > rolled[i-1].at) =>
    LET n == Len(rolled)
        val == [i \in 1..n |-> rolled[i].v.n]
        sum == SumTo(val, n)
        squares == SumTo([i \in 1..n |-> val[i] * val[i]], n)
        rose == [i \in 1..n |-> i > 1 /\ rolled[i].at > rolled[i-1].at
                                /\ val[i] >= val[i-1]]
        rise == SumTo([i \in 1..n |-> IF rose[i] THEN val[i] - val[i-1] ELSE 0], n)
        time == SumTo([i \in 1..n |-> IF rose[i] THEN rolled[i].at - rolled[i-1].at
                                      ELSE 0], n)
    IN  /\ accu.count = n
        /\ SameFr(accu.avg, <<sum, n>>)
        /\ SameFr(accu.var, <<squares * n - sum * sum, n * n>>)
        /\ accu.derivative # <<>> =>
             SameFr(accu.derivative, <<val[n] - val[1], rolled[n].at>>)
        /\ time > 0 => SameFr(accu.counter, <<rise, time>>)

-----------------------------------------------------------------------------
(***************************************************************************)
(* The two implementations of metric names with tags: the canonical form   *)
(* noit_metric_canonicalize gives a name when noitd records it             *)
(* (noit_metric.c), and noit_metric_process_tags, with which every reader  *)
(* of a line takes the name apart again (noit_message_decoder.c).          *)
(*                                                                         *)
(* A text is a sequence of tokens: a character, one of the markers |ST[    *)
(* and |MT{, or a part written in base 64, b"...", which holds the         *)
(* characters it stands for.  "L" is a run of characters too long for a    *)
(* tag and "l" what replaces it.  A part in base 64 is enumerated only     *)
(* where it is a whole key or a whole value.                               *)
(***************************************************************************)

CONSTANTS Letters,              \* tokens the names are written with
          Encoded,              \* character sequences written in base 64
          Openings,             \* the texts to begin with
          MAX_TAGS, MAX_TAG_REPLACEMENTS,
          MaxNameTokens            \* bound: tokens appended

VARIABLES written, appended
nameVars == <<written, appended>>

ASSUME NamesAssumption ==
  /\ MAX_TAGS \in Nat \ {0} /\ MAX_TAG_REPLACEMENTS \in Nat
  /\ MaxNameTokens \in Nat

ST == "|ST["
MT == "|MT{"
Chr(c) == [enc |-> FALSE, of |-> <<c>>]
B64(s) == [enc |-> TRUE, of |-> s]
Is(tok, c) == tok = Chr(c)

KeyChars == {"a", "c", "l", "L"}
ValueChars == KeyChars \cup {":"}

\* noit_metric_tagset_is_taggable_part: a part in base 64 or good characters.
TaggablePart(p, chars) ==
  \/ Len(p) = 1 /\ p[1].enc
  \/ \A i \in DOMAIN p : ~p[i].enc /\ p[i].of[1] \in chars

\* The position of the first c in s, Len(s) + 1 if there is none.
FirstOf(s, c) == Min({i \in DOMAIN s : Is(s[i], c)} \cup {Len(s) + 1})

\* noit_metric_tags_parse_one: <<>> if the text does not start with a tag,
\* otherwise the tag's length, its key and its value.  A key followed by a
\* comma, and the value that ends the text, are not looked at.
noit_metric_tags_parse_one(s) ==
  LET comma == FirstOf(s, ",")
      colon == FirstOf(s, ":")
      tag(k, v) == <<[size |-> comma - 1, key |-> k, val |-> v]>>
  IN IF colon < comma
     THEN LET key == SubSeq(s, 1, colon - 1)
              val == SubSeq(s, colon + 1, comma - 1)
          IN IF /\ colon > 1
                /\ TaggablePart(key, KeyChars)
                /\ comma <= Len(s) => TaggablePart(val, ValueChars)
             THEN tag(key, val) ELSE <<>>
     ELSE LET key == SubSeq(s, 1, comma - 1)
          IN IF comma > 1 /\ (comma > Len(s) => TaggablePart(key, KeyChars))
             THEN tag(key, <<>>) ELSE <<>>

\* noit_metric_tagset_decode_tag.
Decode(part) == FlattenSeq([i \in DOMAIN part |-> part[i].of])
noit_metric_tagset_decode_tag(tag) == [key |-> Decode(tag.key), val |-> Decode(tag.val)]

EncodePartPlain(s, chars) == [i \in DOMAIN s |-> Chr(s[i])]   \* mutant

\* noit_metric_tagset_encode_tag, of a tag that has a key.
EncodePart(s, chars) ==
  IF \A i \in DOMAIN s : s[i] \in chars THEN [i \in DOMAIN s |-> Chr(s[i])]
  ELSE <<B64(s)>>
noit_metric_tagset_encode_tag(tag) ==
  EncodePart(tag.key, KeyChars) \o <<Chr(":")>> \o EncodePart(tag.val, ValueChars)

\* The order of the characters: the separator of key and value comes first.
Rank(c) == CASE c = " " -> 1 [] c = "," -> 2 [] c = ":" -> 3
             [] c = "L" -> 4 [] c = "]" -> 5 [] c = "a" -> 6 [] c = "c" -> 7
             [] c = "l" -> 8 [] c = ST -> 9 [] c = MT -> 10 [] c = "}" -> 11
Line(tag) == [i \in 1..(Len(tag.key) + 1 + Len(tag.val)) |->
                 IF i <= Len(tag.key) THEN Rank(tag.key[i])
                 ELSE IF i = Len(tag.key) + 1 THEN 0
                 ELSE Rank(tag.val[i - Len(tag.key) - 1])]

\* noit_metric_tags_decoded_compare: bytes first, then the shorter.
Before(x, y) ==
  LET l == Line(x)  r == Line(y)
      differ == {i \in DOMAIN l \cap DOMAIN r : l[i] # r[i]}
  IN IF differ = {} THEN Len(l) < Len(r) ELSE l[Min(differ)] < r[Min(differ)]

tags_sort_dedup(tags) == SetToSortSeq(ToSet(tags), Before)
noit_metric_tags_compact(tags) == SetToSortSeq(ToSet(tags), Before)

\* noit_metric_tags_canonical.
noit_metric_tags_canonical(tags) ==
  FlattenSeq([i \in DOMAIN tags |->
     (IF i > 1 THEN <<Chr(",")>> ELSE <<>>) \o noit_metric_tagset_encode_tag(tags[i])])

Keyed(tags) == \A i \in DOMAIN tags : tags[i].key # <<>>
Wide(tag) == \E i \in DOMAIN (tag.key \o tag.val) : "L" \in ToSet((tag.key \o tag.val)[i].of)

\* The tag that replaces one that is too long: its long parts end in a digest.
Shorter(s) == [i \in DOMAIN s |-> IF s[i] = "L" THEN "l" ELSE s[i]]
Replaced(tag) == [key |-> Shorter(Decode(tag.key)), val |-> Shorter(Decode(tag.val))]

\* build_tags on one block; have is what the earlier blocks gave.
RECURSIVE build_tags(_, _)
build_tags(s, have) ==
  IF s = <<>> \/ Len(have.tags) >= MAX_TAGS THEN <<have>>
  ELSE LET one == noit_metric_tags_parse_one(s)
       IN IF one = <<>> THEN <<>>
          ELSE LET tag  == one[1]
                   rest == SubSeq(s, tag.size + 1, Len(s))
                   now  == IF ~Wide(tag)
                           THEN [have EXCEPT !.tags = Append(@, noit_metric_tagset_decode_tag(tag))]
                           ELSE IF have.used < MAX_TAG_REPLACEMENTS /\ Decode(tag.key) # <<>>
                           THEN [tags |-> Append(have.tags, Replaced(tag)), used |-> have.used + 1]
                           ELSE have
               IN IF rest = <<>> THEN <<now>>
                  ELSE IF Len(rest) = 1 THEN <<>>
                  ELSE build_tags(Tail(rest), now)

LastOf(s, c) == Max({i \in DOMAIN s : Is(s[i], c)} \cup {0})

\* eat_up_tags: the last block of one kind, if the text ends with it.
eat_up_tags(s, prefix, suffix, have) ==
  LET start == LastOf(s, prefix)
      eaten(built) == IF built = <<>> THEN <<>>
                      ELSE <<[text |-> SubSeq(s, 1, start - 1), have |-> built[1]]>>
  IN IF start = 0 \/ ~Is(Last(s), suffix) THEN <<>>
     ELSE eaten(build_tags(SubSeq(s, start + 1, Len(s) - 1), have))

RECURSIVE EatUp(_, _, _)
EatUp(s, st, mt) ==
  LET next(e1, e2) ==
        IF e1 # <<>> THEN EatUp(e1[1].text, e1[1].have, mt)
        ELSE IF e2 # <<>> THEN EatUp(e2[1].text, [st EXCEPT !.used = e2[1].have.used], e2[1].have)
        ELSE [text |-> s, stream |-> st.tags, measurement |-> mt.tags]
  IN next(eat_up_tags(s, ST, "]", st), eat_up_tags(s, MT, "}", [mt EXCEPT !.used = st.used]))

Marked(s) == \E i \in DOMAIN s : Is(s[i], ST) \/ Is(s[i], MT)

\* noit_metric_clean_name: no blanks in front or behind, but one alone is
\* never left behind.
Blank(tok) == Is(tok, " ")
noit_metric_clean_name(s) ==
  LET solid == {i \in DOMAIN s : ~Blank(s[i])}
  IN IF solid = {} THEN <<>> ELSE SubSeq(s, Min(solid), Max(solid))

Block(tags, prefix, suffix) ==
  IF tags = <<>> THEN <<>>
  ELSE <<Chr(prefix)>> \o noit_metric_tags_canonical(tags) \o <<Chr(suffix)>>

\* noit_metric_canonicalize_ex with both kinds of tags: <<>> for an error.
noit_metric_canonicalize(s) ==
  LET none == [tags |-> <<>>, used |-> 0]
      written_as(name, st, mt) ==
        IF name = <<>> \/ Marked(name) \/ ~Keyed(st) \/ ~Keyed(mt) THEN <<>>
        ELSE << name \o Block(st, ST, "]") \o Block(mt, MT, "}") >>
      canonical(e) == written_as(noit_metric_clean_name(e.text),
                           tags_sort_dedup(e.stream), tags_sort_dedup(e.measurement))
  IN IF Cardinality({i \in DOMAIN s : Is(s[i], ",")}) > MAX_TAGS THEN <<>>
     ELSE canonical(EatUp(s, none, none))

\* noit_metric_parse_tags, of a canonical name: the name and the tags as
\* they are written.
noit_metric_parse_tags(s) ==
  LET none == [tags |-> <<>>, used |-> MAX_TAG_REPLACEMENTS]
  IN EatUp(s, none, none)
-----------------------------------------------------------------------------
\* noit_metric_tagset_builder_add_many: too long a tag is dropped, a comma may
\* end the block, and a bad tag spoils the builder.
RECURSIVE noit_metric_tagset_builder_add_many(_, _)
noit_metric_tagset_builder_add_many(s, list) ==
  IF s = <<>> THEN <<list>>
  ELSE LET one == noit_metric_tags_parse_one(s)
       IN IF one = <<>> THEN <<>>
          ELSE noit_metric_tagset_builder_add_many(
                 SubSeq(s, one[1].size + 2, Len(s)),
                 IF Wide(one[1]) THEN list
                 ELSE Append(list, noit_metric_tagset_decode_tag(one[1])))

\* noit_metric_extract_tags.
noit_metric_extract_tags(s, marker, endm, list) ==
  LET start == LastOf(s, marker)
      extracted(more) == IF more = <<>> THEN <<>>
                         ELSE <<[text |-> SubSeq(s, 1, start - 1), list |-> more[1]]>>
  IN IF start = 0 \/ ~Is(Last(s), endm) THEN <<>>
     ELSE extracted(noit_metric_tagset_builder_add_many(SubSeq(s, start + 1, Len(s) - 1), list))

RECURSIVE Extract(_, _, _)
Extract(s, st, mt) ==
  LET next(e1, e2) ==
        IF e1 # <<>> THEN Extract(e1[1].text, e1[1].list, mt)
        ELSE IF e2 # <<>> THEN Extract(e2[1].text, st, e2[1].list)
        ELSE [text |-> s, stream |-> noit_metric_tags_compact(st), measurement |-> noit_metric_tags_compact(mt)]
  IN next(noit_metric_extract_tags(s, ST, "]", st), noit_metric_extract_tags(s, MT, "}", mt))

SumOf(f(_), s) == FoldFunction(LAMBDA x, n : f(x) + n, 0, s)
CharWidth(c) == IF c \in {ST, MT} THEN 4 ELSE IF c = "L" THEN 300 ELSE IF c = "l" THEN 46 ELSE 1
Size(tok) == IF tok.enc THEN 3 + 4 * ((SumOf(CharWidth, tok.of) + 2) \div 3) ELSE CharWidth(tok.of[1])

\* noit_metric_tagset_builder_end's canonical text: none if a tag has no key.
Canon(tags, prefix, suffix) == IF Keyed(tags) THEN Block(tags, prefix, suffix) ELSE <<>>

\* noit_metric_process_tags_id_phase, first and, if the name was not
\* canonical, second phase; <<>> for a name that is refused.
NamedEntry(e) == IF e.text = <<>> \/ Marked(e.text) THEN <<>> ELSE <<e>>
noit_metric_process_tags(s) ==
  LET second(e, canon) == IF canon = s THEN NamedEntry(e)
                          ELSE NamedEntry(Extract(canon, <<>>, <<>>))
      first(e, tags) == IF SumOf(Size, e.text \o tags) > SumOf(Size, s) THEN <<>>
                        ELSE second(e, noit_metric_clean_name(e.text) \o tags)
      phases(e) == first(e, Canon(e.stream, ST, "]") \o Canon(e.measurement, MT, "}"))
  IN phases(Extract(s, <<>>, <<>>))
-----------------------------------------------------------------------------
NamesInit == written \in Openings /\ appended = 0

\* The next token; a part in base 64 stands alone between delimiters.
Delimiter(tok) == \E c \in {",", ":", "]", "}", ST, MT} : Is(tok, c)
AppendToken(tok) ==
  /\ appended < MaxNameTokens
  /\ tok.enc => written # <<>> /\ Delimiter(Last(written))
  /\ (written # <<>> /\ Last(written).enc) => Delimiter(tok)
  /\ written' = Append(written, tok)
  /\ appended' = appended + 1

NamesNext == \/ \E c \in Letters : AppendToken(Chr(c))
             \/ \E s \in Encoded : AppendToken(B64(s))
-----------------------------------------------------------------------------
Canonical == noit_metric_canonicalize(written)
Rewritten(e) == e.text \o Block(e.stream, ST, "]") \o Block(e.measurement, MT, "}")

(* What noit_metric_canonicalize returns is canonical: giving it the        *)
(* result again returns the same text, whatever tags were in front, twice,  *)
(* encoded though they need not be, too long or too many.                   *)
CanonicalFixed ==
  LET fixed(c) == c # <<>> => noit_metric_canonicalize(c[1]) = c IN fixed(Canonical)

(* What noitd records is what every reader of its feeds takes apart: the    *)
(* decoder accepts a canonical name and leaves it as it is, and the tags    *)
(* noit_metric_parse_tags finds in it are the ones the decoder finds.       *)
CanonicalDecodes ==
  LET same(c, d) == d # <<>> /\ Rewritten(d[1]) = c /\ noit_metric_parse_tags(c) = d[1]
      decodes(c) == c # <<>> => same(c[1], noit_metric_process_tags(c[1]))
  IN  decodes(Canonical)

(* The two implementations agree ("a reimplementation of the stuff in       *)
(* noit_message_decoder"): a text both accept names the same metric, unless *)
(* it has a tag too long or more tags than canonicalization keeps.          *)
DecodersAgree ==
  LET within(e) == /\ \A i \in DOMAIN written : "L" \notin ToSet(written[i].of)
                   /\ Cardinality({i \in DOMAIN written : Is(written[i], ",")}) < MAX_TAGS
                   /\ Len(e.stream) <= MAX_TAGS /\ Len(e.measurement) <= MAX_TAGS
      agree(c, d) == (c # <<>> /\ d # <<>> /\ within(Extract(written, <<>>, <<>>)))
                       => Rewritten(d[1]) = c[1]
  IN  agree(Canonical, noit_metric_process_tags(written))
=============================================================================
