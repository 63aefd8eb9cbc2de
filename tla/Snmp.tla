-------------------------------- MODULE Snmp --------------------------------
(***************************************************************************)
(* The SNMP module: requests and sessions (first part), and traps (second  *)
(* part).                                                                  *)
(***************************************************************************)
EXTENDS Integers, Sequences, FiniteSets, SequencesExt

(***************************************************************************)
(* The snmp module.  The checks of one target and protocol version share a *)
(* session, open while a run uses it.  A run asks for its object ids in    *)
(* one request or several, each with a request id of its own under which   *)
(* active_checks finds the run; it ends when every id was seen, when it    *)
(* times out, or when a request cannot be sent.  A session of version 3    *)
(* first asks the target for its engine id (a probe, with a timeout of its *)
(* own), and sends the request when that is answered.                      *)
(*                                                                         *)
(* net-snmp is external: an outstanding request or probe is answered or    *)
(* given up at most once, and forgotten when its session closes.  All      *)
(* callbacks run one after another (thread_unsafe).                        *)
(***************************************************************************)

CONSTANTS Getter,           \* the checks
          SessionOf,        \* the session of each check
          V3,               \* the sessions of protocol version 3
          ObjectIds,        \* what each check asks for
          MaxRequests, MaxGets   \* bounds: request ids, runs of each check
ASSUME SnmpAssumption == SessionOf \in [Getter -> STRING] /\ MaxRequests \in Nat /\ MaxGets \in Nat

VARIABLES
    info,       \* info[c]: [running, run, ts, timeout, seen, from, ended]
    session,    \* session[s]: [open, refcnt, engine, dont_probe]
    active,     \* active_checks: request id -> check, as pairs
    requests,   \* outstanding at net-snmp: [reqid, s, oids, c, run]
    probes,     \* probes outstanding: [s, c, run, armed]
    reqids      \* request ids given so far

snmpVars == <<info, session, active, requests, probes, reqids>>

Session == {SessionOf[c] : c \in Getter}
Closed == [open |-> FALSE, refcnt |-> 0, engine |-> FALSE, dont_probe |-> FALSE]

\* noit_snmp_session_cleanse: a session nobody uses is closed.
Cleanse(x, s) == IF x[s].refcnt = 0 /\ x[s].open THEN [x EXCEPT ![s] = Closed] ELSE x
Unused(x, s) == Cleanse([x EXCEPT ![s].refcnt = @ - 1], s)

\* The session's state, and what net-snmp forgets with those that closed.
Sessions(x, reqs, prbs) ==
    /\ session' = x
    /\ requests' = {r \in reqs : x[r.s].open}
    /\ probes' = {p \in prbs : x[p.s].open \/ p.armed}

\* A run is over: its timeout is taken back, its results logged, the check ended.
Complete(x) == [x EXCEPT !.running = FALSE, !.ts = "", !.timeout = FALSE, !.ended = @ + 1]
Begun(c) == [info[c] EXCEPT !.running = TRUE, !.run = @ + 1, !.seen = {}, !.from = {},
                            !.ts = SessionOf[c], !.timeout = TRUE]

\* noit_snmp_send: the session, opened if it has no user.
SessionOpened(s) == IF session[s].refcnt = 0 THEN [session EXCEPT ![s] = [Closed EXCEPT !.open = TRUE]]
              ELSE session

\* The requests of one run: the ids divided among some requests (separate
\* queries, or batches of max_pdu_size).
Divisions == {{ObjectIds}, {{o} : o \in ObjectIds}}
Requests(c, n, division, run) ==
    {[reqid |-> n + i, s |-> SessionOf[c], c |-> c, run |-> run,
      oids |-> (CHOOSE f \in [1..Cardinality(division) -> division] :
                   \A a, b \in 1..Cardinality(division) : a # b => f[a] # f[b])[i]]
        : i \in 1..Cardinality(division)}

\* noit_snmp_send without a probe: everything is sent, and the run is active.
Get(c) ==
    LET s == SessionOf[c] IN
    /\ ~info[c].running /\ info[c].run < MaxGets
    /\ s \in V3 => SessionOpened(s)[s].engine \/ SessionOpened(s)[s].dont_probe
    /\ \E division \in IF s \in V3 THEN {{ObjectIds}} ELSE Divisions :
        LET rs == Requests(c, reqids, division, info[c].run + 1) IN
        /\ reqids + Cardinality(rs) <= MaxRequests
        /\ reqids' = reqids + Cardinality(rs)
        /\ active' = active \union {<<r.reqid, c>> : r \in rs}
        /\ info' = [info EXCEPT ![c] = Begun(c)]
        /\ Sessions([SessionOpened(s) EXCEPT ![s].refcnt = @ + 1], requests \union rs, probes)

\* The same when a request cannot be sent: the run is logged and ended.
GetFails(c) ==
    LET s == SessionOf[c] IN
    /\ ~info[c].running /\ info[c].run < MaxGets
    /\ info' = [info EXCEPT ![c] = [@ EXCEPT !.run = @ + 1, !.ended = @ + 1, !.seen = {}, !.from = {}]]
    /\ Sessions(Cleanse(SessionOpened(s), s), requests, probes)
    /\ UNCHANGED <<active, reqids>>

\* noit_snmp_send when version 3 needs the engine id: one more use of the
\* session, for the probe.
GetProbing(c) ==
    LET s == SessionOf[c] IN
    /\ ~info[c].running /\ info[c].run < MaxGets
    /\ s \in V3 /\ ~SessionOpened(s)[s].engine /\ ~SessionOpened(s)[s].dont_probe
    /\ info' = [info EXCEPT ![c] = Begun(c)]
    /\ Sessions([SessionOpened(s) EXCEPT ![s].refcnt = @ + 2, ![s].dont_probe = TRUE], requests,
                probes \union {[s |-> s, c |-> c, armed |-> TRUE, run |-> info[c].run + 1]})
    /\ UNCHANGED <<active, reqids>>

\* probe_engine_step1_cb: the request is sent for the run the check is in now,
\* on its session; then noit_snmp_handler looks whether that is still used.
\* An answer that comes after the probe's timeout or the run's is left out: the
\* code would use a null session, or give the probe's use back twice.
ProbeAnswer(p) ==
    LET s == info[p.c].ts
        r == [reqid |-> reqids + 1, s |-> s, oids |-> ObjectIds, c |-> p.c, run |-> info[p.c].run]
    IN
    /\ p \in probes /\ session[p.s].open /\ reqids < MaxRequests
    /\ p.armed /\ info[p.c].running /\ info[p.c].run = p.run
    /\ reqids' = reqids + 1
    /\ active' = active \union {<<reqids + 1, p.c>>}
    /\ Sessions(Unused([session EXCEPT ![s].engine = TRUE], s), requests \union {r}, probes \ {p})
    /\ UNCHANGED info

\* The probe fails: nobody gives its use of the session back.
ProbeFailed(p) ==
    /\ p \in probes /\ session[p.s].open
    /\ Sessions([session EXCEPT ![p.s].dont_probe = FALSE], requests, probes \ {p})
    /\ UNCHANGED <<info, active, reqids>>

\* noit_snmpv3_probe_timeout: the probe itself stays outstanding.
ProbeTimeout(p) ==
    /\ p \in probes /\ p.armed
    /\ Sessions([session EXCEPT ![p.s].dont_probe = FALSE, ![p.s].refcnt = @ - 1], requests,
                (probes \ {p}) \union (IF session[p.s].open THEN {[p EXCEPT !.armed = FALSE]} ELSE {}))
    /\ UNCHANGED <<info, active, reqids>>

\* Mutant of SessionReleased: the run's use of the session is not given back.
ReleasedNot(x, c) == x

\* The run's use of its session is given back.
SessionReleased(x, c) == IF info[c].ts = "" THEN x ELSE [x EXCEPT ![info[c].ts].refcnt = @ - 1]

\* noit_snmp_asynch_response on an answer that tells some of the ids, then
\* noit_snmp_handler.
Response(r, told) ==
    LET c == r.c
        found == \E d \in Getter : <<r.reqid, d>> \in active
        seen == info[c].seen \union told
    IN
    /\ r \in requests /\ told \subseteq r.oids
    /\ IF ~found
       THEN /\ Sessions(Cleanse(session, r.s), requests \ {r}, probes)
            /\ UNCHANGED <<info, active>>
       ELSE /\ active' = active \ {<<r.reqid, c>>}
            /\ LET noted == [info[c] EXCEPT !.seen = seen,
                                            !.from = IF told = {} THEN @ ELSE @ \union {r.run}]
               IN IF seen = ObjectIds
                  THEN /\ info' = [info EXCEPT ![c] = Complete(noted)]
                       /\ Sessions(Cleanse(SessionReleased(session, c), r.s), requests \ {r}, probes)
                  ELSE /\ info' = [info EXCEPT ![c] = noted]
                       /\ Sessions(Cleanse(session, r.s), requests \ {r}, probes)
    /\ UNCHANGED reqids

\* remove_check
Inactive(c) == {x \in active : x[2] # c}

\* noit_snmp_check_timeout
GetTimeout(c) ==
    /\ info[c].timeout
    /\ Sessions(IF info[c].ts = "" THEN session ELSE Cleanse(SessionReleased(session, c), info[c].ts),
                requests, probes)
    /\ active' = Inactive(c)
    /\ info' = [info EXCEPT ![c] = Complete(@)]
    /\ UNCHANGED reqids

SnmpInit ==
    /\ info = [c \in Getter |-> [running |-> FALSE, run |-> 0, ts |-> "", timeout |-> FALSE, seen |-> {},
                                 from |-> {}, ended |-> 0]]
    /\ session = [s \in Session |-> Closed] /\ active = {} /\ requests = {} /\ probes = {}
    /\ reqids = 0

SnmpNext ==
    \/ \E c \in Getter : Get(c) \/ GetFails(c) \/ GetProbing(c) \/ GetTimeout(c)
    \/ \E p \in probes : ProbeAnswer(p) \/ ProbeFailed(p) \/ ProbeTimeout(p)
    \/ \E r \in requests : \E told \in SUBSET r.oids : Response(r, told)

-----------------------------------------------------------------------------
(* A session of version 1 or 2c is open exactly while runs use it, and     *)
(* counts them exactly: none is closed under a run that waits on it, and   *)
(* none stays open unused, whether runs end by answers, timeouts or errors *)
(* (refcnt, noit_snmp_session_cleanse).                                    *)
SessionsCounted ==
    \A s \in Session \ V3 :
        /\ session[s].refcnt = Cardinality({c \in Getter : info[c].ts = s})
        /\ session[s].open <=> session[s].refcnt > 0

(* What a run reports was asked by that run: an answer that comes after    *)
(* its run timed out is not taken for the next run of the check, and       *)
(* active_checks names only runs that go on (add_check, remove_check).     *)
AnswersAskedFor ==
    \A c \in Getter :
        /\ info[c].from \subseteq {info[c].run}
        /\ \A x \in active : x[2] = c => info[c].running

(* Every run that is over was ended once, whichever of its answers, its    *)
(* timeout or an error came first (noit_snmp_log_results, noit_check_end). *)
GetsEndedOnce == \A c \in Getter : info[c].ended = info[c].run - (IF info[c].running THEN 1 ELSE 0)

-----------------------------------------------------------------------------
(***************************************************************************)
(* modules/snmp.c: SNMP traps recorded for the check whose identifier is   *)
(* written in the trap's object identifier.  An object identifier's tail   *)
(* is a sequence of eight 16-bit groups, a check's identifier the same     *)
(* groups as text with hyphens.                                            *)
(***************************************************************************)

CONSTANTS
  TrapChecks,      \* a check's identifier (its text) |-> its community
  Traps,           \* [version, community, oid, vars] that may arrive
  TrapPeriod,      \* the period that limits their rate
  LastTrapSecond, MaxTraps

TrapAssumption ==
  /\ TrapPeriod \in Nat /\ LastTrapSecond \in Nat /\ MaxTraps \in Nat
  /\ \A x \in Traps : x.version \in {1, 2} /\ x.vars \in Seq([kind : STRING, name : STRING])
ASSUME TrapAssumption

VARIABLES
  trapNow, last_fire_time,
  inprogress,      \* a check's statistics in the making: the metrics set
  trapLog,         \* what was last logged for a check: <<>> or
                   \* [metrics, state, datum, trap, at]
  lastTrap,        \* the trap that came last
  trapCount

trapVars == <<trapNow, last_fire_time, inprogress, trapLog, lastTrap, trapCount>>

TrapInit ==
  /\ trapNow = TrapPeriod
  /\ last_fire_time = [c \in DOMAIN TrapChecks |-> 0]
  /\ inprogress = [c \in DOMAIN TrapChecks |-> {}]
  /\ trapLog = [c \in DOMAIN TrapChecks |-> <<>>]
  /\ lastTrap = <<>> /\ trapCount = 0

-----------------------------------------------------------------------------
\* convert_v1pdu_to_v2: the variables are those of a v2 trap, and the version
\* stays what it was.
convert_v1pdu_to_v2(x) ==
  [x EXCEPT !.vars = <<[kind |-> "uptime", name |-> ""],
                       [kind |-> "trapoid", name |-> ""]>> \o @]

\* noit_snmp_oid_to_checkid: a hyphen after the groups 1 to 4, counted from 0.
noit_snmp_oid_to_checkid(o) ==
  FlattenSeq([i \in 1..Len(o) |-> IF i \in 2..5 THEN <<o[i], "-">> ELSE <<o[i]>>])

\* noit_snmp_trapvars_to_stats: the metric a variable sets, and whether it counts.
\* A metric of a type that is not supported sets nothing and counts.
SetsMetric(v) == IF v.kind = "metric" THEN {v.name} ELSE {}
noit_snmp_trapvars_to_stats(v) == v.kind \in {"metric", "odd metric", "status"}

\* The variables from the trap's own on.
TrapBody(x) ==
  LET at == {i \in DOMAIN x.vars : x.vars[i].kind = "trapoid"}
  IN  IF at = {} THEN <<>>
      ELSE SubSeq(x.vars, CHOOSE i \in at : \A j \in at : i <= j, Len(x.vars))

\* noit_snmp_trapd_response.
TrapAccepted(x) ==
  LET c == noit_snmp_oid_to_checkid(x.oid)
  IN  /\ x.version = 2 /\ TrapBody(x) # <<>>
      /\ c \in DOMAIN TrapChecks /\ TrapChecks[c] = x.community

Extracted(c, x) ==
  LET body == TrapBody(x)
      sets == UNION {SetsMetric(body[i]) : i \in DOMAIN body}
      n == Cardinality({i \in DOMAIN body : noit_snmp_trapvars_to_stats(body[i])})
  IN  [metrics |-> inprogress[c] \cup sets, datum |-> n,
       state |-> IF n > 0 THEN "good" ELSE "bad", trap |-> x, at |-> trapNow]

noit_snmp_trapd_response(pdu) ==
  LET x == IF pdu.version = 1 THEN convert_v1pdu_to_v2(pdu) ELSE pdu
      c == noit_snmp_oid_to_checkid(x.oid)
  IN  IF ~TrapAccepted(x) \/ trapNow - last_fire_time[c] < TrapPeriod
         THEN UNCHANGED <<last_fire_time, inprogress, trapLog>>
         ELSE /\ last_fire_time' = [last_fire_time EXCEPT ![c] = trapNow]
              /\ trapLog' = [trapLog EXCEPT ![c] = <<Extracted(c, x)>>]
              /\ inprogress' = [inprogress EXCEPT ![c] = {}]

TrapArrives(pdu) ==
  /\ trapCount < MaxTraps /\ trapCount' = trapCount + 1
  /\ noit_snmp_trapd_response(pdu) /\ lastTrap' = <<pdu>>
  /\ UNCHANGED trapNow

TrapTick ==
  /\ trapNow < LastTrapSecond /\ trapNow' = trapNow + 1
  /\ UNCHANGED <<last_fire_time, inprogress, trapLog, lastTrap, trapCount>>

TrapNext == TrapTick \/ \E pdu \in Traps : TrapArrives(pdu)

-----------------------------------------------------------------------------
(* What is logged for a check is exactly what one trap for it said: its own *)
(* metrics and nothing left over from a trap that came too soon, from a     *)
(* sender that named the check's groups and its community, in a record that *)
(* is good when anything in it was understood.                              *)
TrapsRecorded ==
  \A c \in DOMAIN TrapChecks : trapLog[c] # <<>> =>
    LET r == trapLog[c][1]
    IN  /\ r.trap.oid = SelectSeq(c, LAMBDA w : w # "-")
        /\ r.trap.community = TrapChecks[c] /\ r.trap.version = 2
        /\ r.metrics = UNION {SetsMetric(TrapBody(r.trap)[i]) : i \in DOMAIN TrapBody(r.trap)}
        /\ r.metrics # {} => r.state = "good"

(* A trap whose object identifier spells a check's identifier and that      *)
(* knows its community is logged, unless one was less than a period ago;    *)
(* and then it is not.                                                      *)
TrapsReach ==
  [][trapCount' # trapCount =>
       LET x == lastTrap'[1]
       IN  \A c \in DOMAIN TrapChecks :
             (trapLog'[c] # trapLog[c]) <=>
               /\ x.version = 2 /\ x.community = TrapChecks[c] /\ TrapBody(x) # <<>>
               /\ x.oid = SelectSeq(c, LAMBDA w : w # "-")
               /\ trapLog[c] # <<>> => trapNow - trapLog[c][1].at >= TrapPeriod]_trapVars
=============================================================================
