----------------------------- MODULE LuaCheck ------------------------------
(***************************************************************************)
(* Checks carried out by other programs: Lua modules (first part), the     *)
(* http module (second part), and external processes (third part).         *)
(***************************************************************************)
EXTENDS Integers, Sequences, FiniteSets, SequencesExt

(***************************************************************************)
(* The runs of checks written in Lua.  A run is a coroutine described by a *)
(* resume info, which is the check's closure; the coroutine runs until it  *)
(* yields, having registered an event that will wake it, or ends.  The     *)
(* run's timeout is registered with the resume info too.  Whatever ends    *)
(* the run removes all events of the resume info and frees it.  A module   *)
(* without an initiate function fails every run and leaves it to its       *)
(* timeout.                                                                *)
(*                                                                         *)
(* All of a check's callbacks run in the thread of its Lua state, one      *)
(* after another.  What a script computes is left out but for whether it   *)
(* sets the check's state, without which a run is not logged.              *)
(***************************************************************************)

CONSTANTS LuaChecks,
          NoInitiate,       \* those whose module has no initiate function
          MaxInfos, MaxWaits    \* bounds: resume infos made, events waited for at once
ASSUME LuaAssumption == NoInitiate \subseteq LuaChecks /\ MaxInfos \in Nat

VARIABLES
    luarun,     \* luarun[c]: [running, closure, run, judged, logs]
    infos,      \* infos[i]: [check, freed]
    pending     \* events registered: [ri, kind, id]

luaVars == <<luarun, infos, pending>>

Info(c) == IF luarun[c].closure # 0 THEN luarun[c].closure ELSE Len(infos) + 1

\* mtev_lua_resume_clean_events
ResumeCleanEvents(ev, ri) == {e \in ev : e.ri # ri}

\* noit_lua_log_results: nothing is logged of a run that set no state.
LogResults(x) == IF x.judged THEN [x EXCEPT !.judged = FALSE, !.logs = Append(@, x.run)] ELSE x

\* noit_check_end, and the closure is gone.
Over(x) == [LogResults(x) EXCEPT !.running = FALSE, !.closure = 0]

\* noit_lua_check_resume: the coroutine yields, having registered an event ...
Yields(c, ri, ev, x, list) ==
    /\ Cardinality({e \in ev : e.ri = ri /\ e.kind = "wake"}) < MaxWaits
    /\ \E judged \in {x.judged, TRUE}, id \in 1..MaxWaits :
        /\ [ri |-> ri, kind |-> "wake", id |-> id] \notin ev
        /\ luarun' = [luarun EXCEPT ![c] = [x EXCEPT !.judged = judged]]
        /\ pending' = ev \union {[ri |-> ri, kind |-> "wake", id |-> id]}
    /\ infos' = list
\* ... or is over, by itself or by an error, which the run is then logged with.
Ends(c, ri, ev, x, list) ==
    /\ \E judged \in {x.judged, TRUE} : luarun' = [luarun EXCEPT ![c] = Over([x EXCEPT !.judged = judged])]
    /\ pending' = ResumeCleanEvents(ev, ri)
    /\ infos' = [list EXCEPT ![ri].freed = TRUE]

\* noit_lua_initiate_ex
LuaInitiate(c) ==
    LET ri == Info(c)
        list == IF ri > Len(infos) THEN Append(infos, [check |-> c, freed |-> FALSE]) ELSE infos
        begun == [luarun[c] EXCEPT !.running = TRUE, !.run = @ + 1, !.closure = ri]
        ev == pending \union {[ri |-> ri, kind |-> "timeout", id |-> begun.run]}
    IN
    /\ ~luarun[c].running /\ luarun[c].run < MaxInfos /\ Len(list) <= MaxInfos
    /\ IF c \in NoInitiate
       THEN /\ luarun' = [luarun EXCEPT ![c] = [LogResults(begun) EXCEPT !.running = FALSE]]
            /\ infos' = list /\ pending' = ev
       ELSE Yields(c, ri, ev, begun, list) \/ Ends(c, ri, ev, begun, list)

\* An event wakes the coroutine.
LuaWake(e) ==
    LET c == infos[e.ri].check IN
    /\ e \in pending /\ e.kind = "wake"
    /\ Yields(c, e.ri, pending \ {e}, luarun[c], infos) \/ Ends(c, e.ri, pending \ {e}, luarun[c], infos)

\* noit_lua_check_timeout
LuaTimeout(e) ==
    LET c == infos[e.ri].check IN
    /\ e \in pending /\ e.kind = "timeout"
    /\ luarun' = [luarun EXCEPT ![c] = Over([@ EXCEPT !.judged = TRUE])]
    /\ IF luarun[c].closure # 0
       THEN /\ pending' = ResumeCleanEvents(pending \ {e}, e.ri)
            /\ infos' = [infos EXCEPT ![e.ri].freed = TRUE]
       ELSE pending' = pending \ {e} /\ UNCHANGED infos

\* noit_lua_module_cleanup, for a check that goes away.
LuaCleanup(c) ==
    /\ ~luarun[c].running /\ luarun[c].closure # 0
    /\ luarun' = [luarun EXCEPT ![c].closure = 0]
    /\ pending' = ResumeCleanEvents(pending, luarun[c].closure)
    /\ infos' = [infos EXCEPT ![luarun[c].closure].freed = TRUE]

LuaInit ==
    /\ luarun = [c \in LuaChecks |-> [running |-> FALSE, closure |-> 0, run |-> 0, judged |-> FALSE, logs |-> <<>>]]
    /\ infos = <<>> /\ pending = {}

LuaNext ==
    \/ \E c \in LuaChecks : LuaInitiate(c) \/ LuaCleanup(c)
    \/ \E e \in pending : LuaWake(e) \/ LuaTimeout(e)

-----------------------------------------------------------------------------
(* No event outlives its run: whatever is registered belongs to a resume   *)
(* info that is still there, and every resume info that is still there is  *)
(* its check's closure, so that none is freed twice or never               *)
(* (mtev_lua_resume_clean_events, the frees of noit_lua_check_resume and   *)
(* noit_lua_check_timeout).                                                *)
EventsHaveInfo ==
    /\ \A e \in pending : ~infos[e.ri].freed
    /\ \A i \in DOMAIN infos : infos[i].freed <=> luarun[infos[i].check].closure # i

(* A run is logged at most once, although its end and its timeout both log *)
(* it; and a run that goes on has its timeout.                             *)
LuaLoggedOnce ==
    \A c \in LuaChecks :
        /\ \A i, j \in DOMAIN luarun[c].logs : luarun[c].logs[i] = luarun[c].logs[j] => i = j
        /\ luarun[c].running => \E e \in pending : e.ri = luarun[c].closure /\ e.kind = "timeout"

-----------------------------------------------------------------------------
(***************************************************************************)
(* The http check (modules-lua/noit/module/http.lua): authentication by a  *)
(* first request, the loop that follows Location headers, and the cookie   *)
(* jar that goes with it.                                                  *)
(*                                                                         *)
(* A URI is the sequence of the segments of its path and whether a query   *)
(* follows; trailing slashes, which every reader of a URI here strips, are *)
(* left out.  What a response says (its code, the Location and the cookie  *)
(* it carries) is the server's choice.  The state of the check is not      *)
(* modelled: it is good only if `code`, a name nothing assigns, is not     *)
(* nil.  Metrics, bodies and certificates are left out.                    *)
(***************************************************************************)

CONSTANTS HttpConfs,   \* [url, method, payload, redirects, auth]
          HttpAnswers, \* the responses a server may give
          HttpHosts,   \* the names that resolve
          FileSegments \* the segments of a path that hold a dot

ASSUME HttpAssumption ==
  /\ \A c \in HttpConfs : c.redirects \in Nat /\ c.auth \in {"none", "Basic", "Digest", "Auto"}
  /\ \A a \in HttpAnswers : Len(a.location) \in 0..1 /\ Len(a.cookie) \in 0..1

VARIABLES hconf, hstep, at, hmethod, left, jars, hheaders, asks, replies, available

httpVars == <<hconf, hstep, at, hmethod, left, jars, hheaders, asks, replies, available>>

Uri(segs) == [segs |-> segs, query |-> FALSE]
-----------------------------------------------------------------------------
(* Cookies. *)

\* populate_cookie_jar: the cookie joins the jar of the host it came from, at
\* the path it names or at /, behind the ones already there.
populate_cookie_jar(js, host, cookie) ==
  Append(js, [host |-> host, path |-> cookie.path, name |-> cookie.name, value |-> cookie.value])

\* The paths apply_cookies looks at, from / down; a last segment with a dot in
\* it is a file and adds none.
CookiePathsPlain(uri) ==
  [i \in 1..(Len(uri.segs) + 1) |-> SubSeq(uri.segs, 1, i - 1)]

CookiePaths(uri) ==
  SelectSeq(CookiePathsPlain(uri), LAMBDA p : Len(p) = 0 \/ p # uri.segs \/ Last(p) \notin FileSegments)

\* has_host: a jar is kept under the name of a host, never under a domain.
has_host(pat, host) == pat = host

\* apply_cookies: a cookie of a path further down replaces one of its name, and
\* so does a later one of the same path.
Jars(js, host, path) == SelectSeq(js, LAMBDA j : has_host(j.host, host) /\ j.path = path)

apply_cookies(js, host, uri) ==
  LET found == FlattenSeq([i \in DOMAIN CookiePaths(uri) |-> Jars(js, host, CookiePaths(uri)[i])])
  IN {found[k] : k \in {k \in DOMAIN found : \A l \in DOMAIN found : l > k => found[l].name # found[k].name}}
-----------------------------------------------------------------------------
(* Where a Location leads. *)

\* get_new_uri: <<>> is the error of taking the last slash of a URI that has
\* none left.  A location that begins with ./ is replaced by what gsub makes of
\* the pattern itself.
get_new_uri(old, loc) ==
  CASE loc.kind = "path"   -> <<Uri(loc.segs)>>
    [] loc.kind = "query"  -> IF old.segs = <<>> THEN <<>> ELSE <<[segs |-> Front(old.segs), query |-> TRUE]>>
    [] loc.kind = "parent" -> IF old.segs = <<>> THEN <<>> ELSE <<Uri(Front(old.segs) \o loc.segs)>>
    [] loc.kind = "here"   -> <<Uri(old.segs \o <<"1%1.1", "1">>)>>

\* get_absolute_path: a segment .. takes the one before it away.
get_absolute_path(uri) ==
  [uri EXCEPT !.segs =
     FoldLeft(LAMBDA acc, s : IF s # ".." THEN Append(acc, s) ELSE IF acc = <<>> THEN acc ELSE Front(acc),
              <<>>, uri.segs)]

\* The port of a URL that names none.
DefaultPort(schema) == IF schema = "https" THEN 443 ELSE 80

\* The schema, host, port and URI of the next request, if there is one.
Redirect(from, loc) ==
  IF loc.kind = "url"
  THEN <<[schema |-> loc.schema, host |-> loc.host,
          port |-> IF loc.port = <<>> THEN DefaultPort(loc.schema) ELSE loc.port[1],
          uri |-> get_absolute_path(Uri(loc.segs))]>>
  ELSE LET new == get_new_uri(from.uri, loc)
       IN IF new = <<>> THEN <<>> ELSE <<[from EXCEPT !.uri = get_absolute_path(new[1])]>>
-----------------------------------------------------------------------------
HttpInit ==
  /\ hconf \in HttpConfs
  /\ hstep = "initiate" /\ at = <<>> /\ hmethod = <<>> /\ left = 0 /\ jars = <<>>
  /\ hheaders = [authorization |-> "none", cookies |-> {}]
  /\ asks = <<>> /\ replies = <<>> /\ available = FALSE

HttpOver == hstep' = "over" /\ UNCHANGED <<hconf, at, hmethod, left, jars, hheaders, asks, replies>>

\* initiate up to the first request: expect the worst, split the URL.
HttpInitiate ==
  /\ hstep = "initiate"
  /\ at' = [schema |-> hconf.url.schema, host |-> hconf.url.host,
            port |-> IF hconf.url.port = <<>> THEN DefaultPort(hconf.url.schema) ELSE hconf.url.port[1],
            uri |-> Uri(hconf.url.segs)]
  /\ hmethod' = [method |-> hconf.method, payload |-> hconf.payload]
  /\ left' = hconf.redirects + 1
  /\ available' = FALSE
  /\ hstep' = IF hconf.auth \in {"Digest", "Auto"} THEN "challenge" ELSE "request"
  /\ hheaders' = [hheaders EXCEPT !.authorization = IF hconf.auth = "Basic" THEN "Basic" ELSE "none"]
  /\ UNCHANGED <<hconf, jars, asks, replies>>

\* The first pass of Digest and Auto: without the 401 and a challenge of a
\* method that the configuration admits the check is over.  Its response goes
\* to no callback, so its cookies and Location are not kept.
Challenge(a) ==
  /\ hstep = "challenge"
  /\ \/ a.code = 401 /\ hconf.auth = "Auto" /\ a.challenge = "Basic"
     \/ a.code = 401 /\ a.challenge = "Digest"
  /\ hheaders' = [hheaders EXCEPT !.authorization = a.challenge]
  /\ hstep' = "request"
  /\ UNCHANGED <<hconf, at, hmethod, left, jars, asks, replies, available>>

ChallengeFails ==
  /\ hstep = "challenge"
  /\ HttpOver /\ UNCHANGED available

\* A connection that fails ends the check.
ConnectFails ==
  /\ hstep = "request"
  /\ HttpOver /\ UNCHANGED available

\* One turn of the loop: the request, the headers callback, and the next target.
RequestAfter(a, next, js) ==
  /\ asks' = Append(asks, [at |-> at, method |-> hmethod, headers |-> hheaders])
  /\ replies' = Append(replies, a)
  /\ jars' = js
  /\ left' = left - 1
  /\ UNCHANGED hconf
  /\ IF left' = 0 \/ a.location = <<>>
     THEN hstep' = "over" /\ available' = TRUE /\ UNCHANGED <<at, hmethod, hheaders>>
     ELSE /\ hmethod' = [method |-> "GET", payload |-> FALSE]
          /\ IF next = <<>> \/ next[1].host \notin HttpHosts
             THEN hstep' = "over" /\ UNCHANGED <<at, hheaders, available>>
             ELSE /\ at' = next[1]
                  /\ hheaders' = [hheaders EXCEPT !.cookies = apply_cookies(js, next[1].host, next[1].uri)]
                  /\ UNCHANGED <<hstep, available>>

Request(a) ==
  /\ hstep = "request"
  /\ RequestAfter(a, IF a.location = <<>> THEN <<>> ELSE Redirect(at, a.location[1]),
                  IF a.cookie = <<>> THEN jars ELSE populate_cookie_jar(jars, at.host, a.cookie[1]))

HttpNext ==
  \/ HttpInitiate
  \/ \E a \in HttpAnswers : Challenge(a)
  \/ ChallengeFails
  \/ ConnectFails
  \/ \E a \in HttpAnswers : Request(a)
-----------------------------------------------------------------------------
(* Where the locations servers send, a full URL or an absolute path, lead by
   the resolution of references of RFC 3986; a segment .. and the one it takes
   away are both gone. *)
Resolved(segs) ==
  LET kept == SetToSortSeq({j \in DOMAIN segs : segs[j] # ".." /\ (j < Len(segs) => segs[j + 1] # "..")},
                           LAMBDA x, y : x < y)
  IN Uri([i \in DOMAIN kept |-> segs[kept[i]]])

Leads(from, loc) ==
  IF loc.kind = "path" THEN [from EXCEPT !.uri = Resolved(loc.segs)]
  ELSE [schema |-> loc.schema, host |-> loc.host, uri |-> Resolved(loc.segs),
        port |-> CHOOSE p \in {80, 443} \cup Range(loc.port) :
                   IF loc.port # <<>> THEN p = loc.port[1] ELSE (p = 443) <=> (loc.schema = "https")]

(* Every request after the first goes to where the Location of the response
   before it leads, as a GET without the payload, and no more than `redirects`
   of them are made (the loop of initiate). *)
LocationsFollowed ==
  /\ Len(asks) <= hconf.redirects + 1
  /\ \A i \in 2..Len(asks) :
       /\ asks[i].method = [method |-> "GET", payload |-> FALSE]
       /\ replies[i - 1].location # <<>>
       /\ replies[i - 1].location[1].kind \in {"url", "path"} =>
            asks[i].at = Leads(asks[i - 1].at, replies[i - 1].location[1])

\* The earlier responses whose cookie request i is to carry, but for one of the
\* same name from a deeper directory, or a newer one from the same.
Offered(i) ==
  {k \in 1..(i - 1) : /\ replies[k].cookie # <<>>
                      /\ asks[k].at.host = asks[i].at.host
                      /\ IsPrefix(replies[k].cookie[1].path, asks[i].at.uri.segs)}

Outdoes(l, k) ==
  LET cl == replies[l].cookie[1]  ck == replies[k].cookie[1]
  IN cl.name = ck.name /\ (Len(cl.path) > Len(ck.path) \/ (cl.path = ck.path /\ l > k))

(* A request carries exactly the cookies that its host set earlier in this run
   for a directory its path lies in, for each name the one of the deepest
   directory, and of those the newest (populate_cookie_jar, apply_cookies). *)
CookiesReturned ==
  \A i \in DOMAIN asks :
    {<<c.name, c.value>> : c \in asks[i].headers.cookies} =
      {<<replies[k].cookie[1].name, replies[k].cookie[1].value>> :
         k \in {k \in Offered(i) : ~ \E l \in Offered(i) : Outdoes(l, k)}}

-----------------------------------------------------------------------------
(***************************************************************************)
(* The external module: noitd numbers every run of a command and, from a   *)
(* job queue of one thread, writes it to a helper process (external_proc); *)
(* the helper forks the command and writes the command's number, exit      *)
(* status and output back when it has reaped it.  A run is logged by its   *)
(* answer or by its timeout, whichever is first, and is over only when the *)
(* answer came or the command was never handed over.                       *)
(*                                                                         *)
(* The helper learns of a command's end from SIGCHLD, whose handler does   *)
(* nothing: the signal is noticed only when it interrupts poll.            *)
(*                                                                         *)
(* A run begins only after the queue has finished with the check's earlier *)
(* one (a period is far longer than a callback).  Texts, arguments and the *)
(* metrics taken from the output are left out.                             *)
(***************************************************************************)

CONSTANTS Command, ExitStatus, MaxInvocations
ASSUME ExternalAssumption == ExitStatus \subseteq 0..255 /\ MaxInvocations \in Nat

VARIABLES
    check_info,             \* check_info[c]: struct check_info and whether the check runs
    check_no_seq,
    external_checks,    \* run numbers with the check they are of
    jobq,           \* jobs to hand runs over: [c, worked]
    n2e, e2n,       \* the two pipes
    helper,         \* where external_child is: "poll", "interrupted", "spawned", "around"
    procs,          \* the commands running
    zombies,        \* those that ended and were not reaped: [no, exit]
    done_procs,           \* done_procs: [no, status]
    exits,          \* history: how each command really ended
    reports         \* history: what was logged, [no, from, status]

externalVars == <<check_info, check_no_seq, external_checks, jobq, n2e, e2n, helper, procs, zombies, done_procs, exits, reports>>
helperVars == <<helper, procs, zombies, done_procs, exits>>

CleanInfo == [no |-> 0, running |-> FALSE, written |-> FALSE, errortype |-> "none", timer |-> FALSE]
ReportOf(c, from, status) == [no |-> check_info[c].no, from |-> from, status |-> status]

\* external_invoke: a command outside the module's path is refused, any other
\* gets a number, a timeout and a job.
Invoke(c) ==
    /\ ~check_info[c].running /\ \A i \in DOMAIN jobq : jobq[i].c # c
    /\ check_no_seq < MaxInvocations
    /\ check_no_seq' = check_no_seq + 1
    /\ \/ /\ check_info' = [check_info EXCEPT ![c] = [CleanInfo EXCEPT !.no = check_no_seq', !.errortype = "badpath"]]
          /\ reports' = Append(reports, [no |-> check_no_seq', from |-> 0, status |-> "badpath"])
          /\ UNCHANGED <<external_checks, jobq>>
       \/ /\ check_info' = [check_info EXCEPT ![c] = [CleanInfo EXCEPT !.no = check_no_seq', !.running = TRUE, !.timer = TRUE]]
          /\ external_checks' = external_checks \union {<<check_no_seq', c>>}
          /\ jobq' = Append(jobq, [c |-> c, worked |-> FALSE])
          /\ UNCHANGED reports
    /\ UNCHANGED <<n2e, e2n, helperVars>>

\* external_enqueue in the queue's thread: nothing is written for a run that
\* timed out in the meantime.
EnqueueWork ==
    /\ jobq # <<>> /\ ~Head(jobq).worked
    /\ jobq' = [jobq EXCEPT ![1].worked = TRUE]
    /\ LET c == Head(jobq).c IN
       IF check_info[c].written \/ check_info[c].errortype # "none"
       THEN UNCHANGED <<check_info, n2e>>
       ELSE /\ n2e' = Append(n2e, check_info[c].no)
            /\ check_info' = [check_info EXCEPT ![c].written = TRUE]
    /\ UNCHANGED <<check_no_seq, external_checks, e2n, reports, helperVars>>

\* external_enqueue when the job is over (or was too late to be done).
EnqueueOver ==
    /\ jobq # <<>>
    /\ Head(jobq).worked \/ check_info[Head(jobq).c].errortype # "none"
    /\ jobq' = Tail(jobq)
    /\ check_info' = [check_info EXCEPT ![Head(jobq).c].running = @ /\ check_info[Head(jobq).c].written]
    /\ UNCHANGED <<check_no_seq, external_checks, n2e, e2n, reports, helperVars>>

\* Mutant of TimedOut: the check may run again at once.
TimedOutEnded(x) == [x EXCEPT !.errortype = "timeout", !.timer = FALSE, !.running = FALSE]

\* The run is marked, and stays the check's run until its command is over.
TimedOut(x) == [x EXCEPT !.errortype = "timeout", !.timer = FALSE]

\* external_timeout
RunTimeout(c) ==
    /\ check_info[c].timer
    /\ reports' = Append(reports, ReportOf(c, 0, "timeout"))
    /\ check_info' = [check_info EXCEPT ![c] = TimedOut(@)]
    /\ UNCHANGED <<check_no_seq, external_checks, jobq, n2e, e2n, helperVars>>

\* The run is over and its timeout is taken back.
Answered(x) == [x EXCEPT !.timer = FALSE, !.running = FALSE]

\* external_handler: one answer.
AnswerRead ==
    /\ e2n # <<>>
    /\ e2n' = Tail(e2n)
    /\ external_checks' = {x \in external_checks : x[1] # Head(e2n).no}
    /\ LET of == {c \in Command : <<Head(e2n).no, c>> \in external_checks} IN
       IF of = {}
       THEN UNCHANGED <<check_info, reports>>
       ELSE LET c == CHOOSE x \in of : TRUE IN
            /\ check_info' = [check_info EXCEPT ![c] = Answered(@)]
            /\ reports' = IF check_info[c].timer /\ check_info[c].errortype = "none"
                          THEN Append(reports, ReportOf(c, Head(e2n).no, Head(e2n).status))
                          ELSE reports
    /\ UNCHANGED <<check_no_seq, jobq, n2e, helperVars>>

-----------------------------------------------------------------------------
\* external_child: a command is read and spawned; if that fails it is done.
ChildReads ==
    /\ helper = "poll" /\ n2e # <<>>
    /\ n2e' = Tail(n2e) /\ helper' = "spawned"
    /\ \/ procs' = procs \union {Head(n2e)} /\ UNCHANGED <<done_procs, exits>>
       \/ /\ done_procs' = done_procs \union {[no |-> Head(n2e), status |-> 255]}
          /\ exits' = exits \union {[no |-> Head(n2e), exit |-> 255]}
          /\ UNCHANGED procs
    /\ UNCHANGED <<check_info, check_no_seq, external_checks, jobq, e2n, zombies, reports>>

\* A command ends: its signal interrupts poll, and is lost anywhere else.
CommandExits(n, x) ==
    /\ n \in procs /\ x \in ExitStatus
    /\ procs' = procs \ {n} /\ zombies' = zombies \union {n}
    /\ exits' = exits \union {[no |-> n, exit |-> x]}
    /\ helper' = IF helper = "poll" THEN "interrupted" ELSE helper
    /\ UNCHANGED <<check_info, check_no_seq, external_checks, jobq, n2e, e2n, done_procs, reports>>

\* process_siglist: the status waitpid gave is not kept.
Reaped(n) == [no |-> n, status |-> 0]

\* finish_procs: everything that ended is reaped and answered, in the order of
\* the numbers.
FinishProcs ==
    /\ helper \in {"interrupted", "spawned"}
    /\ LET over == done_procs \union {Reaped(n) : n \in zombies}
           order == CHOOSE q \in [1..Cardinality(over) -> over] :
                        \A i, j \in DOMAIN q : i < j => q[i].no < q[j].no
       IN e2n' = e2n \o order
    /\ zombies' = {} /\ done_procs' = {}
    /\ helper' = IF helper = "spawned" THEN "around" ELSE "poll"
    /\ UNCHANGED <<check_info, check_no_seq, external_checks, jobq, n2e, procs, exits, reports>>

\* The loop comes round to poll.
ChildPolls == helper = "around" /\ helper' = "poll"
              /\ UNCHANGED <<check_info, check_no_seq, external_checks, jobq, n2e, e2n, procs, zombies, done_procs, exits, reports>>

ExternalInit ==
    /\ check_info = [c \in Command |-> CleanInfo] /\ check_no_seq = 0 /\ external_checks = {} /\ jobq = <<>>
    /\ n2e = <<>> /\ e2n = <<>> /\ helper = "poll" /\ procs = {} /\ zombies = {} /\ done_procs = {}
    /\ exits = {} /\ reports = <<>>

ExternalNext ==
    \/ \E c \in Command : Invoke(c) \/ RunTimeout(c)
    \/ EnqueueWork \/ EnqueueOver \/ AnswerRead \/ ChildReads \/ FinishProcs \/ ChildPolls
    \/ \E n \in procs : \E x \in ExitStatus : CommandExits(n, x)

-----------------------------------------------------------------------------
(* What a run reports of a command is the command of that run, however     *)
(* late earlier answers come: a timed out run keeps its check busy until   *)
(* its own answer was read (external_timeout, external_handler).           *)
ReportsOwn == \A i \in DOMAIN reports : reports[i].from \in {0, reports[i].no}

(* A run is reported once, by its answer, its timeout or its refusal; and  *)
(* a check that is idle has reported its last run.                         *)
ReportedOnce ==
    /\ \A i, j \in DOMAIN reports : reports[i].no = reports[j].no => i = j
    /\ \A c \in Command : ~check_info[c].running /\ check_info[c].no > 0 => \E i \in DOMAIN reports : reports[i].no = check_info[c].no
=============================================================================
