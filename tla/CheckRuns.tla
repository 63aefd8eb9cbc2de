----------------------------- MODULE CheckRuns ------------------------------
(***************************************************************************)
(* Runs outside the schedule: jobs of the job queue (first part), and      *)
(* checks posted to be tried once (second part).                           *)
(***************************************************************************)
EXTENDS Naturals, FiniteSets

(***************************************************************************)
(* Checks whose work is done in a thread of the event loop's job queue     *)
(* (modules/selfcheck.c, modules/test_abort.c over                         *)
(* noit_check_run_full_asynch): the work may be cut off at any moment when *)
(* the check's timeout passes, the run is completed in the check's own     *)
(* thread, and the check may be removed and recycled at any time.          *)
(***************************************************************************)

CONSTANTS
  AsynchCheckId,   \* checks
  TestAborts,      \* those of the test_abort module; the others are selfchecks
  MaxAsynchRuns

AsynchAssumption == TestAborts \subseteq AsynchCheckId /\ MaxAsynchRuns \in Nat
ASSUME AsynchAssumption

VARIABLES
  ainfo,           \* the check's closure: <<>> or [attrs, timed_out]
  arunning,        \* NP_RUNNING
  ajob,            \* the job: none, queued, working, over, completing
  astep,           \* what is left of the completion
  aremoved,        \* checks removed and recycled: kept, removed, freed
  worked,          \* the run's work was finished
  aruns, alogs,    \* runs begun; results logged: [ok, due] per run
  touched          \* freed memory was used

asynchVars == <<ainfo, arunning, ajob, astep, aremoved, worked, aruns, alogs, touched>>

AsynchInit ==
  /\ ainfo = [c \in AsynchCheckId |-> <<>>]
  /\ arunning = [c \in AsynchCheckId |-> FALSE]
  /\ ajob = [c \in AsynchCheckId |-> "none"]
  /\ astep = [c \in AsynchCheckId |-> 0]
  /\ aremoved = [c \in AsynchCheckId |-> "kept"]
  /\ worked = [c \in AsynchCheckId |-> FALSE]
  /\ aruns = [c \in AsynchCheckId |-> 0]
  /\ alogs = [c \in AsynchCheckId |-> <<0, TRUE>>] /\ touched = FALSE

-----------------------------------------------------------------------------
\* selfcheck_initiate_check, selfcheck_initiate and noit_check_run_full_asynch.
RunBegins(c) ==
  /\ aremoved[c] = "kept" /\ ~arunning[c] /\ aruns[c] < MaxAsynchRuns
  /\ arunning' = [arunning EXCEPT ![c] = TRUE]
  /\ ajob' = [ajob EXCEPT ![c] = "queued"]
  /\ worked' = [worked EXCEPT ![c] = FALSE]
  /\ aruns' = [aruns EXCEPT ![c] = @ + 1]
  /\ UNCHANGED <<astep, aremoved, alogs, touched>>

selfcheck_initiate(c) ==
  /\ c \notin TestAborts /\ RunBegins(c)
  /\ ainfo' = [ainfo EXCEPT ![c] = <<[attrs |-> TRUE, timed_out |-> TRUE]>>]

\* test_abort_initiate_check and test_abort_initiate keep no attributes.
test_abort_initiate(c) ==
  /\ c \in TestAborts /\ RunBegins(c)
  /\ ainfo' = [ainfo EXCEPT ![c] = <<[attrs |-> FALSE, timed_out |-> TRUE]>>]

\* The job queue, and selfcheck_log_size with EVENTER_ASYNCH_WORK: timed_out is
\* cleared last.
WorkBegins(c) ==
  /\ ajob[c] = "queued" /\ ajob' = [ajob EXCEPT ![c] = "working"]
  /\ UNCHANGED <<ainfo, arunning, astep, aremoved, worked, aruns, alogs, touched>>

WorkEnds(c) ==
  /\ ajob[c] = "working" /\ ajob' = [ajob EXCEPT ![c] = "over"]
  /\ worked' = [worked EXCEPT ![c] = TRUE]
  /\ touched' = (touched \/ ainfo[c] = <<>>)
  /\ ainfo' = IF ainfo[c] = <<>> THEN ainfo
              ELSE [ainfo EXCEPT ![c] = <<[@[1] EXCEPT !.timed_out = FALSE]>>]
  /\ UNCHANGED <<arunning, astep, aremoved, aruns, alogs>>

\* The timeout passes: a job that waits is not begun, one that works is cut off.
JobTimeout(c) ==
  /\ ajob[c] \in {"queued", "working"} /\ ajob' = [ajob EXCEPT ![c] = "over"]
  /\ UNCHANGED <<ainfo, arunning, astep, aremoved, worked, aruns, alogs, touched>>

\* EVENTER_ASYNCH_CLEANUP sets the job up for its completion, which logs,
\* cleanses and ends the run; these three may be met by the recycler.
CompletionBegins(c) ==
  /\ ajob[c] = "over"
  /\ ajob' = [ajob EXCEPT ![c] = "completing"] /\ astep' = [astep EXCEPT ![c] = 1]
  /\ UNCHANGED <<ainfo, arunning, aremoved, worked, aruns, alogs, touched>>

selfcheck_log_results(c) ==
  /\ alogs' = [alogs EXCEPT ![c] =
       <<@[1] + 1, @[2] /\ ainfo[c] # <<>> /\ (ainfo[c][1].timed_out = ~worked[c])>>]
  /\ touched' = (touched \/ ainfo[c] = <<>>)
  /\ UNCHANGED <<ainfo, arunning>>

selfcheck_cleanse(c) ==
  /\ touched' = (touched \/ ainfo[c] = <<>>)
  /\ ainfo' = IF ainfo[c] = <<>> THEN ainfo
              ELSE [ainfo EXCEPT ![c] = <<[attrs |-> FALSE, timed_out |-> FALSE]>>]
  /\ UNCHANGED <<arunning, alogs>>

AsynchEnds(c) ==
  /\ arunning' = [arunning EXCEPT ![c] = FALSE]
  /\ UNCHANGED <<ainfo, alogs, touched>>

CompletionStep(c) ==
  /\ c \notin TestAborts /\ ajob[c] = "completing"
  /\ CASE astep[c] = 1 -> selfcheck_log_results(c)
       [] astep[c] = 2 -> selfcheck_cleanse(c)
       [] astep[c] = 3 -> AsynchEnds(c)
  /\ astep' = [astep EXCEPT ![c] = (@ + 1) % 4]
  /\ ajob' = [ajob EXCEPT ![c] = IF astep[c] = 3 THEN "none" ELSE @]
  /\ UNCHANGED <<aremoved, worked, aruns>>

\* test_abort_drive_session, called to complete: the result, then the end.
test_abort_drive_session(c) ==
  /\ c \in TestAborts /\ ajob[c] = "completing"
  /\ CASE astep[c] = 1 -> selfcheck_log_results(c)
       [] astep[c] = 2 -> AsynchEnds(c)
  /\ astep' = [astep EXCEPT ![c] = (@ + 1) % 3]
  /\ ajob' = [ajob EXCEPT ![c] = IF astep[c] = 2 THEN "none" ELSE @]
  /\ UNCHANGED <<aremoved, worked, aruns>>

\* The check is removed; the recycler frees it, and selfcheck_cleanup its
\* closure, when it is not running.
AsynchRemoved(c) ==
  /\ aremoved[c] = "kept" /\ aremoved' = [aremoved EXCEPT ![c] = "removed"]
  /\ UNCHANGED <<ainfo, arunning, ajob, astep, worked, aruns, alogs, touched>>

selfcheck_cleanup(c) ==
  /\ aremoved[c] = "removed" /\ ~arunning[c]
  /\ aremoved' = [aremoved EXCEPT ![c] = "freed"]
  /\ ainfo' = [ainfo EXCEPT ![c] = <<>>]
  /\ UNCHANGED <<arunning, ajob, astep, worked, aruns, alogs, touched>>

AsynchNext ==
  \E c \in AsynchCheckId :
    \/ selfcheck_initiate(c) \/ test_abort_initiate(c) \/ WorkBegins(c)
    \/ WorkEnds(c) \/ JobTimeout(c)
    \/ CompletionBegins(c) \/ CompletionStep(c) \/ test_abort_drive_session(c)
    \/ AsynchRemoved(c) \/ selfcheck_cleanup(c)

-----------------------------------------------------------------------------
(* However the timeout meets the work, a run is logged at most once, as     *)
(* timed out exactly when its work was not finished.                        *)
RunsToldTrue ==
  \A c \in AsynchCheckId : alogs[c][1] <= aruns[c] /\ alogs[c][2]

(* Neither the worker nor the completion uses a closure the recycler freed, *)
(* and a check between runs holds no attributes of an earlier one.          *)
ClosuresLive ==
  /\ ~touched
  /\ \A c \in AsynchCheckId :
       ~arunning[c] /\ ainfo[c] # <<>> => ~ainfo[c][1].attrs

-----------------------------------------------------------------------------
(***************************************************************************)
(* modules/check_test.c: a check posted to be tried once.  The request     *)
(* waits in in_progress; a sweeper, scheduled while there is something     *)
(* left, starts the checks whose targets have resolved and answers the     *)
(* requests whose checks have run.  Requests come in one thread, the       *)
(* sweeper runs in another, and neither locks sweeper_event.               *)
(***************************************************************************)

CONSTANTS
  Posted,          \* requests
  Unresolvable     \* those whose target never resolves

TestAssumption == IsFiniteSet(Posted) /\ Unresolvable \subseteq Posted
ASSUME TestAssumption

VARIABLES
  tcheck,          \* a request's check: none, disabled, running, ran
  in_progress,     \* requests that wait
  poster,          \* the request being taken: <<>> or [req, at]
  sweeper_event,   \* the variable is set
  scheduled,       \* sweeper events in the event loop
  sweep,           \* the pass being made: <<>> or [todo, left, at]
  testAnswers,     \* answers given to a request
  gone             \* requests whose connection failed

testVars == <<tcheck, in_progress, poster, sweeper_event, scheduled, sweep,
              testAnswers, gone>>

TestInit ==
  /\ tcheck = [r \in Posted |-> "none"]
  /\ in_progress = {} /\ poster = <<>>
  /\ sweeper_event = FALSE /\ scheduled = 0 /\ sweep = <<>>
  /\ testAnswers = [r \in Posted |-> 0] /\ gone = {}

-----------------------------------------------------------------------------
\* rest_test_check and noit_fire_check: the check is made, marked disabled as
\* "we haven't run it yet", and inserted.
noit_fire_check(r) ==
  /\ poster = <<>> /\ tcheck[r] = "none"
  /\ tcheck' = [tcheck EXCEPT ![r] = "disabled"]
  /\ in_progress' = in_progress \cup {r}
  /\ poster' = <<[req |-> r, at |-> "test"]>>
  /\ UNCHANGED <<sweeper_event, scheduled, sweep, testAnswers, gone>>

\* check_test_schedule_sweeper, from the request: the variable is tested, then
\* set with the event.
PosterSchedules ==
  /\ poster # <<>>
  /\ IF poster[1].at = "test"
     THEN /\ poster' = IF sweeper_event THEN <<>>
                       ELSE <<[poster[1] EXCEPT !.at = "set"]>>
          /\ UNCHANGED <<sweeper_event, scheduled>>
     ELSE /\ poster' = <<>>
          /\ sweeper_event' = TRUE /\ scheduled' = scheduled + 1
  /\ UNCHANGED <<tcheck, in_progress, sweep, testAnswers, gone>>

\* rest_test_check_result.
rest_test_check_result(r) ==
  /\ in_progress' = in_progress \ {r}
  /\ testAnswers' = [testAnswers EXCEPT ![r] = @ + 1]

\* check_test_sweeper: the variable is cleared, then every waiting request is
\* visited.
SweepStarts ==
  /\ sweep = <<>> /\ scheduled > 0
  /\ scheduled' = scheduled - 1 /\ sweeper_event' = FALSE
  /\ sweep' = <<[todo |-> in_progress, left |-> FALSE, at |-> "visit"]>>
  /\ UNCHANGED <<tcheck, in_progress, poster, testAnswers, gone>>

Visit(r) ==
  /\ sweep # <<>> /\ r \in sweep[1].todo
  /\ LET done(left) == sweep' = <<[sweep[1] EXCEPT !.todo = @ \ {r}, !.left = @ \/ left]>>
     IN  \/ /\ tcheck[r] = "disabled"
            /\ tcheck' = [tcheck EXCEPT ![r] = IF r \in Unresolvable THEN @ ELSE "running"]
            /\ done(TRUE) /\ UNCHANGED <<in_progress, testAnswers>>
         \/ /\ tcheck[r] = "running"
            /\ done(TRUE) /\ UNCHANGED <<tcheck, in_progress, testAnswers>>
         \/ /\ tcheck[r] = "ran"
            /\ done(FALSE) /\ rest_test_check_result(r) /\ UNCHANGED tcheck
  /\ UNCHANGED <<poster, sweeper_event, scheduled, gone>>

SweepEnds ==
  /\ sweep # <<>> /\ sweep[1].todo = {}
  /\ IF sweep[1].at = "visit"
     THEN /\ sweep' = IF sweep[1].left /\ ~sweeper_event
                      THEN <<[sweep[1] EXCEPT !.at = "set"]>> ELSE <<>>
          /\ UNCHANGED <<sweeper_event, scheduled>>
     ELSE /\ sweep' = <<>>
          /\ sweeper_event' = TRUE /\ scheduled' = scheduled + 1
  /\ UNCHANGED <<tcheck, in_progress, poster, testAnswers, gone>>

\* The module ends the run it began.
RunEnds(r) ==
  /\ tcheck[r] = "running"
  /\ tcheck' = [tcheck EXCEPT ![r] = "ran"]
  /\ UNCHANGED <<in_progress, poster, sweeper_event, scheduled, sweep, testAnswers, gone>>

\* rest_test_check_err: the connection fails while the request waits; its
\* result is given as it is, and the sweep passes it by.
rest_test_check_err(r) ==
  /\ r \in in_progress /\ r \notin gone
  /\ poster # <<>> => poster[1].req # r
  /\ gone' = gone \cup {r}
  /\ rest_test_check_result(r)
  /\ sweep' = IF sweep = <<>> THEN sweep ELSE <<[sweep[1] EXCEPT !.todo = @ \ {r}]>>
  /\ UNCHANGED <<tcheck, poster, sweeper_event, scheduled>>

TestNext ==
  \/ \E r \in Posted : noit_fire_check(r) \/ Visit(r) \/ RunEnds(r) \/ rest_test_check_err(r)
  \/ PosterSchedules \/ SweepStarts \/ SweepEnds

-----------------------------------------------------------------------------
(* A waiting request always has a sweeper coming: one is in the event loop, *)
(* is making its pass, or is about to be scheduled by the request's thread; *)
(* the unlocked variable never loses the last one.                          *)
SweeperComes ==
  in_progress # {} => scheduled > 0 \/ sweep # <<>> \/ poster # <<>>

(* A request is answered at most once, and unless its connection failed it  *)
(* is answered only after its check ran to the end.                         *)
TestAnswered ==
  \A r \in Posted :
    /\ testAnswers[r] <= 1
    /\ testAnswers[r] = 1 /\ r \notin gone => tcheck[r] = "ran"
=============================================================================
