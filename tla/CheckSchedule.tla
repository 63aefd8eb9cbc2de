--------------------------- MODULE CheckSchedule ----------------------------
(***************************************************************************)
(* When checks run: the clock and the slots (first part), and checks that  *)
(* run when another one completes (second part).                           *)
(***************************************************************************)
EXTENDS Integers, Sequences, FiniteSets, Functions, FiniteSetsExt

(***************************************************************************)
(* When checks fire (noit_check.c, noit_check_tools.c).  A check that is   *)
(* activated is given the emptiest slot of the minute, pretends to have    *)
(* run last at a time that falls on that slot, and fires at multiples of   *)
(* its period from there.  The slot is given back when the event of a      *)
(* disabled or killed check fires.                                         *)
(*                                                                         *)
(* Times are in slots of SCHEDULE_GRANULARITY; the position inside a slot, *)
(* which is random, is left out.  The handler of the firing event and the  *)
(* threads that update checks interleave: `closing' holds the checks whose *)
(* handler was told not to go on and has not cleared fire_event yet.       *)
(***************************************************************************)

CONSTANTS
    Scheduled,            \* checks
    Setups,               \* [timing, priority, transient]: timing is a set of
                          \* [period, timeout], the settings checks are given;
                          \* priority is priority_scheduling; transient is the
                          \* set of checks made for watchers
    MinuteSeconds,        \* 60
    SLOTS_PER_SECOND,
    DeadZone,             \* priority_dead_zone_seconds
    PriorityFloor,        \* 10: seconds used whatever the timeout
    FirstTick, LastTick,  \* bounds on the clock
    MaxUnpaired           \* bound on activations without a period

ASSUME ScheduleAssumption ==
    /\ MinuteSeconds \in Nat \ {0} /\ SLOTS_PER_SECOND \in Nat \ {0}
    /\ DeadZone \in 0..MinuteSeconds /\ PriorityFloor \in 1..MinuteSeconds
    /\ \A u \in Setups : u.priority \in BOOLEAN /\ u.transient \subseteq Scheduled /\ \A t \in u.timing :
                             t.period \in Nat /\ t.timeout \in Nat

VARIABLES
    setup,     \* the one of Setups this process runs with
    tick,      \* the clock
    slots,     \* check_slots_count
    sched,     \* sched[c]: the check
    closing,
    unpaired   \* slots taken by checks without a period, which never fire

scheduleVars == <<setup, tick, slots, sched, closing, unpaired>>

Slot == 0..(MinuteSeconds * SLOTS_PER_SECOND - 1)
Minute == MinuteSeconds * SLOTS_PER_SECOND
SlotOf(t) == t % Minute
Wrapped(n) == n % 65536        \* unsigned short

\* check_slots_seconds_count: check_slots_adjust_tv changes both alike.
SecondCount(n) ==
    Wrapped(FoldFunctionOnSet(+, 0, slots,
        {n * SLOTS_PER_SECOND + j : j \in 0..(SLOTS_PER_SECOND - 1)}))

\* check_slots_adjust_tv
Adjust(s, t, adj) == [s EXCEPT ![SlotOf(t)] = Wrapped(@ + adj)]

-----------------------------------------------------------------------------
(* check_slots_find_smallest *)

\* A check that runs on whole minutes is put where it ends before the minute.
WholeMinutes(period) == period % Minute = 0

MaxSeconds(timeout) ==
    Min({MinuteSeconds - DeadZone,
         Max({MinuteSeconds - (timeout \div SLOTS_PER_SECOND) - 1, PriorityFloor})})

\* The seconds in the order they are looked at.
Candidates(sec, timing) ==
    IF setup.priority /\ WholeMinutes(timing.period)
    THEN LET m == MaxSeconds(timing.timeout) IN [i \in 1..m |-> (i - 1 + sec) % m]
    ELSE [i \in 1..Min({timing.period \div SLOTS_PER_SECOND, MinuteSeconds}) |->
             (i - 1 + sec) % MinuteSeconds]

\* The first of the least used; none is less than 65535 leaves second 0.
Smallest(sec, timing) ==
    LET cs == Candidates(sec, timing)
        free == {i \in DOMAIN cs : SecondCount(cs[i]) < 65535}
        best == {i \in free : \A k \in free : SecondCount(cs[i]) <= SecondCount(cs[k])}
    IN  IF free = {} THEN 0 ELSE cs[Min(best)]

\* One of the least used slots of that second: the search starts at random.
SmallestSlots(sec, timing) ==
    LET js == {Smallest(sec, timing) * SLOTS_PER_SECOND + j : j \in 0..(SLOTS_PER_SECOND - 1)}
    IN  {j \in js : \A k \in js : slots[j] <= slots[k]}

-----------------------------------------------------------------------------
\* noit_check_fake_last_check: the slot's time in the minute before, moved by
\* whole periods to the last one that is not in the future.
MovedBy(lc, period) == lc + ((tick - lc) \div period) * period

\* The pairs <<lc, lc_copy>>: the pretended last run, and the time counted.
FakeLastChecks(c, timing) ==
    IF c \in setup.transient \/ timing.period = 0
    THEN {<<tick - timing.period, tick - timing.period>>}
    ELSE {LET lc == ((tick - timing.period) \div Minute) * Minute + j
          IN  <<MovedBy(lc, timing.period), lc>> :
             j \in SmallestSlots((tick \div SLOTS_PER_SECOND) + 1, timing)}

\* Mutant of NextFiring: a period after now.
NextFiringDrift(start, period) == tick + period

\* noit_check_schedule_next: the next time after now on the check's grid.
NextFiring(start, period) == start + (((tick - start) \div period) + 1) * period

\* A name that is not resolved is tried again every second, except at first.
UsedPeriod(s) ==
    IF ~s.resolved /\ s.period > SLOTS_PER_SECOND THEN SLOTS_PER_SECOND ELSE s.period

\* INITIATE_CHECK: fake_last_check, then schedule_next with that time.
Initiate(c, s) ==
    \E p \in FakeLastChecks(c, s) :
       /\ slots' = IF c \in setup.transient THEN slots ELSE Adjust(slots, p[2], 1)
       /\ IF s.period = 0
          THEN /\ sched' = [sched EXCEPT ![c] = s]
               /\ unpaired' = unpaired + IF c \in setup.transient THEN 0 ELSE 1
          ELSE /\ sched' = [sched EXCEPT ![c] = [s EXCEPT
                              !.start = <<p[1]>>, !.fire = <<NextFiring(p[1], s.period)>>,
                              !.booked = SlotOf(p[2])]]
               /\ UNCHANGED unpaired

\* noit_check_update, which ends in noit_check_activate: nothing to do while
\* the check is live or disabled.  A watcher's check is activated the same way.
Update(c, timing, disabled) ==
    LET s == [sched[c] EXCEPT !.period = timing.period, !.timeout = timing.timeout,
                              !.disabled = disabled]
    IN  /\ timing.period = 0 => unpaired < MaxUnpaired
        /\ IF s.fire # <<>> \/ disabled
           THEN sched' = [sched EXCEPT ![c] = s] /\ UNCHANGED <<slots, unpaired>>
           ELSE Initiate(c, s)
        /\ UNCHANGED <<setup, tick, closing>>

\* noit_poller_deschedule_no_lock, or the last watcher leaving: NP_KILLED.
Kill(c) ==
    /\ sched' = [sched EXCEPT ![c].disabled = TRUE]
    /\ UNCHANGED <<setup, tick, slots, closing, unpaired>>

\* A disabled check gives back the slot of its initial schedule time.
Released(c, s) ==
    IF c \in setup.transient THEN slots ELSE Adjust(slots, s.start[1], -1)

\* noit_check_recur_handler up to schedule_next; the name may be resolved now.
\* A check whose period became 0 is let go without giving its slot back.
Fire(c) ==
    /\ sched[c].fire # <<>> /\ c \notin closing
    /\ tick >= sched[c].fire[1]
    /\ \E r \in {TRUE, sched[c].resolved} :
        LET s == [sched[c] EXCEPT !.resolved = r] IN
        \/ /\ s.period = 0
           /\ sched' = [sched EXCEPT ![c] = s]
           /\ closing' = closing \cup {c}
           /\ unpaired' = unpaired + IF c \in setup.transient THEN 0 ELSE 1
           /\ UNCHANGED slots
        \/ /\ s.period # 0 /\ s.disabled
           /\ slots' = Released(c, s)
           /\ sched' = [sched EXCEPT ![c] = [s EXCEPT !.start = <<0>>]]
           /\ closing' = closing \cup {c}
           /\ UNCHANGED unpaired
        \/ /\ s.period # 0 /\ ~s.disabled
           /\ sched' = [sched EXCEPT ![c] =
                          [s EXCEPT !.fire = <<NextFiring(s.start[1], UsedPeriod(s))>>]]
           /\ UNCHANGED <<slots, closing, unpaired>>
    /\ UNCHANGED <<setup, tick>>

\* The rest of the handler: fire_event is cleared, the event is freed.
FireCleared(c) ==
    /\ c \in closing
    /\ sched' = [sched EXCEPT ![c].fire = <<>>, ![c].booked = 0]
    /\ closing' = closing \ {c}
    /\ UNCHANGED <<setup, tick, slots, unpaired>>

Tick ==
    /\ tick < LastTick
    /\ tick' = tick + 1
    /\ UNCHANGED <<setup, slots, sched, closing, unpaired>>

ScheduleInit ==
    /\ setup \in Setups /\ tick = FirstTick
    /\ slots = [j \in Slot |-> 0]
    /\ sched = [c \in Scheduled |-> [period |-> 0, timeout |-> 0, disabled |-> TRUE,
                                     resolved |-> FALSE, start |-> <<0>>, fire |-> <<>>,
                                     booked |-> 0]]
    /\ closing = {} /\ unpaired = 0

ScheduleNext ==
    \/ \E c \in Scheduled, t \in setup.timing, d \in BOOLEAN : Update(c, t, d)
    \/ \E c \in Scheduled : Kill(c) \/ Fire(c) \/ FireCleared(c)
    \/ Tick

-----------------------------------------------------------------------------
(* Properties *)

Booked == {c \in Scheduled \ setup.transient : sched[c].fire # <<>> /\ c \notin closing}

\* Every slot taken is given back exactly once: the counts add up to the checks
\* that are scheduled, and those without a period, whose slots stay taken.
SlotsConserved ==
    FoldFunctionOnSet(+, 0, slots, Slot) % 65536 = (Cardinality(Booked) + unpaired) % 65536

\* When every check runs on whole minutes, each slot's count is the number of
\* checks that were put in it.  (A shorter period moves the pretended last run
\* to another slot, and the count of that one is taken down instead.)
SlotsExact ==
    (\A t \in setup.timing : t.period # 0 /\ WholeMinutes(t.period))
       => \A j \in Slot : slots[j] = Cardinality({c \in Booked : sched[c].booked = j})

\* A firing that schedules the next one leaves the grid where it was: the next
\* time is in the future, at most a period away, and, for a resolved check, a
\* whole number of periods from the start, however late the event was handled.
FiringsOnGrid ==
    [][\A c \in Scheduled :
         LET s == sched[c]
             t == sched'[c]
         IN  (s.fire # <<>> /\ t.fire # <<>> /\ t.fire # s.fire)
               => /\ t.start = s.start
                  /\ t.fire[1] > tick /\ t.fire[1] <= tick + t.period
                  /\ t.resolved => (t.fire[1] - t.start[1]) % t.period = 0]_scheduleVars

\* With priority scheduling, a check that keeps its whole-minute settings and
\* whose timeout leaves room for it always fires so early in the minute that
\* its timeout ends before the minute does, and never in the dead zone.
PriorityChecksEndInMinute ==
    (setup.priority /\ Cardinality(setup.timing) = 1) =>
       \A c \in Booked :
          (/\ WholeMinutes(sched[c].period) /\ sched[c].period # 0 /\ sched[c].resolved
           /\ (sched[c].timeout \div SLOTS_PER_SECOND) < MinuteSeconds - PriorityFloor)
            => /\ SlotOf(sched[c].fire[1]) + sched[c].timeout < Minute
               /\ SlotOf(sched[c].fire[1]) < (MinuteSeconds - DeadZone) * SLOTS_PER_SECOND

-----------------------------------------------------------------------------
(***************************************************************************)
(* Checks that run when another one completes (noit_check.c: oncheck,      *)
(* noit_poller_make_causal_map, the end of noit_check_set_stats).  Each    *)
(* change of the configuration ends with the map being made anew: all      *)
(* lists of dependents are dropped and every check with an oncheck is put  *)
(* in the list of the check it names.  The scan is skipped when nothing    *)
(* has been causal since a scan found nothing causal.                      *)
(*                                                                         *)
(* The walk over the dependents takes no lock; here it is one step, and so *)
(* is the making of the map.  Periods and modules that are missing are     *)
(* left out.                                                               *)
(***************************************************************************)

CONSTANTS CausalId,      \* the identifiers of checks
          CausalName,    \* [id -> [target, name]], no two the same
          OnChecks,      \* texts of an oncheck, <<>> for none
          MaxCausal      \* bound: configuration changes

\* An oncheck is <<"id", i>>, <<"full", target, name>> or <<"name", name>>.
ASSUME CausalAssumption ==
  /\ MaxCausal \in Nat
  /\ \A i, j \in CausalId : CausalName[i] = CausalName[j] => i = j

\* causalPolls: the checks there are and their oncheck; causal_checks: the dependents, the
\* newest first; disabled: NP_DISABLED; system_needs_causality; reloading: a change whose
\* map is not made yet; causalRunning: checks that run; mapped: the map is of what causalPolls
\* holds; completed: the check that completed last.
VARIABLES causalPolls, causal_checks, disabled, system_needs_causality, reloading,
          causalRunning, mapped, completed, causalChanges

causalVars == <<causalPolls, causal_checks, disabled, system_needs_causality, reloading,
                causalRunning, mapped, completed, causalChanges>>
-----------------------------------------------------------------------------
CausalInit ==
  /\ causalPolls = <<>> /\ causal_checks = [c \in CausalId |-> <<>>] /\ disabled = {}
  /\ system_needs_causality = FALSE /\ reloading = FALSE /\ causalRunning = {} /\ mapped = TRUE
  /\ completed = {} /\ causalChanges = 0

\* noit_poller_lookup_by_name__nolock.
ByName(t, n) == {c \in DOMAIN causalPolls : CausalName[c] = [target |-> t, name |-> n]}

\* The check c's oncheck names, or none.
Trigger(c) ==
  LET on == causalPolls[c]
  IN IF on[1] = "id" THEN {on[2]} \cap DOMAIN causalPolls
     ELSE IF on[1] = "full" THEN ByName(on[2], on[3])
     ELSE ByName(CausalName[c].target, on[2])

Causal == {c \in DOMAIN causalPolls : causalPolls[c] # <<>>}

\* noit_check_update of a check that is new or was there, enabled by its configuration.
noit_check_update(c, on) ==
  /\ causalChanges < MaxCausal /\ causalChanges' = causalChanges + 1
  /\ causalPolls' = [d \in DOMAIN causalPolls \cup {c} |-> IF d = c THEN on ELSE causalPolls[d]]
  /\ disabled' = disabled \ {c}
  /\ system_needs_causality' = (system_needs_causality \/ on # <<>>)
  /\ reloading' = TRUE /\ mapped' = FALSE /\ completed' = {}
  /\ UNCHANGED <<causal_checks, causalRunning>>

\* noit_poller_deschedule, of a check deleted through REST: no map is made.  The list of
\* the check goes with it.  Lists that hold the check keep a pointer to what is now a
\* killed and disabled check, which nothing starts; here it leaves them.
noit_poller_deschedule(c) ==
  /\ c \in DOMAIN causalPolls
  /\ causalPolls' = [d \in DOMAIN causalPolls \ {c} |-> causalPolls[d]]
  /\ causal_checks' = [d \in CausalId |-> IF d = c THEN <<>> ELSE SelectSeq(causal_checks[d], LAMBDA e : e # c)]
  /\ disabled' = disabled \ {c} /\ causalRunning' = causalRunning \ {c}
  /\ mapped' = FALSE /\ completed' = {}
  /\ UNCHANGED <<system_needs_causality, reloading, causalChanges>>

\* The lists made from the checks in the order o in which the table is walked.
RECURSIVE Linked(_, _)
Linked(o, lists) ==
  IF o = <<>> THEN lists
  ELSE Linked(Tail(o), IF Head(o) \in Causal /\ Trigger(Head(o)) # {}
                       THEN [lists EXCEPT ![CHOOSE p \in Trigger(Head(o)) : TRUE] = <<Head(o)>> \o @]
                       ELSE lists)

\* noit_poller_make_causal_map at the end of noit_poller_reload.
noit_poller_make_causal_map ==
  /\ reloading
  /\ reloading' = FALSE /\ mapped' = TRUE /\ completed' = {}
  /\ UNCHANGED <<causalPolls, causalRunning, causalChanges>>
  /\ IF ~system_needs_causality THEN UNCHANGED <<causal_checks, disabled, system_needs_causality>>
     ELSE /\ system_needs_causality' = (Causal # {})
          /\ \E o \in {o \in [1..Cardinality(DOMAIN causalPolls) -> DOMAIN causalPolls] :
                         {o[i] : i \in DOMAIN o} = DOMAIN causalPolls} :
               causal_checks' = Linked(o, [c \in CausalId |-> <<>>])
          /\ disabled' = disabled \cup {c \in Causal : Trigger(c) = {}}

\* The dependents noit_check_set_stats starts, and one that runs is left alone.
Firing(p) == {causal_checks[p][i] : i \in DOMAIN causal_checks[p]} \ (disabled \cup causalRunning)

\* A check completes: one that runs, or one started by its period.
noit_check_set_stats(p) ==
  /\ p \in DOMAIN causalPolls
  /\ p \in causalRunning \/ causalPolls[p] = <<>>
  /\ causalRunning' = (causalRunning \ {p}) \cup Firing(p)
  /\ completed' = {p}
  /\ UNCHANGED <<causalPolls, causal_checks, disabled, system_needs_causality, reloading, mapped, causalChanges>>

CausalNext ==
  \/ \E c \in CausalId, on \in OnChecks : noit_check_update(c, on)
  \/ \E c \in CausalId : noit_poller_deschedule(c) \/ noit_check_set_stats(c)
  \/ noit_poller_make_causal_map
-----------------------------------------------------------------------------
(* Once the map is made after a change, whatever was added, changed and deleted
   before, and however the scan was skipped, a check is in the lists of
   dependents exactly once if it names a check that is there, in that check's
   list, and in none otherwise; and one that names none is disabled
   (noit_poller_make_causal_map, system_needs_causality). *)
MapFollows ==
  mapped =>
    \A c \in DOMAIN causalPolls :
      LET at == {<<p, i>> \in CausalId \X (1..Cardinality(CausalId)) : i \in DOMAIN causal_checks[p] /\ causal_checks[p][i] = c}
      IN IF causalPolls[c] = <<>> \/ Trigger(c) = {}
         THEN at = {} /\ (causalPolls[c] # <<>> => c \in disabled)
         ELSE Cardinality(at) = 1 /\ \A a \in at : a[1] \in Trigger(c)

(* The completion of a check starts all that depend on it, and nothing else
   (the walk at the end of noit_check_set_stats). *)
CausesFire ==
  [][\A p \in DOMAIN causalPolls :
       mapped /\ completed' = {p} /\ noit_check_set_stats(p) =>
         \A c \in DOMAIN causalPolls \ {p} :
           (c \in causalRunning') = (c \in causalRunning \/ (c \in Causal \ disabled /\ p \in Trigger(c)))]_causalVars
=============================================================================
