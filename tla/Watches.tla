------------------------------ MODULE Watches ------------------------------
(***************************************************************************)
(* Watching a check at a period of one's own (noit_check.c 1238-1500): the *)
(* livestream listener, the websocket handler and the console ask for a    *)
(* transient copy of a registered check, add their log stream to its       *)
(* feeds, and activate it.  The copy stops when its last feed is removed.  *)
(*                                                                         *)
(* A copy is known by its place in `copies'; WatchKey stands for a check   *)
(* and a period, already rounded and bounded.  Requests run on different   *)
(* threads: the lock on the watch list covers the search but neither the   *)
(* insertion that follows it nor the feed that is added later.  Watches    *)
(* with period 0, which share the registered check, are left out, and so   *)
(* are reference counts.                                                   *)
(***************************************************************************)
EXTENDS Integers, Sequences, FiniteSets

CONSTANTS
    WatchKey,      \* checks and periods
    Stream,        \* log streams of those who watch
    StreamKind,    \* StreamKind[s]: "live", "web" or "console"
    MaxCopies      \* bound on the copies made

ASSUME WatchAssumption == StreamKind \in [Stream -> {"live", "web", "console"}]

VARIABLES
    copies,     \* [key, listed, killed, live, feeds]: the copies made
    watcher,    \* watcher[s]: [at, key, copy]
    registered  \* the keys whose check is registered

watchVars == <<copies, watcher, registered>>

Listed(k) == {i \in DOMAIN copies : copies[i].listed /\ copies[i].key = k}
ListedOf(cs, k) == {i \in DOMAIN cs : cs[i].listed /\ cs[i].key = k}

\* A copy, and where a watcher is.
Copy(key, listed, killed, live, feeds) ==
    [key |-> key, listed |-> listed, killed |-> killed, live |-> live, feeds |-> feeds]
Place(at, key, copy) == [at |-> at, key |-> key, copy |-> copy]

Goes(s, at) == watcher' = [watcher EXCEPT ![s] = Place(at, watcher[s].key, watcher[s].copy)]
Feeds(cs, i, ss) == [cs EXCEPT ![i] = Copy(cs[i].key, cs[i].listed, cs[i].killed, cs[i].live, ss)]
Lives(cs, i, lv) == [cs EXCEPT ![i] = Copy(cs[i].key, cs[i].listed, cs[i].killed, lv, cs[i].feeds)]

\* noit_livestream_handler, noit_websocket_msg_handler and the console's
\* `watch': a stream of a new name, and noit_check_watch up to its unlock.
WatchFind(s, k) ==
    /\ watcher[s].at = "idle"
    /\ IF Listed(k) # {}
       THEN \E i \in Listed(k) :
               watcher' = [watcher EXCEPT ![s] = Place("found", k, i)]
       ELSE watcher' = [watcher EXCEPT ![s] = Place("missed", k, 0)]
    /\ UNCHANGED <<copies, registered>>

\* noit_check_clone and the insertion, which another copy may have preceded:
\* the new one is used all the same.  A check that is not registered or runs
\* after another cannot be watched.
WatchClone(s) ==
    LET k == watcher[s].key IN
    /\ watcher[s].at = "missed"
    /\ \/ /\ k \in registered
          /\ Len(copies) < MaxCopies
          /\ copies' = Append(copies, Copy(k, Listed(k) = {}, FALSE, FALSE, {}))
          /\ watcher' = [watcher EXCEPT ![s] = Place("found", k, Len(copies) + 1)]
       \/ /\ k \notin registered
          /\ Goes(s, "gone")
          /\ UNCHANGED copies
    /\ UNCHANGED registered

\* noit_check_transient_add_feed
AddFeed(s) ==
    /\ watcher[s].at = "found"
    /\ copies' = Feeds(copies, watcher[s].copy, copies[watcher[s].copy].feeds \cup {s})
    /\ Goes(s, "fed")
    /\ UNCHANGED registered

\* noit_check_activate: a live copy is left alone, and schedule_next makes no
\* event for a killed one.
Activate(s) ==
    /\ watcher[s].at = "fed"
    /\ LET i == watcher[s].copy
       IN  copies' = Lives(copies, i, copies[i].live \/ ~copies[i].killed)
    /\ Goes(s, "open")
    /\ UNCHANGED registered

\* Mutant of RemoveFeed: the copy that loses its last feed stays in the watch list.
RemoveFeedListed(cs, i, ss) ==
    IF cs[i].feeds = {} THEN cs
    ELSE IF cs[i].feeds \ ss # {} THEN Feeds(cs, i, cs[i].feeds \ ss)
    ELSE [cs EXCEPT ![i] = Copy(cs[i].key, cs[i].listed, TRUE, cs[i].live, {})]

\* noit_check_transient_remove_feed, of each of ss.  A copy without feeds has no list, and
\* nothing happens.  With the last feed the copy is killed, and the one in the
\* watch list with its key, which need not be the same, is taken off.
RemoveFeed(cs, i, ss) ==
    IF cs[i].feeds = {} THEN cs
    ELSE IF cs[i].feeds \ ss # {} THEN Feeds(cs, i, cs[i].feeds \ ss)
    ELSE LET gone == ListedOf(cs, cs[i].key)
         IN  [j \in DOMAIN cs |->
                Copy(cs[j].key, cs[j].listed /\ j \notin gone, cs[j].killed \/ j = i,
                     cs[j].live, IF j = i THEN {} ELSE cs[j].feeds)]

\* noit_livestream_thread_main ends with wants_shutdown, and the console takes
\* its log stream away: the feed stays until something is logged to it.
ClientGone(s) ==
    /\ watcher[s].at = "open" /\ StreamKind[s] # "web"
    /\ Goes(s, "gone")
    /\ UNCHANGED <<copies, registered>>

\* noit_livestream_handler when no thread can be made, and
\* noit_websocket_closure_free: at the end, or before another subscription.
ClientRemoves(s) ==
    /\ \/ watcher[s].at = "open" /\ StreamKind[s] = "web"
       \/ watcher[s].at = "open" /\ StreamKind[s] = "live"
    /\ copies' = RemoveFeed(copies, watcher[s].copy, {s})
    /\ Goes(s, "gone")
    /\ UNCHANGED registered

Resubscribe(s) ==
    /\ watcher[s].at = "open" /\ StreamKind[s] = "web"
    /\ copies' = RemoveFeed(copies, watcher[s].copy, {s})
    /\ Goes(s, "idle")
    /\ UNCHANGED registered

\* The console's `unwatch': noit_check_get_watch, then the removal, from the
\* listed copy whichever copy the console had been given.
ConsoleUnwatch(s) ==
    /\ watcher[s].at = "open" /\ StreamKind[s] = "console"
    /\ \E k \in WatchKey :
         copies' = IF Listed(k) = {} THEN copies
                   ELSE RemoveFeed(copies, CHOOSE i \in Listed(k) : TRUE, {s})
    /\ UNCHANGED <<watcher, registered>>

\* feed_process_f, feed_process_clean: the feeds nobody reads are removed.
Unread(s) == watcher[s].at = "gone"

Cleaned(cs, i) ==
    LET unread == {s \in cs[i].feeds : Unread(s)}
    IN  IF unread = {} THEN cs ELSE RemoveFeed(cs, i, unread)

\* The copy's event fires: the event of a killed one is the last; the check
\* runs, and what it logs goes to its feeds.
CopyRuns(i) ==
    /\ copies[i].live
    /\ copies' = Cleaned(Lives(copies, i, ~copies[i].killed), i)
    /\ UNCHANGED <<watcher, registered>>

\* noit_poller_deschedule, and the check being configured again.
Register(k) ==
    /\ registered' = IF k \in registered THEN registered \ {k} ELSE registered \cup {k}
    /\ UNCHANGED <<copies, watcher>>

WatchInit ==
    /\ copies = <<>>
    /\ watcher = [s \in Stream |-> Place("idle", "none", 0)]
    /\ registered = WatchKey

WatchStep(s) == WatchClone(s) \/ AddFeed(s) \/ Activate(s)

WatchNext ==
    \/ \E s \in Stream, k \in WatchKey : WatchFind(s, k)
    \/ \E s \in Stream : \/ WatchStep(s) \/ ClientGone(s) \/ ClientRemoves(s)
                         \/ Resubscribe(s) \/ ConsoleUnwatch(s)
    \/ \E i \in DOMAIN copies : CopyRuns(i)
    \/ \E k \in WatchKey : Register(k)

WatchSpec == WatchInit /\ [][WatchNext]_watchVars

-----------------------------------------------------------------------------
(* Properties *)

\* A copy that can be found in the watch list, or that goes on firing, has a
\* feed or somebody who was given it and is about to add one: none runs on for
\* nobody, even when requests race and two copies have the same key.
CopiesHaveWatchers ==
    \A i \in DOMAIN copies :
       (copies[i].listed \/ (copies[i].live /\ ~copies[i].killed))
         => \/ copies[i].feeds # {}
            \/ \E s \in Stream : watcher[s].at = "found" /\ watcher[s].copy = i

\* Once every client has gone, the copies stop firing, also where the client
\* only hung up and its feed was left behind.
CopiesStop ==
    (\A s \in Stream : watcher[s].at = "gone") ~> (\A i \in DOMAIN copies : ~copies[i].live)
=============================================================================
