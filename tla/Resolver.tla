------------------------------ MODULE Resolver ------------------------------
(***************************************************************************)
(* The resolver: the cache of names and its maintenance (first part), the  *)
(* file it is kept in and /etc/hosts (second part).                        *)
(***************************************************************************)
EXTENDS Integers, Sequences, FiniteSets, SequencesExt

(***************************************************************************)
(* The cache of host names (noit_check_resolver.c).  Checks remind it of   *)
(* the names they need; once a second a pass over the names that are due   *)
(* sends a query for each address family and drops names nobody needs; the *)
(* DNS library answers later.  The list `order' is the refresh index.      *)
(*                                                                         *)
(* The pass takes no lock, so reminders and the console act between its    *)
(* steps.  Answers are delivered by the thread that runs the pass.  Times  *)
(* are in seconds, with the code's limits as constants.                    *)
(***************************************************************************)

CONSTANTS
    HostName,         \* names of targets
    Unparsable,       \* those that are not domain names
    Ttls,             \* times to live in answers, and in the saved cache
    DEFAULT_FAILED_TTL, MAX_TTL, DEFAULT_PURGE_AGE,
    Soon,             \* 60 seconds: loaded names expire within it, spread
    LastSecond        \* bound on the clock

ASSUME ResolverAssumption ==
    /\ Unparsable \subseteq HostName
    /\ DEFAULT_FAILED_TTL \in Nat \ {0} /\ MAX_TTL \in Nat \ {0}
    /\ DEFAULT_PURGE_AGE \in Nat \ {0} /\ Soon \in Nat /\ LastSecond \in Nat

VARIABLES
    second,    \* the clock
    cache,     \* cache[h]: <<>> or the node of a name
    order,     \* the names in the cache by the time they are due
    query,     \* <<h, family>>: the queries the DNS library holds
    pass       \* <<>> or [now, at]: the pass, and the name it looks at next

resolverVars == <<second, cache, order, query, pass>>

Family == {4, 6}
Due(n) == n.last_updated + n.ttl

\* mtev_skiplist_insert with refresh_idx: after all that are due no later.
InsertByDue(ord, c, h) ==
    LET before == SelectSeq(ord, LAMBDA g : Due(c[g][1]) <= Due(c[h][1]))
        after == SelectSeq(ord, LAMBDA g : Due(c[g][1]) > Due(c[h][1]))
    IN  before \o <<h>> \o after

Unlink(ord, h) == SelectSeq(ord, LAMBDA g : g # h)

NewNode == [last_needed |-> second, last_updated |-> 0, ttl |-> 0, found |-> {},
            inflight |-> {}, refused |-> FALSE]

\* The node of h is taken out of the index, changed, and put back.
Reindexed(c, h) == InsertByDue(Unlink(order, h), c, h)

-----------------------------------------------------------------------------
\* noit_check_resolver_remind, and the console's dns_cache.
Remind(h) ==
    /\ cache' = [cache EXCEPT ![h] =
                   IF @ = <<>> THEN <<NewNode>> ELSE <<[@[1] EXCEPT !.last_needed = second]>>]
    /\ order' = IF cache[h] = <<>> THEN InsertByDue(order, cache', h) ELSE order
    /\ UNCHANGED <<second, query, pass>>

\* Mutant of ConsoleRemove: a name being looked up is removed as well.
ConsoleRemoveBusy(h) ==
    /\ cache[h] # <<>>
    /\ cache' = [cache EXCEPT ![h] = <<>>]
    /\ order' = Unlink(order, h)
    /\ UNCHANGED <<second, query, pass>>

\* noit_console_manip_dns_cache: "no dns_cache"; not while it is looked up.
ConsoleRemove(h) ==
    /\ cache[h] # <<>> /\ cache[h][1].inflight = {}
    /\ cache' = [cache EXCEPT ![h] = <<>>]
    /\ order' = Unlink(order, h)
    /\ UNCHANGED <<second, query, pass>>

\* blank_update_v4, blank_update_v6: only while the other family is looked up
\* does the failure set the time to live.
BlankUpdate(n, f) ==
    [n EXCEPT !.found = @ \ {f}, !.inflight = @ \ {f}, !.last_updated = second,
              !.ttl = IF n.inflight \ {f} # {} THEN DEFAULT_FAILED_TTL ELSE @]

\* dns_cache_resolve: no answer or no record is a failure; a reply that cannot
\* be read to its end has no records and no time to live.
Resolve4or6(h, f) ==
    LET n == cache[h][1] IN
    /\ <<h, f>> \in query /\ pass = <<>>
    /\ query' = query \ {<<h, f>>}
    /\ \/ cache' = [cache EXCEPT ![h] = <<BlankUpdate(n, f)>>]
       \/ \E t \in Ttls : cache' = [cache EXCEPT ![h] = <<[n EXCEPT
             !.found = @ \cup {f}, !.inflight = @ \ {f}, !.last_updated = second,
             !.ttl = IF t > MAX_TTL THEN MAX_TTL ELSE t]>>]
       \/ cache' = [cache EXCEPT ![h] = <<[n EXCEPT
             !.found = @ \ {f}, !.inflight = @ \ {f}, !.last_updated = second, !.ttl = 0,
             !.refused = TRUE]>>]
    /\ order' = Reindexed(cache', h)
    /\ UNCHANGED <<second, pass>>

-----------------------------------------------------------------------------
(* noit_check_resolver_maintain *)

After(h) == LET i == CHOOSE i \in DOMAIN order : order[i] = h
            IN  IF i = Len(order) THEN <<>> ELSE <<order[i + 1]>>

MaintainBegin ==
    /\ pass = <<>>
    /\ pass' = <<[now |-> second, at |-> IF order = <<>> THEN <<>> ELSE <<order[1]>>]>>
    /\ UNCHANGED <<second, cache, order, query>>

\* A query for each family that is not being looked up; dns_submit_dn may
\* refuse it, which blanks the family.
Submitted(n, refused) ==
    LET one(x, f) == IF f \in n.inflight THEN x
                     ELSE IF f \in refused
                     THEN [BlankUpdate([x EXCEPT !.inflight = @ \cup {f}], f) EXCEPT !.refused = TRUE]
                     ELSE [x EXCEPT !.inflight = @ \cup {f}]
    IN  one(one(n, 4), 6)

\* One name: the pass ends at the first that is not due.
MaintainStep ==
    LET p == pass[1]
        h == p.at[1]
        n == cache[h][1]
    IN  /\ pass # <<>> /\ p.at # <<>> /\ cache[h] # <<>>
        /\ IF Due(n) > p.now THEN pass' = <<>> /\ UNCHANGED <<cache, order, query>>
           ELSE /\ pass' = <<[p EXCEPT !.at = After(h)]>>
                /\ \/ /\ n.last_needed + DEFAULT_PURGE_AGE < p.now /\ n.inflight = {}
                      /\ cache' = [cache EXCEPT ![h] = <<>>]
                      /\ order' = Unlink(order, h)
                      /\ UNCHANGED query
                   \/ /\ ~(n.last_needed + DEFAULT_PURGE_AGE < p.now /\ n.inflight = {})
                      /\ \E refused \in IF h \in Unparsable THEN {Family} ELSE SUBSET Family :
                           LET x == Submitted(n, refused)
                           IN  /\ cache' = [cache EXCEPT ![h] = <<x>>]
                               /\ query' = query \cup {<<h, f>> : f \in x.inflight}
                               /\ order' = IF refused \ n.inflight = {} THEN order
                                           ELSE Reindexed(cache', h)
        /\ UNCHANGED second

\* The list is at its end, or the name the pass stood at was removed.
MaintainEnd ==
    /\ pass # <<>> /\ (pass[1].at # <<>> => cache[pass[1].at[1]] = <<>>)
    /\ pass' = <<>>
    /\ UNCHANGED <<second, cache, order, query>>

SecondPasses == second < LastSecond /\ second' = second + 1 /\ UNCHANGED <<cache, order, query, pass>>

\* noit_check_resolver_init with a saved cache: names that would expire soon
\* are given a time within the next seconds.
LoadCache(h, lu, t) ==
    /\ second = 1 /\ cache[h] = <<>> /\ query = {} /\ pass = <<>>
    /\ LET ttl == IF t > MAX_TTL THEN DEFAULT_FAILED_TTL ELSE t
           within == IF ttl < Soon THEN ttl ELSE Soon
       IN  \E fudge \in 0 .. within :
             cache' = [cache EXCEPT ![h] = <<[NewNode EXCEPT
                 !.ttl = ttl, !.found = Family,
                 !.last_updated = IF lu + ttl < second + Soon THEN second - ttl + fudge ELSE lu]>>]
    /\ order' = InsertByDue(order, cache', h)
    /\ UNCHANGED <<second, query, pass>>

ResolverInit ==
    /\ second = 1 /\ cache = [h \in HostName |-> <<>>] /\ order = <<>>
    /\ query = {} /\ pass = <<>>

ResolverNext ==
    \/ \E h \in HostName :
         \/ Remind(h) \/ ConsoleRemove(h)
         \/ \E f \in Family : Resolve4or6(h, f)
         \/ \E lu \in 0 .. 1, t \in Ttls : LoadCache(h, lu, t)
    \/ MaintainBegin \/ MaintainStep \/ MaintainEnd
    \/ SecondPasses

-----------------------------------------------------------------------------
(* Properties *)

\* The node that a query will be answered into exists and expects the answer:
\* neither the purge of a name nobody needs nor the console removes a node the
\* DNS library still points to, however late the answer is.
AnswersHaveNode ==
    \A q \in query : cache[q[1]] # <<>> /\ q[2] \in cache[q[1]][1].inflight

\* The index is in the order of the times names are due.  The pass stops at
\* the first that is not due, so a name behind it would not be refreshed.
IndexSorted ==
    /\ \A i, j \in DOMAIN order : i < j =>
         Due(cache[order[i]][1]) <= Due(cache[order[j]][1])
    /\ {order[i] : i \in DOMAIN order} = {h \in HostName : cache[h] # <<>>}
    /\ Len(order) = Cardinality({h \in HostName : cache[h] # <<>>})

\* A name for which both families came back without an address is not asked
\* again before DEFAULT_FAILED_TTL is over, whichever answer came first (unless
\* a query was refused or a reply could not be read).
FailuresWait ==
    \A h \in HostName \ Unparsable : cache[h] # <<>> =>
        LET n == cache[h][1] IN
        n.found = {} /\ n.inflight = {} /\ n.last_updated > 0 /\ ~n.refused
            => n.ttl = DEFAULT_FAILED_TTL

-----------------------------------------------------------------------------
(***************************************************************************)
(* What the cache of host names keeps over a restart, and where an address *)
(* comes from (noit_check_resolver.c, modules/resolver_cache.c).  From     *)
(* time to time the file is emptied and every node written to it, one      *)
(* after the other; at boot it is read until it ends or makes no sense.    *)
(* Addresses in /etc/hosts, read again when the file's stat changes, come  *)
(* before those in the cache.                                              *)
(*                                                                         *)
(* The file is a sequence of tokens: two lengths, the key, the value (the  *)
(* counts, then the addresses), a checksum of the value.  A write may be   *)
(* cut anywhere, by a full disk or by a crash.  A token that is not a      *)
(* length is no length below 1024, and two values have one checksum only   *)
(* if they are the same.  Times of entries are in the first part.          *)
(***************************************************************************)

CONSTANTS StoreNames, Ip4s, Ip6s,   \* names, and the lists of addresses a name may have
          HostsFiles,               \* contents of /etc/hosts: lines [names, family, address]
          SBUFF,                    \* the size of a value that fits the buffer
          WriteInterval, LastStoreSecond, MaxLearned, MaxCrashes

ASSUME StoreAssumption ==
  /\ WriteInterval \in Nat \ {0} /\ LastStoreSecond \in Nat /\ MaxLearned \in Nat /\ MaxCrashes \in Nat
  /\ SBUFF \in Nat

\* rnow: the clock; dns: the cache, [name -> [ip4, ip6]]; disk: the file; fpos: the offset
\* of the descriptor; last_update; dumping: "no" or the nodes still to be written; loading:
\* at boot; whole: what the last dump that was not disturbed held, or nothing; saved: every
\* node ever written; hosts, lastStat: /etc/hosts and the stat that was last seen; etc_hosts;
\* learned: counts names learned and restarts.
VARIABLES rnow, dns, disk, fpos, last_update, dumping, loading, whole, saved,
          hosts, lastStat, etc_hosts, learned

diskVars == <<dns, disk, fpos, last_update, dumping, loading, whole, saved>>
hostsVars == <<hosts, lastStat, etc_hosts>>
storeVars == <<rnow, diskVars, hostsVars, learned>>
-----------------------------------------------------------------------------
Tok(k, v) == [kind |-> k, of |-> v]

\* dns_cache_node_serialize; what is too long is not written.
dns_cache_node_serialize(n) ==
  <<Tok("counts", <<Len(n.ip4), Len(n.ip6)>>)>>
    \o [i \in DOMAIN n.ip4 |-> Tok("address", n.ip4[i])] \o [i \in DOMAIN n.ip6 |-> Tok("address", n.ip6[i])]

\* dns_cache_node_deserialize: <<>> when the length is not what the counts say.
dns_cache_node_deserialize(b) ==
  IF b = <<>> \/ b[1].kind # "counts" THEN <<>>
  ELSE LET a == b[1].of[1]  s == b[1].of[2]
       IN IF Len(b) # 1 + a + s THEN <<>>
          ELSE <<[ip4 |-> [i \in 1..a |-> b[1 + i].of], ip6 |-> [i \in 1..s |-> b[1 + a + i].of]]>>

StoredRecord(h, n) ==
  LET v == dns_cache_node_serialize(n)
  IN <<Tok("len", 1), Tok("len", Len(v)), Tok("key", h)>> \o v \o <<Tok("crc", v)>>

\* A write at the offset of the descriptor; a gap reads as zeros.
WriteAt(d, p, s) == [i \in 1..(p + Len(s)) |-> IF i > p THEN s[i - p] ELSE IF i <= Len(d) THEN d[i] ELSE Tok("len", 0)]
-----------------------------------------------------------------------------
StoreInit ==
  /\ rnow = WriteInterval /\ dns = <<>> /\ disk = <<>> /\ fpos = 0 /\ last_update = 0
  /\ dumping = <<>> /\ loading = TRUE /\ whole = {} /\ saved = {} /\ learned = [nodes |-> 0, crashes |-> 0]
  /\ hosts \in [lines : HostsFiles, mtime : {0}] /\ lastStat = <<>> /\ etc_hosts = <<>>

CachedNodes == {[key |-> h, node |-> dns[h]] : h \in DOMAIN dns}
FitsBuffer(n) == Len(dns_cache_node_serialize(n)) <= SBUFF

\* A name is resolved (the first part).
Learn(h, a, s) ==
  /\ ~loading /\ dumping = <<>> /\ learned.nodes < MaxLearned /\ learned' = [learned EXCEPT !.nodes = @ + 1]
  /\ dns' = [g \in DOMAIN dns \cup {h} |-> IF g = h THEN [ip4 |-> a, ip6 |-> s] ELSE dns[g]]
  /\ UNCHANGED <<rnow, disk, fpos, last_update, dumping, loading, whole, saved, hostsVars>>

\* resolver_cache_store_impl asked whether it is time: the file is emptied.
StoreBegins ==
  /\ ~loading /\ dumping = <<>> /\ rnow - last_update >= WriteInterval
  /\ disk' = <<>> /\ fpos' = 0 /\ last_update' = rnow /\ whole' = {}
  /\ dumping' = <<[left |-> CachedNodes, ok |-> TRUE]>>
  /\ UNCHANGED <<rnow, dns, loading, saved, hostsVars, learned>>

\* resolver_cache_store_impl of one node.  A short write is logged, and the dump goes on.
resolver_cache_store_impl(x, cut) ==
  LET r == StoredRecord(x.key, x.node)
  IN /\ dumping # <<>> /\ x \in dumping[1].left /\ cut \in 0..Len(r) /\ (~FitsBuffer(x.node) => cut = 0)
     /\ disk' = WriteAt(disk, fpos, SubSeq(r, 1, cut)) /\ fpos' = fpos + cut
     /\ saved' = IF cut = Len(r) THEN saved \cup {x} ELSE saved
     /\ dumping' = <<[left |-> dumping[1].left \ {x}, ok |-> dumping[1].ok /\ (FitsBuffer(x.node) => cut = Len(r))]>>
     /\ UNCHANGED <<rnow, dns, last_update, loading, whole, hostsVars, learned>>

StoreEnds ==
  /\ dumping # <<>> /\ dumping[1].left = {}
  /\ whole' = IF dumping[1].ok THEN {x \in CachedNodes : FitsBuffer(x.node)} ELSE {}
  /\ dumping' = <<>>
  /\ UNCHANGED <<rnow, dns, disk, fpos, last_update, loading, saved, hostsVars, learned>>

\* noitd ends and is started again, maybe in the middle of a dump.
ResolverRestart ==
  /\ learned.crashes < MaxCrashes /\ learned' = [learned EXCEPT !.crashes = @ + 1]
  /\ dns' = <<>> /\ fpos' = 0 /\ last_update' = 0 /\ dumping' = <<>> /\ loading' = TRUE
  /\ etc_hosts' = <<>> /\ lastStat' = <<>>
  /\ UNCHANGED <<rnow, disk, whole, saved, hosts>>

\* resolver_cache_load_impl: what is at the offset, [rv, key, value, next].
resolver_cache_load_impl(d, p) ==
  LET left == Len(d) - p
  IN IF left = 0 THEN [rv |-> "done"]
     ELSE IF left < 2 \/ d[p + 1].kind # "len" \/ d[p + 2].kind # "len" THEN [rv |-> "abort"]
     ELSE LET kl == d[p + 1].of
              v == SubSeq(d, p + 2 + kl + 1, p + 2 + kl + d[p + 2].of)
              c == p + 2 + kl + d[p + 2].of + 1
          IN IF c > Len(d) \/ kl = 0 THEN [rv |-> "abort"]
             ELSE IF d[c] # Tok("crc", v) \/ d[p + 2 + kl].kind # "key" THEN [rv |-> "abort"]
             ELSE [rv |-> "continue", key |-> d[p + 2 + kl].of, value |-> v, next |-> c]

\* noit_check_resolver_init's loop, one record.
LoadOne ==
  LET r == resolver_cache_load_impl(disk, fpos)
  IN /\ loading
     /\ loading' = (r.rv = "continue")
     /\ last_update' = IF r.rv = "done" THEN rnow ELSE last_update
     /\ IF r.rv # "continue" THEN UNCHANGED <<dns, fpos>>
        ELSE /\ fpos' = r.next
             /\ LET n == dns_cache_node_deserialize(r.value)
                IN dns' = IF n = <<>> THEN dns
                          ELSE [g \in DOMAIN dns \cup {r.key} |-> IF g = r.key THEN n[1] ELSE dns[g]]
     /\ UNCHANGED <<rnow, disk, dumping, whole, saved, hostsVars, learned>>

-----------------------------------------------------------------------------
Stat == [mtime |-> hosts.mtime, size |-> Len(hosts.lines)]

\* /etc/hosts is written, not twice in a second.
EditHosts(f) ==
  /\ f # hosts.lines /\ hosts.mtime < rnow
  /\ hosts' = [lines |-> f, mtime |-> rnow]
  /\ UNCHANGED <<rnow, diskVars, lastStat, etc_hosts, learned>>

\* The entries made from the lines: for a name and family the last one stands.
RefreshedOnto(lines, t) ==
  LET names == UNION {lines[i].names : i \in DOMAIN lines}
      of(h, f) == LET is == {i \in DOMAIN lines : h \in lines[i].names /\ lines[i].family = f}
                  IN IF is # {} THEN <<lines[CHOOSE i \in is : \A j \in is : j <= i].address>>
                     ELSE IF h \in DOMAIN t THEN t[h][f] ELSE <<>>
  IN [h \in names \cup DOMAIN t |-> [f \in {4, 6} |-> of(h, f)]]

noit_check_etc_hosts_cache_refresh ==
  /\ ~loading
  /\ etc_hosts' = IF lastStat # <<Stat>> THEN RefreshedOnto(hosts.lines, <<>>) ELSE etc_hosts
  /\ lastStat' = <<Stat>>
  /\ UNCHANGED <<rnow, diskVars, hosts, learned>>

\* The first address of the preferred family, or of the other.
Preferred(a4, a6, prefer) ==
  LET first == IF prefer = 4 THEN a4 ELSE a6  other == IF prefer = 4 THEN a6 ELSE a4
  IN IF first # <<>> THEN <<first[1]>> ELSE IF other # <<>> THEN <<other[1]>> ELSE <<>>

noit_check_resolver_fetch(h, prefer) ==
  LET s == IF h \in DOMAIN etc_hosts THEN Preferred(etc_hosts[h][4], etc_hosts[h][6], prefer) ELSE <<>>
  IN IF s # <<>> \/ h \notin DOMAIN dns THEN s ELSE Preferred(dns[h].ip4, dns[h].ip6, prefer)

StoreTick == rnow < LastStoreSecond /\ rnow' = rnow + 1 /\ UNCHANGED <<diskVars, hostsVars, learned>>

StoreNext ==
  \/ \E h \in StoreNames, a \in Ip4s, s \in Ip6s : Learn(h, a, s)
  \/ StoreBegins \/ StoreEnds \/ ResolverRestart \/ LoadOne \/ StoreTick
  \/ \E x \in CachedNodes : \E cut \in 0..Len(StoredRecord(x.key, x.node)) : resolver_cache_store_impl(x, cut)
  \/ \E f \in HostsFiles : EditHosts(f)
  \/ noit_check_etc_hosts_cache_refresh
-----------------------------------------------------------------------------
(* Wherever a dump was cut, by crashes and short writes, what is read back at
   boot for a name is what was written for that name once, addresses and
   families; and the file of a dump that nothing disturbed gives back every
   node that fits (resolver_cache_store_impl, resolver_cache_load_impl,
   dns_cache_node_deserialize). *)
LoadedAsSaved ==
  /\ loading => CachedNodes \subseteq saved
  /\ whole # {} /\ loading /\ resolver_cache_load_impl(disk, fpos).rv # "continue" => CachedNodes = whole

(* A dump overwrites the one before it: the file never begins with a gap or with
   what an earlier dump left (resolver_cache_store_impl's ftruncate and lseek). *)
DumpsReplace ==
  disk # <<>> => disk[1].kind = "len" /\ disk[1].of = 1 /\ fpos <= Len(disk)

HostLines(h, f) == SelectSeq(hosts.lines, LAMBDA x : h \in x.names /\ x.family = f)

(* Once /etc/hosts has been read since it was last edited, an answer is the address the file gives
   the name now, of the preferred family if it has one, and one of the cache's
   only if the file does not name it, however often it was edited before
   (noit_check_etc_hosts_cache_refresh, noit_check_resolver_fetch). *)
HostsHonoured ==
  lastStat = <<Stat>> =>
    \A h \in StoreNames, prefer \in {4, 6} :
      LET a == HostLines(h, prefer)
          b == HostLines(h, IF prefer = 4 THEN 6 ELSE 4)
      IN noit_check_resolver_fetch(h, prefer) =
           IF a # <<>> THEN <<Last(a).address>>
           ELSE IF b # <<>> THEN <<Last(b).address>>
           ELSE IF h \in DOMAIN dns THEN Preferred(dns[h].ip4, dns[h].ip6, prefer)
           ELSE <<>>
=============================================================================
