--------------------------- MODULE StreamerNoits ---------------------------
(***************************************************************************)
(* The noits stratcond streams from: the nodes of its configuration, the   *)
(* connections made for them (noits), the directory of their addresses by  *)
(* common name (noit_ip_by_cn) and the services registered with consul for *)
(* the entries of the directory.  Noits are added and removed by REST and  *)
(* console requests, reverse connections change their addresses, and one   *)
(* coroutine per noit asks it for its capabilities (consul_meta_updater).  *)
(***************************************************************************)
EXTENDS Integers, Sequences, FiniteSets

CONSTANTS NoitAddress, NoitCn,
          NoAddress, NoCn,        \* the empty address; a noit without a common name
          Feed,                   \* the kinds of feed that are enabled
          NoitConfs,              \* the configurations stratcond may start with
          MaxUpdaters, MaxNoits, MaxHooks, MaxRequests    \* bounds
ASSUME NoitsAssumption == NoAddress \notin NoitAddress /\ NoCn \notin NoitCn /\ MaxUpdaters \in Nat

VARIABLES
    noitconf,       \* //noits//noit
    noits,          \* the connections: [address, cn, feed, remote_cn]
    directory,      \* noit_ip_by_cn: <<>> or <<[address, capa]>>
    services,       \* the consul registry: <<>> or <<[address, capa]>>
    updaters,       \* updaters[cn]: how many coroutines sleep, and how many ask the noit
    adding,         \* requests to add that found the noit absent
    removing,       \* requests to remove that have changed the configuration
    hooked,         \* reverse connections gone whose service is to be reset
    hooks,          \* how many reverse connections came or went
    launched        \* the names an updater was started for since they were last added

noitsVars == <<noitconf, noits, directory, services, updaters, adding, removing, hooked, hooks, launched>>

Unknown == "unknown"
Noit == [address : NoitAddress \union {NoAddress}, cn : NoitCn \union {NoCn}] \ {[address |-> NoAddress, cn |-> NoCn]}

\* consul_start: register what the entry says.
Registered(entry) == <<[address |-> entry.address, capa |-> entry.capa]>>
Startable(entry) == entry.address # NoAddress

consul_start(cn, entry, launch) ==
    /\ services' = IF Startable(entry) THEN [services EXCEPT ![cn] = Registered(entry)] ELSE services
    /\ IF Startable(entry) /\ launch
       THEN /\ updaters[cn].sleep + updaters[cn].ask < MaxUpdaters
            /\ updaters' = [updaters EXCEPT ![cn].sleep = @ + 1] /\ launched' = launched \union {cn}
       ELSE UNCHANGED <<updaters, launched>>

\* mtev_connections_from_config: a connection per feed to each node of that name or address.
Connections(ns) == {[address |-> n.address, cn |-> n.cn, feed |-> k, remote_cn |-> <<>>] : n \in ns, k \in Feed}
Known(cs) == {[c EXCEPT !.remote_cn = <<>>] : c \in cs}

-----------------------------------------------------------------------------
(* stratcon_add_noit, which looks for the noit under one lock and adds it  *)
(* under another.                                                          *)
AddLooks(n) ==
    /\ Cardinality(adding) < MaxRequests /\ n \notin adding
    /\ n.address = NoAddress \/ \A m \in noitconf : m.address # n.address
    /\ n.cn = NoCn \/ \A m \in noitconf : m.cn # n.cn
    /\ adding' = adding \union {n}
    /\ UNCHANGED <<noitconf, noits, directory, services, updaters, removing, hooked, hooks, launched>>

AddNoit(n) ==
    /\ n \in adding /\ adding' = adding \ {n}
    /\ Cardinality(noitconf \union {n}) <= MaxNoits
    /\ noitconf' = noitconf \union {n}
    /\ LET named == {m \in noitconf' : IF n.cn = NoCn THEN n.address \in {m.address, m.cn} ELSE n.cn \in {m.address, m.cn}} IN
       noits' = noits \union {c \in Connections(named) : c \notin Known(noits)}
    /\ IF n.cn = NoCn THEN UNCHANGED <<directory, services, updaters, launched>>
       ELSE LET entry == [address |-> n.address, capa |-> 0] IN
            directory' = [directory EXCEPT ![n.cn] = <<entry>>] /\ consul_start(n.cn, entry, TRUE)
    /\ UNCHANGED <<removing, hooked, hooks>>

\* The nodes stratcon_remove_noit takes out of the configuration: two sweeps.
Removed(address, cn) ==
    {n \in noitconf : n.address = address /\ cn \in {NoCn, n.cn}}
    \union {n \in noitconf : cn # NoCn /\ n.cn = cn}

RemoveConf(address, cn) ==
    /\ <<address, cn>> \notin removing /\ Cardinality(removing) < MaxRequests
    /\ LET gone == Removed(address, cn)
           stop == {n.cn : n \in gone} \ {NoCn} IN
       /\ noitconf' = noitconf \ gone
       /\ directory' = [c \in NoitCn |-> IF c \in stop THEN <<>> ELSE directory[c]]
       /\ services' = [c \in NoitCn |-> IF c \in stop /\ directory[c] # <<>> THEN <<>> ELSE services[c]]    \* consul_stop
       /\ launched' = launched \ stop
    /\ removing' = removing \union {<<address, cn>>}
    /\ UNCHANGED <<noits, updaters, adding, hooked, hooks>>

\* Mutant of Popped: only connections that are up to the name are closed.
PoppedNamed(address, cn) == {c \in noits : IF cn = NoCn THEN c.address = address ELSE c.remote_cn = <<cn>>}

\* The connections it then closes.
Popped(address, cn) == {c \in noits : (cn # NoCn /\ c.cn = cn) \/ c.address = address}

RemoveConns(address, cn) ==
    /\ <<address, cn>> \in removing /\ removing' = removing \ {<<address, cn>>}
    /\ noits' = noits \ Popped(address, cn)
    /\ UNCHANGED <<noitconf, directory, services, updaters, adding, hooked, hooks, launched>>

-----------------------------------------------------------------------------
\* A connection is made, to a noit whose certificate has the expected name, or is lost.
ConnUp(c, cn) ==
    /\ c.remote_cn = <<>> /\ c.cn \in {NoCn, cn}
    /\ noits' = (noits \ {c}) \union {[c EXCEPT !.remote_cn = <<cn>>]}
    /\ UNCHANGED <<noitconf, directory, services, updaters, adding, removing, hooked, hooks, launched>>
ConnDown(c) ==
    /\ c.remote_cn # <<>>
    /\ noits' = (noits \ {c}) \union {[c EXCEPT !.remote_cn = <<>>]}
    /\ UNCHANGED <<noitconf, directory, services, updaters, adding, removing, hooked, hooks, launched>>

-----------------------------------------------------------------------------
(* consul_proxy_hook: a reverse connection of a noit is up at an address,  *)
(* or is down.  The reset of one that is down takes the lock anew.         *)
ProxyHook(cn, address, up) ==
    LET known == directory[cn] # <<>>
        entry == IF known THEN [directory[cn][1] EXCEPT !.address = address] ELSE [address |-> address, capa |-> 0] IN
    /\ hooks < MaxHooks /\ hooks' = hooks + 1 /\ cn \notin hooked
    /\ directory' = [directory EXCEPT ![cn] = <<entry>>]
    /\ IF up THEN consul_start(cn, entry, ~known) /\ UNCHANGED hooked
       ELSE hooked' = hooked \union {cn} /\ UNCHANGED <<services, updaters, launched>>
    /\ UNCHANGED <<noitconf, noits, adding, removing>>

consul_reset(cn) ==
    /\ cn \in hooked /\ hooked' = hooked \ {cn}
    /\ IF services[cn] = <<>> THEN UNCHANGED <<directory, services, updaters, launched>>
       ELSE LET known == directory[cn] # <<>>
                entry == [address |-> Unknown, capa |-> IF known THEN directory[cn][1].capa ELSE 0] IN
            directory' = [directory EXCEPT ![cn] = <<entry>>] /\ consul_start(cn, entry, ~known)
    /\ UNCHANGED <<noitconf, noits, adding, removing, hooks>>

-----------------------------------------------------------------------------

\* consul_meta_updater: it ends when the noit has left the directory, else asks it.
UpdaterWakes(cn) ==
    /\ updaters[cn].sleep > 0
    /\ updaters' = IF directory[cn] = <<>> THEN [updaters EXCEPT ![cn].sleep = @ - 1]
                   ELSE [updaters EXCEPT ![cn] = [sleep |-> @.sleep - 1, ask |-> @.ask + 1]]
    /\ UNCHANGED <<noitconf, noits, directory, services, adding, removing, hooked, hooks, launched>>

\* The answer, if any (refresh_meta_from_json), and back to sleep.
UpdaterAnswered(cn, answer) ==
    /\ updaters[cn].ask > 0
    /\ updaters' = [updaters EXCEPT ![cn] = [sleep |-> @.sleep + 1, ask |-> @.ask - 1]]
    /\ LET changed == answer # <<>> /\ directory[cn] # <<>> /\ directory[cn][1].capa # answer[1]
           entry == [directory[cn][1] EXCEPT !.capa = answer[1]] IN
       IF changed
       THEN /\ directory' = [directory EXCEPT ![cn] = <<entry>>]
            /\ services' = IF Startable(entry) THEN [services EXCEPT ![cn] = Registered(entry)] ELSE services
       ELSE UNCHANGED <<directory, services>>
    /\ UNCHANGED <<noitconf, noits, adding, removing, hooked, hooks, launched>>

-----------------------------------------------------------------------------
(* rest_show_noits and rest_show_noits_json, of all noits or of one name:  *)
(* the connections, and the configured noits not seen among them.          *)
Wanted(want, cn) == want \in {NoCn, cn}
Listed(want) == {c \in noits : want = NoCn \/ c.remote_cn = <<want>>}
NoitOf(c) == [address |-> c.address, cn |-> c.cn]

Configured(want) == {n \in noitconf : Wanted(want, n.cn) /\ n \notin {NoitOf(c) : c \in Listed(want)}}

-----------------------------------------------------------------------------
\* stratcon_jlog_streamer_recache_noit and the first connections.
NoitsInit ==
    /\ noitconf \in NoitConfs /\ noits = Connections(noitconf)
    /\ LET entry(cn) == [address |-> (CHOOSE n \in noitconf : n.cn = cn).address, capa |-> 0]
           named == {n.cn : n \in noitconf} \ {NoCn} IN
       /\ directory = [cn \in NoitCn |-> IF cn \in named THEN <<entry(cn)>> ELSE <<>>]
       /\ services = [cn \in NoitCn |-> IF cn \in named /\ Startable(entry(cn)) THEN Registered(entry(cn)) ELSE <<>>]
       /\ launched = {cn \in named : Startable(entry(cn))}
       /\ updaters = [cn \in NoitCn |-> [sleep |-> IF cn \in named /\ Startable(entry(cn)) THEN 1 ELSE 0, ask |-> 0]]
    /\ adding = {} /\ removing = {} /\ hooked = {} /\ hooks = 0

NoitsNext ==
    \/ \E n \in Noit : AddLooks(n) \/ AddNoit(n)
    \/ \E a \in NoitAddress \union {NoAddress}, cn \in NoitCn \union {NoCn} : RemoveConf(a, cn) \/ RemoveConns(a, cn)
    \/ \E c \in noits : ConnDown(c) \/ (\E cn \in NoitCn : ConnUp(c, cn))
    \/ \E cn \in NoitCn :
        \/ \E a \in NoitAddress, up \in BOOLEAN : ProxyHook(cn, a, up)
        \/ consul_reset(cn) \/ UpdaterWakes(cn)
        \/ \E answer \in {<<>>, <<1>>} : UpdaterAnswered(cn, answer)

-----------------------------------------------------------------------------
(* A service registered with consul is one of the directory, and says of   *)
(* the noit what the directory says of it, but for an entry without an     *)
(* address and while the reset for a lost reverse connection is under way  *)
(* (consul_start, consul_stop, consul_reset, consul_proxy_hook).           *)
ServicesMatch ==
    \A cn \in NoitCn : services[cn] # <<>> =>
        /\ directory[cn] # <<>>
        /\ cn \in hooked \/ directory[cn][1].address = NoAddress
           \/ /\ services[cn][1].address = directory[cn][1].address
              /\ services[cn][1].capa = directory[cn][1].capa

(* As long as a noit for which an updater was started is not removed, an   *)
(* updater runs for it (consul_meta_updater).                              *)
NoitsRefreshed == \A cn \in launched : updaters[cn].sleep + updaters[cn].ask > 0

(* Once the requests to remove are over, every connection is one of a      *)
(* noit that is configured (stratcon_add_noit, stratcon_remove_noit).      *)
ConnectionsConfigured ==
    removing = {} => \A c \in noits : NoitOf(c) \in noitconf

(* A listing shows every configured noit that it was asked for, as a       *)
(* connection or as configured, and none in both forms                     *)
(* (rest_show_noits, rest_show_noits_json).                                *)
ListingComplete ==
    \A want \in NoitCn \union {NoCn} :
        LET connected == {NoitOf(c) : c \in Listed(want)} IN
        /\ {n \in noitconf : Wanted(want, n.cn)} \subseteq connected \union Configured(want)
        /\ connected \intersect Configured(want) = {}
=============================================================================
