----------------------------- MODULE CheckConf ------------------------------
(***************************************************************************)
(* The configuration of checks: nodes of the configuration file against    *)
(* the checks in memory (first part), and the forms an attribute takes in  *)
(* the file, in LMDB and on the wire (second part).                        *)
(***************************************************************************)
EXTENDS Integers, Sequences, FiniteSets, SequencesExt, FiniteSetsExt

(***************************************************************************)
(* Checks kept in the configuration file (noit_check.c, noit_check_rest.c, *)
(* noit_conf_checks.c): the tree of check nodes in memory, the file it is  *)
(* written to, and the checks that run.  Requests over REST, the console,  *)
(* peers and the recycler change them; a reload or a restart reads the     *)
(* file again.                                                             *)
(*                                                                         *)
(* A node has its path, its sequence number, its target`name and whether   *)
(* it is marked deleted.  The nodes of one check are a sequence because    *)
(* nothing keeps a second one from being added.  The sequence number of a  *)
(* node is 0 when it has none.  Requests refused before they touch the     *)
(* tree (a bad document, an unknown module, a bad path) are left out.  The *)
(* console and peers give no check a name that another one has.            *)
(***************************************************************************)

CONSTANTS
    CheckId, CheckPath,
    Root,        \* the path whose expression finds a check anywhere
    CheckName,
    NoName,      \* the name of a check marked deleted: none`uuid
    AskSeqs,     \* sequence numbers of set requests, as <<>> or <<n>>
    ReplSeqs,    \* sequence numbers that peers send
    MaxSeq,      \* numbers above it are not reached by increments
    MaxCheckNodes     \* at most so many nodes of one check

ASSUME CheckConfAssumption ==
    /\ Root \in CheckPath /\ NoName \notin CheckName
    /\ ReplSeqs \subseteq Nat /\ MaxSeq \in Nat /\ MaxCheckNodes \in Nat

VARIABLES
    tree,   \* tree[c]: the nodes of check c
    conffile,   \* what was written last
    polls,  \* polls[c]: <<>>, or <<[seq, name, dead]>>
    todo    \* what the recycler took out of polls, its nodes still to remove

checkConfVars == <<tree, conffile, polls, todo>>

Nodes(c, p) == {i \in DOMAIN tree[c] : p = Root \/ tree[c][i].path = p}
Dropped(nodes, S) ==
    LET kept == {i \in DOMAIN nodes : i \notin S}
    IN  [k \in 1..Cardinality(kept) |-> nodes[SetToSortSeq(kept, <)[k]]]
Taken(name, c) == \E d \in CheckId \ {c} : polls[d] # <<>> /\ polls[d][1].name = name

\* noit_poller_deschedule, not to be added again: a check with a sequence
\* number stays, marked, until it is recycled.
Descheduled(m) == IF m # <<>> /\ m[1].seq # 0 THEN <<[m[1] EXCEPT !.dead = TRUE]>> ELSE <<>>

\* noit_conf_check_bump_seq
Bumped(seq) == IF seq = 0 THEN 0 ELSE IF seq < 0 THEN 0 ELSE seq + 1

\* noit_poller_process_check_conf: a check found is taken out first; a node
\* whose number is lower than the check's is then ignored.
Loaded(m, n) ==
    LET had == IF n.seq < 0 THEN 0 ELSE m[1].seq
        seq == Max({n.seq, 0})
        new == [seq |-> seq, name |-> IF n.deleted THEN NoName ELSE n.name, dead |-> n.deleted]
    IN  IF m # <<>> /\ had > n.seq THEN <<>>
        ELSE IF n.deleted THEN Descheduled(<<new>>) ELSE <<new>>

\* noit_poller_process_checks over the nodes in document order.
Processed(m, nodes) == FoldLeft(Loaded, m, nodes)

-----------------------------------------------------------------------------
(* REST *)

\* What a set request is: the number it carries and the name it gives.
Asked == [seq : AskSeqs, name : CheckName]

\* configure_xml_check on an existing node: no number leaves the old one.
Configured(n, ask) ==
    [n EXCEPT !.name = ask.name, !.deleted = FALSE,
              !.seq = IF ask.seq = <<>> THEN @ ELSE ask.seq[1]]

\* The comparison of the numbers is unsigned: a negative one is high.
Sequenced(old, ask) ==
    ask.seq = <<>> \/ ask.seq[1] <= 0 \/ old < ask.seq[1]

\* rest_set_check, no node found at the path and no such check: a new node.
SetNew(c, p, ask) ==
    /\ Nodes(c, p) = {} /\ polls[c] = <<>> /\ ~Taken(ask.name, c)
    /\ Len(tree[c]) < MaxCheckNodes
    /\ LET n == Configured([path |-> p, seq |-> 0, name |-> ask.name, deleted |-> FALSE], ask)
       IN  /\ tree' = [tree EXCEPT ![c] = Append(@, n)]
           /\ polls' = [polls EXCEPT ![c] =
                          Processed(@, IF p = Root THEN tree'[c] ELSE <<n>>)]
    /\ conffile' = tree'
    /\ UNCHANGED todo

\* rest_set_check of a check that runs.  The node is changed before the
\* numbers are compared: the request may be refused after that.
SetExisting(c, p, ask) ==
    /\ polls[c] # <<>> /\ Cardinality(Nodes(c, p)) = 1 /\ ~Taken(ask.name, c)
    /\ LET i == CHOOSE k \in Nodes(c, p) : TRUE
           n == Configured(tree[c][i], ask)
       IN  IF Sequenced(polls[c][1].seq, ask)
           THEN /\ tree' = [tree EXCEPT ![c] = Append(Dropped(@, {i}), [n EXCEPT !.path = p])]
                /\ polls' = [polls EXCEPT ![c] = Loaded(@, n)]
                /\ conffile' = tree'
           ELSE /\ tree' = [tree EXCEPT ![c][i] = n]
                /\ UNCHANGED <<polls, conffile>>
    /\ UNCHANGED todo

\* rest_set_check, a node but no check: the request is dropped, the nodes are
\* loaded as they are and the answer is a success.
SetDropped(c, p) ==
    /\ polls[c] = <<>> /\ Nodes(c, p) # {}
    /\ polls' = [polls EXCEPT ![c] =
                   Processed(@, SelectSeq(tree[c], LAMBDA n : p = Root \/ n.path = p))]
    /\ conffile' = tree
    /\ UNCHANGED <<tree, todo>>

\* rest_delete_check
RestDelete(c, p) ==
    /\ Cardinality(Nodes(c, p)) = 1
    /\ LET i == CHOOSE k \in Nodes(c, p) : TRUE
           seq == Bumped(tree[c][i].seq)
       IN  IF polls[c] # <<>> /\ polls[c][1].seq # 0
           THEN /\ seq <= MaxSeq
                /\ tree' = [tree EXCEPT ![c][i].seq = seq, ![c][i].deleted = TRUE]
                /\ polls' = [polls EXCEPT ![c] =
                               <<[Descheduled(@)[1] EXCEPT !.seq = seq]>>]
           ELSE /\ tree' = [tree EXCEPT ![c] = Dropped(@, {i})]
                /\ polls' = [polls EXCEPT ![c] = <<>>]
    /\ conffile' = tree'
    /\ UNCHANGED todo

-----------------------------------------------------------------------------
(* The console; what it changes is in the file only when it is written. *)

\* noit_console_check new, noit_conf_mkcheck_under; without attributes the
\* check is not loaded yet.
ConsoleNew(c, p, name, attrs) ==
    /\ tree[c] = <<>> /\ polls[c] = <<>> /\ ~Taken(name, c)
    /\ LET n == [path |-> p, seq |-> 0, name |-> name, deleted |-> FALSE]
       IN  /\ tree' = [tree EXCEPT ![c] = <<n>>]
           /\ polls' = IF attrs THEN [polls EXCEPT ![c] = Loaded(@, n)] ELSE polls
    /\ UNCHANGED <<conffile, todo>>

\* refresh_subchecks: the check is loaded from its changed node.
Refresh(c, n) ==
    /\ n.seq <= MaxSeq
    /\ tree' = [tree EXCEPT ![c] = <<n>>]
    /\ polls' = [polls EXCEPT ![c] = Loaded(@, n)]
    /\ UNCHANGED <<conffile, todo>>

\* noit_console_check with attributes
ConsoleSet(c, name) ==
    /\ Len(tree[c]) = 1 /\ ~Taken(name, c)
    /\ Refresh(c, [tree[c][1] EXCEPT !.name = name, !.seq = Bumped(@)])

\* noit_conf_check_set_attr, noit_conf_check_unset_attr: the number is an
\* attribute like any other, and is increased after it was set.
ConsoleAttr(c, seq) ==
    /\ Len(tree[c]) = 1
    /\ Refresh(c, [tree[c][1] EXCEPT !.seq = Bumped(seq)])

\* noit_console_config_setconfig, noit_console_config_unsetconfig: the number
\* of the node stays.
ConsoleConfig(c) ==
    /\ Len(tree[c]) = 1
    /\ Refresh(c, tree[c][1])

\* noit_console_config_nocheck: node after node; when none was removed the
\* nodes are loaded, twice.
NoCheck(c) ==
    /\ tree[c] # <<>> /\ \A i \in DOMAIN tree[c] : Bumped(tree[c][i].seq) <= MaxSeq
    /\ IF polls[c] # <<>> /\ polls[c][1].seq # 0
       THEN /\ tree' = [tree EXCEPT ![c] =
                          [i \in DOMAIN @ |-> [@[i] EXCEPT !.seq = Bumped(@), !.deleted = TRUE]]]
            /\ polls' = [polls EXCEPT ![c] =
                           Processed(Processed(Descheduled(@), tree'[c]), tree'[c])]
       ELSE /\ tree' = [tree EXCEPT ![c] = <<>>]
            /\ polls' = [polls EXCEPT ![c] = <<>>]
    /\ UNCHANGED <<conffile, todo>>

\* write memory
ConsoleWrite ==
    /\ conffile' = tree
    /\ UNCHANGED <<tree, polls, todo>>

\* noit_poller_flush_epoch: checks that the load did not see are taken out.
Flushed(m, nodes) == IF nodes = <<>> THEN Descheduled(m) ELSE m

\* noit_conf_checks_reload: the file is read and all checks are loaded.
ReloadConf ==
    /\ tree' = conffile
    /\ polls' = [c \in CheckId |-> Flushed(Processed(polls[c], conffile[c]), conffile[c])]
    /\ UNCHANGED <<conffile, todo>>

RestartCheckConf ==
    /\ tree' = conffile
    /\ polls' = [c \in CheckId |-> Processed(<<>>, conffile[c])]
    /\ todo' = {}
    /\ UNCHANGED conffile

-----------------------------------------------------------------------------
(* Peers and the recycler *)

\* noit_check_process_repl: the node found first makes way for the peer's.
ReplConf(c, seq, name, deleted) ==
    /\ polls[c] # <<>> => polls[c][1].seq < seq
    /\ ~Taken(name, c)
    /\ LET n == [path |-> Root, seq |-> seq, name |-> name, deleted |-> deleted]
           rest == IF polls[c] = <<>> THEN tree[c] ELSE Dropped(tree[c], {1})
       IN  /\ Len(rest) < MaxCheckNodes
           /\ tree' = [tree EXCEPT ![c] = Append(rest, n)]
           /\ polls' = [polls EXCEPT ![c] = Loaded(@, n)]
    /\ conffile' = tree'
    /\ UNCHANGED todo

\* check_recycle_bin_processor_internal: a deleted check that waits for no
\* peer is taken out,
RecycleScan(c) ==
    /\ polls[c] # <<>> /\ polls[c][1].dead
    /\ polls' = [polls EXCEPT ![c] = <<>>]
    /\ todo' = todo \cup {c}
    /\ UNCHANGED <<tree, conffile>>

\* Mutant of RecycleClean: the mark on the node is not looked at.
RecycleCleanAny(c) ==
    /\ c \in todo
    /\ tree' = [tree EXCEPT ![c] = Dropped(@, {1})]
    /\ conffile' = tree'
    /\ todo' = todo \ {c}
    /\ UNCHANGED polls

\* and later its node is removed, if it is still marked.
RecycleClean(c) ==
    /\ c \in todo
    /\ tree' = IF tree[c] # <<>> /\ tree[c][1].deleted
               THEN [tree EXCEPT ![c] = Dropped(@, {1})] ELSE tree
    /\ conffile' = tree'
    /\ todo' = todo \ {c}
    /\ UNCHANGED polls

CheckConfInit ==
    /\ tree = [c \in CheckId |-> <<>>] /\ conffile = tree
    /\ polls = [c \in CheckId |-> <<>>] /\ todo = {}

CheckConfNext ==
    \/ \E c \in CheckId, p \in CheckPath :
         \/ \E ask \in Asked : SetNew(c, p, ask) \/ SetExisting(c, p, ask)
         \/ SetDropped(c, p) \/ RestDelete(c, p)
         \/ \E name \in CheckName, attrs \in BOOLEAN : ConsoleNew(c, p, name, attrs)
    \/ \E c \in CheckId :
         \/ \E name \in CheckName : ConsoleSet(c, name)
         \/ \E seq \in ReplSeqs \cup {0} : ConsoleAttr(c, seq)
         \/ ConsoleConfig(c) \/ NoCheck(c) \/ RecycleScan(c) \/ RecycleClean(c)
         \/ \E seq \in ReplSeqs, name \in CheckName, d \in BOOLEAN : ReplConf(c, seq, name, d)
    \/ ConsoleWrite \/ ReloadConf \/ RestartCheckConf

-----------------------------------------------------------------------------
(* Properties *)

\* A check that runs and is not marked deleted has a node that is not marked:
\* whatever requests, peers, reloads and the recycler did, writing the
\* configuration and starting again does not lose it.
LiveIsConfigured ==
    \A c \in CheckId : (polls[c] # <<>> /\ ~polls[c][1].dead) =>
       \E i \in DOMAIN tree[c] : ~tree[c][i].deleted

\* After a reload no check runs that the file does not have or marks deleted.
ReloadFollowsFile ==
    [][ReloadConf => \A c \in CheckId :
         (polls'[c] # <<>> /\ ~polls'[c][1].dead) =>
            \E i \in DOMAIN conffile[c] : ~conffile[c][i].deleted]_checkConfVars

-----------------------------------------------------------------------------
(***************************************************************************)
(* The written forms of one check, and what runs when each is read: the    *)
(* <check> node of the configuration file (noit_poller_process_check_conf),*)
(* the attribute rows of the LMDB database (written by the migration and by*)
(* replication from a <check> node, and by a REST PUT from its document,   *)
(* read by noit_poller_lmdb_create_check_from_database_locked), and the    *)
(* <check> node a peer is sent (noit_check_to_xml).  /checks/show prints   *)
(* the rows as a document, which a client may send back.                   *)
(*                                                                         *)
(* A document is a record of optional attributes, <<>> for an absent one;  *)
(* rows are such a record too (what the database holds under the check's   *)
(* id).  The stanza is /noit/checks, whose attributes a check inherits.    *)
(* "config" is the set of the check's options: in a document the elements  *)
(* under <config>, in rows and checks their keys with the namespace of the *)
(* module they are for.  Values of options, sequence numbers and           *)
(* transient_* are left out.                                               *)
(***************************************************************************)

CONSTANTS
  CheckDocs,       \* <check> nodes the configuration file may hold
  PutDocs,         \* attributes of the documents PUT to /checks/set
  Stanzas,         \* the /noit/checks stanza
  Registered,      \* namespaces of the modules that are loaded
  NotNames,        \* option keys that are not XML names
  DefaultMin,      \* minimum_period and maximum_period when not configured
  DefaultMax

Attr == {"target", "module", "name", "filterset", "resolve_rtype", "period",
         "timeout", "oncheck", "disable", "deleted"}

FormsAssumption ==
  /\ DefaultMin \in Nat /\ DefaultMax \in Nat /\ DefaultMin <= DefaultMax
  /\ \A d \in CheckDocs \cup PutDocs : DOMAIN d = Attr \cup {"config"}
  /\ \A s \in Stanzas : /\ DefaultMin <= s.minimum_period
                        /\ s.minimum_period <= s.maximum_period
                        /\ s.maximum_period <= DefaultMax
ASSUME FormsAssumption

VARIABLES
  stanza,    \* /noit/checks, the same on both nodes
  doc,       \* the document the check was last configured from, or <<>>
  attrs,     \* its rows in the database, or <<>>
  runningForm,   \* what the node runs, or <<>>
  peerForm       \* what the peer that was sent the check runs, or <<>>

formsVars == <<stanza, doc, attrs, runningForm, peerForm>>

-----------------------------------------------------------------------------
NoAttrs == [a \in Attr \cup {"config"} |-> IF a = "config" THEN {} ELSE <<>>]

Else(v, w) == IF v = <<>> THEN w ELSE v

\* INHERIT: the check's own attribute or the stanza's.
Inherit(d, a) == Else(d[a], IF a \in DOMAIN stanza THEN stanza[a] ELSE <<>>)

Text(v) == IF v = <<>> THEN "" ELSE v[1]

Clamp(n, low, high) == IF n < low THEN low ELSE IF n > high THEN high ELSE n

\* A timeout is not negative, and below the period when there is one.
Timeout(timeout, period, no_period) ==
  LET t == IF timeout < 0 THEN 0 ELSE timeout
  IN  IF ~no_period /\ t >= period THEN period \div 2 ELSE t

Deleted(c) == [c EXCEPT !.target = "none", !.name = "uuid", !.deleted = TRUE,
                        !.disabled = TRUE]

\* An option's key: the attribute of its element, or the element's name.
KeyOf(e) == [ns |-> e.ns, key |-> IF e.attr = <<>> THEN e.name ELSE e.attr[1]]

\* What the modules that are loaded see of a check's options.
Options(keys) == {k \in keys : k.ns \in Registered \cup {""}}

-----------------------------------------------------------------------------
(* Reading.                                                                *)

\* The check a <check> node of the configuration file makes.
noit_poller_process_check_conf(d) ==
  LET module    == Inherit(d, "module")
      period    == Inherit(d, "period")
      no_period == period \in {<<>>, <<0>>}
      oncheck   == Inherit(d, "oncheck")
      no_on     == oncheck \in {<<>>, <<"">>}
      timeout   == Inherit(d, "timeout")
      clamped   == IF no_period THEN 0
                   ELSE Clamp(period[1], stanza.minimum_period,
                              stanza.maximum_period)
      busted    == \/ Inherit(d, "target") = <<>>
                   \/ module = <<>>
                   \/ no_period = no_on
                   \/ timeout = <<>>
      c == [target   |-> Text(Inherit(d, "target")),
            module   |-> Text(module),
            name     |-> Text(Else(d["name"], module)),
            filterset |-> Text(Inherit(d, "filterset")),
            resolve_rtype |-> Text(Else(Inherit(d, "resolve_rtype"),
                                        <<"prefer-ipv4">>)),
            period   |-> clamped,
            timeout  |-> IF timeout = <<>> THEN 0
                         ELSE Timeout(timeout[1], clamped, no_period),
            oncheck  |-> Text(oncheck),
            config   |-> Options({KeyOf(e) : e \in d["config"]}),
            disabled |-> busted \/ Inherit(d, "disable") = <<TRUE>>,
            busted   |-> busted,
            deleted  |-> FALSE]
  IN  IF d["deleted"] # <<>> THEN Deleted(c) ELSE c

\* The check the rows of the database make; "disable" is not among the
\* attributes it knows.  A string that is empty is inherited too.
noit_poller_lmdb_create_check_from_database_locked(r) ==
  LET InheritText(a) == IF Text(r[a]) = "" THEN Text(Inherit(NoAttrs, a))
                        ELSE Text(r[a])
      period    == Inherit(r, "period")
      no_period == period = <<>>
      clamped   == IF no_period THEN 0
                   ELSE Clamp(period[1], stanza.minimum_period,
                              stanza.maximum_period)
      no_on     == r["oncheck"] = <<>>
      timeout   == Inherit(r, "timeout")
      rtype     == InheritText("resolve_rtype")
      busted    == no_period = no_on \/ timeout = <<>>
      c == [target   |-> InheritText("target"),
            module   |-> InheritText("module"),
            name     |-> Text(r["name"]),
            filterset |-> InheritText("filterset"),
            resolve_rtype |-> IF rtype = "" THEN "prefer-ipv4" ELSE rtype,
            period   |-> clamped,
            timeout  |-> IF timeout = <<>> THEN 0
                         ELSE Timeout(timeout[1], clamped, no_period),
            oncheck  |-> InheritText("oncheck"),
            config   |-> Options(r["config"]),
            disabled |-> busted,
            busted   |-> busted,
            deleted  |-> FALSE]
  IN  IF r["deleted"] = <<"deleted">> THEN Deleted(c) ELSE c

-----------------------------------------------------------------------------
(* Writing.                                                                *)

\* noit_check_lmdb_convert_one_xml_check_to_lmdb: which nodes it refuses ...
Refuses(d) ==
  LET no_period == d["period"] \in {<<>>, <<0>>}
      no_on     == d["oncheck"] \in {<<>>, <<"">>}
  IN  /\ d["deleted"] # <<"deleted">>
      /\ \/ d["target"] = <<>>
         \/ d["module"] = <<>>
         \/ no_period = no_on
         \/ d["timeout"] = <<>>

\* ... and the rows it leaves for the others: what the node itself says, with
\* the name, the timeout and the period made good.
Converted(d) ==
  LET deleted   == d["deleted"] = <<"deleted">>
      no_period == d["period"] \in {<<>>, <<0>>}
      period    == IF no_period THEN 0
                   ELSE Clamp(d["period"][1], DefaultMin, DefaultMax)
      timeout   == IF deleted THEN 0
                   ELSE Timeout(d["timeout"][1], period, no_period)
  IN  [a \in Attr \cup {"config"} |->
         CASE a = "config"  -> Options({KeyOf(e) : e \in d[a]})
           [] a = "target"  -> IF deleted THEN <<"none">> ELSE d[a]
           [] a = "name"    -> IF deleted THEN <<"uuid">>
                               ELSE Else(d[a], d["module"])
           [] a = "period"  -> IF d[a] = <<>> THEN <<>> ELSE <<period>>
           [] a = "timeout" -> <<timeout>>
           [] a = "oncheck" -> IF d[a] = <<"">> THEN <<>> ELSE d[a]
           [] a = "disable" -> <<>>
           [] OTHER         -> d[a]]

\* noit_validate_check_rest_post: naming `disable' stands in for the target.
Valid(d) ==
  /\ \A a \in {"name", "module", "period", "timeout", "filterset"} : d[a] # <<>>
  /\ d["target"] # <<>> \/ d["disable"] # <<>>
  /\ d["oncheck"] = <<>> /\ d["deleted"] = <<>>

\* Mutant of noit_check_lmdb_configure_check: rows the document does not name
\* are kept.
noit_check_lmdb_configure_checkKept(r, d) ==
  [a \in Attr \cup {"config"} |->
     IF a = "config" THEN {KeyOf(e) : e \in d[a]} ELSE Else(d[a], r[a])]

\* The attributes of the document become the rows; rows the document does not
\* name are deleted.
noit_check_lmdb_configure_check(r, d) ==
  [d EXCEPT !["config"] = {KeyOf(e) : e \in d["config"]}]

\* noit_check_lmdb_populate_check_xml_from_lmdb, as a client would send it
\* back: a key that is no XML name becomes the `name' of a <value>, and so
\* does every key of a module, whose namespace must be known.
noit_check_lmdb_add_config(k) ==
  IF k.ns = "" /\ k.key \notin NotNames
  THEN [ns |-> "", name |-> k.key, attr |-> <<>>]
  ELSE [ns |-> k.ns, name |-> "value", attr |-> <<k.key>>]

Shown(r) == [r EXCEPT !["oncheck"] = <<>>, !["config"] =
               {noit_check_lmdb_add_config(k) : k \in Options(r["config"])}]

\* The <check> node peers are sent for a check that runs here.
noit_check_to_xml(c) ==
  IF c.deleted THEN [NoAttrs EXCEPT !["deleted"] = <<"deleted">>]
  ELSE [NoAttrs EXCEPT !["target"] = <<c.target>>, !["module"] = <<c.module>>,
                       !["config"] = {[ns |-> k.ns, name |-> "value",
                                       attr |-> <<k.key>>] : k \in c.config},
                       !["name"] = <<c.name>>,
                       !["filterset"] = <<c.filterset>>,
                       !["period"] = <<c.period>>,
                       !["timeout"] = <<c.timeout>>,
                       !["oncheck"] = IF c.oncheck = "" THEN <<>>
                                      ELSE <<c.oncheck>>]

-----------------------------------------------------------------------------
\* The node is started with the check in its file, or without it.
FormsInit ==
  /\ stanza \in Stanzas
  /\ doc \in {<<d>> : d \in CheckDocs} \cup {<<>>}
  /\ runningForm = IF doc = <<>> THEN <<>>
               ELSE <<noit_poller_process_check_conf(doc[1])>>
  /\ attrs = <<>>
  /\ peerForm = <<>>

\* The file's checks are moved to the database and the node runs from it: a
\* check the conversion refuses stays in the file, where it is not run.
Migrate ==
  /\ doc # <<>> /\ attrs = <<>> /\ runningForm # <<>>
  /\ IF Refuses(doc[1])
     THEN runningForm' = <<>> /\ UNCHANGED attrs
     ELSE /\ attrs' = <<Converted(doc[1])>>
          /\ runningForm' =
               <<noit_poller_lmdb_create_check_from_database_locked(attrs'[1])>>
  /\ UNCHANGED <<stanza, doc, peerForm>>

\* noit_check_lmdb_set_check of a database node: the rows are changed and the
\* check made from them again.  A deleted check is left alone.
PutForm(d) ==
  /\ attrs # <<>> \/ doc = <<>>
  /\ (runningForm # <<>> => ~runningForm[1].deleted)
  /\ Valid(d)
  /\ doc' = <<d>>
  /\ attrs' = <<noit_check_lmdb_configure_check(
                  IF attrs = <<>> THEN NoAttrs ELSE attrs[1], d)>>
  /\ runningForm' = <<noit_poller_lmdb_create_check_from_database_locked(attrs'[1])>>
  /\ peerForm' = <<>>
  /\ UNCHANGED stanza

\* A client sends back what /checks/show told it.
PutBack == attrs # <<>> /\ PutForm(Shown(attrs[1]))

\* The node is started again, or told to load its checks again.
Reload ==
  /\ attrs # <<>>
  /\ runningForm' = <<noit_poller_lmdb_create_check_from_database_locked(attrs[1])>>
  /\ UNCHANGED <<stanza, doc, attrs, peerForm>>

\* noit_check_lmdb_process_repl on the peer.
Replicate ==
  /\ attrs # <<>> /\ peerForm = <<>>
  /\ LET node == noit_check_to_xml(runningForm[1])
     IN  /\ ~Refuses(node)
         /\ peerForm' = <<noit_poller_lmdb_create_check_from_database_locked(
                        Converted(node))>>
  /\ UNCHANGED <<stanza, doc, attrs, runningForm>>

FormsNext ==
  \/ Migrate \/ PutBack \/ Reload \/ Replicate
  \/ \E d \in PutDocs : PutForm(d)

-----------------------------------------------------------------------------
\* Nothing in the document is outside what the database can say: `disable'
\* is not read from it, a period of 0 is a period there, and the conversion
\* fits the timeout to a period raised to the default minimum only.
Expressible(d) ==
  /\ Inherit(d, "disable") # <<TRUE>>
  /\ Inherit(d, "period") # <<0>>
  /\ \A n \in {d["period"][i] : i \in DOMAIN d["period"]} :
       n < stanza.minimum_period => stanza.minimum_period = DefaultMin
  /\ d["deleted"] = <<>>

(* A check that runs from the database is the check its document describes:*)
(* what the migration and a PUT write, read back and completed from the    *)
(* stanza, is what reading the document from the configuration file would  *)
(* have made - target, names, clamped period and timeout included - and    *)
(* nothing of an earlier version of the check shows through.               *)
RunsAsWritten ==
  attrs # <<>> /\ Expressible(doc[1]) /\ Inherit(doc[1], "target") # <<>> =>
    runningForm[1] = noit_poller_process_check_conf(doc[1])

(* A peer runs the same check: target, module, name, filterset, period and *)
(* timeout of a periodic check that runs from the database survive the trip*)
(* through noit_check_to_xml and the peer's own conversion, and a deletion *)
(* arrives as one.                                                         *)
PeersAgree ==
  peerForm # <<>> =>
    LET c == runningForm[1]  p == peerForm[1]
    IN  /\ p.deleted = c.deleted
        /\ ~c.deleted /\ ~c.busted /\ c.oncheck = "" =>
             [p EXCEPT !.resolve_rtype = c.resolve_rtype] = c

(* What /checks/show prints is the check that runs: sending it back leaves *)
(* every attribute and every option of the running check as it was.        *)
ShownPutsBack ==
  [][ attrs # <<>> /\ attrs[1]["oncheck"] = <<>> /\ doc' = <<Shown(attrs[1])>> =>
        runningForm' = runningForm ]_formsVars
=============================================================================
