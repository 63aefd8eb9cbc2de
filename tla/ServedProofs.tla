---------------------------- MODULE ServedProofs ----------------------------
(***************************************************************************)
(* Who is served of what the checks measure: the clients that watch a      *)
(* check, and the lanes that asked for a metric.                           *)
(*                                                                         *)
(* No transient copy of a check is left to run, or to be found, without    *)
(* somebody who watches it, for any number of checks, periods and clients. *)
(* The property is not inductive by itself: noit_check_activate lets a     *)
(* copy fire after its feed was added, so the invariant adds that the feed *)
(* of a client that is about to activate its copy is still there.  Nobody  *)
(* removes it: the console and the handlers remove only feeds of clients   *)
(* that are watching, and the cleaning only feeds that nobody reads.       *)
(*                                                                         *)
(* What the director decides of a metric is what was asked of it, for any  *)
(* number of lanes, keys, searches and distributor threads.  Of a key: its *)
(* counters are either all absent, and then nobody ever raised one, or     *)
(* each is at the cap it never leaves, or at least as large as the         *)
(* difference of the adjustments.  Of a thread in distribute_metric: the   *)
(* lanes it has gathered were entitled at some moment, and, in the loop    *)
(* over buckets and lanes, every search that was registered and matched    *)
(* all along and lies behind the position of the loop has its lane among   *)
(* them; the ones ahead lie in buckets whose tables were found.            *)
(***************************************************************************)
EXTENDS Watches, DirectorSelect, TLAPS

-----------------------------------------------------------------------------
(* The copies of checks that clients watch.                                *)

Copies == [key : WatchKey, listed : BOOLEAN, killed : BOOLEAN, live : BOOLEAN, feeds : SUBSET Stream]

At == {"idle", "missed", "found", "fed", "open", "gone"}

Places == [at : At, key : WatchKey \cup {"none"}, copy : Nat]

\* Watcher s is about to add its feed to copy i.
Coming(s, i) == watcher[s].at = "found" /\ watcher[s].copy = i

CopyOK(c, coming) == (c.listed \/ (c.live /\ ~c.killed)) => (c.feeds # {} \/ coming)

\* The copies cs are well formed, and the feeds of the watchers about to activate
\* theirs are there.
CopiesOK(cs) ==
    /\ cs \in Seq(Copies)
    /\ \A i \in DOMAIN cs : CopyOK(cs[i], \E s \in Stream : Coming(s, i))
    /\ \A s \in Stream : watcher[s].at = "fed" => s \in cs[watcher[s].copy].feeds

WatchInv ==
    /\ watcher \in [Stream -> Places]
    /\ \A s \in Stream : watcher[s].at \in {"found", "fed", "open"} => watcher[s].copy \in DOMAIN copies
    /\ \A s \in Stream : watcher[s].at = "missed" => watcher[s].key \in WatchKey
    /\ CopiesOK(copies)

\* The fields of a copy, and of a place.
LEMMA CopyFields ==
    ASSUME NEW k, NEW ls, NEW kd, NEW lv, NEW fs
    PROVE  /\ Copy(k, ls, kd, lv, fs).key = k /\ Copy(k, ls, kd, lv, fs).listed = ls
           /\ Copy(k, ls, kd, lv, fs).killed = kd /\ Copy(k, ls, kd, lv, fs).live = lv
           /\ Copy(k, ls, kd, lv, fs).feeds = fs
BY Zenon DEF Copy

\* A well-typed copy is one of Copies.
LEMMA CopyType ==
    ASSUME NEW k \in WatchKey, NEW ls \in BOOLEAN, NEW kd \in BOOLEAN, NEW lv \in BOOLEAN,
           NEW fs \in SUBSET Stream
    PROVE  Copy(k, ls, kd, lv, fs) \in Copies
BY Zenon DEF Copy, Copies

\* The types of a copy's fields.
LEMMA CopyHas ==
    ASSUME NEW c \in Copies
    PROVE  /\ c.key \in WatchKey /\ c.listed \in BOOLEAN /\ c.killed \in BOOLEAN
           /\ c.live \in BOOLEAN /\ c.feeds \in SUBSET Stream
BY Zenon DEF Copies

\* One copy replaced, in a sequence of copies.
LEMMA CopyReplaced ==
    ASSUME NEW cs \in Seq(Copies), NEW i \in DOMAIN cs, NEW c \in Copies
    PROVE  /\ [cs EXCEPT ![i] = c] \in Seq(Copies)
           /\ DOMAIN [cs EXCEPT ![i] = c] = DOMAIN cs
           /\ [cs EXCEPT ![i] = c][i] = c
           /\ \A j \in DOMAIN cs : j # i => [cs EXCEPT ![i] = c][j] = cs[j]
OBVIOUS

\* Taking feeds away from a copy (noit_check_transient_remove_feed), none of them
\* of a watcher that is about to activate its copy, leaves no copy unwatched: with
\* the last feed the copy is killed and the listed one of its key is taken off.
LEMMA RemoveKeeps ==
    ASSUME watcher \in [Stream -> Places],
           NEW cs, CopiesOK(cs), NEW i \in DOMAIN cs, NEW ss \in SUBSET Stream,
           \A s \in Stream : watcher[s].at = "fed" => watcher[s].copy \in DOMAIN cs,
           \A s \in ss : watcher[s].at # "fed"
    PROVE  CopiesOK(RemoveFeed(cs, i, ss)) /\ DOMAIN RemoveFeed(cs, i, ss) = DOMAIN cs
<1>0. cs \in Seq(Copies) /\ \A j \in DOMAIN cs : cs[j] \in Copies
  BY DEF CopiesOK
<1>1. CASE cs[i].feeds = {}
  BY <1>1, Zenon DEF RemoveFeed
<1>2. CASE cs[i].feeds # {} /\ cs[i].feeds \ ss # {}
  <2> DEFINE c == Copy(cs[i].key, cs[i].listed, cs[i].killed, cs[i].live, cs[i].feeds \ ss)
             ds == [cs EXCEPT ![i] = c]
  <2>1. RemoveFeed(cs, i, ss) = ds
    BY <1>2, Zenon DEF RemoveFeed, Feeds
  <2>2. cs[i].feeds \ ss \in SUBSET Stream
    BY <1>0, CopyHas, Zenon
  <2>3. c \in Copies
    BY <1>0, <2>2, CopyHas, CopyType, Zenon
  <2>4. c.feeds = cs[i].feeds \ ss
    BY CopyFields
  <2> HIDE DEF c
  <2>5. /\ ds \in Seq(Copies) /\ DOMAIN ds = DOMAIN cs /\ ds[i] = c
        /\ \A j \in DOMAIN cs : j # i => ds[j] = cs[j]
    BY <1>0, <2>3, CopyReplaced, Zenon
  <2> HIDE DEF ds
  <2>6. \A j \in DOMAIN ds : CopyOK(ds[j], \E s \in Stream : Coming(s, j))
    BY <1>2, <2>4, <2>5, Zenon DEF CopiesOK, CopyOK
  <2>7. \A s \in Stream : watcher[s].at = "fed" => s \in ds[watcher[s].copy].feeds
    <3> SUFFICES ASSUME NEW s \in Stream, watcher[s].at = "fed"
                 PROVE  s \in ds[watcher[s].copy].feeds
      BY Zenon
    <3>1. s \in cs[watcher[s].copy].feeds /\ s \notin ss /\ watcher[s].copy \in DOMAIN cs
      BY Zenon DEF CopiesOK
    <3>. QED  BY <2>4, <2>5, <3>1, Zenon
  <2>. QED  BY <2>1, <2>5, <2>6, <2>7, Zenon DEF CopiesOK
<1>3. CASE cs[i].feeds # {} /\ cs[i].feeds \ ss = {}
  <2> DEFINE gone == ListedOf(cs, cs[i].key)
             c(j) == Copy(cs[j].key, cs[j].listed /\ j \notin gone, cs[j].killed \/ j = i,
                          cs[j].live, IF j = i THEN {} ELSE cs[j].feeds)
             ds == [j \in DOMAIN cs |-> c(j)]
  <2>1. RemoveFeed(cs, i, ss) = ds
    BY <1>3, Zenon DEF RemoveFeed
  <2>2. ASSUME NEW j \in DOMAIN cs
        PROVE  c(j) \in Copies
    <3>1. /\ cs[j].key \in WatchKey /\ (cs[j].listed /\ j \notin gone) \in BOOLEAN
          /\ (cs[j].killed \/ j = i) \in BOOLEAN /\ cs[j].live \in BOOLEAN
      BY <1>0, CopyHas, Zenon
    <3>2. (IF j = i THEN {} ELSE cs[j].feeds) \in SUBSET Stream
      BY <1>0, CopyHas, Zenon
    <3>. QED  BY <3>1, <3>2, CopyType, Zenon
  <2>3. ds \in Seq(Copies) /\ DOMAIN ds = DOMAIN cs
    <3> HIDE DEF c
    <3>1. DOMAIN cs = 1 .. Len(cs) /\ Len(cs) \in Nat
      BY <1>0
    <3>. QED  BY <2>2, <3>1
  <2>4. ASSUME NEW j \in DOMAIN cs
        PROVE  /\ ds[j].listed = (cs[j].listed /\ j \notin gone) /\ ds[j].live = cs[j].live
               /\ ds[j].killed = (cs[j].killed \/ j = i)
               /\ ds[j].feeds = IF j = i THEN {} ELSE cs[j].feeds
    BY CopyFields
  <2>5. cs[i].listed => i \in gone
    BY Zenon DEF ListedOf
  <2> HIDE DEF ds, gone
  <2>6. \A j \in DOMAIN ds : CopyOK(ds[j], \E s \in Stream : Coming(s, j))
    <3> SUFFICES ASSUME NEW j \in DOMAIN cs
                 PROVE  CopyOK(ds[j], \E s \in Stream : Coming(s, j))
      BY <2>3, Zenon
    <3>1. CASE j = i
      BY <2>4, <2>5, <3>1, Zenon DEF CopyOK
    <3>2. CASE j # i
      <4>1. CopyOK(cs[j], \E s \in Stream : Coming(s, j))
        BY Zenon DEF CopiesOK
      <4>. QED  BY <2>4, <3>2, <4>1, Zenon DEF CopyOK
    <3>. QED  BY <3>1, <3>2, Zenon
  <2>7. \A s \in Stream : watcher[s].at = "fed" => s \in ds[watcher[s].copy].feeds
    <3> SUFFICES ASSUME NEW s \in Stream, watcher[s].at = "fed"
                 PROVE  s \in ds[watcher[s].copy].feeds
      BY Zenon
    <3>1. s \in cs[watcher[s].copy].feeds /\ s \notin ss /\ watcher[s].copy \in DOMAIN cs
      BY Zenon DEF CopiesOK
    <3>2. watcher[s].copy # i
      BY <1>3, <3>1, Zenon
    <3>. QED  BY <2>4, <3>1, <3>2, Zenon
  <2>. QED  BY <2>1, <2>3, <2>6, <2>7, Zenon DEF CopiesOK
<1>. QED  BY <1>1, <1>2, <1>3, Zenon

\* A place's fields and type.
LEMMA PlaceFields ==
    ASSUME NEW at \in At, NEW k \in WatchKey \cup {"none"}, NEW i \in Nat
    PROVE  /\ Place(at, k, i) \in Places /\ Place(at, k, i).at = at
           /\ Place(at, k, i).key = k /\ Place(at, k, i).copy = i
BY Zenon DEF Place, Places

\* The types of a place's fields.
LEMMA PlaceHas ==
    ASSUME NEW p \in Places
    PROVE  p.at \in At /\ p.key \in WatchKey \cup {"none"} /\ p.copy \in Nat
BY Zenon DEF Places

\* Watcher s is moved to `at', its key and copy being k and i; the others stay.
Moved(s, at, k, i) ==
    /\ watcher' \in [Stream -> Places]
    /\ watcher'[s].at = at /\ watcher'[s].key = k /\ watcher'[s].copy = i
    /\ \A t \in Stream : t # s => watcher'[t] = watcher[t]

\* An assignment of a place does that.
LEMMA PlaceMoves ==
    ASSUME watcher \in [Stream -> Places], NEW s \in Stream, NEW at \in At,
           NEW k \in WatchKey \cup {"none"}, NEW i \in Nat,
           watcher' = [watcher EXCEPT ![s] = Place(at, k, i)]
    PROVE  Moved(s, at, k, i)
<1>1. Place(at, k, i) \in Places
  BY PlaceFields, Zenon
<1>2. watcher'[s] = Place(at, k, i) /\ \A t \in Stream : t # s => watcher'[t] = watcher[t]
  BY Zenon
<1>3. watcher' \in [Stream -> Places]
  BY <1>1, Zenon
<1>. QED  BY <1>2, <1>3, PlaceFields DEF Moved

\* So does Goes, which leaves the key and the copy.
LEMMA GoesMoves ==
    ASSUME watcher \in [Stream -> Places], NEW s \in Stream, NEW at \in At, Goes(s, at)
    PROVE  Moved(s, at, watcher[s].key, watcher[s].copy)
<1>1. watcher[s].key \in WatchKey \cup {"none"} /\ watcher[s].copy \in Nat
  BY PlaceHas, Zenon
<1>. QED  BY <1>1, PlaceMoves, Zenon DEF Goes

\* A watcher that was not about to add a feed goes where it is not about to
\* activate a copy: the copies are as well watched as before.
LEMMA LeaveKeeps ==
    ASSUME NEW cs, CopiesOK(cs), NEW s \in Stream, NEW at, NEW k, NEW i, Moved(s, at, k, i),
           watcher[s].at # "found", at # "fed"
    PROVE  /\ cs \in Seq(Copies)
           /\ \A j \in DOMAIN cs : CopyOK(cs[j], \E t \in Stream : Coming(t, j)')
           /\ \A t \in Stream : watcher'[t].at = "fed" => t \in cs[watcher'[t].copy].feeds
<1>1. ASSUME NEW j \in DOMAIN cs PROVE CopyOK(cs[j], \E t \in Stream : Coming(t, j)')
  <2>1. CopyOK(cs[j], \E t \in Stream : Coming(t, j))
    BY Zenon DEF CopiesOK
  <2>2. (\E t \in Stream : Coming(t, j)) => \E t \in Stream : Coming(t, j)'
    BY Zenon DEF Coming, Moved
  <2>. QED  BY <2>1, <2>2, Zenon DEF CopyOK
<1>. QED  BY <1>1, Zenon DEF CopiesOK, Moved

\* When a watcher moves as above and the copies become cs, the invariant holds.
LEMMA LeaveStep ==
    ASSUME WatchInv, NEW s \in Stream, NEW at, NEW k, NEW i, Moved(s, at, k, i),
           watcher[s].at # "found", at # "fed", CopiesOK(copies'), DOMAIN copies' = DOMAIN copies,
           at \in {"found", "open"} => i \in DOMAIN copies, at = "missed" => k \in WatchKey
    PROVE  WatchInv'
<1>1. CopiesOK(copies)'
  BY LeaveKeeps, Zenon DEF CopiesOK
<1>2. \A t \in Stream : watcher'[t].at \in {"found", "fed", "open"} => watcher'[t].copy \in DOMAIN copies'
  BY Zenon DEF WatchInv, Moved
<1>3. \A t \in Stream : watcher'[t].at = "missed" => watcher'[t].key \in WatchKey
  BY Zenon DEF WatchInv, Moved
<1>. QED  BY <1>1, <1>2, <1>3, Zenon DEF WatchInv, Moved

\* The search of the watch list.
LEMMA FindKeeps ==
    ASSUME WatchInv, NEW s \in Stream, NEW k \in WatchKey, WatchFind(s, k)
    PROVE  WatchInv'
<1>0. watcher \in [Stream -> Places] /\ CopiesOK(copies) /\ copies' = copies /\ watcher[s].at = "idle"
  BY Zenon DEF WatchInv, WatchFind
<1>1. CASE Listed(k) # {}
  <2>1. PICK i \in Listed(k) : watcher' = [watcher EXCEPT ![s] = Place("found", k, i)]
    BY <1>1, Zenon DEF WatchFind
  <2>2. i \in DOMAIN copies /\ i \in Nat
    BY <1>0, <2>1 DEF Listed, CopiesOK
  <2>3. Moved(s, "found", k, i)
    BY <1>0, <2>1, <2>2, PlaceMoves, Zenon DEF At
  <2>. QED  BY <1>0, <2>2, <2>3, LeaveStep, Zenon
<1>2. CASE Listed(k) = {}
  <2>1. watcher' = [watcher EXCEPT ![s] = Place("missed", k, 0)]
    BY <1>2, Zenon DEF WatchFind
  <2>2. Moved(s, "missed", k, 0)
    BY <1>0, <2>1, PlaceMoves, Zenon DEF At
  <2>. QED  BY <1>0, <2>2, LeaveStep, Zenon
<1>. QED  BY <1>1, <1>2, Zenon

\* A new copy has the watcher it was made for.
LEMMA CloneKeeps ==
    ASSUME WatchInv, NEW s \in Stream, WatchClone(s)
    PROVE  WatchInv'
<1> DEFINE k == watcher[s].key
           c == Copy(k, Listed(k) = {}, FALSE, FALSE, {})
<1>0. /\ watcher \in [Stream -> Places] /\ CopiesOK(copies) /\ watcher[s].at = "missed"
      /\ k \in WatchKey /\ copies \in Seq(Copies)
  BY Zenon DEF WatchInv, WatchClone, CopiesOK
<1>1. CASE /\ copies' = Append(copies, c)
           /\ watcher' = [watcher EXCEPT ![s] = Place("found", k, Len(copies) + 1)]
  <2>0. PICK n : n = Len(copies) + 1
    BY Zenon
  <2>1. c \in Copies
    BY <1>0, CopyType, Zenon
  <2>2. n \in Nat /\ Moved(s, "found", k, n)
    <3>1. n \in Nat
      BY <1>0, <2>0
    <3>. QED  BY <1>0, <1>1, <2>0, <3>1, PlaceMoves, Zenon DEF At
  <2> HIDE DEF c
  <2>3. /\ copies' \in Seq(Copies) /\ DOMAIN copies' = DOMAIN copies \cup {n}
        /\ \A j \in DOMAIN copies : copies'[j] = copies[j] /\ j # n
    BY <1>0, <1>1, <2>0, <2>1
  <2>4. ASSUME NEW j \in DOMAIN copies
        PROVE  CopyOK(copies'[j], \E t \in Stream : Coming(t, j)')
    <3>1. CopyOK(copies[j], \E t \in Stream : Coming(t, j)')
      BY <1>0, <2>2, LeaveKeeps, Zenon
    <3>. QED  BY <2>3, <3>1, Zenon
  <2>5. Coming(s, n)'
    BY <2>2, Zenon DEF Coming, Moved
  <2>6. \A j \in DOMAIN copies' : CopyOK(copies'[j], \E t \in Stream : Coming(t, j)')
    BY <2>3, <2>4, <2>5, Zenon DEF CopyOK
  <2>7. \A t \in Stream : watcher'[t].at = "fed" => t \in copies'[watcher'[t].copy].feeds
    BY <1>0, <2>2, <2>3 DEF CopiesOK, Moved, WatchInv
  <2>8. CopiesOK(copies)'
    BY <2>3, <2>6, <2>7, Zenon DEF CopiesOK
  <2>. QED  BY <2>2, <2>3, <2>8, Zenon DEF WatchInv, Moved
<1>2. CASE Goes(s, "gone") /\ copies' = copies
  <2>1. Moved(s, "gone", watcher[s].key, watcher[s].copy)
    BY <1>0, <1>2, GoesMoves, Zenon DEF At
  <2>. QED  BY <1>0, <1>2, <2>1, LeaveStep, Zenon
<1>. QED  BY <1>1, <1>2, Zenon DEF WatchClone

\* A watcher that adds its feed stops being about to; the copy has the feed.
LEMMA AddKeeps ==
    ASSUME WatchInv, NEW s \in Stream, AddFeed(s)
    PROVE  WatchInv'
<1> DEFINE i == watcher[s].copy
           c == Copy(copies[i].key, copies[i].listed, copies[i].killed, copies[i].live,
                     copies[i].feeds \cup {s})
<1>a. copies' = [copies EXCEPT ![i] = c] /\ watcher[s].at = "found"
  BY Zenon DEF AddFeed, Feeds
<1>b. watcher \in [Stream -> Places] /\ CopiesOK(copies) /\ i \in DOMAIN copies
  BY <1>a, Zenon DEF WatchInv
<1>c. copies \in Seq(Copies) /\ copies[i] \in Copies
  BY <1>b DEF CopiesOK
<1>0. /\ watcher \in [Stream -> Places] /\ CopiesOK(copies) /\ watcher[s].at = "found"
      /\ i \in DOMAIN copies /\ copies \in Seq(Copies) /\ copies[i] \in Copies
      /\ copies' = [copies EXCEPT ![i] = c]
  BY <1>a, <1>b, <1>c, Zenon
<1>1. Moved(s, "fed", watcher[s].key, i)
  BY <1>0, GoesMoves, Zenon DEF At, AddFeed
<1>2. copies[i].feeds \cup {s} \in SUBSET Stream
  BY <1>0, CopyHas, Zenon
<1>3. c \in Copies
  BY <1>0, <1>2, CopyHas, CopyType, Zenon
<1>4. c.feeds = copies[i].feeds \cup {s}
  BY CopyFields
<1> HIDE DEF c
<1>5. /\ copies' \in Seq(Copies) /\ DOMAIN copies' = DOMAIN copies /\ copies'[i] = c
      /\ \A j \in DOMAIN copies : j # i => copies'[j] = copies[j]
  BY <1>0, <1>3, CopyReplaced, Zenon
<1> HIDE DEF i
<1>6. ASSUME NEW j \in DOMAIN copies, j # i
      PROVE  CopyOK(copies'[j], \E t \in Stream : Coming(t, j)')
  <2>1. CopyOK(copies[j], \E t \in Stream : Coming(t, j))
    BY <1>0, Zenon DEF CopiesOK
  <2>2. (\E t \in Stream : Coming(t, j)) => \E t \in Stream : Coming(t, j)'
    BY <1>1, <1>6, Zenon DEF Coming, Moved, i
  <2>. QED  BY <1>5, <1>6, <2>1, <2>2, Zenon DEF CopyOK
<1>7. \A j \in DOMAIN copies' : CopyOK(copies'[j], \E t \in Stream : Coming(t, j)')
  BY <1>4, <1>5, <1>6, Zenon DEF CopyOK
<1>8. ASSUME NEW t \in Stream, watcher'[t].at = "fed"
      PROVE  t \in copies'[watcher'[t].copy].feeds
  <2>1. CASE t = s
    BY <1>1, <1>4, <1>5, <2>1, Zenon DEF Moved
  <2>2. CASE t # s
    <3>1. watcher'[t] = watcher[t] /\ t \in copies[watcher[t].copy].feeds /\ watcher[t].copy \in DOMAIN copies
      BY <1>0, <1>1, <1>8, <2>2, Zenon DEF Moved, CopiesOK, WatchInv
    <3>. QED  BY <1>4, <1>5, <3>1, Zenon
  <2>. QED  BY <2>1, <2>2, Zenon
<1>9. CopiesOK(copies)'
  BY <1>5, <1>7, <1>8, Zenon DEF CopiesOK
<1>. QED  BY <1>0, <1>1, <1>5, <1>9, Zenon DEF WatchInv, Moved

\* The copy that is activated has the feed of whoever activates it.
LEMMA ActivateKeeps ==
    ASSUME WatchInv, NEW s \in Stream, Activate(s)
    PROVE  WatchInv'
<1> DEFINE i == watcher[s].copy
           lv == copies[i].live \/ ~copies[i].killed
           c == Copy(copies[i].key, copies[i].listed, copies[i].killed, lv, copies[i].feeds)
<1>a. copies' = [copies EXCEPT ![i] = c] /\ watcher[s].at = "fed"
  BY Zenon DEF Activate, Lives
<1>b. watcher \in [Stream -> Places] /\ CopiesOK(copies) /\ i \in DOMAIN copies
  BY <1>a, Zenon DEF WatchInv
<1>c. copies \in Seq(Copies) /\ copies[i] \in Copies /\ s \in copies[i].feeds
  BY <1>a, <1>b DEF CopiesOK
<1>0. /\ watcher \in [Stream -> Places] /\ CopiesOK(copies) /\ watcher[s].at = "fed"
      /\ i \in DOMAIN copies /\ copies \in Seq(Copies) /\ copies[i] \in Copies
      /\ copies' = [copies EXCEPT ![i] = c] /\ s \in copies[i].feeds
  BY <1>a, <1>b, <1>c, Zenon
<1>1. Moved(s, "open", watcher[s].key, i)
  BY <1>0, GoesMoves, Zenon DEF At, Activate
<1>2. lv \in BOOLEAN
  BY Zenon
<1> HIDE DEF lv
<1>3. c \in Copies
  BY <1>0, <1>2, CopyHas, CopyType, Zenon
<1>4. c.feeds = copies[i].feeds
  BY CopyFields
<1> HIDE DEF c
<1>5. /\ copies' \in Seq(Copies) /\ DOMAIN copies' = DOMAIN copies /\ copies'[i] = c
      /\ \A j \in DOMAIN copies : j # i => copies'[j] = copies[j]
  BY <1>0, <1>3, CopyReplaced, Zenon
<1> HIDE DEF i
<1>6. \A j \in DOMAIN copies' : CopyOK(copies'[j], \E t \in Stream : Coming(t, j))
  BY <1>0, <1>4, <1>5, Zenon DEF CopiesOK, CopyOK
<1>7. \A t \in Stream : watcher[t].at = "fed" => t \in copies'[watcher[t].copy].feeds
  BY <1>0, <1>4, <1>5, Zenon DEF CopiesOK, WatchInv
<1>8. CopiesOK(copies')
  BY <1>5, <1>6, <1>7, Zenon DEF CopiesOK
<1>. QED  BY <1>0, <1>1, <1>5, <1>8, LeaveStep, Zenon

\* A client goes; the feed it leaves behind, or removes, is not one of a watcher
\* that is about to activate a copy.
LEMMA ClientKeeps ==
    ASSUME WatchInv, NEW s \in Stream, ClientGone(s) \/ ClientRemoves(s) \/ Resubscribe(s)
    PROVE  WatchInv'
<1>0. /\ watcher \in [Stream -> Places] /\ CopiesOK(copies) /\ watcher[s].at = "open"
      /\ watcher[s].copy \in DOMAIN copies
      /\ \A t \in Stream : watcher[t].at = "fed" => watcher[t].copy \in DOMAIN copies
  BY Zenon DEF WatchInv, ClientGone, ClientRemoves, Resubscribe
<1>1. PICK at \in {"gone", "idle"} : Goes(s, at)
  BY Zenon DEF ClientGone, ClientRemoves, Resubscribe
<1>2. Moved(s, at, watcher[s].key, watcher[s].copy)
  BY <1>0, <1>1, GoesMoves, Zenon DEF At
<1>3. copies' = copies \/ copies' = RemoveFeed(copies, watcher[s].copy, {s})
  BY Zenon DEF ClientGone, ClientRemoves, Resubscribe
<1>4. /\ CopiesOK(RemoveFeed(copies, watcher[s].copy, {s}))
      /\ DOMAIN RemoveFeed(copies, watcher[s].copy, {s}) = DOMAIN copies
  <2>1. {s} \in SUBSET Stream /\ \A t \in {s} : watcher[t].at # "fed"
    BY <1>0, Zenon
  <2>. QED  BY <1>0, <2>1, RemoveKeeps, Zenon
<1>5. CopiesOK(copies') /\ DOMAIN copies' = DOMAIN copies
  BY <1>0, <1>3, <1>4, Zenon
<1>6. at # "fed" /\ at \notin {"found", "open"} /\ at # "missed" /\ watcher[s].at # "found"
  BY <1>0, <1>1, Zenon
<1>. QED  BY <1>2, <1>5, <1>6, LeaveStep, Zenon

\* When only the copies change, what is known of them is enough.
LEMMA CopiesStep ==
    ASSUME WatchInv, watcher' = watcher, CopiesOK(copies'), DOMAIN copies' = DOMAIN copies
    PROVE  WatchInv'
<1>1. CopiesOK(copies)'
  BY Zenon DEF CopiesOK, Coming
<1>. QED  BY <1>1, Zenon DEF WatchInv

\* The console's unwatch removes the feed of a client that is watching.
LEMMA UnwatchKeeps ==
    ASSUME WatchInv, NEW s \in Stream, ConsoleUnwatch(s)
    PROVE  WatchInv'
<1>0. /\ watcher \in [Stream -> Places] /\ CopiesOK(copies) /\ watcher[s].at = "open"
      /\ \A t \in Stream : watcher[t].at = "fed" => watcher[t].copy \in DOMAIN copies
      /\ watcher' = watcher
  BY Zenon DEF WatchInv, ConsoleUnwatch
<1>1. PICK k \in WatchKey :
         copies' = IF Listed(k) = {} THEN copies
                   ELSE RemoveFeed(copies, CHOOSE i \in Listed(k) : TRUE, {s})
  BY Zenon DEF ConsoleUnwatch
<1>2. CASE Listed(k) = {}
  BY <1>0, <1>1, <1>2, CopiesStep, Zenon
<1>3. CASE Listed(k) # {}
  <2>1. PICK i : i = CHOOSE j \in Listed(k) : TRUE
    BY Zenon
  <2>2. i \in DOMAIN copies
    BY <1>3, <2>1, Zenon DEF Listed
  <2>3. copies' = RemoveFeed(copies, i, {s})
    BY <1>1, <1>3, <2>1, Zenon
  <2>4. {s} \in SUBSET Stream /\ \A t \in {s} : watcher[t].at # "fed"
    BY <1>0, Zenon
  <2>5. CopiesOK(copies') /\ DOMAIN copies' = DOMAIN copies
    BY <1>0, <2>2, <2>3, <2>4, RemoveKeeps, Zenon
  <2>. QED  BY <1>0, <2>5, CopiesStep, Zenon
<1>. QED  BY <1>2, <1>3, Zenon

\* A copy that fires and cleans its feeds loses only those that nobody reads.
LEMMA RunsKeeps ==
    ASSUME WatchInv, NEW i \in DOMAIN copies, CopyRuns(i)
    PROVE  WatchInv'
<1> DEFINE lv == ~copies[i].killed
           c == Copy(copies[i].key, copies[i].listed, copies[i].killed, lv, copies[i].feeds)
           cs == [copies EXCEPT ![i] = c]
           unread == {s \in cs[i].feeds : Unread(s)}
<1>a. copies' = Cleaned(cs, i) /\ watcher' = watcher /\ copies[i].live
  BY Zenon DEF CopyRuns, Lives
<1>b. /\ watcher \in [Stream -> Places] /\ CopiesOK(copies)
      /\ \A t \in Stream : watcher[t].at = "fed" => watcher[t].copy \in DOMAIN copies
  BY Zenon DEF WatchInv
<1>c. copies \in Seq(Copies) /\ copies[i] \in Copies
  BY <1>b DEF CopiesOK
<1>1. lv \in BOOLEAN
  BY Zenon
<1>2. c \in Copies
  <2> HIDE DEF lv
  <2>. QED  BY <1>c, <1>1, CopyHas, CopyType, Zenon
<1>3. /\ c.feeds = copies[i].feeds /\ c.listed = copies[i].listed /\ c.killed = copies[i].killed
      /\ c.live = lv
  BY CopyFields
<1> HIDE DEF c
<1>4. /\ cs \in Seq(Copies) /\ DOMAIN cs = DOMAIN copies /\ cs[i] = c
      /\ \A j \in DOMAIN copies : j # i => cs[j] = copies[j]
  BY <1>c, <1>2, CopyReplaced, Zenon
<1> HIDE DEF cs
<1>5. \A j \in DOMAIN cs : CopyOK(cs[j], \E t \in Stream : Coming(t, j))
  BY <1>a, <1>b, <1>3, <1>4, Zenon DEF CopiesOK, CopyOK
<1>6. \A t \in Stream : watcher[t].at = "fed" => t \in cs[watcher[t].copy].feeds
  BY <1>b, <1>3, <1>4, Zenon DEF CopiesOK
<1>7. CopiesOK(cs)
  BY <1>4, <1>5, <1>6, Zenon DEF CopiesOK
<1>8. CASE unread = {}
  <2>1. copies' = cs
    BY <1>a, <1>8, Zenon DEF Cleaned
  <2>. QED  BY <1>a, <1>4, <1>7, <2>1, CopiesStep, Zenon
<1>9. CASE unread # {}
  <2>1. copies' = RemoveFeed(cs, i, unread)
    BY <1>a, <1>9, Zenon DEF Cleaned
  <2>2. unread \in SUBSET Stream
    BY <1>2, <1>4, CopyHas, Zenon
  <2>3. \A t \in unread : watcher[t].at # "fed"
    BY Zenon DEF Unread
  <2>4. i \in DOMAIN cs /\ \A t \in Stream : watcher[t].at = "fed" => watcher[t].copy \in DOMAIN cs
    BY <1>b, <1>4, Zenon
  <2> HIDE DEF unread
  <2>5. CopiesOK(copies') /\ DOMAIN copies' = DOMAIN copies
    BY <1>b, <1>4, <1>7, <2>1, <2>2, <2>3, <2>4, RemoveKeeps, Zenon
  <2>. QED  BY <1>a, <2>5, CopiesStep, Zenon
<1>. QED  BY <1>8, <1>9, Zenon

-----------------------------------------------------------------------------
\* The invariant holds in every reachable state of the watch list of noit_check.c.
THEOREM WatchInductive == WatchSpec => []WatchInv
<1>1. WatchInit => WatchInv
  <2> SUFFICES ASSUME WatchInit PROVE WatchInv
    BY Zenon
  <2>1. Place("idle", "none", 0) \in Places /\ Place("idle", "none", 0).at = "idle"
    BY PlaceFields DEF At
  <2>2. watcher \in [Stream -> Places] /\ \A s \in Stream : watcher[s].at = "idle"
    BY <2>1, Zenon DEF WatchInit
  <2>3. copies \in Seq(Copies) /\ DOMAIN copies = {}
    BY DEF WatchInit
  <2>. QED  BY <2>2, <2>3, Zenon DEF WatchInv, CopiesOK
<1>2. WatchInv /\ [WatchNext]_watchVars => WatchInv'
  <2> SUFFICES ASSUME WatchInv, [WatchNext]_watchVars PROVE WatchInv'
    BY Zenon
  <2>1. ASSUME NEW s \in Stream, NEW k \in WatchKey, WatchFind(s, k) PROVE WatchInv'
    BY <2>1, FindKeeps, Zenon
  <2>2. ASSUME NEW s \in Stream, WatchStep(s) PROVE WatchInv'
    BY <2>2, CloneKeeps, AddKeeps, ActivateKeeps, Zenon DEF WatchStep
  <2>3. ASSUME NEW s \in Stream, ClientGone(s) \/ ClientRemoves(s) \/ Resubscribe(s) PROVE WatchInv'
    BY <2>3, ClientKeeps, Zenon
  <2>4. ASSUME NEW s \in Stream, ConsoleUnwatch(s) PROVE WatchInv'
    BY <2>4, UnwatchKeeps, Zenon
  <2>5. ASSUME NEW i \in DOMAIN copies, CopyRuns(i) PROVE WatchInv'
    BY <2>5, RunsKeeps, Zenon
  <2>6. ASSUME copies' = copies, watcher' = watcher PROVE WatchInv'
    BY <2>6, Zenon DEF WatchInv, CopiesOK, Coming
  <2>7. CASE UNCHANGED watchVars
    BY <2>6, <2>7, Zenon DEF watchVars
  <2>8. ASSUME NEW k \in WatchKey, Register(k) PROVE WatchInv'
    BY <2>6, <2>8, Zenon DEF Register
  <2>. QED  BY <2>1, <2>2, <2>3, <2>4, <2>5, <2>7, <2>8, Zenon DEF WatchNext
<1>. QED  BY <1>1, <1>2, PTL DEF WatchSpec

\* A transient copy of a check that can be found in the watch list, or that goes on
\* firing, has a feed or somebody about to add one (noit_check_watch and
\* noit_check_transient_remove_feed), however the requests interleave.
THEOREM CopiesAreWatched == WatchSpec => []CopiesHaveWatchers
<1>1. WatchInv => CopiesHaveWatchers
  BY Zenon DEF WatchInv, CopiesOK, CopyOK, Coming, CopiesHaveWatchers
<1>. QED  BY <1>1, WatchInductive, PTL

-----------------------------------------------------------------------------
(* The counters of interests.                                              *)

\* An entry e of the interest table, raised u and lowered w times by each lane.
CountOK(e, u, w) ==
    /\ e = NoEntry => \A l \in Lane : u[l] = 0
    /\ e # NoEntry => \A l \in Lane : /\ e[l] \in 0 .. MaxInterest
                                      /\ e[l] = MaxInterest \/ e[l] >= u[l] - w[l]

InterestInv ==
    /\ interest \in [Key -> [Lane -> Int]]
    /\ ups \in [Key -> [Lane -> Nat]]
    /\ downs \in [Key -> [Lane -> Nat]]
    /\ \A k \in Key : CountOK(interest[k], ups[k], downs[k])

\* A function on lanes with one more at l.
Raised(u, l) == [u EXCEPT ![l] = u[l] + 1]

\* Raising a counter keeps it at its cap or at least at the difference
\* (adjust_interest is capped, never wrapped).
LEMMA RaiseKeeps ==
    ASSUME NEW e \in [Lane -> Int], NEW u \in [Lane -> Nat], NEW w \in [Lane -> Nat],
           NEW l \in Lane, CountOK(e, u, w)
    PROVE  CountOK(Adjusted(e, l, 1), Raised(u, l), w) /\ Adjusted(e, l, 1) \in [Lane -> Int]
<1>1. CASE e = NoEntry
  <2> DEFINE f == [n \in Lane |-> IF n = l THEN 1 ELSE 0]
  <2>1. Adjusted(e, l, 1) = f
    BY <1>1 DEF Adjusted
  <2>2. f[l] # -1
    OBVIOUS
  <2>3. f # NoEntry
    BY <2>2, Zenon DEF NoEntry
  <2>4. \A n \in Lane : u[n] = 0
    BY <1>1, Zenon DEF CountOK
  <2>5. \A n \in Lane : f[n] \in 0 .. MaxInterest /\ f[n] >= Raised(u, l)[n] - w[n]
    BY <2>4, SelectAssumption DEF Raised
  <2>. QED  BY <2>1, <2>3, <2>5 DEF CountOK
<1>2. CASE e # NoEntry
  <2> DEFINE f == [e EXCEPT ![l] = adjust_interest(e[l], 1)]
  <2>1. Adjusted(e, l, 1) = f
    BY <1>2, Zenon DEF Adjusted
  <2>2. \A n \in Lane : e[n] \in 0 .. MaxInterest /\ (e[n] = MaxInterest \/ e[n] >= u[n] - w[n])
    BY <1>2, Zenon DEF CountOK
  <2>3. f[l] = adjust_interest(e[l], 1) /\ \A n \in Lane \ {l} : f[n] = e[n]
    BY Zenon
  <2>4. adjust_interest(e[l], 1) \in 0 .. MaxInterest
    BY <2>2, SelectAssumption DEF adjust_interest
  <2>5. adjust_interest(e[l], 1) = MaxInterest \/ adjust_interest(e[l], 1) >= u[l] + 1 - w[l]
    BY <2>2, SelectAssumption DEF adjust_interest
  <2>6. Raised(u, l)[l] = u[l] + 1 /\ \A n \in Lane \ {l} : Raised(u, l)[n] = u[n]
    BY Zenon DEF Raised
  <2>7. \A n \in Lane : f[n] \in 0 .. MaxInterest
                        /\ (f[n] = MaxInterest \/ f[n] >= Raised(u, l)[n] - w[n])
    BY <2>2, <2>3, <2>4, <2>5, <2>6
  <2>8. f # NoEntry
    BY <2>3, <2>4, SelectAssumption DEF NoEntry
  <2>9. f \in [Lane -> Int]
    BY <2>4, SelectAssumption
  <2>. QED  BY <2>1, <2>7, <2>8, <2>9, Zenon DEF CountOK
<1>. QED  BY <1>1, <1>2, Zenon

\* Lowering does too: it stops at zero, and an entry nobody has is not made.
LEMMA LowerKeeps ==
    ASSUME NEW e \in [Lane -> Int], NEW u \in [Lane -> Nat], NEW w \in [Lane -> Nat],
           NEW l \in Lane, CountOK(e, u, w)
    PROVE  CountOK(Adjusted(e, l, -1), u, Raised(w, l)) /\ Adjusted(e, l, -1) \in [Lane -> Int]
<1>1. CASE e = NoEntry
  <2>1. Adjusted(e, l, -1) = NoEntry
    BY <1>1 DEF Adjusted
  <2>. QED  BY <1>1, <2>1, Zenon DEF CountOK
<1>2. CASE e # NoEntry
  <2> DEFINE f == [e EXCEPT ![l] = adjust_interest(e[l], -1)]
  <2>1. Adjusted(e, l, -1) = f
    BY <1>2, Zenon DEF Adjusted
  <2>2. \A n \in Lane : e[n] \in 0 .. MaxInterest /\ (e[n] = MaxInterest \/ e[n] >= u[n] - w[n])
    BY <1>2, Zenon DEF CountOK
  <2>3. f[l] = adjust_interest(e[l], -1) /\ \A n \in Lane \ {l} : f[n] = e[n]
    BY Zenon
  <2>4. adjust_interest(e[l], -1) \in 0 .. MaxInterest
    BY <2>2, SelectAssumption DEF adjust_interest
  <2>5. adjust_interest(e[l], -1) = MaxInterest \/ adjust_interest(e[l], -1) >= u[l] - (w[l] + 1)
    BY <2>2, SelectAssumption DEF adjust_interest
  <2>6. Raised(w, l)[l] = w[l] + 1 /\ \A n \in Lane \ {l} : Raised(w, l)[n] = w[n]
    BY Zenon DEF Raised
  <2>7. \A n \in Lane : f[n] \in 0 .. MaxInterest
                        /\ (f[n] = MaxInterest \/ f[n] >= u[n] - Raised(w, l)[n])
    BY <2>2, <2>3, <2>4, <2>5, <2>6, Zenon
  <2>8. f # NoEntry
    BY <2>3, <2>4, SelectAssumption DEF NoEntry
  <2>9. f \in [Lane -> Int]
    BY <2>4, SelectAssumption
  <2>. QED  BY <2>1, <2>7, <2>8, <2>9, Zenon DEF CountOK
<1>. QED  BY <1>1, <1>2, Zenon

\* An adjustment by any lane keeps what is known of every key.
LEMMA AdjustKeeps ==
    ASSUME InterestInv, NEW l \in Lane, NEW k \in Key, NEW adj \in {-1, 1},
           AdjustMetricInterest(l, k, adj)
    PROVE  InterestInv'
<1>1. interest' = [interest EXCEPT ![k] = Adjusted(interest[k], l, adj)]
  BY Zenon DEF AdjustMetricInterest
<1>2. /\ interest[k] \in [Lane -> Int]
      /\ ups[k] \in [Lane -> Nat]
      /\ downs[k] \in [Lane -> Nat]
      /\ CountOK(interest[k], ups[k], downs[k])
  BY Zenon DEF InterestInv
<1>3. CASE adj = 1
  <2>1. ups' = [ups EXCEPT ![k] = Raised(ups[k], l)] /\ downs' = downs
    BY <1>3 DEF AdjustMetricInterest, Raised, InterestInv
  <2>2. CountOK(Adjusted(interest[k], l, 1), Raised(ups[k], l), downs[k])
        /\ Adjusted(interest[k], l, 1) \in [Lane -> Int]
    BY <1>2, RaiseKeeps, Zenon
  <2>3. Raised(ups[k], l) \in [Lane -> Nat]
    BY <1>2 DEF Raised
  <2>4. \A q \in Key : CountOK(interest'[q], ups'[q], downs'[q])
    BY <1>1, <1>3, <2>1, <2>2, Zenon DEF InterestInv
  <2>. QED  BY <1>1, <1>3, <2>1, <2>2, <2>3, <2>4, Zenon DEF InterestInv
<1>4. CASE adj = -1
  <2>1. downs' = [downs EXCEPT ![k] = Raised(downs[k], l)] /\ ups' = ups
    BY <1>4 DEF AdjustMetricInterest, Raised, InterestInv
  <2>2. CountOK(Adjusted(interest[k], l, -1), ups[k], Raised(downs[k], l))
        /\ Adjusted(interest[k], l, -1) \in [Lane -> Int]
    BY <1>2, LowerKeeps, Zenon
  <2>3. Raised(downs[k], l) \in [Lane -> Nat]
    BY <1>2 DEF Raised
  <2>4. \A q \in Key : CountOK(interest'[q], ups'[q], downs'[q])
    BY <1>1, <1>4, <2>1, <2>2, Zenon DEF InterestInv
  <2>. QED  BY <1>1, <1>4, <2>1, <2>2, <2>3, <2>4, Zenon DEF InterestInv
<1>. QED  BY <1>3, <1>4, Zenon

-----------------------------------------------------------------------------
(* The threads in distribute_metric.                                       *)

Thread == [pc : {"exact", "cache", "eval", "miss", "want", "out"}, m : Metric,
           got : SUBSET Lane, n : 1 .. 5, l : Lane, ns : SUBSET (1 .. 4),
           hit : BOOLEAN, cached : BOOLEAN]

\* Search s lies behind the position of thread r's loop.
Passed(r, s) == Bucket[s] < r.n \/ (Bucket[s] = r.n /\ LaneOf[s] < r.l)

\* What holds of a thread r whose lasting searches are mu (must) and whose
\* entitled lanes are ma (may), with the searches in states st and check
\* generation cg.
ThreadOK(r, mu, ma, st, cg) ==
    /\ r \in Thread
    /\ r.got \subseteq ma
    /\ mu \subseteq Searched(st, cg, r.m, {"reg"})
    /\ r.pc \in {"exact", "cache"} => r.l = 1
    /\ r.pc = "cache" => r.n = 1
    /\ r.pc \in {"exact", "eval"} => r.n \in 1 .. 4
    /\ r.pc = "eval" => \A s \in mu : Bucket[s] \in r.ns /\ (Passed(r, s) => LaneOf[s] \in r.got)
    /\ r.pc \in {"miss", "want", "out"} => r.cached \/ \A s \in mu : LaneOf[s] \in r.got

\* A thread that does not move keeps it when the lasting searches get fewer and
\* the entitled lanes more.
LEMMA WaitingThread ==
    ASSUME NEW r, NEW mu, NEW ma, NEW st, NEW cg, ThreadOK(r, mu, ma, st, cg),
           NEW mu2 \in SUBSET mu, NEW ma2, ma \subseteq ma2, NEW st2, NEW cg2,
           mu2 \subseteq Searched(st2, cg2, r.m, {"reg"})
    PROVE  ThreadOK(r, mu2, ma2, st2, cg2)
BY Zenon DEF ThreadOK

\* A well-typed record of distribute_metric's variables is a Thread.
LEMMA SelectingType ==
    ASSUME NEW pc \in {"exact", "cache", "eval", "miss", "want", "out"}, NEW m \in Metric,
           NEW got \in SUBSET Lane, NEW n \in 1 .. 5, NEW l \in Lane,
           NEW ns \in SUBSET (1 .. 4), NEW hit \in BOOLEAN, NEW cached \in BOOLEAN
    PROVE  Selecting(pc, m, got, n, l, ns, hit, cached) \in Thread
BY Zenon DEF Selecting, Thread

\* A thread is not idle, and its fields have their types.
LEMMA ThreadFields ==
    ASSUME NEW r \in Thread
    PROVE  /\ r # Idle
           /\ r.pc \in {"exact", "cache", "eval", "miss", "want", "out"} /\ r.m \in Metric
           /\ r.got \in SUBSET Lane /\ r.n \in 1 .. 5 /\ r.l \in Lane
           /\ r.ns \in SUBSET (1 .. 4) /\ r.hit \in BOOLEAN /\ r.cached \in BOOLEAN
<1>1. r.pc \in {"exact", "cache", "eval", "miss", "want", "out"}
  BY Zenon DEF Thread
<1>2. Idle.pc = "idle"
  BY Zenon DEF Idle
<1>. QED  BY <1>1, <1>2, Zenon DEF Thread

\* distribute_metric begins with no lane.
LEMMA EnterThread ==
    ASSUME NEW m \in Metric, NEW mu, NEW ma, mu \subseteq Searched(search, check_gen, m, {"reg"})
    PROVE  ThreadOK(Selecting("exact", m, {}, 1, 1, {}, FALSE, FALSE), mu, ma, search, check_gen)
<1> DEFINE r == Selecting("exact", m, {}, 1, 1, {}, FALSE, FALSE)
<1>1. 1 \in Lane
  BY SelectAssumption DEF Lane
<1>2. r \in Thread
  <2>1. 1 \in 1 .. 5 /\ {} \in SUBSET Lane /\ {} \in SUBSET (1 .. 4)
    OBVIOUS
  <2>. QED  BY <1>1, <2>1, SelectingType, Zenon
<1>3. r.pc = "exact" /\ r.m = m /\ r.got = {} /\ r.n = 1 /\ r.l = 1
  BY Zenon DEF Selecting
<1> HIDE DEF r
<1>4. ThreadOK(r, mu, ma, search, check_gen)
  BY <1>2, <1>3 DEF ThreadOK
<1>. QED  BY <1>4, Zenon DEF r

\* A lookup of exact interests replaces the lanes by entitled ones.
LEMMA ExactThread ==
    ASSUME InterestInv, NEW r, NEW mu, NEW ma, ThreadOK(r, mu, ma, search, check_gen),
           r.pc = "exact", NEW ma2, ma \subseteq ma2,
           {kl[2] : kl \in Exact(interest, r.m)} \subseteq ma2,
           NEW got, got = IF interest[Keys[r.m][r.n]] = NoEntry THEN r.got
                          ELSE {l \in Lane : interest[Keys[r.m][r.n]][l] > 0}
    PROVE  /\ r.n = 4 => ThreadOK(Selecting("cache", r.m, got, 1, r.l, r.ns, r.hit, r.cached),
                                  mu, ma2, search, check_gen)
           /\ r.n # 4 => ThreadOK(Selecting("exact", r.m, got, r.n + 1, r.l, r.ns, r.hit, r.cached),
                                  mu, ma2, search, check_gen)
<1>1. r \in Thread /\ r.got \subseteq ma /\ mu \subseteq Searched(search, check_gen, r.m, {"reg"})
      /\ r.l = 1 /\ r.n \in 1 .. 4
  BY Zenon DEF ThreadOK
<1>2. /\ r.m \in Metric /\ r.got \in SUBSET Lane /\ r.l \in Lane
      /\ r.ns \in SUBSET (1 .. 4) /\ r.hit \in BOOLEAN /\ r.cached \in BOOLEAN
  BY <1>1, ThreadFields, Zenon
<1>3. got \subseteq Lane
  BY <1>2, Zenon
<1>4. ASSUME NEW l \in Lane, interest[Keys[r.m][r.n]][l] > 0
      PROVE  l \in ma2
  <2> DEFINE kl == <<Keys[r.m][r.n], l>>
  <2>1. kl \in Exact(interest, r.m)
    BY <1>1, <1>4, Zenon DEF Exact
  <2>2. kl[2] = l
    BY Zenon
  <2>. QED  BY <2>1, <2>2, Zenon
<1>5. got \subseteq ma2
  <2>1. CASE interest[Keys[r.m][r.n]] = NoEntry
    BY <1>1, <2>1, Zenon
  <2>2. CASE interest[Keys[r.m][r.n]] # NoEntry
    BY <1>4, <2>2, Zenon
  <2>. QED  BY <2>1, <2>2, Zenon
<1>6. ASSUME r.n = 4
      PROVE  ThreadOK(Selecting("cache", r.m, got, 1, r.l, r.ns, r.hit, r.cached),
                      mu, ma2, search, check_gen)
  <2> DEFINE q == Selecting("cache", r.m, got, 1, r.l, r.ns, r.hit, r.cached)
  <2>0. 1 \in 1 .. 5 /\ got \in SUBSET Lane
    BY <1>3
  <2>1. q \in Thread
    BY <1>2, <2>0, SelectingType, Zenon
  <2>2. q.pc = "cache" /\ q.m = r.m /\ q.got = got /\ q.n = 1 /\ q.l = r.l
    BY Zenon DEF Selecting
  <2> HIDE DEF q
  <2>3. ThreadOK(q, mu, ma2, search, check_gen)
    BY <1>1, <1>5, <2>1, <2>2, Zenon DEF ThreadOK
  <2>. QED  BY <2>3, Zenon DEF q
<1>7. ASSUME r.n # 4
      PROVE  ThreadOK(Selecting("exact", r.m, got, r.n + 1, r.l, r.ns, r.hit, r.cached),
                      mu, ma2, search, check_gen)
  <2> DEFINE q == Selecting("exact", r.m, got, r.n + 1, r.l, r.ns, r.hit, r.cached)
  <2>0. r.n + 1 \in 1 .. 4 /\ r.n + 1 \in 1 .. 5
    BY <1>1, <1>7
  <2>1. q \in Thread
    <3>1. got \in SUBSET Lane
      BY <1>3, Zenon
    <3>. QED  BY <1>2, <3>1, <2>0, SelectingType, Zenon
  <2>2. q.pc = "exact" /\ q.m = r.m /\ q.got = got /\ q.n = r.n + 1 /\ q.l = r.l
    BY Zenon DEF Selecting
  <2> HIDE DEF q
  <2>3. ThreadOK(q, mu, ma2, search, check_gen)
    BY <1>1, <1>5, <2>0, <2>1, <2>2, Zenon DEF ThreadOK
  <2>. QED  BY <2>3, Zenon DEF q
<1>. QED  BY <1>6, <1>7, Zenon

\* The bucket of a search in the tables is one of the tables.
LEMMA TableOf ==
    ASSUME NEW m, NEW s \in Searched(search, check_gen, m, {"reg"})
    PROVE  Bucket[s] \in Tables /\ s \in Search /\ Bucket[s] \in 1 .. 4 /\ LaneOf[s] \in Lane
BY SelectAssumption, Zenon DEF Searched, Tables

\* The miss cache stops the search, or it starts at the first bucket and lane with
\* the buckets of the lasting searches among those that have tables.
LEMMA CacheThread ==
    ASSUME NEW r, NEW mu, NEW ma, ThreadOK(r, mu, ma, search, check_gen), r.pc = "cache",
           NEW ma2, ma \subseteq ma2, NEW stop \in BOOLEAN, NEW ns,
           ns = {n \in 1 .. 4 : \E t \in Tables : CheckTable(t) = CheckTable(n)},
           NEW pc, pc = IF Tables = {} \/ stop THEN "want" ELSE "eval"
    PROVE  ThreadOK(Selecting(pc, r.m, r.got, r.n, r.l, ns, r.hit, stop), mu, ma2, search, check_gen)
<1> DEFINE q == Selecting(pc, r.m, r.got, r.n, r.l, ns, r.hit, stop)
<1>1. r \in Thread /\ r.got \subseteq ma /\ mu \subseteq Searched(search, check_gen, r.m, {"reg"})
      /\ r.l = 1 /\ r.n = 1
  BY Zenon DEF ThreadOK
<1>2. /\ r.m \in Metric /\ r.got \in SUBSET Lane /\ r.l \in Lane /\ r.n \in 1 .. 5
      /\ r.hit \in BOOLEAN
  BY <1>1, ThreadFields, Zenon
<1>3. q \in Thread
  BY <1>2, SelectingType, Zenon
<1>4. q.pc = pc /\ q.m = r.m /\ q.got = r.got /\ q.n = 1 /\ q.l = 1 /\ q.ns = ns /\ q.cached = stop
  BY <1>1, Zenon DEF Selecting
<1> HIDE DEF q
<1>5. \A s \in mu : Bucket[s] \in Tables /\ Bucket[s] \in 1 .. 4 /\ LaneOf[s] \in Lane
  BY <1>1, TableOf, Zenon
<1>6. \A s \in mu : Bucket[s] \in ns
  BY <1>5, Zenon
<1>7. \A s \in mu : ~Passed(q, s)
  BY <1>4, <1>5, SelectAssumption DEF Passed, Lane
<1>8. Tables = {} => mu = {}
  BY <1>5, Zenon
<1>9. CASE Tables = {} \/ stop
  <2>1. pc = "want"
    BY <1>9, Zenon
  <2>2. ThreadOK(q, mu, ma2, search, check_gen)
    BY <1>1, <1>3, <1>4, <1>8, <1>9, <2>1, Zenon DEF ThreadOK
  <2>. QED  BY <2>2, Zenon DEF q
<1>10. CASE ~(Tables = {} \/ stop)
  <2>1. pc = "eval"
    BY <1>10, Zenon
  <2>2. ThreadOK(q, mu, ma2, search, check_gen)
    BY <1>1, <1>3, <1>4, <1>6, <1>7, <2>1 DEF ThreadOK
  <2>. QED  BY <2>2, Zenon DEF q
<1>. QED  BY <1>9, <1>10, Zenon

\* What a turn of the loop finds, got2 being the lanes and ns2 the buckets after
\* it: entitled lanes, and the lasting searches of the bucket and lane it was at.
TurnOK(r, mu, ma2, got2, ns2) ==
    /\ r.got \subseteq got2 /\ got2 \subseteq ma2 /\ got2 \subseteq Lane
    /\ ns2 \subseteq 1 .. 4
    /\ \A s \in mu : /\ Bucket[s] \in ns2 /\ Bucket[s] \in 1 .. 4 /\ LaneOf[s] \in Lane
                     /\ Bucket[s] = r.n /\ LaneOf[s] = r.l => r.l \in got2

\* The loop over buckets and lanes moves on: nothing lasting is left behind it.
LEMMA TurnThread ==
    ASSUME NEW r, NEW mu, NEW ma, ThreadOK(r, mu, ma, search, check_gen), r.pc = "eval",
           NEW ma2, NEW got2, NEW ns2, TurnOK(r, mu, ma2, got2, ns2), NEW hit \in BOOLEAN
    PROVE  /\ r.l < NLanes =>
                ThreadOK(Selecting("eval", r.m, got2, r.n, r.l + 1, ns2, hit, r.cached),
                         mu, ma2, search, check_gen)
           /\ ~(r.l < NLanes) =>
                ThreadOK(Selecting(IF r.n = 4 THEN "miss" ELSE "eval",
                                   r.m, got2, r.n + 1, 1, ns2, hit, r.cached),
                         mu, ma2, search, check_gen)
<1>1. /\ r \in Thread /\ mu \subseteq Searched(search, check_gen, r.m, {"reg"})
      /\ r.n \in 1 .. 4 /\ \A s \in mu : Passed(r, s) => LaneOf[s] \in r.got
  BY Zenon DEF ThreadOK
<1>2. r.m \in Metric /\ r.l \in Lane /\ r.cached \in BOOLEAN /\ r.n \in 1 .. 5 /\ r.n + 1 \in 1 .. 5
  BY <1>1, ThreadFields
<1>3. got2 \in SUBSET Lane /\ ns2 \in SUBSET (1 .. 4) /\ got2 \subseteq ma2
  BY Zenon DEF TurnOK
<1>4. \A s \in mu : /\ Bucket[s] \in ns2 /\ Bucket[s] \in 1 .. 4 /\ LaneOf[s] \in Lane
                    /\ (Passed(r, s) \/ (Bucket[s] = r.n /\ LaneOf[s] = r.l)) => LaneOf[s] \in got2
  BY <1>1, Zenon DEF TurnOK
<1>5. ASSUME r.l < NLanes
      PROVE  ThreadOK(Selecting("eval", r.m, got2, r.n, r.l + 1, ns2, hit, r.cached),
                      mu, ma2, search, check_gen)
  <2> DEFINE q == Selecting("eval", r.m, got2, r.n, r.l + 1, ns2, hit, r.cached)
  <2>0. r.l + 1 \in Lane
    BY <1>2, <1>5, SelectAssumption DEF Lane
  <2>1. q \in Thread
    BY <1>2, <1>3, <2>0, SelectingType, Zenon
  <2>2. q.pc = "eval" /\ q.m = r.m /\ q.got = got2 /\ q.n = r.n /\ q.l = r.l + 1 /\ q.ns = ns2
    BY Zenon DEF Selecting
  <2> HIDE DEF q
  <2>3. ASSUME NEW s \in mu, Passed(q, s)
        PROVE  Passed(r, s) \/ (Bucket[s] = r.n /\ LaneOf[s] = r.l)
    BY <1>1, <1>2, <1>4, <2>2, <2>3, SelectAssumption DEF Passed, Lane
  <2>4. ThreadOK(q, mu, ma2, search, check_gen)
    BY <1>1, <1>3, <1>4, <2>1, <2>2, <2>3, Zenon DEF ThreadOK
  <2>. QED  BY <2>4, Zenon DEF q
<1>6. ASSUME ~(r.l < NLanes)
      PROVE  ThreadOK(Selecting(IF r.n = 4 THEN "miss" ELSE "eval",
                                r.m, got2, r.n + 1, 1, ns2, hit, r.cached),
                      mu, ma2, search, check_gen)
  <2> DEFINE pc == IF r.n = 4 THEN "miss" ELSE "eval"
             q == Selecting(pc, r.m, got2, r.n + 1, 1, ns2, hit, r.cached)
  <2>0. 1 \in Lane /\ r.l = NLanes
    <3>1. r.l \in 1 .. NLanes /\ NLanes \in Nat /\ NLanes # 0
      BY <1>2, SelectAssumption, Zenon DEF Lane
    <3>2. r.l = NLanes /\ 1 \in 1 .. NLanes
      BY <1>6, <3>1
    <3>. QED  BY <3>2, Zenon DEF Lane
  <2>1. pc \in {"miss", "eval"} /\ (r.n = 4 => pc = "miss") /\ (r.n # 4 => pc = "eval")
    BY Zenon
  <2> HIDE DEF pc
  <2>2. q \in Thread
    BY <1>2, <1>3, <2>0, <2>1, SelectingType, Zenon
  <2>3. q.pc = pc /\ q.m = r.m /\ q.got = got2 /\ q.n = r.n + 1 /\ q.l = 1 /\ q.ns = ns2
    BY Zenon DEF Selecting
  <2> HIDE DEF q
  <2>4. \A s \in mu : Passed(q, s) => LaneOf[s] \in got2
    <3>1. ASSUME NEW s \in mu, Passed(q, s)
          PROVE  Passed(r, s) \/ (Bucket[s] = r.n /\ LaneOf[s] = r.l)
      BY <1>1, <1>2, <1>4, <2>0, <2>3, <3>1, SelectAssumption DEF Passed, Lane
    <3>. QED  BY <1>4, <3>1, Zenon
  <2>5. r.n = 4 => \A s \in mu : Passed(q, s)
    BY <1>4, <2>3 DEF Passed
  <2>6. r.n # 4 => q.n \in 1 .. 4
    BY <1>1, <2>3
  <2>9. ThreadOK(q, mu, ma2, search, check_gen)
    <3>1. CASE r.n = 4
      BY <1>1, <1>3, <2>1, <2>2, <2>3, <2>4, <2>5, <3>1, Zenon DEF ThreadOK
    <3>2. CASE r.n # 4
      BY <1>1, <1>3, <1>4, <2>1, <2>2, <2>3, <2>4, <2>6, <3>2, Zenon DEF ThreadOK
    <3>. QED  BY <3>1, <3>2, Zenon
  <2>. QED  BY <2>9, Zenon DEF q, pc
<1>. QED  BY <1>5, <1>6, Zenon

\* A search of one bucket on one lane (evaluate_searches) is such a turn.
LEMMA EvalTurn ==
    ASSUME NEW d \in Dist, NEW mu, NEW ma, ThreadOK(dist[d], mu, ma, search, check_gen),
           dist[d].pc = "eval", NEW ma2, ma \subseteq ma2,
           {LaneOf[s] : s \in Searched(search, check_gen, dist[d].m, {"put", "reg"})} \subseteq ma2,
           NEW found,
           found = (/\ dist[d].n \in NameTables(d)
                    /\ dist[d].l \notin dist[d].got
                    /\ \E s \in Searched(search, check_gen, dist[d].m, {"put", "reg"}) :
                          Bucket[s] = dist[d].n /\ LaneOf[s] = dist[d].l),
           NEW got, got = IF found THEN dist[d].got \cup {dist[d].l} ELSE dist[d].got
    PROVE  TurnOK(dist[d], mu, ma2, got, NameTables(d))
<1>. DEFINE r == dist[d]
<1>1. /\ r \in Thread /\ r.got \subseteq ma /\ mu \subseteq Searched(search, check_gen, r.m, {"reg"})
      /\ r.n \in 1 .. 4 /\ \A s \in mu : Bucket[s] \in r.ns
  BY Zenon DEF ThreadOK
<1>2. r.got \subseteq Lane /\ r.l \in Lane /\ r.ns \subseteq 1 .. 4
  BY <1>1, ThreadFields, Zenon
<1>3. \A s \in mu : Bucket[s] \in Tables /\ Bucket[s] \in 1 .. 4 /\ LaneOf[s] \in Lane
  BY <1>1, TableOf, Zenon
<1>4. \A s \in mu : Bucket[s] \in NameTables(d)
  <2>1. CASE r.l = 1 /\ r.n \in {1, 3}
    BY <1>1, <1>3, <2>1, Zenon DEF NameTables
  <2>2. CASE ~(r.l = 1 /\ r.n \in {1, 3})
    BY <1>1, <2>2, Zenon DEF NameTables
  <2>. QED  BY <2>1, <2>2, Zenon
<1>5. NameTables(d) \subseteq 1 .. 4
  <2>1. CASE r.l = 1 /\ r.n \in {1, 3}
    BY <1>2, <2>1, Zenon DEF NameTables
  <2>2. CASE ~(r.l = 1 /\ r.n \in {1, 3})
    BY <1>2, <2>2, Zenon DEF NameTables
  <2>. QED  BY <2>1, <2>2, Zenon
<1>6. r.got \subseteq got /\ got \subseteq Lane
  BY <1>2, Zenon
<1>7. got \subseteq ma2
  <2>1. CASE found
    <3>1. PICK s \in Searched(search, check_gen, r.m, {"put", "reg"}) : LaneOf[s] = r.l
      BY <2>1, Zenon
    <3>2. r.l \in ma2
      BY <3>1, Zenon
    <3>. QED  BY <1>1, <2>1, <3>2, Zenon
  <2>2. CASE ~found
    BY <1>1, <2>2, Zenon
  <2>. QED  BY <2>1, <2>2, Zenon
<1>8. ASSUME NEW s \in mu, Bucket[s] = r.n, LaneOf[s] = r.l
      PROVE  r.l \in got
  <2>1. s \in Searched(search, check_gen, r.m, {"put", "reg"})
    BY <1>1, <1>8, Zenon DEF Searched
  <2>2. r.n \in NameTables(d)
    BY <1>4, <1>8, Zenon
  <2>3. CASE r.l \in r.got
    BY <1>6, <2>3, Zenon
  <2>4. CASE r.l \notin r.got
    <3>1. found
      BY <1>8, <2>1, <2>2, <2>4, Zenon
    <3>. QED  BY <3>1, Zenon
  <2>. QED  BY <2>3, <2>4, Zenon
<1>. QED  BY <1>3, <1>4, <1>5, <1>6, <1>7, <1>8, Zenon DEF TurnOK

\* The miss cache is set, and the want hook adds its lanes.
LEMMA MissThread ==
    ASSUME NEW r, NEW mu, NEW ma, ThreadOK(r, mu, ma, search, check_gen), r.pc = "miss",
           NEW ma2, ma \subseteq ma2
    PROVE  ThreadOK(Selecting("want", r.m, r.got, r.n, r.l, r.ns, r.hit, r.cached),
                    mu, ma2, search, check_gen)
<1> DEFINE q == Selecting("want", r.m, r.got, r.n, r.l, r.ns, r.hit, r.cached)
<1>1. /\ r \in Thread /\ r.got \subseteq ma /\ mu \subseteq Searched(search, check_gen, r.m, {"reg"})
      /\ r.cached \/ \A s \in mu : LaneOf[s] \in r.got
  BY Zenon DEF ThreadOK
<1>2. /\ r.m \in Metric /\ r.got \in SUBSET Lane /\ r.l \in Lane /\ r.n \in 1 .. 5
      /\ r.ns \in SUBSET (1 .. 4) /\ r.hit \in BOOLEAN /\ r.cached \in BOOLEAN
  BY <1>1, ThreadFields, Zenon
<1>3. q \in Thread
  BY <1>2, SelectingType, Zenon
<1>4. q.pc = "want" /\ q.m = r.m /\ q.got = r.got /\ q.cached = r.cached
  BY Zenon DEF Selecting
<1> HIDE DEF q
<1>5. ThreadOK(q, mu, ma2, search, check_gen)
  BY <1>1, <1>3, <1>4, Zenon DEF ThreadOK
<1>. QED  BY <1>5, Zenon DEF q

\* The lanes the want hook asks for are entitled.
LEMMA WantThread ==
    ASSUME NEW r, NEW mu, NEW ma, ThreadOK(r, mu, ma, search, check_gen), r.pc = "want",
           NEW ma2, ma \subseteq ma2, WantAll \subseteq ma2
    PROVE  ThreadOK(Selecting("out", r.m, r.got \cup WantAll, r.n, r.l, r.ns, r.hit, r.cached),
                    mu, ma2, search, check_gen)
<1> DEFINE q == Selecting("out", r.m, r.got \cup WantAll, r.n, r.l, r.ns, r.hit, r.cached)
<1>1. /\ r \in Thread /\ r.got \subseteq ma /\ mu \subseteq Searched(search, check_gen, r.m, {"reg"})
      /\ r.cached \/ \A s \in mu : LaneOf[s] \in r.got
  BY Zenon DEF ThreadOK
<1>2. /\ r.m \in Metric /\ r.got \cup WantAll \in SUBSET Lane /\ r.l \in Lane /\ r.n \in 1 .. 5
      /\ r.ns \in SUBSET (1 .. 4) /\ r.hit \in BOOLEAN /\ r.cached \in BOOLEAN
  BY <1>1, ThreadFields, SelectAssumption, Zenon
<1>3. q \in Thread
  BY <1>2, SelectingType, Zenon
<1>4. q.pc = "out" /\ q.m = r.m /\ q.got = r.got \cup WantAll /\ q.cached = r.cached
  BY Zenon DEF Selecting
<1> HIDE DEF q
<1>5. ThreadOK(q, mu, ma2, search, check_gen)
  BY <1>1, <1>3, <1>4, Zenon DEF ThreadOK
<1>. QED  BY <1>5, Zenon DEF q

-----------------------------------------------------------------------------
(* The inductive invariant.                                                *)

ThreadsInv ==
    /\ dist \in [Dist -> {Idle} \cup Thread]
    /\ \A d \in Dist : dist[d] # Idle => ThreadOK(dist[d], must[d].search, may[d], search, check_gen)

\* The counters and the threads.
SelectInv == InterestInv /\ ThreadsInv

\* What the history variables record of a thread that is selecting after a step.
Tracked(d) ==
    /\ must'[d].search \subseteq Searched(search', check_gen', dist'[d].m, {"reg"})
    /\ dist[d] # Idle => must'[d].search \subseteq must[d].search
    /\ may[d] \subseteq may'[d]
    /\ WantAll \subseteq may'[d]
    /\ {kl[2] : kl \in Exact(interest', dist'[d].m)} \subseteq may'[d]
    /\ {LaneOf[s] : s \in Searched(search', check_gen', dist'[d].m, {"put", "reg"})} \subseteq may'[d]

\* Track records that.
LEMMA TrackThread ==
    ASSUME Track, NEW d \in Dist, dist'[d] # Idle
    PROVE  Tracked(d)
<1>1. must'[d].search = IF dist[d] = Idle THEN Searched(search', check_gen', dist'[d].m, {"reg"})
                        ELSE must[d].search \cap Searched(search', check_gen', dist'[d].m, {"reg"})
  BY Zenon DEF Track
<1>2. may'[d] = may[d] \cup WantAll
                   \cup {kl[2] : kl \in Exact(interest', dist'[d].m)}
                   \cup {LaneOf[s] : s \in Searched(search', check_gen', dist'[d].m, {"put", "reg"})}
  BY Zenon DEF Track
<1>3. /\ may[d] \subseteq may'[d] /\ WantAll \subseteq may'[d]
      /\ {kl[2] : kl \in Exact(interest', dist'[d].m)} \subseteq may'[d]
      /\ {LaneOf[s] : s \in Searched(search', check_gen', dist'[d].m, {"put", "reg"})} \subseteq may'[d]
  BY <1>2, Zenon
<1>4. CASE dist[d] = Idle
  BY <1>1, <1>3, <1>4, Zenon DEF Tracked
<1>5. CASE dist[d] # Idle
  BY <1>1, <1>3, <1>5, Zenon DEF Tracked
<1>. QED  BY <1>4, <1>5, Zenon

\* A thread that does not move in a step keeps what is known of it.
LEMMA OtherThread ==
    ASSUME ThreadsInv, Track, NEW d \in Dist, dist'[d] = dist[d], dist'[d] # Idle
    PROVE  ThreadOK(dist'[d], must'[d].search, may'[d], search', check_gen')
<1>1. Tracked(d)
  BY TrackThread, Zenon
<1>2. ThreadOK(dist[d], must[d].search, may[d], search, check_gen)
  BY Zenon DEF ThreadsInv
<1>3. /\ must'[d].search \in SUBSET must[d].search /\ may[d] \subseteq may'[d]
      /\ must'[d].search \subseteq Searched(search', check_gen', dist[d].m, {"reg"})
  BY <1>1, Zenon DEF Tracked
<1>. QED  BY <1>2, <1>3, WaitingThread, Zenon

\* The steps of the lanes' threads move no distributor.
LEMMA LanesKeep ==
    ASSUME ThreadsInv, Track, dist' = dist
    PROVE  ThreadsInv'
<1>1. \A d \in Dist : dist'[d] # Idle => ThreadOK(dist'[d], must'[d].search, may'[d], search', check_gen')
  BY OtherThread, Zenon
<1>. QED  BY <1>1, Zenon DEF ThreadsInv

\* A step of distributor d keeps what is known of all of them if it does of d.
LEMMA OneMoves ==
    ASSUME ThreadsInv, Track, UNCHANGED tables, NEW d \in Dist, NEW r, Steps(d, r),
           \/ r = Idle
           \/ \E mu, ma : /\ ThreadOK(r, mu, ma, search, check_gen)
                          /\ must'[d].search \subseteq mu /\ ma = may'[d]
    PROVE  ThreadsInv'
<1>1. dist' = [dist EXCEPT ![d] = r] /\ dist'[d] = r
  BY Zenon DEF Steps, ThreadsInv
<1>2. search' = search /\ check_gen' = check_gen
  BY Zenon DEF tables
<1>3. r \in {Idle} \cup Thread
  BY Zenon DEF ThreadOK
<1>4. ASSUME NEW e \in Dist, e # d, dist'[e] # Idle
      PROVE  ThreadOK(dist'[e], must'[e].search, may'[e], search', check_gen')
  <2>1. dist'[e] = dist[e]
    BY <1>1, <1>4, Zenon DEF ThreadsInv
  <2>. QED  BY <1>4, <2>1, OtherThread, Zenon
<1>5. ASSUME dist'[d] # Idle
      PROVE  ThreadOK(dist'[d], must'[d].search, may'[d], search', check_gen')
  <2>1. PICK mu, ma : /\ ThreadOK(r, mu, ma, search, check_gen)
                      /\ must'[d].search \subseteq mu /\ ma = may'[d]
    BY <1>1, <1>5, Zenon
  <2>2. must'[d].search \subseteq Searched(search', check_gen', r.m, {"reg"})
    BY <1>1, <1>5, TrackThread, Zenon DEF Tracked
  <2>. QED  BY <1>1, <1>2, <2>1, <2>2, WaitingThread
<1>6. dist' \in [Dist -> {Idle} \cup Thread]
  BY <1>1, <1>3, Zenon DEF ThreadsInv
<1>7. \A e \in Dist : dist'[e] # Idle => ThreadOK(dist'[e], must'[e].search, may'[e], search', check_gen')
  BY <1>4, <1>5, Zenon
<1>. QED  BY <1>6, <1>7, Zenon DEF ThreadsInv

\* What a step of d to record r, not idle and of the same metric, may use.
LEMMA MovedTracked ==
    ASSUME ThreadsInv, Track, UNCHANGED tables, NEW d \in Dist, dist[d] # Idle,
           NEW r, Steps(d, r), r # Idle, r.m = dist[d].m
    PROVE  /\ ThreadOK(dist[d], must[d].search, may[d], search, check_gen)
           /\ must'[d].search \subseteq must[d].search
           /\ may[d] \subseteq may'[d] /\ WantAll \subseteq may'[d]
           /\ {kl[2] : kl \in Exact(interest, dist[d].m)} \subseteq may'[d]
           /\ {LaneOf[s] : s \in Searched(search, check_gen, dist[d].m, {"put", "reg"})} \subseteq may'[d]
<1>1. dist'[d] = r
  BY Zenon DEF Steps, ThreadsInv
<1>2. Tracked(d)
  BY <1>1, TrackThread, Zenon
<1>3. search' = search /\ check_gen' = check_gen /\ interest' = interest
  BY Zenon DEF tables
<1>4. ThreadOK(dist[d], must[d].search, may[d], search, check_gen)
  BY Zenon DEF ThreadsInv
<1>. QED  BY <1>1, <1>2, <1>3, <1>4, Zenon DEF Tracked

\* A record that is made is not idle, and has the metric it was made with.
LEMMA SelectingNotIdle ==
    ASSUME NEW pc, pc # "idle", NEW m, NEW got, NEW n, NEW l, NEW ns, NEW hit, NEW cached
    PROVE  /\ Selecting(pc, m, got, n, l, ns, hit, cached) # Idle
           /\ Selecting(pc, m, got, n, l, ns, hit, cached).m = m
<1>1. Selecting(pc, m, got, n, l, ns, hit, cached).pc = pc /\ Idle.pc = "idle"
  BY Zenon DEF Selecting, Idle
<1>2. Selecting(pc, m, got, n, l, ns, hit, cached).m = m
  BY Zenon DEF Selecting
<1>. QED  BY <1>1, <1>2, Zenon

\* Every step of a distributor keeps the counters and what is known of threads.
LEMMA DistKeeps ==
    ASSUME SelectInv, NEW d \in Dist, DistStep(d)
    PROVE  SelectInv'
<1>0. ThreadsInv /\ InterestInv
  BY Zenon DEF SelectInv
<1>1. UNCHANGED tables /\ Track
  BY Zenon DEF DistStep, Enter, ExactInterests, CheckMissCache, EvaluateSearches, SetMissCache,
         WantHook, Leave
<1>2. InterestInv'
  BY <1>0, <1>1, Zenon DEF InterestInv, tables
<1>3. CASE Enter(d)
  <2>1. PICK m \in Metric : Steps(d, Selecting("exact", m, {}, 1, 1, {}, FALSE, FALSE))
    BY <1>3, Zenon DEF Enter
  <2> DEFINE r == Selecting("exact", m, {}, 1, 1, {}, FALSE, FALSE)
  <2>2. r # Idle /\ r.m = m
    BY Zenon DEF Selecting, Idle
  <2>3. dist'[d] = r
    BY <1>0, <2>1, Zenon DEF Steps, ThreadsInv
  <2>4. Tracked(d)
    BY <1>1, <2>2, <2>3, TrackThread, Zenon
  <2>5. must'[d].search \subseteq Searched(search, check_gen, m, {"reg"})
    BY <1>1, <2>2, <2>3, <2>4, Zenon DEF Tracked, tables
  <2>6. ThreadOK(r, must'[d].search, may'[d], search, check_gen)
    BY <2>5, EnterThread, Zenon
  <2>7. ThreadsInv'
    BY <1>0, <1>1, <2>1, <2>6, OneMoves, Zenon
  <2>. QED  BY <1>2, <2>7, Zenon DEF SelectInv
<1>4. ASSUME dist[d] # Idle, ExactInterests(d)
      PROVE  SelectInv'
  <2> DEFINE r == dist[d]
             got == IF interest[Keys[r.m][r.n]] = NoEntry THEN r.got
                    ELSE {l \in Lane : interest[Keys[r.m][r.n]][l] > 0}
             q == Selecting("cache", r.m, got, 1, r.l, r.ns, r.hit, r.cached)
             t == Selecting("exact", r.m, got, r.n + 1, r.l, r.ns, r.hit, r.cached)
  <2>1. (r.n = 4 /\ Steps(d, q)) \/ (r.n # 4 /\ Steps(d, t))
    BY <1>4, Zenon DEF ExactInterests
  <2>2. q # Idle /\ q.m = r.m /\ t # Idle /\ t.m = r.m
    BY Zenon DEF Selecting, Idle
  <2>3. /\ ThreadOK(dist[d], must[d].search, may[d], search, check_gen)
        /\ must'[d].search \subseteq must[d].search /\ may[d] \subseteq may'[d]
        /\ {kl[2] : kl \in Exact(interest, dist[d].m)} \subseteq may'[d]
    <3> HIDE DEF q, t
    <3>. QED  BY <1>0, <1>1, <1>4, <2>1, <2>2, MovedTracked, Zenon
  <2>4. dist[d].pc = "exact"
    BY <1>4, Zenon DEF ExactInterests
  <2>5. /\ r.n = 4 => ThreadOK(q, must[d].search, may'[d], search, check_gen)
        /\ r.n # 4 => ThreadOK(t, must[d].search, may'[d], search, check_gen)
    <3> HIDE DEF got
    <3>1. got = IF interest[Keys[r.m][r.n]] = NoEntry THEN r.got
                    ELSE {l \in Lane : interest[Keys[r.m][r.n]][l] > 0}
      BY Zenon DEF got
    <3>. QED  BY <1>0, <2>3, <2>4, <3>1, ExactThread, Zenon
  <2> HIDE DEF q, t
  <2>6. ThreadsInv'
    BY <1>0, <1>1, <2>1, <2>3, <2>5, OneMoves, Zenon
  <2>. QED  BY <1>2, <2>6, Zenon DEF SelectInv
<1>5. ASSUME dist[d] # Idle, CheckMissCache(d)
      PROVE  SelectInv'
  <2> DEFINE r == dist[d]
             stop == Tables # {} /\ MissKey(r.m) \in cache
             ns == {n \in 1 .. 4 : \E t \in Tables : CheckTable(t) = CheckTable(n)}
             pc == IF Tables = {} \/ stop THEN "want" ELSE "eval"
             q == Selecting(pc, r.m, r.got, r.n, r.l, ns, r.hit, stop)
  <2>1. Steps(d, q) /\ dist[d].pc = "cache"
    BY <1>5, Zenon DEF CheckMissCache
  <2>2. pc # "idle"
    BY Zenon
  <2>3. q # Idle /\ q.m = r.m
    <3> HIDE DEF pc, ns, stop
    <3>. QED  BY <2>2, SelectingNotIdle
  <2>4. /\ ThreadOK(dist[d], must[d].search, may[d], search, check_gen)
        /\ must'[d].search \subseteq must[d].search /\ may[d] \subseteq may'[d]
    <3> HIDE DEF q
    <3>. QED  BY <1>0, <1>1, <1>5, <2>1, <2>3, MovedTracked, Zenon
  <2>5. ThreadOK(q, must[d].search, may'[d], search, check_gen)
    <3>1. stop \in BOOLEAN
      BY Zenon
    <3> HIDE DEF stop
    <3>. QED  BY <2>1, <2>4, <3>1, CacheThread, Zenon
  <2> HIDE DEF q
  <2>6. ThreadsInv'
    BY <1>0, <1>1, <2>1, <2>4, <2>5, OneMoves, Zenon
  <2>. QED  BY <1>2, <2>6, Zenon DEF SelectInv
<1>6. ASSUME dist[d] # Idle, EvaluateSearches(d)
      PROVE  SelectInv'
  <2> DEFINE r == dist[d]
             found == /\ dist[d].n \in NameTables(d)
                      /\ dist[d].l \notin dist[d].got
                      /\ \E s \in Searched(search, check_gen, dist[d].m, {"put", "reg"}) :
                            Bucket[s] = dist[d].n /\ LaneOf[s] = dist[d].l
             got == IF found THEN r.got \cup {r.l} ELSE r.got
             hit == r.hit \/ found
             q == Selecting("eval", r.m, got, r.n, r.l + 1, NameTables(d), hit, r.cached)
             pc == IF r.n = 4 THEN "miss" ELSE "eval"
             t == Selecting(pc, r.m, got, r.n + 1, 1, NameTables(d), hit, r.cached)
  <2>1. dist[d].pc = "eval" /\ ((r.l < NLanes /\ Steps(d, q)) \/ (~(r.l < NLanes) /\ Steps(d, t)))
    BY <1>6, Zenon DEF EvaluateSearches, Advance
  <2>2. pc # "idle" /\ hit \in BOOLEAN
    BY Zenon
  <2>3. q # Idle /\ q.m = r.m /\ t # Idle /\ t.m = r.m
    <3> HIDE DEF pc, hit, got
    <3>. QED  BY <2>2, SelectingNotIdle
  <2>4. /\ ThreadOK(dist[d], must[d].search, may[d], search, check_gen)
        /\ must'[d].search \subseteq must[d].search /\ may[d] \subseteq may'[d]
        /\ {LaneOf[s] : s \in Searched(search, check_gen, dist[d].m, {"put", "reg"})} \subseteq may'[d]
    <3> HIDE DEF q, t
    <3>. QED  BY <1>0, <1>1, <1>6, <2>1, <2>3, MovedTracked, Zenon
  <2>5. TurnOK(r, must[d].search, may'[d], got, NameTables(d))
    BY <2>1, <2>4, EvalTurn, Zenon
  <2>6. /\ r.l < NLanes => ThreadOK(q, must[d].search, may'[d], search, check_gen)
        /\ ~(r.l < NLanes) => ThreadOK(t, must[d].search, may'[d], search, check_gen)
    <3> HIDE DEF hit, got
    <3>. QED  BY <2>1, <2>2, <2>4, <2>5, TurnThread, Zenon
  <2> HIDE DEF q, t
  <2>7. ThreadsInv'
    BY <1>0, <1>1, <2>1, <2>4, <2>6, OneMoves, Zenon
  <2>. QED  BY <1>2, <2>7, Zenon DEF SelectInv
<1>7. ASSUME dist[d] # Idle, SetMissCache(d)
      PROVE  SelectInv'
  <2> DEFINE r == dist[d]
             q == Selecting("want", r.m, r.got, r.n, r.l, r.ns, r.hit, r.cached)
  <2>1. Steps(d, q) /\ dist[d].pc = "miss"
    BY <1>7, Zenon DEF SetMissCache
  <2>2. q # Idle /\ q.m = r.m
    BY Zenon DEF Selecting, Idle
  <2>3. /\ ThreadOK(dist[d], must[d].search, may[d], search, check_gen)
        /\ must'[d].search \subseteq must[d].search /\ may[d] \subseteq may'[d]
    <3> HIDE DEF q
    <3>. QED  BY <1>0, <1>1, <1>7, <2>1, <2>2, MovedTracked, Zenon
  <2>4. ThreadOK(q, must[d].search, may'[d], search, check_gen)
    BY <2>1, <2>3, MissThread, Zenon
  <2> HIDE DEF q
  <2>5. ThreadsInv'
    BY <1>0, <1>1, <2>1, <2>3, <2>4, OneMoves, Zenon
  <2>. QED  BY <1>2, <2>5, Zenon DEF SelectInv
<1>8. ASSUME dist[d] # Idle, WantHook(d)
      PROVE  SelectInv'
  <2> DEFINE r == dist[d]
             q == Selecting("out", r.m, r.got \cup WantAll, r.n, r.l, r.ns, r.hit, r.cached)
  <2>1. Steps(d, q) /\ dist[d].pc = "want"
    BY <1>8, Zenon DEF WantHook
  <2>2. q # Idle /\ q.m = r.m
    BY Zenon DEF Selecting, Idle
  <2>3. /\ ThreadOK(dist[d], must[d].search, may[d], search, check_gen)
        /\ must'[d].search \subseteq must[d].search /\ may[d] \subseteq may'[d]
        /\ WantAll \subseteq may'[d]
    <3> HIDE DEF q
    <3>. QED  BY <1>0, <1>1, <1>8, <2>1, <2>2, MovedTracked, Zenon
  <2>4. ThreadOK(q, must[d].search, may'[d], search, check_gen)
    BY <2>1, <2>3, WantThread, Zenon
  <2> HIDE DEF q
  <2>5. ThreadsInv'
    BY <1>0, <1>1, <2>1, <2>3, <2>4, OneMoves, Zenon
  <2>. QED  BY <1>2, <2>5, Zenon DEF SelectInv
<1>9. CASE Leave(d)
  <2>1. Steps(d, Idle)
    BY <1>9, Zenon DEF Leave
  <2>2. ThreadsInv'
    BY <1>0, <1>1, <2>1, OneMoves, Zenon
  <2>. QED  BY <1>2, <2>2, Zenon DEF SelectInv
<1>. QED  BY <1>3, <1>4, <1>5, <1>6, <1>7, <1>8, <1>9, Zenon DEF DistStep

\* The steps of the threads of the lanes keep both.
LEMMA LaneThreadsKeep ==
    ASSUME SelectInv,
           \/ \E s \in Search : RegisterSearch(s) \/ RegisterSearchGen(s) \/ DeregisterSearch(s)
           \/ SetCheckGeneration
    PROVE  SelectInv'
<1>1. dist' = dist /\ Track /\ interest' = interest /\ ups' = ups /\ downs' = downs
  BY Zenon DEF RegisterSearch, RegisterSearchGen, DeregisterSearch, SetCheckGeneration
<1>2. ThreadsInv'
  BY <1>1, LanesKeep, Zenon DEF SelectInv
<1>3. InterestInv'
  BY <1>1, Zenon DEF SelectInv, InterestInv
<1>. QED  BY <1>2, <1>3, Zenon DEF SelectInv

\* The invariant implies what the run checks.
LEMMA SelectInvImplies == SelectInv => InterestsServed
<1> SUFFICES ASSUME SelectInv PROVE InterestsServed
  BY Zenon
<1>1. InterestKept
  <2> SUFFICES ASSUME NEW k \in Key, NEW l \in Lane, ups[k][l] > downs[k][l]
               PROVE  interest[k][l] > 0
    BY Zenon DEF InterestKept
  <2>1. /\ interest[k] \in [Lane -> Int] /\ ups[k] \in [Lane -> Nat] /\ downs[k] \in [Lane -> Nat]
        /\ CountOK(interest[k], ups[k], downs[k])
    BY Zenon DEF SelectInv, InterestInv
  <2>2. interest[k] # NoEntry
    BY <2>1 DEF CountOK
  <2>3. interest[k][l] = MaxInterest \/ interest[k][l] >= ups[k][l] - downs[k][l]
    BY <2>1, <2>2, Zenon DEF CountOK
  <2>. QED  BY <2>1, <2>3, SelectAssumption
<1>2. NoSpuriousLane
  BY Zenon DEF SelectInv, ThreadsInv, ThreadOK, NoSpuriousLane
<1>3. SearchServed
  <2> SUFFICES ASSUME NEW d \in Dist, dist[d] # Idle, dist[d].pc = "out", ~dist[d].cached
               PROVE  {LaneOf[s] : s \in must[d].search} \subseteq dist[d].got
    BY Zenon DEF SearchServed
  <2>1. ThreadOK(dist[d], must[d].search, may[d], search, check_gen)
    BY Zenon DEF SelectInv, ThreadsInv
  <2>. QED  BY <2>1, Zenon DEF ThreadOK
<1>. QED  BY <1>1, <1>2, <1>3, Zenon DEF InterestsServed

\* The invariant holds in every reachable state: noit_metric_director.c from
\* director start-up on.
THEOREM SelectInductive == SelectSpec => []SelectInv
<1>1. SelectInit => SelectInv
  <2> SUFFICES ASSUME SelectInit PROVE SelectInv
    BY Zenon
  <2>1. NoEntry \in [Lane -> Int]
    BY DEF NoEntry
  <2>2. \A k \in Key : CountOK(interest[k], ups[k], downs[k])
    BY Zenon DEF SelectInit, CountOK
  <2>3. InterestInv
    BY <2>1, <2>2, Zenon DEF SelectInit, InterestInv
  <2>4. ThreadsInv
    BY Zenon DEF SelectInit, ThreadsInv
  <2>. QED  BY <2>3, <2>4, Zenon DEF SelectInv
<1>2. SelectInv /\ [SelectNext]_selectVars => SelectInv'
  <2> SUFFICES ASSUME SelectInv, [SelectNext]_selectVars PROVE SelectInv'
    BY Zenon
  <2>1. ASSUME NEW l \in Lane, NEW k \in Key, NEW adj \in {-1, 1}, AdjustMetricInterest(l, k, adj)
        PROVE  SelectInv'
    <3>1. dist' = dist /\ Track
      BY <2>1, Zenon DEF AdjustMetricInterest
    <3>. QED  BY <2>1, <3>1, AdjustKeeps, LanesKeep, Zenon DEF SelectInv
  <2>2. ASSUME NEW s \in Search, RegisterSearch(s) \/ RegisterSearchGen(s) \/ DeregisterSearch(s)
        PROVE  SelectInv'
    BY <2>2, LaneThreadsKeep, Zenon
  <2>3. CASE SetCheckGeneration
    BY <2>3, LaneThreadsKeep, Zenon
  <2>4. ASSUME NEW d \in Dist, DistStep(d)
        PROVE  SelectInv'
    BY <2>4, DistKeeps, Zenon
  <2>5. CASE UNCHANGED selectVars
    BY <2>5, Zenon DEF SelectInv, InterestInv, ThreadsInv, selectVars, tables
  <2>. QED  BY <2>1, <2>2, <2>3, <2>4, <2>5, Zenon DEF SelectNext
<1>. QED  BY <1>1, <1>2, PTL DEF SelectSpec

\* What distribute_metric decides is what was asked of the director: a lane is
\* sent only what it had an interest in, a search that lasts is served unless the
\* miss cache stops it, and interests are not lost at the caps of their counters.
THEOREM InterestsAreServed == SelectSpec => []InterestsServed
BY SelectInductive, SelectInvImplies, PTL
=============================================================================
