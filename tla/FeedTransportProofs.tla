------------------------ MODULE FeedTransportProofs ------------------------
(***************************************************************************)
(* The feed loses no message it has let the noitd pass, for every number   *)
(* of messages, connections, files, storage nodes and ingestors.           *)
(***************************************************************************)
EXTENDS FeedTransport, TLAPS

Reading == {"WANT_ERROR", "WANT_HEADER", "WANT_BODY", "IS_ASYNC", "WANT_CHKPT"}

\* The numbers on connection c: what was sent, read and acknowledged.
LinkOK(c) ==
    /\ link[c].rd <= link[c].sent
    /\ link[c].sent <= link[c].last
    /\ link[c].last <= produced
    /\ link[c].thr \in {"init", "loop"} => link[c].last = 0 /\ link[c].cnt = 0 /\ link[c].ack = 0
    /\ link[c].thr = "push" => link[c].sent < link[c].last
    /\ link[c].thr = "wait" => link[c].sent = link[c].last
    /\ link[c].ack # 0 => link[c].thr = "wait" /\ link[c].ack = link[c].sent
    /\ cconn # c => link[c].cnt = 0 /\ link[c].rd = 0
    /\ (cconn # c /\ link[c].thr = "none") => link[c] = Closed

\* The client's state against the connection it reads from.
ClientOK ==
    /\ cconn = None <=> cstate = "WANT_INITIATE"
    /\ cconn # None => up = "up"
    /\ cstate = "WANT_COUNT" =>
          /\ link[cconn].cnt > 0 => link[cconn].cnt = link[cconn].last - link[cconn].rd
          /\ link[cconn].cnt # 0 => link[cconn].ack = 0
    /\ (cconn # None /\ link[cconn].thr \in {"init", "loop"}) => cstate = "WANT_COUNT"
    /\ cstate \in Reading => link[cconn].cnt = 0 /\ link[cconn].ack = 0
    /\ cstate \in {"WANT_HEADER", "WANT_BODY"} => count = link[cconn].last - link[cconn].rd
    /\ cstate \in {"WANT_HEADER", "WANT_BODY"} => count >= 1
    /\ (cstate \in {"WANT_HEADER", "WANT_BODY"} /\ needs_chkpt) => \E n \in Node : ws[n] # None
    /\ cstate = "WANT_BODY" => header = link[cconn].rd + 1 /\ header <= link[cconn].sent
    /\ cstate \in {"IS_ASYNC", "WANT_CHKPT"} =>
          header = link[cconn].rd /\ header = link[cconn].last

\* Who owns which journal file.
StoreOK ==
    /\ \A n \in Node : ws[n] # None => up = "up" /\ kind[ws[n]] = "tmp"
    /\ \A m, n \in Node : (m # n /\ ws[m] = ws[n]) => ws[m] = None
    /\ up = "down" => jobs = {}
    /\ up = "sweep" => \A j, k \in jobs : j = k
    /\ \A j \in jobs :
          /\ \A f \in j.todo : kind[f] # "none" /\ (up = "up" => kind[f] = "tmp")
          /\ j.todo \cap FilesOf(ws) = {}
          /\ j.cur # None => kind[j.cur] = "raw" /\ j.cur \notin j.todo
          /\ j.cur # None => \A i \in Ingestor : i < j.next => j.bad \/ body[j.cur] \subseteq taken[i]
          /\ j.conn # None => j.conn = cconn /\ cstate = "IS_ASYNC"
    /\ \A j, k \in jobs : j # k => Holds(j) \cap Holds(k) = {}
    /\ \A j, k \in jobs : j.conn # None /\ k.conn # None => j = k

InSet(m) == \E n \in Node : ws[n] # None /\ m \in body[ws[n]]
InJob(m) == \E j \in jobs : j.conn # None /\ \E f \in j.todo : m \in body[f]

\* What the two ends have moved past is secured or on its way.
DataOK ==
    /\ \A m \in 1 .. chkpt : Secured(m)
    /\ \A m \in 1 .. low - 1 : Secured(m)
    /\ chkpt <= produced /\ low <= produced + 1
    /\ \A c \in Conn : \A m \in 1 .. link[c].ack : Secured(m)
    /\ (cstate = "WANT_COUNT" /\ link[cconn].cnt # 0) =>
          \A m \in 1 .. link[cconn].rd : Secured(m)
    /\ cstate \in {"WANT_HEADER", "WANT_BODY"} =>
          \A m \in 1 .. link[cconn].rd : Secured(m) \/ (needs_chkpt /\ InSet(m))
    /\ cstate = "IS_ASYNC" => \A m \in 1 .. header : Secured(m) \/ InJob(m)
    /\ cstate = "WANT_CHKPT" => \A m \in 1 .. header : Secured(m)

Inv == TypeOK /\ (\A c \in Conn : LinkOK(c)) /\ ClientOK /\ StoreOK /\ DataOK

\* No step takes a copy away.
Kept == \A m \in Msg : Secured(m) => Secured(m)'

\* The initial state satisfies the inductive invariant.
LEMMA InitInv == Init => Inv
<1> SUFFICES ASSUME Init PROVE Inv
  BY Zenon
<1> USE ConstantsAssumption DEF Init
<1>1. TypeOK
  <2>1. Closed \in Link
    BY DEF Closed, Link
  <2>2. /\ body \in [File -> SUBSET Msg] /\ taken \in [Ingestor -> SUBSET Msg]
        /\ kind \in [File -> {"none", "tmp", "raw"}] /\ ws \in [Node -> File \cup {None}]
    BY Zenon
  <2>3. link \in [Conn -> Link]
    BY <2>1, Zenon
  <2>4. needs_chkpt \in BOOLEAN /\ jobs \subseteq Job /\ unwritten \subseteq Msg
    BY Zenon
  <2>5. /\ count \in -1 .. MaxMsg /\ header \in 0 .. MaxMsg /\ low \in 1 .. MaxMsg + 1
        /\ produced \in 0 .. MaxMsg /\ chkpt \in 0 .. MaxMsg
    OBVIOUS
  <2>6. cstate \in ClientStates /\ cconn \in Conn \cup {None} /\ up \in {"down", "sweep", "up"}
    BY Zenon DEF ClientStates
  <2> QED
    BY <2>2, <2>3, <2>4, <2>5, <2>6, Zenon DEF TypeOK
<1>2. \A c \in Conn : LinkOK(c)
  BY DEF LinkOK, Closed
<1>3. ClientOK
  BY Zenon DEF ClientOK, Reading
<1>4. StoreOK
  BY Zenon DEF StoreOK
<1>5. DataOK
  BY DEF DataOK, Closed
<1> QED
  BY <1>1, <1>2, <1>3, <1>4, <1>5, Zenon DEF Inv

\* Starting the feed thread preserves the invariant.
LEMMA HandlerInv == ASSUME Inv, NEW c \in Conn, Handler(c) PROVE Inv'
<1> USE ConstantsAssumption DEF Handler, Inv, clientVars, storeVars
<1>0. /\ link' = [link EXCEPT ![c] = [link[c] EXCEPT !.thr = "loop"]]
      /\ link[c] \in Link /\ link'[c] \in Link
  BY Zenon DEF TypeOK, Link
<1>1. TypeOK'
  BY DEF TypeOK, Link
<1>2. \A d \in Conn : LinkOK(d)'
  BY <1>0 DEF LinkOK, Closed, TypeOK
<1>3. ClientOK'
  BY <1>0 DEF ClientOK, Reading, TypeOK, LinkOK, Closed
<1>4. StoreOK'
  BY DEF StoreOK, FilesOf, Holds
<1>5. DataOK'
  BY <1>0 DEF DataOK, TypeOK, Secured, Ingested, InSet, InJob, Link
<1> QED
  BY <1>1, <1>2, <1>3, <1>4, <1>5, Zenon

\* Writing a message to the journal preserves the invariant.
LEMMA ProduceInv == ASSUME Inv, Produce PROVE Inv'
<1> USE ConstantsAssumption DEF Produce, Inv, clientVars, storeVars
<1>1. TypeOK'
  BY DEF TypeOK
<1>2. \A d \in Conn : LinkOK(d)'
  BY DEF LinkOK, TypeOK, Link
<1>3. ClientOK'
  BY Zenon DEF ClientOK
<1>4. StoreOK'
  BY DEF StoreOK, FilesOf, Holds
<1>5. DataOK'
  BY DEF DataOK, TypeOK, Secured, Ingested, InSet, InJob
<1> QED
  BY <1>1, <1>2, <1>3, <1>4, <1>5, Zenon

\* Answering with an error count preserves the invariant.
LEMMA HandlerErrorInv == ASSUME Inv, NEW c \in Conn, HandlerError(c) PROVE Inv'
<1> USE ConstantsAssumption DEF HandlerError, Inv, clientVars, storeVars
<1>0. /\ link' = [link EXCEPT ![c] = [link[c] EXCEPT !.thr = "none", !.cnt = -1]]
      /\ link[c] \in Link /\ link'[c] = [link[c] EXCEPT !.thr = "none", !.cnt = -1]
  BY Zenon DEF TypeOK
<1>a. link'[c] \in Link
  BY <1>0, -1 \in -1 .. MaxMsg, Zenon DEF Link
<1>1. TypeOK'
  BY <1>0, <1>a, Zenon DEF TypeOK
<1>2. \A d \in Conn : LinkOK(d)'
  BY <1>0 DEF LinkOK, Closed, TypeOK
<1>3. ClientOK'
  BY <1>0 DEF ClientOK, Reading, TypeOK, LinkOK, Closed
<1>4. StoreOK'
  BY DEF StoreOK, FilesOf, Holds
<1>5. DataOK'
  BY <1>0 DEF DataOK, TypeOK, Secured, Ingested, InSet, InJob, Link, LinkOK, Closed, ClientOK
<1> QED
  BY <1>1, <1>2, <1>3, <1>4, <1>5, Zenon

\* The read position lies in the journal and everything below it is secured.
LEMMA ReadFromSecured == Inv => /\ ReadFrom \in 1 .. produced + 1
                                /\ \A m \in 1 .. ReadFrom - 1 : Secured(m)
BY ConstantsAssumption DEF Inv, DataOK, TypeOK, ReadFrom

\* Announcing a batch preserves the invariant.
LEMMA ReadIntervalInv == ASSUME Inv, NEW c \in Conn, ReadInterval(c) PROVE Inv'
<1> DEFINE first == ReadFrom
           avail == produced - first + 1
           n == IF avail > MaxRows THEN MaxRows ELSE avail
<1> USE ConstantsAssumption DEF Inv, clientVars, storeVars
<1>a. /\ first \in 1 .. produced /\ n \in 1 .. produced - first + 1
      /\ \A m \in 1 .. first - 1 : Secured(m)
  BY ReadFromSecured DEF ReadInterval, TypeOK
<1>0. /\ link' = [link EXCEPT ![c] = link'[c]]
      /\ link'[c] = [thr |-> "push", last |-> first + n - 1, sent |-> first - 1,
                     rd |-> IF cconn = c THEN first - 1 ELSE 0,
                     cnt |-> IF cconn = c THEN n ELSE 0, ack |-> 0]
      /\ link[c].thr = "loop"
      /\ UNCHANGED <<produced, low, chkpt, clientVars, storeVars>>
  BY Zenon DEF ReadInterval, TypeOK
<1> HIDE DEF first, n
<1>b. link'[c] \in Link
  BY <1>0, <1>a DEF Link, TypeOK
<1>1. TypeOK'
  BY <1>0, <1>b, Zenon DEF TypeOK
<1>2. \A d \in Conn : LinkOK(d)'
  BY <1>0, <1>a DEF LinkOK, Closed, TypeOK
<1>3. ClientOK'
  BY <1>0, <1>a DEF ClientOK, Reading, TypeOK
<1>4. StoreOK'
  BY <1>0 DEF StoreOK, FilesOf, Holds
<1>5. DataOK'
  <2>1. \A m : Secured(m)' = Secured(m) /\ InSet(m)' = InSet(m) /\ InJob(m)' = InJob(m)
    BY <1>0, Zenon DEF Secured, Ingested, InSet, InJob
  <2> QED
    BY <1>0, <1>a, <2>1 DEF DataOK, TypeOK, Link, ClientOK
<1> QED
  BY <1>1, <1>2, <1>3, <1>4, <1>5, Zenon

\* Moving sent one further, or to the end of the batch, keeps a link a link.
LEMMA LinkSent ==
    ASSUME NEW l \in Link, NEW s \in 0 .. MaxMsg, NEW t \in {"push", "wait"}
    PROVE  [l EXCEPT !.sent = s, !.thr = t] \in Link
BY Zenon DEF Link

\* Pushing a message preserves the invariant.
LEMMA PushInv == ASSUME Inv, NEW c \in Conn, Push(c) PROVE Inv'
<1> USE ConstantsAssumption DEF Push, Inv, clientVars, storeVars
<1>0. /\ link' = [link EXCEPT ![c] = link'[c]]
      /\ link'[c] = [link[c] EXCEPT !.sent = link[c].sent + 1,
                      !.thr = IF link[c].sent + 1 = link[c].last THEN "wait" ELSE "push"]
      /\ link[c] \in Link
  BY Zenon DEF TypeOK, Link
<1>b. /\ link[c].sent + 1 \in 0 .. MaxMsg /\ link[c].sent + 1 <= link[c].last
      /\ link[c].sent \in Nat /\ link[c].last \in Nat /\ link[c].rd \in Nat
      /\ link[c].ack = 0 /\ link[c].rd <= link[c].sent /\ link[c].last <= produced
  BY <1>0 DEF Link, LinkOK, TypeOK
<1>a. link'[c] \in Link
  <2> DEFINE t == IF link[c].sent + 1 = link[c].last THEN "wait" ELSE "push"
  <2>1. t \in {"push", "wait"} /\ link'[c] = [link[c] EXCEPT !.sent = link[c].sent + 1, !.thr = t]
    BY <1>0, Zenon
  <2> HIDE DEF t
  <2>2. [link[c] EXCEPT !.sent = link[c].sent + 1, !.thr = t] \in Link
    BY Zenon, <1>0, <1>b, <2>1, LinkSent
  <2> QED
    BY <2>1, <2>2, Zenon
<1>1. TypeOK'
  BY <1>0, <1>a, Zenon DEF TypeOK
<1>2. ASSUME NEW d \in Conn PROVE LinkOK(d)'
  <2>1. CASE d = c
    BY <1>0, <1>b, <2>1, SMTT(30) DEF LinkOK, Closed, TypeOK, Link
  <2>2. CASE d # c
    BY <1>0, <2>2, Zenon DEF LinkOK, TypeOK
  <2> QED
    BY <2>1, <2>2, Zenon
<1>3. ClientOK'
  BY <1>0 DEF ClientOK, Reading, TypeOK, LinkOK, Link
<1>4. StoreOK'
  BY DEF StoreOK, FilesOf, Holds
<1>5. DataOK'
  BY <1>0 DEF DataOK, TypeOK, Secured, Ingested, InSet, InJob, Link, ClientOK
<1> QED
  BY <1>1, <1>2, <1>3, <1>4, <1>5, Zenon

\* Secured depends only on the files, what was taken and what was not written.
LEMMA SameStore ==
    ASSUME UNCHANGED storeVars
    PROVE  \A m : Secured(m)' = Secured(m) /\ InSet(m)' = InSet(m) /\ InJob(m)' = InJob(m)
BY Zenon DEF storeVars, Secured, Ingested, InSet, InJob

\* The constants used as resets lie in the ranges of the counters.
LEMMA Bounds == 0 \in 0 .. MaxMsg /\ 0 \in -1 .. MaxMsg /\ -1 \in -1 .. MaxMsg
BY ConstantsAssumption

\* The fields of a closed connection.
LEMMA ClosedFields ==
    /\ Closed \in Link /\ Closed.thr = "none" /\ Closed.last = 0 /\ Closed.sent = 0
    /\ Closed.rd = 0 /\ Closed.cnt = 0 /\ Closed.ack = 0
BY Bounds, Zenon DEF Closed, Link

\* The fields of a connection whose noitd end was closed.
LEMMA NoitdEndClosedFields ==
    ASSUME TypeOK, NEW c \in Conn, NEW e, e = NoitdEndClosed(c)
    PROVE  /\ e \in Link /\ e.thr = "none" /\ e.ack = 0
           /\ cconn = c => /\ e.rd = link[c].rd /\ e.sent = link[c].sent
                           /\ e.last = link[c].last /\ e.cnt = link[c].cnt
           /\ cconn # c => e = Closed
<1>0. link[c] \in Link
  BY Zenon DEF TypeOK
<1>1. CASE cconn = c
  <2>1. e = [link[c] EXCEPT !.thr = "none", !.ack = 0]
    BY <1>1, Zenon DEF NoitdEndClosed
  <2> QED
    BY <1>0, <1>1, <2>1, Bounds, Zenon DEF Link
<1>2. CASE cconn # c
  BY <1>2, ClosedFields, Zenon DEF NoitdEndClosed
<1> QED
  BY <1>1, <1>2, Zenon

\* Closing the noitd end of a connection preserves the invariant.
LEMMA NoitdEndClosedOK ==
    ASSUME Inv, NEW c \in Conn, link' = [link EXCEPT ![c] = NoitdEndClosed(c)],
           UNCHANGED <<produced, clientVars, storeVars>>
    PROVE  /\ link' \in [Conn -> Link] /\ (\A d \in Conn : LinkOK(d)') /\ ClientOK' /\ StoreOK'
           /\ \A d \in Conn : link'[d].ack \in {0, link[d].ack}
           /\ cconn # None => /\ link'[cconn].rd = link[cconn].rd
                              /\ link'[cconn].cnt = link[cconn].cnt
<1> DEFINE e == NoitdEndClosed(c)
<1>0. /\ link[c] \in Link /\ link \in [Conn -> Link] /\ link'[c] = e
      /\ \A d \in Conn \ {c} : link'[d] = link[d]
      /\ link' = [link EXCEPT ![c] = e]
  BY Zenon DEF TypeOK, Inv
<1>1. /\ e \in Link /\ e.thr = "none" /\ e.ack = 0
      /\ cconn = c => /\ e.rd = link[c].rd /\ e.sent = link[c].sent
                      /\ e.last = link[c].last /\ e.cnt = link[c].cnt
      /\ cconn # c => e = Closed
  BY NoitdEndClosedFields, Zenon DEF Inv
<1> HIDE DEF e
<1> USE ConstantsAssumption DEF Inv, clientVars, storeVars
<1>2. ASSUME NEW d \in Conn PROVE LinkOK(d)'
  <2>1. CASE d = c
    BY <1>0, <1>1, <2>1, ClosedFields DEF LinkOK, TypeOK
  <2>2. CASE d # c
    BY <1>0, <2>2, Zenon DEF LinkOK
  <2> QED
    BY <2>1, <2>2, Zenon
<1>3. ClientOK'
  <2>1. CASE cconn = c
    BY <1>0, <1>1, <2>1 DEF ClientOK, TypeOK, LinkOK
  <2>2. CASE cconn # c
    BY <1>0, <1>1, <2>2, SMTT(30) DEF ClientOK, TypeOK, LinkOK
  <2> QED
    BY <2>1, <2>2, Zenon
<1>4. StoreOK'
  BY DEF StoreOK, FilesOf, Holds
<1> QED
  BY <1>0, <1>1, <1>2, <1>3, <1>4, Zenon DEF TypeOK

\* The end of a feed thread preserves the invariant.
LEMMA ThreadDoneInv == ASSUME Inv, NEW c \in Conn, ThreadDone(c) PROVE Inv'
<1> USE ConstantsAssumption DEF Inv, clientVars, storeVars, ThreadDone
<1>1. TypeOK'
  BY NoitdEndClosedOK, Zenon DEF TypeOK
<1>2. DataOK'
  <2>1. ASSUME NEW d \in Conn PROVE \A m \in 1 .. link'[d].ack : m \in 1 .. link[d].ack
    <3>1. link'[d].ack = 0 \/ link'[d].ack = link[d].ack
      BY NoitdEndClosedOK, Zenon
    <3> QED
      BY <3>1
  <2> QED
    BY NoitdEndClosedOK, <2>1, SameStore, Zenon DEF DataOK, TypeOK, ClientOK
<1> QED
  BY NoitdEndClosedOK, <1>1, <1>2, Zenon

\* Storing or rejecting a checkpoint preserves the invariant: what it passes was
\* secured before it was written to the wire.
LEMMA ReadCheckpointInv == ASSUME Inv, NEW c \in Conn, ReadCheckpoint(c) PROVE Inv'
<1> USE ConstantsAssumption DEF Inv, clientVars, storeVars
<1>1. CASE link[c].ack # link[c].sent
  BY <1>1, Zenon DEF ReadCheckpoint, LinkOK
<1>2. CASE link[c].ack = link[c].sent
  <2>0. /\ link' = [link EXCEPT ![c] = link'[c]]
        /\ link'[c] = [Closed EXCEPT !.thr = "loop"] /\ link'[c] \in Link
        /\ link[c] \in Link /\ link[c].thr = "wait" /\ link[c].ack # 0
        /\ chkpt' = link[c].ack /\ link[c].ack <= produced
        /\ low' \in 1 .. MaxMsg + 1 /\ (low' = low \/ low' <= link[c].ack + 1)
        /\ UNCHANGED <<produced, clientVars, storeVars>>
    BY <1>2 DEF ReadCheckpoint, TypeOK, Closed, Link, LinkOK
  <2>1. TypeOK'
    BY <2>0 DEF TypeOK, Link
  <2>2. \A d \in Conn : LinkOK(d)'
    BY <2>0 DEF LinkOK, Closed, TypeOK
  <2>3. ClientOK'
    <3>0. /\ cconn' = cconn /\ cstate' = cstate /\ up' = up /\ count' = count
          /\ needs_chkpt' = needs_chkpt /\ header' = header /\ ws' = ws
      BY <2>0, Zenon
    <3>1. CASE cconn = c
      <4>1. cstate = "WANT_COUNT" /\ up = "up" /\ c # None
        BY <2>0, <3>1, Zenon DEF ClientOK, Reading, TypeOK, ClientStates
      <4>2. link'[c].cnt = 0 /\ link'[c].ack = 0
        BY <2>0, Zenon DEF Closed
      <4> HIDE DEF Inv, clientVars, storeVars
      <4> QED
        BY <3>0, <3>1, <4>1, <4>2 DEF ClientOK, Reading
    <3>2. CASE cconn # c
      <4>1. cconn \in Conn => link'[cconn] = link[cconn]
        BY <2>0, <3>2, Zenon DEF TypeOK
      <4>2. ClientOK /\ cconn \in Conn \cup {None}
        BY Zenon DEF TypeOK
      <4> HIDE DEF Inv, clientVars, storeVars
      <4> QED
        BY <3>0, <4>1, <4>2, Zenon DEF ClientOK, Reading
    <3> QED
      BY <3>1, <3>2, Zenon
  <2>4. StoreOK'
    BY <2>0 DEF StoreOK, FilesOf, Holds
  <2>5. DataOK'
    <3>1. CASE cconn = c
      <4>1. cstate = "WANT_COUNT"
        BY <2>0, <3>1, Zenon DEF ClientOK, Reading, TypeOK, ClientStates
      <4> QED
        BY <2>0, <3>1, <4>1, SameStore, SMTT(30) DEF DataOK, TypeOK, Link, Closed
    <3>2. CASE cconn # c
      <4>1. cconn \in Conn => link'[cconn] = link[cconn]
        BY <2>0, <3>2, Zenon DEF TypeOK
      <4>2. cconn \in Conn \/ cstate = "WANT_INITIATE"
        BY Zenon DEF TypeOK, ClientOK
      <4> QED
        BY <2>0, <3>2, <4>1, <4>2, SameStore DEF DataOK, TypeOK, Link, Closed
    <3> QED
      BY <3>1, <3>2, Zenon
  <2> QED
    BY <2>1, <2>2, <2>3, <2>4, <2>5, Zenon
<1> QED
  BY <1>1, <1>2, Zenon

\* Connecting preserves the invariant.
LEMMA InitiateInv == ASSUME Inv, NEW c \in Conn, Initiate(c) PROVE Inv'
<1> USE ConstantsAssumption DEF Inv, storeVars, Initiate
<1>0. /\ link' = [link EXCEPT ![c] = link'[c]]
      /\ link'[c] = [Closed EXCEPT !.thr = "init"] /\ link'[c] \in Link
  BY DEF TypeOK, Closed, Link, LinkOK
<1>1. TypeOK'
  BY <1>0, Zenon DEF TypeOK, ClientStates
<1>2. \A d \in Conn : LinkOK(d)'
  BY <1>0, Zenon DEF LinkOK, Closed, TypeOK
<1>3. ClientOK'
  BY <1>0 DEF ClientOK, Reading, TypeOK, Closed
<1>4. StoreOK'
  BY <1>0 DEF StoreOK, FilesOf, Holds
<1>5. DataOK'
  BY <1>0, SameStore DEF DataOK, TypeOK, Link, Closed
<1> QED
  BY <1>1, <1>2, <1>3, <1>4, <1>5, Zenon

\* The fields of a connection whose client end was closed.
LEMMA ClientEndClosedFields ==
    ASSUME TypeOK, NEW c \in Conn, NEW e, e = ClientEndClosed(c), link[c].thr = "none" => link[c].ack = 0
    PROVE  /\ e \in Link /\ e.thr = link[c].thr /\ e.rd = 0 /\ e.cnt = 0 /\ e.ack = link[c].ack
           /\ e.thr # "none" => e.sent = link[c].sent /\ e.last = link[c].last
           /\ e.thr = "none" => e = Closed
<1>0. link[c] \in Link
  BY Zenon DEF TypeOK
<1>1. CASE link[c].thr = "none"
  BY <1>0, <1>1, ClosedFields, Zenon DEF ClientEndClosed
<1>2. CASE link[c].thr # "none"
  <2>1. e = [link[c] EXCEPT !.rd = 0, !.cnt = 0]
    BY <1>2, Zenon DEF ClientEndClosed
  <2> QED
    BY <1>0, <1>2, <2>1, Bounds, Zenon DEF Link
<1> QED
  BY <1>1, <1>2, Zenon

\* The client's socket_error path preserves the invariant.
LEMMA CloseClientInv == ASSUME Inv, cconn # None, CloseClient PROVE Inv'
<1> DEFINE e == ClientEndClosed(cconn)
<1> USE ConstantsAssumption
<1>0. /\ TypeOK /\ (\A c \in Conn : LinkOK(c)) /\ ClientOK /\ StoreOK /\ DataOK /\ cconn \in Conn
      /\ up = "up" /\ link \in [Conn -> Link] /\ link[cconn] \in Link
  BY Zenon DEF Inv, TypeOK, ClientOK
<1>1. /\ link' = [link EXCEPT ![cconn] = e] /\ link'[cconn] = e
      /\ \A d \in Conn \ {cconn} : link'[d] = link[d]
      /\ cstate' = "WANT_INITIATE" /\ count' = 0 /\ needs_chkpt' = FALSE /\ cconn' = None
      /\ jobs' = {[j EXCEPT !.conn = None] : j \in jobs}
      /\ UNCHANGED <<produced, low, chkpt, header, up, ws, kind, body, taken, unwritten>>
  BY <1>0, Zenon DEF CloseClient
<1>2. /\ e \in Link /\ e.thr = link[cconn].thr /\ e.rd = 0 /\ e.cnt = 0 /\ e.ack = link[cconn].ack
      /\ e.thr # "none" => e.sent = link[cconn].sent /\ e.last = link[cconn].last
      /\ e.thr = "none" => e = Closed
  BY <1>0, ClientEndClosedFields DEF LinkOK
<1> HIDE DEF e
<1>3. ASSUME NEW x \in jobs'
      PROVE  \E j \in jobs : /\ x \in Job /\ j \in Job /\ x = [j EXCEPT !.conn = None]
                             /\ x.conn = None /\ x.todo = j.todo /\ x.cur = j.cur
                             /\ x.next = j.next /\ x.bad = j.bad
  <2>1. PICK j \in jobs : x = [j EXCEPT !.conn = None]
    BY <1>1, Zenon
  <2>2. j \in Job
    BY <1>0, Zenon DEF TypeOK
  <2> QED
    BY <2>1, <2>2, Zenon DEF Job
<1>4. TypeOK'
  <2>1. jobs' \subseteq Job
    BY <1>3, Zenon
  <2>2. needs_chkpt' \in BOOLEAN
    BY <1>1, Zenon
  <2>3. link' \in [Conn -> Link]
    BY <1>0, <1>1, <1>2, Zenon
  <2> QED
    BY <1>0, <1>1, <2>1, <2>2, <2>3 DEF TypeOK, ClientStates
<1>5. ASSUME NEW d \in Conn PROVE LinkOK(d)'
  <2>1. CASE d = cconn
    <3>0. LinkOK(cconn) /\ produced' = produced /\ produced \in Nat /\ link'[d] = e /\ cconn' # d
      BY <1>0, <1>1, <2>1 DEF TypeOK
    <3>1. CASE e.thr = "none"
      BY <1>2, <3>0, <3>1, ClosedFields DEF LinkOK
    <3>2. CASE e.thr # "none"
      BY <1>0, <1>2, <3>0, <3>2 DEF LinkOK, Link
    <3> QED
      BY <3>1, <3>2, Zenon
  <2>2. CASE d # cconn
    BY <1>0, <1>1, <2>2, Zenon DEF LinkOK
  <2> QED
    BY <2>1, <2>2, Zenon
<1>6. ClientOK'
  BY <1>1, Zenon DEF ClientOK, Reading
<1>7. StoreOK'
  BY <1>0, <1>1, <1>3 DEF StoreOK, FilesOf, Holds
<1>8. DataOK'
  <2>1. \A m : Secured(m)' = Secured(m)
    BY <1>1, Zenon DEF Secured, Ingested
  <2>2. \A d \in Conn : link'[d].ack = link[d].ack
    BY <1>1, <1>2, Zenon
  <2> QED
    BY <1>0, <1>1, <2>1, <2>2, Zenon DEF DataOK
<1> QED
  BY <1>4, <1>5, <1>6, <1>7, <1>8, Zenon DEF Inv

\* Reading the count preserves the invariant.
LEMMA ReadCountInv == ASSUME Inv, ReadCount PROVE Inv'
<1> USE ConstantsAssumption
<1>0. /\ TypeOK /\ (\A c \in Conn : LinkOK(c)) /\ ClientOK /\ StoreOK /\ DataOK /\ cconn \in Conn
      /\ link \in [Conn -> Link] /\ link[cconn] \in Link
  BY Zenon DEF Inv, TypeOK, ClientOK, ReadCount
<1>1. /\ link'[cconn] = [link[cconn] EXCEPT !.cnt = 0]
      /\ \A d \in Conn \ {cconn} : link'[d] = link[d]
      /\ link' = [link EXCEPT ![cconn] = [link[cconn] EXCEPT !.cnt = 0]]
      /\ cstate = "WANT_COUNT" /\ link[cconn].cnt # 0
      /\ count' = link[cconn].cnt /\ needs_chkpt' = FALSE
      /\ cstate' = IF link[cconn].cnt < 0 THEN "WANT_ERROR" ELSE "WANT_HEADER"
      /\ UNCHANGED <<produced, low, chkpt, cconn, header, storeVars>>
  BY <1>0, Zenon DEF ReadCount
<1>2. /\ link'[cconn] \in Link /\ link'[cconn].thr = link[cconn].thr
      /\ link'[cconn].rd = link[cconn].rd /\ link'[cconn].cnt = 0
      /\ link'[cconn].ack = link[cconn].ack
      /\ link'[cconn].sent = link[cconn].sent /\ link'[cconn].last = link[cconn].last
  BY <1>0, <1>1, Bounds, Zenon DEF Link
<1>3. link[cconn].thr \notin {"init", "loop"}
  BY <1>0, <1>1, Zenon DEF LinkOK, Closed
<1>4. TypeOK'
  <2>1. count' \in -1 .. MaxMsg /\ cstate' \in ClientStates
    BY <1>0, <1>1, Zenon DEF Link, ClientStates
  <2>2. needs_chkpt' \in BOOLEAN
    BY Zenon, <1>1
  <2>3. link' \in [Conn -> Link]
    BY <1>0, <1>1, <1>2, Zenon
  <2> QED
    BY <1>0, <1>1, <2>1, <2>2, <2>3, Zenon DEF TypeOK, storeVars
<1>5. ASSUME NEW d \in Conn PROVE LinkOK(d)'
  <2>1. CASE d = cconn
    <3>1. LinkOK(cconn) /\ cconn' = cconn /\ produced' = produced
      BY <1>0, <1>1, Zenon
    <3>2. link[cconn].ack = 0 /\ link[cconn].thr # "init" /\ link[cconn].thr # "loop"
      BY <1>0, <1>1, <1>3, Zenon DEF ClientOK
    <3> QED
      BY <1>2, <2>1, <3>1, <3>2, Zenon DEF LinkOK
  <2>2. CASE d # cconn
    BY <1>0, <1>1, <2>2, Zenon DEF LinkOK
  <2> QED
    BY <2>1, <2>2, Zenon
<1>6. ClientOK'
  BY <1>0, <1>1, <1>2, <1>3 DEF ClientOK, Reading, storeVars, Link
<1>7. StoreOK'
  BY <1>0, <1>1 DEF StoreOK, FilesOf, Holds, storeVars
<1>8. DataOK'
  <2>2. \A d \in Conn : link'[d].ack = link[d].ack
    BY <1>1, <1>2, Zenon
  <2> QED
    BY <1>0, <1>1, <1>2, SameStore, <2>2, Zenon DEF DataOK
<1> QED
  BY <1>4, <1>5, <1>6, <1>7, <1>8, Zenon DEF Inv

\* Reading a header preserves the invariant.
LEMMA ReadHeaderInv == ASSUME Inv, ReadHeader PROVE Inv'
<1> USE ConstantsAssumption DEF ReadHeader, Inv, storeVars
<1>0. cconn \in Conn /\ link[cconn] \in Link
  BY Zenon DEF TypeOK, ClientOK
<1>1. TypeOK'
  BY <1>0 DEF TypeOK, ClientStates, Link
<1>2. \A d \in Conn : LinkOK(d)'
  BY Zenon DEF LinkOK
<1>3. ClientOK'
  BY <1>0 DEF ClientOK, Reading, Link
<1>4. StoreOK'
  BY DEF StoreOK, FilesOf, Holds
<1>5. DataOK'
  BY SameStore, Zenon DEF DataOK
<1> QED
  BY <1>1, <1>2, <1>3, <1>4, <1>5, Zenon

\* Writing the checkpoint to the wire preserves the invariant.
LEMMA WriteCheckpointInv == ASSUME Inv, WriteCheckpoint PROVE Inv'
<1> DEFINE a == IF link[cconn].thr = "none" THEN 0 ELSE header
<1> USE ConstantsAssumption
<1>0. /\ TypeOK /\ (\A c \in Conn : LinkOK(c)) /\ ClientOK /\ StoreOK /\ DataOK /\ cconn \in Conn
      /\ link \in [Conn -> Link] /\ link[cconn] \in Link /\ a \in 0 .. MaxMsg
  BY DEF Inv, TypeOK, ClientOK, WriteCheckpoint
<1>1. /\ link' = [link EXCEPT ![cconn] = [link[cconn] EXCEPT !.ack = a]]
      /\ link'[cconn] = [link[cconn] EXCEPT !.ack = a]
      /\ \A d \in Conn \ {cconn} : link'[d] = link[d]
      /\ cstate = "WANT_CHKPT" /\ cstate' = "WANT_COUNT"
      /\ UNCHANGED <<produced, low, chkpt, cconn, count, header, needs_chkpt, storeVars>>
  BY <1>0, Zenon DEF WriteCheckpoint
<1>2. a \in {0, header} /\ (link[cconn].thr = "none" => a = 0)
  BY Zenon
<1> HIDE DEF a
<1>3. /\ link'[cconn] \in Link /\ link'[cconn].thr = link[cconn].thr
      /\ link'[cconn].rd = link[cconn].rd /\ link'[cconn].cnt = link[cconn].cnt
      /\ link'[cconn].ack = a
      /\ link'[cconn].sent = link[cconn].sent /\ link'[cconn].last = link[cconn].last
  BY <1>0, <1>1, Zenon DEF Link
<1>4. /\ link[cconn].thr \in {"none", "wait"} /\ header = link[cconn].sent
      /\ link[cconn].cnt = 0
  BY <1>0, <1>1 DEF LinkOK, ClientOK, Reading, Link
<1>5. TypeOK'
  BY <1>0, <1>1, <1>3, Zenon DEF TypeOK, ClientStates, storeVars
<1>6. ASSUME NEW d \in Conn PROVE LinkOK(d)'
  <2>1. CASE d = cconn
    BY <1>0, <1>1, <1>2, <1>3, <1>4, <2>1 DEF LinkOK
  <2>2. CASE d # cconn
    BY <1>0, <1>1, <2>2, Zenon DEF LinkOK
  <2> QED
    BY <2>1, <2>2, Zenon
<1>7. ClientOK'
  BY <1>0, <1>1, <1>3, <1>4 DEF ClientOK, Reading, storeVars
<1>8. StoreOK'
  BY <1>0, <1>1 DEF StoreOK, FilesOf, Holds, storeVars
<1>9. DataOK'
  BY <1>0, <1>1, <1>2, <1>3, <1>4, SameStore DEF DataOK, Link
<1> QED
  BY <1>5, <1>6, <1>7, <1>8, <1>9, Zenon DEF Inv

\* What a line or an empty body has done to the store when EndOfMessage(w) runs.
Inserted(w) ==
    /\ w \in [Node -> File \cup {None}]
    /\ kind' \in [File -> {"none", "tmp", "raw"}] /\ body' \in [File -> SUBSET Msg]
    /\ unwritten' \subseteq Msg /\ needs_chkpt' \in BOOLEAN
    /\ \A m \in Msg : Secured(m) => Secured(m)'
    /\ \A n \in Node : w[n] # None => kind'[w[n]] = "tmp"
    /\ \A m, n \in Node : (m # n /\ w[m] = w[n]) => w[m] = None
    /\ \A j \in jobs : \A f \in Holds(j) : kind'[f] = kind[f] /\ body'[f] = body[f]
    /\ \A j \in jobs : \A n \in Node : w[n] \notin j.todo
    /\ \A m \in 1 .. header :
          Secured(m)' \/ (needs_chkpt' /\ \E n \in Node : w[n] # None /\ m \in body'[w[n]])
    /\ needs_chkpt' => \E n \in Node : w[n] # None

\* The end of WANT_BODY preserves the invariant once the line is inserted.
LEMMA EndOfMessageInv ==
    ASSUME Inv, cstate = "WANT_BODY", NEW w, EndOfMessage(w), Inserted(w)
    PROVE  Inv'
<1> USE ConstantsAssumption
<1>0. /\ TypeOK /\ (\A c \in Conn : LinkOK(c)) /\ ClientOK /\ StoreOK /\ DataOK /\ cconn \in Conn
      /\ link \in [Conn -> Link] /\ link[cconn] \in Link /\ up = "up"
      /\ header \in 0 .. MaxMsg
  BY Zenon DEF Inv, TypeOK, ClientOK
<1>1. /\ link' = [link EXCEPT ![cconn] = [link[cconn] EXCEPT !.rd = header]]
      /\ link'[cconn] = [link[cconn] EXCEPT !.rd = header]
      /\ \A d \in Conn \ {cconn} : link'[d] = link[d]
      /\ count' = count - 1
      /\ UNCHANGED <<produced, low, chkpt, cconn, header, up, taken>>
  BY <1>0, Zenon DEF EndOfMessage
<1>2. /\ link'[cconn] \in Link /\ link'[cconn].thr = link[cconn].thr
      /\ link'[cconn].rd = header /\ link'[cconn].cnt = link[cconn].cnt
      /\ link'[cconn].ack = link[cconn].ack
      /\ link'[cconn].sent = link[cconn].sent /\ link'[cconn].last = link[cconn].last
  BY <1>0, <1>1, Zenon DEF Link
<1>3. /\ header = link[cconn].rd + 1 /\ header <= link[cconn].sent
      /\ count = link[cconn].last - link[cconn].rd
      /\ link[cconn].cnt = 0 /\ link[cconn].ack = 0 /\ link[cconn].thr \notin {"init", "loop"}
  BY <1>0, Zenon DEF ClientOK, Reading, LinkOK, Link
<1>4. link' \in [Conn -> Link] /\ count' \in -1 .. MaxMsg
  BY <1>0, <1>1, <1>2, <1>3 DEF TypeOK, LinkOK, Link
<1>5. ASSUME NEW d \in Conn PROVE LinkOK(d)'
  <2>1. CASE d = cconn
    <3>1. LinkOK(cconn) /\ produced' = produced /\ cconn' = cconn
      BY <1>0, <1>1, Zenon
    <3> QED
      BY <1>2, <1>3, <2>1, <3>1, Zenon DEF LinkOK
  <2>2. CASE d # cconn
    BY <1>0, <1>1, <2>2, Zenon DEF LinkOK
  <2> QED
    BY <2>1, <2>2, Zenon
<1>6. \A j \in jobs : j \in Job /\ j.conn = None
  BY <1>0, Zenon DEF TypeOK, StoreOK
<1>7. /\ \A m \in 1 .. chkpt' : Secured(m)' /\ m <= produced'
      /\ \A m \in 1 .. low' - 1 : Secured(m)'
      /\ chkpt' <= produced' /\ low' <= produced' + 1
      /\ \A c \in Conn : \A m \in 1 .. link'[c].ack : Secured(m)'
  <2>1. \A c \in Conn : link'[c].ack = link[c].ack /\ link[c].ack \in 0 .. MaxMsg
    BY <1>0, <1>1, <1>2, Zenon DEF Link
  <2> QED
    BY <1>0, <1>1, <2>1, SMTT(30) DEF DataOK, TypeOK, Inserted, Msg
<1>8. CASE count > 1
  <2>0. cstate' = "WANT_HEADER" /\ ws' = w /\ jobs' = jobs
    BY <1>8, <1>0 DEF EndOfMessage, TypeOK
  <2>1. TypeOK'
    BY <1>0, <1>1, <1>4, <2>0, Zenon DEF TypeOK, Inserted, ClientStates
  <2>2. ClientOK'
    BY <1>0, <1>1, <1>2, <1>3, <1>8, <2>0 DEF ClientOK, Reading, Inserted, Link
  <2>3. StoreOK'
    BY <1>0, <1>1, <1>6, <2>0 DEF StoreOK, Inserted, FilesOf, Holds, Job
  <2>4. DataOK'
    BY <1>0, <1>1, <1>2, <1>3, <1>7, <2>0, Zenon DEF DataOK, Inserted, InSet
  <2> QED
    BY <1>5, <2>1, <2>2, <2>3, <2>4, Zenon DEF Inv
<1>9. CASE count <= 1 /\ needs_chkpt'
  <2> DEFINE n == [conn |-> cconn, todo |-> FilesOf(w), cur |-> None, next |-> 1, bad |-> FALSE]
  <2>0. /\ cstate' = "IS_ASYNC" /\ ws' = [x \in Node |-> None] /\ jobs' = jobs \cup {n}
    BY <1>9, <1>0 DEF EndOfMessage, TypeOK, PluckWorkingSet
  <2>a. /\ n \in Job /\ n.conn = cconn /\ n.todo = FilesOf(w) /\ n.cur = None
        /\ Holds(n) = FilesOf(w)
    BY <1>0 DEF Job, FilesOf, Inserted, Holds
  <2> HIDE DEF n
  <2>1. TypeOK'
    BY <1>0, <1>1, <1>4, <2>0, <2>a, Zenon DEF TypeOK, Inserted, ClientStates
  <2>2. ClientOK'
    BY <1>0, <1>1, <1>2, <1>3, <1>9, <2>0 DEF ClientOK, Reading, Link, LinkOK
  <2>3. StoreOK'
    BY <1>0, <1>1, <1>6, <2>0, <2>a DEF StoreOK, Inserted, FilesOf, Holds, Job
  <2>4. DataOK'
    <3>1. \A m \in 1 .. header : Secured(m)' \/ InJob(m)'
      BY <1>0, <2>0, <2>a, Zenon DEF Inserted, InJob, FilesOf
    <3> QED
      BY <1>1, <1>7, <2>0, <3>1, Zenon DEF DataOK
  <2> QED
    BY <1>5, <2>1, <2>2, <2>3, <2>4, Zenon DEF Inv
<1>10. CASE count <= 1 /\ ~needs_chkpt'
  <2>0. cstate' = "WANT_CHKPT" /\ ws' = w /\ jobs' = jobs
    BY <1>10, <1>0 DEF EndOfMessage, TypeOK
  <2>1. TypeOK'
    BY <1>0, <1>1, <1>4, <2>0, Zenon DEF TypeOK, Inserted, ClientStates
  <2>2. ClientOK'
    BY <1>0, <1>1, <1>2, <1>3, <1>10, <2>0 DEF ClientOK, Reading, Link, LinkOK
  <2>3. StoreOK'
    BY <1>0, <1>1, <1>6, <2>0 DEF StoreOK, Inserted, FilesOf, Holds, Job
  <2>4. DataOK'
    BY <1>0, <1>1, <1>7, <1>10, <2>0, Zenon DEF DataOK, Inserted
  <2> QED
    BY <1>5, <2>1, <2>2, <2>3, <2>4, Zenon DEF Inv
<1> QED
  BY <1>0, <1>8, <1>9, <1>10 DEF TypeOK

\* A zero-length body preserves the invariant and takes no copy away.
LEMMA ReadEmptyInv == ASSUME Inv, ReadEmpty PROVE Inv' /\ Kept
<1> USE ConstantsAssumption
<1>0. /\ TypeOK /\ ClientOK /\ StoreOK /\ DataOK /\ cconn \in Conn /\ link[cconn] \in Link
      /\ cstate = "WANT_BODY" /\ header \in Empty /\ header \in Msg
      /\ UNCHANGED <<needs_chkpt, kind, body, unwritten, taken>> /\ EndOfMessage(ws)
  BY Zenon DEF Inv, TypeOK, ClientOK, ReadEmpty, EndOfMessage
<1>1. \A m : Secured(m)' = Secured(m)
  BY <1>0, Zenon DEF Secured, Ingested
<1>2. \A m \in 1 .. header : m \in 1 .. link[cconn].rd \/ m = header
  BY <1>0 DEF ClientOK, Link, Msg
<1>3. Secured(header)
  BY <1>0, Zenon DEF Secured, Ingested
<1>4. \A m \in 1 .. header : Secured(m)' \/ (needs_chkpt' /\ \E n \in Node : ws[n] # None /\ m \in body'[ws[n]])
  BY <1>0, <1>1, <1>2, <1>3, Zenon DEF DataOK, InSet
<1>5. Inserted(ws)
  <2>1. needs_chkpt' \in BOOLEAN /\ (needs_chkpt' => \E n \in Node : ws[n] # None)
    BY <1>0, Zenon DEF TypeOK, ClientOK
  <2>2. /\ ws \in [Node -> File \cup {None}] /\ body' \in [File -> SUBSET Msg]
        /\ kind' \in [File -> {"none", "tmp", "raw"}] /\ unwritten' \subseteq Msg
    BY <1>0, Zenon DEF TypeOK
  <2>3. /\ \A n \in Node : ws[n] # None => kind'[ws[n]] = "tmp"
        /\ \A m, n \in Node : (m # n /\ ws[m] = ws[n]) => ws[m] = None
    BY <1>0, Zenon DEF StoreOK
  <2>4. \A j \in jobs : \A n \in Node : ws[n] \notin j.todo
    BY <1>0 DEF StoreOK, FilesOf, TypeOK, Job
  <2> QED
    BY <1>0, <1>1, <1>4, <2>1, <2>2, <2>3, <2>4, Zenon DEF Inserted
<1> QED
  BY <1>0, <1>1, <1>5, EndOfMessageInv, Zenon DEF Kept

\* Inserting a line preserves the invariant and takes no copy away.
LEMMA ReadLineInv == ASSUME Inv, ReadLine PROVE Inv' /\ Kept
<1> USE ConstantsAssumption
<1>0. /\ TypeOK /\ ClientOK /\ StoreOK /\ DataOK /\ cconn \in Conn /\ link[cconn] \in Link
      /\ cstate = "WANT_BODY" /\ header \in Msg /\ needs_chkpt' = TRUE
      /\ NodeOf[header] \in Node /\ taken' = taken
  <2>1. header \in Msg
    BY DEF Inv, TypeOK, ClientOK, ReadLine, Msg, Link
  <2> QED
    BY <2>1, Zenon DEF Inv, TypeOK, ClientOK, ReadLine, EndOfMessage
<1>1. PICK f \in File : /\ InterimJournal(header, f) /\ kind' = [kind EXCEPT ![f] = "tmp"]
                        /\ WriteLine(header, f)
                        /\ EndOfMessage([ws EXCEPT ![NodeOf[header]] = f])
  BY Zenon DEF ReadLine
<1> DEFINE w == [ws EXCEPT ![NodeOf[header]] = f]
<1>2. /\ w \in [Node -> File \cup {None}] /\ w[NodeOf[header]] = f /\ f # None
      /\ \A n \in Node \ {NodeOf[header]} : w[n] = ws[n]
  BY <1>0, Zenon DEF TypeOK
<1> HIDE DEF w
<1>3. /\ kind' \in [File -> {"none", "tmp", "raw"}] /\ kind'[f] = "tmp" /\ kind[f] # "raw"
      /\ \A g \in File \ {f} : kind'[g] = kind[g]
  BY <1>0, <1>1, Zenon DEF TypeOK, InterimJournal, StoreOK
<1>4. /\ body' \in [File -> SUBSET Msg] /\ unwritten' \subseteq Msg
      /\ \A g \in File \ {f} : body'[g] = body[g]
      /\ body[f] \subseteq body'[f] /\ unwritten \subseteq unwritten'
      /\ header \in body'[f] \/ header \in unwritten'
  <2>1. CASE body' = [body EXCEPT ![f] = @ \cup {header}] /\ unwritten' = unwritten
    BY <1>0, <2>1, Zenon DEF TypeOK
  <2>2. CASE unwritten' = unwritten \cup {header} /\ body' = body
    BY <1>0, <2>2, Zenon DEF TypeOK
  <2> QED
    BY <1>1, <2>1, <2>2, Zenon DEF WriteLine
<1>5. \A m \in Msg : Secured(m) => Secured(m)'
  BY <1>0, <1>3, <1>4, Zenon DEF Secured, Ingested
<1>6. \A m \in 1 .. header : m \in 1 .. link[cconn].rd \/ m = header
  BY <1>0, SMTT(30) DEF ClientOK, Link, Msg
<1>7. ASSUME NEW n \in Node, ws[n] # None
      PROVE w[n] = ws[n] /\ body[ws[n]] \subseteq body'[ws[n]]
  BY <1>0, <1>1, <1>2, <1>4, <1>7, Zenon DEF InterimJournal, TypeOK
<1>8. ASSUME NEW m \in 1 .. header
      PROVE  Secured(m)' \/ \E n \in Node : w[n] # None /\ m \in body'[w[n]]
  <2>1. CASE m = header
    BY <1>0, <1>2, <1>4, <2>1, Zenon DEF Secured, Ingested
  <2>2. CASE m \in 1 .. link[cconn].rd
    <3>1. m \in Msg /\ (Secured(m) \/ InSet(m))
      BY <1>0, <2>2, SMTT(30) DEF DataOK, Msg, Link
    <3> QED
      BY <1>5, <1>7, <3>1, Zenon DEF InSet
  <2> QED
    BY <1>6, <2>1, <2>2, Zenon
<1>9. ASSUME NEW j \in jobs
      PROVE  /\ f \notin Holds(j) /\ (\A g \in Holds(j) : kind'[g] = kind[g] /\ body'[g] = body[g])
             /\ \A n \in Node : w[n] \notin j.todo
  <2>1. j \in Job /\ up = "up" /\ Holds(j) \subseteq File
    BY <1>0, Zenon DEF TypeOK, ClientOK, Holds, Job
  <2>2. f \notin Holds(j)
    BY <1>0, <1>1, <1>3, <2>1 DEF InterimJournal, StoreOK, FilesOf, Holds
  <2> QED
    BY <1>0, <1>2, <1>3, <1>4, <2>1, <2>2 DEF StoreOK, FilesOf, Holds
<1>10. \A n \in Node : w[n] # None => kind'[w[n]] = "tmp"
  BY <1>0, <1>2, <1>3, SMTT(30) DEF StoreOK, TypeOK
<1>11. \A m, n \in Node : (m # n /\ w[m] = w[n]) => w[m] = None
  BY <1>0, <1>1, <1>2, SMTT(30) DEF StoreOK, InterimJournal, TypeOK
<1>a. needs_chkpt' \in BOOLEAN /\ (\E n \in Node : w[n] # None)
  BY <1>0, <1>2, Zenon
<1>12. Inserted(w)
  BY <1>0, <1>a, <1>2, <1>3, <1>4, <1>5, <1>8, <1>9, <1>10, <1>11, Zenon DEF Inserted
<1>13. EndOfMessage(w)
  BY <1>1, ZenonT(30) DEF w
<1> QED
  BY <1>0, <1>5, <1>12, <1>13, EndOfMessageInv, Zenon DEF Kept

\* A sync job moves on: it keeps or drops files and keeps its connection.
Moves(j, k) ==
    /\ k \in Job /\ k.conn = j.conn /\ k.todo \subseteq j.todo
    /\ Holds(k) \subseteq Holds(j)
    /\ jobs' = (jobs \ {j}) \cup {k}
    /\ UNCHANGED <<produced, low, chkpt, link, cconn, cstate, count, header, needs_chkpt,
                   up, ws, unwritten>>

\* A step of a sync job that only hands a file on preserves who owns what.
LEMMA MovesStore ==
    ASSUME Inv, NEW j \in jobs, NEW k, Moves(j, k),
           kind' \in [File -> {"none", "tmp", "raw"}],
           \A f \in File : f \notin Holds(j) => kind'[f] = kind[f] /\ body'[f] = body[f],
           \A f \in k.todo : kind'[f] = kind[f],
           k.cur # None => kind'[k.cur] = "raw" /\ k.cur \notin k.todo,
           k.cur # None => \A i \in Ingestor : i < k.next => k.bad \/ body'[k.cur] \subseteq taken'[i],
           \A i \in Ingestor : taken[i] \subseteq taken'[i]
    PROVE  StoreOK'
<1> USE ConstantsAssumption
<1>0. /\ TypeOK /\ ClientOK /\ StoreOK /\ jobs \subseteq Job /\ j \in Job /\ ws \in [Node -> File \cup {None}]
      /\ k \in Job /\ k.conn = j.conn /\ k.todo \subseteq j.todo /\ Holds(k) \subseteq Holds(j)
      /\ jobs' = (jobs \ {j}) \cup {k} /\ cconn' = cconn /\ cstate' = cstate /\ up' = up /\ ws' = ws
  BY Zenon DEF Inv, TypeOK, Moves
<1>1. \A x \in jobs : x # j => \A f \in Holds(x) : f \in File /\ f \notin Holds(j)
  BY <1>0 DEF StoreOK, Holds, Job
<1>2. \A n \in Node : ws[n] # None => ws[n] \notin Holds(j)
  BY <1>0, SMTT(30) DEF StoreOK, Holds, Job, FilesOf
<1>3. \A n \in Node : ws'[n] # None => up' = "up" /\ kind'[ws'[n]] = "tmp"
  BY <1>0, <1>2, SMTT(30) DEF StoreOK
<1>4. ASSUME NEW x \in jobs', x # k
      PROVE  /\ x \in jobs /\ x # j /\ x \in Job
             /\ \A f \in Holds(x) : kind'[f] = kind[f] /\ body'[f] = body[f]
  BY <1>0, <1>1, <1>4, Zenon
<1>5. ASSUME NEW x \in jobs'
      PROVE  /\ \A f \in x.todo : kind'[f] # "none" /\ (up' = "up" => kind'[f] = "tmp")
             /\ x.todo \cap FilesOf(ws') = {}
             /\ x.cur # None => kind'[x.cur] = "raw" /\ x.cur \notin x.todo
             /\ x.cur # None => \A i \in Ingestor : i < x.next => x.bad \/ body'[x.cur] \subseteq taken'[i]
             /\ x.conn # None => x.conn = cconn' /\ cstate' = "IS_ASYNC"
  <2>1. CASE x = k
    BY <1>0, <2>1, SMTT(30) DEF StoreOK, FilesOf
  <2>2. CASE x # k
    <3>1. /\ x \in jobs /\ \A f \in x.todo : kind'[f] = kind[f]
          /\ x.cur # None => kind'[x.cur] = kind[x.cur] /\ body'[x.cur] = body[x.cur]
      BY <1>4, <2>2, Zenon DEF Holds
    <3> QED
      BY <1>0, <3>1, SMTT(30) DEF StoreOK, FilesOf
  <2> QED
    BY <2>1, <2>2, Zenon
<1>6. \A x, y \in jobs' : x # y => Holds(x) \cap Holds(y) = {}
  BY <1>0, <1>4, SMTT(30) DEF StoreOK
<1>7. \A x, y \in jobs' : x.conn # None /\ y.conn # None => x = y
  BY <1>0, <1>4, SMTT(30) DEF StoreOK
<1>8. /\ up' = "down" => jobs' = {}
      /\ up' = "sweep" => \A x, y \in jobs' : x = y
  BY <1>0 DEF StoreOK
<1>9. FilesOf(ws)' = FilesOf(ws') /\ (\A x : Holds(x)' = Holds(x))
  BY Zenon DEF FilesOf, Holds
<1> QED
  BY <1>0, <1>3, <1>5, <1>6, <1>7, <1>8, <1>9, SMTT(30) DEF StoreOK

\* What is left of a step that moves a job on, given StoreOK'.
LEMMA MovesInv ==
    ASSUME Inv, NEW j \in jobs, NEW k, Moves(j, k), StoreOK',
           kind' \in [File -> {"none", "tmp", "raw"}], body' \in [File -> SUBSET Msg],
           taken' \in [Ingestor -> SUBSET Msg],
           \A f \in File : f \notin Holds(j) => kind'[f] = kind[f] /\ body'[f] = body[f],
           \A m \in Msg : Secured(m) => Secured(m)',
           cstate = "IS_ASYNC" => \A m \in Msg : InJob(m) => Secured(m)' \/ InJob(m)'
    PROVE  Inv'
<1> USE ConstantsAssumption
<1>0. /\ TypeOK /\ ClientOK /\ StoreOK /\ DataOK /\ jobs \subseteq Job /\ j \in Job
      /\ k \in Job /\ jobs' = (jobs \ {j}) \cup {k}
      /\ UNCHANGED <<produced, low, chkpt, link, cconn, cstate, count, header, needs_chkpt,
                     up, ws, unwritten>>
  BY Zenon DEF Inv, TypeOK, Moves
<1>1. TypeOK'
  BY <1>0, Zenon DEF TypeOK
<1>2. \A d \in Conn : LinkOK(d)'
  BY <1>0, Zenon DEF LinkOK, Inv
<1>3. ClientOK'
  BY Zenon, <1>0 DEF ClientOK
<1>4. \A m \in Msg : InSet(m) => InSet(m)'
  <2>1. \A n \in Node : ws[n] # None => ws[n] \in File /\ ws[n] \notin Holds(j)
    BY <1>0, SMTT(30) DEF StoreOK, Holds, Job, FilesOf, TypeOK
  <2> QED
    BY Zenon, <1>0, <2>1 DEF InSet
<1>5. /\ \A c \in Conn : \A m \in 1 .. link[c].ack : m \in Msg
      /\ cconn \in Conn => \A m \in 1 .. link[cconn].rd : m \in Msg
      /\ \A m \in 1 .. chkpt : m \in Msg /\ \A n \in 1 .. low - 1 : n \in Msg
      /\ \A m \in 1 .. header : m \in Msg /\ \A n \in 1 .. low - 1 : n \in Msg
      /\ \A m \in 1 .. low - 1 : m \in Msg
  BY <1>0 DEF TypeOK, Link, Msg, DataOK
<1>6. cstate = "WANT_INITIATE" \/ cconn \in Conn
  BY <1>0, Zenon DEF ClientOK, TypeOK
<1>7. DataOK'
  BY <1>0, <1>4, <1>5, <1>6, Zenon DEF DataOK
<1> QED
  BY Zenon, <1>1, <1>2, <1>3, <1>7 DEF Inv

\* A job that starts on a file is a job.
LEMMA JobStart ==
    ASSUME NEW j \in Job, NEW f \in File
    PROVE  LET k == StartIngest(j, f)
           IN  k \in Job /\ k.conn = j.conn /\ k.todo = j.todo \ {f} /\ k.cur = f /\ k.next = 1
<1> DEFINE b == FALSE
<1>1. j.todo \ {f} \in SUBSET File /\ 1 \in 1 .. ChainLen + 1 /\ b \in BOOLEAN
  BY ConstantsAssumption DEF Job
<1>2. StartIngest(j, f) = [conn |-> j.conn, todo |-> j.todo \ {f}, cur |-> f, next |-> 1, bad |-> b]
  BY Zenon DEF StartIngest
<1> HIDE DEF b
<1> QED
  BY <1>1, <1>2 DEF Job

\* Renaming a journal preserves the invariant: its lines become secured.
LEMMA SyncRenameInv == ASSUME Inv, NEW j \in jobs, SyncRename(j) PROVE Inv' /\ Kept
<1> USE ConstantsAssumption
<1>0. TypeOK /\ ClientOK /\ StoreOK /\ j \in Job /\ up = "up" /\ j.cur = None
  BY Zenon DEF Inv, TypeOK, SyncRename
<1>1. PICK f \in j.todo : /\ kind' = [kind EXCEPT ![f] = "raw"]
                          /\ jobs' = (jobs \ {j}) \cup {StartIngest(j, f)}
  BY Zenon DEF SyncRename
<1> DEFINE k == StartIngest(j, f)
<1>2. f \in File
  BY <1>0, Zenon DEF Job
<1>3. /\ k \in Job /\ k.conn = j.conn /\ k.todo = j.todo \ {f} /\ k.cur = f /\ k.next = 1
  BY <1>0, <1>2, JobStart, Zenon
<1>4. jobs' = (jobs \ {j}) \cup {k}
  BY <1>1, Zenon
<1> HIDE DEF k
<1>5. Moves(j, k) /\ f \in Holds(j) /\ UNCHANGED <<body, taken>>
  BY <1>0, <1>2, <1>3, <1>4, Zenon DEF Moves, Holds, SyncRename, clientVars
<1>6. /\ kind' \in [File -> {"none", "tmp", "raw"}] /\ kind'[f] = "raw"
      /\ \A g \in File \ {f} : kind'[g] = kind[g]
  BY <1>0, <1>1, <1>2, Zenon DEF TypeOK
<1>7. StoreOK'
  <2>1. k.todo \subseteq File /\ f \notin k.todo
    BY <1>0, <1>3, Zenon DEF Job
  <2>2. \A i \in Ingestor : ~(i < k.next)
    BY <1>3 DEF Ingestor
  <2> QED
    BY <1>0, <1>3, <1>5, <1>6, <2>1, <2>2, MovesStore, Zenon
<1>8. \A m \in Msg : Secured(m) => Secured(m)'
  BY <1>0, <1>5, <1>6, Zenon DEF Secured, Ingested, Moves
<1>9. \A m \in Msg : InJob(m) => Secured(m)' \/ InJob(m)'
  <2> SUFFICES ASSUME NEW m \in Msg, InJob(m) PROVE Secured(m)' \/ InJob(m)'
    BY Zenon
  <2>1. PICK x \in jobs : x.conn # None /\ \E g \in x.todo : m \in body[g]
    BY Zenon DEF InJob
  <2>2. CASE x = j
    BY <1>2, <1>3, <1>4, <1>5, <1>6, <2>1, <2>2, Zenon DEF InJob, Secured
  <2>3. CASE x # j
    BY <1>4, <1>5, <2>1, <2>3, Zenon DEF InJob
  <2> QED
    BY <2>2, <2>3, Zenon
<1>10. /\ kind' \in [File -> {"none", "tmp", "raw"}] /\ body' \in [File -> SUBSET Msg]
       /\ taken' \in [Ingestor -> SUBSET Msg]
       /\ \A g \in File : g \notin Holds(j) => kind'[g] = kind[g] /\ body'[g] = body[g]
  BY <1>0, <1>5, <1>6, Zenon DEF TypeOK
<1>11. Inv'
  BY <1>5, <1>7, <1>8, <1>9, <1>10, MovesInv, Zenon
<1> QED
  BY <1>11, <1>8, Zenon DEF Kept

\* A job that goes on to its next ingestor is a job.
LEMMA JobNext ==
    ASSUME NEW j \in Job, j.next <= ChainLen, NEW k, k = [j EXCEPT !.next = @ + 1]
    PROVE  /\ k \in Job /\ k.conn = j.conn /\ k.todo = j.todo /\ k.cur = j.cur
           /\ k.next = j.next + 1 /\ k.bad = j.bad
<1>1. j.next + 1 \in 1 .. ChainLen + 1
  BY ConstantsAssumption DEF Job
<1> QED
  BY <1>1, Zenon DEF Job

\* An ingestor that takes a file over preserves the invariant.
LEMMA AcceptInv == ASSUME Inv, NEW j \in jobs, Accept(j) PROVE Inv' /\ Kept
<1> USE ConstantsAssumption
<1> DEFINE k == [j EXCEPT !.next = @ + 1]
<1>0. /\ TypeOK /\ ClientOK /\ StoreOK /\ j \in Job /\ j.cur # None /\ j.next <= ChainLen
      /\ j.cur \in File /\ j.next \in Ingestor
  BY SMTT(30) DEF Inv, TypeOK, Accept, Job, Ingestor
<1>1. /\ k \in Job /\ k.conn = j.conn /\ k.todo = j.todo /\ k.cur = j.cur
      /\ k.next = j.next + 1 /\ k.bad = j.bad
  BY <1>0, JobNext, Zenon
<1>2. Moves(j, k) /\ UNCHANGED <<kind, body>>
  BY <1>1, Zenon DEF Moves, Accept, Holds, clientVars
<1> HIDE DEF k
<1>3. /\ taken' \in [Ingestor -> SUBSET Msg] /\ \A i \in Ingestor : taken[i] \subseteq taken'[i]
      /\ body[j.cur] \subseteq taken'[j.next]
  BY <1>0, Zenon DEF Accept, TypeOK
<1>4. \A i \in Ingestor : i < k.next => k.bad \/ body'[k.cur] \subseteq taken'[i]
  BY <1>0, <1>1, <1>2, <1>3, SMTT(30) DEF StoreOK, Ingestor
<1>5. kind[j.cur] = "raw" /\ j.cur \notin j.todo
  BY <1>0, Zenon DEF StoreOK
<1>6. StoreOK'
  BY <1>0, <1>1, <1>2, <1>3, <1>4, <1>5, MovesStore, Zenon DEF TypeOK
<1>7. \A m \in Msg : Secured(m) => Secured(m)'
  BY <1>2, <1>3, Zenon DEF Secured, Ingested, Moves
<1>8. \A m \in Msg : InJob(m) => InJob(m)'
  BY <1>1, <1>2, Zenon DEF InJob, Moves
<1>9. /\ kind' \in [File -> {"none", "tmp", "raw"}] /\ body' \in [File -> SUBSET Msg]
      /\ taken' \in [Ingestor -> SUBSET Msg]
      /\ \A f \in File : f \notin Holds(j) => kind'[f] = kind[f] /\ body'[f] = body[f]
  BY Zenon, <1>0, <1>2, <1>3 DEF TypeOK
<1>10. Inv'
  BY <1>2, <1>6, <1>7, <1>8, <1>9, MovesInv, Zenon
<1> QED
  BY <1>10, <1>7, Zenon DEF Kept

\* An ingestor that refuses a file preserves the invariant.
LEMMA RefuseInv == ASSUME Inv, NEW j \in jobs, Refuse(j) PROVE Inv' /\ Kept
<1> USE ConstantsAssumption
<1> DEFINE k == [j EXCEPT !.next = @ + 1, !.bad = TRUE]
<1>0. /\ TypeOK /\ ClientOK /\ StoreOK /\ j \in Job /\ j.cur # None /\ j.next <= ChainLen
      /\ j.cur \in File
  BY Zenon DEF Inv, TypeOK, Refuse, Job
<1>1. /\ k \in Job /\ k.conn = j.conn /\ k.todo = j.todo /\ k.cur = j.cur /\ k.bad
  <2> DEFINE b == TRUE
  <2>1. j.next + 1 \in 1 .. ChainLen + 1 /\ b \in BOOLEAN
    BY <1>0 DEF Job
  <2>2. b /\ k = [j EXCEPT !.next = @ + 1, !.bad = b]
    BY Zenon
  <2> HIDE DEF b, k
  <2> QED
    BY Zenon, <1>0, <2>1, <2>2 DEF Job
<1>2. Moves(j, k) /\ UNCHANGED <<kind, body, taken>>
  BY <1>1, Zenon DEF Moves, Refuse, Holds, clientVars
<1> HIDE DEF k
<1>5. kind[j.cur] = "raw" /\ j.cur \notin j.todo
  BY <1>0, Zenon DEF StoreOK
<1>6. StoreOK'
  BY <1>0, <1>1, <1>2, <1>5, MovesStore, Zenon DEF TypeOK
<1>7. \A m \in Msg : Secured(m) => Secured(m)'
  BY Zenon, <1>2 DEF Secured, Ingested, Moves
<1>8. \A m \in Msg : InJob(m) => InJob(m)'
  BY <1>1, <1>2, Zenon DEF InJob, Moves
<1>9. /\ kind' \in [File -> {"none", "tmp", "raw"}] /\ body' \in [File -> SUBSET Msg]
      /\ taken' \in [Ingestor -> SUBSET Msg]
      /\ \A f \in File : f \notin Holds(j) => kind'[f] = kind[f] /\ body'[f] = body[f]
  BY <1>0, <1>2, Zenon DEF TypeOK
<1>10. Inv'
  BY <1>2, <1>6, <1>7, <1>8, <1>9, MovesInv, Zenon
<1> QED
  BY <1>10, <1>7, Zenon DEF Kept

\* Unlinking an ingested file preserves the invariant and takes no last copy away.
LEMMA IngestEndInv == ASSUME Inv, NEW j \in jobs, IngestEnd(j) PROVE Inv' /\ Kept
<1> USE ConstantsAssumption
<1> DEFINE k == [j EXCEPT !.cur = None]
<1>0. /\ TypeOK /\ ClientOK /\ StoreOK /\ j \in Job /\ j.cur # None /\ j.next = ChainLen + 1
      /\ j.cur \in File
  BY Zenon DEF Inv, TypeOK, IngestEnd, Job
<1>1. /\ k \in Job /\ k.conn = j.conn /\ k.todo = j.todo /\ k.cur = None
  BY <1>0, Zenon DEF Job
<1>2. Moves(j, k) /\ UNCHANGED taken
  BY <1>1, Zenon DEF Moves, IngestEnd, Holds, clientVars
<1> HIDE DEF k
<1>3. /\ kind' \in [File -> {"none", "tmp", "raw"}] /\ body' \in [File -> SUBSET Msg]
      /\ \A f \in File \ {j.cur} : kind'[f] = kind[f] /\ body'[f] = body[f]
      /\ j.bad => kind' = kind /\ body' = body
  BY <1>0, Zenon DEF IngestEnd, TypeOK
<1>4. /\ kind[j.cur] = "raw" /\ j.cur \notin j.todo /\ j.cur \in Holds(j)
      /\ j.bad \/ \A i \in Ingestor : body[j.cur] \subseteq taken[i]
  BY <1>0 DEF StoreOK, Holds, Ingestor
<1>5. k.todo \subseteq File
  BY <1>1, Zenon DEF Job
<1>6. StoreOK'
  BY <1>0, <1>1, <1>2, <1>3, <1>4, <1>5, MovesStore, Zenon
<1>7. \A m \in Msg : Secured(m) => Secured(m)'
  <2>1. CASE j.bad
    BY Zenon, <1>2, <1>3, <2>1 DEF Secured, Ingested, Moves
  <2>2. CASE ~j.bad
    BY <1>2, <1>3, <1>4, <2>2, Zenon DEF Secured, Ingested, Moves
  <2> QED
    BY <2>1, <2>2, Zenon
<1>8. \A m \in Msg : InJob(m) => InJob(m)'
  <2> SUFFICES ASSUME NEW m \in Msg, InJob(m) PROVE InJob(m)'
    BY Zenon
  <2>1. PICK x \in jobs : x.conn # None /\ \E g \in x.todo : m \in body[g]
    BY Zenon DEF InJob
  <2>2. x.todo \subseteq File /\ j.cur \notin x.todo
    BY <1>0, <1>4, Zenon DEF StoreOK, Holds, TypeOK, Job
  <2> QED
    BY <1>1, <1>2, <1>3, <2>1, <2>2 DEF InJob, Moves
<1>9. /\ kind' \in [File -> {"none", "tmp", "raw"}] /\ body' \in [File -> SUBSET Msg]
      /\ taken' \in [Ingestor -> SUBSET Msg]
      /\ \A f \in File : f \notin Holds(j) => kind'[f] = kind[f] /\ body'[f] = body[f]
  BY <1>0, <1>2, <1>3, <1>4, Zenon DEF TypeOK
<1>10. Inv'
  BY <1>2, <1>6, <1>7, <1>8, <1>9, MovesInv, Zenon
<1> QED
  BY <1>10, <1>7, Zenon DEF Kept

\* Completing a sync preserves the invariant: all its journals were renamed.
LEMMA SyncCompleteInv == ASSUME Inv, NEW j \in jobs, SyncComplete(j) PROVE Inv'
<1> USE ConstantsAssumption
<1>0. /\ TypeOK /\ (\A c \in Conn : LinkOK(c)) /\ ClientOK /\ StoreOK /\ DataOK
      /\ j \in Job /\ j.todo = {} /\ j.cur = None /\ up = "up" /\ jobs' = jobs \ {j}
      /\ cstate' = IF j.conn # None THEN "WANT_CHKPT" ELSE cstate
      /\ UNCHANGED <<produced, low, chkpt, link, cconn, count, header, needs_chkpt, up, ws,
                     kind, body, taken, unwritten>>
  BY Zenon DEF Inv, TypeOK, SyncComplete
<1>1. \A m : Secured(m)' = Secured(m) /\ InSet(m)' = InSet(m)
  BY Zenon, <1>0 DEF Secured, Ingested, InSet
<1>2. TypeOK' /\ \A d \in Conn : LinkOK(d)'
  BY <1>0, Zenon DEF TypeOK, ClientStates, LinkOK
<1>3. \A x \in jobs : x # j => x.conn = None \/ j.conn = None
  BY Zenon, <1>0 DEF StoreOK
<1>4. StoreOK'
  <2>1. /\ FilesOf(ws)' = FilesOf(ws) /\ (\A x : Holds(x)' = Holds(x))
        /\ jobs' \subseteq jobs /\ j \notin jobs'
    BY Zenon, <1>0 DEF FilesOf, Holds
  <2>2. ASSUME NEW x \in jobs'
        PROVE  /\ \A f \in x.todo : kind'[f] # "none" /\ (up' = "up" => kind'[f] = "tmp")
               /\ x.todo \cap FilesOf(ws)' = {}
               /\ x.cur # None => kind'[x.cur] = "raw" /\ x.cur \notin x.todo
               /\ x.cur # None =>
                     \A i \in Ingestor : i < x.next => x.bad \/ body'[x.cur] \subseteq taken'[i]
    BY <1>0, <2>1, Zenon DEF StoreOK
  <2>3. ASSUME NEW x \in jobs', x.conn # None
        PROVE  x.conn = cconn' /\ cstate' = "IS_ASYNC"
    BY <1>0, <1>3, <2>1, <2>3, Zenon DEF StoreOK
  <2>4. /\ \A x, y \in jobs' : x # y => Holds(x)' \cap Holds(y)' = {}
        /\ \A x, y \in jobs' : x.conn # None /\ y.conn # None => x = y
    BY Zenon, <1>0, <2>1 DEF StoreOK
  <2>5. /\ \A n \in Node : ws'[n] # None => up' = "up" /\ kind'[ws'[n]] = "tmp"
        /\ \A m, n \in Node : (m # n /\ ws'[m] = ws'[n]) => ws'[m] = None
        /\ up' = "up"
    BY Zenon, <1>0 DEF StoreOK
  <2> QED
    BY <2>2, <2>3, <2>4, <2>5, Zenon DEF StoreOK
<1>5. CASE j.conn = None
  <2>1. ClientOK'
    BY <1>0, <1>5, Zenon DEF ClientOK
  <2>2. \A m : InJob(m) => InJob(m)'
    BY Zenon, <1>0 DEF InJob
  <2>3. DataOK'
    BY Zenon, <1>0, <1>1, <1>5, <2>2 DEF DataOK
  <2> QED
    BY <1>2, <1>4, <2>1, <2>3, Zenon DEF Inv
<1>6. CASE j.conn # None
  <2>1. cstate = "IS_ASYNC" /\ cstate' = "WANT_CHKPT"
    BY <1>0, <1>6, Zenon DEF StoreOK
  <2>2. ClientOK'
    BY <1>0, <2>1, Zenon DEF ClientOK, Reading
  <2>3. \A m : ~InJob(m)
    BY <1>0, <1>3, <1>6, Zenon DEF InJob
  <2>4. DataOK'
    BY <1>0, <1>1, <2>1, <2>3, Zenon DEF DataOK
  <2> QED
    BY <1>2, <1>4, <2>2, <2>4, Zenon DEF Inv
<1> QED
  BY <1>5, <1>6, Zenon

\* A crash of the stratcond preserves the invariant.
LEMMA CrashInv == ASSUME Inv, Crash PROVE Inv'
<1> USE ConstantsAssumption
<1>0. /\ TypeOK /\ (\A c \in Conn : LinkOK(c)) /\ ClientOK /\ StoreOK /\ DataOK
      /\ link \in [Conn -> Link] /\ up' = "down" /\ cstate' = "WANT_INITIATE" /\ cconn' = None
      /\ count' = 0 /\ header' = 0 /\ needs_chkpt' = FALSE /\ jobs' = {}
      /\ link' = [c \in Conn |-> ClientEndClosed(c)] /\ ws' = [n \in Node |-> None]
      /\ UNCHANGED <<produced, low, chkpt, kind, body, taken, unwritten>>
  BY Zenon DEF Inv, TypeOK, Crash
<1>1. \A m : Secured(m)' = Secured(m)
  BY Zenon, <1>0 DEF Secured, Ingested
<1>2. ASSUME NEW c \in Conn
      PROVE  /\ link'[c] \in Link /\ link'[c].thr = link[c].thr /\ link'[c].rd = 0
             /\ link'[c].cnt = 0 /\ link'[c].ack = link[c].ack
             /\ link'[c].thr # "none" => link'[c].sent = link[c].sent /\ link'[c].last = link[c].last
             /\ link'[c].thr = "none" => link'[c] = Closed
  <2>1. link'[c] = ClientEndClosed(c)
    BY <1>0, Zenon
  <2>2. link[c].thr = "none" => link[c].ack = 0
    BY <1>0, Zenon DEF LinkOK
  <2> QED
    BY <1>0, <2>1, <2>2, ClientEndClosedFields, Zenon
<1>3. TypeOK'
  <2>1. needs_chkpt' \in BOOLEAN
    BY <1>0, Zenon
  <2>2. link' \in [Conn -> Link]
    BY <1>0, <1>2, Zenon
  <2> QED
    BY <1>0, <2>1, <2>2 DEF TypeOK, ClientStates
<1>4. ASSUME NEW d \in Conn PROVE LinkOK(d)'
  <2>0. LinkOK(d) /\ produced' = produced /\ produced \in Nat /\ cconn' # d /\ link[d] \in Link
    BY <1>0, SMTT(30) DEF TypeOK
  <2>1. CASE link[d].thr = "none"
    BY <1>2, <2>0, <2>1, ClosedFields, SMTT(30) DEF LinkOK
  <2>2. CASE link[d].thr # "none"
    BY <1>2, <2>0, <2>2, SMTT(30) DEF LinkOK, Link
  <2> QED
    BY <2>1, <2>2, Zenon
<1>5. ClientOK'
  BY <1>0, Zenon DEF ClientOK, Reading
<1>6. StoreOK'
  BY <1>0, Zenon DEF StoreOK
<1>7. DataOK'
  BY <1>0, <1>1, <1>2, Zenon DEF DataOK
<1> QED
  BY <1>3, <1>4, <1>5, <1>6, <1>7, Zenon DEF Inv

\* Starting the sweep preserves the invariant.
LEMMA SweepBeginInv == ASSUME Inv, SweepBegin PROVE Inv'
<1> USE ConstantsAssumption
<1> DEFINE b == FALSE
           k == [conn |-> None, todo |-> {f \in File : kind[f] # "none"}, cur |-> None,
                 next |-> 1, bad |-> b]
<1>0. /\ TypeOK /\ (\A c \in Conn : LinkOK(c)) /\ ClientOK /\ StoreOK /\ DataOK
      /\ up = "down" /\ up' = "sweep" /\ jobs' = {k} /\ b \in BOOLEAN
      /\ UNCHANGED <<produced, low, chkpt, link, cconn, cstate, count, header, needs_chkpt, ws,
                     kind, body, taken, unwritten>>
  BY Zenon DEF Inv, SweepBegin, clientVars
<1> HIDE DEF b
<1>1. k \in Job /\ k.conn = None /\ k.todo = {f \in File : kind[f] # "none"} /\ k.cur = None
  BY <1>0 DEF Job
<1> HIDE DEF k
<1>2. cconn = None /\ cstate = "WANT_INITIATE" /\ \A n \in Node : ws[n] = None
  BY Zenon, <1>0 DEF ClientOK, StoreOK
<1>3. \A m : Secured(m)' = Secured(m)
  BY Zenon, <1>0 DEF Secured, Ingested
<1>4. TypeOK' /\ \A c \in Conn : LinkOK(c)'
  BY Zenon, <1>0, <1>1 DEF TypeOK, LinkOK
<1>5. ClientOK'
  BY <1>0, <1>2, Zenon DEF ClientOK, Reading
<1>6. StoreOK'
  BY <1>0, <1>1, <1>2, SMTT(30) DEF StoreOK, FilesOf
<1>7. DataOK'
  BY <1>0, <1>2, <1>3, Zenon DEF DataOK
<1> QED
  BY <1>4, <1>5, <1>6, <1>7, Zenon DEF Inv

\* The end of the sweep preserves the invariant.
LEMMA SweepEndInv == ASSUME Inv, NEW j \in jobs, SweepEnd(j) PROVE Inv'
<1> USE ConstantsAssumption
<1>0. /\ TypeOK /\ (\A c \in Conn : LinkOK(c)) /\ ClientOK /\ StoreOK /\ DataOK
      /\ up = "sweep" /\ up' = "up" /\ jobs' = {}
      /\ UNCHANGED <<produced, low, chkpt, link, cconn, cstate, count, header, needs_chkpt, ws,
                     kind, body, taken, unwritten>>
  BY Zenon DEF Inv, SweepEnd, clientVars
<1>1. cconn = None /\ cstate = "WANT_INITIATE" /\ \A n \in Node : ws[n] = None
  BY <1>0, Zenon DEF ClientOK, StoreOK
<1>2. \A m : Secured(m)' = Secured(m)
  BY Zenon, <1>0 DEF Secured, Ingested
<1>3. TypeOK' /\ \A c \in Conn : LinkOK(c)'
  BY <1>0, Zenon DEF TypeOK, LinkOK
<1>4. ClientOK' /\ StoreOK'
  BY <1>0, <1>1, Zenon DEF ClientOK, Reading, StoreOK
<1>5. DataOK'
  BY Zenon, <1>0, <1>1, <1>2 DEF DataOK
<1> QED
  BY <1>3, <1>4, <1>5, Zenon DEF Inv

\* Sweeping a file preserves the invariant: only .tmp journals are dropped.
LEMMA SweepEntryInv == ASSUME Inv, NEW j \in jobs, SweepEntry(j) PROVE Inv' /\ Kept
<1> USE ConstantsAssumption
<1>0. /\ TypeOK /\ ClientOK /\ StoreOK /\ j \in Job /\ up = "sweep" /\ j.cur = None
      /\ jobs \ {j} = {}
      /\ UNCHANGED <<produced, low, chkpt, link, cconn, cstate, count, header, needs_chkpt, up,
                     ws, taken, unwritten>>
  BY Zenon DEF Inv, TypeOK, StoreOK, SweepEntry, clientVars
<1>1. cstate = "WANT_INITIATE"
  BY <1>0, Zenon DEF ClientOK
<1>2. PICK f \in j.todo :
          \/ /\ kind[f] = "tmp" /\ kind' = [kind EXCEPT ![f] = "none"]
             /\ body' = [body EXCEPT ![f] = {}] /\ jobs' = {[j EXCEPT !.todo = @ \ {f}]}
          \/ /\ kind[f] = "raw" /\ UNCHANGED <<kind, body>> /\ jobs' = {StartIngest(j, f)}
  BY Zenon DEF SweepEntry
<1>3. f \in File /\ f \in Holds(j)
  BY <1>0, Zenon DEF Job, Holds
<1>4. CASE /\ kind[f] = "tmp" /\ kind' = [kind EXCEPT ![f] = "none"]
           /\ body' = [body EXCEPT ![f] = {}] /\ jobs' = {[j EXCEPT !.todo = @ \ {f}]}
  <2> DEFINE k == [j EXCEPT !.todo = @ \ {f}]
  <2>1. k \in Job /\ k.conn = j.conn /\ k.todo = j.todo \ {f} /\ k.cur = None
    BY <1>0, Zenon DEF Job
  <2>2. jobs' = (jobs \ {j}) \cup {k}
    BY <1>0, <1>4, Zenon
  <2> HIDE DEF k
  <2>3. Moves(j, k)
    BY <1>0, <2>1, <2>2, Zenon DEF Moves, Holds
  <2>4. /\ kind' \in [File -> {"none", "tmp", "raw"}] /\ body' \in [File -> SUBSET Msg]
        /\ \A g \in File \ {f} : kind'[g] = kind[g] /\ body'[g] = body[g]
    BY <1>0, <1>3, <1>4, Zenon DEF TypeOK
  <2>5. k.todo \subseteq File /\ f \notin k.todo
    BY <2>1, Zenon DEF Job
  <2>6. StoreOK'
    BY <1>0, <1>3, <2>1, <2>3, <2>4, <2>5, MovesStore, Zenon
  <2>7. \A m \in Msg : Secured(m) => Secured(m)'
    BY <1>0, <1>4, <2>4, Zenon DEF Secured, Ingested
  <2>8. /\ kind' \in [File -> {"none", "tmp", "raw"}] /\ body' \in [File -> SUBSET Msg]
        /\ taken' \in [Ingestor -> SUBSET Msg]
        /\ \A g \in File : g \notin Holds(j) => kind'[g] = kind[g] /\ body'[g] = body[g]
    BY <1>0, <1>3, <2>4, Zenon DEF TypeOK
  <2>9. Inv'
    BY <1>1, <2>3, <2>6, <2>7, <2>8, MovesInv, Zenon
  <2> QED
    BY <2>9, <2>7, Zenon DEF Kept
<1>5. CASE kind[f] = "raw" /\ UNCHANGED <<kind, body>> /\ jobs' = {StartIngest(j, f)}
  <2> DEFINE k == StartIngest(j, f)
  <2>1. k \in Job /\ k.conn = j.conn /\ k.todo = j.todo \ {f} /\ k.cur = f /\ k.next = 1
    BY Zenon, <1>0, <1>3, JobStart
  <2>2. jobs' = (jobs \ {j}) \cup {k}
    BY <1>0, <1>5, Zenon
  <2> HIDE DEF k
  <2>3. Moves(j, k)
    BY <1>0, <1>3, <2>1, <2>2, Zenon DEF Moves, Holds
  <2>4. \A i \in Ingestor : ~(i < k.next)
    BY <2>1 DEF Ingestor
  <2>5. StoreOK'
    BY Zenon, <1>0, <1>5, <2>1, <2>3, <2>4, MovesStore DEF TypeOK
  <2>6. \A m \in Msg : Secured(m) => Secured(m)'
    BY Zenon, <1>0, <1>5 DEF Secured, Ingested
  <2>7. /\ kind' \in [File -> {"none", "tmp", "raw"}] /\ body' \in [File -> SUBSET Msg]
        /\ taken' \in [Ingestor -> SUBSET Msg]
        /\ \A g \in File : g \notin Holds(j) => kind'[g] = kind[g] /\ body'[g] = body[g]
    BY <1>0, <1>5, Zenon DEF TypeOK
  <2>8. Inv'
    BY <1>1, <2>3, <2>5, <2>6, <2>7, MovesInv, Zenon
  <2> QED
    BY <2>8, <2>6, Zenon DEF Kept
<1> QED
  BY <1>2, <1>4, <1>5, Zenon

\* A step that leaves files, taken and unwritten alone takes no copy away.
LEMMA SameCopies ==
    ASSUME UNCHANGED <<kind, body, taken, unwritten>>
    PROVE  Kept
BY Zenon DEF Kept, Secured, Ingested

\* Inv is inductive and no step takes a copy away: one case per action.
LEMMA NextInv == ASSUME Inv, [Next]_vars PROVE Inv' /\ Kept
<1>1. CASE UNCHANGED vars
  <2>1. TypeOK' /\ (\A c \in Conn : LinkOK(c)') /\ ClientOK'
    BY <1>1, Zenon DEF Inv, vars, clientVars, storeVars, TypeOK, LinkOK, ClientOK
  <2>2. StoreOK'
    <3>1. /\ StoreOK /\ FilesOf(ws)' = FilesOf(ws) /\ \A x : Holds(x)' = Holds(x)
          /\ UNCHANGED <<up, ws, jobs, kind, body, taken, cconn, cstate>>
      BY Zenon, <1>1 DEF Inv, vars, clientVars, storeVars, FilesOf, Holds
    <3> QED
      BY <3>1, ZenonT(30) DEF StoreOK
  <2>3. DataOK'
    BY <1>1, Zenon DEF Inv, vars, clientVars, storeVars, DataOK, Secured, Ingested, InSet, InJob
  <2> QED
    BY <1>1, <2>1, <2>2, <2>3, SameCopies, Zenon DEF Inv, vars, storeVars
<1>2. CASE Produce
  BY <1>2, ProduceInv, SameCopies, Zenon DEF Produce, storeVars
<1>3. CASE Crash
  BY <1>3, CrashInv, SameCopies, Zenon DEF Crash
<1>4. CASE SweepBegin
  BY <1>4, SweepBeginInv, SameCopies, Zenon DEF SweepBegin
<1>5. ASSUME NEW c \in Conn, ConnStep(c) PROVE Inv' /\ Kept
  <2>1. CASE Handler(c)
    BY <2>1, HandlerInv, SameCopies, Zenon DEF Handler, storeVars
  <2>2. CASE HandlerError(c)
    BY Zenon, <2>2, HandlerErrorInv, SameCopies DEF HandlerError, storeVars
  <2>3. CASE ReadInterval(c)
    BY <2>3, ReadIntervalInv, SameCopies, Zenon DEF ReadInterval, storeVars
  <2>4. CASE Push(c)
    BY Zenon, <2>4, PushInv, SameCopies DEF Push, storeVars
  <2>5. CASE ReadCheckpoint(c)
    BY <2>5, ReadCheckpointInv, SameCopies, Zenon DEF ReadCheckpoint, storeVars
  <2>6. CASE ThreadDone(c)
    BY <2>6, ThreadDoneInv, SameCopies, Zenon DEF ThreadDone, storeVars
  <2>7. CASE Initiate(c)
    BY <2>7, InitiateInv, SameCopies, Zenon DEF Initiate, storeVars
  <2> QED
    BY <1>5, <2>1, <2>2, <2>3, <2>4, <2>5, <2>6, <2>7, Zenon DEF ConnStep
<1>6. CASE ClientStep
  <2>1. CASE SocketError \/ RemoveNoit \/ ReadError
    <3>1. cconn # None /\ CloseClient
      BY <2>1, Zenon DEF SocketError, RemoveNoit, ReadError, Inv, ClientOK
    <3> QED
      BY <3>1, CloseClientInv, SameCopies, Zenon DEF CloseClient
  <2>2. CASE ReadCount
    BY <2>2, ReadCountInv, SameCopies, Zenon DEF ReadCount, storeVars
  <2>3. CASE ReadHeader
    BY <2>3, ReadHeaderInv, SameCopies, Zenon DEF ReadHeader, storeVars
  <2>4. CASE ReadLine
    BY <2>4, ReadLineInv, Zenon
  <2>5. CASE ReadEmpty
    BY <2>5, ReadEmptyInv, Zenon
  <2>6. CASE WriteCheckpoint
    BY <2>6, WriteCheckpointInv, SameCopies, Zenon DEF WriteCheckpoint, storeVars
  <2> QED
    BY <1>6, <2>1, <2>2, <2>3, <2>4, <2>5, <2>6, Zenon DEF ClientStep
<1>7. ASSUME NEW j \in jobs, JobStep(j) PROVE Inv' /\ Kept
  <2>1. CASE SyncComplete(j)
    BY <2>1, SyncCompleteInv, SameCopies, Zenon DEF SyncComplete
  <2>2. CASE SweepEnd(j)
    BY <2>2, SweepEndInv, SameCopies, Zenon DEF SweepEnd
  <2> QED
    BY <1>7, <2>1, <2>2, SyncRenameInv, AcceptInv, RefuseInv, IngestEndInv, SweepEntryInv, Zenon DEF JobStep
<1> QED
  BY <1>1, <1>2, <1>3, <1>4, <1>5, <1>6, <1>7, Zenon DEF Next

\* The state of the two ends, the files and the jobs always fit together.
THEOREM Invariance == Spec => []Inv
<1>1. Init => Inv
  BY InitInv, Zenon
<1>2. Inv /\ [Next]_vars => Inv'
  BY NextInv, Zenon
<1> QED
  BY <1>1, <1>2, PTL DEF Spec

\* Every variable of the feed stays in its type.
THEOREM TypeCorrect == Spec => []TypeOK
<1>1. Inv => TypeOK
  BY Zenon DEF Inv
<1> QED
  BY <1>1, Invariance, PTL

\* The noitd never passes a message that could still be lost: for any number of
\* messages, connections, files, storage nodes and ingestors.
THEOREM NoLoss == Spec => []NoAckedLoss
<1>1. Inv => NoAckedLoss
  BY ReadFromSecured, Zenon DEF NoAckedLoss
<1> QED
  BY <1>1, Invariance, PTL

\* No checkpoint a client sends is rejected by the noitd.
THEOREM CheckpointsAgree == Spec => []NoInvalidCheckpoint
<1>1. Inv => NoInvalidCheckpoint
  BY Zenon DEF Inv, LinkOK, NoInvalidCheckpoint
<1> QED
  BY <1>1, Invariance, PTL

\* A batch that needs a sync has a working set to sync.
THEOREM WorkingSetFound == Spec => []SyncFindsWorkingSet
<1>1. Inv => SyncFindsWorkingSet
  BY Zenon DEF Inv, ClientOK, SyncFindsWorkingSet, FilesOf
<1> QED
  BY <1>1, Invariance, PTL

\* No two owners of one journal file.
THEOREM FilesHaveOneOwner == Spec => []OneOwner
<1>1. Inv => OneOwner
  <2> SUFFICES ASSUME Inv PROVE OneOwner
    BY Zenon
  <2>1. ASSUME NEW j \in jobs PROVE Holds(j) \cap FilesOf(ws) = {}
    BY <2>1, SMTT(30) DEF Inv, StoreOK, Holds, FilesOf
  <2>2. \A f \in FilesOf(ws) : kind[f] = "tmp"
    BY DEF Inv, StoreOK, FilesOf
  <2> QED
    BY <2>1, <2>2, Zenon DEF OneOwner, Inv, StoreOK
<1> QED
  BY <1>1, Invariance, PTL

\* A secured message stays secured, whatever step is taken.
THEOREM SecuredStays == Spec => SecuredForever
<1>1. Inv /\ [Next]_vars => [\A m \in Msg : Secured(m) => Secured(m)']_vars
  BY NextInv, Zenon DEF Kept
<1> QED
  BY <1>1, Invariance, PTL DEF Spec, SecuredForever

\* What lies below the later of two positions lies below one of them.
LEMMA LaterOfTwo ==
    ASSUME NEW c \in 0 .. MaxMsg, NEW l \in 1 .. MaxMsg + 1, NEW p \in 0 .. MaxMsg,
           c <= p, l <= p + 1
    PROVE  LET r == IF c + 1 < l THEN l ELSE c + 1
           IN  /\ r - 1 \in 0 .. p
               /\ \A m \in 1 .. r - 1 : m \in 1 .. p /\ (m \in 1 .. c \/ m \in 1 .. l - 1)
BY ConstantsAssumption

\* After a step the read position is again in the journal, with everything below
\* it secured.
LEMMA NextReadFrom ==
    ASSUME Inv'
    PROVE  /\ ReadFrom' - 1 \in 0 .. produced'
           /\ \A m \in 1 .. ReadFrom' - 1 : m \in 1 .. produced' /\ Secured(m)'
<1>1. TypeOK' /\ DataOK'
  BY Zenon DEF Inv
<1>2. /\ chkpt' \in 0 .. MaxMsg /\ low' \in 1 .. MaxMsg + 1 /\ produced' \in 0 .. MaxMsg
  BY <1>1, Zenon DEF TypeOK
<1>3. /\ chkpt' <= produced' /\ low' <= produced' + 1
      /\ \A m \in 1 .. chkpt' : Secured(m)'
      /\ \A m \in 1 .. low' - 1 : Secured(m)'
  BY <1>1, Zenon DEF DataOK
<1> DEFINE r == IF chkpt' + 1 < low' THEN low' ELSE chkpt' + 1
<1>4. /\ r - 1 \in 0 .. produced'
      /\ \A m \in 1 .. r - 1 : m \in 1 .. produced' /\ (m \in 1 .. chkpt' \/ m \in 1 .. low' - 1)
  BY <1>2, <1>3, LaterOfTwo, Zenon
<1>5. r = ReadFrom'
  BY Zenon DEF ReadFrom
<1> HIDE DEF r
<1>6. \A m \in 1 .. r - 1 : m \in 1 .. produced' /\ Secured(m)'
  BY <1>3, <1>4, Zenon
<1> QED
  BY <1>4, <1>5, <1>6, Zenon

\* The detailed feed implements FeedDelivery.
THEOREM FeedImplementsDelivery == Spec => ImplementsDelivery
<1> USE ConstantsAssumption
<1> DEFINE safe == {m \in 1 .. produced : Secured(m)}
<1>1. Init => Delivers!Init
  BY DEF Init, Delivers!Init, ReadFrom
<1>2. ASSUME Inv, Inv', [Next]_vars PROVE [Delivers!Next]_(Delivers!vars)
  <2>0. /\ produced \in 0 .. MaxMsg /\ produced' \in 0 .. MaxMsg /\ Kept
        /\ \A m \in 1 .. produced : m \in Msg
    BY <1>2, NextInv, SMTT(30) DEF Inv, TypeOK, Msg
  <2>1. CASE Produce
    <3>1. /\ produced < MaxMsg /\ produced' = produced + 1 /\ ReadFrom' = ReadFrom
          /\ \A m : Secured(m)' = Secured(m)
      BY <2>1, Zenon DEF Produce, ReadFrom, storeVars, Secured, Ingested
    <3>2. safe' \in {safe, safe \cup {produced + 1}}
      <4>1. CASE Secured(produced + 1)
        BY <2>0, <3>1, <4>1
      <4>2. CASE ~Secured(produced + 1)
        BY <2>0, <3>1, <4>2
      <4> QED
        BY <4>1, <4>2, Zenon
    <3> QED
      BY <3>1, <3>2, Zenon DEF Delivers!Next, Delivers!Write
  <2>2. CASE produced' = produced /\ low' = low /\ chkpt' = chkpt
    <3>1. ReadFrom' = ReadFrom
      BY <2>2, Zenon DEF ReadFrom
    <3>2. safe \subseteq safe' /\ safe' \in SUBSET (1 .. produced)
      BY <2>0, <2>2, Zenon DEF Kept
    <3>3. \E S \in SUBSET (1 .. produced) : safe' = safe \cup S
      BY <3>2, Zenon
    <3> QED
      BY <2>2, <3>1, <3>3, Zenon DEF Delivers!Next, Delivers!Secure
  <2>3. ASSUME NEW c \in Conn, ReadCheckpoint(c) PROVE Delivers!Next
    <3>1. produced' = produced /\ safe' = safe
      BY <2>3, Zenon DEF ReadCheckpoint, storeVars, Secured, Ingested
    <3>2. /\ ReadFrom' - 1 \in 0 .. produced
          /\ \A m \in 1 .. ReadFrom' - 1 : m \in 1 .. produced /\ Secured(m)'
      BY <1>2, <2>0, <3>1, NextReadFrom, Zenon
    <3>3. (1 .. ReadFrom' - 1) \subseteq safe
      BY <3>1, <3>2, Zenon
    <3> QED
      BY <3>1, <3>2, <3>3, Zenon DEF Delivers!Next, Delivers!Advance
  <2>4. \/ Produce \/ (produced' = produced /\ low' = low /\ chkpt' = chkpt)
        \/ \E c \in Conn : ReadCheckpoint(c)
    BY Zenon, <1>2 DEF Next, ConnStep, ClientStep, JobStep, vars, Crash, SweepBegin, Handler,
        HandlerError, ReadInterval, Push, ThreadDone, Initiate, SocketError, RemoveNoit,
        ReadError, CloseClient, ReadCount, ReadHeader, ReadLine, ReadEmpty, EndOfMessage,
        WriteCheckpoint, SyncRename, Accept, Refuse, IngestEnd, SyncComplete, SweepEntry,
        SweepEnd
  <2> QED
    BY <2>1, <2>2, <2>3, <2>4, Zenon
<1> QED
  BY <1>1, <1>2, Invariance, PTL DEF Spec, ImplementsDelivery, Delivers!Spec
============================================================================
